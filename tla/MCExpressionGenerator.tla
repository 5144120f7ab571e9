------------------------- MODULE MCExpressionGenerator -------------------------
(***************************************************************************)
(* Instances of ExpressionGenerator.                                       *)
(***************************************************************************)
EXTENDS ExpressionGenerator

Sig(tps, params, ret) == [tps |-> tps, params |-> params, ret |-> ret, inline |-> FALSE]

(* The first function can call the second.                                 *)
GenericFunctions ==
  <<Sig(<<"T1", "U1">>, <<<<"T1">>>>, <<"T1">>),
    Sig(<<"T2">>, <<<<"T2">>, <<"T2">>>>, Num)>>

Sigs == INSTANCE Signatures

(* Signatures that generate_function_signature can draw.                   *)
ASSUME SignaturesAssumption ==
  \A f \in DOMAIN GenericFunctions :
    GenericFunctions[f] \in
      Sigs!FunctionSignatures(Num, Untyped, GenericFunctions[f].tps, 0 .. 2, FALSE)

PlainFunction == <<Sig(<< >>, << >>, Untyped)>>

(* The struct with all abilities, and one without fields.                  *)
Structs == [s \in {"S", "P"} |-> IF s = "S" THEN <<Num>> ELSE << >>]

ShallowRing == <<2, 1>>
=============================================================================
