------------------------------ MODULE Signatures ------------------------------
(***************************************************************************)
(* What generate_type_parameter and generate_function_signature draw: the  *)
(* abilities of type parameters, and the signatures of functions.  The     *)
(* caller says what the types are; num stands for all numbers and bool.    *)
(* The reference to the signer every function gets first is left out.      *)
(***************************************************************************)
EXTENDS Naturals, Sequences, Functions

Abilities == {"copy", "drop", "store", "key"}
Primitives == {"copy", "drop", "store"}

(* generate_type_parameter: the abilities it may have.                     *)
TypeParameterAbilities(include, exclude) ==
  {a \in SUBSET (Abilities \ exclude) : include \ exclude \subseteq a}

StructParameterAbilities == TypeParameterAbilities({"copy", "drop"}, {})

FunctionParameterAbilities == TypeParameterAbilities({"copy", "drop"}, {"key"})

(* A return type that is a type parameter gets a parameter of its own      *)
(* unless one has that type.                                               *)
WithReturnable(params, ret, own) ==
  IF ret \in own \ Range(params) THEN Append(params, ret) ELSE params

(* generate_function_signature: parameters and return type are numbers or  *)
(* own type parameters.  References are all removed from the choices,      *)
(* since is_type_parameter is asked of the reference and not of what it    *)
(* refers to.  none stands for no return type.                             *)
FunctionSignatures(num, none, tps, counts, inlineAllowed) ==
  LET own == {<<tp>> : tp \in Range(tps)}
  IN  {[tps |-> tps, params |-> WithReturnable(params, ret, own), ret |-> ret,
        inline |-> inline] :
       params \in UNION {[1 .. n -> {num} \cup own] : n \in counts},
       ret \in {num, none} \cup own,
       inline \in {FALSE} \cup {inlineAllowed}}
=============================================================================
