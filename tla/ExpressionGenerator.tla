-------------------------- MODULE ExpressionGenerator --------------------------
(***************************************************************************)
(* move_smith.rs: filling the bodies of a module's functions, and the      *)
(* calls of their runners.                                                 *)
(*                                                                         *)
(* The generator is a set of functions that call each other.  Their call   *)
(* stack is here the agenda: what is still to be generated, in order.  An  *)
(* action takes the first item and puts what that function calls in its    *)
(* place.  Every choice the code draws from its input is a choice here;    *)
(* the tree that is built is left out.                                     *)
(*                                                                         *)
(* A type is a sequence: <<"num">> for all numbers and for bool, <<s>> for *)
(* struct s, <<T>> for type parameter T, and "&", "&mut" or "vec" in front *)
(* of one of these.  Addresses and signers are fixed variables in the code *)
(* and need no generation.  A scope is the number of a function followed   *)
(* by the numbers of the blocks entered.                                   *)
(***************************************************************************)
EXTENDS DepthRing, SequencesExt

CONSTANTS
  Functions,      (* The signatures: [tps, params, ret, inline], in order. *)
  StructFields,   (* Per struct without type parameters, its field types.  *)
  KeyStructs,     (* The structs that have key.                            *)
  NumStmts,       (* num_stmts_in_block, drawn once.                       *)
  NumAdditional,  (* num_additional_operations_in_func, drawn once.        *)
  MaxElems,       (* How many elements a vector literal has at most.       *)
  AllowRecursiveCalls (* config.allow_recursive_calls.                     *)

Num == <<"num">>
Untyped == << >>
Root == << >>

TypeParameters == UNION {ToSet(Functions[f].tps) : f \in DOMAIN Functions}

StructTypes == {<<s>> : s \in DOMAIN StructFields}
PlainTypes == {Num} \cup StructTypes \cup {<<tp>> : tp \in TypeParameters}
References == {<<r>> \o t : r \in {"&", "&mut"}, t \in PlainTypes}

(* No signature and no field mentions a reference or a vector (Signatures, *)
(* Skeletons), and names tell the kinds of types apart (Names).            *)
ASSUME GeneratorAssumption ==
  /\ NumStmts \in Nat /\ NumAdditional \in Nat /\ MaxElems \in Nat
  /\ AllowRecursiveCalls \in BOOLEAN
  /\ KeyStructs \subseteq DOMAIN StructFields
  /\ Functions \in Seq(ToSet(Functions))
  /\ \A f \in DOMAIN Functions :
       /\ Functions[f].params \in Seq(PlainTypes)
       /\ Functions[f].ret \in PlainTypes \cup {Untyped}
  /\ \A s \in DOMAIN StructFields : StructFields[s] \in Seq(PlainTypes)
  /\ DOMAIN StructFields \cap TypeParameters = {}
  /\ {"num", "&", "&mut", "vec"} \cap (DOMAIN StructFields \cup TypeParameters) = {}

(* A signature mentions no type parameter but its own, and a function that *)
(* returns one has a parameter of it (Signatures); no two functions have a *)
(* type parameter in common (Names).                                       *)
ASSUME ScopingAssumption ==
  \A f \in DOMAIN Functions :
    LET own == ToSet(Functions[f].tps)
    IN  /\ \A t \in ToSet(Functions[f].params) \cup {Functions[f].ret} :
             t \in {<<tp>> : tp \in TypeParameters} => t[1] \in own
        /\ Functions[f].ret \in {<<tp>> : tp \in own} =>
             Functions[f].ret \in ToSet(Functions[f].params)
        /\ \A g \in DOMAIN Functions \ {f} : own \cap ToSet(Functions[g].tps) = {}

(* A struct without type parameters has none in its fields, and contains   *)
(* itself in none of them, however deep (StructGraph): what it is built of *)
(* are some types that are built of each other only.                       *)
ASSUME FieldsAssumption ==
  \A s \in DOMAIN StructFields :
    \E parts \in SUBSET (({Num} \cup StructTypes) \ {<<s>>}) :
      \A u \in DOMAIN StructFields :
        u = s \/ <<u>> \in parts => ToSet(StructFields[u]) \subseteq parts

VARIABLES
  agenda,         (* The work that is left, the next item first.           *)
  vars,           (* The variables of the current function, by number.     *)
  depth,          (* env.expr_depth.                                       *)
  concrete,       (* TypePool::parameter_types: a stack per type parameter.*)
  status          (* "running", "failed" (an Err) or "panicked".           *)

state == <<agenda, vars, depth, concrete, status>>

IsRef(t) == t[1] \in {"&", "&mut"}

FunctionOf(scope) == IF scope = Root THEN 0 ELSE scope[1]
LocalParameters(scope) ==
  IF scope = Root THEN {} ELSE ToSet(Functions[FunctionOf(scope)].tps)

-----------------------------------------------------------------------------
(***************************************************************************)
(* Looking things up in the environment.                                   *)
(***************************************************************************)

IsInScope(scope, parent) == IsPrefix(parent, scope)

(* get_identifiers_all: an identifier without a type is not found.         *)
IdentifiersAll(scope) ==
  {v \in DOMAIN vars : IsInScope(scope, vars[v].scope) /\ vars[v].type # Untyped}

Identifiers(scope) == {v \in IdentifiersAll(scope) : vars[v].type[1] # "vec"}
VectorIdentifiers(scope) == {v \in IdentifiersAll(scope) : vars[v].type[1] = "vec"}

LiveVariables(scope, type) ==
  {v \in Identifiers(scope) : vars[v].type = type /\ vars[v].live}

(* Mutation of InstantiatableParameters: all local type parameters.        *)
InstantiatableParametersAll(scope) == {<<tp>> : tp \in LocalParameters(scope)}

(* filter_instantiatable_types: the local type parameters of which there   *)
(* is a variable.                                                          *)
InstantiatableParameters(scope) ==
  {<<tp>> : tp \in LocalParameters(scope)} \cap {vars[v].type : v \in Identifiers(scope)}

StructsInScope(scope) == IF scope = Root THEN {} ELSE {<<s>> : s \in DOMAIN StructFields}

TypesWithAbilities(scope) ==
  {Num} \cup StructsInScope(scope) \cup InstantiatableParameters(scope)

GetRandomType(scope, structs, params, refs) ==
  LET base == {Num} \cup (IF structs THEN StructsInScope(scope) ELSE {})
                    \cup (IF params THEN InstantiatableParameters(scope) ELSE {})
  IN  base \cup (IF refs THEN {<<r>> \o t : r \in {"&", "&mut"}, t \in base} ELSE {})

IsTypeConcretizable(type, scope) ==
  /\ type[1] # "vec"
  /\ Last(type) \in TypeParameters \ LocalParameters(scope)

(* What concretize_type may answer; the type itself where it answers None. *)
ConcretizeType(type, scope) ==
  IF IsTypeConcretizable(type, scope)
    THEN {Front(type) \o c : c \in TypesWithAbilities(scope)}
    ELSE {type}

(* The type under the type arguments in force.                             *)
MeaningIn(stacks, type) ==
  IF Last(type) \in TypeParameters /\ stacks[Last(type)] # << >>
    THEN Front(type) \o Last(stacks[Last(type)])
    ELSE type
Meaning(type) == MeaningIn(concrete, type)

(* generate_expression_of_type looks up the type arguments of a bare type  *)
(* parameter only.                                                         *)
Resolve(type) == IF Len(type) = 1 THEN Meaning(type) ELSE type

(* get_callable_functions: all of them, or only those after the caller.    *)
CallableFunctions(scope) ==
  {f \in DOMAIN Functions : AllowRecursiveCalls \/ FunctionOf(scope) < f}

-----------------------------------------------------------------------------
(***************************************************************************)
(* Items of the agenda.  want is the type that the position the expression *)
(* is generated for needs: a history, for the properties.                  *)
(***************************************************************************)

Expression(scope, type, var, call, want) ==
  [do |-> "expression", scope |-> scope, type |-> type, var |-> var, call |-> call,
   want |-> want]
Value(scope, type) == Expression(scope, type, TRUE, TRUE, type)

BlockOf(scope, type, want) ==
  [do |-> "block", scope |-> scope, type |-> type, want |-> want]
CallTo(f, scope, var) == [do |-> "call", scope |-> scope, f |-> f, var |-> var]
Record(scope, v) == [do |-> "record", scope |-> scope, id |-> v]
Bind(scope, v, type) == [do |-> "bind", scope |-> scope, id |-> v, type |-> type]
SetMax(limit) == [do |-> "set_max_depth", limit |-> limit]
ResetMax == [do |-> "reset_max_depth"]
Decrease == [do |-> "decrease_depth"]

(* The items one after the other, each under a limit of its own.           *)
UnderEach(limit, items) ==
  [k \in 1 .. 3 * Len(items) |->
     CASE k % 3 = 1 -> SetMax(limit)
       [] k % 3 = 2 -> items[(k \div 3) + 1]
       [] k % 3 = 0 -> ResetMax]

At(what) == agenda # << >> /\ Head(agenda).do = what
Do(items) == agenda' = items \o Tail(agenda)

NewVar(scope, type, live) == [scope |-> scope, type |-> type, live |-> live]

Initially ==
  [agenda |-> [i \in DOMAIN Functions |->
                 [do |-> "function", f |-> Len(Functions) + 1 - i]]
              \o <<[do |-> "runners"]>>,
   concrete |-> [tp \in TypeParameters |-> << >>]]

Init ==
  /\ agenda = Initially.agenda
  /\ vars = << >>
  /\ depth = NewDepthRing
  /\ concrete = Initially.concrete
  /\ status = "running"

Panic == agenda' = << >> /\ status' = "panicked"

-----------------------------------------------------------------------------
(***************************************************************************)
(* Functions, runners and blocks.                                          *)
(***************************************************************************)

(* fill_function.  The functions are filled from the last to the first; a  *)
(* function's own names are out of scope in the others and are dropped.    *)
FillFunction ==
  /\ At("function")
  /\ LET f == Head(agenda).f
         sig == Functions[f]
     IN  /\ vars' = [p \in DOMAIN sig.params |-> NewVar(<<f>>, sig.params[p], TRUE)]
         /\ Do(<<BlockOf(<<f>>, sig.ret, sig.ret)>>)
  /\ UNCHANGED <<depth, concrete, status>>

(* Mutation of AddRunners: one level of nesting is allowed.                *)
AddRunnersAtDepthOne ==
  /\ At("runners")
  /\ Do(<<SetMax(1)>> \o [f \in DOMAIN Functions |-> CallTo(f, Root, FALSE)]
                      \o <<ResetMax>>)
  /\ vars' = << >>
  /\ UNCHANGED <<depth, concrete, status>>

(* add_runners and generate_runners, one runner for each function.         *)
AddRunners ==
  /\ At("runners")
  /\ Do(<<SetMax(0)>> \o [f \in DOMAIN Functions |-> CallTo(f, Root, FALSE)]
                      \o <<ResetMax>>)
  /\ vars' = << >>
  /\ UNCHANGED <<depth, concrete, status>>

(* generate_statements: which statements are additional operations.        *)
Bodies(scope) ==
  {[i \in 1 .. NumStmts |->
      [do |-> IF i \in more THEN "operation" ELSE "statement", scope |-> scope]] :
   more \in {s \in SUBSET (1 .. NumStmts) : Cardinality(s) <= NumAdditional}}

(* The scope of a new block.  The code numbers blocks globally; here the   *)
(* number of a block that left no variable may be used again.              *)
NewScope(parent) ==
  LET used == {vars[v].scope[Len(parent) + 1] :
                 v \in {w \in DOMAIN vars : IsStrictPrefix(parent, vars[w].scope)}}
  IN  Append(parent, CHOOSE n \in 1 .. Len(vars) + 1 :
                       n \notin used /\ \A m \in 1 .. n - 1 : m \in used)

(* Mutation of GenerateBlock: statements are left out at the limit only.   *)
GenerateBlockUpToLimit ==
  /\ At("block")
  /\ LET h == Head(agenda)
         scope == NewScope(h.scope)
         return == IF h.type = Untyped THEN << >>
                   ELSE <<[h EXCEPT !.do = "block_return", !.scope = scope]>>
     IN  \E body \in IF ReachedDepthLimit(depth) THEN {<< >>} ELSE Bodies(scope) :
           Do(body \o return)
  /\ UNCHANGED <<vars, depth, concrete, status>>

(* generate_block: a block about to reach the limit gets no statements.    *)
GenerateBlock ==
  /\ At("block")
  /\ LET h == Head(agenda)
         scope == NewScope(h.scope)
         return == IF h.type = Untyped THEN << >>
                   ELSE <<[h EXCEPT !.do = "block_return", !.scope = scope]>>
     IN  \E body \in IF WillReachDepthLimit(depth, 1) THEN {<< >>} ELSE Bodies(scope) :
           Do(body \o return)
  /\ UNCHANGED <<vars, depth, concrete, status>>

(* generate_block_return: a live variable if there is one.                 *)
GenerateBlockReturn ==
  /\ At("block_return")
  /\ LET h == Head(agenda)
     IN  Do(IF LiveVariables(h.scope, h.type) # {} THEN << >>
            ELSE <<Expression(h.scope, h.type, TRUE, TRUE, h.want)>>)
  /\ UNCHANGED <<vars, depth, concrete, status>>

-----------------------------------------------------------------------------
(***************************************************************************)
(* Statements.                                                             *)
(***************************************************************************)

(* Mutation of GenerateDeclaration: the type is recorded at once.          *)
GenerateDeclarationTyped ==
  /\ At("statement")
  /\ LET scope == Head(agenda).scope
         id == Len(vars) + 1
     IN  \E type \in GetRandomType(scope, TRUE, FALSE, TRUE) :
           /\ vars' = Append(vars, NewVar(scope, type, TRUE))
           /\ Do(<<Value(scope, type), Bind(scope, id, type), Record(scope, id)>>)
  /\ UNCHANGED <<depth, concrete, status>>

(* generate_declaration, and the record of its value: the new variable has *)
(* no type until its value is there.                                       *)
GenerateDeclaration ==
  /\ At("statement")
  /\ LET scope == Head(agenda).scope
         id == Len(vars) + 1
     IN  /\ vars' = Append(vars, NewVar(scope, Untyped, TRUE))
         /\ \E type \in GetRandomType(scope, TRUE, FALSE, TRUE) :
              Do(<<Value(scope, type), Bind(scope, id, type), Record(scope, id)>>)
  /\ UNCHANGED <<depth, concrete, status>>

(* The let of a variable is complete.                                      *)
BindType ==
  /\ At("bind")
  /\ vars' = [vars EXCEPT ![Head(agenda).id].type = Head(agenda).type]
  /\ Do(<< >>)
  /\ UNCHANGED <<depth, concrete, status>>

(* generate_record_value_expr unwraps the type of the variable.            *)
GenerateRecordValue ==
  /\ At("record")
  /\ IF vars[Head(agenda).id].type = Untyped THEN Panic ELSE Do(<< >>) /\ UNCHANGED status
  /\ UNCHANGED <<vars, depth, concrete>>

(* generate_binary_operation: an operand next to a literal, two numbers or *)
(* booleans, or two values of one type.                                    *)
BinaryOperations(scope) ==
  {<<Value(scope, Num)>>} \cup
  {<<Value(scope, t), Value(scope, t)>> : t \in GetRandomType(scope, TRUE, TRUE, TRUE)}

(* generate_if for a type, and for none.                                   *)
IfElse(scope, type, want) ==
  <<Value(scope, Num), BlockOf(scope, type, want), BlockOf(scope, type, want)>>
Ifs(scope) ==
  LET both == IfElse(scope, Untyped, Untyped) IN {both, Front(both)}

(* generate_expression, a statement.                                       *)
GenerateExpression ==
  /\ At("statement")
  /\ LET scope == Head(agenda).scope
         kinds == BinaryOperations(scope) \cup Ifs(scope)
           \cup {<<BlockOf(scope, t, t)>> : t \in {Untyped} \cup GetRandomType(scope, TRUE, TRUE, TRUE)}
           \cup {<<CallTo(f, scope, TRUE)>> : f \in CallableFunctions(scope)}
           \cup {<<[do |-> "assignment", scope |-> scope]>> : v \in Identifiers(scope)}
     IN  IF ReachedDepthLimit(depth)
           THEN Do(<< >>) /\ UNCHANGED depth
           ELSE /\ depth' = IncreaseDepth(depth)
                /\ \E items \in kinds : Do(Append(items, Decrease))
  /\ UNCHANGED <<vars, concrete, status>>

(* generate_assignment with generate_assignment_lhs.                       *)
GenerateAssignment ==
  /\ At("assignment")
  /\ LET scope == Head(agenda).scope
     IN  \E type \in GetRandomType(scope, TRUE, TRUE, FALSE) :
           \/ \E v \in {w \in Identifiers(scope) : vars[w].type = type} :
                Do(<<Value(scope, type), Record(scope, v)>>)
           \/ Do(<<Value(scope, type), Value(scope, type)>>)
           \/ Do(<<Value(scope, <<"&mut">> \o type), Value(scope, type)>>)
  /\ UNCHANGED <<vars, depth, concrete, status>>

-----------------------------------------------------------------------------
(***************************************************************************)
(* Vectors and global storage.                                             *)
(***************************************************************************)

(* VectorOperationKind: how many vectors an operation works on, the types  *)
(* of its other arguments and of what it returns, for elements of type e.  *)
VectorOperations(e) ==
  LET op(needs, args, ret) == [needs |-> needs, args |-> args, ret |-> ret]
      vec == <<"vec">> \o e
      ref == <<"&">> \o e
  IN  {op(0, << >>, <<vec>>), op(0, <<e>>, <<vec>>),      \* empty, singleton
       op(1, << >>, <<Num>>),                             \* length, is_empty
       op(1, <<Num>>, <<ref>>),                           \* borrow
       op(1, <<Num>>, <<<<"&mut">> \o e>>),               \* borrow_mut
       op(1, <<e>>, << >>), op(1, << >>, <<e>>),          \* push_back, pop_back
       op(1, << >>, << >>), op(1, <<Num, Num>>, << >>),   \* destroy_empty, reverse, swap
       op(1, <<ref>>, <<Num>>), op(1, <<ref>>, <<Num, Num>>), \* contains, index_of
       op(1, <<Num>>, <<e>>),                             \* remove, swap_remove
       op(2, << >>, << >>)}                               \* append

(* The depth of vector elements and arguments.                             *)
VectorDepth == 2

(* Mutation of NewVectorLiteral: elements may be one level deeper.         *)
NewVectorLiteralDeeper(scope) ==
  LET id == Len(vars) + 1
  IN  \E type \in GetRandomType(scope, TRUE, TRUE, FALSE), n \in 0 .. MaxElems :
        /\ vars' = Append(vars, NewVar(scope, <<"vec">> \o type, FALSE))
        /\ Do(UnderEach(VectorDepth + 1,
                        [i \in 1 .. n |-> Expression(scope, type, TRUE, FALSE, type)])
              \o <<Bind(scope, id, <<"vec">> \o type)>>)

(* generate_new_vector_literal: the new vector is in the type pool before  *)
(* its elements are there.                                                 *)
NewVectorLiteral(scope) ==
  LET id == Len(vars) + 1
  IN  \E type \in GetRandomType(scope, TRUE, TRUE, FALSE), n \in 0 .. MaxElems :
        /\ vars' = Append(vars, NewVar(scope, <<"vec">> \o type, FALSE))
        /\ Do(UnderEach(VectorDepth,
                        [i \in 1 .. n |-> Expression(scope, type, TRUE, FALSE, type)])
              \o <<Bind(scope, id, <<"vec">> \o type)>>)

(* generate_vector_operation past its choice of vector.                    *)
VectorOperation(scope, op) ==
  /\ Do(UnderEach(VectorDepth,
                  [i \in DOMAIN op.args |->
                     Expression(scope, op.args[i], TRUE, FALSE, op.args[i])])
        \o [i \in DOMAIN op.ret |->
             [do |-> "result", scope |-> scope, type |-> op.ret[i]]])
  /\ UNCHANGED vars

(* generate_vector_operation: a literal instead if a vector is missing.    *)
GenerateVectorOperation ==
  /\ At("statement") \/ At("operation")
  /\ LET scope == Head(agenda).scope
         vectors == VectorIdentifiers(scope)
         Others(v) == {w \in vectors \ {v} : vars[w].type = vars[v].type}
     IN  \/ /\ vectors = {} \/ \E v \in vectors : Others(v) = {}
            /\ NewVectorLiteral(scope)
         \/ \E type \in GetRandomType(scope, TRUE, TRUE, FALSE) :
              \E op \in {o \in VectorOperations(type) : o.needs = 0} :
                VectorOperation(scope, op)
         \/ \E v \in vectors : \E op \in VectorOperations(Tail(vars[v].type)) :
              /\ op.needs = 1 \/ (op.needs = 2 /\ Others(v) # {})
              /\ VectorOperation(scope, op)
  /\ UNCHANGED <<depth, concrete, status>>

(* The variable for a result of a vector operation.                        *)
DeclareResult ==
  /\ At("result")
  /\ vars' = Append(vars, NewVar(Head(agenda).scope, Head(agenda).type, TRUE))
  /\ Do(<< >>)
  /\ UNCHANGED <<depth, concrete, status>>

(* generate_resource_operation.  move_to evaluates the item to move; the   *)
(* others declare a variable, alive and with its type before the rest of   *)
(* the let is there, and all but exists need a fall back of the type.      *)
GenerateResourceOperation ==
  /\ At("operation")
  /\ LET scope == Head(agenda).scope
         id == Len(vars) + 1
     IN  \E s \in KeyStructs :
           \/ Do(<<Value(scope, <<s>>)>>) /\ UNCHANGED vars
           \/ /\ vars' = Append(vars, NewVar(scope, Num, TRUE))
              /\ Do(<<Bind(scope, id, Num)>>)
           \/ \E type \in {<<s>>, <<"&", s>>, <<"&mut", s>>} :
                /\ vars' = Append(vars, NewVar(scope, type, TRUE))
                /\ Do(UnderEach(0, <<Expression(scope, <<s>>, FALSE, TRUE, <<s>>)>>)
                      \o <<Bind(scope, id, type)>>)
  /\ UNCHANGED <<depth, concrete, status>>

(* DepthRing's part of the calls above.                                    *)
SetMaxDepthOf ==
  /\ At("set_max_depth")
  /\ depth' = SetMaxDepth(depth, Head(agenda).limit)
  /\ Do(<< >>)
  /\ UNCHANGED <<vars, concrete, status>>

ResetMaxDepthOf ==
  /\ At("reset_max_depth")
  /\ depth' = ResetMaxDepth(depth)
  /\ Do(<< >>)
  /\ UNCHANGED <<vars, concrete, status>>

DecreaseDepthOf ==
  /\ At("decrease_depth")
  /\ depth' = DecreaseDepth(depth)
  /\ Do(<< >>)
  /\ UNCHANGED <<vars, concrete, status>>

-----------------------------------------------------------------------------
(***************************************************************************)
(* generate_expression_of_type, in three steps: the candidates that come   *)
(* before the depth check, access to a variable with its fall backs, and   *)
(* what nests deeper.                                                      *)
(***************************************************************************)

(* The candidate of a type: the fields of a struct, a value of the type    *)
(* arguments chosen for a type parameter.                                  *)
Candidates(h, type) ==
  IF Len(type) = 1 /\ type[1] \in DOMAIN StructFields
    THEN LET fields == StructFields[type[1]]
         IN  {[i \in DOMAIN fields |-> Value(h.scope, fields[i])]}
  ELSE IF Len(type) = 1 /\ IsTypeConcretizable(type, h.scope)
    THEN {<<Expression(h.scope, c, h.var, h.call, c)>> : c \in ConcretizeType(type, h.scope)}
  ELSE {<< >>}

(* The code's assertions on allow_var and allow_call.                      *)
MustAccessVariable(h, type) ==
  \/ type[1] = "vec" /\ ~h.call
  \/ type[1] \in TypeParameters /\ ~IsTypeConcretizable(type, h.scope)

GenerateExpressionOfType ==
  /\ At("expression")
  /\ LET h == Head(agenda)
         type == Resolve(h.type)
     IN  IF MustAccessVariable(h, type) /\ ~h.var
           THEN Panic
           ELSE /\ \E first \in Candidates(h, type) :
                     Do(Append(first, [h EXCEPT !.do = "access", !.type = type]))
                /\ UNCHANGED status
  /\ UNCHANGED <<vars, depth, concrete>>

(* A reference without a variable needs a value to refer to; any other     *)
(* type without candidate falls back to abort.                             *)
AccessVariable ==
  /\ At("access")
  /\ LET h == Head(agenda)
         found == h.var /\ LiveVariables(h.scope, h.type) # {}
         nest == [h EXCEPT !.do = "nest"]
     IN  Do(IF IsRef(h.type) /\ ~found
              THEN <<[h EXCEPT !.do = "expression", !.type = Tail(@), !.want = Tail(@)], nest>>
              ELSE <<nest>>)
  /\ UNCHANGED <<vars, depth, concrete, status>>

(* The expression may return from the function it is in, if not inline.    *)
Returns(scope) ==
  IF scope = Root \/ Functions[FunctionOf(scope)].inline THEN {}
  ELSE IF Functions[FunctionOf(scope)].ret = Untyped THEN {<< >>}
  ELSE {<<Value(scope, Functions[FunctionOf(scope)].ret)>>}

(* What may nest below an expression: return, abort, if, call, binary      *)
(* operation, dereference, block.                                          *)
Nested(h) ==
  Returns(h.scope) \cup {<<Value(h.scope, Num)>>}
    \cup {IfElse(h.scope, c, h.want) : c \in ConcretizeType(h.type, h.scope)}
    \cup {<<CallTo(f, h.scope, TRUE)>> :
            f \in {g \in CallableFunctions(h.scope) : h.call /\ Functions[g].ret = h.type}}
    \cup (IF h.type = Num THEN BinaryOperations(h.scope) ELSE {})
    \cup (IF IsRef(h.type) THEN {} ELSE {<<[do |-> "dereference", scope |-> h.scope, type |-> h.type]>>})
    \cup {<<BlockOf(h.scope, h.type, h.want)>>}

(* generate_dereference: the variables it looks for have the type and also *)
(* the reference type.                                                     *)
Dereferenceable(h) ==
  {v \in LiveVariables(h.scope, h.type) : vars[v].type = <<"&">> \o h.type}

GenerateDereference ==
  /\ At("dereference")
  /\ LET h == Head(agenda)
     IN  Do(IF Dereferenceable(h) # {} THEN << >>
            ELSE <<Value(h.scope, <<"&">> \o h.type)>>)
  /\ UNCHANGED <<vars, depth, concrete, status>>

(* Mutation of NestExpression: return and abort leave without              *)
(* decrease_depth.                                                         *)
NestExpressionEarlyReturn ==
  /\ At("nest")
  /\ LET h == Head(agenda)
     IN  IF ReachedDepthLimit(depth)
           THEN Do(<< >>) /\ UNCHANGED <<depth, status>>
         ELSE /\ depth' = IncreaseDepth(depth)
              /\ \E items \in Nested(h) :
                   Do(IF items \in Returns(h.scope) THEN items ELSE Append(items, Decrease))
              /\ UNCHANGED status
  /\ UNCHANGED <<vars, concrete>>

(* The depth check and what follows it.  get_callable_functions unwraps    *)
(* the number of the function it is in: there is none at the root.         *)
NestExpression ==
  /\ At("nest")
  /\ LET h == Head(agenda)
     IN  IF ReachedDepthLimit(depth)
           THEN Do(<< >>) /\ UNCHANGED <<depth, status>>
         ELSE IF h.scope = Root
           THEN Panic /\ UNCHANGED depth
         ELSE /\ depth' = IncreaseDepth(depth)
              /\ \E items \in Nested(h) : Do(Append(items, Decrease))
              /\ UNCHANGED status
  /\ UNCHANGED <<vars, concrete>>

-----------------------------------------------------------------------------
(***************************************************************************)
(* Calls.                                                                  *)
(***************************************************************************)

(* The type arguments a call may get (concretize_type_parameters).         *)
TypeArguments(f, scope) ==
  LET tps == ToSet(Functions[f].tps)
      types == UNION {ConcretizeType(<<tp>>, scope) : tp \in tps}
  IN  {args \in [tps -> types] : \A tp \in tps : args[tp] \in ConcretizeType(<<tp>>, scope)}

Arguments(h, stacks) ==
  LET params == Functions[h.f].params
  IN  [i \in DOMAIN params |->
         Expression(h.scope, params[i], h.var, FALSE, MeaningIn(stacks, params[i]))]

(* Mutation of GenerateCall: the new type argument replaces the old one.   *)
GenerateCallReplacing ==
  /\ At("call")
  /\ LET h == Head(agenda)
     IN  \E args \in TypeArguments(h.f, h.scope) :
           /\ concrete' = [tp \in TypeParameters |->
                             IF tp \in DOMAIN args THEN <<args[tp]>> ELSE concrete[tp]]
           /\ Do(Arguments(h, concrete') \o <<[do |-> "unregister", f |-> h.f]>>)
  /\ UNCHANGED <<vars, depth, status>>

(* generate_call_to_function: the arguments are generated while the type   *)
(* arguments are registered, and may not be calls themselves.              *)
GenerateCall ==
  /\ At("call")
  /\ LET h == Head(agenda)
     IN  \E args \in TypeArguments(h.f, h.scope) :
           /\ concrete' = [tp \in TypeParameters |->
                             IF tp \in DOMAIN args THEN Append(concrete[tp], args[tp])
                                                   ELSE concrete[tp]]
           /\ Do(Arguments(h, concrete') \o <<[do |-> "unregister", f |-> h.f]>>)
  /\ UNCHANGED <<vars, depth, status>>

(* The closure concretize_type_parameters returns.                         *)
Unregister ==
  /\ At("unregister")
  /\ LET tps == ToSet(Functions[Head(agenda).f].tps)
     IN  concrete' = [tp \in TypeParameters |->
                        IF tp \in tps THEN Front(concrete[tp]) ELSE concrete[tp]]
  /\ Do(<< >>)
  /\ UNCHANGED <<vars, depth, status>>

(* Any step that draws from the input may find it exhausted, and every     *)
(* expression the time spent: generate() returns an error, and the         *)
(* generator is dropped with its environment.                              *)
GenerationFails ==
  /\ agenda # << >>
  /\ Head(agenda).do \notin {"bind", "record", "unregister", "set_max_depth",
                             "reset_max_depth", "decrease_depth"}
  /\ agenda' = << >>
  /\ vars' = << >>
  /\ depth' = NewDepthRing
  /\ concrete' = Initially.concrete
  /\ status' = "failed"

Finished == agenda = << >> /\ UNCHANGED state

Next ==
  \/ FillFunction \/ AddRunners \/ GenerateBlock \/ GenerateBlockReturn
  \/ GenerateDeclaration \/ BindType \/ GenerateRecordValue
  \/ GenerateExpression \/ GenerateAssignment
  \/ GenerateVectorOperation \/ DeclareResult \/ GenerateResourceOperation
  \/ SetMaxDepthOf \/ ResetMaxDepthOf \/ DecreaseDepthOf
  \/ GenerateExpressionOfType \/ AccessVariable
  \/ GenerateDereference \/ NestExpression
  \/ GenerateCall \/ Unregister
  \/ GenerationFails \/ Finished

Spec == Init /\ [][Next]_state

-----------------------------------------------------------------------------
(***************************************************************************)
(* Properties.                                                             *)
(***************************************************************************)

Types == PlainTypes \cup References \cup {<<"vec">> \o t : t \in PlainTypes}

(* The depth ring is one, variables have a type or none yet, and every     *)
(* type argument is a type.                                                *)
TypeOK ==
  /\ depth \in [curr : Nat, idx : DOMAIN MaxDepths, manual : Seq({0, VectorDepth})]
  /\ \A v \in DOMAIN vars :
       vars[v].type \in Types \cup {Untyped} /\ vars[v].live \in BOOLEAN
  /\ \A tp \in TypeParameters : concrete[tp] \in Seq(Types)
  /\ status \in {"running", "failed", "panicked"}

(* The variables the first item may put into the program.                  *)
MayName(h) ==
  CASE h.do \in {"expression", "access"} ->
         IF h.var THEN LiveVariables(h.scope, Resolve(h.type)) ELSE {}
    [] h.do = "block_return" -> LiveVariables(h.scope, h.type)
    [] h.do \in {"statement", "operation"} -> VectorIdentifiers(h.scope)
    [] h.do = "assignment" -> Identifiers(h.scope)
    [] h.do = "record" -> {h.id}
    [] OTHER -> {}

(* A variable is used in its scope only, and never before its own let is   *)
(* complete: not inside its initial value, although the environment may    *)
(* already know its name, its type or that it is alive.                    *)
DeclaredBeforeUse ==
  agenda # << >> =>
    \A v \in MayName(Head(agenda)) :
      /\ IsInScope(Head(agenda).scope, vars[v].scope)
      /\ \A i \in DOMAIN agenda : agenda[i].do = "bind" => agenda[i].id # v

(* Limits set by hand never nest: whatever is generated under one sets no  *)
(* other.  The elements of a vector thus hold no further vector operation. *)
ManualLimitsNeverNest == Len(depth.manual) <= 1

(* When all is generated, every increase of the depth, manual limit and    *)
(* registered type argument has been undone, also those of expressions     *)
(* that returned early.                                                    *)
AllUndoneAtEnd ==
  agenda = << >> /\ status = "running" =>
    /\ depth.curr = 0 /\ depth.manual = << >>
    /\ \A tp \in TypeParameters : concrete[tp] = << >>

(* The generator never hits one of its assertions or unwraps.              *)
NeverPanics == status # "panicked"

(* An expression has the type its position needs: the arguments of a call  *)
(* and all that nests in them are generated for the type arguments of that *)
(* very call, whatever other calls of the function are generated meanwhile.*)
(* In a function's own body its type parameters stand for themselves: what *)
(* calls of the function by itself register for them changes nothing.      *)
PositionsGetTheirType ==
  agenda # << >> /\ Head(agenda).do \in {"expression", "block_return"} =>
    /\ Meaning(Head(agenda).type) = Head(agenda).want
    /\ \A tp \in LocalParameters(Head(agenda).scope) : Meaning(<<tp>>) = <<tp>>

(* A value of the function's own type parameter can only be a variable, so *)
(* no such value is asked for unless there is one.                         *)
ParametersHaveValues ==
  agenda # << >> /\ Head(agenda).do = "access"
    /\ Head(agenda).type \in {<<tp>> : tp \in LocalParameters(Head(agenda).scope)}
    => LiveVariables(Head(agenda).scope, Head(agenda).type) # {}

(* "This function will try to select an existing variable to dereference   *)
(* if possible" (move_smith.rs:2234): where a live variable of the         *)
(* reference type is in scope, one is selected.                            *)
DereferencesExistingVariable ==
  agenda # << >> /\ Head(agenda).do = "dereference" =>
    LET h == Head(agenda)
    IN  LiveVariables(h.scope, <<"&">> \o h.type) # {} => Dereferenceable(h) # {}
=============================================================================
