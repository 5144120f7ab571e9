------------------------------- MODULE Skeletons -------------------------------
(***************************************************************************)
(* move_smith.rs: the structs of a module.  generate_module_skeleton makes *)
(* them with their type parameters, fill_struct gives them fields, one     *)
(* after the other, and post_process_struct decides which type parameters  *)
(* are phantom.  Type parameters of other items are replaced by types      *)
(* drawn for them (concretize_type); a field of a generic struct type gets *)
(* its type arguments that way.                                            *)
(*                                                                         *)
(* A type is a tree, given as the set of its branches: of each identifier  *)
(* in it the way there, from the head, through the structs and the type    *)
(* parameters passed to get to it.  S<T> as the argument for P of R is     *)
(*   {<<R>>, <<R, P, S>>, <<R, P, S, Q, T>>},                              *)
(* where Q is the parameter of S.  All numbers and bool are Num.  A type   *)
(* among others to choose from is just its head.                           *)
(***************************************************************************)
EXTENDS Names, Signatures, Integers, FiniteSets

CONSTANTS
  TypeParams,        (* Per struct, its type parameters: of each a bound,  *)
                     (* the abilities it may have besides copy and drop.   *)
  FieldCounts,       (* What num_fields_in_struct may select.              *)
  StructFieldLimits, (* What num_fields_of_struct_type may select, once.   *)
  TypeDepths,        (* The limits in the ring env.type_depth.             *)
  PackDepth          (* A bound: how far packing is followed into fields.  *)

ASSUME SkeletonsAssumption ==
  /\ TypeParams \in Seq(Seq(SUBSET {"store", "key"}))
  /\ FieldCounts \cup StructFieldLimits \cup TypeDepths \cup {PackDepth} \subseteq Nat

VARIABLES
  pool,         (* env.id_pool.                                            *)
  structs,      (* The definitions, in order: [name, has, tps, fields].    *)
  bounds,       (* The abilities of each type parameter.                   *)
  types,        (* TypePool::mapping: the type of each field.              *)
  filled,       (* How many structs fill_struct has been called for.       *)
  left,         (* The fields the last of them still lacks.                *)
  structFields, (* struct_type_field_counter, and its limit.               *)
  phantom       (* The type parameters marked phantom; none yet: {NotYet}. *)

skeletonVars == <<pool, structs, bounds, types, filled, left, structFields, phantom>>

Num == <<"num", 0>>
NotYet == <<"none", 0>>

(* No type: the unwrap of an empty choice, or a loop that finds none.      *)
Stuck == <<"stuck", 0>>

ModuleName == <<"Module", 0>>
ModuleScope == Append(HardcodedAddress, ModuleName)
FunctionScope == Append(ModuleScope, <<"Function", 0>>)

StructNames == {<<"Struct", n>> : n \in 0 .. Len(TypeParams)}
GenericStructs == {<<"Struct", n - 1>> : n \in {m \in DOMAIN TypeParams : TypeParams[m] # << >>}}
AllAbilitiesStruct == <<"Struct", Len(TypeParams)>>

IsParameter(id) == id[1] = "TypeParameter"
IsStruct(id) == id[1] = "Struct"

(* get_struct_definition_with_identifier: structs are numbered in order.   *)
DefinitionOf(name) == structs[name[2] + 1]

(* Types, built and taken apart.                                           *)
Leaf(id) == {<<id>>}

(* StructConcrete: args gives each type parameter of the struct its type.  *)
Concrete(name, args) ==
  Leaf(name) \cup UNION {{<<name, tp>> \o branch : branch \in args[tp]} : tp \in DOMAIN args}

Mentions(t) == {Last(branch) : branch \in t}
StructsIn(t) == Mentions(t) \cap StructNames
HeadOf(t) == CHOOSE id \in Mentions(t) : <<id>> \in t

ParametersOf(id) == IF IsStruct(id) THEN Range(DefinitionOf(id).tps) ELSE {}

(* The type arguments of a concrete struct.                                *)
TypeArgs(t) ==
  [tp \in ParametersOf(HeadOf(t)) |->
     {SubSeq(branch, 3, Len(branch)) : branch \in {b \in t : Len(b) > 1 /\ b[2] = tp}}]

StructsInFields(name) ==
  IF name[2] < Len(structs)
    THEN UNION {StructsIn(types[f]) : f \in Range(DefinitionOf(name).fields)}
    ELSE {}

(* A set of structs that has all that the fields of its members mention.   *)
ClosedUnderFields(set) == \A n \in set : StructsInFields(n) \subseteq set

(* Some field, or field of a field, leads from one of names to sink.       *)
Reaches(names, sink) ==
  \A set \in SUBSET StructNames : ClosedUnderFields(set) /\ names \subseteq set => sink \in set

(* With get_all_used_struct_in_type and the recursion over what it finds.  *)
CheckStructReachable(t, sink) == Reaches(StructsIn(t), sink)

-----------------------------------------------------------------------------
(***************************************************************************)
(* Types in scope.                                                         *)
(***************************************************************************)

(* derive_abilities_of_type: only what the declaration says.               *)
DerivedAbilities(id) ==
  CASE IsStruct(id) -> DefinitionOf(id).has
    [] IsParameter(id) -> bounds[id]
    [] OTHER -> Primitives

(* TypePool::all_types.                                                    *)
AllTypes == {Num} \cup {st.name : st \in Range(structs)} \cup DOMAIN bounds

(* filter_instantiatable_types: there is a variable, here a field.         *)
IsInstantiatable(id, scope) ==
  IsParameter(id) => \E f \in DOMAIN types : types[f] = Leaf(id) /\ IsIdInScope(pool, f, scope)

(* Mutation of TypesWithAbilities: abilities are not looked at.            *)
TypesWithAnyAbilities(scope, requires) ==
  {id \in AllTypes : IsIdInScope(pool, id, scope) /\ IsInstantiatable(id, scope)}

(* get_types_with_abilities, only those that are instantiatable.           *)
TypesWithAbilities(scope, requires) ==
  {id \in AllTypes : /\ IsIdInScope(pool, id, scope)
                     /\ requires \subseteq DerivedAbilities(id)
                     /\ IsInstantiatable(id, scope)}

(* Of a type that has no type arguments (yet).                             *)
IsConcrete(id) == id = Num \/ (IsStruct(id) /\ ParametersOf(id) = {})

(* A type parameter of the scope itself stays as it is.                    *)
IsTypeConcretizable(id, scope) ==
  \/ IsParameter(id) /\ pool.scopes[id] # RemoveHiddenScopes(scope)
  \/ IsStruct(id) /\ ~IsConcrete(id)

(* The types concretize_type_parameter may choose; parent is {} or the     *)
(* struct that may not be reached.                                         *)
ChoicesFor(scope, requires, parent, atLimit) ==
  {id \in TypesWithAbilities(scope, requires) :
     /\ atLimit => IsConcrete(id)
     /\ \A p \in parent : ~CheckStructReachable(Leaf(id), p)}

OrStuck(outcomes) == IF outcomes = {} THEN {Leaf(Stuck)} ELSE outcomes

(* What concretize_type_parameter is asked for.                            *)
Queries == [tp : DOMAIN bounds, requires : SUBSET Abilities, parent : SUBSET StructNames]
Query(tp, requires, parent) == [tp |-> tp, requires |-> requires, parent |-> parent]

(* One type of each set.                                                   *)
Combinations(sets) ==
  {args \in [DOMAIN sets -> UNION Range(sets)] : \A tp \in DOMAIN sets : args[tp] \in sets[tp]}

(* concretize_struct: of every type parameter a type argument, drawn until *)
(* it does not reach the struct.  outcomes has what may be drawn.          *)
ConcretizeStruct(name, scope, requires, outcomes) ==
  LET Argument(tp) ==
        IF ~IsTypeConcretizable(tp, scope) THEN {Leaf(tp)}
        ELSE OrStuck({t \in outcomes[Query(tp, requires \cup bounds[tp], {name})] :
                        ~CheckStructReachable(t, name)})
  IN  {Concrete(name, args) : args \in Combinations([tp \in ParametersOf(name) |-> Argument(tp)])}

(* concretize_type_parameter: every type it may answer to q, with below    *)
(* for the type arguments of the struct it chooses.  A type parameter it   *)
(* chooses is of the scope itself, and stays.                              *)
ParameterTypes(scope, q, atLimit, below) ==
  LET needs == q.requires \cup bounds[q.tp]
  IN  OrStuck(UNION {IF IsStruct(id) /\ IsTypeConcretizable(id, scope)
                       THEN ConcretizeStruct(id, scope, needs, below)
                       ELSE {Leaf(id)} : id \in ChoicesFor(scope, needs, q.parent, atLimit)})

(* All its answers, by how many structs with type arguments it may nest    *)
(* before the depth is at its limit.                                       *)
ConcretizeTypeParameter(scope) ==
  LET Nesting[n \in Nat] ==
        [q \in Queries |-> ParameterTypes(scope, q, n = 0, IF n = 0 THEN << >> ELSE Nesting[n - 1])]
  IN  Nesting

(* The depth increases with every struct and every type parameter on the   *)
(* way; room is how far it is from its limit.                              *)
Nestable(room) == IF room < 0 THEN 0 ELSE room \div 2

(* concretize_type, of a struct and of a type parameter.                   *)
ConcreteStructs(name, scope, requires, room) ==
  ConcretizeStruct(name, scope, requires, ConcretizeTypeParameter(scope)[Nestable(room - 1)])

ConcreteTypes(tp, scope, parent, room) ==
  ConcretizeTypeParameter(scope)[Nestable(room)][Query(tp, {}, parent)]

-----------------------------------------------------------------------------
(***************************************************************************)
(* The steps.                                                              *)
(***************************************************************************)

Init ==
  /\ pool = NextIdentifier(NewPool, "Module", HardcodedAddress).pool
  /\ structs = << >>
  /\ bounds = << >>
  /\ types = << >>
  /\ filled = 0
  /\ left = 0
  /\ structFields \in [count : {0}, limit : StructFieldLimits]
  /\ phantom = {NotYet}

Struct(name, has, tps) == [name |-> name, has |-> has, tps |-> tps, fields |-> << >>]

GotStuck == \E f \in DOMAIN types : Stuck \in Mentions(types[f])

(* What n calls of next_identifier give.                                   *)
NextIdentifiers(p, kind, scope, n) ==
  LET ids == [i \in 1 .. n |-> <<kind, p.counters[kind] + i - 1>>]
  IN  [ids  |-> ids,
       pool |-> [counters |-> [p.counters EXCEPT ![kind] = @ + n],
                 scopes   |-> [i \in Issued(p) \cup Range(ids) |->
                                 IF i \in Range(ids) THEN scope ELSE p.scopes[i]]]]

(* generate_struct_skeleton: copy and drop for the struct and for its type *)
(* parameters, which may have more.  The loop that would add store and key *)
(* to the struct runs 0..=0 times.                                         *)
GenerateStructSkeleton ==
  /\ Len(structs) < Len(TypeParams)
  /\ LET next == NextIdentifier(pool, "Struct", ModuleScope)
         optional == TypeParams[Len(structs) + 1]
         params == NextIdentifiers(next.pool, "TypeParameter", next.scope, Len(optional))
     IN  /\ pool' = params.pool
         /\ structs' = Append(structs, Struct(next.id, {"copy", "drop"}, params.ids))
         /\ \E drawn \in [DOMAIN optional -> StructParameterAbilities] :
              /\ \A i \in DOMAIN optional : drawn[i] \subseteq {"copy", "drop"} \cup optional[i]
              /\ bounds' = [tp \in DOMAIN bounds \cup Range(params.ids) |->
                              IF tp \in DOMAIN bounds THEN bounds[tp]
                              ELSE drawn[CHOOSE i \in DOMAIN drawn : params.ids[i] = tp]]
  /\ UNCHANGED <<types, filled, left, structFields, phantom>>

(* Mutation of GenerateAllAbilitiesStruct: only what primitives have.      *)
GeneratePrimitiveStruct ==
  /\ Len(structs) = Len(TypeParams)
  /\ LET next == NextIdentifier(pool, "Struct", ModuleScope)
     IN  /\ pool' = next.pool
         /\ structs' = Append(structs, Struct(next.id, Primitives, << >>))
  /\ UNCHANGED <<bounds, types, filled, left, structFields, phantom>>

(* generate_module_skeleton ends with a struct that has all abilities.     *)
GenerateAllAbilitiesStruct ==
  /\ Len(structs) = Len(TypeParams)
  /\ LET next == NextIdentifier(pool, "Struct", ModuleScope)
     IN  /\ pool' = next.pool
         /\ structs' = Append(structs, Struct(next.id, Abilities, << >>))
  /\ UNCHANGED <<bounds, types, filled, left, structFields, phantom>>

AllGenerated == Len(structs) = Len(TypeParams) + 1
AllFilled == AllGenerated /\ filled = Len(structs) /\ left = 0

(* fill_module goes on to the next struct.                                 *)
FillStruct ==
  /\ AllGenerated /\ ~GotStuck
  /\ left = 0 /\ filled < Len(structs)
  /\ filled' = filled + 1
  /\ left' \in FieldCounts
  /\ UNCHANGED <<pool, structs, bounds, types, structFields, phantom>>

(* fill_struct: one more field of the type.                                *)
AddField(t) ==
  LET next == NextIdentifier(pool, "Var", GetScopeForChildren(pool, structs[filled].name))
  IN  /\ pool' = next.pool
      /\ types' = [f \in DOMAIN types \cup {next.id} |-> IF f = next.id THEN t ELSE types[f]]
      /\ structs' = [structs EXCEPT ![filled].fields = Append(@, next.id)]
      /\ left' = left - 1
      /\ UNCHANGED <<bounds, filled, phantom>>

ParametersInScope(scope) ==
  {tp \in IdentifiersOfKind(pool, "TypeParameter") : IsIdInScope(pool, tp, scope)}

(* get_random_type for a field: numbers and the struct's own parameters.   *)
(* Past the limit on struct types only numbers, if a struct was asked for. *)
AddBasicField ==
  /\ left > 0 /\ ~GotStuck
  /\ \E id \in {Num} \cup ParametersInScope(GetScopeForChildren(pool, structs[filled].name)) :
       AddField(Leaf(id))
  /\ UNCHANGED structFields

(* get_usable_struct_type.                                                 *)
GetUsableStructType(st) ==
  {u \in Range(structs) : /\ st.has \subseteq u.has
                          /\ "key" \in st.has => "store" \in u.has
                          /\ ~CheckStructReachable(Leaf(u.name), st.name)}

(* The types a draw of a struct type for a field may come to.  A struct    *)
(* without type parameters is not a StructConcrete and is drawn again.     *)
(* Mutation of FieldTypes: the type arguments are not looked at again.     *)
FieldTypesUnchecked(st, limit) ==
  UNION {ConcreteStructs(u.name, GetScopeForChildren(pool, st.name), st.has, limit) :
         u \in {v \in GetUsableStructType(st) : v.tps # << >>}}

FieldTypes(st, limit) ==
  {t \in FieldTypesUnchecked(st, limit) : ~CheckStructReachable(t, st.name)}

AddStructField ==
  /\ left > 0 /\ ~GotStuck
  /\ structFields.count < structFields.limit
  /\ \E limit \in TypeDepths : \E t \in FieldTypes(structs[filled], limit) : AddField(t)
  /\ structFields' = [structFields EXCEPT !.count = @ + 1]

(* The type parameters whose name appears in the text of a field's type.   *)
MentionedParameters ==
  (UNION {Mentions(types[f]) : f \in DOMAIN types}) \cap DOMAIN bounds

(* post_process_struct, of all structs.                                    *)
PostProcessStructs ==
  /\ AllFilled /\ ~GotStuck /\ phantom = {NotYet}
  /\ phantom' \in SUBSET (DOMAIN bounds \ MentionedParameters)
  /\ UNCHANGED <<pool, structs, bounds, types, filled, left, structFields>>

-----------------------------------------------------------------------------
(***************************************************************************)
(* Packing a struct, once all fields are there: the values generated for   *)
(* it, fields of fields included.  Of each the type it is generated for    *)
(* and, as a history, the type declared there.                             *)
(***************************************************************************)

(* The type with its parameters replaced by args, wherever it has one.     *)
Substitute(t, args) ==
  {b \in t : Last(b) \notin DOMAIN args} \cup
  UNION {{Front(b) \o branch : branch \in args[Last(b)]} : b \in {a \in t : Last(a) \in DOMAIN args}}

(* Mutation of FieldType: only a field that is a parameter itself.         *)
FieldTypeBare(t, args) ==
  IF HeadOf(t) \in DOMAIN args THEN Substitute(t, args) ELSE t

(* The type a field of a concrete struct is packed for: parameters are     *)
(* replaced if they are the type or a direct argument of it.               *)
FieldType(t, args) ==
  {b \in t : Len(b) > 3} \cup Substitute({b \in t : Len(b) <= 3}, args)

(* A value to generate, with the part of generate_expression_of_type that  *)
(* replaces a registered type parameter.                                   *)
Value(given, declared, registered) ==
  [given    |-> IF HeadOf(given) \in DOMAIN registered THEN registered[HeadOf(given)] ELSE given,
   declared |-> declared]

(* generate_struct_pack_concrete: the values for the fields of a value.    *)
FieldValues(v, registered) ==
  IF ~IsStruct(HeadOf(v.given)) \/ HeadOf(v.given) # HeadOf(v.declared) THEN {}
  ELSE {Value(FieldType(types[f], TypeArgs(v.given)), Substitute(types[f], TypeArgs(v.declared)),
              registered) : f \in Range(DefinitionOf(HeadOf(v.given)).fields)}

(* Those values with their fields, by how many fields are passed at most.  *)
Values(start, registered) ==
  LET Deeper(vs) == vs \cup UNION {FieldValues(v, registered) : v \in vs}
      Within[n \in Nat] == IF n = 0 THEN start ELSE Deeper(Within[n - 1])
  IN  Within

(* generate_struct_pack, once concretize_type_parameters has registered    *)
(* the type arguments.                                                     *)
GenerateStructPack(st, args) ==
  Values({Value(types[f], Substitute(types[f], args), args) : f \in Range(st.fields)}, args)

GenerateStructPackConcrete(t) == Values({Value(t, t, << >>)}, << >>)

Finished == phantom # {NotYet} /\ UNCHANGED skeletonVars

Next ==
  \/ GenerateStructSkeleton \/ GenerateAllAbilitiesStruct
  \/ FillStruct \/ AddBasicField \/ AddStructField
  \/ PostProcessStructs \/ Finished

Spec == Init /\ [][Next]_skeletonVars

-----------------------------------------------------------------------------
(***************************************************************************)
(* Properties.                                                             *)
(***************************************************************************)

(* A type in a definition: arguments for all parameters of every generic   *)
(* struct, and no parameter but the definition's own.                      *)
WellFormed(t, own) ==
  /\ \E id \in Mentions(t) : <<id>> \in t /\ \A b \in t : b[1] = id
  /\ \A b \in t :
       /\ Last(b) \in {Num} \cup own \cup {st.name : st \in Range(structs)}
       /\ \A tp \in ParametersOf(Last(b)) :
            \E arg \in t : {c \in t : Front(c) = Append(b, tp)} = {arg}
       /\ Len(b) > 1 => LET above == Front(Front(b))
                        IN  above \in t /\ Last(Front(b)) \in ParametersOf(Last(above))

(* Names are unique and their scopes complete; a field's type is well      *)
(* formed in the struct the field belongs to.                              *)
TypeOK ==
  /\ CountersAhead(pool) /\ ScopesComplete(pool)
  /\ \A i, j \in Issued(pool) : NameOf(i) = NameOf(j) => i = j
  /\ \A st \in Range(structs) : \A f \in Range(st.fields) :
       /\ pool.scopes[f] = GetScopeForChildren(pool, st.name)
       /\ GotStuck \/ WellFormed(types[f], Range(st.tps))

(* "The assumption is that we can find a concrete type that satisfies the  *)
(* constraints of the type parameter" (move_smith.rs:1795): wherever type  *)
(* arguments are drawn, for a field, in a function or at the root for a    *)
(* runner, there is a choice, and no loop that draws again rejects all.    *)
ConcretizationSucceeds ==
  LET Succeeds(outcomes) == \A t \in outcomes : Stuck \notin Mentions(t)
  IN  AllGenerated /\ ~GotStuck /\ phantom = {NotYet} => \A limit \in TypeDepths :
        /\ left > 0 =>
             \A u \in {v \in GetUsableStructType(structs[filled]) : v.tps # << >>} :
               Succeeds(ConcreteStructs(u.name, GetScopeForChildren(pool, structs[filled].name),
                                        structs[filled].has, limit))
        /\ AllFilled => \A st \in Range(structs) : \A tp \in Range(st.tps) :
             Succeeds(ConcreteTypes(tp, FunctionScope, {st.name}, limit))
        /\ \A needs \in FunctionParameterAbilities, scope \in {FunctionScope, RootScope} :
             ChoicesFor(scope, needs, {}, TRUE) # {}

(* The abilities Move gives a type: those declared that all arguments for  *)
(* parameters that are not phantom have.                                   *)
AbilitiesOf(t) ==
  {a \in Abilities : \A b \in t : Range(Front(b)) \cap phantom = {} => a \in DerivedAbilities(Last(b))}

(* The abilities of the argument passed for the parameter b[i]: as above,  *)
(* with the branches that go on from there.                                *)
MeetsBounds(t) ==
  \A b \in t : \A i \in 1 .. Len(b) - 1 :
    IsParameter(b[i]) /\ (\A j \in i + 1 .. Len(b) - 1 : b[j] \notin phantom)
      => bounds[b[i]] \subseteq DerivedAbilities(Last(b))

(* The parameters that count for the abilities of a type.                  *)
UsedParameters(t) ==
  {Last(b) : b \in {c \in t : IsParameter(Last(c)) /\ Range(Front(c)) \cap phantom = {}}}

(* The fields of a struct whose type arguments hold a parameter of the     *)
(* struct deeper than as a direct argument.                                *)
NestsParameter(name) ==
  \E f \in Range(DefinitionOf(name).fields) : \E b \in types[f] :
    Len(b) > 3 /\ Last(b) \in ParametersOf(name)

(* A value generated for a position has the head of the type declared for  *)
(* it, whatever the type arguments of the packed struct are.  Packed under *)
(* registered type arguments, a struct itself may nest its parameters, but *)
(* not the structs below; packed as a concrete type, it may not either,    *)
(* the "known issue" of move_smith.rs:2592.                                *)
PackedAsDeclared ==
  AllFilled /\ ~GotStuck /\ phantom = {NotYet} =>
    \A st \in {s \in Range(structs) : s.tps # << >>} :
      (\A n \in StructNames : Reaches(StructsInFields(st.name), n) => ~NestsParameter(n)) =>
        \A args \in [Range(st.tps) -> {Leaf(Num), Leaf(AllAbilitiesStruct)}] :
          /\ \A v \in GenerateStructPack(st, args)[PackDepth] : HeadOf(v.given) = HeadOf(v.declared)
          /\ ~NestsParameter(st.name) =>
               \A v \in GenerateStructPackConcrete(Concrete(st.name, args))[PackDepth] :
                 HeadOf(v.given) = HeadOf(v.declared)

(* Every struct is declared as Move demands: its fields have its abilities *)
(* (store, where it has key), type arguments have the abilities of their   *)
(* parameters, and no phantom parameter is used but as phantom.  The code  *)
(* goes by upper bounds of the abilities only.                             *)
DeclarationsAreLegal ==
  \A st \in Range(structs) : \A f \in Range(st.fields) :
    GotStuck \/
    /\ st.has \ {"key"} \subseteq AbilitiesOf(types[f])
    /\ "key" \in st.has => "store" \in AbilitiesOf(types[f])
    /\ MeetsBounds(types[f])
    /\ UsedParameters(types[f]) \cap phantom = {}

Graph == INSTANCE StructGraph WITH
  Structs <- StructNames, Generic <- GenericStructs, AllAbilities <- {AllAbilitiesStruct},
  MaxArgs <- Len(TypeParams),
  used <- [s \in StructNames |-> StructsInFields(s)],
  current <- IF filled = 0 THEN {} ELSE {structs[filled].name},
  unfilled <- StructNames \ {structs[i].name : i \in 1 .. filled}

(* With types instead of sets of structs, the filling of the structs is    *)
(* StructGraph's: no struct contains itself.                               *)
ImplementsStructGraph == Graph!SpecStructs
=============================================================================
