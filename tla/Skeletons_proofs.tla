---------------------------- MODULE Skeletons_proofs ----------------------------
(***************************************************************************)
(* The structs of a module, for any number of them, of type parameters and *)
(* of fields, and any limits: filling them is filling the graph of         *)
(* StructGraph; every type is well formed and legal where it stands; type  *)
(* arguments can always be drawn; packing meets the declared types.        *)
(***************************************************************************)
EXTENDS Skeletons, Names_proofs, FiniteSetTheorems

(* The scope of a struct's type parameters and fields.                     *)
StructScope(name) == Append(ModuleScope, name)

N == Len(TypeParams)

-----------------------------------------------------------------------------
(***************************************************************************)
(* Names.                                                                  *)
(***************************************************************************)

(* The scope an identifier owns.                                           *)
LEMMA OwnScopes ==
  ASSUME NEW p, PoolOK(p), NEW id \in Issued(p)
  PROVE  /\ GetScopeForChildren(p, id) = Append(p.scopes[id], id)
         /\ Known(p, Append(p.scopes[id], id)) /\ CompleteScope(p, Append(p.scopes[id], id))
<1> DEFINE Pieces == Identifiers \cup Range(HardcodedAddress)
           scope == p.scopes[id]
           own == Append(scope, id)
<1>1. /\ id \in Identifiers /\ scope \in Seq(Pieces)
      /\ Range(scope) \subseteq Issued(p) \cup Range(HardcodedAddress)
      /\ CompleteScope(p, scope)
  BY DEF PoolOK, CountersAhead, ScopesComplete, Known
<1>2. id \in Pieces
  BY <1>1
<1> HIDE DEF Pieces, scope
<1>3. /\ own \in Seq(Pieces) /\ Len(own) = Len(scope) + 1 /\ own[Len(scope) + 1] = id
      /\ Range(own) = Range(scope) \cup {id}
      /\ \A i \in 1 .. Len(scope) : own[i] = scope[i] /\ SubSeq(own, 1, i - 1) = SubSeq(scope, 1, i - 1)
      /\ SubSeq(own, 1, Len(scope)) = scope
  BY <1>1, <1>2, Appending
<1>4. Known(p, own)
  BY <1>1, <1>3 DEF Known, Pieces
<1>5. ASSUME NEW i \in DOMAIN own, own[i] \in Issued(p)
      PROVE  p.scopes[own[i]] = SubSeq(own, 1, i - 1)
  <2>1. Len(scope) \in Nat /\ DOMAIN own = 1 .. Len(scope) + 1 /\ DOMAIN scope = 1 .. Len(scope)
    BY <1>1, <1>3
  <2>2. CASE i \in 1 .. Len(scope)
    BY <1>1, <1>3, <1>5, <2>1, <2>2 DEF CompleteScope
  <2>3. CASE i = Len(scope) + 1
    BY <1>3, <2>1, <2>3 DEF scope
  <2> QED
    BY <2>1, <2>2, <2>3
<1> QED
  BY <1>4, <1>5 DEF GetScopeForChildren, CompleteScope, scope

(* The identifiers of several calls of next_identifier are new, and the    *)
(* pool remains as it should be.                                           *)
LEMMA ManyIssued ==
  ASSUME NEW p, PoolOK(p), NEW kind \in Kinds \ {"StructConcrete"},
         NEW scope, Known(p, scope), CompleteScope(p, scope), NEW n \in Nat
  PROVE  LET next == NextIdentifiers(p, kind, scope, n)
         IN  /\ next.ids \in Seq(Identifiers) /\ Len(next.ids) = n
             /\ \A id \in Range(next.ids) : id[1] = kind /\ next.pool.scopes[id] = scope
             /\ Range(next.ids) \cap Issued(p) = {}
             /\ Issued(next.pool) = Issued(p) \cup Range(next.ids)
             /\ \A id \in Issued(p) : next.pool.scopes[id] = p.scopes[id]
             /\ \A k \in Kinds \ {kind} : next.pool.counters[k] = p.counters[k]
             /\ PoolOK(next.pool)
<1> DEFINE next == NextIdentifiers(p, kind, scope, n)
           ids == [i \in 1 .. n |-> <<kind, p.counters[kind] + i - 1>>]
<1>1. /\ p.counters \in [Kinds -> Nat] /\ Issued(p) \subseteq Identifiers
      /\ \A i \in Issued(p) : i[2] < p.counters[i[1]]
      /\ \A i \in Issued(p) : i[1] # "StructConcrete" /\ Known(p, p.scopes[i])
      /\ \A i \in Issued(p) : CompleteScope(p, p.scopes[i])
  BY DEF PoolOK, CountersAhead, ScopesComplete
<1>2. /\ next.ids = ids
      /\ next.pool.counters = [p.counters EXCEPT ![kind] = @ + n]
      /\ next.pool.scopes = [i \in Issued(p) \cup Range(ids) |->
                               IF i \in Range(ids) THEN scope ELSE p.scopes[i]]
  BY DEF NextIdentifiers
<1> HIDE DEF next
<1>3. p.counters[kind] \in Nat
  BY <1>1
<1>4. ids \in [1 .. n -> Identifiers]
  BY <1>3 DEF Identifiers
<1>5. ids \in Seq(Identifiers) /\ Len(ids) = n
  BY <1>4
<1>6. \A id \in Range(ids) : \E i \in 1 .. n : id = <<kind, p.counters[kind] + i - 1>>
  BY <1>4 DEF Range
<1>7. \A id \in Range(ids) :
        /\ id \in Identifiers /\ id[1] = kind /\ id[2] \in Nat
        /\ id[2] >= p.counters[kind] /\ id[2] < p.counters[kind] + n
  BY <1>3, <1>6 DEF Identifiers
<1> HIDE DEF ids
<1>8. Range(ids) \cap Issued(p) = {}
  BY <1>1, <1>3, <1>7 DEF Identifiers
<1>9. /\ Issued(next.pool) = Issued(p) \cup Range(ids)
      /\ \A id \in Range(ids) : next.pool.scopes[id] = scope
      /\ \A id \in Issued(p) : next.pool.scopes[id] = p.scopes[id]
  BY <1>2, <1>8 DEF Issued
<1>10. CountersAhead(next.pool)
  <2>1. /\ next.pool.counters \in [Kinds -> Nat]
        /\ next.pool.counters[kind] = p.counters[kind] + n
        /\ \A k \in Kinds \ {kind} : next.pool.counters[k] = p.counters[k]
    BY <1>1, <1>2, <1>3
  <2>2. \A id \in Issued(p) : id[2] < next.pool.counters[id[1]]
    <3> TAKE id \in Issued(p)
    <3>1. id[1] \in Kinds /\ id[2] \in Nat /\ id[2] < p.counters[id[1]]
      BY <1>1 DEF Identifiers
    <3> QED
      BY <1>3, <2>1, <3>1
  <2>3. \A id \in Range(ids) : id[2] < next.pool.counters[id[1]]
    BY <1>7, <2>1
  <2> QED
    BY <1>1, <1>7, <1>9, <2>1, <2>2, <2>3 DEF CountersAhead
<1>11. ASSUME NEW path, Known(p, path), CompleteScope(p, path)
       PROVE  Known(next.pool, path) /\ CompleteScope(next.pool, path)
  <2>1. Known(next.pool, path)
    BY <1>9, <1>11 DEF Known
  <2>2. ASSUME NEW i \in DOMAIN path, path[i] \in Issued(next.pool)
        PROVE  next.pool.scopes[path[i]] = SubSeq(path, 1, i - 1)
    <3>1. path[i] \in Range(path)
      BY DEF Range
    <3>2. path[i] \in Issued(p)
      BY <1>1, <1>7, <1>11, <1>9, <2>2, <3>1, AddressIsNoIdentifier DEF Known
    <3> QED
      BY <1>9, <1>11, <3>2 DEF CompleteScope
  <2> QED
    BY <2>1, <2>2 DEF CompleteScope
<1>12. PoolOK(next.pool)
  <2>1. \A i \in Issued(next.pool) :
          /\ i[1] # "StructConcrete" /\ Known(next.pool, next.pool.scopes[i])
          /\ CompleteScope(next.pool, next.pool.scopes[i])
    BY <1>1, <1>7, <1>9, <1>11
  <2> QED
    BY <1>10, <2>1 DEF PoolOK, ScopesComplete
<1>13. \A k \in Kinds \ {kind} : next.pool.counters[k] = p.counters[k]
  BY <1>1, <1>2
<1> QED
  BY <1>2, <1>5, <1>7, <1>8, <1>9, <1>12, <1>13 DEF next

-----------------------------------------------------------------------------
(***************************************************************************)
(* The definitions: what is declared where.                                *)
(***************************************************************************)

PoolInv ==
  /\ PoolOK(pool)
  /\ ModuleName \in Issued(pool) /\ pool.scopes[ModuleName] = HardcodedAddress
  /\ pool.counters["Struct"] = Len(structs)

(* The i-th definition.  The last one has all abilities and no parameters, *)
(* the others copy and drop.                                               *)
DefinitionInv(i) ==
  LET st == structs[i] IN
  /\ st.name = <<"Struct", i - 1>>
  /\ st.name \in Issued(pool) /\ pool.scopes[st.name] = ModuleScope
  /\ st.has = IF i = N + 1 THEN Abilities ELSE {"copy", "drop"}
  /\ st.tps \in Seq(DOMAIN bounds)
  /\ st.tps = << >> <=> (i = N + 1 \/ TypeParams[i] = << >>)
  /\ \A tp \in Range(st.tps) : pool.scopes[tp] = StructScope(st.name)
  /\ st.fields \in Seq(DOMAIN types)
  /\ \A f \in Range(st.fields) : pool.scopes[f] = StructScope(st.name)
  /\ i > filled => st.fields = << >>

Definitions ==
  [name : Identifiers, has : SUBSET Abilities, tps : Seq(Identifiers), fields : Seq(Identifiers)]

StructsInv ==
  /\ structs \in Seq(Definitions)
  /\ Len(structs) <= N + 1
  /\ \A i \in 1 .. Len(structs) : DefinitionInv(i)

(* Every type parameter and every field belongs to a struct.               *)
OwnersInv ==
  /\ DOMAIN bounds = IdentifiersOfKind(pool, "TypeParameter")
  /\ DOMAIN types = IdentifiersOfKind(pool, "Var")
  /\ \A tp \in DOMAIN bounds :
       /\ {"copy", "drop"} \subseteq bounds[tp] /\ bounds[tp] \subseteq Abilities
       /\ \E i \in 1 .. Len(structs) : tp \in Range(structs[i].tps)
  /\ \A f \in DOMAIN types : \E i \in 1 .. Len(structs) : f \in Range(structs[i].fields)

FillInv ==
  /\ filled \in 0 .. Len(structs) /\ left \in Nat
  /\ filled > 0 => AllGenerated
  /\ left > 0 => filled > 0

Shape == PoolInv /\ StructsInv /\ OwnersInv /\ FillInv

(* The scopes structs are asked for in, and those they own.                *)
LEMMA Scopes ==
  ASSUME PoolInv
  PROVE  /\ Known(pool, ModuleScope) /\ CompleteScope(pool, ModuleScope)
         /\ \A id \in Issued(pool) : pool.scopes[id] = ModuleScope =>
              /\ GetScopeForChildren(pool, id) = StructScope(id)
              /\ Known(pool, StructScope(id)) /\ CompleteScope(pool, StructScope(id))
BY OwnScopes DEF PoolInv, ModuleScope, StructScope

LEMMA ShapeInit == Init => Shape
<1> SUFFICES ASSUME Init PROVE Shape
  OBVIOUS
<1> DEFINE next == NextIdentifier(NewPool, "Module", HardcodedAddress)
<1>1. "Module" \in Kinds \ {"StructConcrete"} /\ "Struct" \in Kinds
  BY DEF Kinds, KindName
<1>2. /\ PoolOK(NewPool) /\ Known(NewPool, HardcodedAddress)
      /\ CompleteScope(NewPool, HardcodedAddress)
  BY NewPoolOK
<1>3. /\ Issued(NewPool) = {} /\ NewPool.counters = [k \in Kinds |-> 0]
  BY DEF Issued, NewPool
<1>4. /\ next.id = ModuleName
      /\ next.pool.counters = [NewPool.counters EXCEPT !["Module"] = @ + 1]
  BY <1>1, <1>3 DEF NextIdentifier, ModuleName
<1>5. /\ PoolOK(next.pool) /\ Issued(next.pool) = {ModuleName}
      /\ next.pool.scopes[ModuleName] = HardcodedAddress
  <2>1. /\ PoolOK(next.pool) /\ Issued(next.pool) = Issued(NewPool) \cup {next.id}
        /\ next.pool.scopes[next.id] = HardcodedAddress
    BY <1>1, <1>2, IssuedIdentifiers
  <2> HIDE DEF next
  <2> QED
    BY <1>3, <1>4, <2>1
<1>6. pool = next.pool /\ structs = << >> /\ bounds = << >> /\ types = << >>
      /\ filled = 0 /\ left = 0
  BY DEF Init
<1> HIDE DEF next
<1>7. PoolInv
  BY <1>1, <1>3, <1>4, <1>5, <1>6 DEF PoolInv
<1>8. StructsInv
  BY <1>6, SkeletonsAssumption DEF StructsInv, N
<1>9. OwnersInv
  <2>1. IdentifiersOfKind(pool, "TypeParameter") = {} /\ IdentifiersOfKind(pool, "Var") = {}
    BY <1>5, <1>6 DEF IdentifiersOfKind, ModuleName
  <2> QED
    BY <1>6, <2>1 DEF OwnersInv
<1>10. FillInv
  BY <1>6 DEF FillInv
<1> QED
  BY <1>7, <1>8, <1>9, <1>10 DEF Shape

(* What a definition depends on.                                           *)
LEMMA DefinitionKept ==
  ASSUME Shape, NEW i \in 1 .. Len(structs), structs'[i] = structs[i], filled' >= filled,
         filled' \in Nat, filled \in Nat,
         Issued(pool) \subseteq Issued(pool'),
         \A id \in Issued(pool) : pool'.scopes[id] = pool.scopes[id],
         DOMAIN bounds \subseteq DOMAIN bounds', DOMAIN types \subseteq DOMAIN types'
  PROVE  DefinitionInv(i)'
<1> DEFINE st == structs[i]
<1>1. DefinitionInv(i)
  BY DEF Shape, StructsInv
<1>2. /\ st.name = <<"Struct", i - 1>>
      /\ st.name \in Issued(pool) /\ pool.scopes[st.name] = ModuleScope
      /\ st.has = IF i = N + 1 THEN Abilities ELSE {"copy", "drop"}
      /\ st.tps = << >> <=> (i = N + 1 \/ TypeParams[i] = << >>)
      /\ \A tp \in Range(st.tps) : pool.scopes[tp] = StructScope(st.name)
      /\ \A f \in Range(st.fields) : pool.scopes[f] = StructScope(st.name)
      /\ i > filled => st.fields = << >>
      /\ st.tps \in Seq(DOMAIN bounds) /\ st.fields \in Seq(DOMAIN types)
  BY <1>1 DEF DefinitionInv
<1>6. structs'[i] = st
  BY DEF st
<1> HIDE DEF st
<1>3. Range(st.tps) \subseteq Issued(pool) /\ Range(st.fields) \subseteq Issued(pool)
  <2>1. Range(st.tps) \subseteq DOMAIN bounds /\ Range(st.fields) \subseteq DOMAIN types
    BY <1>2 DEF Range
  <2> QED
    BY <2>1 DEF Shape, OwnersInv, IdentifiersOfKind
<1>4. st.tps \in Seq(DOMAIN bounds') /\ st.fields \in Seq(DOMAIN types')
  BY <1>2
<1>5. i > filled' => i > filled
  OBVIOUS
<1>7. \A tp \in Range(st.tps) : pool'.scopes[tp] = StructScope(st.name)
  BY <1>2, <1>3
<1>8. \A f \in Range(st.fields) : pool'.scopes[f] = StructScope(st.name)
  BY <1>2, <1>3
<1>9. st.name \in Issued(pool') /\ pool'.scopes[st.name] = ModuleScope
  BY <1>2
<1> QED
  BY <1>2, <1>4, <1>5, <1>6, <1>7, <1>8, <1>9 DEF DefinitionInv

LEMMA RangeInSeq ==
  ASSUME NEW S, NEW T, NEW s \in Seq(S)
  PROVE  /\ Range(s) \subseteq S
         /\ Range(s) \subseteq T => s \in Seq(T)
         /\ \A x \in S : /\ Range(Append(s, x)) = Range(s) \cup {x}
                         /\ Append(s, x) \in Seq(S) /\ Append(s, x) # << >>
<1>1. DOMAIN s = 1 .. Len(s) /\ \A i \in 1 .. Len(s) : s[i] \in S
  OBVIOUS
<1>2. Range(s) = {s[i] : i \in 1 .. Len(s)}
  BY <1>1 DEF Range
<1>3. ASSUME Range(s) \subseteq T PROVE s \in Seq(T)
  <2>1. \A i \in 1 .. Len(s) : s[i] \in T
    BY <1>2, <1>3
  <2> QED
    BY <1>1, <2>1
<1> QED
  BY <1>1, <1>2, <1>3, Appending

(* generate_struct_skeleton.                                               *)
LEMMA ShapeSkeleton == Shape /\ GenerateStructSkeleton => Shape'
<1> SUFFICES ASSUME Shape, GenerateStructSkeleton PROVE Shape'
  OBVIOUS
<1>n. PICK n : n = Len(structs)
  OBVIOUS
<1> DEFINE next == NextIdentifier(pool, "Struct", ModuleScope)
           optional == TypeParams[Len(structs) + 1]
           params == NextIdentifiers(next.pool, "TypeParameter", next.scope, Len(optional))
           new == Struct(next.id, {"copy", "drop"}, params.ids)
<1>1. PICK drawn \in [DOMAIN optional -> StructParameterAbilities] :
        bounds' = [tp \in DOMAIN bounds \cup Range(params.ids) |->
                     IF tp \in DOMAIN bounds THEN bounds[tp]
                     ELSE drawn[CHOOSE i \in DOMAIN drawn : params.ids[i] = tp]]
  BY <1>n DEF GenerateStructSkeleton
<1>2. /\ n < N /\ pool' = params.pool /\ structs' = Append(structs, new)
      /\ UNCHANGED <<types, filled, left, structFields, phantom>>
  BY <1>n DEF GenerateStructSkeleton, N
<1>3. /\ n \in Nat /\ N \in Nat /\ optional \in Seq(SUBSET {"store", "key"})
      /\ Len(optional) \in Nat /\ filled = 0 /\ left = 0
  <2>1. n \in Nat /\ N \in Nat /\ optional \in Seq(SUBSET {"store", "key"})
    BY <1>n, <1>2, SkeletonsAssumption DEF Shape, StructsInv, N
  <2> QED
    BY <1>n, <2>1, <1>2 DEF Shape, FillInv, AllGenerated, N
<1>4. {"Struct", "TypeParameter", "Var"} \subseteq Kinds \ {"StructConcrete"}
  BY DEF Kinds, KindName
<1>5. /\ PoolOK(pool) /\ Known(pool, ModuleScope) /\ CompleteScope(pool, ModuleScope)
      /\ ModuleName \in Issued(pool) /\ pool.scopes[ModuleName] = HardcodedAddress
      /\ pool.counters["Struct"] = n /\ pool.counters \in [Kinds -> Nat]
  BY <1>n, Scopes DEF Shape, PoolInv, PoolOK, CountersAhead
<1>6. /\ next.id = <<"Struct", n>> /\ next.scope = StructScope(next.id)
      /\ next.pool.counters = [pool.counters EXCEPT !["Struct"] = @ + 1]
  BY <1>5 DEF NextIdentifier, StructScope
<1>7. /\ next.id \in Identifiers \ Issued(pool)
      /\ \A id \in Issued(pool) : next.pool.scopes[id] = pool.scopes[id]
      /\ Issued(next.pool) = Issued(pool) \cup {next.id}
      /\ next.pool.scopes[next.id] = ModuleScope
      /\ PoolOK(next.pool)
      /\ Known(next.pool, next.scope) /\ CompleteScope(next.pool, next.scope)
  BY <1>4, <1>5, IssuedIdentifiers
<1> HIDE DEF next
<1>8. /\ params.ids \in Seq(Identifiers) /\ Len(params.ids) = Len(optional)
      /\ \A id \in Range(params.ids) :
           id[1] = "TypeParameter" /\ params.pool.scopes[id] = next.scope
      /\ Range(params.ids) \cap Issued(next.pool) = {}
      /\ Issued(params.pool) = Issued(next.pool) \cup Range(params.ids)
      /\ \A id \in Issued(next.pool) : params.pool.scopes[id] = next.pool.scopes[id]
      /\ \A k \in Kinds \ {"TypeParameter"} : params.pool.counters[k] = next.pool.counters[k]
      /\ PoolOK(params.pool)
  BY <1>3, <1>4, <1>7, ManyIssued
<1> HIDE DEF params, optional
<1>9. /\ Issued(pool') = Issued(pool) \cup {next.id} \cup Range(params.ids)
      /\ \A id \in Issued(pool) : pool'.scopes[id] = pool.scopes[id]
      /\ pool'.scopes[next.id] = ModuleScope
      /\ \A id \in Range(params.ids) : pool'.scopes[id] = StructScope(next.id)
  BY <1>2, <1>6, <1>7, <1>8
<1>10. /\ new = [name |-> next.id, has |-> {"copy", "drop"}, tps |-> params.ids, fields |-> << >>]
       /\ Len(structs') = n + 1 /\ structs'[n + 1] = new
       /\ \A i \in 1 .. n : structs'[i] = structs[i]
  <2>1. structs \in Seq(Definitions)
    BY DEF Shape, StructsInv
  <2>2. new = [name |-> next.id, has |-> {"copy", "drop"}, tps |-> params.ids, fields |-> << >>]
    BY DEF Struct
  <2> QED
    BY <1>n, <1>2, <2>1, <2>2
<1> HIDE DEF new
<1>11. PoolInv'
  <2>1. pool'.counters["Struct"] = n + 1
    BY <1>2, <1>4, <1>5, <1>6, <1>8
  <2> QED
    BY <1>2, <1>5, <1>8, <1>9, <1>10, <2>1 DEF PoolInv
<1>12. /\ DOMAIN bounds' = DOMAIN bounds \cup Range(params.ids)
       /\ \A tp \in DOMAIN bounds : bounds'[tp] = bounds[tp]
       /\ \A tp \in Range(params.ids) \ DOMAIN bounds : bounds'[tp] \in StructParameterAbilities
  <2>1. ASSUME NEW tp \in Range(params.ids) \ DOMAIN bounds
        PROVE  bounds'[tp] \in StructParameterAbilities
    <3>1. DOMAIN params.ids = DOMAIN optional /\ DOMAIN drawn = DOMAIN optional
      BY <1>3, <1>8
    <3>2. \E i \in DOMAIN drawn : params.ids[i] = tp
      BY <3>1 DEF Range
    <3> QED
      BY <1>1, <3>2
  <2> QED
    BY <1>1, <2>1
<1>13. DefinitionInv(n + 1)'
  <2>1. params.ids \in Seq(DOMAIN bounds')
    BY <1>8, <1>12, RangeInSeq
  <2>2. params.ids = << >> <=> TypeParams[n + 1] = << >>
    BY <1>n, <1>3, <1>8 DEF optional
  <2>3. /\ structs'[n + 1].name = <<"Struct", (n + 1) - 1>>
        /\ structs'[n + 1].name = next.id /\ structs'[n + 1].tps = params.ids
        /\ structs'[n + 1].has = {"copy", "drop"} /\ structs'[n + 1].fields = << >>
    BY <1>3, <1>6, <1>10
  <2>4. n + 1 # N + 1
    BY <1>2, <1>3
  <2>5. Range(<< >>) = {} /\ << >> \in Seq(DOMAIN types')
    BY DEF Range
  <2>6. structs'[n + 1].tps = << >> <=> (n + 1 = N + 1 \/ TypeParams[n + 1] = << >>)
    BY <2>2, <2>3, <2>4
  <2>7. structs'[n + 1].has = IF n + 1 = N + 1 THEN Abilities ELSE {"copy", "drop"}
    BY <2>3, <2>4
  <2>8. \A tp \in Range(structs'[n + 1].tps) : pool'.scopes[tp] = StructScope(structs'[n + 1].name)
    BY <1>9, <2>3
  <2>9. \A f \in Range(structs'[n + 1].fields) : pool'.scopes[f] = StructScope(structs'[n + 1].name)
    BY <2>3, <2>5
  <2>10. /\ structs'[n + 1].name \in Issued(pool')
         /\ pool'.scopes[structs'[n + 1].name] = ModuleScope
    BY <1>9, <2>3
  <2> QED
    BY <2>1, <2>3, <2>5, <2>6, <2>7, <2>8, <2>9, <2>10 DEF DefinitionInv
<1>14. StructsInv'
  <2>1. \A i \in 1 .. n : DefinitionInv(i)'
    BY <1>n, <1>2, <1>3, <1>9, <1>10, <1>12, DefinitionKept
  <2>2. new \in Definitions
    BY <1>7, <1>8, <1>10 DEF Abilities, Definitions
  <2>3. structs' \in Seq(Definitions)
    BY <1>2, <2>2, RangeInSeq DEF Shape, StructsInv
  <2>4. 1 .. Len(structs') = (1 .. n) \cup {n + 1} /\ Len(structs') <= N + 1
    BY <1>2, <1>3, <1>10
  <2> QED
    BY <1>13, <2>1, <2>3, <2>4 DEF StructsInv
<1>15. OwnersInv'
  <2>1. /\ IdentifiersOfKind(pool', "TypeParameter") = DOMAIN bounds'
        /\ IdentifiersOfKind(pool', "Var") = DOMAIN types'
    BY <1>2, <1>6, <1>8, <1>9, <1>12 DEF Shape, OwnersInv, IdentifiersOfKind
  <2>2. \A tp \in DOMAIN bounds' : {"copy", "drop"} \subseteq bounds'[tp] /\ bounds'[tp] \subseteq Abilities
    BY <1>12 DEF Shape, OwnersInv, StructParameterAbilities, TypeParameterAbilities
  <2>3. \A tp \in DOMAIN bounds' : \E i \in 1 .. Len(structs') : tp \in Range(structs'[i].tps)
    BY <1>n, <1>3, <1>10, <1>12 DEF Shape, OwnersInv
  <2>4. \A f \in DOMAIN types' : \E i \in 1 .. Len(structs') : f \in Range(structs'[i].fields)
    BY <1>n, <1>2, <1>3, <1>10 DEF Shape, OwnersInv
  <2> QED
    BY <2>1, <2>2, <2>3, <2>4 DEF OwnersInv
<1>16. FillInv'
  BY <1>2, <1>3, <1>10 DEF FillInv
<1> QED
  BY <1>11, <1>14, <1>15, <1>16 DEF Shape

(* The struct with all abilities, at the end of generate_module_skeleton.  *)
LEMMA ShapeAllAbilities == Shape /\ GenerateAllAbilitiesStruct => Shape'
<1> SUFFICES ASSUME Shape, GenerateAllAbilitiesStruct PROVE Shape'
  OBVIOUS
<1>n. PICK n : n = Len(structs)
  OBVIOUS
<1> DEFINE next == NextIdentifier(pool, "Struct", ModuleScope)
           new == Struct(next.id, Abilities, << >>)
<1>1. /\ n = N /\ pool' = next.pool /\ structs' = Append(structs, new)
      /\ UNCHANGED <<bounds, types, filled, left, structFields, phantom>>
  BY <1>n DEF GenerateAllAbilitiesStruct, N
<1>2. n \in Nat /\ N \in Nat /\ filled = 0 /\ left = 0
  <2>1. n \in Nat /\ N \in Nat
    BY <1>n, <1>1, SkeletonsAssumption DEF Shape, StructsInv, N
  <2> QED
    BY <1>n, <2>1, <1>1 DEF Shape, FillInv, AllGenerated, N
<1>3. {"Struct", "TypeParameter", "Var"} \subseteq Kinds \ {"StructConcrete"}
  BY DEF Kinds, KindName
<1>4. /\ PoolOK(pool) /\ Known(pool, ModuleScope) /\ CompleteScope(pool, ModuleScope)
      /\ ModuleName \in Issued(pool) /\ pool.scopes[ModuleName] = HardcodedAddress
      /\ pool.counters["Struct"] = n /\ pool.counters \in [Kinds -> Nat]
  BY <1>n, Scopes DEF Shape, PoolInv, PoolOK, CountersAhead
<1>5. /\ next.id = <<"Struct", n>>
      /\ next.pool.counters = [pool.counters EXCEPT !["Struct"] = @ + 1]
  BY <1>4 DEF NextIdentifier
<1>6. /\ next.id \in Identifiers \ Issued(pool)
      /\ \A id \in Issued(pool) : next.pool.scopes[id] = pool.scopes[id]
      /\ Issued(next.pool) = Issued(pool) \cup {next.id}
      /\ next.pool.scopes[next.id] = ModuleScope
      /\ PoolOK(next.pool)
  BY <1>3, <1>4, IssuedIdentifiers
<1> HIDE DEF next
<1>7. /\ new = [name |-> next.id, has |-> Abilities, tps |-> << >>, fields |-> << >>]
      /\ Len(structs') = n + 1 /\ structs'[n + 1] = new
      /\ \A i \in 1 .. n : structs'[i] = structs[i]
  <2>1. structs \in Seq(Definitions)
    BY DEF Shape, StructsInv
  <2>2. new = [name |-> next.id, has |-> Abilities, tps |-> << >>, fields |-> << >>]
    BY DEF Struct
  <2> HIDE DEF new
  <2>3. Len(Append(structs, new)) = n + 1 /\ Append(structs, new)[n + 1] = new
        /\ \A i \in 1 .. n : Append(structs, new)[i] = structs[i]
    BY <1>n, <2>1
  <2> QED
    BY <1>1, <2>2, <2>3
<1> HIDE DEF new
<1>8. PoolInv'
  BY <1>1, <1>2, <1>3, <1>4, <1>5, <1>6, <1>7 DEF PoolInv
<1>9. DefinitionInv(n + 1)'
  <2>1. /\ structs'[n + 1].name = <<"Struct", (n + 1) - 1>>
        /\ structs'[n + 1].name = next.id /\ structs'[n + 1].tps = << >>
        /\ structs'[n + 1].has = Abilities /\ structs'[n + 1].fields = << >>
    BY <1>2, <1>5, <1>7
  <2>2. n + 1 = N + 1
    BY <1>1, <1>2
  <2>3. /\ Range(<< >>) = {} /\ << >> \in Seq(DOMAIN types') /\ << >> \in Seq(DOMAIN bounds')
    BY DEF Range
  <2>4. /\ structs'[n + 1].name \in Issued(pool')
        /\ pool'.scopes[structs'[n + 1].name] = ModuleScope
    BY <1>1, <1>6, <2>1
  <2> QED
    BY <2>1, <2>2, <2>3, <2>4 DEF DefinitionInv
<1>10. StructsInv'
  <2>1. \A i \in 1 .. n : DefinitionInv(i)'
    BY <1>n, <1>1, <1>2, <1>6, <1>7, DefinitionKept
  <2>2. new \in Definitions
    BY <1>6, <1>7 DEF Definitions
  <2>3. structs' \in Seq(Definitions)
    BY <1>1, <2>2, RangeInSeq DEF Shape, StructsInv
  <2>4. 1 .. Len(structs') = (1 .. n) \cup {n + 1} /\ Len(structs') <= N + 1
    BY <1>1, <1>2, <1>7
  <2> QED
    BY <1>9, <2>1, <2>3, <2>4 DEF StructsInv
<1>11. OwnersInv'
  <2>1. /\ IdentifiersOfKind(pool', "TypeParameter") = IdentifiersOfKind(pool, "TypeParameter")
        /\ IdentifiersOfKind(pool', "Var") = IdentifiersOfKind(pool, "Var")
    BY <1>1, <1>5, <1>6 DEF IdentifiersOfKind
  <2>2. \A tp \in DOMAIN bounds : \E i \in 1 .. Len(structs') : tp \in Range(structs'[i].tps)
    BY <1>n, <1>2, <1>7 DEF Shape, OwnersInv
  <2>3. \A f \in DOMAIN types : \E i \in 1 .. Len(structs') : f \in Range(structs'[i].fields)
    BY <1>n, <1>2, <1>7 DEF Shape, OwnersInv
  <2> QED
    BY <1>1, <2>1, <2>2, <2>3 DEF Shape, OwnersInv
<1>12. FillInv'
  BY <1>1, <1>2, <1>7 DEF FillInv, AllGenerated, N
<1> QED
  BY <1>8, <1>10, <1>11, <1>12 DEF Shape

(* What fill_struct works on.                                              *)
LEMMA BeingFilled ==
  ASSUME Shape, left > 0
  PROVE  /\ filled \in 1 .. Len(structs) /\ Len(structs) = N + 1 /\ N \in Nat
         /\ structs[filled].name \in StructNames
         /\ structs[filled].name \in Issued(pool)
         /\ GetScopeForChildren(pool, structs[filled].name) = StructScope(structs[filled].name)
         /\ Known(pool, StructScope(structs[filled].name))
         /\ CompleteScope(pool, StructScope(structs[filled].name))
<1>1. filled \in 1 .. Len(structs) /\ Len(structs) = N + 1 /\ N \in Nat
  BY SkeletonsAssumption DEF Shape, FillInv, AllGenerated, N, StructsInv
<1>2. DefinitionInv(filled)
  BY <1>1 DEF Shape, StructsInv
<1>3. structs[filled].name = <<"Struct", filled - 1>> /\ filled - 1 \in 0 .. N
  BY <1>1, <1>2 DEF DefinitionInv
<1>4. structs[filled].name \in Issued(pool) /\ pool.scopes[structs[filled].name] = ModuleScope
  BY <1>2 DEF DefinitionInv
<1> QED
  BY <1>1, <1>3, <1>4, Scopes DEF StructNames, N, Shape

(* A field of any type.                                                    *)
LEMMA FieldAdded ==
  ASSUME Shape, left > 0, NEW t, AddField(t)
  PROVE  \E id \in Identifiers \ Issued(pool) :
           /\ id[1] = "Var"
           /\ PoolOK(pool') /\ pool'.counters["Struct"] = pool.counters["Struct"]
           /\ Issued(pool') = Issued(pool) \cup {id}
           /\ \A i \in Issued(pool) : pool'.scopes[i] = pool.scopes[i]
           /\ pool'.scopes[id] = StructScope(structs[filled].name)
           /\ DOMAIN types' = DOMAIN types \cup {id} /\ types'[id] = t
           /\ \A f \in DOMAIN types : types'[f] = types[f]
           /\ structs' = [structs EXCEPT ![filled].fields = Append(@, id)]
           /\ id \notin DOMAIN types
<1> DEFINE scope == GetScopeForChildren(pool, structs[filled].name)
           next == NextIdentifier(pool, "Var", scope)
<1>1. /\ scope = StructScope(structs[filled].name)
      /\ Known(pool, scope) /\ CompleteScope(pool, scope)
  BY BeingFilled
<1>2. "Var" \in Kinds \ {"StructConcrete"} /\ "Struct" \in Kinds
  BY DEF Kinds, KindName
<1>3. PoolOK(pool) /\ pool.counters \in [Kinds -> Nat]
  BY DEF Shape, PoolInv, PoolOK, CountersAhead
<1>4. /\ pool' = next.pool
      /\ types' = [f \in DOMAIN types \cup {next.id} |-> IF f = next.id THEN t ELSE types[f]]
      /\ structs' = [structs EXCEPT ![filled].fields = Append(@, next.id)]
  BY DEF AddField
<1>5. /\ next.id = <<"Var", pool.counters["Var"]>>
      /\ next.pool.counters = [pool.counters EXCEPT !["Var"] = @ + 1]
  BY DEF NextIdentifier
<1> HIDE DEF scope
<1>6. /\ next.id \in Identifiers \ Issued(pool)
      /\ \A id \in Issued(pool) : next.pool.scopes[id] = pool.scopes[id]
      /\ Issued(next.pool) = Issued(pool) \cup {next.id}
      /\ next.pool.scopes[next.id] = scope
      /\ PoolOK(next.pool)
  BY <1>1, <1>2, <1>3, IssuedIdentifiers
<1> HIDE DEF next
<1>7. next.id \notin DOMAIN types
  BY <1>6 DEF Shape, OwnersInv, IdentifiersOfKind
<1> QED
  BY <1>1, <1>2, <1>3, <1>4, <1>5, <1>6, <1>7

LEMMA ShapeField ==
  ASSUME Shape, left > 0, NEW t, AddField(t)
  PROVE  Shape'
<1>n. PICK k : k = filled
  OBVIOUS
<1>1. /\ filled' = filled /\ left' = left - 1 /\ bounds' = bounds
  BY DEF AddField
<1>2. PICK id \in Identifiers \ Issued(pool) :
        /\ id[1] = "Var"
        /\ PoolOK(pool') /\ pool'.counters["Struct"] = pool.counters["Struct"]
        /\ Issued(pool') = Issued(pool) \cup {id}
        /\ \A i \in Issued(pool) : pool'.scopes[i] = pool.scopes[i]
        /\ pool'.scopes[id] = StructScope(structs[filled].name)
        /\ DOMAIN types' = DOMAIN types \cup {id} /\ types'[id] = t
        /\ \A f \in DOMAIN types : types'[f] = types[f]
        /\ structs' = [structs EXCEPT ![filled].fields = Append(@, id)]
        /\ id \notin DOMAIN types
  BY FieldAdded
<1>3. /\ k \in 1 .. Len(structs) /\ structs \in Seq(Definitions) /\ Len(structs) <= N + 1
      /\ Len(structs) = N + 1 /\ N \in Nat /\ left \in Nat /\ Len(structs) \in Nat
  BY <1>n, BeingFilled DEF Shape, StructsInv, FillInv
<1> DEFINE fields == Append(structs[k].fields, id)
<1>4. /\ structs[k] \in Definitions /\ structs[k].fields \in Seq(DOMAIN types)
      /\ DefinitionInv(k)
  <2>1. DefinitionInv(k)
    BY <1>3 DEF Shape, StructsInv
  <2>2. structs[k].fields \in Seq(DOMAIN types)
    BY <2>1 DEF DefinitionInv
  <2>3. structs[k] \in Definitions
    BY <1>3
  <2> QED
    BY <2>1, <2>2, <2>3
<1>5. /\ fields \in Seq(Identifiers) /\ fields \in Seq(DOMAIN types')
      /\ Range(fields) = Range(structs[k].fields) \cup {id}
  <2>1. structs[k].fields \in Seq(Identifiers)
    BY <1>4 DEF Definitions
  <2>2. structs[k].fields \in Seq(DOMAIN types')
    BY <1>2, <1>4
  <2> QED
    BY <1>2, <2>1, <2>2, RangeInSeq
<1> HIDE DEF fields
<1>6. /\ Len(structs') = Len(structs) /\ structs' \in Seq(Definitions)
      /\ \A i \in 1 .. Len(structs) : i # k => structs'[i] = structs[i]
      /\ structs'[k] = [structs[k] EXCEPT !.fields = fields]
  <2>1. structs' = [structs EXCEPT ![k] = [structs[k] EXCEPT !.fields = fields]]
    BY <1>n, <1>2 DEF fields
  <2>2. [structs[k] EXCEPT !.fields = fields] \in Definitions
    BY <1>4, <1>5 DEF Definitions
  <2> QED
    BY <1>3, <2>1, <2>2
<1>7. /\ structs'[k].name = structs[k].name /\ structs'[k].has = structs[k].has
      /\ structs'[k].tps = structs[k].tps /\ structs'[k].fields = fields
  BY <1>4, <1>6 DEF Definitions
<1>8. PoolInv'
  BY <1>2, <1>6 DEF Shape, PoolInv
<1>9. DefinitionInv(k)'
  <2>1. /\ structs[k].name = <<"Struct", k - 1>>
        /\ structs[k].name \in Issued(pool) /\ pool.scopes[structs[k].name] = ModuleScope
        /\ structs[k].has = IF k = N + 1 THEN Abilities ELSE {"copy", "drop"}
        /\ structs[k].tps \in Seq(DOMAIN bounds)
        /\ structs[k].tps = << >> <=> (k = N + 1 \/ TypeParams[k] = << >>)
        /\ \A tp \in Range(structs[k].tps) : pool.scopes[tp] = StructScope(structs[k].name)
        /\ \A f \in Range(structs[k].fields) : pool.scopes[f] = StructScope(structs[k].name)
    BY <1>4 DEF DefinitionInv
  <2>2. Range(structs[k].tps) \subseteq Issued(pool) /\ Range(structs[k].fields) \subseteq Issued(pool)
    BY <1>4, <2>1, RangeInSeq DEF Shape, OwnersInv, IdentifiersOfKind
  <2>3. \A tp \in Range(structs[k].tps) : pool'.scopes[tp] = StructScope(structs[k].name)
    BY <1>2, <2>1, <2>2
  <2>4. \A f \in Range(fields) : pool'.scopes[f] = StructScope(structs[k].name)
    BY <1>n, <1>2, <1>5, <2>1, <2>2
  <2>5. ~(k > filled')
    BY <1>n, <1>1, <1>3
  <2> QED
    BY <1>1, <1>2, <1>5, <1>7, <2>1, <2>3, <2>4, <2>5 DEF DefinitionInv
<1>10. StructsInv'
  <2>1. \A i \in 1 .. Len(structs) : i # k => DefinitionInv(i)'
    BY <1>n, <1>1, <1>2, <1>3, <1>6, DefinitionKept
  <2> QED
    BY <1>3, <1>6, <1>9, <2>1 DEF StructsInv
<1>11. OwnersInv'
  <2>1. /\ IdentifiersOfKind(pool', "TypeParameter") = IdentifiersOfKind(pool, "TypeParameter")
        /\ IdentifiersOfKind(pool', "Var") = IdentifiersOfKind(pool, "Var") \cup {id}
    BY <1>2 DEF IdentifiersOfKind
  <2>2. \A i \in 1 .. Len(structs) :
          structs'[i].tps = structs[i].tps /\ Range(structs[i].fields) \subseteq Range(structs'[i].fields)
    BY <1>5, <1>6, <1>7
  <2>3. id \in Range(structs'[k].fields)
    BY <1>5, <1>7
  <2>4. \A tp \in DOMAIN bounds : \E i \in 1 .. Len(structs') : tp \in Range(structs'[i].tps)
    <3> TAKE tp \in DOMAIN bounds
    <3>1. PICK i \in 1 .. Len(structs) : tp \in Range(structs[i].tps)
      BY DEF Shape, OwnersInv
    <3>2. structs'[i].tps = structs[i].tps
      BY <2>2
    <3> QED
      BY <1>6, <3>1, <3>2
  <2>5. \A f \in DOMAIN types' : \E i \in 1 .. Len(structs') : f \in Range(structs'[i].fields)
    <3> TAKE f \in DOMAIN types'
    <3>1. CASE f = id
      BY <1>3, <1>6, <2>3, <3>1
    <3>2. CASE f \in DOMAIN types
      <4>1. PICK i \in 1 .. Len(structs) : f \in Range(structs[i].fields)
        BY <3>2 DEF Shape, OwnersInv
      <4>2. f \in Range(structs'[i].fields)
        BY <2>2, <4>1
      <4> QED
        BY <1>6, <4>1, <4>2
    <3> QED
      BY <1>2, <3>1, <3>2
  <2> QED
    BY <1>1, <1>2, <2>1, <2>4, <2>5 DEF Shape, OwnersInv
<1>12. FillInv'
  BY <1>1, <1>3, <1>6 DEF Shape, FillInv, AllGenerated
<1> QED
  BY <1>8, <1>10, <1>11, <1>12 DEF Shape

(* Every other step declares nothing.                                      *)
LEMMA ShapeRest ==
  ASSUME Shape, UNCHANGED <<pool, structs, bounds, types>>,
         filled' \in 0 .. Len(structs), filled' >= filled, left' \in Nat,
         filled' > 0 => AllGenerated, left' > 0 => filled' > 0
  PROVE  Shape'
<1>1. filled \in Nat /\ filled' \in Nat /\ Len(structs) \in Nat
  BY DEF Shape, FillInv, StructsInv
<1>2. \A i \in 1 .. Len(structs) : DefinitionInv(i)'
  BY <1>1, DefinitionKept
<1> QED
  BY <1>2 DEF Shape, PoolInv, StructsInv, OwnersInv, FillInv, AllGenerated, Issued, IdentifiersOfKind

LEMMA ShapeStep == Shape /\ [Next]_skeletonVars => Shape'
<1> SUFFICES ASSUME Shape, [Next]_skeletonVars PROVE Shape'
  OBVIOUS
<1>1. Len(structs) \in Nat /\ filled \in 0 .. Len(structs) /\ left \in Nat
  BY DEF Shape, FillInv, StructsInv
<1>2. CASE GenerateStructSkeleton
  BY <1>2, ShapeSkeleton
<1>3. CASE GenerateAllAbilitiesStruct
  BY <1>3, ShapeAllAbilities
<1>4. CASE FillStruct
  <2>1. /\ filled' = filled + 1 /\ filled < Len(structs) /\ left' \in FieldCounts /\ AllGenerated
        /\ UNCHANGED <<pool, structs, bounds, types>>
    BY <1>4 DEF FillStruct
  <2> QED
    BY <1>1, <2>1, ShapeRest, SkeletonsAssumption
<1>5. CASE AddBasicField
  BY <1>5, ShapeField DEF AddBasicField
<1>6. CASE AddStructField
  BY <1>6, ShapeField DEF AddStructField
<1>7. CASE PostProcessStructs
  BY <1>1, <1>7, ShapeRest DEF PostProcessStructs, Shape, FillInv
<1>8. CASE Finished \/ UNCHANGED skeletonVars
  BY <1>1, <1>8, ShapeRest DEF Finished, skeletonVars, Shape, FillInv
<1> QED
  BY <1>2, <1>3, <1>4, <1>5, <1>6, <1>7, <1>8 DEF Next

LEMMA ShapeHolds == Spec => []Shape
BY ShapeInit, ShapeStep, PTL DEF Spec

-----------------------------------------------------------------------------
(***************************************************************************)
(* Filling the structs is filling the graph of StructGraph.                *)
(***************************************************************************)

LEMMA NamedStructs ==
  ASSUME Shape
  PROVE  /\ N \in Nat
         /\ \A i \in 1 .. Len(structs) :
              /\ structs[i].name = <<"Struct", i - 1>> /\ structs[i].name \in StructNames
              /\ structs[i].name[2] < Len(structs) /\ DefinitionOf(structs[i].name) = structs[i]
         /\ \A n \in StructNames :
              /\ IsStruct(n) /\ n[2] \in 0 .. N /\ n = <<"Struct", n[2]>>
              /\ n[2] < Len(structs) => /\ n[2] + 1 \in 1 .. Len(structs)
                                        /\ n = structs[n[2] + 1].name
                                        /\ DefinitionOf(n) = structs[n[2] + 1]
<1>1. N \in Nat /\ Len(structs) \in Nat /\ Len(structs) <= N + 1
  BY SkeletonsAssumption DEF N, Shape, StructsInv
<1>2. \A i \in 1 .. Len(structs) : structs[i].name = <<"Struct", i - 1>>
  BY DEF Shape, StructsInv, DefinitionInv
<1>3. \A i \in 1 .. Len(structs) :
        /\ structs[i].name \in StructNames
        /\ structs[i].name[2] < Len(structs) /\ DefinitionOf(structs[i].name) = structs[i]
  <2> TAKE i \in 1 .. Len(structs)
  <2>1. structs[i].name = <<"Struct", i - 1>> /\ i - 1 \in 0 .. N /\ (i - 1) + 1 = i
    BY <1>1, <1>2
  <2> QED
    BY <1>1, <2>1 DEF StructNames, DefinitionOf, N
<1>4. \A n \in StructNames :
        /\ IsStruct(n) /\ n[2] \in 0 .. N /\ n = <<"Struct", n[2]>>
        /\ n[2] < Len(structs) => /\ n[2] + 1 \in 1 .. Len(structs)
                                  /\ n = structs[n[2] + 1].name
                                  /\ DefinitionOf(n) = structs[n[2] + 1]
  <2> TAKE n \in StructNames
  <2>1. PICK m \in 0 .. N : n = <<"Struct", m>>
    BY DEF StructNames, N
  <2>2. n[2] = m /\ IsStruct(n)
    BY <2>1 DEF IsStruct
  <2>3. ASSUME m < Len(structs)
        PROVE  m + 1 \in 1 .. Len(structs) /\ (m + 1) - 1 = m
    BY <1>1, <2>3
  <2> QED
    BY <1>2, <2>1, <2>2, <2>3 DEF DefinitionOf
<1> QED
  BY <1>1, <1>2, <1>3, <1>4

(* A leaf and what it mentions.                                            *)
LEMMA Leaves ==
  ASSUME NEW id
  PROVE  Mentions(Leaf(id)) = {id} /\ \A t : Leaf(id) \subseteq t => id \in Mentions(t)
<1>1. Last(<<id>>) = id
  BY DEF Last
<1> QED
  BY <1>1 DEF Mentions, Leaf

(* A field adds the structs in its type to those its struct uses.          *)
LEMMA FieldUses ==
  ASSUME Shape, left > 0, NEW t, AddField(t)
  PROVE  \A n \in StructNames :
           StructsInFields(n)' = IF n = structs[filled].name
                                 THEN StructsInFields(n) \cup StructsIn(t) ELSE StructsInFields(n)
<1>n. PICK k : k = filled
  OBVIOUS
<1>2. PICK id \in Identifiers \ Issued(pool) :
        /\ DOMAIN types' = DOMAIN types \cup {id} /\ types'[id] = t
        /\ \A f \in DOMAIN types : types'[f] = types[f]
        /\ structs' = [structs EXCEPT ![filled].fields = Append(@, id)]
        /\ id \notin DOMAIN types
  BY FieldAdded
<1>3. Shape'
  BY ShapeField
<1>4. k \in 1 .. Len(structs) /\ structs \in Seq(Definitions) /\ Len(structs) \in Nat
  BY <1>n, BeingFilled DEF Shape, StructsInv
<1>5. \A i \in 1 .. Len(structs) : structs[i].fields \in Seq(DOMAIN types)
  <2> TAKE i \in 1 .. Len(structs)
  <2>1. DefinitionInv(i)
    BY DEF Shape, StructsInv
  <2> QED
    BY <2>1 DEF DefinitionInv
<1>6. /\ Len(structs') = Len(structs)
      /\ \A i \in 1 .. Len(structs) : i # k => structs'[i] = structs[i]
      /\ structs'[k].fields = Append(structs[k].fields, id)
  <2>1. structs[k] \in Definitions
    BY <1>4
  <2> QED
    BY <1>n, <1>2, <1>4, <2>1 DEF Definitions
<1>7. SUFFICES ASSUME NEW n \in StructNames
               PROVE  StructsInFields(n)' = IF n = structs[k].name
                        THEN StructsInFields(n) \cup StructsIn(t) ELSE StructsInFields(n)
  BY <1>n
<1>8. PICK m \in 0 .. N : n = <<"Struct", m>> /\ n[2] = m
  BY NamedStructs
<1>9. CASE ~(m < Len(structs))
  <2>1. n # structs[k].name
    BY <1>4, <1>8, <1>9, NamedStructs
  <2> QED
    BY <1>6, <1>8, <1>9, <2>1 DEF StructsInFields
<1>10. CASE m < Len(structs) /\ n # structs[k].name
  <2>1. m + 1 \in 1 .. Len(structs) /\ DefinitionOf(n) = structs[m + 1] /\ m + 1 # k
    BY <1>8, <1>10, NamedStructs
  <2>2. DefinitionOf(n)' = structs[m + 1]
    BY <1>6, <1>8, <2>1 DEF DefinitionOf
  <2>3. Range(structs[m + 1].fields) \subseteq DOMAIN types
    BY <1>5, <2>1, RangeInSeq
  <2>4. \A f \in Range(structs[m + 1].fields) : StructsIn(types'[f]) = StructsIn(types[f])
    BY <1>2, <2>3
  <2> QED
    <3>1. StructsInFields(n) = UNION {StructsIn(types[f]) : f \in Range(structs[m + 1].fields)}
      BY <1>8, <1>10, <2>1 DEF StructsInFields
    <3>2. StructsInFields(n)' = UNION {StructsIn(types'[f]) : f \in Range(structs[m + 1].fields)}
      BY <1>6, <1>8, <1>10, <2>2 DEF StructsInFields
    <3> QED
      BY <1>10, <2>4, <3>1, <3>2
<1>11. CASE m < Len(structs) /\ n = structs[k].name
  <2>1. DefinitionOf(n) = structs[k] /\ m + 1 = k
    BY <1>4, <1>8, <1>11, NamedStructs
  <2>2. DefinitionOf(n)'.fields = Append(structs[k].fields, id)
    BY <1>6, <1>8, <2>1 DEF DefinitionOf
  <2>3. /\ Range(structs[k].fields) \subseteq DOMAIN types
        /\ Range(Append(structs[k].fields, id)) = Range(structs[k].fields) \cup {id}
    <3> DEFINE F == DOMAIN types'
    <3>1. structs[k].fields \in Seq(DOMAIN types)
      BY <1>4, <1>5
    <3>2. Range(structs[k].fields) \subseteq DOMAIN types
      BY <3>1, RangeInSeq
    <3>3. structs[k].fields \in Seq(F) /\ id \in F
      BY <1>2, <3>1
    <3> HIDE DEF F
    <3>4. Range(Append(structs[k].fields, id)) = Range(structs[k].fields) \cup {id}
      BY <3>3, RangeInSeq
    <3> QED
      BY <3>2, <3>4
  <2>4. \A f \in Range(structs[k].fields) : StructsIn(types'[f]) = StructsIn(types[f])
    BY <1>2, <2>3
  <2>5. StructsInFields(n) = UNION {StructsIn(types[f]) : f \in Range(structs[k].fields)}
    BY <1>8, <1>11, <2>1 DEF StructsInFields
  <2>6. StructsInFields(n)' =
          UNION {StructsIn(types'[f]) : f \in Range(structs[k].fields) \cup {id}}
    BY <1>6, <1>8, <1>11, <2>2, <2>3 DEF StructsInFields
  <2> QED
    BY <1>2, <1>11, <2>4, <2>5, <2>6
<1> QED
  BY <1>4, <1>8, <1>9, <1>10, <1>11

LEMMA FewNames ==
  ASSUME N \in Nat, NEW name \in StructNames, NEW set \in SUBSET (StructNames \ {name})
  PROVE  Cardinality(set) <= N
<1> DEFINE number == [n \in 0 .. N |-> <<"Struct", n>>]
<1>1. IsFiniteSet(0 .. N) /\ Cardinality(0 .. N) = N + 1
  BY FS_Interval
<1>2. number \in [0 .. N -> StructNames] /\ \A s \in StructNames : \E n \in 0 .. N : number[n] = s
  BY DEF StructNames, N
<1> HIDE DEF number
<1>3. IsFiniteSet(StructNames) /\ Cardinality(StructNames) <= N + 1
  <2>1. number \in Surjection(0 .. N, StructNames)
    BY <1>2 DEF Surjection
  <2> QED
    BY <1>1, <2>1, FS_Surjection
<1>4. IsFiniteSet(StructNames \ {name}) /\ Cardinality(StructNames \ {name}) = Cardinality(StructNames) - 1
  BY <1>3, FS_RemoveElement
<1>5. Cardinality(set) <= Cardinality(StructNames \ {name}) /\ Cardinality(set) \in Nat
  BY <1>4, FS_Subset, FS_CardinalityType
<1>6. Cardinality(StructNames) \in Nat
  BY <1>3, FS_CardinalityType
<1> QED
  BY <1>3, <1>4, <1>5, <1>6

(* The struct, and what else a draw for a field mentions.                  *)
LEMMA DrawnForField ==
  ASSUME Shape, left > 0, NEW limit, NEW t \in FieldTypes(structs[filled], limit)
  PROVE  \E u \in Range(structs) :
           /\ u \in GetUsableStructType(structs[filled]) /\ u.tps # << >>
           /\ t \in ConcreteStructs(u.name, StructScope(structs[filled].name),
                                    structs[filled].has, limit)
           /\ ~CheckStructReachable(t, structs[filled].name)
           /\ u.name \in StructsIn(t) /\ u.name \in GenericStructs
           /\ structs[filled].name # AllAbilitiesStruct
<1>1. PICK u \in GetUsableStructType(structs[filled]) :
        /\ u.tps # << >>
        /\ t \in ConcreteStructs(u.name, StructScope(structs[filled].name),
                                 structs[filled].has, limit)
        /\ ~CheckStructReachable(t, structs[filled].name)
  BY BeingFilled DEF FieldTypes, FieldTypesUnchecked
<1>2. PICK i \in 1 .. Len(structs) : u = structs[i]
  <2>1. u \in Range(structs)
    BY <1>1 DEF GetUsableStructType
  <2>2. DOMAIN structs = 1 .. Len(structs)
    BY DEF Shape, StructsInv
  <2> QED
    BY <2>1, <2>2 DEF Range
<1>3. u.name \in Mentions(t)
  <2>1. \E args : t = Concrete(u.name, args)
    BY <1>1 DEF ConcreteStructs, ConcretizeStruct
  <2> QED
    BY <2>1, Leaves DEF Concrete
<1>4. DefinitionInv(i) /\ DefinitionInv(filled)
  BY BeingFilled DEF Shape, StructsInv
<1>5. i # N + 1 /\ TypeParams[i] # << >> /\ u.has = {"copy", "drop"}
  BY <1>1, <1>2, <1>4 DEF DefinitionInv
<1>6. /\ Len(structs) = N + 1 /\ N \in Nat /\ filled \in 1 .. N + 1
      /\ u.name = <<"Struct", i - 1>> /\ u.name \in StructNames
      /\ structs[filled].name = <<"Struct", filled - 1>>
  BY <1>2, BeingFilled, NamedStructs
<1>7. u.name \in GenericStructs
  <2>1. DOMAIN TypeParams = 1 .. N
    BY SkeletonsAssumption DEF N
  <2>2. i \in DOMAIN TypeParams
    BY <1>5, <1>6, <2>1
  <2> QED
    BY <1>5, <1>6, <2>2 DEF GenericStructs
<1>8. filled # N + 1
  <2>1. structs[filled].has \subseteq {"copy", "drop"}
    BY <1>1, <1>5 DEF GetUsableStructType
  <2> QED
    BY <1>4, <2>1 DEF DefinitionInv, Abilities
<1>9. structs[filled].name # AllAbilitiesStruct
  BY <1>6, <1>8 DEF AllAbilitiesStruct, N
<1>10. u \in Range(structs)
  BY <1>1 DEF GetUsableStructType
<1> QED
  BY <1>1, <1>3, <1>6, <1>7, <1>9, <1>10 DEF StructsIn

LEMMA GraphCardinality == \A set : Graph!Cardinality(set) = Cardinality(set)
BY DEF Graph!Cardinality, Cardinality

(* The structs that wait, and the one being filled.                        *)
Waiting == StructNames \ {structs[i].name : i \in 1 .. filled}
InHand == IF filled = 0 THEN {} ELSE {structs[filled].name}

LEMMA FieldsFillGraph ==
  ASSUME Shape, left > 0, NEW t, AddField(t)
  PROVE  /\ [s \in StructNames |-> StructsInFields(s)]' =
              [[s \in StructNames |-> StructsInFields(s)] EXCEPT
                 ![structs[filled].name] = @ \cup StructsIn(t)]
         /\ Waiting' = Waiting /\ InHand' = InHand
<1>1. [s \in StructNames |-> StructsInFields(s)]' =
              [[s \in StructNames |-> StructsInFields(s)] EXCEPT
                 ![structs[filled].name] = @ \cup StructsIn(t)]
  BY FieldUses, BeingFilled
<1>2. filled' = filled /\ Len(structs') = Len(structs)
      /\ filled \in 1 .. Len(structs) /\ Len(structs) \in Nat
  BY BeingFilled DEF AddField, Shape, StructsInv
<1>3. \A i \in 1 .. Len(structs) : structs'[i].name = structs[i].name
  <2>1. Shape'
    BY ShapeField
  <2>2. \A i \in 1 .. Len(structs)' : structs'[i].name = <<"Struct", i - 1>>
    BY <2>1 DEF Shape, StructsInv, DefinitionInv
  <2> QED
    BY <1>2, <2>2, NamedStructs
<1>4. Waiting' = Waiting
  <2>1. \A i \in 1 .. filled : structs'[i].name = structs[i].name
    BY <1>2, <1>3
  <2>2. {structs'[i].name : i \in 1 .. filled'} = {structs[i].name : i \in 1 .. filled}
    BY <1>2, <2>1
  <2> QED
    BY <2>2 DEF Waiting
<1>5. InHand' = InHand
  BY <1>2, <1>3 DEF InHand
<1> QED
  BY <1>1, <1>4, <1>5

LEMMA GraphStep ==
  ASSUME Shape, [Next]_skeletonVars
  PROVE  [Graph!NextStructs]_(Graph!structVars)
<1> DEFINE used == [s \in StructNames |-> StructsInFields(s)]
<1>1. ASSUME used' = used, Waiting' = Waiting, InHand' = InHand
      PROVE  [Graph!NextStructs]_(Graph!structVars)
  BY <1>1 DEF Graph!structVars, Waiting, InHand
<1>2. ASSUME Len(structs) <= N, filled = 0, filled' = 0, types' = types,
             NEW st, st.fields = << >>, structs' = Append(structs, st)
      PROVE  [Graph!NextStructs]_(Graph!structVars)
  <2>1. structs \in Seq(Definitions) /\ Len(structs) \in Nat
    BY DEF Shape, StructsInv
  <2>2. /\ Len(structs') = Len(structs) + 1 /\ structs'[Len(structs) + 1] = st
        /\ \A i \in 1 .. Len(structs) : structs'[i] = structs[i]
    BY <1>2, <2>1
  <2>3. ASSUME NEW n \in StructNames PROVE StructsInFields(n)' = StructsInFields(n)
    <3>1. PICK m \in 0 .. N : n = <<"Struct", m>> /\ n[2] = m
      BY NamedStructs
    <3>2. N \in Nat
      BY NamedStructs
    <3>3. CASE m < Len(structs)
      <4>1. m + 1 \in 1 .. Len(structs) /\ m < Len(structs')
        BY <2>1, <2>2, <3>1, <3>3
      <4>2. DefinitionOf(n)' = DefinitionOf(n)
        BY <2>2, <3>1, <4>1 DEF DefinitionOf
      <4> QED
        BY <1>2, <3>1, <3>3, <4>1, <4>2 DEF StructsInFields
    <3>4. CASE m = Len(structs)
      <4>1. DefinitionOf(n)'.fields = << >> /\ m < Len(structs')
        BY <1>2, <2>1, <2>2, <3>1, <3>4 DEF DefinitionOf
      <4>2. Range(<< >>) = {}
        BY DEF Range
      <4>3. StructsInFields(n)' = {}
        BY <3>1, <4>1, <4>2 DEF StructsInFields
      <4>4. StructsInFields(n) = {}
        BY <2>1, <3>1, <3>4 DEF StructsInFields
      <4> QED
        BY <4>3, <4>4
    <3>5. CASE m > Len(structs)
      <4>1. ~(m < Len(structs)) /\ ~(m < Len(structs'))
        BY <2>1, <2>2, <3>1, <3>5
      <4> QED
        BY <3>1, <4>1 DEF StructsInFields
    <3> QED
      BY <2>1, <3>1, <3>3, <3>4, <3>5
  <2>4. used' = used
    BY <2>3
  <2> QED
    BY <1>1, <1>2, <2>4 DEF Waiting, InHand
<1>3. Len(structs) \in Nat /\ N \in Nat /\ filled \in 0 .. Len(structs)
  BY NamedStructs DEF Shape, StructsInv, FillInv
<1>4. CASE GenerateStructSkeleton
  <2>1. Len(structs) < N /\ filled = 0 /\ filled' = 0 /\ types' = types
    BY <1>3, <1>4 DEF GenerateStructSkeleton, Shape, FillInv, AllGenerated, N
  <2>2. PICK next, params :
          structs' = Append(structs, Struct(next, {"copy", "drop"}, params))
    BY <1>4 DEF GenerateStructSkeleton
  <2>3. Struct(next, {"copy", "drop"}, params).fields = << >>
    BY DEF Struct
  <2> QED
    BY <1>2, <1>3, <2>1, <2>2, <2>3
<1>5. CASE GenerateAllAbilitiesStruct
  <2>1. Len(structs) = N /\ filled = 0 /\ filled' = 0 /\ types' = types
    BY <1>3, <1>5 DEF GenerateAllAbilitiesStruct, Shape, FillInv, AllGenerated, N
  <2>2. PICK next : structs' = Append(structs, Struct(next, Abilities, << >>))
    BY <1>5 DEF GenerateAllAbilitiesStruct
  <2>3. Struct(next, Abilities, << >>).fields = << >>
    BY DEF Struct
  <2> QED
    BY <1>2, <1>3, <2>1, <2>2, <2>3
<1>6. CASE FillStruct
  <2>1. /\ filled < Len(structs) /\ filled' = filled + 1
        /\ UNCHANGED <<pool, structs, bounds, types>>
    BY <1>6 DEF FillStruct
  <2>2. filled + 1 \in 1 .. Len(structs) /\ filled' # 0
    BY <1>3, <2>1
  <2>3. PICK st \in StructNames : /\ st = structs[filled + 1].name
                                 /\ \A i \in 1 .. filled : structs[i].name # st
    BY <1>3, <2>2, NamedStructs
  <2>4. Waiting' = Waiting \ {st} /\ InHand' = {st} /\ st \in Waiting
    <3>1. 1 .. filled' = (1 .. filled) \cup {filled + 1}
      BY <1>3, <2>1
    <3> QED
      BY <2>1, <2>2, <2>3, <3>1 DEF Waiting, InHand
  <2>5. used' = used
    BY <2>1 DEF StructsInFields, DefinitionOf
  <2>6. Graph!FillStruct(st)
    BY <2>4, <2>5 DEF Graph!FillStruct, Waiting, InHand
  <2>7. \E s \in StructNames : Graph!FillStruct(s)
    BY <2>6, Zenon
  <2> QED
    BY <2>7 DEF Graph!NextStructs
<1>7. CASE AddBasicField
  <2>1. PICK id \in {Num} \cup ParametersInScope(GetScopeForChildren(pool, structs[filled].name)) :
          left > 0 /\ AddField(Leaf(id))
    BY <1>7 DEF AddBasicField
  <2>2. id \notin StructNames
    <3>1. id[1] = "num" \/ id[1] = "TypeParameter"
      BY <2>1 DEF Num, ParametersInScope, IdentifiersOfKind
    <3> QED
      BY <3>1 DEF StructNames
  <2>3. StructsIn(Leaf(id)) = {}
    BY <2>2, Leaves DEF StructsIn
  <2>4. used' = used /\ Waiting' = Waiting /\ InHand' = InHand
    <3>1. /\ used' = [used EXCEPT ![structs[filled].name] = @ \cup StructsIn(Leaf(id))]
          /\ Waiting' = Waiting /\ InHand' = InHand
      BY <2>1, FieldsFillGraph
    <3>2. \A x : x \cup StructsIn(Leaf(id)) = x
      BY <2>3
    <3> QED
      BY <3>1, <3>2
  <2> QED
    BY <1>1, <2>4
<1>8. CASE AddStructField
  <2>1. PICK limit \in TypeDepths : \E t \in FieldTypes(structs[filled], limit) : AddField(t)
    BY <1>8 DEF AddStructField
  <2>2. PICK t \in FieldTypes(structs[filled], limit) : AddField(t)
    BY <2>1
  <2>3. left > 0
    BY <1>8 DEF AddStructField
  <2>4. PICK u \in Range(structs) :
           /\ u \in GetUsableStructType(structs[filled])
           /\ ~CheckStructReachable(t, structs[filled].name)
           /\ u.name \in StructsIn(t) /\ u.name \in GenericStructs
           /\ structs[filled].name # AllAbilitiesStruct
    BY <2>2, <2>3, DrawnForField
  <2> DEFINE st == structs[filled].name
             args == StructsIn(t) \ {u.name}
  <2>5. /\ used' = [used EXCEPT ![st] = @ \cup StructsIn(t)]
        /\ Waiting' = Waiting /\ InHand' = InHand
    BY <2>2, <2>3, FieldsFillGraph
  <2>6. /\ StructsIn(t) \subseteq StructNames /\ StructsIn(t) = {u.name} \cup args
        /\ u.name \in StructNames /\ args \in SUBSET (StructNames \ {u.name})
    BY <2>4 DEF StructsIn
  <2>7. Cardinality(args) <= N
    BY <1>3, <2>6, FewNames
  <2>8. ~Graph!CheckStructReachable({u.name} \cup args, st)
    BY <2>4, <2>6 DEF CheckStructReachable, Reaches, ClosedUnderFields,
         Graph!CheckStructReachable, Graph!ReachesIn, Graph!Closed
  <2>9. ~Graph!CheckStructReachable({u.name}, st)
    <3>1. ~CheckStructReachable(Leaf(u.name), st)
      BY <2>4 DEF GetUsableStructType
    <3>2. StructsIn(Leaf(u.name)) = {u.name}
      BY <2>6, Leaves DEF StructsIn
    <3> QED
      BY <3>1, <3>2 DEF CheckStructReachable, Reaches, ClosedUnderFields,
           Graph!CheckStructReachable, Graph!ReachesIn, Graph!Closed
  <2>10. st \in InHand /\ st \notin {AllAbilitiesStruct}
    BY <2>3, <2>4, BeingFilled DEF InHand
  <2>11. used' = [used EXCEPT ![st] = @ \cup {u.name} \cup args]
    <3>1. \A x : x \cup StructsIn(t) = x \cup {u.name} \cup args
      BY <2>6
    <3> HIDE DEF used, args, st
    <3> QED
      BY <2>5, <3>1
  <2>12. Graph!AddStructField(st, u.name, args)
    BY <2>5, <2>8, <2>10, <2>11 DEF Graph!AddStructField, Waiting, InHand
  <2>13. u.name \in Graph!GetUsableStructType(st) \cap GenericStructs
    BY <2>4, <2>6, <2>9, <2>10 DEF Graph!GetUsableStructType
  <2>14. args \in SUBSET StructNames /\ Cardinality(args) <= Len(TypeParams)
    BY <2>6, <2>7 DEF N
  <2>15. args \in {a \in SUBSET StructNames : Graph!Cardinality(a) <= Len(TypeParams)}
    BY <2>14, GraphCardinality
  <2> HIDE DEF args, st
  <2>16. Graph!NextStructs
    BY <2>10, <2>12, <2>13, <2>15 DEF Graph!NextStructs, InHand
  <2> QED
    BY <2>16
<1>9. CASE PostProcessStructs \/ Finished \/ UNCHANGED skeletonVars
  <2>1. UNCHANGED <<structs, types, filled>>
    BY <1>9 DEF PostProcessStructs, Finished, skeletonVars
  <2>2. used' = used /\ Waiting' = Waiting /\ InHand' = InHand
    BY <2>1 DEF StructsInFields, DefinitionOf, Waiting, InHand
  <2> QED
    BY <1>1, <2>2
<1> QED
  BY <1>4, <1>5, <1>6, <1>7, <1>8, <1>9 DEF Next

(* With types instead of sets of structs, and abilities, scopes and type   *)
(* arguments that decide what may be drawn, the filling of the structs     *)
(* (fill_struct, move_smith.rs:549-637) is StructGraph's, for any number   *)
(* of structs: what holds there, no struct contains itself, holds here.    *)
THEOREM FillsTheGraph == Spec => ImplementsStructGraph
<1>1. Init => Graph!InitStructs
  <2> SUFFICES ASSUME Init PROVE Graph!InitStructs
    OBVIOUS
  <2>1. structs = << >> /\ filled = 0
    BY DEF Init
  <2>2. \A s \in StructNames : StructsInFields(s) = {}
    <3> TAKE s \in StructNames
    <3>1. s[2] \in Nat
      BY SkeletonsAssumption DEF StructNames
    <3> QED
      BY <2>1, <3>1 DEF StructsInFields
  <2>3. {structs[i].name : i \in 1 .. filled} = {}
    BY <2>1
  <2> QED
    BY <2>1, <2>2, <2>3 DEF Graph!InitStructs
<1>2. Shape /\ [Next]_skeletonVars => [Graph!NextStructs]_(Graph!structVars)
  BY GraphStep
<1> QED
  BY <1>1, <1>2, ShapeHolds, PTL DEF Spec, ImplementsStructGraph, Graph!SpecStructs

-----------------------------------------------------------------------------
(***************************************************************************)
(* Branches of types.                                                      *)
(***************************************************************************)

(* All but the last piece, and that one.                                   *)
LEMMA FrontAndLast ==
  ASSUME NEW S, NEW b \in Seq(S), b # << >>
  PROVE  /\ Len(b) \in Nat /\ Len(b) >= 1
         /\ Front(b) \in Seq(S) /\ Len(Front(b)) = Len(b) - 1
         /\ \A i \in 1 .. Len(b) - 1 : Front(b)[i] = b[i]
         /\ Last(b) = b[Len(b)] /\ Last(b) \in S
<1>1. Len(b) \in Nat /\ Len(b) >= 1
  OBVIOUS
<1>2. \A n \in Nat : n <= Len(b) =>
        /\ SubSeq(b, 1, n) \in Seq(S) /\ Len(SubSeq(b, 1, n)) = n
        /\ \A i \in 1 .. n : SubSeq(b, 1, n)[i] = b[i]
  OBVIOUS
<1>3. /\ Front(b) \in Seq(S) /\ Len(Front(b)) = Len(b) - 1
      /\ \A i \in 1 .. Len(b) - 1 : Front(b)[i] = b[i]
  BY <1>1, <1>2 DEF Front
<1> QED
  BY <1>1, <1>3 DEF Last

(* All but the first two pieces.                                           *)
LEMMA Below ==
  ASSUME NEW S, NEW b \in Seq(S), Len(b) >= 2
  PROVE  /\ SubSeq(b, 3, Len(b)) \in Seq(S) /\ Len(SubSeq(b, 3, Len(b))) = Len(b) - 2
         /\ \A i \in 1 .. Len(b) - 2 : SubSeq(b, 3, Len(b))[i] = b[i + 2]
OBVIOUS

(* Two pieces before others.                                               *)
LEMMA Joined ==
  ASSUME NEW S, NEW p \in Seq(S), NEW b \in Seq(S), Len(p) = 2
  PROVE  /\ p \o b \in Seq(S) /\ Len(p \o b) = Len(b) + 2
         /\ (p \o b)[1] = p[1] /\ (p \o b)[2] = p[2]
         /\ \A i \in 1 .. Len(b) : (p \o b)[i + 2] = b[i]
<1>1. Len(b) \in Nat
  OBVIOUS
<1>2. /\ p \o b \in Seq(S) /\ Len(p \o b) = Len(p) + Len(b)
      /\ \A i \in 1 .. Len(p) + Len(b) :
           (p \o b)[i] = IF i <= Len(p) THEN p[i] ELSE b[i - Len(p)]
  BY ConcatProperties
<1> DEFINE c == p \o b
<1> HIDE DEF c
<1>3. /\ c \in Seq(S) /\ Len(c) = Len(b) + 2
      /\ \A i \in 1 .. Len(b) + 2 : c[i] = IF i <= 2 THEN p[i] ELSE b[i - 2]
  BY <1>1, <1>2 DEF c
<1>4. c[1] = p[1] /\ c[2] = p[2]
  BY <1>1, <1>3
<1>5. \A i \in 1 .. Len(b) : c[i + 2] = b[i]
  BY <1>1, <1>3
<1> QED
  BY <1>3, <1>4, <1>5 DEF c

(* A branch of a type argument, below the struct and the parameter.        *)
Graft(x, y, b) == <<x, y>> \o b

LEMMA Grafting ==
  ASSUME NEW S, NEW x \in S, NEW y \in S, NEW b \in Seq(S)
  PROVE  /\ Graft(x, y, b) \in Seq(S) /\ Len(Graft(x, y, b)) = Len(b) + 2
         /\ Graft(x, y, b) # << >> /\ Graft(x, y, b)[1] = x /\ Graft(x, y, b)[2] = y
         /\ \A i \in 1 .. Len(b) : Graft(x, y, b)[i + 2] = b[i]
         /\ b # << >> => Last(Graft(x, y, b)) = Last(b) /\ Front(Graft(x, y, b)) = Graft(x, y, Front(b))
         /\ SubSeq(Graft(x, y, b), 3, Len(Graft(x, y, b))) = b
         /\ \A z \in S : Append(Graft(x, y, b), z) = Graft(x, y, Append(b, z))
<1> DEFINE p == <<x, y>>
           c == p \o b
<1>1. p \in Seq(S) /\ Len(p) = 2 /\ p[1] = x /\ p[2] = y
  OBVIOUS
<1>2. Len(b) \in Nat /\ DOMAIN b = 1 .. Len(b)
  OBVIOUS
<1> HIDE DEF p
<1>3. /\ c \in Seq(S) /\ Len(c) = Len(b) + 2 /\ c[1] = x /\ c[2] = y
      /\ \A i \in 1 .. Len(b) : c[i + 2] = b[i]
  BY <1>1, Joined
<1> HIDE DEF c
<1>4. c # << >>
  BY <1>2, <1>3
<1>5. ASSUME b # << >>
      PROVE  Last(c) = Last(b) /\ Front(c) = p \o Front(b)
  <2>1. /\ Len(b) >= 1 /\ Front(b) \in Seq(S) /\ Len(Front(b)) = Len(b) - 1
        /\ \A i \in 1 .. Len(b) - 1 : Front(b)[i] = b[i]
        /\ Last(b) = b[Len(b)]
    BY <1>5, FrontAndLast
  <2>2. /\ Front(c) \in Seq(S) /\ Len(Front(c)) = Len(c) - 1
        /\ \A i \in 1 .. Len(c) - 1 : Front(c)[i] = c[i]
        /\ Last(c) = c[Len(c)]
    BY <1>3, <1>4, FrontAndLast
  <2>3. Last(c) = Last(b)
    BY <1>2, <1>3, <2>1, <2>2
  <2> DEFINE d == p \o Front(b)
  <2>4. /\ d \in Seq(S) /\ Len(d) = Len(Front(b)) + 2 /\ d[1] = p[1] /\ d[2] = p[2]
        /\ \A i \in 1 .. Len(Front(b)) : d[i + 2] = Front(b)[i]
    BY <1>1, <2>1, Joined
  <2> HIDE DEF d
  <2>5. Len(Front(c)) = Len(b) + 1 /\ Len(d) = Len(b) + 1
    BY <1>2, <1>3, <2>1, <2>2, <2>4
  <2>6. \A i \in 1 .. Len(b) + 1 : Front(c)[i] = d[i]
    <3> TAKE i \in 1 .. Len(b) + 1
    <3>1. i \in 1 .. Len(c) - 1
      BY <1>2, <1>3
    <3>2. CASE i = 1 \/ i = 2
      BY <1>1, <1>3, <2>2, <2>4, <3>1, <3>2
    <3>3. CASE i > 2
      <4>1. i - 2 \in 1 .. Len(b) /\ i - 2 \in 1 .. Len(b) - 1 /\ (i - 2) + 2 = i
        BY <1>2, <3>3
      <4>2. c[i] = b[i - 2] /\ d[i] = Front(b)[i - 2] /\ Front(b)[i - 2] = b[i - 2]
        BY <1>3, <2>1, <2>4, <4>1
      <4> QED
        BY <2>2, <3>1, <4>2
    <3> QED
      BY <1>2, <3>2, <3>3
  <2>7. Front(c) = d
    BY <2>2, <2>4, <2>5, <2>6, SeqEqual
  <2> QED
    BY <2>3, <2>7 DEF d
<1>6. SubSeq(c, 3, Len(c)) = b
  <2> DEFINE d == SubSeq(c, 3, Len(c))
  <2>1. c \in Seq(S) /\ Len(c) >= 2
    BY <1>2, <1>3
  <2>2. /\ d \in Seq(S) /\ Len(d) = Len(c) - 2
        /\ \A i \in 1 .. Len(c) - 2 : d[i] = c[i + 2]
    BY <2>1, Below
  <2> HIDE DEF d
  <2>3. Len(d) = Len(b) /\ \A i \in 1 .. Len(d) : d[i] = b[i]
    BY <1>2, <1>3, <2>2
  <2> QED
    BY <2>2, <2>3, SeqEqual DEF d
<1>7. ASSUME NEW z \in S PROVE Append(c, z) = p \o Append(b, z)
  <2>1. \A s \in Seq(S) : Append(s, z) = s \o <<z>>
    BY AppendIsConcat
  <2>2. (p \o b) \o <<z>> = p \o (b \o <<z>>)
    <3>1. <<z>> \in Seq(S)
      OBVIOUS
    <3> QED
      BY <1>1, <3>1, ConcatAssociative
  <2> QED
    BY <1>3, <2>1, <2>2 DEF c
<1>8. \A d : Graft(x, y, d) = p \o d
  BY DEF Graft, p
<1>9. Graft(x, y, b) = c
  BY <1>8 DEF c
<1> QED
  BY <1>1, <1>3, <1>4, <1>5, <1>6, <1>7, <1>8, <1>9

(* Grafted branches differ where the branches do.                          *)
LEMMA GraftedApart ==
  ASSUME NEW S, NEW x \in S
  PROVE  \A y, y2 \in S : \A b, b2 \in Seq(S) : Graft(x, y, b) = Graft(x, y2, b2) => y = y2 /\ b = b2
<1> SUFFICES ASSUME NEW y \in S, NEW y2 \in S, NEW b \in Seq(S), NEW b2 \in Seq(S)
             PROVE  Graft(x, y, b) = Graft(x, y2, b2) => y = y2 /\ b = b2
  OBVIOUS
<1> DEFINE c == Graft(x, y, b)
           d == Graft(x, y2, b2)
<1>1. c[2] = y /\ SubSeq(c, 3, Len(c)) = b
  BY Grafting
<1>2. d[2] = y2 /\ SubSeq(d, 3, Len(d)) = b2
  BY Grafting
<1> HIDE DEF c, d
<1>3. c = d => y = y2 /\ b = b2
  BY <1>1, <1>2
<1> QED
  BY <1>3 DEF c, d

(* concretize_struct asks for the scope without its hidden pieces, and the *)
(* scope of a struct has none.                                             *)
LEMMA NothingHidden ==
  ASSUME NEW i
  PROVE  RemoveHiddenScopes(StructScope(<<"Struct", i>>)) = StructScope(<<"Struct", i>>)
<1> DEFINE a == <<"Address", 0>>
           b == ModuleName
           name == <<"Struct", i>>
           first == <<a>>
           second == Append(first, b)
           scope == Append(second, name)
           seqs == <<<<a>>, <<b>>, <<name>>>>
           rec(f) == [j \in 1 .. Len(seqs) |-> IF j = 1 THEN seqs[j] ELSE f[j - 1] \o seqs[j]]
           g == [j \in 1 .. 3 |-> IF j = 1 THEN first ELSE IF j = 2 THEN second ELSE scope]
           h == CHOOSE f : f = rec(f)
           S == {a, b, name}
<1>1. StructScope(name) = scope
  BY DEF StructScope, ModuleScope, HardcodedAddress
<1>2. a[1] \notin HiddenKinds /\ b[1] \notin HiddenKinds /\ name[1] \notin HiddenKinds
  BY DEF HiddenKinds, ModuleName
<1> HIDE DEF a, b, name
<1>3. seqs[1] = <<a>> /\ seqs[2] = <<b>> /\ seqs[3] = <<name>> /\ Len(seqs) = 3
      /\ DOMAIN seqs = 1 .. 3
  OBVIOUS
<1>4. /\ first \in Seq(S) /\ Len(first) = 1 /\ first[1] = a
      /\ a \in S /\ b \in S /\ name \in S
  OBVIOUS
<1> HIDE DEF S, first
<1>5. /\ second \in Seq(S) /\ Len(second) = 2 /\ second[1] = a /\ second[2] = b
      /\ second = first \o <<b>>
  BY <1>4, AppendProperties, AppendIsConcat
<1> HIDE DEF second
<1>6. /\ scope \in Seq(S) /\ Len(scope) = 3 /\ scope[1] = a /\ scope[2] = b /\ scope[3] = name
      /\ scope = second \o <<name>>
  <2>1. /\ scope \in Seq(S) /\ Len(scope) = 3 /\ scope[3] = name
        /\ scope[1] = second[1] /\ scope[2] = second[2]
    BY <1>4, <1>5
  <2>2. scope = second \o <<name>>
    BY <1>4, <1>5, AppendIsConcat
  <2> QED
    BY <1>5, <2>1, <2>2
<1> HIDE DEF scope
<1>7. [j \in DOMAIN scope |-> IF scope[j][1] \in HiddenKinds THEN << >> ELSE <<scope[j]>>] = seqs
  <2> DEFINE s == [j \in DOMAIN scope |->
                     IF scope[j][1] \in HiddenKinds THEN << >> ELSE <<scope[j]>>]
  <2>1. DOMAIN scope = 1 .. 3
    BY <1>6
  <2>2. DOMAIN s = 1 .. 3 /\ s[1] = seqs[1] /\ s[2] = seqs[2] /\ s[3] = seqs[3]
    BY <1>2, <1>3, <1>6, <2>1
  <2>3. \A j \in 1 .. 3 : j = 1 \/ j = 2 \/ j = 3
    OBVIOUS
  <2>4. seqs = [j \in 1 .. 3 |-> seqs[j]] /\ s = [j \in 1 .. 3 |-> s[j]]
    BY <1>3, <2>1
  <2> HIDE DEF s, seqs
  <2> QED
    BY <2>2, <2>3, <2>4 DEF s
<1>8. FlattenSeq(seqs) = h[3]
  BY <1>3 DEF FlattenSeq
<1>a. seqs[1] = first
  BY <1>3 DEF first
<1> HIDE DEF seqs
<1>9. g = rec(g)
  <2>1. \A j \in 1 .. 3 : g[j] = IF j = 1 THEN seqs[j] ELSE g[j - 1] \o seqs[j]
    <3>1. g[1] = first /\ g[2] = second /\ g[3] = scope
      OBVIOUS
    <3>2. \A j \in 1 .. 3 : j = 1 \/ (j = 2 /\ j - 1 = 1) \/ (j = 3 /\ j - 1 = 2)
      OBVIOUS
    <3> HIDE DEF g
    <3> QED
      BY <1>3, <1>5, <1>6, <1>a, <3>1, <3>2
  <2>2. g = [j \in 1 .. 3 |-> g[j]]
    OBVIOUS
  <2> HIDE DEF g
  <2> QED
    BY <1>3, <2>1, <2>2
<1>10. h = rec(h)
  <2> HIDE DEF rec, g
  <2> QED
    BY <1>9
<1> HIDE DEF h
<1>11. \A j \in 1 .. 3 : h[j] = IF j = 1 THEN seqs[j] ELSE h[j - 1] \o seqs[j]
  BY <1>3, <1>10
<1>12. h[1] = first /\ h[2] = h[1] \o <<b>> /\ h[3] = h[2] \o <<name>>
  <2>1. 1 \in 1 .. 3 /\ 2 \in 1 .. 3 /\ 3 \in 1 .. 3 /\ 2 - 1 = 1 /\ 3 - 1 = 2
    OBVIOUS
  <2>2. h[1] = seqs[1]
    BY <1>11, <2>1
  <2>3. h[2] = h[2 - 1] \o seqs[2]
    <3>1. h[2] = IF 2 = 1 THEN seqs[2] ELSE h[2 - 1] \o seqs[2]
      BY <1>11, <2>1, Zenon
    <3> QED
      BY <3>1
  <2>4. h[3] = h[3 - 1] \o seqs[3]
    <3>1. h[3] = IF 3 = 1 THEN seqs[3] ELSE h[3 - 1] \o seqs[3]
      BY <1>11, <2>1, Zenon
    <3> QED
      BY <3>1
  <2> QED
    BY <1>3, <1>a, <2>1, <2>2, <2>3, <2>4
<1>13. FlattenSeq(seqs) = scope
  BY <1>5, <1>6, <1>8, <1>12
<1>14. RemoveHiddenScopes(scope) = scope
  BY <1>7, <1>13 DEF RemoveHiddenScopes
<1> QED
  BY <1>1, <1>14 DEF name

-----------------------------------------------------------------------------
(***************************************************************************)
(* Type arguments.                                                         *)
(***************************************************************************)

LEMMA Smallest ==
  ASSUME NEW S, S \subseteq Nat, S # {}
  PROVE  \E m \in S : \A k \in S : ~(k < m)
<1> DEFINE less == {p \in Nat \X Nat : p[1] < p[2]}
<1>1. IsWellFoundedOn(less, Nat)
  BY NatLessThanWellFounded DEF OpToRel
<1> HIDE DEF less
<1>2. PICK m \in S : \A k \in S : ~(<<k, m>> \in less)
  BY <1>1, WFMin
<1> QED
  BY <1>2 DEF less

(* The recursion of concretize_type ends: its answers with n structs       *)
(* nested are those with n - 1, one level up.                              *)
LEMMA Recursion ==
  ASSUME NEW scope, NEW n \in Nat
  PROVE  ConcretizeTypeParameter(scope)[n] =
           [q \in Queries |->
              ParameterTypes(scope, q, n = 0,
                             IF n = 0 THEN << >> ELSE ConcretizeTypeParameter(scope)[n - 1])]
<1> DEFINE Answers(m, below) == [q \in Queries |-> ParameterTypes(scope, q, m = 0, below)]
           rec(f) == [m \in Nat |-> Answers(m, IF m = 0 THEN << >> ELSE f[m - 1])]
           h == CHOOSE f : f = rec(f)
           Levels(m, g) == \A k \in 0 .. m : g[k] = Answers(k, IF k = 0 THEN << >> ELSE g[k - 1])
<1>1. ConcretizeTypeParameter(scope) = h
  BY DEF ConcretizeTypeParameter
<1> HIDE DEF Answers
<1>2. ASSUME NEW m \in Nat PROVE \E g : Levels(m, g)
  <2> DEFINE missing == {k \in Nat : \A g : ~Levels(k, g)}
  <2> SUFFICES ASSUME missing # {} PROVE FALSE
    OBVIOUS
  <2>1. PICK k \in missing : \A j \in missing : ~(j < k)
    <3>1. missing \subseteq Nat
      OBVIOUS
    <3> HIDE DEF missing
    <3> QED
      BY <3>1, Smallest
  <2>2. CASE k = 0
    <3> DEFINE g == [j \in {0} |-> Answers(0, << >>)]
    <3>1. Levels(0, g)
      OBVIOUS
    <3> QED
      BY <2>1, <2>2, <3>1
  <2>3. CASE k # 0
    <3>0. k - 1 \in Nat /\ k - 1 \notin missing
      <4>1. k \in Nat /\ k - 1 \in Nat /\ k - 1 < k
        BY <2>1, <2>3
      <4> HIDE DEF missing
      <4> QED
        BY <2>1, <4>1
    <3>1. PICK g : Levels(k - 1, g)
      <4> HIDE DEF Levels
      <4> QED
        BY <3>0
    <3> DEFINE next == [j \in 0 .. k |-> IF j = k THEN Answers(k, g[k - 1]) ELSE g[j]]
    <3>2. \A j \in 0 .. k : next[j] = Answers(j, IF j = 0 THEN << >> ELSE next[j - 1])
      <4> TAKE j \in 0 .. k
      <4>1. CASE j = k
        BY <2>1, <2>3, <4>1
      <4>2. CASE j # k
        BY <2>1, <2>3, <3>1, <4>2
      <4> QED
        BY <4>1, <4>2
    <3> QED
      BY <2>1, <3>2
  <2> QED
    BY <2>2, <2>3
<1>3. ASSUME NEW m \in Nat, NEW l \in Nat, NEW g, NEW g2, Levels(m, g), Levels(l, g2),
             NEW k \in 0 .. m, k <= l
      PROVE  g[k] = g2[k]
  <2> DEFINE differ == {j \in 0 .. k : g[j] # g2[j]}
  <2> SUFFICES ASSUME differ # {} PROVE FALSE
    OBVIOUS
  <2>1. PICK j \in differ : \A i \in differ : ~(i < j)
    <3>1. differ \subseteq Nat
      OBVIOUS
    <3> HIDE DEF differ
    <3> QED
      BY <3>1, Smallest
  <2>2. j \in 0 .. m /\ j \in 0 .. l /\ j # 0 => j - 1 \in 0 .. k /\ j - 1 < j
    BY <1>3
  <2>3. j # 0 => g[j - 1] = g2[j - 1]
    BY <2>1, <2>2
  <2> QED
    BY <1>3, <2>1, <2>2, <2>3
<1>4. h = rec(h)
  <2> DEFINE level == [m \in Nat |-> CHOOSE g : Levels(m, g)]
             g == [m \in Nat |-> level[m][m]]
  <2>1. \A m \in Nat : Levels(m, level[m])
    <3> HIDE DEF Levels
    <3> QED
      BY <1>2
  <2>2. ASSUME NEW m \in Nat, m # 0 PROVE level[m][m - 1] = g[m - 1]
    <3>1. m - 1 \in Nat /\ m - 1 \in 0 .. m /\ m - 1 <= m - 1
      BY <2>2
    <3>2. Levels(m, level[m]) /\ Levels(m - 1, level[m - 1])
      BY <2>1, <3>1
    <3> HIDE DEF Levels, level
    <3>3. level[m][m - 1] = level[m - 1][m - 1]
      BY <1>3, <3>1, <3>2
    <3> QED
      BY <3>1, <3>3
  <2>3. ASSUME NEW m \in Nat
        PROVE  g[m] = Answers(m, IF m = 0 THEN << >> ELSE g[m - 1])
    <3>1. level[m][m] = Answers(m, IF m = 0 THEN << >> ELSE level[m][m - 1])
      <4>1. m \in 0 .. m
        OBVIOUS
      <4> HIDE DEF level
      <4> QED
        BY <2>1, <4>1
    <3> HIDE DEF level
    <3> QED
      BY <2>2, <3>1
  <2>4. g = [m \in Nat |-> g[m]]
    OBVIOUS
  <2> HIDE DEF g, level
  <2>5. g = rec(g)
    BY <2>3, <2>4
  <2> HIDE DEF rec
  <2> QED
    BY <2>5
<1> HIDE DEF h
<1>5. h[n] = Answers(n, IF n = 0 THEN << >> ELSE h[n - 1])
  BY <1>4
<1> QED
  BY <1>1, <1>5 DEF Answers

Tokens == Identifiers \cup {Num}
Branches == Seq(Tokens) \ {<< >>}

(* What the last definition must be for every draw to have an answer.      *)
Fallback == AllGenerated /\ StructsInFields(AllAbilitiesStruct) = {}

(* Answers that can be used.                                               *)
Fine(answers) == Leaf(AllAbilitiesStruct) \in answers /\ answers \subseteq SUBSET Branches

LEMMA Trees ==
  ASSUME NEW name \in Tokens, NEW args,
         \A tp \in DOMAIN args : tp \in Tokens /\ args[tp] \subseteq Branches
  PROVE  LET t == Concrete(name, args)
         IN  /\ t \subseteq Branches /\ <<name>> \in t /\ name \in Mentions(t)
             /\ \A tp \in DOMAIN args : \A b \in args[tp] : Graft(name, tp, b) \in t
             /\ \A tp \in DOMAIN args : Mentions(args[tp]) \subseteq Mentions(t)
             /\ \A b \in t : b = <<name>> \/ \E tp \in DOMAIN args : \E c \in args[tp] :
                                               b = Graft(name, tp, c)
<1> DEFINE t == Concrete(name, args)
<1>1. <<name>> \in t /\ <<name>> \in Branches /\ Last(<<name>>) = name
  BY DEF Concrete, Leaf, Branches, Last
<1>2. \A tp \in DOMAIN args : \A b \in args[tp] : Graft(name, tp, b) \in t
  BY DEF Concrete, Graft
<1>3. \A b \in t : b = <<name>> \/ \E tp \in DOMAIN args : \E c \in args[tp] :
                                     b = Graft(name, tp, c)
  BY DEF Concrete, Leaf, Graft
<1> HIDE DEF t
<1>4. \A tp \in DOMAIN args : \A b \in args[tp] :
        Graft(name, tp, b) \in Branches /\ Last(Graft(name, tp, b)) = Last(b)
  BY Grafting DEF Branches
<1>5. t \subseteq Branches
  BY <1>1, <1>3, <1>4
<1>6. name \in Mentions(t)
  BY <1>1 DEF Mentions
<1>7. \A tp \in DOMAIN args : Mentions(args[tp]) \subseteq Mentions(t)
  <2> SUFFICES ASSUME NEW tp \in DOMAIN args, NEW b \in args[tp] PROVE Last(b) \in Mentions(t)
    BY DEF Mentions
  <2>1. Graft(name, tp, b) \in t /\ Last(Graft(name, tp, b)) = Last(b)
    BY <1>2, <1>4
  <2> QED
    BY <2>1 DEF Mentions
<1> QED
  BY <1>1, <1>2, <1>3, <1>5, <1>6, <1>7 DEF t

(* The types there are.                                                    *)
LEMMA TypesThere ==
  ASSUME Shape, AllGenerated
  PROVE  /\ {st.name : st \in Range(structs)} = StructNames
         /\ StructNames \subseteq Tokens /\ DOMAIN bounds \subseteq Tokens
         /\ \A id \in DOMAIN bounds : IsParameter(id) /\ ~IsStruct(id) /\ bounds[id] \subseteq Abilities
         /\ \A n \in StructNames : IsStruct(n) /\ ~IsParameter(n) /\ n # Num
         /\ ~IsStruct(Num) /\ ~IsParameter(Num) /\ ParametersOf(Num) = {}
         /\ AllTypes = {Num} \cup StructNames \cup DOMAIN bounds
         /\ \A n \in StructNames : ParametersOf(n) \subseteq DOMAIN bounds
         /\ AllAbilitiesStruct \in StructNames /\ ParametersOf(AllAbilitiesStruct) = {}
         /\ DerivedAbilities(AllAbilitiesStruct) = Abilities
         /\ pool.scopes[AllAbilitiesStruct] = ModuleScope
<1>1. /\ N \in Nat /\ Len(structs) = N + 1 /\ DOMAIN structs = 1 .. N + 1
      /\ \A i \in 1 .. N + 1 : DefinitionInv(i)
  BY NamedStructs DEF Shape, StructsInv, AllGenerated, N
<1>2. \A i \in 1 .. N + 1 : structs[i].name = <<"Struct", i - 1>> /\ structs[i].name \in StructNames
                            /\ DefinitionOf(structs[i].name) = structs[i]
  BY <1>1, NamedStructs
<1>3. \A n \in StructNames : /\ IsStruct(n) /\ n[1] = "Struct"
                             /\ n[2] + 1 \in 1 .. N + 1 /\ n = structs[n[2] + 1].name
                             /\ DefinitionOf(n) = structs[n[2] + 1]
  BY <1>1, NamedStructs DEF IsStruct
<1>4. {st.name : st \in Range(structs)} = StructNames
  <2>1. Range(structs) = {structs[i] : i \in 1 .. N + 1}
    BY <1>1 DEF Range
  <2> QED
    BY <1>2, <1>3, <2>1
<1>5. DOMAIN bounds \subseteq Tokens
  BY DEF Shape, PoolInv, PoolOK, CountersAhead, OwnersInv, IdentifiersOfKind, Tokens
<1>6. \A id \in DOMAIN bounds : IsParameter(id) /\ ~IsStruct(id) /\ bounds[id] \subseteq Abilities
  BY DEF Shape, OwnersInv, IdentifiersOfKind, IsParameter, IsStruct
<1>7. StructNames \subseteq Tokens
  <2>1. \A i \in 1 .. N + 1 : structs[i].name \in Tokens
    BY <1>1 DEF DefinitionInv, Shape, PoolInv, PoolOK, CountersAhead, Tokens
  <2> QED
    BY <1>3, <2>1
<1>8. \A n \in StructNames : IsStruct(n) /\ ~IsParameter(n) /\ n # Num
  BY <1>3 DEF IsParameter, Num
<1>9. ~IsStruct(Num) /\ ~IsParameter(Num) /\ ParametersOf(Num) = {}
  BY DEF IsStruct, IsParameter, Num, ParametersOf
<1>10. \A n \in StructNames : ParametersOf(n) \subseteq DOMAIN bounds
  <2> TAKE n \in StructNames
  <2>1. DefinitionOf(n).tps \in Seq(DOMAIN bounds)
    BY <1>1, <1>3 DEF DefinitionInv
  <2> QED
    BY <1>3, <2>1, RangeInSeq DEF ParametersOf
<1>11. AllAbilitiesStruct = structs[N + 1].name /\ N + 1 \in 1 .. N + 1
  BY <1>1, <1>2 DEF AllAbilitiesStruct, N
<1>12. DefinitionOf(AllAbilitiesStruct) = structs[N + 1] /\ DefinitionInv(N + 1)
  BY <1>1, <1>2, <1>11
<1>13. /\ structs[N + 1].tps = << >> /\ structs[N + 1].has = Abilities
       /\ pool.scopes[AllAbilitiesStruct] = ModuleScope
  BY <1>11, <1>12 DEF DefinitionInv
<1>14. AllAbilitiesStruct \in StructNames
  BY <1>2, <1>11
<1>15. ParametersOf(AllAbilitiesStruct) = {}
  <2>1. Range(<< >>) = {}
    BY DEF Range
  <2> QED
    BY <1>12, <1>13, <2>1 DEF ParametersOf
<1>16. DerivedAbilities(AllAbilitiesStruct) = Abilities
  BY <1>8, <1>12, <1>13, <1>14 DEF DerivedAbilities
<1> QED
  BY <1>4, <1>5, <1>6, <1>7, <1>8, <1>9, <1>10, <1>13, <1>14, <1>15, <1>16 DEF AllTypes

(* The struct that has all abilities may always be chosen.                 *)
LEMMA FallbackChosen ==
  ASSUME Shape, Fallback, NEW scope, IsIdInScope(pool, AllAbilitiesStruct, scope)
  PROVE  /\ \A n \in StructNames \ {AllAbilitiesStruct} :
              ~CheckStructReachable(Leaf(AllAbilitiesStruct), n)
         /\ \A requires \in SUBSET Abilities, parent \in SUBSET StructNames, atLimit \in BOOLEAN :
              AllAbilitiesStruct \notin parent =>
                AllAbilitiesStruct \in ChoicesFor(scope, requires, parent, atLimit)
<1>1. StructsIn(Leaf(AllAbilitiesStruct)) = {AllAbilitiesStruct}
  BY Leaves, TypesThere DEF StructsIn, Fallback
<1>2. \A n \in StructNames \ {AllAbilitiesStruct} :
              ~CheckStructReachable(Leaf(AllAbilitiesStruct), n)
  <2> TAKE n \in StructNames \ {AllAbilitiesStruct}
  <2>1. {AllAbilitiesStruct} \in SUBSET StructNames /\ ClosedUnderFields({AllAbilitiesStruct})
    BY TypesThere DEF ClosedUnderFields, Fallback
  <2> QED
    BY <1>1, <2>1 DEF CheckStructReachable, Reaches
<1>3. AllAbilitiesStruct \in AllTypes /\ IsConcrete(AllAbilitiesStruct)
      /\ IsInstantiatable(AllAbilitiesStruct, scope)
      /\ DerivedAbilities(AllAbilitiesStruct) = Abilities
  BY TypesThere DEF Fallback, IsConcrete, IsInstantiatable
<1> QED
  BY <1>2, <1>3 DEF ChoicesFor, TypesWithAbilities

(* The arguments of a concrete struct: its own parameters where it is the  *)
(* scope's struct, and answers otherwise.                                  *)
Passed(args, name, scope, requires, outcomes) ==
  /\ DOMAIN args = ParametersOf(name)
  /\ \A tp \in ParametersOf(name) :
       /\ args[tp] \subseteq Branches
       /\ IF IsTypeConcretizable(tp, scope)
          THEN LET q == Query(tp, requires \cup bounds[tp], {name})
               IN  q \in Queries /\ AllAbilitiesStruct \notin q.parent /\ args[tp] \in outcomes[q]
          ELSE args[tp] = Leaf(tp)

LEMMA Arguments ==
  ASSUME Shape, Fallback, NEW scope, IsIdInScope(pool, AllAbilitiesStruct, scope),
         NEW name \in StructNames, ~IsConcrete(name), NEW requires \in SUBSET Abilities, NEW outcomes,
         \A q \in Queries : AllAbilitiesStruct \notin q.parent => Fine(outcomes[q]),
         NEW t \in ConcretizeStruct(name, scope, requires, outcomes)
  PROVE  /\ t \subseteq Branches
         /\ \E args : t = Concrete(name, args) /\ Passed(args, name, scope, requires, outcomes)
<1> DEFINE Asked(tp) == Query(tp, requires \cup bounds[tp], {name})
           Drawn(tp) == {s \in outcomes[Asked(tp)] : ~CheckStructReachable(s, name)}
           Argument(tp) == IF ~IsTypeConcretizable(tp, scope) THEN {Leaf(tp)} ELSE OrStuck(Drawn(tp))
           sets == [tp \in ParametersOf(name) |-> Argument(tp)]
<1>1. PICK args \in Combinations(sets) : t = Concrete(name, args)
  BY DEF ConcretizeStruct
<1>2. DOMAIN args = ParametersOf(name) /\ \A tp \in ParametersOf(name) : args[tp] \in Argument(tp)
  BY <1>1 DEF Combinations
<1>3. name # AllAbilitiesStruct
  BY TypesThere DEF Fallback, IsConcrete
<1>4. ASSUME NEW tp \in ParametersOf(name)
      PROVE  /\ Asked(tp) \in Queries /\ AllAbilitiesStruct \notin Asked(tp).parent
             /\ OrStuck(Drawn(tp)) = Drawn(tp)
  <2>1. tp \in DOMAIN bounds /\ bounds[tp] \subseteq Abilities
    BY TypesThere DEF Fallback
  <2>2. Asked(tp) \in Queries /\ AllAbilitiesStruct \notin Asked(tp).parent
    BY <1>3, <2>1 DEF Query, Queries
  <2>3. Leaf(AllAbilitiesStruct) \in Drawn(tp)
    BY <1>3, <2>2, FallbackChosen DEF Fine
  <2> QED
    BY <2>2, <2>3 DEF OrStuck
<1>5. ASSUME NEW tp \in ParametersOf(name)
      PROVE  tp \in Tokens /\ args[tp] \subseteq Branches
  <2>1. tp \in Tokens
    BY TypesThere DEF Fallback
  <2>2. Leaf(tp) \subseteq Branches
    BY <2>1 DEF Leaf, Branches
  <2>3. \A s \in Drawn(tp) : s \subseteq Branches
    BY <1>4 DEF Fine
  <2> QED
    BY <1>2, <1>4, <2>1, <2>2, <2>3
<1>6. t \subseteq Branches
  <2>1. name \in Tokens
    BY TypesThere DEF Fallback
  <2> QED
    BY <1>1, <1>2, <1>5, <2>1, Trees
<1>7. Passed(args, name, scope, requires, outcomes)
  BY <1>2, <1>4, <1>5 DEF Passed
<1> QED
  BY <1>1, <1>6, <1>7

(* One level of the recursion.                                             *)
Comes(t, id, scope, needs, atLimit, below) ==
  IF IsStruct(id) /\ IsTypeConcretizable(id, scope)
    THEN ~atLimit /\ t \in ConcretizeStruct(id, scope, needs, below)
    ELSE t = Leaf(id)

LEMMA Chosen ==
  ASSUME Shape, Fallback, NEW scope, IsIdInScope(pool, AllAbilitiesStruct, scope),
         NEW q \in Queries, AllAbilitiesStruct \notin q.parent, NEW atLimit \in BOOLEAN, NEW below,
         ~atLimit => \A p \in Queries : AllAbilitiesStruct \notin p.parent => Fine(below[p])
  PROVE  LET needs == q.requires \cup bounds[q.tp]
         IN  /\ needs \in SUBSET Abilities
             /\ Fine(ParameterTypes(scope, q, atLimit, below))
             /\ \A t \in ParameterTypes(scope, q, atLimit, below) :
                  \E id \in ChoicesFor(scope, needs, q.parent, atLimit) :
                    Comes(t, id, scope, needs, atLimit, below)
<1> DEFINE needs == q.requires \cup bounds[q.tp]
           choices == ChoicesFor(scope, needs, q.parent, atLimit)
           From(id) == IF IsStruct(id) /\ IsTypeConcretizable(id, scope)
                       THEN ConcretizeStruct(id, scope, needs, below) ELSE {Leaf(id)}
           all == UNION {From(id) : id \in choices}
<1>1. needs \in SUBSET Abilities /\ q.parent \in SUBSET StructNames
  BY TypesThere DEF Fallback, Queries
<1>2. AllAbilitiesStruct \in choices
  BY <1>1, FallbackChosen
<1>3. From(AllAbilitiesStruct) = {Leaf(AllAbilitiesStruct)}
  BY TypesThere DEF Fallback, IsTypeConcretizable, IsConcrete
<1>4. Leaf(AllAbilitiesStruct) \in all
  BY <1>2, <1>3
<1>5. ParameterTypes(scope, q, atLimit, below) = all
  <2>1. ParameterTypes(scope, q, atLimit, below) = OrStuck(all)
    BY DEF ParameterTypes
  <2> HIDE DEF all
  <2> QED
    BY <1>4, <2>1 DEF OrStuck
<1>6. \A id \in choices : /\ id \in AllTypes
                          /\ atLimit => IsConcrete(id)
  BY DEF ChoicesFor, TypesWithAbilities
<1>7. \A id \in choices : IsStruct(id) /\ IsTypeConcretizable(id, scope) =>
                            ~atLimit /\ id \in StructNames /\ ~IsConcrete(id)
  <2> TAKE id \in choices
  <2>1. IsStruct(id) => id \in StructNames /\ ~IsParameter(id)
    BY <1>6, TypesThere DEF Fallback
  <2> QED
    BY <1>6, <2>1 DEF IsTypeConcretizable
<1>8. \A id \in choices : \A t \in From(id) : t \subseteq Branches
  <2> TAKE id \in choices
  <2>1. CASE IsStruct(id) /\ IsTypeConcretizable(id, scope)
    BY <1>1, <1>7, <2>1, Arguments
  <2>2. CASE ~(IsStruct(id) /\ IsTypeConcretizable(id, scope))
    <3>1. id \in Tokens
      BY <1>6, TypesThere DEF Fallback, Tokens
    <3>2. Leaf(id) \subseteq Branches
      BY <3>1 DEF Leaf, Branches
    <3> QED
      BY <2>2, <3>2
  <2> QED
    BY <2>1, <2>2
<1>9. Fine(all)
  <2>1. \A t \in all : \E id \in choices : t \in From(id)
    OBVIOUS
  <2> HIDE DEF all, choices, From
  <2>2. \A t \in all : t \subseteq Branches
    BY <1>8, <2>1
  <2> QED
    BY <1>4, <2>2 DEF Fine
<1>10. \A t \in all : \E id \in choices : t \in From(id)
  OBVIOUS
<1> HIDE DEF choices, all
<1>11. \A t \in all : \E id \in choices : Comes(t, id, scope, needs, atLimit, below)
  BY <1>7, <1>10 DEF Comes
<1> QED
  BY <1>1, <1>5, <1>9, <1>11 DEF choices

(* Whatever is asked for, there is an answer.                              *)
LEMMA AlwaysAnAnswer ==
  ASSUME Shape, Fallback, NEW scope, IsIdInScope(pool, AllAbilitiesStruct, scope),
         NEW n \in Nat, NEW q \in Queries, AllAbilitiesStruct \notin q.parent
  PROVE  Fine(ConcretizeTypeParameter(scope)[n][q])
<1> DEFINE answers == ConcretizeTypeParameter(scope)
           failing == {m \in Nat : \E p \in Queries : AllAbilitiesStruct \notin p.parent
                                                      /\ ~Fine(answers[m][p])}
<1> SUFFICES ASSUME failing # {} PROVE FALSE
  OBVIOUS
<1>1. PICK m \in failing : \A k \in failing : ~(k < m)
  <2>1. failing \subseteq Nat
    OBVIOUS
  <2> HIDE DEF failing
  <2> QED
    BY <2>1, Smallest
<1>2. PICK p \in Queries : AllAbilitiesStruct \notin p.parent /\ ~Fine(answers[m][p])
  BY <1>1
<1> DEFINE below == IF m = 0 THEN << >> ELSE answers[m - 1]
<1>3. answers[m][p] = ParameterTypes(scope, p, m = 0, below)
  <2>1. m \in Nat
    BY <1>1
  <2>2. answers[m] = [r \in Queries |-> ParameterTypes(scope, r, m = 0, below)]
    <3> HIDE DEF failing
    <3> QED
      BY <2>1, Recursion
  <2> HIDE DEF answers, below
  <2> QED
    BY <2>2
<1>4. ASSUME m # 0, NEW r \in Queries, AllAbilitiesStruct \notin r.parent PROVE Fine(below[r])
  <2>1. m \in Nat /\ m - 1 \in Nat /\ m - 1 < m
    BY <1>1, <1>4
  <2>2. m - 1 \notin failing
    <3> HIDE DEF failing
    <3> QED
      BY <1>1, <2>1
  <2> HIDE DEF answers
  <2> QED
    BY <1>4, <2>1, <2>2
<1> HIDE DEF answers, below
<1>5. Fine(ParameterTypes(scope, p, m = 0, below))
  BY <1>2, <1>4, Chosen
<1> QED
  BY <1>2, <1>3, <1>5

(* Trees, by how they are built: a type without type arguments, or a       *)
(* struct with a tree for each of its parameters.                          *)
Nodes == {Num} \cup StructNames \cup DOMAIN bounds

Built(t, parts) ==
  \/ \E id \in Nodes : ParametersOf(id) = {} /\ t = Leaf(id)
  \/ \E name \in StructNames : \E args \in [ParametersOf(name) -> parts] : t = Concrete(name, args)

TreeSet ==
  {t \in SUBSET Branches : \E parts \in SUBSET SUBSET Branches :
                             t \in parts /\ \A u \in parts : Built(u, parts)}

LEMMA Building ==
  /\ \A t \in TreeSet : Built(t, TreeSet)
  /\ \A t \in SUBSET Branches : Built(t, TreeSet) => t \in TreeSet
<1>1. ASSUME NEW t, NEW small, NEW large, small \subseteq large, Built(t, small) PROVE Built(t, large)
  <2>1. CASE \E id \in Nodes : ParametersOf(id) = {} /\ t = Leaf(id)
    BY <2>1 DEF Built
  <2>2. CASE \E name \in StructNames : \E args \in [ParametersOf(name) -> small] : t = Concrete(name, args)
    <3>1. PICK name \in StructNames : \E args \in [ParametersOf(name) -> small] : t = Concrete(name, args)
      BY <2>2
    <3>2. [ParametersOf(name) -> small] \subseteq [ParametersOf(name) -> large]
      BY <1>1
    <3> QED
      BY <3>1, <3>2 DEF Built
  <2> QED
    BY <1>1, <2>1, <2>2 DEF Built
<1>2. ASSUME NEW parts \in SUBSET SUBSET Branches, \A u \in parts : Built(u, parts)
      PROVE  parts \subseteq TreeSet
  BY <1>2 DEF TreeSet
<1>3. ASSUME NEW t \in TreeSet PROVE Built(t, TreeSet)
  <2>1. PICK parts \in SUBSET SUBSET Branches : t \in parts /\ \A u \in parts : Built(u, parts)
    BY DEF TreeSet
  <2> QED
    BY <1>1, <1>2, <2>1
<1>4. ASSUME NEW t \in SUBSET Branches, Built(t, TreeSet) PROVE t \in TreeSet
  <2> DEFINE parts == TreeSet \cup {t}
  <2>1. TreeSet \subseteq SUBSET Branches
    BY DEF TreeSet
  <2>2. \A u \in parts : Built(u, TreeSet)
    BY <1>3, <1>4
  <2>3. \A u \in parts : Built(u, parts)
    <3>1. TreeSet \subseteq parts
      OBVIOUS
    <3> HIDE DEF parts
    <3> QED
      BY <1>1, <2>2, <3>1
  <2>4. parts \in SUBSET SUBSET Branches /\ t \in parts
    BY <2>1
  <2> HIDE DEF parts
  <2> QED
    BY <1>2, <2>3, <2>4
<1> QED
  BY <1>3, <1>4

(* A type that may stand where own are the parameters and needs the        *)
(* abilities asked for, and whose type arguments have theirs.              *)
Sound(t, own, needs) ==
  /\ t \in TreeSet
  /\ WellFormed(t, own)
  /\ \A b \in t : needs \subseteq DerivedAbilities(Last(b))
  /\ \A b \in t : \A i \in 1 .. Len(b) - 1 :
       IsParameter(b[i]) => bounds[b[i]] \subseteq DerivedAbilities(Last(b))

LEMMA SoundBranches ==
  ASSUME NEW t, NEW own, NEW needs, Sound(t, own, needs)
  PROVE  t \subseteq Branches
BY DEF Sound, TreeSet

LEMMA PairFront ==
  ASSUME NEW x, NEW y
  PROVE  Front(<<x, y>>) = <<x>> /\ Last(<<x, y>>) = y /\ Append(<<x>>, y) = <<x, y>>
<1> DEFINE s == <<x, y>>
           S == {x, y}
<1>1. s \in Seq(S) /\ Len(s) = 2 /\ s[1] = x /\ s[2] = y /\ s # << >>
  OBVIOUS
<1>2. <<x>> \in Seq(S) /\ Len(<<x>>) = 1 /\ <<x>>[1] = x
  OBVIOUS
<1> HIDE DEF s, S
<1>3. /\ Front(s) \in Seq(S) /\ Len(Front(s)) = 1 /\ Front(s)[1] = s[1] /\ Last(s) = s[2]
  <2>1. /\ Front(s) \in Seq(S) /\ Len(Front(s)) = Len(s) - 1 /\ Last(s) = s[Len(s)]
        /\ \A i \in 1 .. Len(s) - 1 : Front(s)[i] = s[i]
    BY <1>1, FrontAndLast
  <2> QED
    BY <1>1, <2>1
<1>4. \A i \in 1 .. Len(<<x>>) : Front(s)[i] = <<x>>[i]
  BY <1>1, <1>2, <1>3
<1>5. Front(s) = <<x>>
  BY <1>2, <1>3, <1>4, SeqEqual
<1>6. /\ Append(<<x>>, y) \in Seq(S) /\ Len(Append(<<x>>, y)) = 2
      /\ Append(<<x>>, y)[1] = x /\ Append(<<x>>, y)[2] = y
  <2>1. y \in S
    BY DEF S
  <2> DEFINE p == <<x>>
  <2>2. p \in Seq(S) /\ Len(p) = 1 /\ p[1] = x
    BY <1>2
  <2> HIDE DEF p
  <2>3. Append(p, y) \in Seq(S) /\ Len(Append(p, y)) = 2 /\ Append(p, y)[1] = x /\ Append(p, y)[2] = y
    <3>1. p \in Seq(S)
      BY <2>2
    <3> DEFINE a == Append(p, y)
    <3>2. a \in Seq(S) /\ Len(a) = Len(p) + 1 /\ a[Len(p) + 1] = y /\ \A i \in 1 .. Len(p) : a[i] = p[i]
      BY <2>1, <3>1, AppendProperties
    <3> HIDE DEF a
    <3>3. a \in Seq(S) /\ Len(a) = 2 /\ a[1] = x /\ a[2] = y
      BY <2>2, <3>2
    <3> QED
      BY <3>3 DEF a
  <2> QED
    BY <2>3 DEF p
<1>7. Append(<<x>>, y) = s
  <2>1. s[2] = y
    BY DEF s
  <2>2. \A i \in 1 .. 2 : Append(<<x>>, y)[i] = s[i]
    BY <1>1, <1>6, <2>1
  <2> QED
    BY <1>1, <1>6, <2>2, SeqEqual
<1> QED
  BY <1>1, <1>3, <1>5, <1>7 DEF s

LEMMA SoundLeaf ==
  ASSUME Shape, AllGenerated, NEW own \in SUBSET DOMAIN bounds, NEW needs,
         NEW id \in Tokens, id \in {Num} \cup own \cup StructNames, ParametersOf(id) = {},
         needs \subseteq DerivedAbilities(id)
  PROVE  Sound(Leaf(id), own, needs)
<1>1. <<id>> \in Seq(Tokens) /\ Len(<<id>>) = 1 /\ <<id>>[1] = id /\ Last(<<id>>) = id
      /\ <<id>> # << >>
  BY DEF Last
<1>2. Leaf(id) \subseteq Branches
  BY <1>1 DEF Leaf, Branches
<1>3. WellFormed(Leaf(id), own)
  BY <1>1, Leaves, TypesThere DEF WellFormed, Leaf
<1>4. Leaf(id) \in TreeSet
  BY <1>2, Building DEF Built, Nodes
<1> QED
  BY <1>1, <1>3, <1>4 DEF Sound, Leaf

(* A struct around type arguments.                                         *)
LEMMA SoundStruct ==
  ASSUME Shape, AllGenerated, NEW own, NEW needs,
         NEW name \in StructNames, needs \subseteq DerivedAbilities(name),
         NEW args, DOMAIN args = ParametersOf(name),
         \A tp \in DOMAIN args : Sound(args[tp], own, needs \cup bounds[tp])
  PROVE  Sound(Concrete(name, args), own, needs)
<1> DEFINE t == Concrete(name, args)
<1>1. /\ name \in Tokens /\ ~IsParameter(name) /\ {st.name : st \in Range(structs)} = StructNames
      /\ \A tp \in DOMAIN args : tp \in Tokens /\ args[tp] \subseteq Branches
      /\ DOMAIN args \subseteq DOMAIN bounds
  BY TypesThere, SoundBranches
<1>2. /\ t \subseteq Branches /\ <<name>> \in t /\ name \in Mentions(t)
      /\ \A tp \in DOMAIN args : \A b \in args[tp] : Graft(name, tp, b) \in t
      /\ \A b \in t : b = <<name>> \/ \E tp \in DOMAIN args : \E c \in args[tp] : b = Graft(name, tp, c)
  <2>1. name \in Tokens /\ \A tp \in DOMAIN args : tp \in Tokens /\ args[tp] \subseteq Branches
    BY <1>1
  <2>2. t \subseteq Branches /\ <<name>> \in t /\ name \in Mentions(t)
        /\ \A tp \in DOMAIN args : \A b \in args[tp] : Graft(name, tp, b) \in t
    BY <2>1, Trees
  <2>3. \A b \in t : b = <<name>> \/ \E tp \in DOMAIN args : \E c \in args[tp] : b = Graft(name, tp, c)
    BY DEF Concrete, Leaf, Graft
  <2> QED
    BY <2>2, <2>3
<1>3. \A tp \in DOMAIN args : \A c \in Seq(Tokens) :
        /\ Graft(name, tp, c) \in Seq(Tokens) /\ Len(Graft(name, tp, c)) = Len(c) + 2
        /\ Graft(name, tp, c)[1] = name /\ Graft(name, tp, c)[2] = tp
        /\ \A i \in 1 .. Len(c) : Graft(name, tp, c)[i + 2] = c[i]
        /\ c # << >> => Last(Graft(name, tp, c)) = Last(c) /\ Front(Graft(name, tp, c)) = Graft(name, tp, Front(c))
        /\ \A z \in Tokens : Append(Graft(name, tp, c), z) = Graft(name, tp, Append(c, z))
  <2> SUFFICES ASSUME NEW tp \in DOMAIN args, NEW c \in Seq(Tokens)
               PROVE  /\ Graft(name, tp, c) \in Seq(Tokens) /\ Len(Graft(name, tp, c)) = Len(c) + 2
                      /\ Graft(name, tp, c)[1] = name /\ Graft(name, tp, c)[2] = tp
                      /\ \A i \in 1 .. Len(c) : Graft(name, tp, c)[i + 2] = c[i]
                      /\ c # << >> => /\ Last(Graft(name, tp, c)) = Last(c)
                                     /\ Front(Graft(name, tp, c)) = Graft(name, tp, Front(c))
                      /\ \A z \in Tokens : Append(Graft(name, tp, c), z) = Graft(name, tp, Append(c, z))
    OBVIOUS
  <2>1. name \in Tokens /\ tp \in Tokens
    BY <1>1
  <2>2. /\ Graft(name, tp, c) \in Seq(Tokens) /\ Len(Graft(name, tp, c)) = Len(c) + 2
        /\ Graft(name, tp, c)[1] = name /\ Graft(name, tp, c)[2] = tp
    BY <2>1, Grafting
  <2>3. \A i \in 1 .. Len(c) : Graft(name, tp, c)[i + 2] = c[i]
    BY <2>1, Grafting
  <2>4. c # << >> => /\ Last(Graft(name, tp, c)) = Last(c)
                   /\ Front(Graft(name, tp, c)) = Graft(name, tp, Front(c))
    BY <2>1, Grafting
  <2>5. \A z \in Tokens : Append(Graft(name, tp, c), z) = Graft(name, tp, Append(c, z))
    BY <2>1, Grafting
  <2> QED
    BY <2>2, <2>3, <2>4, <2>5
<1>4. \A tp, tp2 \in DOMAIN args : \A c, c2 \in Seq(Tokens) :
        Graft(name, tp, c) = Graft(name, tp2, c2) => tp = tp2 /\ c = c2
  BY <1>1, GraftedApart
<1>5. /\ \A tp \in DOMAIN args : \A c \in args[tp] :
           c \in Seq(Tokens) /\ c # << >> /\ Len(c) \in Nat /\ Len(c) >= 1
      /\ <<name>> \in Seq(Tokens) /\ Len(<<name>>) = 1 /\ <<name>>[1] = name
      /\ Last(<<name>>) = name /\ <<name>> # << >> /\ Front(<<name>>) = << >>
  <2>0. Front(<<name>>) = << >>
    BY DEF Front
  <2>1. \A c \in Branches : c \in Seq(Tokens) /\ c # << >> /\ Len(c) \in Nat /\ Len(c) >= 1
    BY FrontAndLast DEF Branches
  <2> QED
    BY <1>1, <2>0, <2>1 DEF Last
<1> HIDE DEF t
<1>a. \A b \in t : b # <<name>> => \E tp \in DOMAIN args : \E c \in args[tp] :
                                     b = Graft(name, tp, c) /\ Last(b) = Last(c)
  BY <1>2, <1>3, <1>5
<1>6. ASSUME NEW tp \in DOMAIN args
      PROVE  /\ WellFormed(args[tp], own)
             /\ \A c \in args[tp] : needs \cup bounds[tp] \subseteq DerivedAbilities(Last(c))
             /\ \A c \in args[tp] : \A i \in 1 .. Len(c) - 1 :
                  IsParameter(c[i]) => bounds[c[i]] \subseteq DerivedAbilities(Last(c))
  BY DEF Sound
<1>7. \A b \in t : b[1] = name
  BY <1>2, <1>3, <1>5
<1>8. \A b \in t : Last(b) \in {Num} \cup own \cup StructNames
  <2> TAKE b \in t
  <2>1. \A tp \in DOMAIN args : \A c \in args[tp] : Last(c) \in {Num} \cup own \cup StructNames
    BY <1>1, <1>6 DEF WellFormed
  <2> QED
    BY <1>5, <1>a, <2>1
<1>9. ASSUME NEW tp \in ParametersOf(name)
      PROVE  \E arg \in t : {c \in t : Front(c) = Append(<<name>>, tp)} = {arg}
  <2>1. PICK head \in Mentions(args[tp]) : <<head>> \in args[tp] /\ \A c \in args[tp] : c[1] = head
    BY <1>6 DEF WellFormed
  <2>2. Append(<<name>>, tp) = Graft(name, tp, << >>)
    <3>1. Append(<<name>>, tp) = <<name, tp>>
      BY PairFront
    <3>2. <<name, tp>> \in Seq(Tokens)
      BY <1>1
    <3> QED
      BY <3>1, <3>2, ConcatEmptySeq DEF Graft
  <2>3. << >> \in Seq(Tokens) /\ Len(<< >>) = 0
    OBVIOUS
  <2>4. ASSUME NEW c \in args[tp], Front(c) = << >> PROVE c = <<head>>
    <3>1. c \in Seq(Tokens) /\ Len(Front(c)) = Len(c) - 1 /\ Len(c) \in Nat /\ c # << >>
      BY <1>5, FrontAndLast
    <3>2. Len(c) = 1 /\ c[1] = head
      BY <2>1, <2>3, <2>4, <3>1
    <3>3. <<head>> \in Seq(Tokens) /\ Len(<<head>>) = 1 /\ <<head>>[1] = head
      BY <1>5, <2>1
    <3> QED
      BY <3>1, <3>2, <3>3, SeqEqual
  <2>5. Front(<<head>>) = << >>
    BY DEF Front
  <2>6. Graft(name, tp, <<head>>) \in t /\ Front(Graft(name, tp, <<head>>)) = Graft(name, tp, << >>)
    BY <1>2, <1>3, <1>5, <2>1, <2>5
  <2>7. ASSUME NEW c \in t, Front(c) = Graft(name, tp, << >>) PROVE c = Graft(name, tp, <<head>>)
    <3>1. CASE c = <<name>>
      <4>1. Front(c) = << >>
        BY <1>5, <3>1
      <4>2. Len(Graft(name, tp, << >>)) = 0 + 2
        BY <1>3, <2>3
      <4> QED
        BY <2>3, <2>7, <4>1, <4>2
    <3>2. CASE \E tp2 \in DOMAIN args : \E d \in args[tp2] : c = Graft(name, tp2, d)
      <4>0. PICK tp2 \in DOMAIN args : \E d \in args[tp2] : c = Graft(name, tp2, d)
        BY <3>2
      <4>1. PICK d \in args[tp2] : c = Graft(name, tp2, d)
        BY <4>0
      <4>2. d \in Seq(Tokens) /\ Front(d) \in Seq(Tokens) /\ Front(c) = Graft(name, tp2, Front(d))
        BY <1>3, <1>5, <4>1, FrontAndLast
      <4>3. tp2 = tp /\ Front(d) = << >>
        BY <1>4, <2>3, <2>7, <4>2
      <4> QED
        BY <2>4, <4>1, <4>3
    <3> QED
      BY <1>2, <3>1, <3>2
  <2> QED
    BY <2>2, <2>6, <2>7
<1>10. ASSUME NEW tp \in DOMAIN args, NEW b \in args[tp], NEW tp2 \in ParametersOf(Last(b))
       PROVE  \E arg \in t : {c \in t : Front(c) = Append(Graft(name, tp, b), tp2)} = {arg}
  <2>1. PICK arg \in args[tp] : {c \in args[tp] : Front(c) = Append(b, tp2)} = {arg}
    BY <1>6 DEF WellFormed
  <2>2. arg \in Seq(Tokens) /\ arg # << >> /\ Front(arg) = Append(b, tp2)
        /\ b \in Seq(Tokens) /\ Len(b) \in Nat /\ Len(b) >= 1
    BY <1>5, <2>1
  <2>3. tp2 \in Tokens /\ Append(b, tp2) \in Seq(Tokens) /\ Len(Append(b, tp2)) = Len(b) + 1
    <3>1. Len(Append(b, tp2)) = Len(b) + 1 /\ Append(b, tp2)[Len(b) + 1] = tp2
      BY <2>2
    <3>2. Front(arg) \in Seq(Tokens)
      BY <2>2, FrontAndLast
    <3>3. Append(b, tp2) \in Seq(Tokens)
      BY <2>2, <3>2
    <3> QED
      BY <2>2, <3>1, <3>3
  <2>4. Append(Graft(name, tp, b), tp2) = Graft(name, tp, Append(b, tp2))
    BY <1>3, <2>2, <2>3
  <2>5. Graft(name, tp, arg) \in t /\ Front(Graft(name, tp, arg)) = Graft(name, tp, Append(b, tp2))
    BY <1>2, <1>3, <2>2
  <2>6. ASSUME NEW c \in t, Front(c) = Graft(name, tp, Append(b, tp2)) PROVE c = Graft(name, tp, arg)
    <3>1. CASE c = <<name>>
      <4>1. Front(c) = << >> /\ Len(<< >>) = 0
        BY <1>5, <3>1
      <4>2. Len(Graft(name, tp, Append(b, tp2))) = Len(Append(b, tp2)) + 2
        BY <1>3, <2>3
      <4> QED
        BY <2>2, <2>3, <2>6, <4>1, <4>2
    <3>2. CASE \E tp3 \in DOMAIN args : \E d \in args[tp3] : c = Graft(name, tp3, d)
      <4>0. PICK tp3 \in DOMAIN args : \E d \in args[tp3] : c = Graft(name, tp3, d)
        BY <3>2
      <4>1. PICK d \in args[tp3] : c = Graft(name, tp3, d)
        BY <4>0
      <4>2. d \in Seq(Tokens) /\ Front(d) \in Seq(Tokens) /\ Front(c) = Graft(name, tp3, Front(d))
        BY <1>3, <1>5, <4>1, FrontAndLast
      <4>3. tp3 = tp /\ Front(d) = Append(b, tp2)
        <5>1. Graft(name, tp3, Front(d)) = Graft(name, tp, Append(b, tp2))
          BY <2>6, <4>2
        <5> QED
          BY <1>4, <2>3, <4>2, <5>1
      <4> QED
        BY <2>1, <4>1, <4>3
    <3> QED
      BY <1>2, <3>1, <3>2
  <2> QED
    BY <2>4, <2>5, <2>6
<1>11. ASSUME NEW tp \in DOMAIN args, NEW b \in args[tp]
       PROVE  LET above == Front(Front(Graft(name, tp, b)))
              IN  above \in t /\ Last(Front(Graft(name, tp, b))) \in ParametersOf(Last(above))
  <2>1. /\ b \in Seq(Tokens) /\ b # << >> /\ Len(b) \in Nat /\ Len(b) >= 1
        /\ Front(b) \in Seq(Tokens) /\ Len(Front(b)) = Len(b) - 1
        /\ Front(Graft(name, tp, b)) = Graft(name, tp, Front(b))
    BY <1>3, <1>5, FrontAndLast
  <2>2. CASE Len(b) = 1
    <3>1. Front(b) = << >>
      BY <2>1, <2>2, EmptySeq
    <3>2. Graft(name, tp, Front(b)) = <<name, tp>>
      BY <1>1, <3>1, ConcatEmptySeq DEF Graft
    <3>3. Front(<<name, tp>>) = <<name>> /\ Last(<<name, tp>>) = tp
      BY PairFront
    <3> QED
      BY <1>2, <1>5, <2>1, <3>2, <3>3
  <2>3. CASE Len(b) > 1
    <3>1. /\ Front(Front(b)) \in args[tp]
          /\ Last(Front(b)) \in ParametersOf(Last(Front(Front(b))))
      BY <1>6, <2>3 DEF WellFormed
    <3>2. Front(b) # << >>
      BY <2>1, <2>3
    <3>3. /\ Front(Graft(name, tp, Front(b))) = Graft(name, tp, Front(Front(b)))
          /\ Last(Graft(name, tp, Front(b))) = Last(Front(b))
      BY <1>3, <2>1, <3>2
    <3>4. Graft(name, tp, Front(Front(b))) \in t /\ Last(Graft(name, tp, Front(Front(b)))) = Last(Front(Front(b)))
      BY <1>2, <1>3, <1>5, <3>1
    <3> QED
      BY <2>1, <3>1, <3>3, <3>4
  <2> QED
    BY <2>1, <2>2, <2>3
<1>12. WellFormed(t, own)
  <2>1. \A b \in t : \A tp \in ParametersOf(Last(b)) :
          \E arg \in t : {c \in t : Front(c) = Append(b, tp)} = {arg}
    <3> TAKE b \in t
    <3>1. CASE b = <<name>>
      BY <1>5, <1>9, <3>1
    <3>2. CASE \E tp \in DOMAIN args : \E c \in args[tp] : b = Graft(name, tp, c)
      <4>0. PICK tp \in DOMAIN args : \E c \in args[tp] : b = Graft(name, tp, c)
        BY <3>2
      <4>1. PICK c \in args[tp] : b = Graft(name, tp, c)
        BY <4>0
      <4>2. Last(b) = Last(c)
        BY <1>3, <1>5, <4>1
      <4> QED
        BY <1>10, <4>1, <4>2
    <3> QED
      BY <1>2, <3>1, <3>2
  <2>2. \A b \in t : Len(b) > 1 =>
          LET above == Front(Front(b)) IN above \in t /\ Last(Front(b)) \in ParametersOf(Last(above))
    <3> TAKE b \in t
    <3>1. CASE b = <<name>>
      BY <1>5, <3>1
    <3>2. CASE b # <<name>>
      <4>1. PICK tp \in DOMAIN args : \E c \in args[tp] : b = Graft(name, tp, c)
        BY <1>a, <3>2
      <4>2. PICK c \in args[tp] : b = Graft(name, tp, c)
        BY <4>1
      <4> QED
        BY <1>11, <4>2
    <3> QED
      BY <3>1, <3>2
  <2> QED
    BY <1>1, <1>2, <1>7, <1>8, <2>1, <2>2 DEF WellFormed
<1>13. \A b \in t : needs \subseteq DerivedAbilities(Last(b))
  BY <1>5, <1>6, <1>a
<1>14. ASSUME NEW b \in t, NEW i \in 1 .. Len(b) - 1, IsParameter(b[i])
       PROVE  bounds[b[i]] \subseteq DerivedAbilities(Last(b))
  <2>1. b # <<name>>
    <3> SUFFICES ASSUME b = <<name>> PROVE FALSE
      OBVIOUS
    <3>1. Len(b) - 1 = 0
      BY <1>5
    <3> QED
      BY <3>1
  <2>0. PICK tp \in DOMAIN args : \E c \in args[tp] : b = Graft(name, tp, c)
    BY <1>2, <2>1
  <2>2. PICK c \in args[tp] : b = Graft(name, tp, c)
    BY <2>0
  <2>3. /\ c \in Seq(Tokens) /\ Len(b) = Len(c) + 2 /\ b[1] = name /\ b[2] = tp /\ Len(c) \in Nat
        /\ Last(b) = Last(c)
        /\ \A j \in 1 .. Len(c) : b[j + 2] = c[j]
    BY <1>3, <1>5, <2>2
  <2>4. CASE i = 1
    BY <1>1, <1>14, <2>3, <2>4
  <2>5. CASE i = 2
    BY <1>6, <2>2, <2>3, <2>5
  <2>6. CASE i > 2
    <3>1. i - 2 \in 1 .. Len(c) - 1 /\ (i - 2) + 2 = i /\ i - 2 \in 1 .. Len(c)
      BY <2>3, <2>6
    <3>2. b[i] = c[i - 2]
      BY <2>3, <3>1
    <3> QED
      BY <1>6, <1>14, <2>2, <2>3, <3>1, <3>2
  <2> QED
    BY <2>4, <2>5, <2>6
<1>15. t \in TreeSet
  <2> DEFINE same == [tp \in ParametersOf(name) |-> args[tp]]
  <2>1. same \in [ParametersOf(name) -> TreeSet]
    BY DEF Sound
  <2>2. DOMAIN same = DOMAIN args /\ \A tp \in DOMAIN args : same[tp] = args[tp]
    OBVIOUS
  <2> HIDE DEF same
  <2>3. Concrete(name, same) = Concrete(name, args)
    <3>1. \A a : Concrete(name, a) = Leaf(name) \cup
                    UNION {{Graft(name, tp, c) : c \in a[tp]} : tp \in DOMAIN a}
      BY DEF Concrete, Graft
    <3>2. \A b : b \in UNION {{Graft(name, tp, c) : c \in same[tp]} : tp \in DOMAIN same} <=>
                 b \in UNION {{Graft(name, tp, c) : c \in args[tp]} : tp \in DOMAIN args}
      BY <2>2
    <3> QED
      BY <3>1, <3>2
  <2>4. Built(t, TreeSet)
    BY <2>1, <2>3 DEF Built, t
  <2> QED
    BY <1>2, <2>4, Building
<1> QED
  BY <1>12, <1>13, <1>14, <1>15 DEF Sound, t

(* What is in the scope of a struct: its own type parameters, no others.   *)
LEMMA InStructScope ==
  ASSUME Shape, AllGenerated, NEW s \in StructNames
  PROVE  /\ IsIdInScope(pool, AllAbilitiesStruct, StructScope(s))
         /\ \A tp \in DOMAIN bounds :
              IsIdInScope(pool, tp, StructScope(s)) => tp \in ParametersOf(s)
         /\ \A n \in StructNames \ {s} : \A tp \in ParametersOf(n) :
              IsTypeConcretizable(tp, StructScope(s))
<1>1. /\ N \in Nat /\ Len(structs) = N + 1
      /\ \A i \in 1 .. N + 1 : /\ DefinitionInv(i) /\ structs[i].name \in StructNames
                               /\ DefinitionOf(structs[i].name) = structs[i]
      /\ \A n \in StructNames : \E i \in 1 .. N + 1 : n = structs[i].name
  <2>1. N \in Nat /\ Len(structs) = N + 1
    BY NamedStructs DEF AllGenerated, N
  <2>2. \A n \in StructNames : n[2] + 1 \in 1 .. N + 1 /\ n = structs[n[2] + 1].name
    BY <2>1, NamedStructs
  <2> QED
    BY <2>1, <2>2, NamedStructs DEF Shape, StructsInv
<1>2. \A n \in StructNames : \A tp \in ParametersOf(n) : pool.scopes[tp] = StructScope(n)
  <2> TAKE n \in StructNames
  <2>1. PICK i \in 1 .. N + 1 : n = structs[i].name
    BY <1>1
  <2>2. ParametersOf(n) = Range(structs[i].tps)
    BY <1>1, <2>1, TypesThere DEF ParametersOf
  <2> QED
    BY <1>1, <2>1, <2>2 DEF DefinitionInv
<1> DEFINE S == Identifiers \cup Range(HardcodedAddress)
<1>3. ModuleScope \in Seq(S)
  BY Scopes DEF Shape, Known
<1> HIDE DEF S
<1>4. \A n \in StructNames : n \in S
  <2>1. \A n \in StructNames : n \in Tokens /\ n # Num
    BY TypesThere
  <2> QED
    BY <2>1 DEF S, Tokens
<1> DEFINE m == Len(ModuleScope)
<1>5. m \in Nat
  BY <1>3
<1>6. \A n \in StructNames :
        /\ StructScope(n) \in Seq(S) /\ Len(StructScope(n)) = m + 1 /\ StructScope(n)[m + 1] = n
        /\ SubSeq(StructScope(n), 1, m) = ModuleScope
  BY <1>3, <1>4, Appending DEF StructScope
<1>7. \A n \in StructNames : StructScope(n) = StructScope(s) => n = s
  BY <1>6
<1>8. SubSeq(ModuleScope, 1, m) = ModuleScope
  BY <1>3
<1> HIDE DEF m
<1>9. IsIdInScope(pool, AllAbilitiesStruct, StructScope(s))
  <2>1. pool.scopes[AllAbilitiesStruct] = ModuleScope
    BY TypesThere
  <2>2. Len(ModuleScope) <= Len(StructScope(s))
    BY <1>5, <1>6 DEF m
  <2>3. IsPrefix(ModuleScope, StructScope(s))
    BY <1>6, <1>8, <2>2 DEF IsPrefix, m
  <2> QED
    BY <2>1, <2>3 DEF IsIdInScope, IsInScope
<1>10. ASSUME NEW tp \in DOMAIN bounds, IsIdInScope(pool, tp, StructScope(s))
       PROVE  tp \in ParametersOf(s)
  <2>1. PICK i \in 1 .. Len(structs) : tp \in Range(structs[i].tps)
    BY DEF Shape, OwnersInv
  <2>2. i \in 1 .. N + 1 /\ structs[i].name \in StructNames
    BY <1>1, <2>1
  <2>3. ParametersOf(structs[i].name) = Range(structs[i].tps)
    BY <1>1, <2>2, TypesThere DEF ParametersOf
  <2>4. pool.scopes[tp] = StructScope(structs[i].name)
    BY <1>2, <2>1, <2>2, <2>3
  <2>5. tp \in Issued(pool)
    BY DEF Shape, OwnersInv, IdentifiersOfKind
  <2>6. IsPrefix(StructScope(structs[i].name), StructScope(s))
    BY <1>10, <2>4, <2>5 DEF IsIdInScope, IsInScope
  <2>7. SubSeq(StructScope(structs[i].name), 1, m + 1) = SubSeq(StructScope(s), 1, m + 1)
    BY <1>6, <2>2, <2>6 DEF IsPrefix
  <2>8. \A n \in StructNames : SubSeq(StructScope(n), 1, m + 1) = StructScope(n)
    <3> TAKE n \in StructNames
    <3>1. StructScope(n) \in Seq(S) /\ Len(StructScope(n)) = m + 1
      BY <1>6
    <3>2. \A c \in Seq(S) : SubSeq(c, 1, Len(c)) = c
      OBVIOUS
    <3>3. SubSeq(StructScope(n), 1, Len(StructScope(n))) = StructScope(n)
      BY <3>1, <3>2
    <3> QED
      BY <3>1, <3>3
  <2>9. structs[i].name = s
    BY <1>7, <2>2, <2>7, <2>8
  <2> QED
    BY <2>1, <2>3, <2>9
<1>11. ASSUME NEW n \in StructNames \ {s}, NEW tp \in ParametersOf(n)
       PROVE  IsTypeConcretizable(tp, StructScope(s))
  <2>1. pool.scopes[tp] = StructScope(n) /\ StructScope(n) # StructScope(s)
    BY <1>2, <1>7
  <2>2. IsParameter(tp)
    BY TypesThere
  <2>3. s = <<"Struct", s[2]>>
    BY NamedStructs
  <2>4. RemoveHiddenScopes(StructScope(s)) = StructScope(s)
    BY <2>3, NothingHidden
  <2> QED
    BY <2>1, <2>2, <2>4 DEF IsTypeConcretizable
<1> QED
  BY <1>9, <1>10, <1>11

(* A type drawn in the scope of a struct is sound, unless it mentions the  *)
(* struct and is thrown away: the struct's own parameters were not         *)
(* replaced by arguments that have their abilities.                        *)
Usable(t, s, needs) == s \in Mentions(t) \/ Sound(t, ParametersOf(s), needs)

LEMMA StructUsable ==
  ASSUME Shape, Fallback, NEW s \in StructNames,
         NEW name \in StructNames, ~IsConcrete(name), NEW requires \in SUBSET Abilities,
         requires \subseteq DerivedAbilities(name), NEW outcomes,
         \A q \in Queries : AllAbilitiesStruct \notin q.parent =>
           /\ Fine(outcomes[q])
           /\ \A t \in outcomes[q] : Usable(t, s, q.requires \cup bounds[q.tp]),
         NEW t \in ConcretizeStruct(name, StructScope(s), requires, outcomes)
  PROVE  t \subseteq Branches /\ name \in Mentions(t) /\ Usable(t, s, requires)
<1>1. AllGenerated
  BY DEF Fallback
<1>2. PICK args : t = Concrete(name, args) /\ Passed(args, name, StructScope(s), requires, outcomes)
  <2>1. IsIdInScope(pool, AllAbilitiesStruct, StructScope(s))
    BY <1>1, InStructScope
  <2>2. \A q \in Queries : AllAbilitiesStruct \notin q.parent => Fine(outcomes[q])
    OBVIOUS
  <2> QED
    BY <2>1, <2>2, Arguments
<1>3. name \in Tokens /\ \A tp \in DOMAIN args : tp \in Tokens /\ args[tp] \subseteq Branches
  BY <1>1, <1>2, TypesThere DEF Passed
<1>4. /\ t \subseteq Branches /\ name \in Mentions(t)
      /\ \A tp \in DOMAIN args : Mentions(args[tp]) \subseteq Mentions(t)
  BY <1>2, <1>3, Trees
<1>5. CASE name = s
  BY <1>4, <1>5 DEF Usable
<1>6. CASE name # s
  <2>1. ASSUME NEW tp \in DOMAIN args PROVE Usable(args[tp], s, requires \cup bounds[tp])
    <3> DEFINE q == Query(tp, requires \cup bounds[tp], {name})
    <3>1. IsTypeConcretizable(tp, StructScope(s))
      BY <1>1, <1>2, <1>6, InStructScope DEF Passed
    <3>2. q \in Queries /\ AllAbilitiesStruct \notin q.parent /\ args[tp] \in outcomes[q]
      BY <1>2, <3>1 DEF Passed
    <3>3. q.requires \cup bounds[q.tp] = requires \cup bounds[tp]
      BY DEF Query
    <3> HIDE DEF q
    <3>4. Usable(args[tp], s, q.requires \cup bounds[q.tp])
      BY <3>2
    <3> QED
      BY <3>3, <3>4
  <2>2. CASE \E tp \in DOMAIN args : s \in Mentions(args[tp])
    BY <1>4, <2>2 DEF Usable
  <2>3. CASE \A tp \in DOMAIN args : Sound(args[tp], ParametersOf(s), requires \cup bounds[tp])
    <3>1. Sound(Concrete(name, args), ParametersOf(s), requires)
      BY <1>1, <1>2, <2>3, SoundStruct DEF Passed
    <3> QED
      BY <1>2, <1>4, <3>1 DEF Usable
  <2> QED
    BY <1>4, <2>1, <2>2, <2>3 DEF Usable
<1> QED
  BY <1>4, <1>5, <1>6

LEMMA AnswersUsable ==
  ASSUME Shape, Fallback, NEW s \in StructNames,
         NEW n \in Nat, NEW q \in Queries, AllAbilitiesStruct \notin q.parent,
         NEW t \in ConcretizeTypeParameter(StructScope(s))[n][q]
  PROVE  Usable(t, s, q.requires \cup bounds[q.tp])
<1> DEFINE scope == StructScope(s)
           answers == ConcretizeTypeParameter(scope)
           Good(outcomes, p) == \A u \in outcomes[p] : Usable(u, s, p.requires \cup bounds[p.tp])
           failing == {m \in Nat : \E p \in Queries : AllAbilitiesStruct \notin p.parent
                                                      /\ ~Good(answers[m], p)}
<1>0. AllGenerated /\ IsIdInScope(pool, AllAbilitiesStruct, scope)
  BY InStructScope DEF Fallback
<1> SUFFICES ASSUME failing # {} PROVE FALSE
  OBVIOUS
<1>1. PICK m \in failing : \A k \in failing : ~(k < m)
  <2>1. failing \subseteq Nat
    OBVIOUS
  <2> HIDE DEF failing
  <2> QED
    BY <2>1, Smallest
<1>2. PICK p \in Queries : AllAbilitiesStruct \notin p.parent /\ ~Good(answers[m], p)
  BY <1>1
<1> DEFINE below == IF m = 0 THEN << >> ELSE answers[m - 1]
<1>3. answers[m][p] = ParameterTypes(scope, p, m = 0, below)
  <2>1. m \in Nat
    BY <1>1
  <2>2. answers[m] = [r \in Queries |-> ParameterTypes(scope, r, m = 0, below)]
    <3> HIDE DEF failing
    <3> QED
      BY <2>1, Recursion
  <2> HIDE DEF answers, below
  <2> QED
    BY <2>2
<1>4. ASSUME m # 0, NEW r \in Queries, AllAbilitiesStruct \notin r.parent
      PROVE  Fine(below[r]) /\ Good(below, r)
  <2>1. m \in Nat /\ m - 1 \in Nat /\ m - 1 < m
    BY <1>1, <1>4
  <2>2. m - 1 \notin failing
    <3> HIDE DEF failing
    <3> QED
      BY <1>1, <2>1
  <2>3. Fine(answers[m - 1][r])
    BY <1>0, <1>4, <2>1, AlwaysAnAnswer
  <2> HIDE DEF answers, Good
  <2>4. Good(answers[m - 1], r)
    BY <1>4, <2>1, <2>2
  <2> QED
    BY <1>4, <2>3, <2>4
<1> DEFINE needs == p.requires \cup bounds[p.tp]
<1>5. ASSUME NEW u \in answers[m][p] PROVE Usable(u, s, needs)
  <2>1. u \in ParameterTypes(scope, p, m = 0, below)
    BY <1>3
  <2> HIDE DEF answers, below
  <2>2. \A r \in Queries : m # 0 /\ AllAbilitiesStruct \notin r.parent => Fine(below[r])
    BY <1>4
  <2>3. /\ needs \in SUBSET Abilities
        /\ \E id \in ChoicesFor(scope, needs, p.parent, m = 0) :
            Comes(u, id, scope, needs, m = 0, below)
    <3> DEFINE atLimit == m = 0
    <3>1. atLimit \in BOOLEAN /\ (~atLimit => \A r \in Queries : AllAbilitiesStruct \notin r.parent
                                                                => Fine(below[r]))
      BY <2>2
    <3>2. u \in ParameterTypes(scope, p, atLimit, below)
      BY <2>1
    <3>3. p \in Queries /\ AllAbilitiesStruct \notin p.parent /\ IsIdInScope(pool, AllAbilitiesStruct, scope)
      BY <1>0, <1>2
    <3> HIDE DEF atLimit, scope
    <3>4. needs \in SUBSET Abilities
      BY <3>1, <3>3, Chosen
    <3>5. \E id \in ChoicesFor(scope, needs, p.parent, atLimit) :
            Comes(u, id, scope, needs, atLimit, below)
      BY <3>1, <3>2, <3>3, Chosen
    <3> QED
      BY <3>4, <3>5 DEF atLimit
  <2> HIDE DEF needs
  <2>4. PICK id \in ChoicesFor(scope, needs, p.parent, m = 0) :
          IF IsStruct(id) /\ IsTypeConcretizable(id, scope)
          THEN m # 0 /\ u \in ConcretizeStruct(id, scope, needs, below)
          ELSE u = Leaf(id)
    BY <2>3 DEF Comes
  <2>5. /\ id \in {Num} \cup StructNames \cup DOMAIN bounds /\ IsIdInScope(pool, id, scope)
        /\ needs \subseteq DerivedAbilities(id)
    BY <1>0, TypesThere DEF ChoicesFor, TypesWithAbilities
  <2>6. CASE IsStruct(id) /\ IsTypeConcretizable(id, scope)
    <3>1. id \in StructNames /\ ~IsConcrete(id)
      BY <1>0, <2>5, <2>6, TypesThere DEF IsTypeConcretizable
    <3>2. \A r \in Queries : AllAbilitiesStruct \notin r.parent =>
            /\ Fine(below[r])
            /\ \A v \in below[r] : Usable(v, s, r.requires \cup bounds[r.tp])
      BY <1>4, <2>4, <2>6
    <3>3. u \in ConcretizeStruct(id, StructScope(s), needs, below)
      BY <2>4, <2>6
    <3> QED
      BY <2>3, <2>5, <3>1, <3>2, <3>3, StructUsable
  <2>7. CASE ~(IsStruct(id) /\ IsTypeConcretizable(id, scope))
    <3>1. u = Leaf(id)
      BY <2>4, <2>7
    <3>2. id \in {Num} \cup ParametersOf(s) \cup StructNames /\ id \in Tokens
      BY <1>0, <2>5, InStructScope, TypesThere DEF Tokens
    <3>3. ParametersOf(id) = {}
      <4>1. CASE id \in StructNames
        BY <1>0, <2>7, <4>1, TypesThere DEF IsTypeConcretizable, IsConcrete
      <4>2. CASE id \notin StructNames
        BY <1>0, <2>5, <4>2, TypesThere DEF ParametersOf
      <4> QED
        BY <4>1, <4>2
    <3> QED
      BY <1>0, <2>5, <3>1, <3>2, <3>3, SoundLeaf, TypesThere DEF Usable
  <2> QED
    BY <2>6, <2>7
<1> QED
  BY <1>2, <1>5

(* What is drawn for a struct type, in a struct or elsewhere.              *)
LEMMA StructsDrawn ==
  ASSUME Shape, Fallback, NEW scope, IsIdInScope(pool, AllAbilitiesStruct, scope),
         NEW name \in StructNames, ~IsConcrete(name), NEW requires \in SUBSET Abilities,
         NEW room \in Int, NEW t \in ConcreteStructs(name, scope, requires, room)
  PROVE  t \subseteq Branches
<1>1. Nestable(room - 1) \in Nat
  BY DEF Nestable
<1>2. \A q \in Queries : AllAbilitiesStruct \notin q.parent =>
        Fine(ConcretizeTypeParameter(scope)[Nestable(room - 1)][q])
  BY <1>1, AlwaysAnAnswer
<1> QED
  BY <1>2, Arguments DEF ConcreteStructs

(* The fields there are.  Those of the last struct are numbers, which is   *)
(* what makes it an answer to every draw.                                  *)
FieldsInv ==
  \A i \in 1 .. Len(structs) : \A f \in Range(structs[i].fields) :
    /\ Sound(types[f], Range(structs[i].tps), structs[i].has \ {"key"})
    /\ i = N + 1 => types[f] = Leaf(Num)

PhantomInv ==
  phantom = {NotYet} \/ (AllFilled /\ phantom \subseteq DOMAIN bounds \ MentionedParameters)

LEMMA FallbackThere ==
  ASSUME Shape, AllGenerated, FieldsInv
  PROVE  Fallback
<1>1. /\ N \in Nat /\ Len(structs) = N + 1 /\ N + 1 \in 1 .. Len(structs)
      /\ AllAbilitiesStruct = structs[N + 1].name /\ AllAbilitiesStruct[2] = N
      /\ DefinitionOf(AllAbilitiesStruct) = structs[N + 1]
  <2>1. N \in Nat /\ Len(structs) = N + 1 /\ N + 1 \in 1 .. Len(structs)
    BY NamedStructs DEF AllGenerated, N
  <2>2. structs[N + 1].name = <<"Struct", N>> /\ DefinitionOf(structs[N + 1].name) = structs[N + 1]
    BY <2>1, NamedStructs
  <2>3. AllAbilitiesStruct = <<"Struct", N>>
    BY DEF AllAbilitiesStruct, N
  <2> QED
    BY <2>1, <2>2, <2>3
<1>2. \A f \in Range(structs[N + 1].fields) : StructsIn(types[f]) = {}
  <2> TAKE f \in Range(structs[N + 1].fields)
  <2>1. types[f] = Leaf(Num)
    BY <1>1 DEF FieldsInv
  <2>2. Num \notin StructNames
    BY TypesThere
  <2> QED
    BY <2>1, <2>2, Leaves DEF StructsIn
<1> QED
  BY <1>1, <1>2 DEF Fallback, StructsInFields

LEMMA BasicFieldSound ==
  ASSUME Shape, left > 0,
         NEW id \in {Num} \cup ParametersInScope(GetScopeForChildren(pool, structs[filled].name))
  PROVE  /\ Sound(Leaf(id), Range(structs[filled].tps), structs[filled].has \ {"key"})
         /\ filled = N + 1 => Leaf(id) = Leaf(Num)
<1> DEFINE st == structs[filled]
<1>1. /\ AllGenerated /\ filled \in 1 .. Len(structs) /\ st.name \in StructNames
      /\ GetScopeForChildren(pool, st.name) = StructScope(st.name)
      /\ DefinitionOf(st.name) = st /\ DefinitionInv(filled)
  BY BeingFilled, NamedStructs DEF Shape, FillInv, StructsInv
<1>2. ParametersOf(st.name) = Range(st.tps)
  BY <1>1, TypesThere DEF ParametersOf
<1>3. id \in {Num} \cup ParametersOf(st.name)
  BY <1>1, InStructScope DEF ParametersInScope, Shape, OwnersInv, IdentifiersOfKind
<1>4. id \in Tokens /\ ParametersOf(id) = {} /\ (id # Num => id \in DOMAIN bounds)
  BY <1>1, <1>3, TypesThere DEF Tokens, ParametersOf
<1>5. filled = N + 1 => id = Num
  <2>1. filled = N + 1 => st.tps = << >>
    BY <1>1 DEF DefinitionInv
  <2>2. Range(<< >>) = {}
    BY DEF Range
  <2> QED
    BY <1>2, <1>3, <2>1, <2>2
<1>6. st.has \ {"key"} \subseteq DerivedAbilities(id)
  <2>1. st.has = IF filled = N + 1 THEN Abilities ELSE {"copy", "drop"}
    BY <1>1 DEF DefinitionInv
  <2>2. CASE id = Num
    <3>1. DerivedAbilities(Num) = Primitives
      BY <1>1, TypesThere DEF DerivedAbilities
    <3> QED
      BY <2>1, <2>2, <3>1 DEF Abilities, Primitives
  <2>3. CASE id # Num
    <3>1. {"copy", "drop"} \subseteq bounds[id] /\ DerivedAbilities(id) = bounds[id]
      BY <1>1, <1>4, <2>3, TypesThere DEF DerivedAbilities, Shape, OwnersInv
    <3> QED
      BY <1>5, <2>1, <2>3, <3>1
  <2> QED
    BY <2>2, <2>3
<1>7. Sound(Leaf(id), Range(st.tps), st.has \ {"key"})
  BY <1>1, <1>2, <1>3, <1>4, <1>6, SoundLeaf, TypesThere
<1> QED
  BY <1>5, <1>7

LEMMA StructFieldSound ==
  ASSUME Shape, Fallback, left > 0,
         NEW limit \in TypeDepths, NEW t \in FieldTypes(structs[filled], limit)
  PROVE  Sound(t, Range(structs[filled].tps), structs[filled].has \ {"key"}) /\ filled # N + 1
<1> DEFINE st == structs[filled]
           scope == StructScope(st.name)
           answers == ConcretizeTypeParameter(scope)[Nestable(limit - 1)]
<1>1. /\ AllGenerated /\ filled \in 1 .. Len(structs) /\ st.name \in StructNames
      /\ st.name = <<"Struct", filled - 1>> /\ N \in Nat
      /\ DefinitionOf(st.name) = st /\ DefinitionInv(filled) /\ st.has \in SUBSET Abilities
  <2>1. /\ AllGenerated /\ filled \in 1 .. Len(structs) /\ st.name \in StructNames
        /\ st.name = <<"Struct", filled - 1>> /\ N \in Nat
        /\ DefinitionOf(st.name) = st /\ DefinitionInv(filled)
    BY BeingFilled, NamedStructs DEF Shape, FillInv, StructsInv
  <2> QED
    BY <2>1 DEF DefinitionInv, Abilities
<1>2. PICK u \in Range(structs) :
        /\ u \in GetUsableStructType(st) /\ u.tps # << >>
        /\ t \in ConcreteStructs(u.name, scope, st.has, limit)
        /\ ~CheckStructReachable(t, st.name) /\ st.name # AllAbilitiesStruct
  BY DrawnForField
<1>3. PICK i \in 1 .. Len(structs) : u = structs[i]
  BY DEF Range, Shape, StructsInv
<1>4. /\ u.name \in StructNames /\ DefinitionOf(u.name) = u /\ u.tps \in Seq(DOMAIN bounds)
  BY <1>3, NamedStructs DEF Shape, StructsInv, DefinitionInv
<1>5. ~IsConcrete(u.name) /\ st.has \subseteq DerivedAbilities(u.name)
  <2>1. IsStruct(u.name) /\ ~IsParameter(u.name) /\ u.name # Num
    BY <1>1, <1>4, TypesThere
  <2>2. ParametersOf(u.name) # {}
    <3>1. Len(u.tps) >= 1 /\ DOMAIN u.tps = 1 .. Len(u.tps)
      BY <1>2, <1>4
    <3>2. u.tps[1] \in Range(u.tps)
      BY <3>1 DEF Range
    <3> QED
      BY <1>4, <2>1, <3>2 DEF ParametersOf
  <2>3. st.has \subseteq u.has
    BY <1>2 DEF GetUsableStructType
  <2>4. DerivedAbilities(u.name) = u.has
    BY <1>4, <2>1 DEF DerivedAbilities
  <2>5. ~IsConcrete(u.name)
    BY <2>1, <2>2 DEF IsConcrete
  <2> QED
    BY <2>3, <2>4, <2>5
<1>6. Nestable(limit - 1) \in Nat
  <2>1. limit - 1 \in Int
    BY SkeletonsAssumption
  <2> QED
    BY <2>1 DEF Nestable
<1>7. IsIdInScope(pool, AllAbilitiesStruct, scope)
  BY <1>1, InStructScope
<1>8. \A q \in Queries : AllAbilitiesStruct \notin q.parent =>
        /\ Fine(answers[q])
        /\ \A v \in answers[q] : Usable(v, st.name, q.requires \cup bounds[q.tp])
  BY <1>1, <1>6, <1>7, AlwaysAnAnswer, AnswersUsable
<1>9. t \in ConcretizeStruct(u.name, scope, st.has, answers)
  BY <1>2 DEF ConcreteStructs
<1> HIDE DEF answers
<1>10. Usable(t, st.name, st.has)
  BY <1>1, <1>4, <1>5, <1>8, <1>9, StructUsable
<1>11. st.name \notin Mentions(t)
  <2> SUFFICES ASSUME st.name \in Mentions(t) PROVE FALSE
    OBVIOUS
  <2>1. st.name \in StructsIn(t)
    BY <1>1 DEF StructsIn
  <2> QED
    BY <1>2, <2>1 DEF CheckStructReachable, Reaches
<1>12. Sound(t, Range(st.tps), st.has)
  <2>1. ParametersOf(st.name) = Range(st.tps)
    BY <1>1, TypesThere DEF ParametersOf
  <2> QED
    BY <1>10, <1>11, <2>1 DEF Usable
<1>13. Sound(t, Range(st.tps), st.has \ {"key"})
  BY <1>12 DEF Sound
<1>14. filled # N + 1
  BY <1>1, <1>2 DEF AllAbilitiesStruct, N
<1> QED
  BY <1>13, <1>14

(* What soundness depends on.                                              *)
LEMMA SoundKept ==
  ASSUME Shape, AllGenerated, bounds' = bounds, DOMAIN structs' = DOMAIN structs,
         \A j \in 1 .. Len(structs) : /\ structs'[j].name = structs[j].name
                                      /\ structs'[j].has = structs[j].has
                                      /\ structs'[j].tps = structs[j].tps,
         NEW u, NEW own, NEW needs, own \subseteq DOMAIN bounds, Sound(u, own, needs)
  PROVE  Sound(u, own, needs)'
<1>1. DOMAIN structs = 1 .. Len(structs)
  BY DEF Shape, StructsInv
<1>2. {st.name : st \in Range(structs')} = {st.name : st \in Range(structs)}
  <2>1. Range(structs') = {structs'[j] : j \in 1 .. Len(structs)}
        /\ Range(structs) = {structs[j] : j \in 1 .. Len(structs)}
    BY <1>1 DEF Range
  <2> QED
    BY <2>1
<1>3. \A id \in {Num} \cup StructNames \cup DOMAIN bounds :
        /\ ParametersOf(id)' = ParametersOf(id)
        /\ DerivedAbilities(id)' = DerivedAbilities(id)
  <2> TAKE id \in {Num} \cup StructNames \cup DOMAIN bounds
  <2>1. CASE IsStruct(id)
    <3>1. id \in StructNames
      BY <2>1, TypesThere
    <3>2. id[2] + 1 \in 1 .. Len(structs)
      BY <3>1, NamedStructs DEF AllGenerated, N
    <3>3. /\ structs'[id[2] + 1].tps = structs[id[2] + 1].tps
          /\ structs'[id[2] + 1].has = structs[id[2] + 1].has
      BY <3>2
    <3> QED
      BY <2>1, <3>3 DEF ParametersOf, DerivedAbilities, DefinitionOf
  <2>2. CASE ~IsStruct(id)
    BY <2>2 DEF ParametersOf, DerivedAbilities
  <2> QED
    BY <2>1, <2>2
<1>4. \A b \in u : Last(b) \in {Num} \cup StructNames \cup DOMAIN bounds
  BY TypesThere DEF Sound, WellFormed
<1>5. \A b \in u : /\ ParametersOf(Last(b))' = ParametersOf(Last(b))
                   /\ DerivedAbilities(Last(b))' = DerivedAbilities(Last(b))
  BY <1>3, <1>4
<1>6. /\ \A b \in u : needs \subseteq DerivedAbilities(Last(b))'
      /\ \A b \in u : \A i \in 1 .. Len(b) - 1 :
           IsParameter(b[i]) => bounds'[b[i]] \subseteq DerivedAbilities(Last(b))'
  BY <1>5 DEF Sound
<1>7. WellFormed(u, own)'
  <2>1. \E id \in Mentions(u) : <<id>> \in u /\ \A b \in u : b[1] = id
    BY DEF Sound, WellFormed
  <2>2. ASSUME NEW b \in u
        PROVE  /\ Last(b) \in {Num} \cup own \cup {st.name : st \in Range(structs')}
               /\ \A tp \in ParametersOf(Last(b))' :
                    \E arg \in u : {c \in u : Front(c) = Append(b, tp)} = {arg}
    <3>1. /\ Last(b) \in {Num} \cup own \cup {st.name : st \in Range(structs)}
          /\ \A tp \in ParametersOf(Last(b)) :
               \E arg \in u : {c \in u : Front(c) = Append(b, tp)} = {arg}
      BY DEF Sound, WellFormed
    <3> QED
      BY <1>2, <1>5, <3>1
  <2>3. ASSUME NEW b \in u, Len(b) > 1
        PROVE  Front(Front(b)) \in u /\ Last(Front(b)) \in ParametersOf(Last(Front(Front(b))))'
    <3>1. Front(Front(b)) \in u /\ Last(Front(b)) \in ParametersOf(Last(Front(Front(b))))
      BY <2>3 DEF Sound, WellFormed
    <3> QED
      BY <1>5, <3>1
  <2> QED
    BY <2>1, <2>2, <2>3 DEF WellFormed
<1>8. u \in TreeSet'
  <2>1. PICK parts \in SUBSET SUBSET Branches : u \in parts /\ \A t \in parts : Built(t, parts)
    BY DEF Sound, TreeSet
  <2>2. ASSUME NEW t \in parts PROVE Built(t, parts)'
    <3>1. CASE \E id \in Nodes : ParametersOf(id) = {} /\ t = Leaf(id)
      BY <1>3, <3>1 DEF Built, Nodes
    <3>2. CASE \E name \in StructNames : \E args \in [ParametersOf(name) -> parts] :
                 t = Concrete(name, args)
      <4>1. PICK name \in StructNames : \E args \in [ParametersOf(name) -> parts] :
                 t = Concrete(name, args)
        BY <3>2
      <4>2. ParametersOf(name)' = ParametersOf(name)
        BY <1>3
      <4> QED
        BY <4>1, <4>2 DEF Built
    <3> QED
      BY <2>1, <3>1, <3>2 DEF Built
  <2> QED
    BY <2>1, <2>2 DEF TreeSet
<1> QED
  BY <1>6, <1>7, <1>8 DEF Sound

LEMMA FieldsInit == Init => FieldsInv /\ PhantomInv
BY DEF Init, FieldsInv, PhantomInv

LEMMA FieldsAdd ==
  ASSUME Shape, Shape', FieldsInv, left > 0, NEW t, AddField(t),
         Sound(t, Range(structs[filled].tps), structs[filled].has \ {"key"}),
         filled = N + 1 => t = Leaf(Num)
  PROVE  FieldsInv'
<1>1. PICK id \in Identifiers \ Issued(pool) :
        /\ types'[id] = t /\ \A f \in DOMAIN types : types'[f] = types[f]
        /\ structs' = [structs EXCEPT ![filled].fields = Append(@, id)]
  BY FieldAdded
<1>2. /\ AllGenerated /\ bounds' = bounds /\ filled \in 1 .. Len(structs)
      /\ structs \in Seq(Definitions) /\ DOMAIN structs = 1 .. Len(structs)
      /\ \A i \in 1 .. Len(structs) : DefinitionInv(i)
  BY BeingFilled DEF AddField, Shape, FillInv, StructsInv
<1>3. /\ DOMAIN structs' = DOMAIN structs /\ Len(structs') = Len(structs)
      /\ \A j \in 1 .. Len(structs) : /\ structs'[j].name = structs[j].name
                                      /\ structs'[j].has = structs[j].has
                                      /\ structs'[j].tps = structs[j].tps
      /\ \A j \in 1 .. Len(structs) : j # filled => structs'[j].fields = structs[j].fields
      /\ structs'[filled].fields = Append(structs[filled].fields, id)
  BY <1>1, <1>2 DEF Definitions
<1>4. \A j \in 1 .. Len(structs) :
        /\ Range(structs[j].tps) \subseteq DOMAIN bounds
        /\ Range(structs[j].fields) \subseteq DOMAIN types
        /\ structs[j].fields \in Seq(Identifiers)
  <2>1. \A j \in 1 .. Len(structs) :
          /\ structs[j].tps \in Seq(DOMAIN bounds) /\ structs[j].fields \in Seq(DOMAIN types)
          /\ structs[j] \in Definitions
    BY <1>2 DEF DefinitionInv
  <2> QED
    BY <2>1, RangeInSeq DEF Definitions
<1>5. Range(Append(structs[filled].fields, id)) = Range(structs[filled].fields) \cup {id}
  BY <1>1, <1>2, <1>4, RangeInSeq
<1>6. ASSUME NEW i \in 1 .. Len(structs), NEW f \in Range(structs'[i].fields)
      PROVE  \E u : /\ u = types'[f]
                    /\ Sound(u, Range(structs[i].tps), structs[i].has \ {"key"})
                    /\ i = N + 1 => u = Leaf(Num)
  <2>1. CASE f \in Range(structs[i].fields)
    BY <1>1, <1>4, <2>1 DEF FieldsInv
  <2>2. CASE f \notin Range(structs[i].fields)
    <3>1. i = filled
      BY <1>3, <2>2
    <3>2. f \in Range(structs[filled].fields) \cup {id}
      BY <1>3, <1>5, <3>1
    <3>3. f = id
      BY <2>2, <3>1, <3>2
    <3> QED
      BY <1>1, <3>1, <3>3
  <2> QED
    BY <2>1, <2>2
<1>7. ASSUME NEW i \in 1 .. Len(structs), NEW f \in Range(structs'[i].fields)
      PROVE  /\ Sound(types[f], Range(structs[i].tps), structs[i].has \ {"key"})'
             /\ i = N + 1 => types'[f] = Leaf(Num)
  <2>1. PICK u : /\ u = types'[f]
                 /\ Sound(u, Range(structs[i].tps), structs[i].has \ {"key"})
                 /\ i = N + 1 => u = Leaf(Num)
    BY <1>6
  <2>2. PICK own, needs : own = Range(structs[i].tps) /\ needs = structs[i].has \ {"key"}
    OBVIOUS
  <2>3. own \subseteq DOMAIN bounds /\ Sound(u, own, needs)
    BY <1>4, <2>1, <2>2
  <2>4. Sound(u, own, needs)'
    BY <1>2, <1>3, <2>3, SoundKept
  <2>5. own = Range(structs'[i].tps) /\ needs = structs'[i].has \ {"key"}
    BY <1>3, <2>2
  <2> QED
    BY <2>1, <2>4, <2>5
<1> QED
  BY <1>3, <1>7 DEF FieldsInv

LEMMA FieldsStep == Shape /\ FieldsInv /\ PhantomInv /\ [Next]_skeletonVars => FieldsInv' /\ PhantomInv'
<1> SUFFICES ASSUME Shape, FieldsInv, PhantomInv, [Next]_skeletonVars
             PROVE  FieldsInv' /\ PhantomInv'
  OBVIOUS
<1>1. Shape' /\ Len(structs) \in Nat /\ filled \in 0 .. Len(structs) /\ left \in Nat /\ N \in Nat
  BY ShapeStep, NamedStructs DEF Shape, FillInv, StructsInv
<1>2. ASSUME filled' = 0 PROVE FieldsInv'
  <2>1. \A i \in 1 .. Len(structs') : DefinitionInv(i)'
    BY <1>1 DEF Shape, StructsInv
  <2>2. \A i \in 1 .. Len(structs') : structs'[i].fields = << >>
    BY <1>2, <2>1 DEF DefinitionInv
  <2>3. Range(<< >>) = {}
    BY DEF Range
  <2> QED
    BY <2>2, <2>3 DEF FieldsInv
<1>3. ASSUME UNCHANGED <<structs, bounds, types>> PROVE FieldsInv'
  <2>1. CASE ~AllGenerated
    <3>1. filled' = 0
      BY <1>1, <1>3, <2>1 DEF AllGenerated, Shape, FillInv
    <3> QED
      BY <1>2, <3>1
  <2>2. CASE AllGenerated
    <3>1. ASSUME NEW i \in 1 .. Len(structs), NEW f \in Range(structs[i].fields)
          PROVE  Sound(types[f], Range(structs[i].tps), structs[i].has \ {"key"})'
      <4>1. PICK u, own, needs : /\ u = types[f] /\ own = Range(structs[i].tps)
                                 /\ needs = structs[i].has \ {"key"}
        OBVIOUS
      <4>2. Sound(u, own, needs)
        BY <4>1 DEF FieldsInv
      <4>3. own \subseteq DOMAIN bounds
        <5>1. structs[i].tps \in Seq(DOMAIN bounds)
          BY DEF Shape, StructsInv, DefinitionInv
        <5> QED
          BY <4>1, <5>1, RangeInSeq
      <4>4. Sound(u, own, needs)'
        BY <1>3, <2>2, <4>2, <4>3, SoundKept
      <4> QED
        BY <1>3, <4>1, <4>4
    <3> QED
      BY <1>3, <3>1 DEF FieldsInv
  <2> QED
    BY <2>1, <2>2
<1>4. ASSUME NEW t, left > 0, AddField(t),
             Sound(t, Range(structs[filled].tps), structs[filled].has \ {"key"}),
             filled = N + 1 => t = Leaf(Num)
      PROVE  FieldsInv' /\ PhantomInv'
  <2>1. FieldsInv'
    BY <1>1, <1>4, FieldsAdd
  <2>2. phantom = {NotYet} /\ phantom' = phantom
    BY <1>4 DEF PhantomInv, AllFilled, AddField
  <2> QED
    BY <2>1, <2>2 DEF PhantomInv
<1>5. CASE GenerateStructSkeleton \/ GenerateAllAbilitiesStruct
  <2>1. /\ filled' = filled /\ phantom' = phantom /\ ~AllGenerated
    BY <1>1, <1>5 DEF GenerateStructSkeleton, GenerateAllAbilitiesStruct, AllGenerated, N
  <2>2. filled = 0
    BY <1>1, <2>1 DEF Shape, FillInv
  <2> QED
    BY <1>2, <2>1, <2>2 DEF PhantomInv, AllFilled
<1>6. CASE FillStruct
  <2>1. UNCHANGED <<structs, bounds, types>> /\ phantom' = phantom /\ filled < Len(structs)
    BY <1>6 DEF FillStruct
  <2> QED
    BY <1>1, <1>3, <2>1 DEF PhantomInv, AllFilled
<1>7. CASE AddBasicField
  <2>1. PICK id \in {Num} \cup ParametersInScope(GetScopeForChildren(pool, structs[filled].name)) :
          left > 0 /\ AddField(Leaf(id))
    BY <1>7 DEF AddBasicField
  <2> QED
    BY <1>4, <2>1, BasicFieldSound
<1>8. CASE AddStructField
  <2>1. PICK limit \in TypeDepths : \E t \in FieldTypes(structs[filled], limit) :
          left > 0 /\ AddField(t)
    BY <1>8 DEF AddStructField
  <2>2. PICK t \in FieldTypes(structs[filled], limit) : left > 0 /\ AddField(t)
    BY <2>1
  <2>3. Fallback
    BY <1>1, <2>2, FallbackThere DEF Shape, FillInv
  <2> QED
    BY <1>4, <2>2, <2>3, StructFieldSound
<1>9. CASE PostProcessStructs
  <2>1. /\ UNCHANGED <<pool, structs, bounds, types, filled, left>> /\ AllFilled
        /\ phantom' \subseteq DOMAIN bounds \ MentionedParameters
    BY <1>9 DEF PostProcessStructs
  <2>2. AllFilled' /\ DOMAIN bounds' \ MentionedParameters' = DOMAIN bounds \ MentionedParameters
    BY <2>1 DEF AllFilled, AllGenerated, MentionedParameters, Mentions
  <2> QED
    BY <1>3, <2>1, <2>2 DEF PhantomInv
<1>10. CASE UNCHANGED skeletonVars
  <2>1. UNCHANGED <<pool, structs, bounds, types, filled, left, phantom>>
    BY <1>10 DEF skeletonVars
  <2> QED
    BY <1>3, <2>1 DEF PhantomInv, AllFilled, AllGenerated, MentionedParameters, Mentions
<1> QED
  BY <1>5, <1>6, <1>7, <1>8, <1>9, <1>10 DEF Next, Finished

LEMMA FieldsHold == Spec => [](Shape /\ FieldsInv /\ PhantomInv)
<1>1. Init => Shape /\ FieldsInv /\ PhantomInv
  BY ShapeInit, FieldsInit
<1>2. Shape /\ FieldsInv /\ PhantomInv /\ [Next]_skeletonVars => (Shape /\ FieldsInv /\ PhantomInv)'
  BY ShapeStep, FieldsStep
<1> QED
  BY <1>1, <1>2, PTL DEF Spec

LEMMA TypesAreOK ==
  ASSUME Shape, FieldsInv
  PROVE  TypeOK
<1>1. CountersAhead(pool) /\ ScopesComplete(pool)
  BY DEF Shape, PoolInv, PoolOK
<1>2. ASSUME NEW i \in Issued(pool), NEW j \in Issued(pool), NameOf(i) = NameOf(j) PROVE i = j
  <2>1. /\ i \in Identifiers /\ j \in Identifiers
        /\ i[1] # "StructConcrete" /\ j[1] # "StructConcrete"
    BY DEF Shape, PoolInv, PoolOK, CountersAhead
  <2> QED
    BY <1>2, <2>1, NamesDiffer
<1>3. ASSUME NEW st \in Range(structs), NEW f \in Range(st.fields)
      PROVE  pool.scopes[f] = GetScopeForChildren(pool, st.name) /\ WellFormed(types[f], Range(st.tps))
  <2>1. PICK i \in 1 .. Len(structs) : st = structs[i]
    BY DEF Range, Shape, StructsInv
  <2>2. DefinitionInv(i)
    BY DEF Shape, StructsInv
  <2>3. pool.scopes[f] = StructScope(st.name) /\ GetScopeForChildren(pool, st.name) = StructScope(st.name)
    BY <2>1, <2>2, Scopes DEF DefinitionInv, Shape
  <2>4. WellFormed(types[f], Range(st.tps))
    BY <2>1 DEF FieldsInv, Sound
  <2> QED
    BY <2>3, <2>4
<1> QED
  BY <1>1, <1>2, <1>3 DEF TypeOK

(* Names are unique and their scopes complete, and the type of a field is  *)
(* well formed in its struct, for any number of structs, type parameters   *)
(* and fields.                                                             *)
THEOREM TypesWellFormed == Spec => []TypeOK
<1>1. Shape /\ FieldsInv /\ PhantomInv => TypeOK
  BY TypesAreOK
<1> QED
  BY <1>1, FieldsHold, PTL

LEMMA Legal ==
  ASSUME Shape, FieldsInv, PhantomInv
  PROVE  DeclarationsAreLegal
<1> SUFFICES ASSUME NEW st \in Range(structs), NEW f \in Range(st.fields)
             PROVE  /\ st.has \ {"key"} \subseteq AbilitiesOf(types[f])
                    /\ "key" \in st.has => "store" \in AbilitiesOf(types[f])
                    /\ MeetsBounds(types[f])
                    /\ UsedParameters(types[f]) \cap phantom = {}
  BY DEF DeclarationsAreLegal
<1>1. PICK i \in 1 .. Len(structs) : st = structs[i]
  BY DEF Range, Shape, StructsInv
<1>2. DefinitionInv(i) /\ f \in DOMAIN types
  <2>1. DefinitionInv(i)
    BY DEF Shape, StructsInv
  <2>2. st.fields \in Seq(DOMAIN types)
    BY <1>1, <2>1 DEF DefinitionInv
  <2> QED
    BY <2>1, <2>2, RangeInSeq
<1>3. /\ \A b \in types[f] : st.has \ {"key"} \subseteq DerivedAbilities(Last(b))
      /\ \A b \in types[f] : \A k \in 1 .. Len(b) - 1 :
           IsParameter(b[k]) => bounds[b[k]] \subseteq DerivedAbilities(Last(b))
  BY <1>1 DEF FieldsInv, Sound
<1>4. st.has \subseteq Abilities /\ "store" \in Abilities
  BY <1>1, <1>2 DEF DefinitionInv, Abilities
<1>5. st.has \ {"key"} \subseteq AbilitiesOf(types[f])
  BY <1>3, <1>4 DEF AbilitiesOf
<1>6. ASSUME "key" \in st.has PROVE "store" \in AbilitiesOf(types[f])
  <2>1. st.has = Abilities
    BY <1>1, <1>2, <1>6 DEF DefinitionInv
  <2> QED
    BY <1>5, <2>1 DEF Abilities
<1>7. MeetsBounds(types[f])
  BY <1>3 DEF MeetsBounds
<1>8. ASSUME NEW b \in types[f], IsParameter(Last(b)), Last(b) \in phantom PROVE FALSE
  <2>1. phantom # {NotYet}
    <3>1. NotYet[1] # "TypeParameter"
      BY DEF NotYet
    <3> QED
      BY <1>8, <3>1 DEF IsParameter
  <2>2. Last(b) \in DOMAIN bounds /\ Last(b) \notin MentionedParameters
    BY <1>8, <2>1 DEF PhantomInv
  <2>3. Last(b) \in Mentions(types[f])
    BY DEF Mentions
  <2>4. Last(b) \in UNION {Mentions(types[g]) : g \in DOMAIN types}
    BY <1>2, <2>3
  <2> QED
    BY <2>2, <2>4 DEF MentionedParameters
<1>9. UsedParameters(types[f]) \cap phantom = {}
  BY <1>8 DEF UsedParameters
<1> QED
  BY <1>5, <1>6, <1>7, <1>9

(* Every struct is declared as Move demands, whatever the abilities of its *)
(* type parameters and the types drawn for its fields: the code takes the  *)
(* abilities declared for those a type has, and they are.                  *)
THEOREM StructsAreLegal == Spec => []DeclarationsAreLegal
<1>1. Shape /\ FieldsInv /\ PhantomInv => DeclarationsAreLegal
  BY Legal
<1> QED
  BY <1>1, FieldsHold, PTL

(* What is drawn is a type.                                                *)
LEMMA NotStuck ==
  ASSUME NEW t, t \subseteq Branches
  PROVE  Stuck \notin Mentions(t)
<1>1. \A b \in t : Last(b) \in Tokens
  BY FrontAndLast DEF Branches
<1>2. Stuck \notin Tokens
  <2>1. "stuck" \notin Kinds
    BY DEF Kinds, KindName
  <2> QED
    BY <2>1 DEF Tokens, Identifiers, Num, Stuck
<1> QED
  BY <1>1, <1>2 DEF Mentions

(* The struct with all abilities is known in a function of the module.     *)
LEMMA InFunctionScope ==
  ASSUME Shape, AllGenerated
  PROVE  IsIdInScope(pool, AllAbilitiesStruct, FunctionScope)
<1> DEFINE S == Identifiers \cup Range(HardcodedAddress)
           f == <<"Function", 0>>
<1>1. ModuleScope \in Seq(S)
  BY Scopes DEF Shape, Known
<1>2. f \in S
  BY DEF Identifiers, Kinds, KindName
<1> HIDE DEF S, f
<1>3. /\ Len(ModuleScope) \in Nat /\ Len(FunctionScope) = Len(ModuleScope) + 1
      /\ SubSeq(FunctionScope, 1, Len(ModuleScope)) = ModuleScope
      /\ SubSeq(ModuleScope, 1, Len(ModuleScope)) = ModuleScope
  <2>1. FunctionScope = Append(ModuleScope, f)
    BY DEF FunctionScope, f
  <2>2. Len(Append(ModuleScope, f)) = Len(ModuleScope) + 1
        /\ SubSeq(Append(ModuleScope, f), 1, Len(ModuleScope)) = ModuleScope
    BY <1>1, <1>2, Appending
  <2>3. SubSeq(ModuleScope, 1, Len(ModuleScope)) = ModuleScope /\ Len(ModuleScope) \in Nat
    BY <1>1
  <2> QED
    BY <2>1, <2>2, <2>3
<1>4. IsPrefix(ModuleScope, FunctionScope)
  BY <1>3 DEF IsPrefix
<1> QED
  BY <1>4, TypesThere DEF IsIdInScope, IsInScope

LEMMA DrawsSucceed ==
  ASSUME Shape, FieldsInv
  PROVE  ConcretizationSucceeds
<1> DEFINE Succeeds(outcomes) == \A t \in outcomes : Stuck \notin Mentions(t)
<1> SUFFICES ASSUME AllGenerated, NEW limit \in TypeDepths
             PROVE  /\ left > 0 =>
                         \A u \in {v \in GetUsableStructType(structs[filled]) : v.tps # << >>} :
                           Succeeds(ConcreteStructs(u.name,
                             GetScopeForChildren(pool, structs[filled].name), structs[filled].has, limit))
                    /\ AllFilled => \A st \in Range(structs) : \A tp \in Range(st.tps) :
                         Succeeds(ConcreteTypes(tp, FunctionScope, {st.name}, limit))
                    /\ \A needs \in FunctionParameterAbilities : \A scope \in {FunctionScope, RootScope} :
                         ChoicesFor(scope, needs, {}, TRUE) # {}
  BY DEF ConcretizationSucceeds
<1>1. Fallback /\ limit \in Nat /\ IsIdInScope(pool, AllAbilitiesStruct, FunctionScope)
  BY FallbackThere, InFunctionScope, SkeletonsAssumption
<1>2. ASSUME NEW u \in Range(structs)
      PROVE  /\ u.name \in StructNames /\ ParametersOf(u.name) = Range(u.tps)
             /\ u.has \in SUBSET Abilities
             /\ u.tps # << >> => ~IsConcrete(u.name)
             /\ \A tp \in Range(u.tps) : tp \in DOMAIN bounds /\ u.name # AllAbilitiesStruct
  <2>1. PICK i \in 1 .. Len(structs) : u = structs[i]
    BY DEF Range, Shape, StructsInv
  <2>2. /\ u.name \in StructNames /\ DefinitionOf(u.name) = u /\ u.tps \in Seq(DOMAIN bounds)
        /\ u.has \in SUBSET Abilities
    BY <2>1, NamedStructs DEF Shape, StructsInv, DefinitionInv, Abilities
  <2>3. IsStruct(u.name) /\ u.name # Num /\ ParametersOf(u.name) = Range(u.tps)
    BY <2>2, TypesThere DEF ParametersOf
  <2>4. ASSUME u.tps # << >> PROVE Range(u.tps) # {}
    <3>1. Len(u.tps) >= 1 /\ DOMAIN u.tps = 1 .. Len(u.tps)
      BY <2>2, <2>4
    <3>2. u.tps[1] \in Range(u.tps)
      BY <3>1 DEF Range
    <3> QED
      BY <3>2
  <2>5. Range(u.tps) \subseteq DOMAIN bounds
    BY <2>2, RangeInSeq
  <2>6. u.name = AllAbilitiesStruct => Range(u.tps) = {}
    BY <2>3, TypesThere
  <2> QED
    BY <2>2, <2>3, <2>4, <2>5, <2>6 DEF IsConcrete
<1>3. ASSUME left > 0, NEW u \in GetUsableStructType(structs[filled]), u.tps # << >>,
             NEW t \in ConcreteStructs(u.name, GetScopeForChildren(pool, structs[filled].name),
                                       structs[filled].has, limit)
      PROVE  Stuck \notin Mentions(t)
  <2>1. /\ structs[filled].name \in StructNames /\ structs[filled] \in Range(structs)
        /\ GetScopeForChildren(pool, structs[filled].name) = StructScope(structs[filled].name)
    <3>1. /\ filled \in 1 .. Len(structs) /\ structs[filled].name \in StructNames
          /\ GetScopeForChildren(pool, structs[filled].name) = StructScope(structs[filled].name)
      BY <1>3, BeingFilled
    <3>2. DOMAIN structs = 1 .. Len(structs)
      BY DEF Shape, StructsInv
    <3> QED
      BY <3>1, <3>2 DEF Range
  <2>2. IsIdInScope(pool, AllAbilitiesStruct, StructScope(structs[filled].name))
    BY <2>1, InStructScope
  <2>3. u \in Range(structs) /\ structs[filled].has \in SUBSET Abilities /\ limit \in Int
    BY <1>1, <1>2, <2>1 DEF GetUsableStructType
  <2>4. u.name \in StructNames /\ ~IsConcrete(u.name)
    BY <1>2, <1>3, <2>3
  <2>5. t \subseteq Branches
    BY <1>1, <1>3, <2>1, <2>2, <2>3, <2>4, StructsDrawn
  <2> QED
    BY <2>5, NotStuck
<1>4. ASSUME NEW st \in Range(structs), NEW tp \in Range(st.tps),
             NEW t \in ConcreteTypes(tp, FunctionScope, {st.name}, limit)
      PROVE  Stuck \notin Mentions(t)
  <2> DEFINE q == Query(tp, {}, {st.name})
  <2>1. q \in Queries /\ AllAbilitiesStruct \notin q.parent
    BY <1>2 DEF Query, Queries
  <2>2. Nestable(limit) \in Nat
    BY <1>1 DEF Nestable
  <2>3. t \in ConcretizeTypeParameter(FunctionScope)[Nestable(limit)][q]
    BY DEF ConcreteTypes
  <2> HIDE DEF q
  <2>4. t \subseteq Branches
    BY <1>1, <2>1, <2>2, <2>3, AlwaysAnAnswer DEF Fine
  <2> QED
    BY <2>4, NotStuck
<1>5. ASSUME NEW needs \in FunctionParameterAbilities, NEW scope
      PROVE  Num \in ChoicesFor(scope, needs, {}, TRUE)
  <2>1. needs \subseteq DerivedAbilities(Num)
    BY TypesThere DEF DerivedAbilities, FunctionParameterAbilities, TypeParameterAbilities,
                      Abilities, Primitives
  <2>2. Num \notin Issued(pool)
    <3>1. "num" \notin Kinds
      BY DEF Kinds, KindName
    <3>2. Num \notin Identifiers
      BY <3>1 DEF Identifiers, Num
    <3> QED
      BY <3>2 DEF Shape, PoolInv, PoolOK, CountersAhead
  <2>3. Num \in AllTypes /\ ~IsParameter(Num)
    BY TypesThere
  <2> QED
    BY <2>1, <2>2, <2>3 DEF ChoicesFor, TypesWithAbilities, IsIdInScope, IsInstantiatable, IsConcrete
<1>6. \A needs \in FunctionParameterAbilities : \A scope \in {FunctionScope, RootScope} :
        ChoicesFor(scope, needs, {}, TRUE) # {}
  BY <1>5
<1> QED
  BY <1>3, <1>4, <1>6

(* "The assumption is that we can find a concrete type that satisfies the  *)
(* constraints of the type parameter": wherever type arguments are drawn,  *)
(* whatever the abilities asked for and however little depth is left, the  *)
(* struct that has all abilities is an answer.                             *)
THEOREM AlwaysConcretized == Spec => []ConcretizationSucceeds
<1>1. Shape /\ FieldsInv /\ PhantomInv => ConcretizationSucceeds
  BY DrawsSucceed
<1> QED
  BY <1>1, FieldsHold, PTL

-----------------------------------------------------------------------------
(***************************************************************************)
(* Substitution.                                                           *)
(***************************************************************************)

(* The branch a, with c for its last piece.                                *)
Put(a, c) == Front(a) \o c

LEMMA Substituted ==
  ASSUME NEW t, NEW args
  PROVE  \A b : b \in Substitute(t, args) <=>
           \/ b \in t /\ Last(b) \notin DOMAIN args
           \/ \E a \in t : Last(a) \in DOMAIN args /\ \E c \in args[Last(a)] : b = Put(a, c)
BY DEF Substitute, Put

LEMMA Ends ==
  ASSUME NEW S, NEW p \in Seq(S), NEW c \in Seq(S), c # << >>
  PROVE  /\ p \o c \in Seq(S) /\ p \o c # << >>
         /\ Last(p \o c) = Last(c) /\ Front(p \o c) = p \o Front(c)
<1> DEFINE d == p \o c
           e == p \o Front(c)
<1>1. Len(p) \in Nat
  OBVIOUS
<1>2. /\ Len(c) \in Nat /\ Len(c) >= 1 /\ Front(c) \in Seq(S) /\ Len(Front(c)) = Len(c) - 1
      /\ \A i \in 1 .. Len(c) - 1 : Front(c)[i] = c[i]
      /\ Last(c) = c[Len(c)]
  BY FrontAndLast
<1>3. /\ d \in Seq(S) /\ Len(d) = Len(p) + Len(c)
      /\ \A i \in 1 .. Len(p) + Len(c) : d[i] = IF i <= Len(p) THEN p[i] ELSE c[i - Len(p)]
  BY ConcatProperties
<1>4. /\ e \in Seq(S) /\ Len(e) = Len(p) + Len(Front(c))
      /\ \A i \in 1 .. Len(p) + Len(Front(c)) :
           e[i] = IF i <= Len(p) THEN p[i] ELSE Front(c)[i - Len(p)]
  BY <1>2, ConcatProperties
<1> HIDE DEF d, e
<1>5. d # << >>
  BY <1>1, <1>2, <1>3
<1>6. /\ Front(d) \in Seq(S) /\ Len(Front(d)) = Len(d) - 1
      /\ \A i \in 1 .. Len(d) - 1 : Front(d)[i] = d[i]
      /\ Last(d) = d[Len(d)]
  BY <1>3, <1>5, FrontAndLast
<1>7. Last(d) = Last(c)
  BY <1>1, <1>2, <1>3, <1>6
<1>8. \A i \in 1 .. Len(e) : Front(d)[i] = e[i]
  <2> TAKE i \in 1 .. Len(e)
  <2>1. i \in 1 .. Len(d) - 1 /\ i \in 1 .. Len(p) + Len(c) /\ i \in 1 .. Len(p) + Len(Front(c))
    BY <1>1, <1>2, <1>3, <1>4
  <2>2. CASE i <= Len(p)
    BY <1>3, <1>4, <1>6, <2>1, <2>2
  <2>3. CASE i > Len(p)
    <3>1. i - Len(p) \in 1 .. Len(c) - 1
      BY <1>1, <1>2, <2>1, <2>3
    <3> QED
      BY <1>1, <1>2, <1>3, <1>4, <1>6, <2>1, <2>3, <3>1
  <2> QED
    BY <1>1, <2>1, <2>2, <2>3
<1>9. Len(Front(d)) = Len(e)
  BY <1>1, <1>2, <1>3, <1>4, <1>6
<1>10. Front(d) = e
  BY <1>4, <1>6, <1>8, <1>9, SeqEqual
<1> QED
  BY <1>3, <1>5, <1>7, <1>10 DEF d, e

LEMMA Putting ==
  ASSUME NEW a \in Branches, NEW c \in Branches
  PROVE  /\ Put(a, c) \in Branches /\ Last(Put(a, c)) = Last(c)
         /\ \A d \in Branches : Put(Put(a, c), d) = Put(a, Put(c, d))
         /\ \A x, y \in Tokens : Put(Graft(x, y, a), c) = Graft(x, y, Put(a, c))
         /\ \A x \in Tokens : Put(<<x>>, c) = c
<1>1. /\ a \in Seq(Tokens) /\ a # << >> /\ c \in Seq(Tokens) /\ c # << >>
      /\ Front(a) \in Seq(Tokens) /\ Front(c) \in Seq(Tokens)
  BY FrontAndLast DEF Branches
<1>2. /\ Put(a, c) \in Seq(Tokens) /\ Put(a, c) # << >>
      /\ Last(Put(a, c)) = Last(c) /\ Front(Put(a, c)) = Front(a) \o Front(c)
  BY <1>1, Ends DEF Put
<1>3. ASSUME NEW d \in Branches PROVE Put(Put(a, c), d) = Put(a, Put(c, d))
  <2>1. d \in Seq(Tokens)
    BY DEF Branches
  <2>2. Put(Put(a, c), d) = (Front(a) \o Front(c)) \o d
    BY <1>2 DEF Put
  <2>3. Put(a, Put(c, d)) = Front(a) \o (Front(c) \o d)
    BY DEF Put
  <2>4. (Front(a) \o Front(c)) \o d = Front(a) \o (Front(c) \o d)
    <3>1. \A e, f, g \in Seq(Tokens) : (e \o f) \o g = e \o (f \o g)
      BY ConcatAssociative
    <3> QED
      BY <1>1, <2>1, <3>1
  <2> QED
    BY <2>2, <2>3, <2>4
<1>4. ASSUME NEW x \in Tokens, NEW y \in Tokens PROVE Put(Graft(x, y, a), c) = Graft(x, y, Put(a, c))
  <2> DEFINE p == <<x, y>>
  <2>1. p \in Seq(Tokens)
    OBVIOUS
  <2>2. Front(Graft(x, y, a)) = Graft(x, y, Front(a))
    BY <1>1, Grafting
  <2>3. \A b : Graft(x, y, b) = p \o b
    BY DEF Graft
  <2> HIDE DEF p
  <2>4. (p \o Front(a)) \o c = p \o (Front(a) \o c)
    BY <1>1, <2>1, ConcatAssociative
  <2> QED
    BY <2>2, <2>3, <2>4 DEF Put
<1>5. ASSUME NEW x \in Tokens PROVE Put(<<x>>, c) = c
  <2>1. Front(<<x>>) = << >>
    BY DEF Front
  <2>2. << >> \o c = c
    BY <1>1, ConcatEmptySeq
  <2> QED
    BY <2>1, <2>2 DEF Put
<1> QED
  BY <1>2, <1>3, <1>4, <1>5 DEF Branches

LEMMA TreeBranches ==
  /\ \A t \in TreeSet : t \subseteq Branches
  /\ \A b \in Branches : Last(b) \in Tokens /\ Len(b) \in Nat /\ Len(b) >= 1
BY FrontAndLast DEF TreeSet, Branches

LEMMA Members ==
  ASSUME NEW name, NEW args
  PROVE  \A b : b \in Concrete(name, args) <=>
           b = <<name>> \/ \E tp \in DOMAIN args : \E c \in args[tp] : b = Graft(name, tp, c)
<1> DEFINE Part(tp) == {Graft(name, tp, c) : c \in args[tp]}
<1>1. Concrete(name, args) = Leaf(name) \cup UNION {Part(tp) : tp \in DOMAIN args}
  BY DEF Concrete, Graft
<1>2. \A tp, b : b \in Part(tp) <=> \E c \in args[tp] : b = Graft(name, tp, c)
  OBVIOUS
<1> HIDE DEF Part
<1>3. \A b : b \in UNION {Part(tp) : tp \in DOMAIN args} <=> \E tp \in DOMAIN args : b \in Part(tp)
  OBVIOUS
<1>4. \A b : b \in Leaf(name) <=> b = <<name>>
  BY DEF Leaf
<1> QED
  BY <1>1, <1>2, <1>3, <1>4

(* In a type without type arguments.                                       *)
LEMMA LeafReplaced ==
  ASSUME NEW id \in Tokens, NEW args
  PROVE  /\ id \notin DOMAIN args => Substitute(Leaf(id), args) = Leaf(id)
         /\ id \in DOMAIN args /\ args[id] \subseteq Branches => Substitute(Leaf(id), args) = args[id]
         /\ HeadOf(Leaf(id)) = id
<1>1. /\ <<id>> \in Branches /\ Last(<<id>>) = id /\ Leaf(id) = {<<id>>}
  BY DEF Last, Branches, Leaf
<1>2. ASSUME id \notin DOMAIN args PROVE Substitute(Leaf(id), args) = Leaf(id)
  <2>1. \A b : b \in Substitute(Leaf(id), args) <=> b = <<id>>
    BY <1>1, <1>2, Substituted
  <2> QED
    BY <1>1, <2>1
<1>3. ASSUME id \in DOMAIN args, args[id] \subseteq Branches
      PROVE  Substitute(Leaf(id), args) = args[id]
  <2>1. \A b : b \in Substitute(Leaf(id), args) <=> \E c \in args[id] : b = Put(<<id>>, c)
    BY <1>1, <1>3, Substituted
  <2>2. \A c \in args[id] : Put(<<id>>, c) = c
    BY <1>1, <1>3, Putting
  <2> QED
    BY <2>1, <2>2
<1>4. HeadOf(Leaf(id)) = id
  BY <1>1, Leaves DEF HeadOf
<1> QED
  BY <1>2, <1>3, <1>4

(* In a struct with type arguments.                                        *)
LEMMA StructReplaced ==
  ASSUME NEW name \in Tokens, NEW own \in SUBSET Tokens, NEW inner \in [own -> SUBSET Branches],
         NEW args, name \notin DOMAIN args, \A p \in DOMAIN args : args[p] \subseteq Branches
  PROVE  Substitute(Concrete(name, inner), args) =
           Concrete(name, [tp \in own |-> Substitute(inner[tp], args)])
<1> DEFINE t == Concrete(name, inner)
           outer == [tp \in own |-> Substitute(inner[tp], args)]
           u == Concrete(name, outer)
<1>1. \A b : b \in t <=> b = <<name>> \/ \E tp \in own : \E c \in inner[tp] : b = Graft(name, tp, c)
  BY Members
<1>2. \A b : b \in u <=> b = <<name>> \/ \E tp \in own : \E c \in Substitute(inner[tp], args) :
                                           b = Graft(name, tp, c)
  <2>1. DOMAIN outer = own /\ \A tp \in own : outer[tp] = Substitute(inner[tp], args)
    OBVIOUS
  <2> HIDE DEF outer
  <2> QED
    BY <2>1, Members
<1>3. Last(<<name>>) = name
  BY DEF Last
<1>4. \A tp \in own : \A c \in inner[tp] : c \in Branches /\ Last(Graft(name, tp, c)) = Last(c)
  <2> SUFFICES ASSUME NEW tp \in own, NEW c \in inner[tp]
               PROVE  c \in Branches /\ Last(Graft(name, tp, c)) = Last(c)
    OBVIOUS
  <2>1. c \in Branches
    OBVIOUS
  <2>2. c \in Seq(Tokens) /\ c # << >> /\ tp \in Tokens
    BY <2>1 DEF Branches
  <2> QED
    BY <2>1, <2>2, Grafting
<1>5. \A tp \in own : \A c \in inner[tp] : Last(c) \in DOMAIN args =>
        \A d \in args[Last(c)] : Put(Graft(name, tp, c), d) = Graft(name, tp, Put(c, d))
  <2> SUFFICES ASSUME NEW tp \in own, NEW c \in inner[tp], Last(c) \in DOMAIN args,
                      NEW d \in args[Last(c)]
               PROVE  Put(Graft(name, tp, c), d) = Graft(name, tp, Put(c, d))
    OBVIOUS
  <2>1. c \in Branches /\ d \in Branches /\ tp \in Tokens
    BY <1>4
  <2> QED
    BY <2>1, Putting
<1> HIDE DEF t, u
<1>6. ASSUME NEW b \in Substitute(t, args) PROVE b \in u
  <2>1. CASE b \in t /\ Last(b) \notin DOMAIN args
    <3>1. CASE b = <<name>>
      BY <1>2, <3>1
    <3>2. CASE b # <<name>>
      <4>1. PICK tp \in own : \E e \in inner[tp] : b = Graft(name, tp, e)
        BY <1>1, <2>1, <3>2
      <4>0. PICK c \in inner[tp] : b = Graft(name, tp, c)
        BY <4>1
      <4>2. c \in Substitute(inner[tp], args)
        BY <1>4, <2>1, <4>0, Substituted
      <4> QED
        BY <1>2, <4>0, <4>2
    <3> QED
      BY <3>1, <3>2
  <2>2. CASE \E a \in t : Last(a) \in DOMAIN args /\ \E d \in args[Last(a)] : b = Put(a, d)
    <3>1. PICK a \in t : Last(a) \in DOMAIN args /\ \E d \in args[Last(a)] : b = Put(a, d)
      BY <2>2
    <3>2. PICK d \in args[Last(a)] : b = Put(a, d)
      BY <3>1
    <3>3. a # <<name>>
      BY <1>3, <3>1
    <3>4. PICK tp \in own : \E e \in inner[tp] : a = Graft(name, tp, e)
      BY <1>1, <3>1, <3>3
    <3>7. PICK c \in inner[tp] : a = Graft(name, tp, c)
      BY <3>4
    <3>5. Last(a) = Last(c) /\ b = Graft(name, tp, Put(c, d))
      BY <1>4, <1>5, <3>1, <3>2, <3>7
    <3>6. Put(c, d) \in Substitute(inner[tp], args)
      BY <3>1, <3>2, <3>7, <3>5, Substituted
    <3> QED
      BY <1>2, <3>5, <3>6
  <2> QED
    BY <2>1, <2>2, Substituted
<1>7. ASSUME NEW b \in u PROVE b \in Substitute(t, args)
  <2>1. CASE b = <<name>>
    BY <1>1, <1>3, <2>1, Substituted
  <2>2. CASE b # <<name>>
    <3>0. PICK tp \in own : \E f \in Substitute(inner[tp], args) : b = Graft(name, tp, f)
      BY <1>2, <2>2
    <3>1. PICK e \in Substitute(inner[tp], args) : b = Graft(name, tp, e)
      BY <3>0
    <3>2. CASE e \in inner[tp] /\ Last(e) \notin DOMAIN args
      BY <1>1, <1>4, <3>1, <3>2, Substituted
    <3>3. CASE \E c \in inner[tp] : Last(c) \in DOMAIN args /\ \E d \in args[Last(c)] : e = Put(c, d)
      <4>1. PICK c \in inner[tp] : Last(c) \in DOMAIN args /\ \E d \in args[Last(c)] : e = Put(c, d)
        BY <3>3
      <4>2. PICK d \in args[Last(c)] : e = Put(c, d)
        BY <4>1
      <4>3. b = Put(Graft(name, tp, c), d) /\ Last(Graft(name, tp, c)) = Last(c) /\ Graft(name, tp, c) \in t
        BY <1>1, <1>4, <1>5, <3>1, <4>1, <4>2
      <4> QED
        BY <4>1, <4>2, <4>3, Substituted
    <3> QED
      BY <3>1, <3>2, <3>3, Substituted
  <2> QED
    BY <2>1, <2>2
<1> QED
  BY <1>6, <1>7 DEF t, u

(* Replacing twice is replacing once, by what was replaced, if the first   *)
(* leaves none of the parameters of the second.                            *)
LEMMA ReplacedTwice ==
  ASSUME NEW t \in SUBSET Branches, NEW args, NEW args2,
         \A p \in DOMAIN args : args[p] \subseteq Branches,
         \A p \in DOMAIN args2 : args2[p] \subseteq Branches,
         \A b \in t : Last(b) \in DOMAIN args2 => Last(b) \in DOMAIN args
  PROVE  Substitute(Substitute(t, args), args2) =
           Substitute(t, [p \in DOMAIN args |-> Substitute(args[p], args2)])
<1> DEFINE u == Substitute(t, args)
           both == [p \in DOMAIN args |-> Substitute(args[p], args2)]
<1>1. DOMAIN both = DOMAIN args /\ \A p \in DOMAIN args : both[p] = Substitute(args[p], args2)
  OBVIOUS
<1>2. \A b : b \in u <=> \/ b \in t /\ Last(b) \notin DOMAIN args
                         \/ \E a \in t : Last(a) \in DOMAIN args /\ \E c \in args[Last(a)] : b = Put(a, c)
  BY Substituted
<1> HIDE DEF u, both
<1>3. \A a, c \in Branches : Last(Put(a, c)) = Last(c) /\ \A d \in Branches : Put(Put(a, c), d) = Put(a, Put(c, d))
  BY Putting
<1>4. ASSUME NEW b \in Substitute(u, args2) PROVE b \in Substitute(t, both)
  <2>1. CASE b \in u /\ Last(b) \notin DOMAIN args2
    <3>1. CASE b \in t /\ Last(b) \notin DOMAIN args
      BY <1>1, <3>1, Substituted
    <3>2. CASE \E a \in t : Last(a) \in DOMAIN args /\ \E c \in args[Last(a)] : b = Put(a, c)
      <4>1. PICK a \in t : Last(a) \in DOMAIN args /\ \E c \in args[Last(a)] : b = Put(a, c)
        BY <3>2
      <4>2. PICK c \in args[Last(a)] : b = Put(a, c)
        BY <4>1
      <4>3. Last(b) = Last(c)
        BY <1>3, <4>1, <4>2
      <4>4. c \in both[Last(a)]
        BY <1>1, <2>1, <4>1, <4>3, Substituted
      <4> QED
        BY <1>1, <4>1, <4>2, <4>4, Substituted
    <3> QED
      BY <1>2, <2>1, <3>1, <3>2
  <2>2. CASE \E d \in u : Last(d) \in DOMAIN args2 /\ \E e \in args2[Last(d)] : b = Put(d, e)
    <3>1. PICK d \in u : Last(d) \in DOMAIN args2 /\ \E e \in args2[Last(d)] : b = Put(d, e)
      BY <2>2
    <3>2. PICK e \in args2[Last(d)] : b = Put(d, e)
      BY <3>1
    <3>3. PICK a \in t : Last(a) \in DOMAIN args /\ \E c \in args[Last(a)] : d = Put(a, c)
      BY <1>2, <3>1
    <3>4. PICK c \in args[Last(a)] : d = Put(a, c)
      BY <3>3
    <3>5. a \in Branches /\ c \in Branches /\ e \in Branches
      BY <3>1, <3>2, <3>3, <3>4
    <3>6. Last(d) = Last(c) /\ b = Put(a, Put(c, e))
      BY <1>3, <3>2, <3>4, <3>5
    <3>7. Put(c, e) \in both[Last(a)]
      BY <1>1, <3>1, <3>2, <3>3, <3>4, <3>6, Substituted
    <3> QED
      BY <1>1, <3>3, <3>6, <3>7, Substituted
  <2> QED
    BY <2>1, <2>2, Substituted
<1>5. ASSUME NEW b \in Substitute(t, both) PROVE b \in Substitute(u, args2)
  <2>1. CASE b \in t /\ Last(b) \notin DOMAIN both
    BY <1>1, <1>2, <2>1, Substituted
  <2>2. CASE \E a \in t : Last(a) \in DOMAIN both /\ \E x \in both[Last(a)] : b = Put(a, x)
    <3>1. PICK a \in t : Last(a) \in DOMAIN args /\ \E x \in both[Last(a)] : b = Put(a, x)
      BY <1>1, <2>2
    <3>2. PICK x \in Substitute(args[Last(a)], args2) : b = Put(a, x)
      BY <1>1, <3>1
    <3>3. CASE x \in args[Last(a)] /\ Last(x) \notin DOMAIN args2
      <4>1. a \in Branches /\ x \in Branches
        BY <3>1, <3>3
      <4>2. Last(b) = Last(x)
        BY <1>3, <3>2, <4>1
      <4>3. b \in u
        BY <1>2, <3>1, <3>2, <3>3
      <4> QED
        BY <3>3, <4>2, <4>3, Substituted
    <3>4. CASE \E c \in args[Last(a)] : Last(c) \in DOMAIN args2 /\ \E e \in args2[Last(c)] : x = Put(c, e)
      <4>1. PICK c \in args[Last(a)] : Last(c) \in DOMAIN args2 /\ \E e \in args2[Last(c)] : x = Put(c, e)
        BY <3>4
      <4>2. PICK e \in args2[Last(c)] : x = Put(c, e)
        BY <4>1
      <4>3. a \in Branches /\ c \in Branches /\ e \in Branches
        BY <3>1, <4>1, <4>2
      <4>4. Put(a, c) \in u
        BY <1>2, <3>1, <4>1
      <4>5. b = Put(Put(a, c), e) /\ Last(Put(a, c)) = Last(c)
        BY <1>3, <3>2, <4>2, <4>3
      <4> QED
        BY <4>1, <4>2, <4>4, <4>5, Substituted
    <3> QED
      BY <3>2, <3>3, <3>4, Substituted
  <2> QED
    BY <2>1, <2>2, Substituted
<1> QED
  BY <1>4, <1>5 DEF u, both

(* The head and the type arguments of a struct.                            *)
LEMMA TakenApart ==
  ASSUME NEW name \in Tokens, ParametersOf(name) \subseteq Tokens,
         NEW inner \in [ParametersOf(name) -> SUBSET Branches]
  PROVE  /\ HeadOf(Concrete(name, inner)) = name
         /\ TypeArgs(Concrete(name, inner)) = inner
<1> DEFINE t == Concrete(name, inner)
           own == ParametersOf(name)
<1>1. \A b : b \in t <=> b = <<name>> \/ \E tp \in own : \E c \in inner[tp] : b = Graft(name, tp, c)
  BY Members
<1>2. ASSUME NEW tp \in own, NEW c \in inner[tp]
      PROVE  LET b == Graft(name, tp, c)
             IN  /\ c \in Branches /\ Len(c) \in Nat /\ Len(c) >= 1 /\ Len(b) = Len(c) + 2
                 /\ b[2] = tp /\ SubSeq(b, 3, Len(b)) = c
  <2>1. c \in Branches /\ tp \in Tokens
    OBVIOUS
  <2>2. c \in Seq(Tokens) /\ Len(c) \in Nat /\ Len(c) >= 1
    BY <2>1, TreeBranches DEF Branches
  <2> QED
    BY <2>1, <2>2, Grafting
<1>3. Len(<<name>>) = 1 /\ Last(<<name>>) = name
  BY DEF Last
<1> HIDE DEF t
<1>4. HeadOf(t) = name
  <2>1. <<name>> \in t /\ name \in Mentions(t)
    BY <1>1, <1>3 DEF Mentions
  <2>2. ASSUME NEW id, <<id>> \in t PROVE id = name
    <3>1. Len(<<id>>) = 1
      OBVIOUS
    <3>2. <<id>> = <<name>>
      BY <1>1, <1>2, <2>2, <3>1
    <3> QED
      BY <3>2
  <2> QED
    BY <2>1, <2>2 DEF HeadOf
<1>5. ASSUME NEW tp \in own
      PROVE  {SubSeq(b, 3, Len(b)) : b \in {a \in t : Len(a) > 1 /\ a[2] = tp}} = inner[tp]
  <2> DEFINE part == {SubSeq(b, 3, Len(b)) : b \in {a \in t : Len(a) > 1 /\ a[2] = tp}}
  <2>1. ASSUME NEW b \in t, Len(b) > 1, b[2] = tp PROVE SubSeq(b, 3, Len(b)) \in inner[tp]
    <3>1. PICK tp2 \in own : \E c \in inner[tp2] : b = Graft(name, tp2, c)
      BY <1>1, <1>3, <2>1
    <3>2. PICK c \in inner[tp2] : b = Graft(name, tp2, c)
      BY <3>1
    <3> QED
      BY <1>2, <2>1, <3>2
  <2>2. ASSUME NEW c \in inner[tp] PROVE c \in part
    <3>1. PICK b : b = Graft(name, tp, c)
      OBVIOUS
    <3>2. b \in t /\ Len(b) > 1 /\ b[2] = tp /\ SubSeq(b, 3, Len(b)) = c
      BY <1>1, <1>2, <3>1
    <3> QED
      BY <3>2
  <2> QED
    BY <2>1, <2>2
<1>6. TypeArgs(t) = [tp \in own |-> inner[tp]]
  BY <1>4, <1>5 DEF TypeArgs
<1>7. inner = [tp \in own |-> inner[tp]]
  OBVIOUS
<1> QED
  BY <1>4, <1>6, <1>7 DEF t

(* A tree with trees for some of its parameters is a tree, with the same   *)
(* head, unless that is the parameter.                                     *)
LEMMA TreeReplaced ==
  ASSUME Shape, AllGenerated,
         NEW args, DOMAIN args \subseteq DOMAIN bounds, \A p \in DOMAIN args : args[p] \in TreeSet,
         NEW t \in TreeSet
  PROVE  /\ Substitute(t, args) \in TreeSet
         /\ HeadOf(t) \notin DOMAIN args => HeadOf(Substitute(t, args)) = HeadOf(t)
         /\ HeadOf(t) \in DOMAIN args => Substitute(t, args) = args[HeadOf(t)]
<1> DEFINE parts == TreeSet \cup {Substitute(u, args) : u \in TreeSet}
<1>1. /\ StructNames \subseteq Tokens /\ DOMAIN bounds \subseteq Tokens /\ Nodes \subseteq Tokens
      /\ \A n \in StructNames : n \notin DOMAIN bounds /\ ParametersOf(n) \subseteq DOMAIN bounds
      /\ \A p \in DOMAIN args : args[p] \subseteq Branches
  BY TypesThere, TreeBranches DEF Nodes, Tokens
<1>2. ASSUME NEW name \in StructNames, NEW inner \in [ParametersOf(name) -> TreeSet]
      PROVE  /\ inner \in [ParametersOf(name) -> SUBSET Branches]
             /\ HeadOf(Concrete(name, inner)) = name /\ name \notin DOMAIN args
             /\ Substitute(Concrete(name, inner), args) =
                  Concrete(name, [tp \in ParametersOf(name) |-> Substitute(inner[tp], args)])
  <2>1. inner \in [ParametersOf(name) -> SUBSET Branches]
    BY TreeBranches
  <2>2. name \in Tokens /\ ParametersOf(name) \subseteq Tokens /\ name \notin DOMAIN args
    BY <1>1
  <2>3. HeadOf(Concrete(name, inner)) = name
    BY <2>1, <2>2, TakenApart
  <2>4. Substitute(Concrete(name, inner), args) =
          Concrete(name, [tp \in ParametersOf(name) |-> Substitute(inner[tp], args)])
    BY <1>1, <2>1, <2>2, StructReplaced
  <2> QED
    BY <2>1, <2>2, <2>3, <2>4
<1>3. ASSUME NEW u \in TreeSet, NEW id \in Nodes, u = Leaf(id)
      PROVE  /\ HeadOf(u) = id
             /\ id \notin DOMAIN args => Substitute(u, args) = u
             /\ id \in DOMAIN args => Substitute(u, args) = args[id]
  BY <1>1, <1>3, LeafReplaced
<1>4. \A u \in TreeSet : Substitute(u, args) \subseteq Branches
  <2> SUFFICES ASSUME NEW u \in TreeSet, NEW b \in Substitute(u, args) PROVE b \in Branches
    OBVIOUS
  <2>1. u \subseteq Branches
    BY TreeBranches
  <2>2. CASE b \in u
    BY <2>1, <2>2
  <2>3. CASE \E a \in u : Last(a) \in DOMAIN args /\ \E c \in args[Last(a)] : b = Put(a, c)
    <3>1. PICK a \in u : Last(a) \in DOMAIN args /\ \E c \in args[Last(a)] : b = Put(a, c)
      BY <2>3
    <3>2. PICK c \in args[Last(a)] : b = Put(a, c)
      BY <3>1
    <3>3. a \in Branches /\ c \in Branches
      BY <1>1, <2>1, <3>1
    <3> QED
      BY <3>2, <3>3, Putting
  <2> QED
    BY <2>2, <2>3, Substituted
<1>5. ASSUME NEW u \in TreeSet PROVE Built(u, parts)
  <2>1. Built(u, TreeSet)
    BY Building
  <2>2. CASE \E id \in Nodes : ParametersOf(id) = {} /\ u = Leaf(id)
    BY <2>2 DEF Built
  <2>3. CASE \E name \in StructNames : \E inner \in [ParametersOf(name) -> TreeSet] : u = Concrete(name, inner)
    <3>1. PICK name \in StructNames : \E inner \in [ParametersOf(name) -> TreeSet] : u = Concrete(name, inner)
      BY <2>3
    <3>2. [ParametersOf(name) -> TreeSet] \subseteq [ParametersOf(name) -> parts]
      OBVIOUS
    <3> HIDE DEF parts
    <3> QED
      BY <3>1, <3>2 DEF Built
  <2> QED
    BY <2>1, <2>2, <2>3 DEF Built
<1>6. ASSUME NEW u \in TreeSet PROVE Built(Substitute(u, args), parts)
  <2>1. Built(u, TreeSet)
    BY Building
  <2>2. CASE \E id \in Nodes : ParametersOf(id) = {} /\ u = Leaf(id)
    <3>1. PICK id \in Nodes : ParametersOf(id) = {} /\ u = Leaf(id)
      BY <2>2
    <3>2. Substitute(u, args) \in TreeSet
      BY <1>3, <3>1
    <3> HIDE DEF parts
    <3> QED
      BY <1>5, <3>2
  <2>3. CASE \E name \in StructNames : \E inner \in [ParametersOf(name) -> TreeSet] : u = Concrete(name, inner)
    <3>1. PICK name \in StructNames : \E inner \in [ParametersOf(name) -> TreeSet] : u = Concrete(name, inner)
      BY <2>3
    <3>2. PICK inner \in [ParametersOf(name) -> TreeSet] : u = Concrete(name, inner)
      BY <3>1
    <3>3. [tp \in ParametersOf(name) |-> Substitute(inner[tp], args)] \in [ParametersOf(name) -> parts]
      OBVIOUS
    <3> HIDE DEF parts
    <3> QED
      BY <1>2, <3>2, <3>3 DEF Built
  <2> QED
    BY <2>1, <2>2, <2>3 DEF Built
<1>7. parts \in SUBSET SUBSET Branches /\ \A u \in parts : Built(u, parts)
  <2>1. parts \subseteq SUBSET Branches
    BY <1>4, TreeBranches
  <2>2. \A u \in parts : u \in TreeSet \/ \E w \in TreeSet : u = Substitute(w, args)
    OBVIOUS
  <2> HIDE DEF parts
  <2> QED
    BY <1>5, <1>6, <2>1, <2>2
<1>8. Substitute(t, args) \in TreeSet
  <2>1. Substitute(t, args) \in parts
    OBVIOUS
  <2> HIDE DEF parts
  <2> QED
    BY <1>7, <2>1 DEF TreeSet
<1>9. /\ HeadOf(t) \notin DOMAIN args => HeadOf(Substitute(t, args)) = HeadOf(t)
      /\ HeadOf(t) \in DOMAIN args => Substitute(t, args) = args[HeadOf(t)]
  <2>1. Built(t, TreeSet)
    BY Building
  <2>2. CASE \E id \in Nodes : ParametersOf(id) = {} /\ t = Leaf(id)
    BY <1>3, <2>2
  <2>3. CASE \E name \in StructNames : \E inner \in [ParametersOf(name) -> TreeSet] : t = Concrete(name, inner)
    <3>1. PICK name \in StructNames : \E inner \in [ParametersOf(name) -> TreeSet] : t = Concrete(name, inner)
      BY <2>3
    <3>2. PICK inner \in [ParametersOf(name) -> TreeSet] : t = Concrete(name, inner)
      BY <3>1
    <3> DEFINE outer == [tp \in ParametersOf(name) |-> Substitute(inner[tp], args)]
    <3>3. outer \in [ParametersOf(name) -> SUBSET Branches]
      BY <1>4
    <3> HIDE DEF outer
    <3>4. HeadOf(Concrete(name, outer)) = name
      BY <1>1, <3>3, TakenApart
    <3>5. Substitute(t, args) = Concrete(name, outer) /\ HeadOf(t) = name /\ name \notin DOMAIN args
      BY <1>2, <3>2 DEF outer
    <3> QED
      BY <3>4, <3>5
  <2> QED
    BY <2>1, <2>2, <2>3 DEF Built
<1> QED
  BY <1>8, <1>9

LEMMA MentionsReplaced ==
  ASSUME NEW t \in SUBSET Branches, NEW args, \A p \in DOMAIN args : args[p] \subseteq Branches
  PROVE  \A id \in Mentions(Substitute(t, args)) :
           id \in Mentions(t) \/ \E p \in DOMAIN args : id \in Mentions(args[p])
<1> SUFFICES ASSUME NEW b \in Substitute(t, args)
             PROVE  Last(b) \in Mentions(t) \/ \E p \in DOMAIN args : Last(b) \in Mentions(args[p])
  BY DEF Mentions
<1>1. CASE b \in t
  BY <1>1 DEF Mentions
<1>2. CASE \E a \in t : Last(a) \in DOMAIN args /\ \E c \in args[Last(a)] : b = Put(a, c)
  <2>1. PICK a \in t : Last(a) \in DOMAIN args /\ \E c \in args[Last(a)] : b = Put(a, c)
    BY <1>2
  <2>2. PICK c \in args[Last(a)] : b = Put(a, c)
    BY <2>1
  <2>3. Last(b) = Last(c)
    BY <2>1, <2>2, Putting
  <2> QED
    BY <2>1, <2>3 DEF Mentions
<1> QED
  BY <1>1, <1>2, Substituted

(* Where no parameter is deeper than a direct argument, a field is packed  *)
(* for its type with all of them replaced.                                 *)
LEMMA PackedAs ==
  ASSUME NEW t \in SUBSET Branches, NEW args,
         \A b \in t : Len(b) > 3 => Last(b) \notin DOMAIN args
  PROVE  FieldType(t, args) = Substitute(t, args)
<1> DEFINE top == {b \in t : Len(b) <= 3}
<1>1. \A b \in t : b \in top \/ (Len(b) > 3 /\ Last(b) \notin DOMAIN args)
  BY TreeBranches
<1>2. \A b : b \in Substitute(top, args) <=>
         \/ b \in top /\ Last(b) \notin DOMAIN args
         \/ \E a \in top : Last(a) \in DOMAIN args /\ \E c \in args[Last(a)] : b = Put(a, c)
  <2> HIDE DEF top
  <2> QED
    BY Substituted
<1>3. top \subseteq t /\ FieldType(t, args) = {b \in t : Len(b) > 3} \cup Substitute(top, args)
  BY DEF FieldType
<1> HIDE DEF top
<1>4. \A b : b \in FieldType(t, args) <=> b \in Substitute(t, args)
  <2>1. \A b : b \in FieldType(t, args) <=> (b \in t /\ Len(b) > 3) \/ b \in Substitute(top, args)
    BY <1>3
  <2>2. \A b : b \in Substitute(t, args) <=>
         \/ b \in t /\ Last(b) \notin DOMAIN args
         \/ \E a \in t : Last(a) \in DOMAIN args /\ \E c \in args[Last(a)] : b = Put(a, c)
    BY Substituted
  <2> QED
    BY <1>1, <1>2, <1>3, <2>1, <2>2
<1> QED
  BY <1>4

-----------------------------------------------------------------------------
(***************************************************************************)
(* Packing.                                                                *)
(***************************************************************************)

(* What holds of the values packing starts with and is passed on to their  *)
(* fields holds of all values.                                             *)
LEMMA ValuesReached ==
  ASSUME NEW start, NEW registered, NEW good, start \subseteq good,
         \A v \in good : FieldValues(v, registered) \subseteq good
  PROVE  \A n \in Nat : Values(start, registered)[n] \subseteq good
<1> DEFINE Deeper(vs) == vs \cup UNION {FieldValues(v, registered) : v \in vs}
           Level(m, below) == IF m = 0 THEN start ELSE Deeper(below)
           rec(f) == [m \in Nat |-> IF m = 0 THEN start ELSE Deeper(f[m - 1])]
           h == CHOOSE f : f = rec(f)
           Levels(m, g) == \A k \in 0 .. m : g[k] = Level(k, g[k - 1])
<1>1. Values(start, registered) = h
  BY DEF Values
<1>2. /\ \A m, below : m = 0 => Level(m, below) = start
      /\ \A m, below : m # 0 => Level(m, below) = Deeper(below)
  OBVIOUS
<1>3. \A vs : vs \subseteq good => Deeper(vs) \subseteq good
  OBVIOUS
<1> HIDE DEF Deeper
<1>4. ASSUME NEW m \in Nat PROVE \E g : Levels(m, g)
  <2> DEFINE missing == {k \in Nat : \A g : ~Levels(k, g)}
  <2> SUFFICES ASSUME missing # {} PROVE FALSE
    OBVIOUS
  <2>1. PICK k \in missing : \A j \in missing : ~(j < k)
    <3>1. missing \subseteq Nat
      OBVIOUS
    <3> HIDE DEF missing
    <3> QED
      BY <3>1, Smallest
  <2>2. CASE k = 0
    <3> DEFINE g == [j \in {0} |-> start]
    <3>1. Levels(0, g)
      OBVIOUS
    <3> QED
      BY <2>1, <2>2, <3>1
  <2>3. CASE k # 0
    <3>0. k - 1 \in Nat /\ k - 1 \notin missing
      <4>1. k \in Nat /\ k - 1 \in Nat /\ k - 1 < k
        BY <2>1, <2>3
      <4> HIDE DEF missing
      <4> QED
        BY <2>1, <4>1
    <3>1. PICK g : Levels(k - 1, g)
      <4> HIDE DEF Levels
      <4> QED
        BY <3>0
    <3> DEFINE next == [j \in 0 .. k |-> IF j = k THEN Deeper(g[k - 1]) ELSE g[j]]
    <3>2. \A j \in 0 .. k : next[j] = Level(j, next[j - 1])
      <4> TAKE j \in 0 .. k
      <4>1. CASE j = k
        BY <2>1, <2>3, <4>1
      <4>2. CASE j # k
        BY <2>1, <2>3, <3>1, <4>2
      <4> QED
        BY <4>1, <4>2
    <3> QED
      BY <2>1, <3>2
  <2> QED
    BY <2>2, <2>3
<1>5. ASSUME NEW m \in Nat, NEW l \in Nat, NEW g, NEW g2, Levels(m, g), Levels(l, g2),
             NEW k \in 0 .. m, k <= l
      PROVE  g[k] = g2[k]
  <2> DEFINE differ == {j \in 0 .. k : g[j] # g2[j]}
  <2> SUFFICES ASSUME differ # {} PROVE FALSE
    OBVIOUS
  <2>1. PICK j \in differ : \A i \in differ : ~(i < j)
    <3>1. differ \subseteq Nat
      OBVIOUS
    <3> HIDE DEF differ
    <3> QED
      BY <3>1, Smallest
  <2>2. j \in 0 .. m /\ j \in 0 .. l /\ j # 0 => j - 1 \in 0 .. k /\ j - 1 < j
    BY <1>5
  <2>3. j # 0 => g[j - 1] = g2[j - 1]
    BY <2>1, <2>2
  <2> QED
    BY <1>5, <2>1, <2>2, <2>3
<1>6. h = rec(h)
  <2> DEFINE level == [m \in Nat |-> CHOOSE g : Levels(m, g)]
             g == [m \in Nat |-> level[m][m]]
  <2>1. \A m \in Nat : Levels(m, level[m])
    <3> HIDE DEF Levels
    <3> QED
      BY <1>4
  <2>2. ASSUME NEW m \in Nat, m # 0 PROVE level[m][m - 1] = g[m - 1]
    <3>1. m - 1 \in Nat /\ m - 1 \in 0 .. m /\ m - 1 <= m - 1
      BY <2>2
    <3>2. Levels(m, level[m]) /\ Levels(m - 1, level[m - 1])
      BY <2>1, <3>1
    <3> HIDE DEF Levels, level
    <3>3. level[m][m - 1] = level[m - 1][m - 1]
      BY <1>5, <3>1, <3>2
    <3> QED
      BY <3>1, <3>3
  <2>3. ASSUME NEW m \in Nat
        PROVE  g[m] = IF m = 0 THEN start ELSE Deeper(g[m - 1])
    <3>1. level[m][m] = Level(m, level[m][m - 1])
      <4>1. m \in 0 .. m
        OBVIOUS
      <4> HIDE DEF level
      <4> QED
        BY <2>1, <4>1
    <3> HIDE DEF level
    <3> QED
      BY <2>2, <3>1
  <2>4. g = [m \in Nat |-> g[m]]
    OBVIOUS
  <2> HIDE DEF g, level
  <2>5. g = rec(g)
    BY <2>3, <2>4
  <2> HIDE DEF rec
  <2> QED
    BY <2>5
<1> HIDE DEF h
<1>7. \A n \in Nat : h[n] = IF n = 0 THEN start ELSE Deeper(h[n - 1])
  BY <1>6
<1> DEFINE bad == {n \in Nat : ~(h[n] \subseteq good)}
<1>8. ASSUME bad # {} PROVE FALSE
  <2>1. PICK n \in bad : \A m \in bad : ~(m < n)
    <3>1. bad \subseteq Nat
      OBVIOUS
    <3> HIDE DEF bad
    <3> QED
      BY <1>8, <3>1, Smallest
  <2>2. n \in Nat /\ ~(h[n] \subseteq good) /\ n # 0
    BY <1>7, <2>1
  <2>3. n - 1 \in Nat /\ n - 1 < n /\ n - 1 \notin bad
    <3>1. n - 1 \in Nat /\ n - 1 < n
      BY <2>2
    <3> HIDE DEF bad
    <3> QED
      BY <2>1, <3>1
  <2> QED
    BY <1>3, <1>7, <2>2, <2>3
<1> QED
  BY <1>1, <1>8

(* What the type of a field is made of.                                    *)
LEMMA FieldTrees ==
  ASSUME Shape, AllGenerated, FieldsInv,
         NEW n \in StructNames, NEW f \in Range(DefinitionOf(n).fields)
  PROVE  /\ types[f] \in TreeSet /\ types[f] \subseteq Branches
         /\ StructsIn(types[f]) \subseteq StructsInFields(n)
         /\ \A b \in types[f] : Last(b) \in DOMAIN bounds => Last(b) \in ParametersOf(n)
<1>1. /\ n[2] < Len(structs) /\ n[2] + 1 \in 1 .. Len(structs)
      /\ DefinitionOf(n) = structs[n[2] + 1] /\ IsStruct(n)
  BY NamedStructs DEF AllGenerated, N
<1>2. Sound(types[f], Range(DefinitionOf(n).tps), DefinitionOf(n).has \ {"key"})
  BY <1>1 DEF FieldsInv
<1>3. StructsIn(types[f]) \subseteq StructsInFields(n)
  BY <1>1 DEF StructsInFields
<1>4. ASSUME NEW b \in types[f], Last(b) \in DOMAIN bounds PROVE Last(b) \in ParametersOf(n)
  <2>1. Last(b) \in {Num} \cup Range(DefinitionOf(n).tps) \cup StructNames
    BY <1>2, TypesThere DEF Sound, WellFormed
  <2>2. Last(b) # Num /\ Last(b) \notin StructNames
    BY <1>4, TypesThere
  <2> QED
    BY <1>1, <2>1, <2>2 DEF ParametersOf
<1> QED
  BY <1>2, <1>3, <1>4, SoundBranches DEF Sound

(* Type arguments to register: a primitive type, or the struct that has    *)
(* all abilities.                                                          *)
Registered(args) ==
  /\ DOMAIN args \subseteq DOMAIN bounds
  /\ \A p \in DOMAIN args : args[p] \in {Leaf(Num), Leaf(AllAbilitiesStruct)}

(* A value whose declared type is the one it is generated for, with what   *)
(* is registered put in; near has the structs in that type.                *)
Agrees(v, registered, near) ==
  /\ v \in [given : TreeSet, declared : TreeSet]
  /\ HeadOf(v.given) \notin DOMAIN registered
  /\ StructsIn(v.given) \subseteq near
  /\ v.declared = Substitute(v.given, registered)

LEMMA RegisteredTrees ==
  ASSUME Shape, AllGenerated, NEW args, Registered(args)
  PROVE  \A p \in DOMAIN args : /\ args[p] \in TreeSet /\ args[p] \subseteq Branches
                                /\ HeadOf(args[p]) \notin DOMAIN args
                                /\ StructsIn(args[p]) \subseteq {AllAbilitiesStruct}
                                /\ Substitute(args[p], args) = args[p]
<1> SUFFICES ASSUME NEW p \in DOMAIN args
             PROVE  /\ args[p] \in TreeSet /\ args[p] \subseteq Branches
                    /\ HeadOf(args[p]) \notin DOMAIN args
                    /\ StructsIn(args[p]) \subseteq {AllAbilitiesStruct}
                    /\ Substitute(args[p], args) = args[p]
  OBVIOUS
<1>1. PICK id \in {Num, AllAbilitiesStruct} : args[p] = Leaf(id)
  BY DEF Registered
<1>2. /\ id \in Tokens /\ id \in Nodes /\ ParametersOf(id) = {} /\ id \notin DOMAIN args
      /\ Num \notin StructNames
  BY TypesThere DEF Tokens, Nodes, Registered
<1>3. Leaf(id) \in TreeSet
  <2>1. Leaf(id) \subseteq Branches
    BY <1>2 DEF Leaf, Branches
  <2> QED
    BY <1>2, <2>1, Building DEF Built
<1>4. HeadOf(Leaf(id)) = id /\ Substitute(Leaf(id), args) = Leaf(id)
  BY <1>2, LeafReplaced
<1>5. StructsIn(Leaf(id)) \subseteq {AllAbilitiesStruct}
  BY <1>2, Leaves DEF StructsIn
<1> QED
  BY <1>1, <1>2, <1>3, <1>4, <1>5, TreeBranches

LEMMA NewValue ==
  ASSUME Shape, AllGenerated, NEW args, Registered(args), NEW near, AllAbilitiesStruct \in near,
         NEW given \in TreeSet, StructsIn(given) \subseteq near
  PROVE  Agrees(Value(given, Substitute(given, args), args), args, near)
<1> DEFINE v == Value(given, Substitute(given, args), args)
<1>1. DOMAIN args \subseteq DOMAIN bounds /\ \A p \in DOMAIN args : args[p] \in TreeSet
  BY RegisteredTrees DEF Registered
<1>2. /\ v.given = IF HeadOf(given) \in DOMAIN args THEN args[HeadOf(given)] ELSE given
      /\ v.declared = Substitute(given, args)
      /\ v.given \in TreeSet /\ v.declared \in TreeSet => v \in [given : TreeSet, declared : TreeSet]
  BY DEF Value
<1>3. v.given \in TreeSet /\ v.declared \in TreeSet
  BY <1>1, <1>2, TreeReplaced
<1> HIDE DEF v
<1>4. CASE HeadOf(given) \in DOMAIN args
  <2>1. v.given = args[HeadOf(given)] /\ v.declared = args[HeadOf(given)]
    BY <1>1, <1>2, <1>4, TreeReplaced
  <2> QED
    BY <1>2, <1>3, <1>4, <2>1, RegisteredTrees DEF Agrees, v
<1>5. CASE HeadOf(given) \notin DOMAIN args
  BY <1>2, <1>3, <1>5 DEF Agrees, v
<1> QED
  BY <1>4, <1>5

(* Fields of a struct that nests no parameter.                             *)
LEMMA FieldValuesAgree ==
  ASSUME Shape, AllGenerated, FieldsInv, NEW args, Registered(args),
         NEW near, AllAbilitiesStruct \in near,
         \A n \in near : StructsInFields(n) \subseteq near /\ ~NestsParameter(n),
         NEW v, Agrees(v, args, near), NEW u \in FieldValues(v, args)
  PROVE  Agrees(u, args, near)
<1> DEFINE name == HeadOf(v.given)
           own == ParametersOf(name)
<1>1. /\ IsStruct(name)
      /\ \E f \in Range(DefinitionOf(name).fields) :
           u = Value(FieldType(types[f], TypeArgs(v.given)), Substitute(types[f], TypeArgs(v.declared)), args)
  BY DEF FieldValues
<1>2. /\ \A n \in StructNames : n \in Tokens /\ n \notin DOMAIN bounds
                                /\ ParametersOf(n) \subseteq DOMAIN bounds /\ ParametersOf(n) \subseteq Tokens
      /\ Nodes \subseteq Tokens /\ \A id \in Nodes : IsStruct(id) => id \in StructNames
      /\ DOMAIN args \subseteq DOMAIN bounds
      /\ \A p \in DOMAIN args : args[p] \in TreeSet /\ args[p] \subseteq Branches
  BY TypesThere, RegisteredTrees DEF Nodes, Tokens, Registered
<1>3. name \in StructNames /\ \E inner \in [own -> TreeSet] : v.given = Concrete(name, inner)
  <2>1. Built(v.given, TreeSet)
    BY Building DEF Agrees
  <2>2. CASE \E id \in Nodes : ParametersOf(id) = {} /\ v.given = Leaf(id)
    <3>1. PICK id \in Nodes : ParametersOf(id) = {} /\ v.given = Leaf(id)
      BY <2>2
    <3>2. name = id /\ id \in StructNames
      BY <1>1, <1>2, <3>1, LeafReplaced
    <3> DEFINE none == [tp \in own |-> Leaf(tp)]
    <3>3. none \in [own -> TreeSet] /\ DOMAIN none = {}
      BY <3>1, <3>2
    <3> HIDE DEF none
    <3>4. Concrete(id, none) = Leaf(id)
      BY <3>3 DEF Concrete
    <3> QED
      BY <3>1, <3>2, <3>3, <3>4
  <2>3. CASE \E n \in StructNames : \E inner \in [ParametersOf(n) -> TreeSet] : v.given = Concrete(n, inner)
    <3>1. PICK n \in StructNames : \E inner \in [ParametersOf(n) -> TreeSet] : v.given = Concrete(n, inner)
      BY <2>3
    <3>2. PICK inner \in [ParametersOf(n) -> TreeSet] : v.given = Concrete(n, inner)
      BY <3>1
    <3>3. inner \in [ParametersOf(n) -> SUBSET Branches]
      BY TreeBranches
    <3>4. name = n
      BY <1>2, <3>2, <3>3, TakenApart
    <3> QED
      BY <3>2, <3>4
  <2> QED
    BY <2>1, <2>2, <2>3 DEF Built
<1> HIDE DEF name
<1>4. PICK inner \in [own -> TreeSet] : v.given = Concrete(name, inner)
  BY <1>3
<1> DEFINE outer == [tp \in own |-> Substitute(inner[tp], args)]
<1>5. inner \in [own -> SUBSET Branches] /\ outer \in [own -> SUBSET Branches] /\ DOMAIN inner = own
  <2>1. \A tp \in own : inner[tp] \in TreeSet /\ Substitute(inner[tp], args) \in TreeSet
    BY <1>2, TreeReplaced
  <2> QED
    BY <2>1, TreeBranches
<1>6. v.declared = Concrete(name, outer)
  <2>1. name \in Tokens /\ own \in SUBSET Tokens /\ name \notin DOMAIN args
    BY <1>2, <1>3
  <2> QED
    BY <1>2, <1>4, <1>5, <2>1, StructReplaced DEF Agrees
<1>7. TypeArgs(v.given) = inner /\ TypeArgs(v.declared) = outer
  <2>1. name \in Tokens /\ own \subseteq Tokens
    BY <1>2, <1>3
  <2> HIDE DEF outer
  <2> QED
    BY <1>4, <1>5, <1>6, <2>1, TakenApart
<1>8. name \in near
  <2>1. <<name>> \in v.given /\ Last(<<name>>) = name
    BY <1>4, Members DEF Last
  <2>2. name \in StructsIn(v.given)
    BY <1>3, <2>1 DEF StructsIn, Mentions
  <2> QED
    BY <2>2 DEF Agrees
<1>9. PICK f \in Range(DefinitionOf(name).fields) :
        u = Value(FieldType(types[f], inner), Substitute(types[f], outer), args)
  BY <1>1, <1>7 DEF name
<1>10. /\ types[f] \in TreeSet /\ types[f] \subseteq Branches
       /\ StructsIn(types[f]) \subseteq near
       /\ \A b \in types[f] : Last(b) \in DOMAIN bounds => Last(b) \in own
  BY <1>3, <1>8, FieldTrees
<1> DEFINE given == Substitute(types[f], inner)
<1>11. FieldType(types[f], inner) = given
  <2>1. \A b \in types[f] : Len(b) > 3 => Last(b) \notin DOMAIN inner
    BY <1>5, <1>8 DEF NestsParameter
  <2> QED
    BY <1>10, <2>1, PackedAs
<1>12. given \in TreeSet
  <2>1. DOMAIN inner \subseteq DOMAIN bounds /\ \A tp \in DOMAIN inner : inner[tp] \in TreeSet
    BY <1>2, <1>3, <1>5
  <2> QED
    BY <1>10, <2>1, TreeReplaced
<1>13. Substitute(types[f], outer) = Substitute(given, args)
  <2>1. \A b \in types[f] : Last(b) \in DOMAIN args => Last(b) \in DOMAIN inner
    BY <1>2, <1>5, <1>10
  <2>2. \A tp \in DOMAIN inner : inner[tp] \subseteq Branches
    BY <1>5
  <2>3. Substitute(given, args) = Substitute(types[f], [tp \in DOMAIN inner |-> Substitute(inner[tp], args)])
    BY <1>2, <1>10, <2>1, <2>2, ReplacedTwice
  <2> QED
    BY <1>5, <2>3
<1>14. StructsIn(given) \subseteq near
  <2> SUFFICES ASSUME NEW n \in StructsIn(given) PROVE n \in near
    OBVIOUS
  <2>1. n \in StructNames /\ (n \in Mentions(types[f]) \/ \E tp \in own : n \in Mentions(inner[tp]))
    BY <1>5, <1>10, MentionsReplaced DEF StructsIn
  <2>2. CASE n \in Mentions(types[f])
    BY <1>10, <2>1, <2>2 DEF StructsIn
  <2>3. CASE \E tp \in own : n \in Mentions(inner[tp])
    <3>1. name \in Tokens /\ \A tp \in DOMAIN inner : tp \in Tokens /\ inner[tp] \subseteq Branches
      BY <1>2, <1>3, <1>5
    <3>2. n \in Mentions(v.given)
      BY <1>4, <1>5, <2>3, <3>1, Trees
    <3> QED
      BY <2>1, <3>2 DEF StructsIn, Agrees
  <2> QED
    BY <2>1, <2>2, <2>3
<1> HIDE DEF given, outer
<1> QED
  BY <1>9, <1>11, <1>12, <1>13, <1>14, NewValue

(* All values packed, if those it starts with agree.                       *)
LEMMA AllAgree ==
  ASSUME Shape, AllGenerated, FieldsInv, NEW args, Registered(args),
         NEW near, AllAbilitiesStruct \in near,
         \A n \in near : StructsInFields(n) \subseteq near /\ ~NestsParameter(n),
         NEW start, \A v \in start : Agrees(v, args, near)
  PROVE  \A v \in Values(start, args)[PackDepth] : HeadOf(v.given) = HeadOf(v.declared)
<1> DEFINE good == {v \in [given : TreeSet, declared : TreeSet] : Agrees(v, args, near)}
<1>1. \A v : v \in good <=> Agrees(v, args, near)
  BY DEF Agrees
<1> HIDE DEF good
<1>2. start \subseteq good
  BY <1>1
<1>3. \A v \in good : FieldValues(v, args) \subseteq good
  BY <1>1, FieldValuesAgree
<1>4. PackDepth \in Nat
  BY SkeletonsAssumption
<1>5. Values(start, args)[PackDepth] \subseteq good
  BY <1>2, <1>3, <1>4, ValuesReached
<1>6. DOMAIN args \subseteq DOMAIN bounds /\ \A p \in DOMAIN args : args[p] \in TreeSet
  BY RegisteredTrees DEF Registered
<1>7. \A v \in good : HeadOf(v.given) = HeadOf(v.declared)
  BY <1>1, <1>6, TreeReplaced DEF Agrees
<1> QED
  BY <1>5, <1>7

LEMMA PackingAgrees ==
  ASSUME Shape, FieldsInv
  PROVE  PackedAsDeclared
<1> SUFFICES ASSUME AllFilled,
                    NEW st \in Range(structs), st.tps # << >>,
                    \A n \in StructNames : Reaches(StructsInFields(st.name), n) => ~NestsParameter(n),
                    NEW args \in [Range(st.tps) -> {Leaf(Num), Leaf(AllAbilitiesStruct)}]
             PROVE  /\ \A v \in GenerateStructPack(st, args)[PackDepth] : HeadOf(v.given) = HeadOf(v.declared)
                    /\ ~NestsParameter(st.name) =>
                         \A v \in GenerateStructPackConcrete(Concrete(st.name, args))[PackDepth] :
                           HeadOf(v.given) = HeadOf(v.declared)
  BY DEF PackedAsDeclared
<1> DEFINE reached == {n \in StructNames : Reaches(StructsInFields(st.name), n)}
           below == reached \cup {AllAbilitiesStruct}
<1>1. AllGenerated
  BY DEF AllFilled
<1>2. /\ st.name \in StructNames /\ DefinitionOf(st.name) = st
      /\ ParametersOf(st.name) = Range(st.tps) /\ Range(st.tps) \subseteq DOMAIN bounds
  <2>1. PICK i \in 1 .. Len(structs) : st = structs[i]
    BY DEF Range, Shape, StructsInv
  <2>2. st.name \in StructNames /\ DefinitionOf(st.name) = st /\ IsStruct(st.name)
    BY <2>1, NamedStructs
  <2> QED
    BY <1>1, <2>2, TypesThere DEF ParametersOf
<1>3. \A n : StructsInFields(n) \subseteq StructNames
  BY DEF StructsInFields, StructsIn
<1>4. StructsInFields(st.name) \subseteq reached
  BY <1>3 DEF Reaches
<1>5. ASSUME NEW n \in reached PROVE StructsInFields(n) \subseteq reached /\ ~NestsParameter(n)
  <2>1. \A m \in StructsInFields(n) : Reaches(StructsInFields(st.name), m)
    BY DEF Reaches, ClosedUnderFields
  <2> QED
    BY <1>3, <2>1
<1>6. /\ AllAbilitiesStruct \in StructNames /\ StructsInFields(AllAbilitiesStruct) = {}
      /\ ~NestsParameter(AllAbilitiesStruct)
  BY <1>1, TypesThere, FallbackThere DEF Fallback, NestsParameter
<1>7. /\ AllAbilitiesStruct \in below
      /\ \A n \in below : StructsInFields(n) \subseteq below /\ ~NestsParameter(n)
  BY <1>5, <1>6
<1>8. Registered(args)
  BY <1>2 DEF Registered
<1>9. \A v \in GenerateStructPack(st, args)[PackDepth] : HeadOf(v.given) = HeadOf(v.declared)
  <2> DEFINE start == {Value(types[f], Substitute(types[f], args), args) : f \in Range(st.fields)}
  <2>1. ASSUME NEW f \in Range(st.fields)
        PROVE  Agrees(Value(types[f], Substitute(types[f], args), args), args, below)
    <3>1. types[f] \in TreeSet /\ StructsIn(types[f]) \subseteq below
      BY <1>1, <1>2, <1>4, FieldTrees
    <3> HIDE DEF below
    <3> QED
      BY <1>1, <1>7, <1>8, <3>1, NewValue
  <2>2. \A v \in start : Agrees(v, args, below)
    BY <2>1
  <2> HIDE DEF start, below
  <2>3. \A v \in Values(start, args)[PackDepth] : HeadOf(v.given) = HeadOf(v.declared)
    BY <1>1, <1>7, <1>8, <2>2, AllAgree
  <2> QED
    BY <2>3 DEF GenerateStructPack, start
<1>10. ASSUME ~NestsParameter(st.name)
       PROVE  \A v \in GenerateStructPackConcrete(Concrete(st.name, args))[PackDepth] :
                HeadOf(v.given) = HeadOf(v.declared)
  <2> DEFINE near == below \cup {st.name}
             t == Concrete(st.name, args)
  <2>1. /\ AllAbilitiesStruct \in near
        /\ \A n \in near : StructsInFields(n) \subseteq near /\ ~NestsParameter(n)
    BY <1>4, <1>7, <1>10
  <2>2. Registered(<< >>) /\ DOMAIN << >> = {}
    BY DEF Registered
  <2>3. /\ \A p \in DOMAIN args : args[p] \in TreeSet /\ args[p] \subseteq Branches
                                 /\ StructsIn(args[p]) \subseteq {AllAbilitiesStruct}
        /\ DOMAIN args = Range(st.tps)
    BY <1>1, <1>8, RegisteredTrees
  <2>4. t \in TreeSet
    <3>1. st.name \in Tokens /\ \A p \in DOMAIN args : p \in Tokens /\ args[p] \subseteq Branches
      BY <1>1, <1>2, <2>3, TypesThere
    <3>2. t \subseteq Branches
      BY <3>1, Trees
    <3>3. args \in [ParametersOf(st.name) -> TreeSet]
      BY <1>2, <2>3
    <3>4. Built(t, TreeSet)
      BY <1>2, <3>3 DEF Built
    <3> QED
      BY <3>2, <3>4, Building
  <2>5. StructsIn(t) \subseteq near
    <3> SUFFICES ASSUME NEW b \in t, Last(b) \in StructNames PROVE Last(b) \in near
      BY DEF StructsIn, Mentions
    <3>1. CASE b = <<st.name>>
      BY <3>1 DEF Last
    <3>2. CASE b # <<st.name>>
      <4>1. PICK p \in DOMAIN args : \E c \in args[p] : b = Graft(st.name, p, c)
        BY <3>2, Members
      <4>2. PICK c \in args[p] : b = Graft(st.name, p, c)
        BY <4>1
      <4>3. /\ st.name \in Tokens /\ p \in Tokens /\ c \in Seq(Tokens) /\ c # << >>
        BY <1>1, <1>2, <2>3, TypesThere DEF Branches
      <4>4. Last(b) = Last(c)
        <5>1. \A x, y \in Tokens : \A d \in Seq(Tokens) : d # << >> => Last(Graft(x, y, d)) = Last(d)
          BY Grafting
        <5> QED
          BY <4>2, <4>3, <5>1
      <4>5. Last(b) \in StructsIn(args[p])
        BY <3>2, <4>2, <4>4 DEF StructsIn, Mentions
      <4> QED
        BY <1>7, <2>3, <4>5
    <3> QED
      BY <3>1, <3>2
  <2> HIDE DEF near, t
  <2>6. Substitute(t, << >>) = t
    <3>1. \A b : b \in Substitute(t, << >>) <=> b \in t
      BY <2>2, Substituted
    <3> QED
      BY <3>1
  <2>7. Agrees(Value(t, t, << >>), << >>, near)
    BY <1>1, <2>1, <2>2, <2>4, <2>5, <2>6, NewValue
  <2>8. \A v \in Values({Value(t, t, << >>)}, << >>)[PackDepth] : HeadOf(v.given) = HeadOf(v.declared)
    BY <1>1, <2>1, <2>2, <2>7, AllAgree
  <2> QED
    BY <2>8 DEF GenerateStructPackConcrete, t
<1> QED
  BY <1>9, <1>10

(* A value is generated for a type with the head of the type declared at   *)
(* its position, however deep packing goes into the fields of fields.      *)
THEOREM PackedRight == Spec => []PackedAsDeclared
<1>1. Shape /\ FieldsInv /\ PhantomInv => PackedAsDeclared
  BY PackingAgrees
<1> QED
  BY <1>1, FieldsHold, PTL

=============================================================================
