------------------------------ MODULE Names_proofs ------------------------------
(***************************************************************************)
(* What the identifier pool issues, and what the signatures drawn with it  *)
(* are like, for any number of identifiers, scopes and type parameters.    *)
(***************************************************************************)
EXTENDS Names, Signatures, SequenceTheorems, TLAPS

(* A scope made of identifiers the pool has issued, and of the address.    *)
Known(pool, scope) ==
  /\ scope \in Seq(Identifiers \cup Range(HardcodedAddress))
  /\ Range(scope) \subseteq Issued(pool) \cup Range(HardcodedAddress)

(* The pool of a generator, which never asks for a StructConcrete.         *)
PoolOK(pool) ==
  /\ CountersAhead(pool) /\ ScopesComplete(pool)
  /\ \A id \in Issued(pool) : id[1] # "StructConcrete" /\ Known(pool, pool.scopes[id])

LEMMA AddressIsNoIdentifier == Range(HardcodedAddress) \cap Identifiers = {}
<1>1. Range(HardcodedAddress) = {<<"Address", 0>>}
  BY DEF Range, HardcodedAddress
<1>2. "Address" \notin Kinds
  BY DEF Kinds, KindName
<1> QED
  BY <1>1, <1>2 DEF Identifiers

(* "Each identifier is globally unique" (names.rs): of the kinds that are  *)
(* asked for, no two share a name.                                         *)
LEMMA NamesDiffer ==
  ASSUME NEW i \in Identifiers, NEW j \in Identifiers,
         i[1] # "StructConcrete", j[1] # "StructConcrete", NameOf(i) = NameOf(j)
  PROVE  i = j
<1>1. PICK k \in Kinds, m \in Nat : i = <<k, m>>
  BY DEF Identifiers
<1>2. PICK l \in Kinds, n \in Nat : j = <<l, n>>
  BY DEF Identifiers
<1>3. KindName[k] = KindName[l] /\ m = n
  BY <1>1, <1>2 DEF NameOf
<1>4. k # "StructConcrete" /\ l # "StructConcrete"
  BY <1>1, <1>2
<1>5. k = l
  BY <1>3, <1>4 DEF KindName, Kinds
<1> QED
  BY <1>1, <1>2, <1>3, <1>5

LEMMA Appending ==
  ASSUME NEW S, NEW s \in Seq(S), NEW x \in S
  PROVE  /\ Append(s, x) \in Seq(S)
         /\ Len(Append(s, x)) = Len(s) + 1 /\ Append(s, x)[Len(s) + 1] = x
         /\ Range(Append(s, x)) = Range(s) \cup {x}
         /\ \A i \in 1 .. Len(s) : /\ Append(s, x)[i] = s[i]
                                   /\ SubSeq(Append(s, x), 1, i - 1) = SubSeq(s, 1, i - 1)
         /\ SubSeq(Append(s, x), 1, Len(s)) = s
<1>1. /\ Append(s, x) \in Seq(S) /\ Len(Append(s, x)) = Len(s) + 1
      /\ Append(s, x)[Len(s) + 1] = x /\ \A i \in 1 .. Len(s) : Append(s, x)[i] = s[i]
  OBVIOUS
<1>2. Range(Append(s, x)) = Range(s) \cup {x}
  BY <1>1 DEF Range
<1>3. \A i \in 1 .. Len(s) : SubSeq(Append(s, x), 1, i - 1) = SubSeq(s, 1, i - 1)
  BY <1>1
<1>4. SubSeq(Append(s, x), 1, Len(s)) = s
  BY <1>1
<1> QED
  BY <1>1, <1>2, <1>3, <1>4

(* A new pool is fine, and so are the scopes generation starts from.       *)
THEOREM NewPoolOK ==
  /\ PoolOK(NewPool)
  /\ \A scope \in {RootScope, HardcodedAddress} :
       Known(NewPool, scope) /\ CompleteScope(NewPool, scope)
<1>1. Issued(NewPool) = {} /\ NewPool.counters = [k \in Kinds |-> 0]
  BY DEF Issued, NewPool
<1>2. PoolOK(NewPool)
  BY <1>1 DEF PoolOK, CountersAhead, ScopesComplete
<1>3. Known(NewPool, RootScope) /\ CompleteScope(NewPool, RootScope)
  BY DEF Known, CompleteScope, RootScope, Range
<1>4. Known(NewPool, HardcodedAddress) /\ CompleteScope(NewPool, HardcodedAddress)
  BY <1>1 DEF Known, CompleteScope, HardcodedAddress, Range
<1> QED
  BY <1>2, <1>3, <1>4

(* next_identifier, asked with the scope of something that exists: the     *)
(* identifier is new and so is its name, nothing issued before moves, and  *)
(* the scope of every identifier remains its whole path, with "no chasing  *)
(* needed" (names.rs); the same holds for the scope the new one owns, so   *)
(* that the next call may be made with it.                                 *)
THEOREM IssuedIdentifiers ==
  ASSUME NEW pool, PoolOK(pool),
         NEW kind \in Kinds \ {"StructConcrete"},
         NEW scope, Known(pool, scope), CompleteScope(pool, scope)
  PROVE  LET next == NextIdentifier(pool, kind, scope)
         IN  /\ next.id \in Identifiers \ Issued(pool)
             /\ \A id \in Issued(pool) : /\ NameOf(id) # NameOf(next.id)
                                         /\ next.pool.scopes[id] = pool.scopes[id]
             /\ Issued(next.pool) = Issued(pool) \cup {next.id}
             /\ next.pool.scopes[next.id] = scope
             /\ PoolOK(next.pool)
             /\ Known(next.pool, next.scope) /\ CompleteScope(next.pool, next.scope)
<1> DEFINE next == NextIdentifier(pool, kind, scope)
           id == next.id
<1>1. /\ id = <<kind, pool.counters[kind]>>
      /\ next.scope = Append(scope, id)
      /\ next.pool.counters = [pool.counters EXCEPT ![kind] = @ + 1]
      /\ next.pool.scopes = [i \in Issued(pool) \cup {id} |->
                               IF i = id THEN scope ELSE pool.scopes[i]]
  BY DEF NextIdentifier
<1> HIDE DEF next
<1>2. /\ pool.counters \in [Kinds -> Nat] /\ Issued(pool) \subseteq Identifiers
      /\ \A i \in Issued(pool) : i[2] < pool.counters[i[1]]
      /\ \A i \in Issued(pool) : i[1] # "StructConcrete" /\ Known(pool, pool.scopes[i])
      /\ \A i \in Issued(pool) : CompleteScope(pool, pool.scopes[i])
  BY DEF PoolOK, CountersAhead, ScopesComplete
<1>3. id \in Identifiers /\ id \notin Issued(pool) /\ id[1] # "StructConcrete"
  <2>1. pool.counters[kind] \in Nat
    BY <1>2
  <2>2. id \in Identifiers /\ id[1] = kind /\ id[2] = pool.counters[kind]
    BY <1>1, <2>1 DEF Identifiers
  <2> QED
    BY <1>2, <2>1, <2>2
<1>4. /\ Issued(next.pool) = Issued(pool) \cup {id}
      /\ next.pool.scopes[id] = scope
      /\ \A i \in Issued(pool) : next.pool.scopes[i] = pool.scopes[i]
  BY <1>1, <1>3 DEF Issued
<1>5. \A i \in Issued(pool) : NameOf(i) # NameOf(id)
  BY <1>2, <1>3, NamesDiffer
<1>6. CountersAhead(next.pool)
  <2>1. next.pool.counters \in [Kinds -> Nat]
    BY <1>1, <1>2
  <2>2. \A i \in Issued(pool) \cup {id} : i[2] < next.pool.counters[i[1]]
    <3>1. \A i \in Issued(pool) \cup {id} : i[1] \in Kinds /\ i[2] \in Nat
      BY <1>2, <1>3 DEF Identifiers
    <3>2. pool.counters[kind] \in Nat /\ next.pool.counters[kind] = pool.counters[kind] + 1
      BY <1>1, <1>2
    <3>3. id[1] = kind /\ id[2] = pool.counters[kind]
      BY <1>1
    <3> QED
      BY <1>1, <1>2, <3>1, <3>2, <3>3
  <2> QED
    BY <1>2, <1>3, <1>4, <2>1, <2>2 DEF CountersAhead
<1>7. ASSUME NEW path, Known(pool, path), CompleteScope(pool, path)
      PROVE  Known(next.pool, path) /\ CompleteScope(next.pool, path)
  <2>1. Known(next.pool, path)
    BY <1>4, <1>7 DEF Known
  <2>2. ASSUME NEW i \in DOMAIN path, path[i] \in Issued(next.pool)
        PROVE  next.pool.scopes[path[i]] = SubSeq(path, 1, i - 1)
    <3>1. path[i] \in Range(path)
      BY DEF Range
    <3>2. path[i] \in Issued(pool)
      BY <1>2, <1>3, <1>4, <1>7, <2>2, <3>1, AddressIsNoIdentifier DEF Known
    <3> QED
      BY <1>4, <1>7, <3>2 DEF CompleteScope
  <2> QED
    BY <2>1, <2>2 DEF CompleteScope
<1>8. PoolOK(next.pool)
  <2>1. \A i \in Issued(next.pool) :
          /\ i[1] # "StructConcrete" /\ Known(next.pool, next.pool.scopes[i])
          /\ CompleteScope(next.pool, next.pool.scopes[i])
    BY <1>2, <1>3, <1>4, <1>7
  <2> QED
    BY <1>6, <2>1 DEF PoolOK, ScopesComplete
<1>9. Known(next.pool, next.scope) /\ CompleteScope(next.pool, next.scope)
  <2>1. Known(next.pool, scope) /\ CompleteScope(next.pool, scope)
    BY <1>7
  <2>2. scope \in Seq(Identifiers \cup Range(HardcodedAddress))
    BY DEF Known
  <2>3. Known(next.pool, next.scope)
    <3>1. id \in Identifiers \cup Range(HardcodedAddress)
      BY <1>3
    <3>2. /\ Append(scope, id) \in Seq(Identifiers \cup Range(HardcodedAddress))
          /\ Range(Append(scope, id)) = Range(scope) \cup {id}
      <4> DEFINE Pieces == Identifiers \cup Range(HardcodedAddress)
      <4>1. scope \in Seq(Pieces) /\ id \in Pieces
        BY <2>2, <3>1
      <4> HIDE DEF Pieces
      <4>2. /\ Append(scope, id) \in Seq(Pieces)
            /\ Range(Append(scope, id)) = Range(scope) \cup {id}
        BY <4>1, Appending
      <4> QED
        BY <4>2 DEF Pieces
    <3> QED
      BY <1>1, <1>4, <2>1, <3>2 DEF Known
  <2>4. ASSUME NEW i \in DOMAIN next.scope, next.scope[i] \in Issued(next.pool)
        PROVE  next.pool.scopes[next.scope[i]] = SubSeq(next.scope, 1, i - 1)
    <3>1. i \in 1 .. Len(scope) \/ i = Len(scope) + 1
      BY <1>1, <1>3, <2>2, <2>3, Appending
    <3>2. CASE i \in 1 .. Len(scope)
      <4>1. /\ next.scope[i] = scope[i] /\ i \in DOMAIN scope
            /\ SubSeq(next.scope, 1, i - 1) = SubSeq(scope, 1, i - 1)
        BY <1>1, <1>3, <2>2, <3>2, Appending
      <4> QED
        BY <2>1, <2>4, <4>1 DEF CompleteScope
    <3>3. CASE i = Len(scope) + 1
      <4>1. Len(scope) \in Nat /\ i - 1 = Len(scope)
        BY <2>2, <3>3
      <4>2. next.scope[i] = id /\ SubSeq(next.scope, 1, i - 1) = scope
        BY <1>1, <1>3, <2>2, <3>3, <4>1, Appending
      <4> QED
        BY <1>4, <4>2
    <3> QED
      BY <3>1, <3>2, <3>3
  <2> QED
    BY <2>3, <2>4 DEF CompleteScope
<1> QED
  BY <1>3, <1>4, <1>5, <1>8, <1>9 DEF next

-----------------------------------------------------------------------------
(* is_id_in_scope: what is declared in a scope is known in it and in all   *)
(* scopes within, and not in those of another item or block of the same    *)
(* parent, however deep.                                                   *)
THEOREM ScopesHide ==
  ASSUME NEW S, NEW parent \in Seq(S), NEW a \in S, NEW b \in S, a # b,
         NEW inner \in Seq(S), IsInScope(inner, Append(parent, b)),
         NEW pool, NEW id \in Issued(pool)
  PROVE  /\ pool.scopes[id] = Append(parent, b) => IsIdInScope(pool, id, inner)
         /\ pool.scopes[id] = Append(parent, a) => ~IsIdInScope(pool, id, inner)
<1> DEFINE n == Len(parent) + 1
<1>1. /\ Len(Append(parent, a)) = n /\ Append(parent, a)[n] = a
      /\ Len(Append(parent, b)) = n /\ Append(parent, b)[n] = b
      /\ Append(parent, a) \in Seq(S) /\ Append(parent, b) \in Seq(S) /\ n \in Nat /\ n >= 1
  BY Appending
<1> HIDE DEF n
<1>2. n <= Len(inner) /\ SubSeq(Append(parent, b), 1, n) = SubSeq(inner, 1, n)
  BY <1>1 DEF IsInScope, IsPrefix
<1>3. inner[n] = b
  <2>1. SubSeq(Append(parent, b), 1, n)[n] = b
    BY <1>1
  <2>2. SubSeq(inner, 1, n)[n] = inner[n]
    BY <1>1, <1>2
  <2> QED
    BY <1>2, <2>1, <2>2
<1>4. ~IsInScope(inner, Append(parent, a))
  <2>1. SubSeq(Append(parent, a), 1, n)[n] = a
    BY <1>1
  <2>2. SubSeq(inner, 1, n)[n] = b
    BY <1>1, <1>2, <1>3
  <2> QED
    BY <1>1, <2>1, <2>2 DEF IsInScope, IsPrefix
<1> QED
  BY <1>4 DEF IsIdInScope

-----------------------------------------------------------------------------
(* generate_function_signature: a function can return its own type         *)
(* parameter, because a parameter has that type, and every parameter is a  *)
(* number or of an own type parameter; a number has all abilities those    *)
(* may ask for.                                                            *)
THEOREM SignaturesCanBeMet ==
  ASSUME NEW num, NEW none, NEW tps, NEW counts \in SUBSET Nat, NEW inlineAllowed,
         NEW sig \in FunctionSignatures(num, none, tps, counts, inlineAllowed)
  PROVE  /\ sig.ret \in {<<tp>> : tp \in Range(tps)} => sig.ret \in Range(sig.params)
         /\ Range(sig.params) \subseteq {num} \cup {<<tp>> : tp \in Range(tps)}
         /\ \A a \in FunctionParameterAbilities :
              {"copy", "drop"} \subseteq a /\ a \subseteq Primitives
<1>1. /\ sig.ret \in {<<tp>> : tp \in Range(tps)} => sig.ret \in Range(sig.params)
      /\ Range(sig.params) \subseteq {num} \cup {<<tp>> : tp \in Range(tps)}
  <2> DEFINE own == {<<tp>> : tp \in Range(tps)}
  <2>1. PICK params \in UNION {[1 .. n -> {num} \cup own] : n \in counts},
             ret \in {num, none} \cup own :
          sig.params = WithReturnable(params, ret, own) /\ sig.ret = ret
    BY SMTT(30) DEF FunctionSignatures
  <2> HIDE DEF own
  <2>2. params \in Seq({num} \cup own) /\ Range(params) \subseteq {num} \cup own
    BY <2>1 DEF Range
  <2>3. CASE ret \in own \ Range(params)
    <3>1. sig.params = Append(params, ret) /\ ret \in {num} \cup own
      BY <2>1, <2>3 DEF WithReturnable
    <3>2. Range(sig.params) = Range(params) \cup {ret}
      BY <2>2, <3>1, Appending
    <3> QED
      BY <2>1, <2>2, <3>1, <3>2 DEF own
  <2>4. CASE ret \notin own \ Range(params)
    BY <2>1, <2>2, <2>4 DEF WithReturnable, own
  <2> QED
    BY <2>3, <2>4
<1>2. \A a \in FunctionParameterAbilities : {"copy", "drop"} \subseteq a /\ a \subseteq Primitives
  BY DEF FunctionParameterAbilities, TypeParameterAbilities, Abilities, Primitives
<1> QED
  BY <1>1, <1>2
=============================================================================
