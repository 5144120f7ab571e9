---------------------- MODULE ExpressionGenerator_proofs ----------------------
(***************************************************************************)
(* What holds of the filling of bodies for all signatures, structs, rings  *)
(* of limits and sizes of blocks.                                          *)
(*                                                                         *)
(* The invariant is a plan: the states of the environment (depth, manual   *)
(* limits, type arguments, variables with a type, variables whose let is   *)
(* not complete) between the items of the agenda, from the state there is  *)
(* now to the one at the end of the generation, in which all is undone.    *)
(* Each item moves from one state of the plan to the next, and says what   *)
(* it needs of the state it is met in.                                     *)
(***************************************************************************)
EXTENDS ExpressionGenerator, SequenceTheorems, FiniteSetTheorems, TLAPS

IsSequence(s) == s \in Seq(ToSet(s))

ExprTypes == PlainTypes \cup References

IsScope(scope) ==
  scope = Root \/ (scope \in Seq(Nat) /\ scope # << >> /\ scope[1] \in DOMAIN Functions)

IsInner(scope) == IsScope(scope) /\ scope # Root

(* Only a new vector is not alive.                                         *)
Variables ==
  {v \in [scope : Seq(Nat), type : Types \cup {Untyped}, live : BOOLEAN] :
     /\ IsInner(v.scope)
     /\ v.live \/ (v.type # Untyped /\ v.type[1] = "vec")}

Environments == UNION {[D -> Variables] : D \in SUBSET Nat}

(* pending are the variables to be bound yet.                              *)
States ==
  {s \in [curr : Nat, manual : {<< >>, <<0>>, <<VectorDepth>>},
          concrete : [TypeParameters -> Seq(PlainTypes)],
          vars : Environments, pending : SUBSET Nat] :
     s.pending \subseteq DOMAIN s.vars}

(* The environment as it is, and as it is in the end.                      *)
Now(pend) ==
  [curr |-> depth.curr, manual |-> depth.manual, concrete |-> concrete,
   vars |-> vars, pending |-> pend]

AllUndone ==
  [curr |-> 0, manual |-> << >>, concrete |-> [tp \in TypeParameters |-> << >>],
   vars |-> << >>, pending |-> {}]

Fields(item, names) == names \subseteq DOMAIN item

HasValue(scope, vs, type) ==
  \E v \in DOMAIN vs : IsInScope(scope, vs[v].scope) /\ vs[v].type = type /\ vs[v].live

(* The types there are values of in a scope: they mention no type          *)
(* parameter but the function's own, and one of which there is a variable. *)
HasValues(scope, vs, type) ==
  Last(type) \in TypeParameters =>
    Last(type) \in LocalParameters(scope) /\ HasValue(scope, vs, <<Last(type)>>)

TypesOf(scope, vs) == {t \in ExprTypes : HasValues(scope, vs, t)}
OwnTypes(scope, vs) == {t \in Types : HasValues(scope, vs, t)}

(* While code of a scope is generated its own type parameters stand for    *)
(* themselves, whatever calls of its own function register, and the type   *)
(* arguments of other functions are types of the scope.                    *)
Fit(scope, vs, stacks) ==
  \A tp \in TypeParameters :
    stacks[tp] \in IF tp \in LocalParameters(scope)
                     THEN Seq({<<tp>>})
                     ELSE Seq(TypesOf(scope, vs) \cap PlainTypes)

(* Code can be generated in a scope: also a return from its function and   *)
(* the arguments of a call of the function by itself.                      *)
IsSite(scope, s) ==
  /\ IsScope(scope) /\ Fit(scope, s.vars, s.concrete)
  /\ scope = Root => s.manual = <<0>>
  /\ scope # Root =>
       /\ Functions[FunctionOf(scope)].ret \in TypesOf(scope, s.vars) \cup {Untyped}
       /\ ToSet(Functions[FunctionOf(scope)].params) \subseteq TypesOf(scope, s.vars)

(* The pending variables that have a type already and could be found.      *)
Hot(s) == {v \in s.pending : s.vars[v].type # Untyped}

(* No expression finds them: there are none, or they are vectors, and then *)
(* a limit set by hand is in force that keeps statements out.              *)
Sheltered(s) ==
  Hot(s) = {} \/ (s.manual # << >> /\ \A v \in Hot(s) : s.vars[v].type[1] = "vec")

(* What the fields of a struct are made of, the struct itself not.         *)
PartsOf(s) ==
  CHOOSE parts \in SUBSET (({Num} \cup StructTypes) \ {<<s>>}) :
    \A u \in DOMAIN StructFields :
      u = s \/ <<u>> \in parts => ToSet(StructFields[u]) \subseteq parts

(* Nothing nests, and the value is of another type than the variables that *)
(* could be found, or is not to be a variable.                             *)
Apart(item, s) ==
  /\ s.manual = <<0>>
  /\ \A v \in Hot(s) :
       LET struct == Last(s.vars[v].type)
       IN  item.want \in PartsOf(struct) \/ (item.want = <<struct>> /\ ~item.var)

IsInnerSite(scope, s) == IsSite(scope, s) /\ scope # Root /\ Sheltered(s)

(* One environment has the variables of another one, and more perhaps.     *)
Extends(vs, ws) == \A v \in DOMAIN ws : v \in DOMAIN vs /\ vs[v] = ws[v]

(* All that has a type in one environment has that type in the other.      *)
Keeps(vs, ws) ==
  \A v \in DOMAIN ws :
    /\ v \in DOMAIN vs /\ vs[v].scope = ws[v].scope /\ vs[v].live = ws[v].live
    /\ ws[v].type # Untyped => vs[v].type = ws[v].type

Bound(vs, id, type) == [vs EXCEPT ![id].type = type]

Awaiting(s, id) == [s EXCEPT !.pending = @ \cup {id}]
Completed(s, id, type) ==
  [s EXCEPT !.vars = Bound(@, id, type), !.pending = @ \ {id}]

-----------------------------------------------------------------------------
(* What the items need of the state they are met in.                       *)

NeedsOfUndoing(item, s) ==
  /\ item.do = "set_max_depth" => s.manual = << >> /\ item.limit \in {0, VectorDepth}
  /\ item.do = "reset_max_depth" => s.manual # << >>
  /\ item.do = "decrease_depth" => s.curr # 0
  /\ item.do = "unregister" =>
       /\ item.f \in DOMAIN Functions
       /\ \A tp \in ToSet(Functions[item.f].tps) : s.concrete[tp] # << >>

NeedsOfDefinitions(item, s) ==
  /\ item.do = "function" => item.f \in DOMAIN Functions
  /\ item.do \in {"function", "runners"} =>
       s.pending = {} /\ \A tp \in TypeParameters : s.concrete[tp] = << >>
  /\ item.do \in {"function", "runners", "statement", "operation"} => s.manual = << >>
  /\ item.do \in {"statement", "operation", "assignment", "result", "dereference", "block",
                  "block_return"} => IsInnerSite(item.scope, s)
  /\ item.do \in {"statement", "operation", "assignment"} => Hot(s) = {}
  /\ item.do \in {"bind", "result"} => item.type \in OwnTypes(item.scope, s.vars)
  /\ item.do = "bind" =>
       /\ item.id \in s.pending /\ s.vars[item.id].scope = item.scope
       /\ s.vars[item.id].type \in {Untyped, item.type}
       /\ item.type[1] = "vec" \/ s.vars[item.id].live
  /\ item.do = "record" =>
       /\ item.id \in DOMAIN s.vars \ s.pending /\ s.vars[item.id].type # Untyped
       /\ IsInScope(item.scope, s.vars[item.id].scope)
  /\ item.do = "dereference" => item.type \in PlainTypes \cap TypesOf(item.scope, s.vars)
  /\ item.do = "block" =>
       /\ Fields(item, {"do", "scope", "type", "want"})
       /\ item.type \in TypesOf(item.scope, s.vars) \cup {Untyped} /\ item.want = item.type
       /\ s.manual = << >> \/ s.curr # 0
  /\ item.do = "block_return" =>
       item.type \in TypesOf(item.scope, s.vars) /\ item.want = item.type

NeedsOfExpressions(item, s) ==
  /\ item.do \in {"call", "expression", "access", "nest"} => IsSite(item.scope, s)
  /\ item.do = "call" =>
       /\ item.f \in DOMAIN Functions
       /\ item.var \/ item.scope = Root
       /\ Sheltered(s)
  /\ item.do \in {"expression", "access", "nest"} =>
       /\ Sheltered(s) \/ Apart(item, s)
       /\ Fields(item, {"do", "scope", "type", "var", "call", "want"})
       /\ item.want \in TypesOf(item.scope, s.vars)
       /\ item.var \/ item.scope = Root \/ item.type \in StructTypes
  /\ item.do = "expression" =>
       /\ item.type \in PlainTypes \cup TypesOf(item.scope, s.vars)
       /\ MeaningIn(s.concrete, item.type) = item.want
  /\ item.do \in {"access", "nest"} => item.type = item.want

Needs(item, s) ==
  NeedsOfUndoing(item, s) /\ NeedsOfDefinitions(item, s) /\ NeedsOfExpressions(item, s)

(* What generating an item comes to in the end.                            *)
Moves(item, s, t) ==
  /\ t.curr = IF item.do = "decrease_depth" THEN s.curr - 1 ELSE s.curr
  /\ t.manual = CASE item.do = "set_max_depth" -> <<item.limit>>
                  [] item.do = "reset_max_depth" -> << >>
                  [] OTHER -> s.manual
  /\ t.concrete = IF item.do = "unregister"
                    THEN [tp \in TypeParameters |->
                            IF tp \in ToSet(Functions[item.f].tps)
                              THEN Front(s.concrete[tp]) ELSE s.concrete[tp]]
                    ELSE s.concrete
  /\ t.pending = IF item.do = "bind" THEN s.pending \ {item.id} ELSE s.pending
  /\ Extends(CASE item.do = "bind" -> Bound(s.vars, item.id, item.type)
               [] item.do \in {"function", "runners"} -> << >>
               [] OTHER -> s.vars, t.vars)
  /\ Needs(item, s)

AtLeast(s, t) ==
  /\ s.curr = t.curr /\ s.manual = t.manual /\ s.concrete = t.concrete
  /\ s.pending = t.pending /\ Extends(s.vars, t.vars)

IsPlan(p, items, s, t) ==
  /\ p \in [1 .. Len(items) + 1 -> States]
  /\ AtLeast(s, p[1])
  /\ p[Len(items) + 1] = t
  /\ \A i \in 1 .. Len(items) : Moves(items[i], p[i], p[i + 1])

Plan(items, s, t) ==
  IsSequence(items) /\ \E p \in [1 .. Len(items) + 1 -> States] : IsPlan(p, items, s, t)

-----------------------------------------------------------------------------
(* Sequences.                                                              *)

LEMMA SequenceOf == ASSUME NEW S, NEW s \in Seq(S) PROVE IsSequence(s)
BY DEF IsSequence, ToSet

LEMMA SequenceLen ==
  ASSUME NEW s, IsSequence(s)
  PROVE  Len(s) \in Nat /\ DOMAIN s = 1 .. Len(s)
BY DEF IsSequence

LEMMA SequenceConcat ==
  ASSUME NEW a, NEW b, IsSequence(a), IsSequence(b)
  PROVE  /\ IsSequence(a \o b)
         /\ Len(a \o b) = Len(a) + Len(b)
         /\ \A i \in 1 .. Len(a) + Len(b) :
              (a \o b)[i] = IF i <= Len(a) THEN a[i] ELSE b[i - Len(a)]
<1> DEFINE S == ToSet(a) \cup ToSet(b)
<1>1. a \in Seq(S) /\ b \in Seq(S)
  BY SeqMonotonic DEF IsSequence
<1>2. a \o b \in Seq(S)
  BY <1>1, ConcatProperties
<1> QED BY <1>1, <1>2, SequenceOf, ConcatProperties

LEMMA SequenceTail ==
  ASSUME NEW s, IsSequence(s), s # << >>
  PROVE  /\ IsSequence(Tail(s)) /\ Len(s) \in Nat \ {0}
         /\ Head(s) = s[1]
         /\ Len(Tail(s)) = Len(s) - 1
         /\ \A i \in 1 .. Len(Tail(s)) : Tail(s)[i] = s[i + 1]
<1>1. s \in Seq(ToSet(s))
  BY DEF IsSequence
<1>2. Tail(s) \in Seq(ToSet(s))
  BY <1>1, HeadTailProperties
<1>3. Len(s) \in Nat \ {0} /\ Head(s) = s[1]
  BY <1>1, EmptySeq
<1>4. Len(Tail(s)) = Len(s) - 1 /\ \A i \in 1 .. Len(Tail(s)) : Tail(s)[i] = s[i + 1]
  BY <1>1, HeadTailProperties
<1> QED BY <1>2, <1>3, <1>4, SequenceOf

LEMMA SequenceAppend ==
  ASSUME NEW s, NEW e, IsSequence(s)
  PROVE  /\ IsSequence(Append(s, e)) /\ Append(s, e) # << >>
         /\ Append(s, e) = s \o <<e>>
         /\ Len(Append(s, e)) = Len(s) + 1
         /\ \A i \in 1 .. Len(s) : Append(s, e)[i] = s[i]
         /\ Append(s, e)[Len(s) + 1] = e
<1> DEFINE S == ToSet(s) \cup {e}
<1>1. s \in Seq(S) /\ e \in S
  BY SeqMonotonic DEF IsSequence
<1> HIDE DEF S
<1>2. /\ Append(s, e) \in Seq(S) /\ Append(s, e) # << >>
      /\ Len(Append(s, e)) = Len(s) + 1
      /\ \A i \in 1 .. Len(s) : Append(s, e)[i] = s[i]
      /\ Append(s, e)[Len(s) + 1] = e
  BY <1>1, AppendProperties
<1>3. Append(s, e) = s \o <<e>>
  BY <1>1, AppendIsConcat
<1> QED BY <1>2, <1>3, SequenceOf

LEMMA Tuples ==
  /\ IsSequence(<< >>) /\ Len(<< >>) = 0
  /\ \A a : IsSequence(<<a>>) /\ Len(<<a>>) = 1
  /\ \A a, b : IsSequence(<<a, b>>) /\ Len(<<a, b>>) = 2
  /\ \A a, b, c : IsSequence(<<a, b, c>>) /\ Len(<<a, b, c>>) = 3
<1>1. << >> \in Seq({})
  OBVIOUS
<1>2. \A a : <<a>> \in Seq({a})
  OBVIOUS
<1>3. \A a, b : <<a, b>> \in Seq({a, b})
  OBVIOUS
<1>4. \A a, b, c : <<a, b, c>> \in Seq({a, b, c})
  OBVIOUS
<1> QED BY <1>1, <1>2, <1>3, <1>4, SequenceOf

LEMMA SequenceOver ==
  ASSUME NEW S, NEW s, IsSequence(s), \A i \in DOMAIN s : s[i] \in S
  PROVE  s \in Seq(S)
<1>1. Len(s) \in Nat /\ DOMAIN s = 1 .. Len(s) /\ s \in Seq(ToSet(s))
  BY SequenceLen DEF IsSequence
<1>2. s \in [1 .. Len(s) -> S]
  BY <1>1
<1> QED BY <1>1, <1>2, SeqDef

LEMMA IndexedSequence ==
  ASSUME NEW n \in Nat, NEW f, f = [i \in 1 .. n |-> f[i]]
  PROVE  IsSequence(f) /\ Len(f) = n /\ DOMAIN f = 1 .. n
<1>1. f \in [1 .. n -> ToSet(f)]
  BY DEF ToSet
<1>2. f \in Seq(ToSet(f))
  BY <1>1, SeqDef
<1> QED BY <1>1, <1>2 DEF IsSequence

LEMMA FunctionSequence ==
  ASSUME NEW S, NEW n \in Nat, NEW s \in [1 .. n -> S]
  PROVE  s \in Seq(S)
BY SeqDef

LEMMA PrefixPoints ==
  ASSUME NEW a \in Seq(Nat), NEW b \in Seq(Nat)
  PROVE  IsPrefix(a, b) <=> Len(a) <= Len(b) /\ \A i \in 1 .. Len(a) : b[i] = a[i]
<1>1. Len(a) \in Nat /\ Len(b) \in Nat
  OBVIOUS
<1>2. SubSeq(a, 1, Len(a)) = a
  <2>1. \A i \in 1 .. Len(a) : a[i] \in Nat
    BY ElementOfSeq
  <2>2. SubSeq(a, 1, Len(a)) \in Seq(Nat) /\ Len(SubSeq(a, 1, Len(a))) = Len(a)
    BY <1>1, <2>1, SubSeqProperties
  <2>3. \A i \in 1 .. Len(a) - 1 + 1 : SubSeq(a, 1, Len(a))[i] = a[1 + i - 1]
    BY <1>1, <2>1, SubSeqProperties
  <2>4. \A i \in 1 .. Len(a) : SubSeq(a, 1, Len(a))[i] = a[i]
    BY <1>1, <2>3
  <2> QED BY <2>2, <2>4, SeqEqual
<1>3. ASSUME Len(a) <= Len(b)
      PROVE  /\ SubSeq(b, 1, Len(a)) \in Seq(Nat) /\ Len(SubSeq(b, 1, Len(a))) = Len(a)
             /\ \A i \in 1 .. Len(a) : SubSeq(b, 1, Len(a))[i] = b[i]
  <2>1. \A i \in 1 .. Len(a) : b[i] \in Nat
    BY <1>1, <1>3, ElementOfSeq
  <2>2. SubSeq(b, 1, Len(a)) \in Seq(Nat) /\ Len(SubSeq(b, 1, Len(a))) = Len(a)
    BY <1>1, <2>1, SubSeqProperties
  <2>3. \A i \in 1 .. Len(a) - 1 + 1 : SubSeq(b, 1, Len(a))[i] = b[1 + i - 1]
    BY <1>1, <2>1, SubSeqProperties
  <2> QED BY <1>1, <2>2, <2>3
<1>4. ASSUME IsPrefix(a, b)
      PROVE  Len(a) <= Len(b) /\ \A i \in 1 .. Len(a) : b[i] = a[i]
  <2>1. Len(a) <= Len(b) /\ SubSeq(b, 1, Len(a)) = a
    BY <1>2, <1>4 DEF IsPrefix
  <2> QED BY <2>1, <1>3
<1>5. ASSUME Len(a) <= Len(b), \A i \in 1 .. Len(a) : b[i] = a[i]
      PROVE  IsPrefix(a, b)
  <2>1. SubSeq(b, 1, Len(a)) = a
    BY <1>3, <1>5, SeqEqual
  <2> QED BY <2>1, <1>2, <1>5 DEF IsPrefix
<1> QED BY <1>4, <1>5

LEMMA PrefixTransitive ==
  ASSUME NEW a \in Seq(Nat), NEW b \in Seq(Nat), NEW c \in Seq(Nat),
         IsPrefix(a, b), IsPrefix(b, c)
  PROVE  IsPrefix(a, c)
<1>1. Len(a) <= Len(b) /\ \A i \in 1 .. Len(a) : b[i] = a[i]
  BY PrefixPoints
<1>2. Len(b) <= Len(c) /\ \A i \in 1 .. Len(b) : c[i] = b[i]
  BY PrefixPoints
<1>3. Len(a) \in Nat /\ Len(b) \in Nat /\ Len(c) \in Nat
  OBVIOUS
<1>4. Len(a) <= Len(c) /\ \A i \in 1 .. Len(a) : c[i] = a[i]
  BY <1>1, <1>2, <1>3
<1> QED BY <1>4, PrefixPoints

LEMMA PrefixAppend ==
  ASSUME NEW a \in Seq(Nat), NEW n \in Nat
  PROVE  Append(a, n) \in Seq(Nat) /\ IsPrefix(a, Append(a, n)) /\ IsPrefix(a, a)
<1>1. /\ Append(a, n) \in Seq(Nat) /\ Len(a) <= Len(Append(a, n)) /\ Len(a) <= Len(a)
      /\ \A i \in 1 .. Len(a) : Append(a, n)[i] = a[i]
  BY AppendProperties
<1> QED BY <1>1, PrefixPoints

LEMMA Smallest ==
  ASSUME NEW S, S \subseteq Nat, S # {}
  PROVE  \E m \in S : \A k \in S : ~(k < m)
<1> DEFINE less == {p \in Nat \X Nat : p[1] < p[2]}
<1>1. IsWellFoundedOn(less, Nat)
  BY NatLessThanWellFounded DEF OpToRel
<1> HIDE DEF less
<1>2. PICK m \in S : \A k \in S : ~(<<k, m>> \in less)
  BY <1>1, WFMin
<1>3. \A k \in S : ~(k < m)
  BY <1>2 DEF less
<1> QED BY <1>3

(* Of one number more than there are in use, one is free, and a smallest.  *)
LEMMA SmallestFree ==
  ASSUME NEW n \in Nat, NEW number, NEW users \in SUBSET (1 .. n)
  PROVE  LET used == {number[v] : v \in users}
         IN  \E m \in 1 .. n + 1 : m \notin used /\ \A k \in 1 .. m - 1 : k \in used
<1> DEFINE used == {number[v] : v \in users}
           free == (1 .. n + 1) \ used
<1>1. free # {}
  <2> SUFFICES ASSUME \A m \in 1 .. n + 1 : m \in used PROVE FALSE
    OBVIOUS
  <2> DEFINE user == [m \in 1 .. n + 1 |-> CHOOSE v \in users : number[v] = m]
  <2>1. \A m \in 1 .. n + 1 : user[m] \in 1 .. n /\ number[user[m]] = m
    OBVIOUS
  <2>2. user \in [1 .. n + 1 -> 1 .. n]
    BY <2>1
  <2>3. /\ IsFiniteSet(1 .. n) /\ IsFiniteSet(1 .. n + 1)
        /\ Cardinality(1 .. n) < Cardinality(1 .. n + 1)
    BY FS_Interval
  <2> HIDE DEF user
  <2>4. \E x, y \in 1 .. n + 1 : x # y /\ user[x] = user[y]
    BY <2>2, <2>3, FS_PigeonHole
  <2> QED BY <2>1, <2>4
<1>2. free \subseteq Nat
  OBVIOUS
<1> HIDE DEF free
<1>3. PICK m \in free : \A k \in free : ~(k < m)
  BY <1>1, <1>2, Smallest
<1> QED BY <1>3 DEF free

-----------------------------------------------------------------------------
(* Types.                                                                  *)

LEMMA PairOf == ASSUME NEW x, NEW y PROVE <<x>> \o <<y>> = <<x, y>>
<1> DEFINE S == {x, y}
           a == <<x>>
           b == <<y>>
           c == <<x, y>>
<1>1. /\ a \in Seq(S) /\ Len(a) = 1 /\ a[1] = x
      /\ b \in Seq(S) /\ Len(b) = 1 /\ b[1] = y
      /\ c \in Seq(S) /\ Len(c) = 2 /\ c[1] = x /\ c[2] = y
  OBVIOUS
<1> HIDE DEF S, a, b, c
<1>2. /\ a \o b \in Seq(S) /\ Len(a \o b) = Len(a) + Len(b)
      /\ \A i \in 1 .. Len(a) + Len(b) :
           (a \o b)[i] = IF i <= Len(a) THEN a[i] ELSE b[i - Len(a)]
  BY <1>1, ConcatProperties
<1>3. Len(a \o b) = 2 /\ (a \o b)[1] = x /\ (a \o b)[2] = y
  BY <1>1, <1>2
<1>4. a \o b = c
  BY <1>1, <1>2, <1>3, SeqEqual
<1> QED BY <1>4 DEF a, b, c

LEMMA FrontOfPair == ASSUME NEW x, NEW y PROVE SubSeq(<<x, y>>, 1, 1) = <<x>>
<1> DEFINE S == {x, y}
           a == <<x>>
           c == <<x, y>>
<1>1. /\ a \in Seq(S) /\ Len(a) = 1 /\ a[1] = x
      /\ c \in Seq(S) /\ Len(c) = 2 /\ c[1] = x
  OBVIOUS
<1> HIDE DEF S, a, c
<1>2. \A i \in 1 .. 1 : c[i] \in S
  BY <1>1
<1>3. SubSeq(c, 1, 1) \in Seq(S) /\ Len(SubSeq(c, 1, 1)) = 1
  BY <1>1, <1>2, SubSeqProperties
<1>4. \A i \in 1 .. 1 - 1 + 1 : SubSeq(c, 1, 1)[i] = c[1 + i - 1]
  BY <1>1, <1>2, SubSeqProperties
<1>5. SubSeq(c, 1, 1)[1] = x
  BY <1>1, <1>4
<1>6. SubSeq(c, 1, 1) = a
  BY <1>1, <1>3, <1>5, SeqEqual
<1> QED BY <1>6 DEF a, c

LEMMA PlainShape ==
  ASSUME NEW t \in PlainTypes
  PROVE  /\ Len(t) = 1 /\ t # Untyped /\ ~IsRef(t) /\ t[1] # "vec"
         /\ t = <<t[1]>> /\ Last(t) = t[1] /\ Front(t) = << >>
<1>1. PICK x : t = <<x>> /\ x \notin {"&", "&mut", "vec"}
  BY GeneratorAssumption DEF PlainTypes, StructTypes, Num
<1> QED BY <1>1 DEF Untyped, IsRef, Last, Front

LEMMA ReferenceShape ==
  ASSUME NEW t \in References
  PROVE  /\ Len(t) = 2 /\ t # Untyped /\ IsRef(t) /\ t[1] # "vec" /\ Tail(t) \in PlainTypes
         /\ t[1] \in {"&", "&mut"} /\ Front(t) = <<t[1]>> /\ Last(Tail(t)) = Last(t)
<1>1. PICK r \in {"&", "&mut"}, u \in PlainTypes : t = <<r>> \o u
  BY SMTT(30) DEF References
<1> DEFINE x == u[1]
<1>2. u = <<x>>
  BY <1>1, PlainShape
<1> HIDE DEF x
<1>3. t = <<r, x>>
  BY <1>1, <1>2, PairOf
<1>4. /\ Len(t) = 2 /\ t # << >> /\ t[1] = r /\ Tail(t) = u
  BY <1>2, <1>3
<1>5. Front(t) = <<r>>
  BY <1>3, <1>4, FrontOfPair DEF Front
<1>6. Last(t) = x /\ Last(u) = x
  BY <1>2, <1>3 DEF Last
<1> QED BY <1>1, <1>4, <1>5, <1>6 DEF IsRef, Untyped

LEMMA VectorTypes ==
  ASSUME NEW u \in PlainTypes
  PROVE  LET t == <<"vec">> \o u
         IN  t \in Types /\ t[1] = "vec" /\ Tail(t) = u /\ Last(t) = Last(u) /\ t # Untyped
<1> DEFINE x == u[1]
<1>1. u = <<x>> /\ Last(u) = x
  BY PlainShape
<1> HIDE DEF x
<1>2. <<"vec">> \o u = <<"vec", x>>
  BY <1>1, PairOf
<1>3. /\ <<"vec", x>>[1] = "vec" /\ Tail(<<"vec", x>>) = <<x>> /\ <<"vec", x>> # << >>
      /\ Last(<<"vec", x>>) = x
  BY DEF Last
<1> QED BY <1>1, <1>2, <1>3 DEF Types, Untyped

LEMMA VectorShape ==
  ASSUME NEW t \in Types, t[1] = "vec"
  PROVE  Tail(t) \in PlainTypes /\ Last(Tail(t)) = Last(t)
<1>1. PICK u \in PlainTypes : t = <<"vec">> \o u
  BY PlainShape, ReferenceShape DEF Types
<1> QED BY <1>1, VectorTypes

LEMMA NoTypeIsUntyped == Untyped \notin Types /\ Untyped \notin ExprTypes
BY PlainShape, ReferenceShape, VectorTypes DEF Types, ExprTypes

LEMMA ReferencesTo ==
  \A t \in PlainTypes, r \in {"&", "&mut"} : <<r>> \o t \in References
BY DEF References

-----------------------------------------------------------------------------
(* Environments: the more there is in one, the more types have a value.    *)

LEMMA EnvironmentOf ==
  ASSUME NEW vs \in Environments
  PROVE  /\ DOMAIN vs \subseteq Nat /\ vs \in [DOMAIN vs -> Variables]
         /\ \A v \in DOMAIN vs : vs[v] \in Variables
<1>1. PICK D \in SUBSET Nat : vs \in [D -> Variables]
  BY DEF Environments
<1> QED BY <1>1

LEMMA ExtendsKeeps ==
  ASSUME NEW vs, NEW ws, Extends(vs, ws)
  PROVE  Keeps(vs, ws)
BY DEF Extends, Keeps

LEMMA BoundRecord ==
  ASSUME NEW vs \in Environments, NEW id \in DOMAIN vs, NEW type
  PROVE  Bound(vs, id, type)[id] = [scope |-> vs[id].scope, type |-> type, live |-> vs[id].live]
<1>1. vs[id] \in [scope : Seq(Nat), type : Types \cup {Untyped}, live : BOOLEAN]
  BY EnvironmentOf DEF Variables
<1>2. [vs[id] EXCEPT !.type = type] = [scope |-> vs[id].scope, type |-> type, live |-> vs[id].live]
  BY <1>1
<1> QED BY <1>2 DEF Bound

LEMMA BoundVariable ==
  ASSUME NEW vs \in Environments, NEW id \in DOMAIN vs, NEW type
  PROVE  LET bound == Bound(vs, id, type)
         IN  /\ DOMAIN bound = DOMAIN vs /\ \A v \in DOMAIN vs : v # id => bound[v] = vs[v]
             /\ bound[id].scope = vs[id].scope /\ bound[id].type = type
<1> DEFINE bound == Bound(vs, id, type)
<1>1. bound[id] = [scope |-> vs[id].scope, type |-> type, live |-> vs[id].live]
  BY BoundRecord
<1>2. DOMAIN bound = DOMAIN vs /\ \A v \in DOMAIN vs : v # id => bound[v] = vs[v]
  BY DEF Bound
<1> HIDE DEF bound
<1>3. bound[id].scope = vs[id].scope /\ bound[id].type = type
  BY <1>1
<1> QED BY <1>2, <1>3 DEF bound

LEMMA BoundKeeps ==
  ASSUME NEW vs \in Environments, NEW id \in DOMAIN vs, NEW type, vs[id].type \in {Untyped, type}
  PROVE  Keeps(Bound(vs, id, type), vs)
<1> DEFINE bound == Bound(vs, id, type)
<1>1. /\ DOMAIN bound = DOMAIN vs
      /\ \A v \in DOMAIN vs : v # id => bound[v] = vs[v]
      /\ bound[id] = [scope |-> vs[id].scope, type |-> type, live |-> vs[id].live]
  BY BoundVariable, BoundRecord
<1> HIDE DEF bound
<1> SUFFICES ASSUME NEW v \in DOMAIN vs
             PROVE  /\ v \in DOMAIN bound /\ bound[v].scope = vs[v].scope
                    /\ bound[v].live = vs[v].live
                    /\ vs[v].type # Untyped => bound[v].type = vs[v].type
  BY DEF Keeps, bound
<1>2. CASE v # id
  BY <1>1, <1>2
<1>3. CASE v = id
  <2>1. bound[v].scope = vs[v].scope /\ bound[v].type = type /\ bound[v].live = vs[v].live
    BY <1>1, <1>3
  <2> QED BY <2>1, <1>1, <1>3
<1> QED BY <1>2, <1>3

LEMMA BoundIsEnvironment ==
  ASSUME NEW vs \in Environments, NEW id \in DOMAIN vs, NEW type \in Types,
         type[1] = "vec" \/ vs[id].live
  PROVE  Bound(vs, id, type) \in Environments
<1> DEFINE bound == Bound(vs, id, type)
<1>1. [scope |-> vs[id].scope, type |-> type, live |-> vs[id].live] \in Variables
  BY EnvironmentOf, NoTypeIsUntyped DEF Variables
<1>2. \A v \in DOMAIN vs : bound[v] \in Variables
  BY <1>1, BoundVariable, BoundRecord, EnvironmentOf
<1>3. DOMAIN bound = DOMAIN vs /\ bound = [v \in DOMAIN vs |-> bound[v]]
  BY BoundVariable DEF Bound
<1> HIDE DEF bound
<1>4. bound \in [DOMAIN vs -> Variables] /\ DOMAIN vs \in SUBSET Nat
  BY <1>2, <1>3, EnvironmentOf
<1> QED BY <1>4 DEF Environments, bound

LEMMA BoundGrows ==
  ASSUME NEW vs, NEW ws, Extends(vs, ws), NEW id \in DOMAIN ws, NEW type
  PROVE  Extends(Bound(vs, id, type), Bound(ws, id, type))
BY DEF Extends, Bound

LEMMA ExtendsTransitive ==
  ASSUME NEW us, NEW vs, NEW ws, Extends(us, vs), Extends(vs, ws)
  PROVE  Extends(us, ws)
BY DEF Extends

LEMMA ValuesGrow ==
  ASSUME NEW vs, NEW ws, Keeps(vs, ws), NEW scope
  PROVE  /\ TypesOf(scope, ws) \subseteq TypesOf(scope, vs)
         /\ OwnTypes(scope, ws) \subseteq OwnTypes(scope, vs)
         /\ \A stacks : Fit(scope, ws, stacks) => Fit(scope, vs, stacks)
<1>1. \A tp : HasValue(scope, ws, <<tp>>) => HasValue(scope, vs, <<tp>>)
  <2> SUFFICES ASSUME NEW tp, NEW v \in DOMAIN ws, IsInScope(scope, ws[v].scope),
                      ws[v].type = <<tp>>, ws[v].live
               PROVE  HasValue(scope, vs, <<tp>>)
    BY DEF HasValue
  <2>1. <<tp>> # Untyped
    BY DEF Untyped
  <2> QED BY <2>1 DEF HasValue, Keeps
<1>2. /\ TypesOf(scope, ws) \subseteq TypesOf(scope, vs)
      /\ OwnTypes(scope, ws) \subseteq OwnTypes(scope, vs)
  BY <1>1 DEF TypesOf, OwnTypes, HasValues
<1>3. Seq(TypesOf(scope, ws) \cap PlainTypes) \subseteq Seq(TypesOf(scope, vs) \cap PlainTypes)
  BY <1>2, SeqMonotonic
<1> QED BY <1>2, <1>3 DEF Fit

(* What has a value in a scope has one in the scopes within.               *)
LEMMA ValuesWithin ==
  ASSUME NEW vs \in Environments, NEW a \in Seq(Nat), NEW b \in Seq(Nat), IsPrefix(a, b),
         LocalParameters(a) = LocalParameters(b)
  PROVE  /\ TypesOf(a, vs) \subseteq TypesOf(b, vs)
         /\ OwnTypes(a, vs) \subseteq OwnTypes(b, vs)
         /\ \A stacks : Fit(a, vs, stacks) => Fit(b, vs, stacks)
<1>1. \A type : HasValue(a, vs, type) => HasValue(b, vs, type)
  <2> SUFFICES ASSUME NEW type, NEW v \in DOMAIN vs, IsInScope(a, vs[v].scope),
                      vs[v].type = type, vs[v].live
               PROVE  HasValue(b, vs, type)
    BY DEF HasValue
  <2>1. vs[v].scope \in Seq(Nat)
    BY EnvironmentOf DEF Variables
  <2>2. IsInScope(b, vs[v].scope)
    BY <2>1, PrefixTransitive DEF IsInScope
  <2> QED BY <2>2 DEF HasValue
<1>2. TypesOf(a, vs) \subseteq TypesOf(b, vs) /\ OwnTypes(a, vs) \subseteq OwnTypes(b, vs)
  BY <1>1 DEF TypesOf, OwnTypes, HasValues
<1>3. Seq(TypesOf(a, vs) \cap PlainTypes) \subseteq Seq(TypesOf(b, vs) \cap PlainTypes)
  BY <1>2, SeqMonotonic
<1> QED BY <1>2, <1>3 DEF Fit

LEMMA HotGrows ==
  ASSUME NEW r, NEW s \in States, AtLeast(r, s)
  PROVE  /\ Hot(r) = Hot(s) /\ \A v \in Hot(s) : r.vars[v] = s.vars[v]
         /\ Sheltered(s) => Sheltered(r)
         /\ \A item : Apart(item, s) => Apart(item, r)
<1>1. r.manual = s.manual /\ r.pending = s.pending /\ \A v \in s.pending : r.vars[v] = s.vars[v]
  BY DEF AtLeast, Extends, States
<1>2. Hot(r) = Hot(s) /\ \A v \in Hot(s) : r.vars[v] = s.vars[v]
  BY <1>1 DEF Hot
<1> QED BY <1>1, <1>2 DEF Sheltered, Apart

LEMMA SiteGrows ==
  ASSUME NEW r, NEW s \in States, AtLeast(r, s), NEW scope
  PROVE  /\ IsSite(scope, s) => IsSite(scope, r)
         /\ IsInnerSite(scope, s) => IsInnerSite(scope, r)
<1>1. Keeps(r.vars, s.vars)
  BY ExtendsKeeps DEF AtLeast
<1>2. IsSite(scope, s) => IsSite(scope, r)
  BY <1>1, ValuesGrow DEF IsSite, AtLeast
<1> QED BY <1>2, HotGrows DEF IsInnerSite

LEMMA AtLeastTransitive ==
  ASSUME NEW r, NEW s, NEW t, AtLeast(r, s), AtLeast(s, t)
  PROVE  AtLeast(r, t)
BY DEF AtLeast, Extends

LEMMA AtLeastItself == \A s : AtLeast(s, s)
BY DEF AtLeast, Extends

-----------------------------------------------------------------------------
(* Plans.                                                                  *)

LEMMA MovesMore ==
  ASSUME NEW item, NEW r, NEW s \in States, NEW t, Moves(item, s, t), AtLeast(r, s)
  PROVE  Moves(item, r, t)
<1>1. \A scope : /\ IsSite(scope, s) => IsSite(scope, r)
                 /\ IsInnerSite(scope, s) => IsInnerSite(scope, r)
                 /\ TypesOf(scope, s.vars) \subseteq TypesOf(scope, r.vars)
                 /\ OwnTypes(scope, s.vars) \subseteq OwnTypes(scope, r.vars)
  <2>1. Keeps(r.vars, s.vars)
    BY ExtendsKeeps DEF AtLeast
  <2> QED BY <2>1, SiteGrows, ValuesGrow
<1>2. /\ r.curr = s.curr /\ r.manual = s.manual /\ r.concrete = s.concrete
      /\ r.pending = s.pending /\ s.pending \subseteq DOMAIN s.vars
      /\ \A v \in DOMAIN s.vars : v \in DOMAIN r.vars /\ r.vars[v] = s.vars[v]
  BY DEF AtLeast, Extends, States
<1>h. /\ Hot(r) = Hot(s) /\ (Sheltered(s) => Sheltered(r))
      /\ Apart(item, s) => Apart(item, r)
  BY HotGrows
<1>3. Needs(item, s)
  BY DEF Moves
<1>4. NeedsOfUndoing(item, r)
  BY <1>2, <1>3 DEF Needs, NeedsOfUndoing
<1>5. NeedsOfDefinitions(item, r)
  BY <1>1, <1>2, <1>3, <1>h DEF Needs, NeedsOfDefinitions
<1>6. NeedsOfExpressions(item, r)
  BY <1>1, <1>2, <1>3, <1>h DEF Needs, NeedsOfExpressions
<1>7. item.do = "bind" => Extends(Bound(r.vars, item.id, item.type), t.vars)
  <2> SUFFICES ASSUME item.do = "bind" PROVE Extends(Bound(r.vars, item.id, item.type), t.vars)
    OBVIOUS
  <2>1. item.id \in DOMAIN s.vars
    BY <1>2, <1>3 DEF Needs, NeedsOfDefinitions
  <2>2. Extends(Bound(s.vars, item.id, item.type), t.vars)
    BY DEF Moves
  <2> QED BY <2>1, <2>2, BoundGrows, ExtendsTransitive DEF AtLeast
<1>8. item.do \notin {"bind", "function", "runners"} => Extends(r.vars, t.vars)
  BY ExtendsTransitive DEF Moves, AtLeast
<1>9. Extends(CASE item.do = "bind" -> Bound(r.vars, item.id, item.type)
                [] item.do \in {"function", "runners"} -> << >>
                [] OTHER -> r.vars, t.vars)
  BY <1>7, <1>8 DEF Moves
<1> QED BY <1>2, <1>4, <1>5, <1>6, <1>9 DEF Moves, Needs

LEMMA PlanWeaken ==
  ASSUME NEW items, NEW s, NEW r, NEW t, Plan(items, s, t), AtLeast(r, s)
  PROVE  Plan(items, r, t)
<1>1. PICK p \in [1 .. Len(items) + 1 -> States] : IsPlan(p, items, s, t)
  BY DEF Plan
<1>2. IsPlan(p, items, r, t)
  BY <1>1, AtLeastTransitive DEF IsPlan
<1> QED BY <1>2 DEF Plan

LEMMA PlanStays ==
  ASSUME NEW items, IsSequence(items), NEW s \in States,
         \A i \in 1 .. Len(items) : Moves(items[i], s, s)
  PROVE  Plan(items, s, s)
<1> DEFINE p == [i \in 1 .. Len(items) + 1 |-> s]
<1>1. Len(items) \in Nat
  BY SequenceLen
<1>2. IsPlan(p, items, s, s)
  BY <1>1, AtLeastItself DEF IsPlan
<1> QED BY <1>2 DEF Plan, IsPlan

LEMMA PlanOne ==
  ASSUME NEW a, NEW s \in States, NEW t \in States, Moves(a, s, t)
  PROVE  Plan(<<a>>, s, t)
<1> DEFINE p == [i \in 1 .. 2 |-> IF i = 1 THEN s ELSE t]
<1>1. Len(<<a>>) = 1 /\ IsSequence(<<a>>) /\ <<a>>[1] = a
  BY Tuples
<1>2. /\ p \in [1 .. Len(<<a>>) + 1 -> States] /\ p[1] = s /\ p[2] = t
  BY <1>1
<1>3. \A i \in 1 .. Len(<<a>>) : Moves(<<a>>[i], p[i], p[i + 1])
  <2> SUFFICES ASSUME NEW i \in 1 .. Len(<<a>>) PROVE Moves(<<a>>[i], p[i], p[i + 1])
    OBVIOUS
  <2>1. i = 1
    BY <1>1
  <2> QED BY <2>1, <1>1, <1>2
<1>4. IsPlan(p, <<a>>, s, t)
  BY <1>1, <1>2, <1>3, AtLeastItself DEF IsPlan
<1> QED BY <1>1, <1>2, <1>4 DEF Plan

LEMMA PlanEmpty ==
  ASSUME NEW s, NEW t \in States, AtLeast(s, t)
  PROVE  Plan(<< >>, s, t)
<1> DEFINE p == [i \in 1 .. 1 |-> t]
<1>1. IsPlan(p, << >>, s, t)
  BY Tuples DEF IsPlan
<1> QED BY <1>1, Tuples DEF Plan, IsPlan

LEMMA MovesLess ==
  ASSUME NEW item, NEW s, NEW t, NEW u, Moves(item, s, t), AtLeast(t, u)
  PROVE  Moves(item, s, u)
BY ExtendsTransitive DEF Moves, AtLeast

LEMMA PlanConcat ==
  ASSUME NEW a, NEW b, NEW s, NEW t, NEW u, Plan(a, s, t), Plan(b, t, u)
  PROVE  Plan(a \o b, s, u)
<1>1. PICK p \in [1 .. Len(a) + 1 -> States] : IsPlan(p, a, s, t)
  BY DEF Plan
<1>2. PICK q \in [1 .. Len(b) + 1 -> States] : IsPlan(q, b, t, u)
  BY DEF Plan
<1> DEFINE n == Len(a)
           m == Len(b)
           c == a \o b
           r == [i \in 1 .. n + m + 1 |-> IF i <= n THEN p[i] ELSE q[i - n]]
<1>3. /\ n \in Nat /\ m \in Nat /\ IsSequence(c) /\ Len(c) = n + m
      /\ \A i \in 1 .. n + m : c[i] = IF i <= n THEN a[i] ELSE b[i - n]
  BY SequenceConcat, SequenceLen DEF Plan
<1> HIDE DEF n, m, c
<1>4. r \in [1 .. n + m + 1 -> States]
  BY <1>1, <1>2, <1>3 DEF n, m
<1>5. AtLeast(s, r[1])
  BY <1>1, <1>2, <1>3, AtLeastTransitive DEF IsPlan, n, m
<1>6. r[n + m + 1] = u
  BY <1>2, <1>3 DEF IsPlan, n, m
<1>7. \A i \in 1 .. n + m : Moves(c[i], r[i], r[i + 1])
  <2> SUFFICES ASSUME NEW i \in 1 .. n + m PROVE Moves(c[i], r[i], r[i + 1])
    OBVIOUS
  <2>1. CASE i < n
    <3>1. c[i] = a[i] /\ r[i] = p[i] /\ r[i + 1] = p[i + 1] /\ i \in 1 .. n
      BY <2>1, <1>3
    <3> QED BY <3>1, <1>1 DEF IsPlan, n
  <2>2. CASE i = n
    <3>1. c[i] = a[i] /\ r[i] = p[i] /\ r[i + 1] = q[1] /\ i \in 1 .. n
      BY <2>2, <1>3
    <3>2. Moves(a[i], p[i], t) /\ AtLeast(t, q[1])
      BY <1>1, <1>2, <2>2, <3>1 DEF IsPlan, n
    <3>3. Moves(a[i], p[i], q[1])
      BY <3>2, MovesLess
    <3> QED BY <3>1, <3>3
  <2>3. CASE i > n
    <3>1. c[i] = b[i - n] /\ r[i] = q[i - n] /\ r[i + 1] = q[(i - n) + 1] /\ i - n \in 1 .. m
      BY <2>3, <1>3
    <3> QED BY <3>1, <1>2 DEF IsPlan, m
  <2>4. i < n \/ i = n \/ i > n
    BY <1>3
  <2> QED BY <2>1, <2>2, <2>3, <2>4
<1>8. IsPlan(r, c, s, u)
  BY <1>3, <1>4, <1>5, <1>6, <1>7 DEF IsPlan
<1> QED BY <1>3, <1>4, <1>8 DEF Plan, c

LEMMA PlanStep ==
  ASSUME NEW items, NEW s, NEW t, Plan(items, s, t), items # << >>
  PROVE  \E u \in States : Moves(Head(items), s, u) /\ Plan(Tail(items), u, t)
<1>1. PICK p \in [1 .. Len(items) + 1 -> States] : IsPlan(p, items, s, t)
  BY DEF Plan
<1> DEFINE n == Len(items)
           rest == Tail(items)
           q == [i \in 1 .. n |-> p[i + 1]]
<1>2. /\ n \in Nat \ {0} /\ IsSequence(rest) /\ Len(rest) = n - 1 /\ Head(items) = items[1]
      /\ \A i \in 1 .. Len(rest) : rest[i] = items[i + 1]
  BY SequenceTail DEF Plan
<1> HIDE DEF n, rest
<1>3. q \in [1 .. Len(rest) + 1 -> States] /\ p[1] \in States /\ p[2] \in States
  BY <1>1, <1>2 DEF n
<1>4. IsPlan(q, rest, p[2], t)
  <2>1. q[1] = p[2] /\ q[Len(rest) + 1] = t
    BY <1>1, <1>2 DEF IsPlan, n
  <2>2. \A i \in 1 .. Len(rest) : Moves(rest[i], q[i], q[i + 1])
    <3> SUFFICES ASSUME NEW i \in 1 .. Len(rest) PROVE Moves(rest[i], q[i], q[i + 1])
      OBVIOUS
    <3>1. rest[i] = items[i + 1] /\ q[i] = p[i + 1] /\ q[i + 1] = p[(i + 1) + 1] /\ i + 1 \in 1 .. n
      BY <1>2
    <3> QED BY <3>1, <1>1 DEF IsPlan, n
  <2> QED BY <1>3, <2>1, <2>2, AtLeastItself DEF IsPlan
<1>5. Moves(Head(items), p[1], p[2]) /\ AtLeast(s, p[1])
  BY <1>1, <1>2 DEF IsPlan, n
<1>6. Moves(Head(items), s, p[2])
  BY <1>5, MovesMore
<1> QED BY <1>6, <1>2, <1>3, <1>4, <1>5 DEF Plan, rest

-----------------------------------------------------------------------------
(* The types of a scope.                                                   *)

LEMMA LocalParametersKnown ==
  ASSUME NEW scope, IsScope(scope)
  PROVE  /\ LocalParameters(scope) \subseteq TypeParameters
         /\ \A tp \in LocalParameters(scope) : <<tp>> \in PlainTypes
BY DEF IsScope, LocalParameters, FunctionOf, TypeParameters, PlainTypes

(* The plain types of a scope, and those made from them.                   *)
LEMMA TypesInScope ==
  ASSUME NEW scope, IsScope(scope), NEW vs
  PROVE  /\ {Num} \cup StructTypes \subseteq PlainTypes \cap TypesOf(scope, vs)
         /\ \A tp \in LocalParameters(scope) :
              HasValue(scope, vs, <<tp>>) => <<tp>> \in PlainTypes \cap TypesOf(scope, vs)
         /\ \A t \in PlainTypes \cap TypesOf(scope, vs), r \in {"&", "&mut"} :
              <<r>> \o t \in References \cap TypesOf(scope, vs)
         /\ \A t \in PlainTypes \cap TypesOf(scope, vs) : <<"vec">> \o t \in OwnTypes(scope, vs)
         /\ TypesOf(scope, vs) \subseteq OwnTypes(scope, vs) \cap ExprTypes
         /\ Untyped \notin OwnTypes(scope, vs)
<1>1. {Num} \cup StructTypes \cup {<<tp>> : tp \in LocalParameters(scope)} \subseteq PlainTypes
  BY LocalParametersKnown DEF PlainTypes
<1>2. \A t \in {Num} \cup StructTypes : Last(t) \notin TypeParameters
  BY <1>1, PlainShape, GeneratorAssumption DEF StructTypes, Num
<1>3. \A tp \in LocalParameters(scope) : Last(<<tp>>) = tp
  BY <1>1, PlainShape
<1>4. ASSUME NEW t \in PlainTypes \cap TypesOf(scope, vs), NEW r \in {"&", "&mut"}
      PROVE  <<r>> \o t \in References \cap TypesOf(scope, vs)
  <2> DEFINE x == t[1]
  <2>1. t = <<x>> /\ Last(t) = x
    BY <1>4, PlainShape
  <2> HIDE DEF x
  <2>2. <<r>> \o t = <<r, x>>
    BY <2>1, PairOf
  <2>3. Last(<<r, x>>) = x
    BY DEF Last
  <2> QED BY <1>4, <2>1, <2>2, <2>3, ReferencesTo DEF TypesOf, ExprTypes, HasValues
<1>5. TypesOf(scope, vs) \subseteq OwnTypes(scope, vs) \cap ExprTypes
  BY DEF TypesOf, OwnTypes, Types, ExprTypes
<1>6. \A t \in PlainTypes \cap TypesOf(scope, vs) : <<"vec">> \o t \in OwnTypes(scope, vs)
  BY VectorTypes DEF TypesOf, OwnTypes, HasValues
<1>7. Untyped \notin OwnTypes(scope, vs)
  BY NoTypeIsUntyped DEF OwnTypes
<1>8. {Num} \cup StructTypes \subseteq PlainTypes \cap TypesOf(scope, vs)
  BY <1>1, <1>2 DEF TypesOf, ExprTypes, HasValues
<1>9. \A tp \in LocalParameters(scope) :
        HasValue(scope, vs, <<tp>>) => <<tp>> \in PlainTypes \cap TypesOf(scope, vs)
  BY <1>1, <1>3 DEF TypesOf, ExprTypes, HasValues
<1> QED BY <1>4, <1>5, <1>6, <1>7, <1>8, <1>9

(* The type parameters of which there is a variable.                       *)
LEMMA InstantiatableTypes ==
  ASSUME vars \in Environments, NEW scope, IsScope(scope)
  PROVE  InstantiatableParameters(scope) \subseteq PlainTypes \cap TypesOf(scope, vars)
<1> SUFFICES ASSUME NEW type \in InstantiatableParameters(scope)
             PROVE  type \in PlainTypes \cap TypesOf(scope, vars)
  OBVIOUS
<1>1. PICK tp \in LocalParameters(scope), v \in Identifiers(scope) :
        type = <<tp>> /\ vars[v].type = <<tp>>
  BY DEF InstantiatableParameters
<1>2. /\ v \in DOMAIN vars /\ IsInScope(scope, vars[v].scope)
      /\ vars[v].type # Untyped /\ vars[v].type[1] # "vec"
  BY DEF Identifiers, IdentifiersAll
<1>3. vars[v].live
  BY <1>2, EnvironmentOf DEF Variables
<1>4. HasValue(scope, vars, <<tp>>)
  BY <1>1, <1>2, <1>3 DEF HasValue
<1> QED BY <1>1, <1>4, TypesInScope

LEMMA TypesWithAbilitiesPlain ==
  ASSUME vars \in Environments, NEW scope, IsScope(scope)
  PROVE  TypesWithAbilities(scope) \subseteq PlainTypes \cap TypesOf(scope, vars)
<1>1. TypesWithAbilities(scope)
        \subseteq {Num} \cup StructTypes \cup InstantiatableParameters(scope)
  BY DEF TypesWithAbilities, StructsInScope, StructTypes
<1> QED BY <1>1, TypesInScope, InstantiatableTypes

LEMMA RandomTypes ==
  ASSUME vars \in Environments, NEW scope, IsScope(scope),
         NEW structs \in BOOLEAN, NEW params \in BOOLEAN
  PROVE  /\ GetRandomType(scope, structs, params, FALSE)
              \subseteq PlainTypes \cap TypesOf(scope, vars)
         /\ GetRandomType(scope, structs, params, TRUE) \subseteq TypesOf(scope, vars)
<1> DEFINE base == {Num} \cup (IF structs THEN StructsInScope(scope) ELSE {})
                         \cup (IF params THEN InstantiatableParameters(scope) ELSE {})
           refs == {<<r>> \o t : r \in {"&", "&mut"}, t \in base}
<1>1. base \subseteq {Num} \cup StructTypes \cup InstantiatableParameters(scope)
  BY DEF StructsInScope, StructTypes
<1>2. base \subseteq PlainTypes \cap TypesOf(scope, vars)
  BY <1>1, TypesInScope, InstantiatableTypes
<1> HIDE DEF base
<1>3. \A t \in base, r \in {"&", "&mut"} : <<r>> \o t \in TypesOf(scope, vars)
  BY <1>2, TypesInScope
<1>4. GetRandomType(scope, structs, params, FALSE) = base
  BY DEF GetRandomType, base
<1>5. GetRandomType(scope, structs, params, TRUE) = base \cup refs
  BY DEF GetRandomType, base
<1>6. refs \subseteq TypesOf(scope, vars)
  <2> SUFFICES ASSUME NEW x \in refs PROVE x \in TypesOf(scope, vars)
    OBVIOUS
  <2>1. PICK r \in {"&", "&mut"}, t \in base : x = <<r>> \o t
    BY SMTT(30)
  <2> QED BY <2>1, <1>3
<1> HIDE DEF refs
<1> QED BY <1>2, <1>4, <1>5, <1>6

(* A type is its last part with what comes before it.                      *)
LEMMA FrontAndLast == ASSUME NEW t \in ExprTypes PROVE t = Front(t) \o <<Last(t)>>
<1>1. CASE t \in PlainTypes
  <2>1. t = <<Last(t)>> /\ Front(t) = << >>
    BY <1>1, PlainShape
  <2>2. \A x : << >> \o <<x>> = <<x>>
    OBVIOUS
  <2> QED BY <2>1, <2>2
<1>2. CASE t \in References
  <2>1. PICK r \in {"&", "&mut"}, u \in PlainTypes : t = <<r>> \o u
    BY <1>2, SMTT(30) DEF References
  <2>2. u = <<Last(u)>>
    BY PlainShape
  <2>3. t = <<r, Last(u)>>
    BY <2>1, <2>2, PairOf
  <2>4. Front(t) = <<t[1]>> /\ t[1] = r /\ Last(t) = Last(u)
    BY <1>2, <2>3, ReferenceShape DEF Last
  <2> QED BY <2>1, <2>2, <2>4
<1> QED BY <1>1, <1>2 DEF ExprTypes

(* A type of the scope means itself, and is not made concrete.             *)
LEMMA MeansItself ==
  ASSUME NEW scope, IsScope(scope), NEW vs, NEW stacks, Fit(scope, vs, stacks),
         NEW type \in TypesOf(scope, vs)
  PROVE  /\ MeaningIn(stacks, type) = type
         /\ ConcretizeType(type, scope) = {type}
         /\ ~IsTypeConcretizable(type, scope)
<1> DEFINE tp == Last(type)
<1>1. MeaningIn(stacks, type) = type
  <2>1. CASE tp \in TypeParameters /\ stacks[tp] # << >>
    <3>1. stacks[tp] \in Seq({<<tp>>})
      BY <2>1 DEF Fit, TypesOf, HasValues
    <3> HIDE DEF tp
    <3>2. Last(stacks[tp]) = <<tp>>
      BY <2>1, <3>1, EmptySeq, ElementOfSeq DEF Last
    <3>3. type = Front(type) \o <<tp>>
      BY FrontAndLast DEF TypesOf, tp
    <3> QED BY <2>1, <3>2, <3>3 DEF MeaningIn, tp
  <2> QED BY <2>1 DEF MeaningIn
<1>2. ~IsTypeConcretizable(type, scope)
  BY DEF TypesOf, HasValues, IsTypeConcretizable
<1> QED BY <1>1, <1>2 DEF ConcretizeType

(* A type parameter of another function means its type argument.           *)
LEMMA MeaningOfParameter ==
  ASSUME NEW stacks, NEW tp \in TypeParameters, NEW types \in SUBSET PlainTypes,
         stacks[tp] \in Seq(types), stacks[tp] # << >>
  PROVE  MeaningIn(stacks, <<tp>>) = Last(stacks[tp]) /\ Last(stacks[tp]) \in types
<1> DEFINE c == Last(stacks[tp])
<1>1. c \in types
  BY EmptySeq, ElementOfSeq DEF Last
<1>2. <<tp>> \in PlainTypes
  BY DEF PlainTypes
<1>3. Last(<<tp>>) = tp /\ Front(<<tp>>) = << >>
  BY <1>2, PlainShape
<1>4. MeaningIn(stacks, <<tp>>) = << >> \o c
  BY <1>3 DEF MeaningIn
<1> HIDE DEF c
<1>5. << >> \o c = c
  BY <1>1, PlainShape
<1> QED BY <1>1, <1>4, <1>5 DEF c

(* What generate_expression_of_type goes on with is the type wanted.       *)
LEMMA Resolved ==
  ASSUME NEW scope, IsScope(scope), Fit(scope, vars, concrete),
         NEW type \in PlainTypes \cup TypesOf(scope, vars),
         MeaningIn(concrete, type) \in TypesOf(scope, vars)
  PROVE  Resolve(type) = MeaningIn(concrete, type)
<1>1. CASE type \in PlainTypes
  <2>1. Len(type) = 1
    BY <1>1, PlainShape
  <2> QED BY <2>1 DEF Resolve, Meaning
<1>2. CASE type \in TypesOf(scope, vars)
  BY <1>2, MeansItself DEF Resolve, Meaning
<1> QED BY <1>1, <1>2

(* A struct is not what a type parameter is called.                        *)
LEMMA StructMeansItself ==
  ASSUME NEW stacks, NEW type \in StructTypes
  PROVE  MeaningIn(stacks, type) = type
<1>1. type \in PlainTypes
  BY DEF PlainTypes
<1>2. Last(type) \notin TypeParameters
  BY <1>1, PlainShape, GeneratorAssumption DEF StructTypes
<1> QED BY <1>2 DEF MeaningIn

LEMMA OperationTypes ==
  ASSUME NEW scope, IsScope(scope), NEW vs, NEW e \in PlainTypes \cap TypesOf(scope, vs),
         NEW op \in VectorOperations(e)
  PROVE  /\ IsSequence(op.args) /\ \A i \in DOMAIN op.args : op.args[i] \in TypesOf(scope, vs)
         /\ IsSequence(op.ret) /\ \A i \in DOMAIN op.ret : op.ret[i] \in OwnTypes(scope, vs)
<1> DEFINE vec == <<"vec">> \o e
           ref == <<"&">> \o e
           mut == <<"&mut">> \o e
<1>1. /\ {e, Num, ref, mut} \subseteq TypesOf(scope, vs)
      /\ {e, Num, ref, mut, vec} \subseteq OwnTypes(scope, vs)
  BY TypesInScope
<1> HIDE DEF vec, ref, mut
<1>2. /\ op.args \in {<< >>, <<e>>, <<Num>>, <<Num, Num>>, <<ref>>}
      /\ op.ret \in {<<vec>>, <<Num>>, <<ref>>, <<mut>>, << >>, <<e>>, <<Num, Num>>}
  BY DEF VectorOperations, vec, ref, mut
<1>3. \A a, b : DOMAIN <<a, b>> = 1 .. 2 /\ <<a, b>>[1] = a /\ <<a, b>>[2] = b
  OBVIOUS
<1>4. \A a : DOMAIN <<a>> = 1 .. 1 /\ <<a>>[1] = a
  OBVIOUS
<1>5. \A i \in DOMAIN op.args : op.args[i] \in TypesOf(scope, vs)
  BY <1>1, <1>2, <1>3, <1>4
<1>6. \A i \in DOMAIN op.ret : op.ret[i] \in OwnTypes(scope, vs)
  BY <1>1, <1>2, <1>3, <1>4
<1> QED BY <1>2, <1>5, <1>6, Tuples

LEMMA PlanThree ==
  ASSUME NEW a, NEW b, NEW c, NEW s \in States, NEW t \in States, NEW u \in States,
         NEW w \in States, Moves(a, s, t), Moves(b, t, u), Moves(c, u, w)
  PROVE  Plan(<<a, b, c>>, s, w)
<1> DEFINE items == <<a, b, c>>
           p == [i \in 1 .. 4 |-> CASE i = 1 -> s [] i = 2 -> t [] i = 3 -> u [] i = 4 -> w]
<1>1. Len(items) = 3 /\ IsSequence(items) /\ items[1] = a /\ items[2] = b /\ items[3] = c
  BY Tuples
<1>2. p \in [1 .. 4 -> States] /\ p[1] = s /\ p[2] = t /\ p[3] = u /\ p[4] = w
  OBVIOUS
<1> HIDE DEF items, p
<1>3. \A i \in 1 .. 3 : Moves(items[i], p[i], p[i + 1])
  <2> SUFFICES ASSUME NEW i \in 1 .. 3 PROVE Moves(items[i], p[i], p[i + 1])
    OBVIOUS
  <2>1. CASE i = 1
    BY <2>1, <1>1, <1>2
  <2>2. CASE i = 2
    BY <2>2, <1>1, <1>2
  <2>3. CASE i = 3
    BY <2>3, <1>1, <1>2
  <2> QED BY <2>1, <2>2, <2>3
<1>4. IsPlan(p, items, s, w)
  BY <1>1, <1>2, <1>3, AtLeastItself DEF IsPlan
<1> QED BY <1>1, <1>2, <1>4 DEF Plan, items

(* Items that leave the state as it is, one and all.                       *)
Stay(items, s) ==
  IsSequence(items) /\ \A i \in 1 .. Len(items) : Moves(items[i], s, s)

LEMMA StayTuples ==
  ASSUME NEW s
  PROVE  /\ Stay(<< >>, s)
         /\ \A a : Moves(a, s, s) => Stay(<<a>>, s)
         /\ \A a, b : Moves(a, s, s) /\ Moves(b, s, s) => Stay(<<a, b>>, s)
         /\ \A a, b, c : Moves(a, s, s) /\ Moves(b, s, s) /\ Moves(c, s, s)
                           => Stay(<<a, b, c>>, s)
<1>1. \A a, b, c : /\ <<a>>[1] = a /\ <<a, b>>[1] = a /\ <<a, b>>[2] = b
                   /\ <<a, b, c>>[1] = a /\ <<a, b, c>>[2] = b /\ <<a, b, c>>[3] = c
  OBVIOUS
<1>2. Stay(<< >>, s)
  BY Tuples DEF Stay
<1>3. ASSUME NEW a, Moves(a, s, s) PROVE Stay(<<a>>, s)
  <2>1. \A i \in 1 .. 1 : Moves(<<a>>[i], s, s)
    BY <1>1, <1>3
  <2> QED BY <2>1, Tuples DEF Stay
<1>4. ASSUME NEW a, NEW b, Moves(a, s, s), Moves(b, s, s) PROVE Stay(<<a, b>>, s)
  <2>1. \A i \in 1 .. 2 : i = 1 \/ i = 2
    OBVIOUS
  <2>2. \A i \in 1 .. 2 : Moves(<<a, b>>[i], s, s)
    BY <1>1, <1>4, <2>1
  <2> QED BY <2>2, Tuples DEF Stay
<1>5. ASSUME NEW a, NEW b, NEW c, Moves(a, s, s), Moves(b, s, s), Moves(c, s, s)
      PROVE  Stay(<<a, b, c>>, s)
  <2>1. \A i \in 1 .. 3 : i = 1 \/ i = 2 \/ i = 3
    OBVIOUS
  <2>2. \A i \in 1 .. 3 : Moves(<<a, b, c>>[i], s, s)
    BY <1>1, <1>5, <2>1
  <2> QED BY <2>2, Tuples DEF Stay
<1> QED BY <1>2, <1>3, <1>4, <1>5

LEMMA StayPlan ==
  ASSUME NEW s \in States, NEW items, Stay(items, s)
  PROVE  Plan(items, s, s)
BY PlanStays DEF Stay

LEMMA PlanThen ==
  ASSUME NEW items, NEW a, NEW s, NEW t \in States, NEW u \in States,
         Plan(items, s, t), Moves(a, t, u)
  PROVE  Plan(Append(items, a), s, u)
<1>1. Append(items, a) = items \o <<a>>
  BY SequenceAppend DEF Plan
<1> QED BY <1>1, PlanOne, PlanConcat

-----------------------------------------------------------------------------
(* What the items of the generator need.                                   *)

(* Most items leave the environment as it is.                              *)
LEMMA Unmoved ==
  ASSUME NEW s, NEW item, Needs(item, s),
         item.do \notin {"set_max_depth", "reset_max_depth", "decrease_depth", "unregister",
                         "bind", "function", "runners"}
  PROVE  Moves(item, s, s)
BY DEF Moves, Extends

LEMMA ExpressionNeeds ==
  ASSUME NEW s \in States, NEW scope, IsSite(scope, s),
         NEW type \in PlainTypes \cup TypesOf(scope, s.vars), NEW var, NEW call,
         NEW want \in TypesOf(scope, s.vars), MeaningIn(s.concrete, type) = want,
         var \/ scope = Root \/ type \in StructTypes,
         Sheltered(s) \/ Apart(Expression(scope, type, var, call, want), s)
  PROVE  Moves(Expression(scope, type, var, call, want), s, s)
<1>1. Needs(Expression(scope, type, var, call, want), s)
  BY DEF Expression, Needs, NeedsOfUndoing, NeedsOfDefinitions, NeedsOfExpressions, Fields, Apart
<1> QED BY <1>1, Unmoved DEF Expression

LEMMA OwnExpressionNeeds ==
  ASSUME NEW s \in States, NEW scope, IsSite(scope, s), NEW type \in TypesOf(scope, s.vars),
         NEW var, NEW call, var \/ scope = Root \/ type \in StructTypes,
         Sheltered(s) \/ Apart(Expression(scope, type, var, call, type), s)
  PROVE  Moves(Expression(scope, type, var, call, type), s, s)
<1>1. MeaningIn(s.concrete, type) = type
  BY MeansItself DEF IsSite
<1> QED BY <1>1, ExpressionNeeds

LEMMA ValueNeeds ==
  ASSUME NEW s \in States, NEW scope, IsSite(scope, s), NEW type \in TypesOf(scope, s.vars),
         Sheltered(s) \/ Apart(Value(scope, type), s)
  PROVE  Moves(Value(scope, type), s, s)
BY OwnExpressionNeeds DEF Value

LEMMA InnerSite ==
  ASSUME NEW scope, NEW s, IsInnerSite(scope, s)
  PROVE  /\ IsSite(scope, s) /\ IsInner(scope) /\ IsScope(scope) /\ scope # Root
         /\ Sheltered(s)
BY DEF IsInnerSite, IsSite, IsInner

LEMMA BlockNeeds ==
  ASSUME NEW s \in States, NEW scope, IsInnerSite(scope, s),
         NEW type \in TypesOf(scope, s.vars) \cup {Untyped}, s.manual = << >> \/ s.curr # 0
  PROVE  Moves(BlockOf(scope, type, type), s, s)
<1>1. Needs(BlockOf(scope, type, type), s)
  BY DEF BlockOf, Needs, NeedsOfUndoing, NeedsOfDefinitions, NeedsOfExpressions, Fields
<1> QED BY <1>1, Unmoved DEF BlockOf

LEMMA CallNeeds ==
  ASSUME NEW s \in States, NEW scope, IsSite(scope, s), Sheltered(s),
         NEW f \in DOMAIN Functions, NEW var, var \/ scope = Root
  PROVE  Moves(CallTo(f, scope, var), s, s)
<1>1. Needs(CallTo(f, scope, var), s)
  BY DEF CallTo, Needs, NeedsOfUndoing, NeedsOfDefinitions, NeedsOfExpressions
<1> QED BY <1>1, Unmoved DEF CallTo

LEMMA BindMoves ==
  ASSUME NEW s \in States, NEW scope, NEW id \in s.pending, s.vars[id].scope = scope,
         NEW type \in OwnTypes(scope, s.vars), s.vars[id].type \in {Untyped, type},
         type[1] = "vec" \/ s.vars[id].live,
         NEW t, AtLeast(Completed(s, id, type), t)
  PROVE  Moves(Bind(scope, id, type), s, t)
<1> DEFINE item == Bind(scope, id, type)
<1>1. item.do = "bind" /\ item.scope = scope /\ item.id = id /\ item.type = type
  BY DEF Bind
<1>2. /\ t.curr = s.curr /\ t.manual = s.manual /\ t.concrete = s.concrete
      /\ t.pending = s.pending \ {id} /\ Extends(Bound(s.vars, id, type), t.vars)
  BY DEF AtLeast, States, Completed
<1> HIDE DEF item
<1>3. Needs(item, s)
  BY <1>1 DEF Needs, NeedsOfUndoing, NeedsOfDefinitions, NeedsOfExpressions
<1> QED BY <1>1, <1>2, <1>3 DEF Moves, item

LEMMA RecordMoves ==
  ASSUME NEW s \in States, NEW scope, NEW id \in DOMAIN s.vars \ s.pending,
         s.vars[id].type # Untyped,
         IsInScope(scope, s.vars[id].scope), NEW t, AtLeast(s, t)
  PROVE  Moves(Record(scope, id), s, t)
BY DEF Record, Moves, Needs, NeedsOfUndoing, NeedsOfDefinitions, NeedsOfExpressions, AtLeast

LEMMA DecreaseMoves ==
  ASSUME NEW s \in States, s.curr # 0, NEW t, AtLeast([s EXCEPT !.curr = @ - 1], t)
  PROVE  Moves(Decrease, s, t)
BY DEF Decrease, Moves, Needs, NeedsOfUndoing, NeedsOfDefinitions, NeedsOfExpressions, AtLeast,
       States

LEMMA LimitMoves ==
  ASSUME NEW s \in States, s.manual = << >>, NEW limit \in {0, VectorDepth}
  PROVE  /\ [s EXCEPT !.manual = <<limit>>] \in States
         /\ Moves(SetMax(limit), s, [s EXCEPT !.manual = <<limit>>])
         /\ Moves(ResetMax, [s EXCEPT !.manual = <<limit>>], s)
<1> DEFINE t == [s EXCEPT !.manual = <<limit>>]
<1>1. /\ t \in States /\ t.manual = <<limit>> /\ t.manual # << >>
      /\ t.curr = s.curr /\ t.concrete = s.concrete /\ t.vars = s.vars /\ t.pending = s.pending
      /\ Extends(s.vars, s.vars)
  BY DEF States, Extends
<1> HIDE DEF t
<1>2. Moves(SetMax(limit), s, t)
  BY <1>1 DEF SetMax, Moves, Needs, NeedsOfUndoing, NeedsOfDefinitions, NeedsOfExpressions
<1>3. Moves(ResetMax, t, s)
  BY <1>1 DEF ResetMax, Moves, Needs, NeedsOfUndoing, NeedsOfDefinitions, NeedsOfExpressions
<1> QED BY <1>1, <1>2, <1>3 DEF t

LEMMA PlanUnderEach ==
  ASSUME NEW s \in States, s.manual = << >>, NEW limit \in {0, VectorDepth},
         NEW items, IsSequence(items),
         \A i \in 1 .. Len(items) :
           Moves(items[i], [s EXCEPT !.manual = <<limit>>], [s EXCEPT !.manual = <<limit>>])
  PROVE  Plan(UnderEach(limit, items), s, s)
<1> DEFINE t == [s EXCEPT !.manual = <<limit>>]
           n == Len(items)
           all == UnderEach(limit, items)
           p == [k \in 1 .. 3 * n + 1 |-> IF k % 3 = 1 THEN s ELSE t]
<1>1. t \in States /\ Moves(SetMax(limit), s, t) /\ Moves(ResetMax, t, s)
  BY LimitMoves
<1>2. n \in Nat /\ IsSequence(all) /\ Len(all) = 3 * n
  <2>1. n \in Nat
    BY SequenceLen
  <2>2. 3 * n \in Nat /\ all = [k \in 1 .. 3 * n |-> all[k]]
    BY <2>1 DEF UnderEach
  <2> QED BY <2>1, <2>2, IndexedSequence
<1>3. \A k \in 1 .. 3 * n :
        /\ k % 3 = 1 => all[k] = SetMax(limit)
        /\ k % 3 = 2 => all[k] = items[(k \div 3) + 1] /\ (k \div 3) + 1 \in 1 .. n
        /\ k % 3 = 0 => all[k] = ResetMax
        /\ k % 3 \in {0, 1, 2}
  BY <1>2 DEF UnderEach
<1> HIDE DEF all, t, n
<1>4. p \in [1 .. Len(all) + 1 -> States] /\ p[1] = s /\ p[Len(all) + 1] = s
  BY <1>1, <1>2
<1>5. \A k \in 1 .. 3 * n : Moves(all[k], p[k], p[k + 1])
  <2> SUFFICES ASSUME NEW k \in 1 .. 3 * n PROVE Moves(all[k], p[k], p[k + 1])
    OBVIOUS
  <2>0. /\ p[k] = IF k % 3 = 1 THEN s ELSE t
        /\ p[k + 1] = IF (k + 1) % 3 = 1 THEN s ELSE t
    BY <1>2
  <2>m. /\ k % 3 = 1 => (k + 1) % 3 = 2
        /\ k % 3 = 2 => (k + 1) % 3 = 0
        /\ k % 3 = 0 => (k + 1) % 3 = 1
    BY <1>2
  <2> HIDE DEF p
  <2>1. CASE k % 3 = 1
    <3>1. p[k] = s /\ p[k + 1] = t
      BY <2>1, <2>0, <2>m
    <3> QED BY <3>1, <2>1, <1>1, <1>3
  <2>2. CASE k % 3 = 2
    <3>1. p[k] = t /\ p[k + 1] = t
      BY <2>2, <2>0, <2>m
    <3>2. all[k] = items[(k \div 3) + 1] /\ (k \div 3) + 1 \in 1 .. n
      BY <2>2, <1>3
    <3>3. Moves(items[(k \div 3) + 1], t, t)
      BY <3>2 DEF t, n
    <3> QED BY <3>1, <3>2, <3>3
  <2>3. CASE k % 3 = 0
    <3>1. p[k] = t /\ p[k + 1] = s
      BY <2>3, <2>0, <2>m
    <3> QED BY <3>1, <2>3, <1>1, <1>3
  <2> QED BY <2>1, <2>2, <2>3, <1>3
<1>6. IsPlan(p, all, s, s)
  BY <1>2, <1>4, <1>5, AtLeastItself DEF IsPlan
<1> QED BY <1>2, <1>4, <1>6 DEF Plan, all

LEMMA InnerNeeds ==
  ASSUME NEW s \in States, NEW item, IsInnerSite(item.scope, s),
         item.do \in {"statement", "operation", "assignment", "result", "dereference",
                     "block_return"},
         item.do \in {"statement", "operation"} => s.manual = << >>,
         item.do \in {"statement", "operation", "assignment"} => Hot(s) = {},
         item.do = "result" => item.type \in OwnTypes(item.scope, s.vars),
         item.do = "dereference" => item.type \in PlainTypes \cap TypesOf(item.scope, s.vars),
         item.do = "block_return" =>
           item.type \in TypesOf(item.scope, s.vars) /\ item.want = item.type
  PROVE  Moves(item, s, s)
<1>1. Needs(item, s)
  BY DEF Needs, NeedsOfUndoing, NeedsOfDefinitions, NeedsOfExpressions
<1> QED BY <1>1, Unmoved

-----------------------------------------------------------------------------
(***************************************************************************)
(* The invariant.                                                          *)
(***************************************************************************)

DepthStates ==
  [curr : Nat, idx : DOMAIN MaxDepths, manual : {<< >>, <<0>>, <<VectorDepth>>}]

EnvInv ==
  /\ vars \in Seq(Variables)
  /\ \A v \in DOMAIN vars : vars[v].type \in OwnTypes(vars[v].scope, vars) \cup {Untyped}
  /\ depth \in DepthStates
  /\ concrete \in [TypeParameters -> Seq(PlainTypes)]

Planned(pend) ==
  /\ EnvInv
  /\ pend \subseteq DOMAIN vars
  /\ IF status = "running" THEN Plan(agenda, Now(pend), AllUndone)
                           ELSE status = "failed" /\ agenda = << >>

Inv == \E pend : Planned(pend)

LEMMA InnerFunction ==
  ASSUME NEW scope, IsInner(scope)
  PROVE  /\ FunctionOf(scope) = scope[1] /\ FunctionOf(scope) \in DOMAIN Functions
         /\ IsScope(scope) /\ scope # Root /\ scope \in Seq(Nat)
BY DEF IsInner, IsScope, FunctionOf

LEMMA PrefixFunction ==
  ASSUME NEW a, NEW b, IsInner(a), IsInner(b), IsPrefix(a, b)
  PROVE  FunctionOf(a) = FunctionOf(b) /\ LocalParameters(a) = LocalParameters(b)
<1>1. a \in Seq(Nat) /\ a # << >> /\ b \in Seq(Nat)
  BY DEF IsInner, IsScope, Root
<1>2. Len(a) \in Nat \ {0} /\ \A i \in 1 .. Len(a) : b[i] = a[i]
  BY <1>1, EmptySeq, PrefixPoints
<1>3. FunctionOf(a) = FunctionOf(b)
  BY <1>2, InnerFunction
<1> QED BY <1>3 DEF LocalParameters, IsInner

(* What has a value in a block has one in the blocks within.               *)
LEMMA InnerBlock ==
  ASSUME NEW a, NEW b, IsInner(a), IsInner(b), IsPrefix(a, b), NEW vs \in Environments
  PROVE  /\ TypesOf(a, vs) \subseteq TypesOf(b, vs)
         /\ OwnTypes(a, vs) \subseteq OwnTypes(b, vs)
         /\ \A stacks : Fit(a, vs, stacks) => Fit(b, vs, stacks)
BY InnerFunction, PrefixFunction, ValuesWithin

LEMMA FunctionScope ==
  ASSUME NEW f \in DOMAIN Functions
  PROVE  /\ IsInner(<<f>>) /\ FunctionOf(<<f>>) = f
         /\ LocalParameters(<<f>>) = ToSet(Functions[f].tps)
<1>1. DOMAIN Functions \subseteq Nat
  BY GeneratorAssumption
<1>2. <<f>> \in Seq(Nat) /\ <<f>> # << >> /\ <<f>>[1] = f
  BY <1>1
<1> QED BY <1>2 DEF IsInner, IsScope, Root, FunctionOf, LocalParameters

(* A signature mentions no type parameter but its function's own.          *)
LEMMA SignatureTypes ==
  ASSUME NEW f \in DOMAIN Functions,
         NEW t \in PlainTypes, t \in ToSet(Functions[f].params) \cup {Functions[f].ret}
  PROVE  t = <<Last(t)>> /\ (Last(t) \in TypeParameters => Last(t) \in ToSet(Functions[f].tps))
<1>1. t = <<t[1]>> /\ Last(t) = t[1]
  BY PlainShape
<1> QED BY <1>1, ScopingAssumption

LEMMA NowIsState ==
  ASSUME NEW pend, Planned(pend)
  PROVE  Now(pend) \in States /\ vars \in Environments /\ Now(pend).vars = vars
<1>1. vars \in [1 .. Len(vars) -> Variables] /\ 1 .. Len(vars) \in SUBSET Nat
  BY DEF Planned, EnvInv
<1>2. vars \in Environments /\ pend \subseteq DOMAIN vars /\ pend \in SUBSET Nat
  BY <1>1 DEF Environments, Planned
<1> QED BY <1>2 DEF Planned, EnvInv, DepthStates, Now, States

LEMMA NextIsState ==
  ASSUME EnvInv', NEW pend, pend \subseteq DOMAIN vars'
  PROVE  Now(pend)' \in States /\ vars' \in Environments /\ Now(pend)'.vars = vars'
<1>1. vars' \in [1 .. Len(vars') -> Variables] /\ 1 .. Len(vars') \in SUBSET Nat
  BY DEF EnvInv
<1>2. vars' \in Environments /\ pend \in SUBSET Nat
  BY <1>1 DEF Environments
<1> QED BY <1>2 DEF EnvInv, DepthStates, Now, States

LEMMA AllUndoneIsState == AllUndone \in States
<1>1. << >> \in [{} -> Variables]
  OBVIOUS
<1>2. << >> \in Environments
  BY <1>1 DEF Environments
<1> QED BY <1>2, EmptySeq DEF AllUndone, States

LEMMA Meets ==
  ASSUME NEW pend, Planned(pend), agenda # << >>
  PROVE  /\ status = "running" /\ IsSequence(agenda)
         /\ Needs(Head(agenda), Now(pend))
         /\ \E v \in States : Moves(Head(agenda), Now(pend), v) /\ Plan(Tail(agenda), v, AllUndone)
<1>1. status = "running" /\ Plan(agenda, Now(pend), AllUndone)
  BY DEF Planned
<1>2. PICK v \in States : Moves(Head(agenda), Now(pend), v) /\ Plan(Tail(agenda), v, AllUndone)
  BY <1>1, PlanStep
<1> QED BY <1>1, <1>2 DEF Plan, Moves

LEMMA PendingKnown ==
  ASSUME NEW items, NEW s, NEW t, Plan(items, s, t)
  PROVE  s.pending \subseteq DOMAIN s.vars
<1>1. PICK p \in [1 .. Len(items) + 1 -> States] : IsPlan(p, items, s, t)
  BY DEF Plan
<1>2. p[1] \in States
  BY <1>1, SequenceLen DEF Plan
<1>3. AtLeast(s, p[1])
  BY <1>1 DEF IsPlan
<1> QED BY <1>2, <1>3 DEF AtLeast, Extends, States

(* A let that is to be completed is that of a pending variable: no item    *)
(* makes a variable pending that was not.                                  *)
LEMMA BoundPending ==
  ASSUME NEW pend, Planned(pend), agenda # << >>,
         NEW i \in DOMAIN agenda, agenda[i].do = "bind"
  PROVE  agenda[i].id \in pend
<1>1. IsSequence(agenda) /\ Plan(agenda, Now(pend), AllUndone)
  BY Meets DEF Planned
<1>2. PICK p \in [1 .. Len(agenda) + 1 -> States] : IsPlan(p, agenda, Now(pend), AllUndone)
  BY <1>1 DEF Plan
<1> DEFINE n == Len(agenda)
           more == {k \in 1 .. n + 1 : ~(p[k].pending \subseteq pend)}
<1>3. n \in Nat /\ DOMAIN agenda = 1 .. n
  BY <1>1, SequenceLen
<1>4. p[1].pending = pend
  BY <1>2 DEF IsPlan, AtLeast, Now
<1>5. \A k \in 1 .. n : Moves(agenda[k], p[k], p[k + 1])
  BY <1>2 DEF IsPlan
<1> HIDE DEF n
<1>6. more = {}
  <2> SUFFICES ASSUME more # {} PROVE FALSE
    OBVIOUS
  <2>1. more \subseteq Nat
    BY <1>3
  <2>2. PICK m \in more : \A k \in more : ~(k < m)
    BY <2>1, Smallest
  <2>3. m \in 1 .. n + 1 /\ m # 1 /\ ~(p[m].pending \subseteq pend)
    BY <1>4
  <2>4. m - 1 \in 1 .. n /\ (m - 1) + 1 = m /\ m - 1 < m /\ m - 1 \in 1 .. n + 1
    BY <2>3, <1>3
  <2>5. p[m - 1].pending \subseteq pend
    BY <2>2, <2>4
  <2>6. p[m].pending \subseteq p[m - 1].pending
    BY <2>4, <1>5 DEF Moves
  <2> QED BY <2>3, <2>5, <2>6
<1>7. i \in 1 .. n /\ i \in 1 .. n + 1
  BY <1>3
<1>8. p[i].pending \subseteq pend
  BY <1>6, <1>7
<1>9. Needs(agenda[i], p[i])
  BY <1>5, <1>7 DEF Moves
<1> QED BY <1>8, <1>9 DEF Needs, NeedsOfDefinitions

(* The first item is replaced by items that end up where it would have.    *)
LEMMA Replaced ==
  ASSUME EnvInv', status' = "running",
         NEW v, Plan(Tail(agenda), v, AllUndone),
         NEW items, agenda' = items \o Tail(agenda), NEW pend,
         NEW w, Plan(items, Now(pend)', w), AtLeast(w, v)
  PROVE  Inv'
<1>1. Plan(Tail(agenda), w, AllUndone)
  BY PlanWeaken
<1>2. Plan(agenda', Now(pend)', AllUndone)
  BY <1>1, PlanConcat
<1>3. pend \subseteq DOMAIN vars'
  BY <1>2, PendingKnown DEF Now
<1>4. Planned(pend)'
  BY <1>2, <1>3 DEF Planned
<1> QED BY <1>4 DEF Inv

(* Most items undo nothing themselves.                                     *)
LEMMA Continue ==
  ASSUME NEW old, Planned(old), EnvInv', agenda # << >>, status' = "running",
         Head(agenda).do \notin {"set_max_depth", "reset_max_depth", "decrease_depth",
                                "unregister", "bind", "function", "runners"},
         NEW items, agenda' = items \o Tail(agenda), NEW pend,
         NEW w, Plan(items, Now(pend)', w), AtLeast(w, Now(old))
  PROVE  Inv'
<1>1. PICK v \in States : Moves(Head(agenda), Now(old), v) /\ Plan(Tail(agenda), v, AllUndone)
  BY Meets
<1>2. AtLeast(Now(old), v)
  BY <1>1 DEF Moves, AtLeast
<1>3. AtLeast(w, v)
  BY <1>2, AtLeastTransitive
<1> QED BY <1>1, <1>3, Replaced

LEMMA EnvUnchanged ==
  ASSUME NEW pend, Planned(pend), UNCHANGED <<vars, depth, concrete>>
  PROVE  EnvInv' /\ Now(pend)' = Now(pend)
BY DEF Planned, EnvInv, Now

LEMMA Increased ==
  ASSUME NEW pend, Planned(pend), UNCHANGED <<vars, concrete>>, depth' = IncreaseDepth(depth)
  PROVE  LET next == Now(pend)'
         IN  /\ EnvInv' /\ next \in States
             /\ next.curr = Now(pend).curr + 1 /\ next.curr # 0
             /\ next.manual = Now(pend).manual /\ next.concrete = Now(pend).concrete
             /\ next.vars = Now(pend).vars
             /\ AtLeast([next EXCEPT !.curr = @ - 1], Now(pend))
             /\ Hot(next) = Hot(Now(pend)) /\ (Sheltered(Now(pend)) => Sheltered(next))
<1>0. depth \in DepthStates
  BY DEF Planned, EnvInv
<1>1. /\ depth' \in DepthStates /\ depth'.curr = depth.curr + 1 /\ depth'.manual = depth.manual
      /\ depth.curr \in Nat
  BY <1>0 DEF IncreaseDepth, DepthStates
<1>2. EnvInv' /\ pend \subseteq DOMAIN vars'
  BY <1>1 DEF Planned, EnvInv
<1>3. Now(pend)' \in States
  BY <1>2, NextIsState
<1> QED BY <1>1, <1>2, <1>3 DEF Now, AtLeast, Extends, Hot, Sheltered

LEMMA Declared ==
  ASSUME NEW pend, Planned(pend), UNCHANGED <<depth, concrete>>,
         NEW scope, IsInner(scope), NEW type \in OwnTypes(scope, vars) \cup {Untyped},
         NEW live \in BOOLEAN, live \/ (type # Untyped /\ type[1] = "vec"),
         vars' = Append(vars, NewVar(scope, type, live))
  PROVE  /\ EnvInv' /\ AtLeast(Now(pend)', Now(pend)) /\ Keeps(vars', vars)
         /\ Now(pend)' \in States /\ Now(pend)'.vars = vars' /\ vars' \in Environments
         /\ Len(vars) + 1 \notin pend
         /\ Len(vars) + 1 \in DOMAIN vars' /\ vars'[Len(vars) + 1] = NewVar(scope, type, live)
<1>1. NewVar(scope, type, live) \in Variables
  BY InnerFunction DEF Variables, NewVar, OwnTypes
<1>2. /\ vars' \in Seq(Variables) /\ Len(vars') = Len(vars) + 1 /\ Len(vars) \in Nat
      /\ \A v \in 1 .. Len(vars) : vars'[v] = vars[v]
      /\ vars'[Len(vars) + 1] = NewVar(scope, type, live)
  BY <1>1, AppendProperties DEF Planned, EnvInv
<1>3. DOMAIN vars = 1 .. Len(vars) /\ DOMAIN vars' = 1 .. Len(vars) + 1
  BY <1>2 DEF Planned, EnvInv
<1>4. Extends(vars', vars)
  BY <1>2, <1>3 DEF Extends
<1>5. Keeps(vars', vars)
  BY <1>4, ExtendsKeeps
<1>6. \A v \in DOMAIN vars' : vars'[v].type \in OwnTypes(vars'[v].scope, vars') \cup {Untyped}
  <2> SUFFICES ASSUME NEW v \in DOMAIN vars'
               PROVE  vars'[v].type \in OwnTypes(vars'[v].scope, vars') \cup {Untyped}
    OBVIOUS
  <2>1. vars'[v].type \in OwnTypes(vars'[v].scope, vars) \cup {Untyped}
    BY <1>2, <1>3 DEF Planned, EnvInv, NewVar
  <2> QED BY <2>1, <1>5, ValuesGrow
<1>7. EnvInv'
  BY <1>2, <1>6 DEF Planned, EnvInv
<1>8. pend \subseteq DOMAIN vars /\ pend \subseteq DOMAIN vars' /\ Len(vars) + 1 \notin pend
  BY <1>2, <1>3 DEF Planned
<1>9. AtLeast(Now(pend)', Now(pend))
  BY <1>4 DEF Now, AtLeast
<1> QED BY <1>2, <1>3, <1>5, <1>7, <1>8, <1>9, NextIsState

(* A variable whose let is to be completed has a place in the environment. *)
LEMMA AwaitingIsState ==
  ASSUME NEW s \in States, NEW id \in DOMAIN s.vars, id \notin s.pending,
         NEW t, t = Awaiting(s, id)
  PROVE  /\ t \in States /\ id \in t.pending
         /\ t.curr = s.curr /\ t.manual = s.manual /\ t.concrete = s.concrete
         /\ t.vars = s.vars /\ t.pending \ {id} = s.pending
         /\ Hot(t) = IF s.vars[id].type = Untyped THEN Hot(s) ELSE Hot(s) \cup {id}
<1>1. /\ t \in States /\ t.curr = s.curr /\ t.manual = s.manual /\ t.concrete = s.concrete
      /\ t.vars = s.vars /\ t.pending = s.pending \cup {id}
  <2>1. DOMAIN s.vars \subseteq Nat
    BY EnvironmentOf DEF States
  <2> QED BY <2>1 DEF States, Awaiting
<1> QED BY <1>1 DEF Hot

LEMMA AwaitingNext ==
  ASSUME NEW pend, NEW id
  PROVE  Now(pend \cup {id})' = Awaiting(Now(pend)', id)
<1>1. PICK a, b, c, d : a = depth'.curr /\ b = depth'.manual /\ c = concrete' /\ d = vars'
  OBVIOUS
<1> DEFINE with(set) == [curr |-> a, manual |-> b, concrete |-> c, vars |-> d, pending |-> set]
           now == Now(pend)'
<1>2. /\ now = with(pend) /\ now.pending = pend
      /\ Now(pend \cup {id})' = with(pend \cup {id})
  BY <1>1 DEF Now
<1>3. [with(pend) EXCEPT !.pending = pend \cup {id}] = with(pend \cup {id})
  OBVIOUS
<1> HIDE DEF with, now
<1>4. Awaiting(now, id) = [with(pend) EXCEPT !.pending = pend \cup {id}]
  BY <1>2, Zenon DEF Awaiting
<1> QED BY <1>2, <1>3, <1>4 DEF now

(* Completing the let of a variable that had its type already.             *)
LEMMA CompletedBefore ==
  ASSUME NEW s \in States, NEW id \in DOMAIN s.vars, id \notin s.pending,
         NEW type, s.vars[id].type = type
  PROVE  AtLeast(Completed(Awaiting(s, id), id, type), s)
<1> DEFINE vs == s.vars
<1>1. vs \in Environments
  BY DEF States
<1>2. vs[id] \in [scope : Seq(Nat), type : Types \cup {Untyped}, live : BOOLEAN]
  BY <1>1, EnvironmentOf DEF Variables
<1>3. Bound(vs, id, type)[id] = vs[id]
  BY <1>1, <1>2, BoundRecord
<1>4. Extends(Bound(vs, id, type), vs)
  BY <1>1, <1>3, BoundVariable DEF Extends
<1>5. (s.pending \cup {id}) \ {id} = s.pending
  OBVIOUS
<1> QED BY <1>4, <1>5 DEF AtLeast, States, Completed, Awaiting

LEMMA NewScopeInner ==
  ASSUME EnvInv, NEW parent, IsInner(parent)
  PROVE  IsInner(NewScope(parent)) /\ IsPrefix(parent, NewScope(parent))
<1> DEFINE n == Len(vars)
           users == {w \in DOMAIN vars : IsStrictPrefix(parent, vars[w].scope)}
           number == [v \in DOMAIN vars |-> vars[v].scope[Len(parent) + 1]]
           used == {vars[v].scope[Len(parent) + 1] : v \in users}
           Free(m) == m \notin used /\ \A k \in 1 .. m - 1 : k \in used
           new == CHOOSE m \in 1 .. n + 1 : Free(m)
<1>1. n \in Nat /\ DOMAIN vars = 1 .. n /\ users \in SUBSET (1 .. n)
  BY DEF EnvInv
<1>2. used = {number[v] : v \in users}
  OBVIOUS
<1>3. NewScope(parent) = Append(parent, new)
  BY DEF NewScope
<1> HIDE DEF n, users, number
<1>4. \E m \in 1 .. n + 1 : Free(m)
  BY <1>1, <1>2, SmallestFree
<1> HIDE DEF Free
<1>5. new \in Nat
  BY <1>1, <1>4
<1> HIDE DEF new
<1>6. parent \in Seq(Nat) /\ parent # << >> /\ parent[1] \in DOMAIN Functions
  BY DEF IsInner, IsScope, Root
<1>7. /\ Append(parent, new) \in Seq(Nat) /\ Append(parent, new) # << >>
      /\ Append(parent, new)[1] = parent[1]
  BY <1>5, <1>6, AppendProperties, EmptySeq
<1> QED BY <1>3, <1>5, <1>6, <1>7, PrefixAppend DEF IsInner, IsScope, Root

-----------------------------------------------------------------------------
(* Every step keeps the invariant: functions, runners and blocks.          *)

(* A function starts with its parameters, alive and with their types.      *)
LEMMA ParametersAlive ==
  ASSUME NEW f \in DOMAIN Functions, NEW vs,
         vs = [p \in DOMAIN Functions[f].params |-> NewVar(<<f>>, Functions[f].params[p], TRUE)]
  PROVE  /\ vs \in Seq(Variables)
         /\ \A v \in DOMAIN vs : vs[v].type \in OwnTypes(vs[v].scope, vs)
         /\ Functions[f].ret \in TypesOf(<<f>>, vs) \cup {Untyped}
         /\ ToSet(Functions[f].params) \subseteq TypesOf(<<f>>, vs)
<1> DEFINE params == Functions[f].params
           ret == Functions[f].ret
           own == ToSet(Functions[f].tps)
<1>1. /\ params \in Seq(PlainTypes) /\ ret \in PlainTypes \cup {Untyped}
      /\ Len(params) \in Nat /\ DOMAIN params = 1 .. Len(params)
      /\ \A p \in DOMAIN params : params[p] \in PlainTypes /\ params[p] \in ToSet(params)
  <2>1. params \in Seq(PlainTypes) /\ ret \in PlainTypes \cup {Untyped}
    BY GeneratorAssumption
  <2> QED BY <2>1, ElementOfSeq DEF ToSet
<1>2. IsInner(<<f>>) /\ LocalParameters(<<f>>) = own /\ <<f>> \in Seq(Nat)
  BY FunctionScope, InnerFunction
<1>3. DOMAIN vs = DOMAIN params /\ \A p \in DOMAIN params :
        vs[p].scope = <<f>> /\ vs[p].type = params[p] /\ vs[p].live
  BY DEF NewVar
<1>4. \A p \in DOMAIN params : vs[p] \in Variables
  <2> SUFFICES ASSUME NEW p \in DOMAIN params PROVE NewVar(<<f>>, params[p], TRUE) \in Variables
    OBVIOUS
  <2>1. params[p] \in Types
    BY <1>1 DEF Types
  <2> QED BY <2>1, <1>2 DEF Variables, NewVar
<1>5. ASSUME NEW t \in PlainTypes, t \in ToSet(params) \cup {ret},
             Last(t) \in TypeParameters => t \in ToSet(params)
      PROVE  t \in TypesOf(<<f>>, vs)
  <2>1. t = <<Last(t)>> /\ (Last(t) \in TypeParameters => Last(t) \in own)
    BY <1>5, SignatureTypes
  <2>2. ASSUME Last(t) \in TypeParameters PROVE HasValue(<<f>>, vs, <<Last(t)>>)
    <3>1. PICK p \in DOMAIN params : params[p] = t
      BY <1>5, <2>2 DEF ToSet
    <3>2. IsInScope(<<f>>, <<f>>)
      BY <1>2, PrefixAppend DEF IsInScope
    <3> QED BY <3>1, <3>2, <2>1, <1>3 DEF HasValue
  <2>3. HasValues(<<f>>, vs, t)
    BY <2>1, <2>2, <1>2 DEF HasValues
  <2> QED BY <2>3 DEF TypesOf, ExprTypes
<1>6. \A p \in DOMAIN params : params[p] \in OwnTypes(<<f>>, vs)
  BY <1>1, <1>2, <1>5, TypesInScope, InnerFunction
<1>p. ToSet(params) \subseteq TypesOf(<<f>>, vs)
  BY <1>1, <1>5 DEF ToSet
<1>7. ret \in TypesOf(<<f>>, vs) \cup {Untyped}
  <2> SUFFICES ASSUME ret # Untyped PROVE ret \in TypesOf(<<f>>, vs)
    OBVIOUS
  <2>1. ret \in PlainTypes
    BY <1>1
  <2>2. Last(ret) \in TypeParameters => ret \in ToSet(params)
    BY <2>1, SignatureTypes, ScopingAssumption
  <2> QED BY <2>1, <2>2, <1>5
<1> HIDE DEF params
<1>8. vs \in [1 .. Len(params) -> Variables]
  BY <1>1, <1>4 DEF params
<1>9. vs \in Seq(Variables)
  BY <1>1, <1>8, FunctionSequence
<1>10. \A v \in DOMAIN vs : vs[v].type \in OwnTypes(vs[v].scope, vs)
  BY <1>3, <1>6
<1> QED BY <1>p, <1>7, <1>9, <1>10 DEF params

LEMMA FillFunctionKeeps == ASSUME NEW pend, Planned(pend), FillFunction PROVE Inv'
<1> DEFINE f == Head(agenda).f
           sig == Functions[f]
           ret == BlockOf(<<f>>, sig.ret, sig.ret)
<1>1. /\ agenda # << >> /\ Head(agenda).do = "function"
      /\ vars' = [p \in DOMAIN sig.params |-> NewVar(<<f>>, sig.params[p], TRUE)]
      /\ agenda' = <<ret>> \o Tail(agenda)
      /\ UNCHANGED <<depth, concrete, status>>
  BY DEF FillFunction, At, Do
<1>2. PICK v \in States : Moves(Head(agenda), Now(pend), v) /\ Plan(Tail(agenda), v, AllUndone)
  BY <1>1, Meets
<1>3. f \in DOMAIN Functions /\ Now(pend).manual = << >> /\ status = "running" /\ pend = {}
  BY <1>1, Meets DEF Needs, NeedsOfDefinitions, Now
<1>4. IsInner(<<f>>) /\ IsScope(<<f>>) /\ <<f>> # Root /\ FunctionOf(<<f>>) = f
  BY <1>3, FunctionScope, InnerFunction
<1> HIDE DEF f
<1>5. /\ vars' \in Seq(Variables)
      /\ \A w \in DOMAIN vars' : vars'[w].type \in OwnTypes(vars'[w].scope, vars')
      /\ sig.ret \in TypesOf(<<f>>, vars') \cup {Untyped}
      /\ ToSet(sig.params) \subseteq TypesOf(<<f>>, vars')
  BY <1>1, <1>3, ParametersAlive
<1> HIDE DEF sig
<1>6. EnvInv'
  BY <1>1, <1>5 DEF Planned, EnvInv
<1>7. Now(pend)' \in States /\ Now(pend)'.vars = vars'
  BY <1>3, <1>6, NextIsState
<1>8. /\ Now(pend)'.curr = Now(pend).curr /\ Now(pend)'.manual = Now(pend).manual
      /\ Now(pend)'.concrete = Now(pend).concrete
      /\ Now(pend)'.pending = Now(pend).pending /\ Now(pend).pending = {}
  BY <1>1, <1>3 DEF Now
<1>9. Moves(ret, Now(pend)', Now(pend)')
  <2>1. Fit(<<f>>, vars', Now(pend)'.concrete)
    BY <1>1, <1>8, Meets, EmptySeq DEF Fit, Needs, NeedsOfDefinitions
  <2>2. IsInnerSite(<<f>>, Now(pend)')
    <3>1. Sheltered(Now(pend)')
      BY <1>8 DEF Sheltered, Hot
    <3>2. IsSite(<<f>>, Now(pend)')
      BY <2>1, <1>4, <1>5, <1>7 DEF IsSite, sig
    <3> QED BY <3>1, <3>2, <1>4 DEF IsInnerSite
  <2> QED BY <2>2, <1>3, <1>5, <1>7, <1>8, BlockNeeds
<1>10. Plan(<<ret>>, Now(pend)', Now(pend)')
  BY <1>7, <1>9, PlanOne
<1>11. AtLeast(Now(pend)', v)
  <2>1. /\ v.curr = Now(pend).curr /\ v.manual = Now(pend).manual
        /\ v.concrete = Now(pend).concrete /\ v.pending = Now(pend).pending
        /\ Extends(<< >>, v.vars)
    BY <1>1, <1>2 DEF Moves
  <2> QED BY <2>1, <1>8 DEF AtLeast, Extends
<1> QED BY <1>1, <1>2, <1>3, <1>6, <1>10, <1>11, Replaced

LEMMA AddRunnersKeeps == ASSUME NEW pend, Planned(pend), AddRunners PROVE Inv'
<1> DEFINE calls == [f \in DOMAIN Functions |-> CallTo(f, Root, FALSE)]
           under == [Now(pend)' EXCEPT !.manual = <<0>>]
<1>1. /\ agenda # << >> /\ Head(agenda).do = "runners" /\ vars' = << >>
      /\ agenda' = (<<SetMax(0)>> \o calls \o <<ResetMax>>) \o Tail(agenda)
      /\ UNCHANGED <<depth, concrete, status>>
  BY DEF AddRunners, At, Do
<1>2. PICK v \in States : Moves(Head(agenda), Now(pend), v) /\ Plan(Tail(agenda), v, AllUndone)
  BY <1>1, Meets
<1>3. Now(pend).manual = << >> /\ status = "running" /\ pend = {}
  BY <1>1, Meets DEF Needs, NeedsOfDefinitions, Now
<1>4. EnvInv'
  BY <1>1, EmptySeq DEF Planned, EnvInv
<1>5. Now(pend)' \in States
  BY <1>3, <1>4, NextIsState
<1>6. /\ Now(pend)'.curr = Now(pend).curr /\ Now(pend)'.manual = Now(pend).manual
      /\ Now(pend)'.concrete = Now(pend).concrete
      /\ Now(pend)'.pending = Now(pend).pending /\ Now(pend).pending = {}
  BY <1>1, <1>3 DEF Now
<1>7. /\ under \in States /\ under.manual = <<0>> /\ under.concrete = Now(pend)'.concrete
      /\ Sheltered(under)
      /\ Moves(SetMax(0), Now(pend)', under) /\ Moves(ResetMax, under, Now(pend)')
  BY <1>3, <1>5, <1>6, LimitMoves DEF States, Sheltered, Hot
<1>8. Functions \in Seq(ToSet(Functions)) /\ Len(Functions) \in Nat
      /\ DOMAIN Functions = 1 .. Len(Functions)
  BY GeneratorAssumption
<1>9. IsSequence(calls) /\ Len(calls) = Len(Functions)
  BY <1>8, IndexedSequence
<1> HIDE DEF under
<1>10. \A i \in 1 .. Len(calls) : Moves(calls[i], under, under)
  <2> SUFFICES ASSUME NEW i \in DOMAIN Functions PROVE Moves(CallTo(i, Root, FALSE), under, under)
    BY <1>8, <1>9
  <2>2. \A tp \in TypeParameters : under.concrete[tp] = << >>
    BY <1>1, <1>6, <1>7, Meets DEF Needs, NeedsOfDefinitions
  <2>3. Fit(Root, under.vars, under.concrete)
    BY <2>2, EmptySeq DEF Fit
  <2>4. IsSite(Root, under)
    BY <2>3, <1>7 DEF IsScope, IsSite
  <2> QED BY <2>4, <1>7, CallNeeds
<1>11. Plan(calls, under, under)
  BY <1>7, <1>9, <1>10, PlanStays
<1> HIDE DEF calls
<1>12. Plan(<<SetMax(0)>> \o calls, Now(pend)', under)
  BY <1>5, <1>7, <1>11, PlanOne, PlanConcat
<1>13. Plan((<<SetMax(0)>> \o calls) \o <<ResetMax>>, Now(pend)', Now(pend)')
  BY <1>5, <1>7, <1>12, PlanOne, PlanConcat
<1>14. AtLeast(Now(pend)', v)
  <2>1. /\ v.curr = Now(pend).curr /\ v.manual = Now(pend).manual
        /\ v.concrete = Now(pend).concrete /\ v.pending = Now(pend).pending
        /\ Extends(<< >>, v.vars)
    BY <1>1, <1>2 DEF Moves
  <2> QED BY <2>1, <1>6 DEF AtLeast, Extends
<1> QED BY <1>1, <1>2, <1>3, <1>4, <1>13, <1>14, Replaced

LEMMA BlockAtLimit ==
  ASSUME EnvInv, NEW pend, Now(pend).manual # << >>, Now(pend).curr # 0
  PROVE  WillReachDepthLimit(depth, 1)
<1>1. /\ depth.curr \in Nat \ {0} /\ depth.manual \in {<<0>>, <<2>>}
      /\ depth.manual[Len(depth.manual)] \in {0, 2}
  BY DEF EnvInv, DepthStates, VectorDepth, Now
<1> QED BY <1>1 DEF WillReachDepthLimit, CurrMaxDepthLimit

LEMMA GenerateBlockKeeps == ASSUME NEW pend, Planned(pend), GenerateBlock PROVE Inv'
<1> DEFINE h == Head(agenda)
           scope == NewScope(h.scope)
           last == [h EXCEPT !.do = "block_return", !.scope = scope]
           return == IF h.type = Untyped THEN << >> ELSE <<last>>
<1>1. /\ agenda # << >> /\ h.do = "block" /\ UNCHANGED <<vars, depth, concrete, status>>
  BY DEF GenerateBlock, At
<1>2. PICK body \in IF WillReachDepthLimit(depth, 1) THEN {<< >>} ELSE Bodies(scope) :
        agenda' = (body \o return) \o Tail(agenda)
  BY DEF GenerateBlock, Do
<1>3. /\ status = "running" /\ IsInnerSite(h.scope, Now(pend))
      /\ Fields(h, {"do", "scope", "type", "want"})
      /\ h.type \in TypesOf(h.scope, Now(pend).vars) \cup {Untyped} /\ h.want = h.type
      /\ (Now(pend).manual = << >> \/ Now(pend).curr # 0)
  BY <1>1, Meets DEF Needs, NeedsOfDefinitions
<1>4. EnvInv' /\ Now(pend)' = Now(pend) /\ Now(pend) \in States /\ EnvInv
      /\ Now(pend).vars = vars /\ vars \in Environments
  BY <1>1, EnvUnchanged, NowIsState DEF Planned
<1>5. /\ IsInnerSite(scope, Now(pend))
      /\ TypesOf(h.scope, Now(pend).vars) \subseteq TypesOf(scope, Now(pend).vars)
  <2>1. IsInner(h.scope) /\ IsInner(scope) /\ IsPrefix(h.scope, scope)
    BY <1>3, <1>4, InnerSite, NewScopeInner
  <2>2. /\ IsScope(scope) /\ scope # Root /\ FunctionOf(scope) = FunctionOf(h.scope)
        /\ IsScope(h.scope) /\ h.scope # Root
    BY <2>1, InnerFunction, PrefixFunction
  <2>3. /\ TypesOf(h.scope, Now(pend).vars) \subseteq TypesOf(scope, Now(pend).vars)
        /\ Fit(h.scope, Now(pend).vars, Now(pend).concrete) =>
             Fit(scope, Now(pend).vars, Now(pend).concrete)
    BY <2>1, <1>4, InnerBlock
  <2> QED BY <2>2, <2>3, <1>3 DEF IsInnerSite, IsSite
<1>6. Plan(body, Now(pend), Now(pend))
  <2>1. CASE body = << >>
    BY <2>1, <1>4, PlanEmpty, AtLeastItself
  <2>2. CASE ~WillReachDepthLimit(depth, 1)
    <3>1. Now(pend).manual = << >> /\ Hot(Now(pend)) = {}
      BY <2>2, <1>3, <1>4, BlockAtLimit DEF IsInnerSite, Sheltered
    <3>2. PICK more : body = [i \in 1 .. NumStmts |->
            [do |-> IF i \in more THEN "operation" ELSE "statement", scope |-> scope]]
      BY <2>2, <1>2 DEF Bodies
    <3>3. IsSequence(body) /\ Len(body) = NumStmts
      BY <3>2, GeneratorAssumption, IndexedSequence
    <3>4. \A i \in 1 .. NumStmts :
            body[i].do \in {"statement", "operation"} /\ body[i].scope = scope
      BY <3>2
    <3>5. \A i \in 1 .. Len(body) : Moves(body[i], Now(pend), Now(pend))
      BY <3>1, <3>3, <3>4, <1>4, <1>5, InnerNeeds
    <3> QED BY <3>3, <3>5, <1>4, PlanStays
  <2> QED BY <2>1, <2>2, <1>2
<1>7. Plan(return, Now(pend), Now(pend))
  <2>1. CASE h.type = Untyped
    BY <2>1, <1>4, PlanEmpty, AtLeastItself
  <2>2. CASE h.type # Untyped
    <3>1. /\ last.do = "block_return" /\ last.scope = scope
          /\ last.type = h.type /\ last.want = h.type
      BY <1>3 DEF Fields
    <3> HIDE DEF last
    <3>2. Moves(last, Now(pend), Now(pend))
      BY <3>1, <2>2, <1>3, <1>4, <1>5, InnerNeeds
    <3> QED BY <3>2, <2>2, <1>4, PlanOne
  <2> QED BY <2>1, <2>2
<1> HIDE DEF return
<1>8. Plan(body \o return, Now(pend), Now(pend))
  BY <1>6, <1>7, PlanConcat
<1> QED BY <1>1, <1>2, <1>3, <1>4, <1>8, Continue, AtLeastItself

LEMMA GenerateBlockReturnKeeps == ASSUME NEW pend, Planned(pend), GenerateBlockReturn PROVE Inv'
<1> DEFINE h == Head(agenda)
           value == Expression(h.scope, h.type, TRUE, TRUE, h.want)
           items == IF LiveVariables(h.scope, h.type) # {} THEN << >> ELSE <<value>>
<1>1. /\ agenda # << >> /\ h.do = "block_return" /\ UNCHANGED <<vars, depth, concrete, status>>
      /\ agenda' = items \o Tail(agenda)
  BY DEF GenerateBlockReturn, At, Do
<1>2. /\ status = "running" /\ IsInnerSite(h.scope, Now(pend))
      /\ h.type \in TypesOf(h.scope, Now(pend).vars) /\ h.want = h.type
  BY <1>1, Meets DEF Needs, NeedsOfDefinitions
<1>3. EnvInv' /\ Now(pend)' = Now(pend) /\ Now(pend) \in States
  BY <1>1, EnvUnchanged, NowIsState DEF Planned
<1>4. Moves(value, Now(pend), Now(pend))
  BY <1>2, <1>3, InnerSite, OwnExpressionNeeds
<1>5. Plan(items, Now(pend), Now(pend))
  BY <1>3, <1>4, PlanOne, PlanEmpty, AtLeastItself
<1> QED BY <1>1, <1>2, <1>3, <1>5, Continue, AtLeastItself

-----------------------------------------------------------------------------
(* Statements.                                                             *)

LEMMA GenerateDeclarationKeeps == ASSUME NEW pend, Planned(pend), GenerateDeclaration PROVE Inv'
<1> DEFINE scope == Head(agenda).scope
<1>i. PICK id : id = Len(vars) + 1
  OBVIOUS
<1> DEFINE wait == Awaiting(Now(pend)', id)
<1>1. /\ agenda # << >> /\ Head(agenda).do = "statement" /\ UNCHANGED <<depth, concrete, status>>
      /\ vars' = Append(vars, NewVar(scope, Untyped, TRUE))
  BY DEF GenerateDeclaration, At
<1>2. PICK type \in GetRandomType(scope, TRUE, FALSE, TRUE) :
        agenda' = <<Value(scope, type), Bind(scope, id, type), Record(scope, id)>> \o Tail(agenda)
  BY <1>i DEF GenerateDeclaration, Do
<1>3. /\ status = "running" /\ IsInnerSite(scope, Now(pend)) /\ Hot(Now(pend)) = {}
      /\ IsInner(scope) /\ IsScope(scope)
  BY <1>1, Meets, InnerSite DEF Needs, NeedsOfDefinitions
<1>n. Now(pend) \in States /\ vars \in Environments /\ Now(pend).vars = vars
  BY NowIsState
<1> HIDE DEF scope
<1>4. type \in TypesOf(scope, vars) /\ type \in OwnTypes(scope, vars) /\ type # Untyped
  BY <1>2, <1>3, <1>n, RandomTypes, TypesInScope
<1>5. /\ EnvInv' /\ AtLeast(Now(pend)', Now(pend)) /\ Keeps(vars', vars)
      /\ Now(pend)' \in States /\ Now(pend)'.vars = vars' /\ vars' \in Environments
      /\ id \in DOMAIN vars' /\ vars'[id] = NewVar(scope, Untyped, TRUE) /\ id \notin pend
  BY <1>i, <1>1, <1>3, Declared
<1>p. Now(pend)'.pending = pend /\ Now(pend).pending = pend
  BY DEF Now
<1>v. vars'[id].scope = scope /\ vars'[id].type = Untyped /\ vars'[id].live
  BY <1>5 DEF NewVar
<1>k. type \in TypesOf(scope, vars') /\ type \in OwnTypes(scope, vars') /\ type \in Types
  BY <1>4, <1>5, ValuesGrow DEF OwnTypes
<1>6. /\ wait \in States /\ wait.vars = vars' /\ wait.concrete = Now(pend)'.concrete
      /\ wait.curr = Now(pend)'.curr /\ wait.manual = Now(pend)'.manual
      /\ id \in wait.pending /\ wait.pending \ {id} = pend /\ Hot(wait) = Hot(Now(pend)')
  <2> DEFINE now == Now(pend)'
  <2>1. /\ now \in States /\ id \in DOMAIN now.vars /\ id \notin now.pending
        /\ now.vars[id].type = Untyped /\ now.pending = pend /\ now.vars = vars'
    BY <1>5, <1>p, <1>v
  <2> HIDE DEF now
  <2> QED BY <2>1, AwaitingIsState DEF now
<1>w. Now(pend \cup {id})' = wait
  BY AwaitingNext
<1> HIDE DEF wait
<1> DEFINE bound == Completed(wait, id, type)
<1>7. /\ bound \in States /\ bound.vars = Bound(vars', id, type) /\ bound.pending = pend
      /\ bound.curr = Now(pend).curr /\ bound.manual = Now(pend).manual
      /\ bound.concrete = Now(pend).concrete
  <2>1. Bound(vars', id, type) \in Environments
    BY <1>5, <1>v, <1>k, BoundIsEnvironment
  <2>2. DOMAIN Bound(vars', id, type) = DOMAIN vars'
    BY DEF Bound
  <2> QED BY <2>1, <2>2, <1>5, <1>6 DEF States, AtLeast, Completed
<1>b. /\ DOMAIN Bound(vars', id, type) = DOMAIN vars' /\ id \in DOMAIN Bound(vars', id, type)
      /\ \A x \in DOMAIN vars' : x # id => Bound(vars', id, type)[x] = vars'[x]
      /\ Bound(vars', id, type)[id].scope = vars'[id].scope
      /\ Bound(vars', id, type)[id].type = type
  <2> DEFINE new == Bound(vars', id, type)
  <2>1. vars' \in Environments /\ id \in DOMAIN vars'
    BY <1>5
  <2>2. /\ DOMAIN new = DOMAIN vars' /\ \A x \in DOMAIN vars' : x # id => new[x] = vars'[x]
        /\ new[id].scope = vars'[id].scope /\ new[id].type = type
    BY <2>1, BoundVariable
  <2> QED BY <2>1, <2>2
<1>8. Moves(Value(scope, type), wait, wait)
  <2>1. IsSite(scope, Now(pend)')
    BY <1>3, <1>5, <1>n, InnerSite, SiteGrows
  <2>2. IsSite(scope, wait)
    BY <2>1, <1>5, <1>6 DEF IsSite
  <2>3. Hot(wait) = {}
    BY <1>3, <1>5, <1>6, <1>n, HotGrows
  <2> QED BY <2>2, <2>3, <1>k, <1>6, ValueNeeds DEF Sheltered
<1>9. Moves(Bind(scope, id, type), wait, bound)
  BY <1>5, <1>6, <1>v, <1>k, BindMoves, AtLeastItself
<1> HIDE DEF bound
<1>10. Moves(Record(scope, id), bound, bound)
  <2>1. /\ id \in DOMAIN bound.vars \ bound.pending /\ bound.vars[id].type = type
        /\ bound.vars[id].scope = scope
    BY <1>5, <1>7, <1>b, <1>v
  <2>2. IsInScope(scope, scope)
    BY <1>3, InnerFunction, PrefixAppend DEF IsInScope
  <2> QED BY <2>1, <2>2, <1>4, <1>7, RecordMoves, AtLeastItself
<1>11. AtLeast(bound, Now(pend))
  <2>1. \A x \in DOMAIN vars : x # id /\ x \in DOMAIN vars' /\ vars'[x] = vars[x]
    <3>1. \A x \in DOMAIN vars : x # id
      BY <1>i DEF Planned, EnvInv
    <3>2. Extends(vars', vars)
      BY <1>5, <1>n DEF AtLeast
    <3> QED BY <3>1, <3>2 DEF Extends
  <2>2. Extends(bound.vars, vars)
    BY <2>1, <1>7, <1>b DEF Extends
  <2> QED BY <2>2, <1>7, <1>n, <1>p DEF AtLeast
<1>12. Plan(<<Value(scope, type), Bind(scope, id, type), Record(scope, id)>>, wait, bound)
  BY <1>6, <1>7, <1>8, <1>9, <1>10, PlanThree
<1>13. Plan(<<Value(scope, type), Bind(scope, id, type), Record(scope, id)>>,
            Now(pend \cup {id})', bound)
  BY <1>12, <1>w
<1> QED BY <1>1, <1>2, <1>3, <1>5, <1>11, <1>13, Continue

LEMMA BindTypeKeeps == ASSUME NEW pend, Planned(pend), BindType PROVE Inv'
<1> DEFINE h == Head(agenda)
<1>1. /\ agenda # << >> /\ h.do = "bind" /\ UNCHANGED <<depth, concrete, status>>
      /\ vars' = Bound(vars, h.id, h.type) /\ agenda' = << >> \o Tail(agenda)
  BY DEF BindType, At, Do, Bound
<1>2. PICK v \in States : Moves(h, Now(pend), v) /\ Plan(Tail(agenda), v, AllUndone)
  BY <1>1, Meets
<1>e. /\ vars \in Environments /\ Now(pend).vars = vars /\ Now(pend).pending = pend
      /\ vars \in Seq(Variables) /\ pend \subseteq DOMAIN vars
  BY NowIsState DEF Planned, EnvInv, Now
<1>3. /\ status = "running" /\ h.type \in OwnTypes(h.scope, vars)
      /\ h.id \in DOMAIN vars /\ vars[h.id].scope = h.scope
      /\ vars[h.id].type \in {Untyped, h.type} /\ (h.type[1] = "vec" \/ vars[h.id].live)
  BY <1>1, <1>e, Meets DEF Needs, NeedsOfDefinitions
<1> HIDE DEF h
<1>l. PICK left : left = pend \ {h.id}
  OBVIOUS
<1>4. /\ DOMAIN vars' = DOMAIN vars /\ \A x \in DOMAIN vars : x # h.id => vars'[x] = vars[x]
      /\ vars'[h.id].scope = h.scope /\ vars'[h.id].type = h.type
  <2> DEFINE bound == Bound(vars, h.id, h.type)
  <2>1. /\ DOMAIN bound = DOMAIN vars /\ \A x \in DOMAIN vars : x # h.id => bound[x] = vars[x]
        /\ bound[h.id].scope = vars[h.id].scope /\ bound[h.id].type = h.type
    BY <1>3, <1>e, BoundVariable
  <2> QED BY <2>1, <1>1, <1>3
<1>5. vars' \in Environments /\ Keeps(vars', vars)
  BY <1>1, <1>3, <1>e, BoundIsEnvironment, BoundKeeps DEF OwnTypes
<1>6. vars' \in Seq(Variables)
  <2>1. vars' \in [1 .. Len(vars) -> Variables] /\ Len(vars) \in Nat
    BY <1>4, <1>5, <1>e, EnvironmentOf
  <2> QED BY <2>1, FunctionSequence
<1>7. \A x \in DOMAIN vars' : vars'[x].type \in OwnTypes(vars'[x].scope, vars') \cup {Untyped}
  <2> SUFFICES ASSUME NEW x \in DOMAIN vars
               PROVE  vars'[x].type \in OwnTypes(vars'[x].scope, vars') \cup {Untyped}
    BY <1>4
  <2>1. CASE x = h.id
    BY <2>1, <1>3, <1>4, <1>5, ValuesGrow
  <2>2. CASE x # h.id
    <3>1. vars'[x].type \in OwnTypes(vars'[x].scope, vars) \cup {Untyped}
      BY <2>2, <1>4 DEF Planned, EnvInv
    <3> QED BY <3>1, <1>5, ValuesGrow
  <2> QED BY <2>1, <2>2
<1>8. EnvInv' /\ left \subseteq DOMAIN vars'
  BY <1>1, <1>4, <1>6, <1>7, <1>e, <1>l DEF Planned, EnvInv
<1>9. AtLeast(Now(left)', v)
  <2>1. v.curr = Now(pend).curr /\ v.manual = Now(pend).manual /\ v.concrete = Now(pend).concrete
        /\ v.pending = left /\ Extends(vars', v.vars)
    BY <1>1, <1>2, <1>e, <1>l DEF Moves
  <2>2. /\ Now(left)'.curr = Now(pend).curr /\ Now(left)'.manual = Now(pend).manual
        /\ Now(left)'.concrete = Now(pend).concrete /\ Now(left)'.pending = left
        /\ Now(left)'.vars = vars'
    BY <1>1 DEF Now
  <2> QED BY <2>1, <2>2 DEF AtLeast
<1>10. Plan(<< >>, Now(left)', v)
  BY <1>9, PlanEmpty
<1> QED BY <1>1, <1>2, <1>3, <1>8, <1>10, Replaced, AtLeastItself

LEMMA GenerateRecordValueKeeps == ASSUME NEW pend, Planned(pend), GenerateRecordValue PROVE Inv'
<1>1. agenda # << >> /\ Head(agenda).do = "record" /\ UNCHANGED <<vars, depth, concrete>>
  BY DEF GenerateRecordValue, At
<1>2. status = "running" /\ vars[Head(agenda).id].type # Untyped
  BY <1>1, Meets DEF Needs, NeedsOfDefinitions, Now
<1>3. agenda' = << >> \o Tail(agenda) /\ status' = status
  BY <1>2 DEF GenerateRecordValue, Do
<1>4. EnvInv' /\ Now(pend)' = Now(pend) /\ Now(pend) \in States
  BY <1>1, EnvUnchanged, NowIsState DEF Planned
<1>5. Plan(<< >>, Now(pend), Now(pend))
  BY <1>4, PlanEmpty, AtLeastItself
<1> QED BY <1>1, <1>2, <1>3, <1>4, <1>5, Continue, AtLeastItself

LEMMA BinaryOperationsStay ==
  ASSUME NEW s \in States, vars \in Environments, s.vars = vars, NEW scope, IsInnerSite(scope, s),
         NEW items \in BinaryOperations(scope)
  PROVE  Stay(items, s)
<1>1. IsScope(scope) /\ IsSite(scope, s) /\ Num \in TypesOf(scope, s.vars)
  BY InnerSite, TypesInScope
<1>s. Sheltered(s)
  BY InnerSite
<1>2. CASE items = <<Value(scope, Num)>>
  <2>1. Moves(Value(scope, Num), s, s)
    BY <1>1, <1>s, ValueNeeds
  <2> QED BY <2>1, <1>2, StayTuples
<1>3. CASE items \in {<<Value(scope, t), Value(scope, t)>> :
                       t \in GetRandomType(scope, TRUE, TRUE, TRUE)}
  <2>1. PICK t \in GetRandomType(scope, TRUE, TRUE, TRUE) :
          items = <<Value(scope, t), Value(scope, t)>>
    BY <1>3
  <2>2. t \in TypesOf(scope, s.vars)
    BY <1>1, <2>1, RandomTypes
  <2>3. Moves(Value(scope, t), s, s)
    BY <1>1, <1>s, <2>2, ValueNeeds
  <2> QED BY <2>1, <2>3, StayTuples
<1> QED BY <1>2, <1>3 DEF BinaryOperations

LEMMA IfElseStays ==
  ASSUME NEW s \in States, NEW scope, IsInnerSite(scope, s), s.manual = << >> \/ s.curr # 0,
         NEW type \in TypesOf(scope, s.vars) \cup {Untyped}
  PROVE  Stay(IfElse(scope, type, type), s)
<1>1. IsSite(scope, s) /\ Sheltered(s) /\ Num \in TypesOf(scope, s.vars)
  BY InnerSite, TypesInScope
<1>2. Moves(Value(scope, Num), s, s) /\ Moves(BlockOf(scope, type, type), s, s)
  BY <1>1, ValueNeeds, BlockNeeds
<1> QED BY <1>2, StayTuples DEF IfElse

LEMMA IfsStay ==
  ASSUME NEW s \in States, NEW scope, IsInnerSite(scope, s), s.manual = << >> \/ s.curr # 0,
         NEW items \in Ifs(scope)
  PROVE  Stay(items, s)
<1> DEFINE both == IfElse(scope, Untyped, Untyped)
<1>1. Stay(both, s) /\ Len(both) = 3
  BY IfElseStays, Tuples DEF IfElse
<1> HIDE DEF both
<1>2. CASE items = Front(both)
  <2>1. both \in Seq(ToSet(both)) /\ \A i \in 1 .. 2 : both[i] \in ToSet(both)
    BY <1>1, SequenceLen DEF Stay, IsSequence, ToSet
  <2>2. SubSeq(both, 1, 2) \in Seq(ToSet(both)) /\ Len(SubSeq(both, 1, 2)) = 2
    BY <2>1, SubSeqProperties
  <2>3. \A i \in 1 .. 2 - 1 + 1 : SubSeq(both, 1, 2)[i] = both[1 + i - 1]
    BY <2>1, SubSeqProperties
  <2>4. \A i \in 1 .. 2 : SubSeq(both, 1, 2)[i] = both[i]
    BY <2>3
  <2>5. items = SubSeq(both, 1, 2)
    BY <1>1, <1>2 DEF Front
  <2>6. \A i \in 1 .. 2 : Moves(both[i], s, s)
    BY <1>1 DEF Stay
  <2> QED BY <2>2, <2>4, <2>5, <2>6, SequenceOf DEF Stay
<1> QED BY <1>1, <1>2 DEF Ifs, both

(* What nests is done one level deeper, and the level is left after it.    *)
LEMMA Nest ==
  ASSUME NEW pend, Planned(pend), agenda # << >>, Head(agenda).do \in {"statement", "nest"},
         UNCHANGED <<vars, concrete, status>>, depth' = IncreaseDepth(depth),
         NEW items, Stay(items, Now(pend)'), agenda' = Append(items, Decrease) \o Tail(agenda)
  PROVE  Inv'
<1>1. /\ EnvInv' /\ Now(pend)' \in States /\ Now(pend)'.curr # 0
      /\ AtLeast([Now(pend)' EXCEPT !.curr = @ - 1], Now(pend))
  BY Increased DEF Planned
<1>2. Now(pend)' \in States /\ Now(pend) \in States
  BY <1>1, NowIsState
<1>3. Plan(items, Now(pend)', Now(pend)')
  BY <1>2, StayPlan
<1>4. Moves(Decrease, Now(pend)', Now(pend))
  BY <1>1, <1>2, DecreaseMoves
<1>5. Plan(Append(items, Decrease), Now(pend)', Now(pend))
  BY <1>2, <1>3, <1>4, PlanThen
<1> QED BY <1>1, <1>5, Meets, Continue, AtLeastItself

LEMMA GenerateExpressionKeeps == ASSUME NEW pend, Planned(pend), GenerateExpression PROVE Inv'
<1> DEFINE scope == Head(agenda).scope
           kinds == BinaryOperations(scope) \cup Ifs(scope)
             \cup {<<BlockOf(scope, t, t)>> :
                     t \in {Untyped} \cup GetRandomType(scope, TRUE, TRUE, TRUE)}
             \cup {<<CallTo(f, scope, TRUE)>> : f \in CallableFunctions(scope)}
             \cup {<<[do |-> "assignment", scope |-> scope]>> : v \in Identifiers(scope)}
<1>1. agenda # << >> /\ Head(agenda).do = "statement" /\ UNCHANGED <<vars, concrete, status>>
  BY DEF GenerateExpression, At
<1>2. /\ status = "running" /\ IsInnerSite(scope, Now(pend)) /\ Now(pend).manual = << >>
      /\ Hot(Now(pend)) = {} /\ IsScope(scope)
  BY <1>1, Meets, InnerSite DEF Needs, NeedsOfDefinitions
<1>3. CASE ReachedDepthLimit(depth)
  <2>1. agenda' = << >> \o Tail(agenda) /\ UNCHANGED depth
    BY <1>3 DEF GenerateExpression, Do
  <2>2. EnvInv' /\ Now(pend)' = Now(pend) /\ Now(pend) \in States
    BY <1>1, <2>1, EnvUnchanged, NowIsState DEF Planned
  <2>3. Plan(<< >>, Now(pend), Now(pend))
    BY <2>2, PlanEmpty, AtLeastItself
  <2> QED BY <1>1, <1>2, <2>1, <2>2, <2>3, Continue, AtLeastItself
<1>4. CASE ~ReachedDepthLimit(depth)
  <2>1. depth' = IncreaseDepth(depth)
    BY <1>4 DEF GenerateExpression
  <2>2. PICK items \in kinds : agenda' = Append(items, Decrease) \o Tail(agenda)
    BY <1>4 DEF GenerateExpression, Do
  <2>3. /\ EnvInv' /\ Now(pend)'.manual = << >> /\ IsInnerSite(scope, Now(pend)')
        /\ Hot(Now(pend)') = {}
    BY <1>1, <1>2, <2>1, Increased DEF Planned, IsInnerSite, IsSite
  <2>4. Now(pend)' \in States /\ Now(pend)'.vars = vars /\ vars \in Environments
    BY <1>1, <2>1, Increased, NowIsState
  <2> HIDE DEF scope
  <2>5. Stay(items, Now(pend)')
    <3>5. CASE items \in BinaryOperations(scope)
      BY <3>5, <2>3, <2>4, BinaryOperationsStay
    <3>6. CASE items \in Ifs(scope)
      BY <3>6, <2>3, <2>4, IfsStay
    <3>7. CASE items \in {<<BlockOf(scope, t, t)>> :
                           t \in {Untyped} \cup GetRandomType(scope, TRUE, TRUE, TRUE)}
      <4>1. PICK t \in {Untyped} \cup GetRandomType(scope, TRUE, TRUE, TRUE) :
              items = <<BlockOf(scope, t, t)>>
        BY <3>7
      <4>2. t \in TypesOf(scope, Now(pend)'.vars) \cup {Untyped}
        BY <1>2, <2>4, <4>1, RandomTypes
      <4>3. Moves(BlockOf(scope, t, t), Now(pend)', Now(pend)')
        BY <4>2, <2>3, <2>4, BlockNeeds
      <4> QED BY <4>1, <4>3, StayTuples
    <3>8. CASE items \in {<<CallTo(f, scope, TRUE)>> : f \in CallableFunctions(scope)}
      <4>1. PICK f \in CallableFunctions(scope) : items = <<CallTo(f, scope, TRUE)>>
        BY <3>8
      <4>2. f \in DOMAIN Functions
        BY DEF CallableFunctions
      <4>3. Moves(CallTo(f, scope, TRUE), Now(pend)', Now(pend)')
        BY <4>2, <2>3, <2>4, InnerSite, CallNeeds
      <4> QED BY <4>1, <4>3, StayTuples
    <3>9. CASE items \in {<<[do |-> "assignment", scope |-> scope]>> : v \in Identifiers(scope)}
      <4>1. items = <<[do |-> "assignment", scope |-> scope]>>
        BY <3>9
      <4>2. Moves([do |-> "assignment", scope |-> scope], Now(pend)', Now(pend)')
        BY <2>3, <2>4, InnerNeeds
      <4> QED BY <4>1, <4>2, StayTuples
    <3> QED BY <2>2, <3>5, <3>6, <3>7, <3>8, <3>9
  <2> QED BY <1>1, <2>1, <2>2, <2>5, Nest
<1> QED BY <1>3, <1>4

LEMMA GenerateAssignmentKeeps == ASSUME NEW pend, Planned(pend), GenerateAssignment PROVE Inv'
<1> DEFINE scope == Head(agenda).scope
<1>1. /\ agenda # << >> /\ Head(agenda).do = "assignment"
      /\ UNCHANGED <<vars, depth, concrete, status>>
  BY DEF GenerateAssignment, At
<1>2. /\ status = "running" /\ IsSite(scope, Now(pend)) /\ IsScope(scope)
      /\ Sheltered(Now(pend)) /\ Hot(Now(pend)) = {}
  BY <1>1, Meets, InnerSite DEF Needs, NeedsOfDefinitions
<1>3. /\ EnvInv' /\ Now(pend)' = Now(pend) /\ Now(pend) \in States /\ Now(pend).vars = vars
      /\ vars \in Environments
  BY <1>1, EnvUnchanged, NowIsState DEF Planned
<1>4. PICK type \in GetRandomType(scope, TRUE, TRUE, FALSE) :
        \/ \E v \in {w \in Identifiers(scope) : vars[w].type = type} :
             agenda' = <<Value(scope, type), Record(scope, v)>> \o Tail(agenda)
        \/ agenda' = <<Value(scope, type), Value(scope, type)>> \o Tail(agenda)
        \/ agenda' = <<Value(scope, <<"&mut">> \o type), Value(scope, type)>> \o Tail(agenda)
  BY DEF GenerateAssignment, Do
<1> HIDE DEF scope
<1>5. /\ type \in TypesOf(scope, Now(pend).vars)
      /\ <<"&mut">> \o type \in TypesOf(scope, Now(pend).vars)
  <2>1. type \in PlainTypes \cap TypesOf(scope, Now(pend).vars)
    BY <1>2, <1>3, <1>4, RandomTypes
  <2> QED BY <2>1, <1>2, TypesInScope
<1>6. /\ Moves(Value(scope, type), Now(pend), Now(pend))
      /\ Moves(Value(scope, <<"&mut">> \o type), Now(pend), Now(pend))
  BY <1>2, <1>3, <1>5, ValueNeeds
<1>7. \A v \in Identifiers(scope) : Moves(Record(scope, v), Now(pend), Now(pend))
  <2> SUFFICES ASSUME NEW v \in Identifiers(scope)
               PROVE  Moves(Record(scope, v), Now(pend), Now(pend))
    OBVIOUS
  <2>1. /\ v \in DOMAIN vars \ Now(pend).pending /\ vars[v].type # Untyped
        /\ IsInScope(scope, vars[v].scope)
    BY <1>2, <1>3 DEF Identifiers, IdentifiersAll, Hot
  <2> QED BY <2>1, <1>3, RecordMoves, AtLeastItself
<1>8. \E items : Stay(items, Now(pend)) /\ agenda' = items \o Tail(agenda)
  BY <1>4, <1>6, <1>7, StayTuples
<1> QED BY <1>1, <1>2, <1>3, <1>8, StayPlan, Continue, AtLeastItself

-----------------------------------------------------------------------------
(* Vectors and global storage.                                             *)

(* A value that may use variables, but no call, under a limit.             *)
LEMMA PlanValuesUnder ==
  ASSUME NEW s \in States, s.manual = << >>, NEW scope, scope # Root, IsSite(scope, s),
         \A v \in Hot(s) : s.vars[v].type[1] = "vec",
         NEW limit \in {0, VectorDepth}, NEW types, IsSequence(types),
         \A i \in DOMAIN types : types[i] \in TypesOf(scope, s.vars)
  PROVE  Plan(UnderEach(limit, [i \in DOMAIN types |->
                                  Expression(scope, types[i], TRUE, FALSE, types[i])]), s, s)
<1> DEFINE items == [i \in DOMAIN types |-> Expression(scope, types[i], TRUE, FALSE, types[i])]
           t == [s EXCEPT !.manual = <<limit>>]
<1>1. Len(types) \in Nat /\ DOMAIN types = 1 .. Len(types)
  BY SequenceLen
<1>2. IsSequence(items) /\ Len(items) = Len(types)
  BY <1>1, IndexedSequence
<1>3. /\ t \in States /\ t.concrete = s.concrete /\ t.vars = s.vars /\ t.pending = s.pending
      /\ t.manual # << >>
  BY LimitMoves DEF States
<1>s. IsSite(scope, t) /\ Sheltered(t)
  BY <1>3 DEF IsSite, Sheltered, Hot
<1> HIDE DEF t
<1>4. \A i \in 1 .. Len(items) : Moves(items[i], t, t)
  <2> SUFFICES ASSUME NEW i \in DOMAIN types
               PROVE  Moves(Expression(scope, types[i], TRUE, FALSE, types[i]), t, t)
    BY <1>1, <1>2
  <2> QED BY <1>3, <1>s, OwnExpressionNeeds
<1> HIDE DEF items
<1> QED BY <1>2, <1>4, PlanUnderEach DEF items, t

(* The state in which a variable that has its type awaits the rest of its  *)
(* let.                                                                    *)
LetOpen(pend, scope, id, type, wait) ==
  /\ EnvInv' /\ Keeps(vars', vars) /\ wait \in States /\ wait.vars = vars'
  /\ wait.manual = Now(pend).manual /\ IsSite(scope, wait)
  /\ Hot(wait) = Hot(Now(pend)) \cup {id} /\ wait.vars[id].type = type
  /\ Now(pend)' \in States /\ AtLeast(Now(pend)', Now(pend))
  /\ Moves(Bind(scope, id, type), wait, Now(pend)')

LEMMA DeclaredTyped ==
  ASSUME NEW pend, Planned(pend), UNCHANGED <<depth, concrete>>,
         NEW scope, IsInnerSite(scope, Now(pend)), NEW type \in OwnTypes(scope, vars),
         \/ vars' = Append(vars, NewVar(scope, type, TRUE))
         \/ vars' = Append(vars, NewVar(scope, type, FALSE)) /\ type[1] = "vec",
         NEW id, id = Len(vars) + 1,
         NEW wait, wait = Now(pend \cup {id})'
  PROVE  LetOpen(pend, scope, id, type, wait)
<1> DEFINE old == Now(pend)
           now == Now(pend)'
<1>1. IsInner(scope) /\ IsScope(scope) /\ IsSite(scope, old) /\ type # Untyped
  BY InnerSite, TypesInScope
<1>2. /\ EnvInv' /\ AtLeast(now, old) /\ Keeps(vars', vars)
      /\ now \in States /\ now.vars = vars' /\ vars' \in Environments
      /\ id \notin pend /\ id \in DOMAIN vars'
      /\ vars'[id].scope = scope /\ vars'[id].type = type
      /\ vars'[id].live \/ type[1] = "vec"
  <2>1. CASE vars' = Append(vars, NewVar(scope, type, TRUE))
    <3>1. /\ EnvInv' /\ AtLeast(now, old) /\ Keeps(vars', vars)
          /\ now \in States /\ now.vars = vars' /\ vars' \in Environments
          /\ id \notin pend /\ id \in DOMAIN vars'
          /\ vars'[id] = NewVar(scope, type, TRUE)
      BY <1>1, <2>1, Declared
    <3> QED BY <3>1 DEF NewVar
  <2>2. CASE vars' = Append(vars, NewVar(scope, type, FALSE)) /\ type[1] = "vec"
    <3>1. /\ EnvInv' /\ AtLeast(now, old) /\ Keeps(vars', vars)
          /\ now \in States /\ now.vars = vars' /\ vars' \in Environments
          /\ id \notin pend /\ id \in DOMAIN vars'
          /\ vars'[id] = NewVar(scope, type, FALSE)
      BY <1>1, <2>2, Declared
    <3> QED BY <3>1, <2>2 DEF NewVar
  <2> QED BY <2>1, <2>2
<1>4. old \in States /\ old.vars = vars /\ now.pending = pend
  BY NowIsState DEF Now
<1>5. wait = Awaiting(now, id)
  BY AwaitingNext
<1>6. type \in OwnTypes(scope, vars')
  BY <1>2, ValuesGrow
<1> HIDE DEF old, now
<1>7. /\ wait \in States /\ id \in wait.pending /\ wait.manual = now.manual
      /\ wait.concrete = now.concrete /\ wait.vars = vars'
      /\ Hot(wait) = Hot(now) \cup {id}
  <2>1. now \in States /\ id \in DOMAIN now.vars /\ id \notin now.pending
    BY <1>2, <1>4
  <2>2. PICK n : n = now
    OBVIOUS
  <2>3. n \in States /\ id \in DOMAIN n.vars /\ id \notin n.pending /\ wait = Awaiting(n, id)
    BY <2>1, <2>2, <1>5
  <2>4. wait \in States /\ id \in wait.pending
    BY <2>3, AwaitingIsState
  <2>5. wait.manual = n.manual /\ wait.concrete = n.concrete /\ wait.vars = n.vars
    BY <2>3, AwaitingIsState
  <2>6. n.vars[id].type # Untyped /\ n.vars = vars'
    BY <2>2, <1>1, <1>2
  <2>7. Hot(wait) = Hot(n) \cup {id}
    BY <2>3, <2>6, AwaitingIsState
  <2> QED BY <2>2, <2>4, <2>5, <2>6, <2>7
<1>8. Hot(now) = Hot(old) /\ now.manual = old.manual
  BY <1>2, <1>4, HotGrows DEF AtLeast
<1>9. IsSite(scope, wait)
  <2>1. IsSite(scope, now)
    BY <1>1, <1>2, <1>4, SiteGrows
  <2> QED BY <2>1, <1>2, <1>7 DEF IsSite
<1>10. AtLeast(Completed(wait, id, type), now)
  BY <1>2, <1>4, <1>5, CompletedBefore
<1>11. Moves(Bind(scope, id, type), wait, now)
  BY <1>2, <1>6, <1>7, <1>10, BindMoves
<1>12. wait.vars[id].type = type
  BY <1>2, <1>7
<1> QED BY <1>2, <1>7, <1>8, <1>9, <1>11, <1>12 DEF LetOpen, old, now

LEMMA NewVectorLiteralKeeps ==
  ASSUME NEW pend, Planned(pend), agenda # << >>, Head(agenda).do \in {"statement", "operation"},
         NewVectorLiteral(Head(agenda).scope), UNCHANGED <<depth, concrete, status>>
  PROVE  Inv'
<1> DEFINE scope == Head(agenda).scope
<1>i. PICK id : id = Len(vars) + 1
  OBVIOUS
<1>1. PICK type \in GetRandomType(scope, TRUE, TRUE, FALSE), n \in 0 .. MaxElems :
        /\ vars' = Append(vars, NewVar(scope, <<"vec">> \o type, FALSE))
        /\ agenda' = (UnderEach(VectorDepth,
                                [i \in 1 .. n |-> Expression(scope, type, TRUE, FALSE, type)])
                        \o <<Bind(scope, id, <<"vec">> \o type)>>) \o Tail(agenda)
  BY <1>i DEF NewVectorLiteral, Do
<1>2. /\ status = "running" /\ IsInnerSite(scope, Now(pend)) /\ Now(pend).manual = << >>
      /\ IsScope(scope) /\ scope # Root /\ Hot(Now(pend)) = {}
  BY Meets, InnerSite DEF Needs, NeedsOfDefinitions
<1>n. vars \in Environments /\ Now(pend).vars = vars
  BY NowIsState
<1> HIDE DEF scope
<1>w. PICK wait : wait = Now(pend \cup {id})'
  OBVIOUS
<1> DEFINE vec == <<"vec">> \o type
<1>3. type \in TypesOf(scope, vars) /\ vec \in OwnTypes(scope, vars) /\ vec[1] = "vec"
  <2>1. type \in PlainTypes \cap TypesOf(scope, vars)
    BY <1>1, <1>2, <1>n, RandomTypes
  <2> QED BY <2>1, <1>2, TypesInScope, VectorTypes
<1> HIDE DEF vec
<1>4. /\ EnvInv' /\ Keeps(vars', vars) /\ wait \in States /\ wait.vars = vars'
      /\ wait.manual = << >> /\ IsSite(scope, wait)
      /\ Hot(wait) = {id} /\ wait.vars[id].type = vec
      /\ Now(pend)' \in States /\ AtLeast(Now(pend)', Now(pend))
      /\ Moves(Bind(scope, id, vec), wait, Now(pend)')
  <2>1. vars' = Append(vars, NewVar(scope, vec, FALSE))
    BY <1>1 DEF vec
  <2>p. /\ IsInnerSite(scope, Now(pend)) /\ vec \in OwnTypes(scope, vars)
        /\ \/ vars' = Append(vars, NewVar(scope, vec, TRUE))
           \/ vars' = Append(vars, NewVar(scope, vec, FALSE)) /\ vec[1] = "vec"
    BY <2>1, <1>2, <1>3
  <2>2. LetOpen(pend, scope, id, vec, wait)
    BY <2>p, <1>i, <1>w, DeclaredTyped
  <2> QED BY <2>2, <1>2 DEF LetOpen
<1> DEFINE types == [i \in 1 .. n |-> type]
           elements == UnderEach(VectorDepth,
                                 [i \in 1 .. n |-> Expression(scope, type, TRUE, FALSE, type)])
<1>5. IsSequence(types) /\ DOMAIN types = 1 .. n /\ \A i \in 1 .. n : types[i] = type
  <2>1. n \in Nat
    BY GeneratorAssumption
  <2> QED BY <2>1, IndexedSequence
<1>6. elements = UnderEach(VectorDepth, [i \in DOMAIN types |->
                                 Expression(scope, types[i], TRUE, FALSE, types[i])])
  BY <1>5
<1>7. type \in TypesOf(scope, wait.vars)
  BY <1>3, <1>4, ValuesGrow
<1> HIDE DEF types, elements
<1>8. Plan(elements, wait, wait)
  BY <1>2, <1>3, <1>4, <1>5, <1>6, <1>7, PlanValuesUnder
<1>9. Plan(elements \o <<Bind(scope, id, vec)>>, wait, Now(pend)')
  BY <1>4, <1>8, PlanOne, PlanConcat
<1>10. agenda' = (elements \o <<Bind(scope, id, vec)>>) \o Tail(agenda)
  BY <1>1 DEF elements, vec
<1> QED BY <1>2, <1>4, <1>9, <1>10, <1>w, Continue

LEMMA VectorOperationKeeps ==
  ASSUME NEW pend, Planned(pend), agenda # << >>, Head(agenda).do \in {"statement", "operation"},
         NEW e \in PlainTypes \cap TypesOf(Head(agenda).scope, Now(pend).vars),
         NEW op \in VectorOperations(e),
         VectorOperation(Head(agenda).scope, op), UNCHANGED <<depth, concrete, status>>
  PROVE  Inv'
<1> DEFINE scope == Head(agenda).scope
           args == UnderEach(VectorDepth, [i \in DOMAIN op.args |->
                                Expression(scope, op.args[i], TRUE, FALSE, op.args[i])])
           results == [i \in DOMAIN op.ret |->
                         [do |-> "result", scope |-> scope, type |-> op.ret[i]]]
<1>1. agenda' = (args \o results) \o Tail(agenda) /\ UNCHANGED vars
  BY DEF VectorOperation, Do
<1>2. /\ status = "running" /\ IsInnerSite(scope, Now(pend)) /\ Now(pend).manual = << >>
      /\ IsScope(scope) /\ scope # Root /\ IsSite(scope, Now(pend)) /\ Hot(Now(pend)) = {}
  BY Meets, InnerSite DEF Needs, NeedsOfDefinitions
<1>3. EnvInv' /\ Now(pend)' = Now(pend) /\ Now(pend) \in States
  BY <1>1, EnvUnchanged, NowIsState DEF Planned
<1> HIDE DEF scope
<1>4. /\ IsSequence(op.args) /\ IsSequence(op.ret)
      /\ \A i \in DOMAIN op.args : op.args[i] \in TypesOf(scope, Now(pend).vars)
      /\ \A i \in DOMAIN op.ret : op.ret[i] \in OwnTypes(scope, Now(pend).vars)
  BY <1>2, OperationTypes DEF scope
<1>5. Plan(args, Now(pend), Now(pend))
  BY <1>2, <1>3, <1>4, PlanValuesUnder
<1>6. Plan(results, Now(pend), Now(pend))
  <2>1. Len(op.ret) \in Nat /\ DOMAIN op.ret = 1 .. Len(op.ret)
    BY <1>4, SequenceLen
  <2>2. IsSequence(results) /\ Len(results) = Len(op.ret)
    BY <2>1, IndexedSequence
  <2>3. \A i \in 1 .. Len(results) : Moves(results[i], Now(pend), Now(pend))
    <3> SUFFICES ASSUME NEW i \in DOMAIN op.ret
                 PROVE  Moves([do |-> "result", scope |-> scope, type |-> op.ret[i]],
                              Now(pend), Now(pend))
      BY <2>1, <2>2
    <3> QED BY <1>2, <1>3, <1>4, InnerNeeds
  <2> QED BY <2>2, <2>3, <1>3, PlanStays
<1> HIDE DEF args, results
<1>7. Plan(args \o results, Now(pend), Now(pend))
  BY <1>5, <1>6, PlanConcat
<1> QED BY <1>1, <1>2, <1>3, <1>7, Continue, AtLeastItself

LEMMA GenerateVectorOperationKeeps ==
  ASSUME NEW pend, Planned(pend), GenerateVectorOperation
  PROVE  Inv'
<1> DEFINE scope == Head(agenda).scope
<1>1. /\ agenda # << >> /\ Head(agenda).do \in {"statement", "operation"}
      /\ UNCHANGED <<depth, concrete, status>>
  BY DEF GenerateVectorOperation, At
<1>2. \/ NewVectorLiteral(scope)
      \/ \E type \in GetRandomType(scope, TRUE, TRUE, FALSE) :
           \E op \in VectorOperations(type) : VectorOperation(scope, op)
      \/ \E v \in VectorIdentifiers(scope) : \E op \in VectorOperations(Tail(vars[v].type)) :
           VectorOperation(scope, op)
  BY DEF GenerateVectorOperation
<1>3. IsScope(scope) /\ IsInner(scope)
  BY <1>1, Meets, InnerSite DEF Needs, NeedsOfDefinitions
<1>4. CASE NewVectorLiteral(scope)
  BY <1>1, <1>4, NewVectorLiteralKeeps
<1>5. CASE \E type \in GetRandomType(scope, TRUE, TRUE, FALSE) :
             \E op \in VectorOperations(type) : VectorOperation(scope, op)
  <2>1. PICK type \in GetRandomType(scope, TRUE, TRUE, FALSE) :
          \E op \in VectorOperations(type) : VectorOperation(scope, op)
    BY <1>5
  <2>2. type \in PlainTypes \cap TypesOf(scope, Now(pend).vars)
    BY <1>3, <2>1, NowIsState, RandomTypes
  <2> QED BY <1>1, <2>1, <2>2, VectorOperationKeeps
<1>6. CASE \E v \in VectorIdentifiers(scope) : \E op \in VectorOperations(Tail(vars[v].type)) :
             VectorOperation(scope, op)
  <2>1. PICK v \in VectorIdentifiers(scope) :
          \E op \in VectorOperations(Tail(vars[v].type)) : VectorOperation(scope, op)
    BY <1>6
  <2>2. /\ v \in DOMAIN vars /\ vars[v].type # Untyped /\ vars[v].type[1] = "vec"
        /\ IsPrefix(vars[v].scope, scope)
    BY <2>1 DEF VectorIdentifiers, IdentifiersAll, IsInScope
  <2>e. vars \in Environments /\ Now(pend).vars = vars
    BY NowIsState
  <2>3. IsInner(vars[v].scope) /\ vars[v].type \in OwnTypes(vars[v].scope, vars)
    BY <2>2, <2>e, EnvironmentOf DEF Planned, EnvInv, Variables
  <2>4. vars[v].type \in OwnTypes(scope, Now(pend).vars)
    BY <1>3, <2>2, <2>3, <2>e, InnerBlock
  <2>5. Tail(vars[v].type) \in PlainTypes /\ Last(Tail(vars[v].type)) = Last(vars[v].type)
    BY <2>2, <2>4, VectorShape DEF OwnTypes
  <2>6. Tail(vars[v].type) \in PlainTypes \cap TypesOf(scope, Now(pend).vars)
    BY <2>4, <2>5 DEF OwnTypes, TypesOf, ExprTypes, HasValues
  <2> QED BY <1>1, <2>1, <2>6, VectorOperationKeeps
<1> QED BY <1>2, <1>4, <1>5, <1>6

LEMMA DeclareResultKeeps == ASSUME NEW pend, Planned(pend), DeclareResult PROVE Inv'
<1> DEFINE h == Head(agenda)
<1>1. /\ agenda # << >> /\ h.do = "result" /\ UNCHANGED <<depth, concrete, status>>
      /\ vars' = Append(vars, NewVar(h.scope, h.type, TRUE)) /\ agenda' = << >> \o Tail(agenda)
  BY DEF DeclareResult, At, Do
<1>2. status = "running" /\ IsInner(h.scope) /\ h.type \in OwnTypes(h.scope, vars)
  BY <1>1, Meets, InnerSite, NowIsState DEF Needs, NeedsOfDefinitions
<1>3. EnvInv' /\ AtLeast(Now(pend)', Now(pend)) /\ Now(pend)' \in States
  BY <1>1, <1>2, Declared
<1>4. Plan(<< >>, Now(pend)', Now(pend)')
  BY <1>3, PlanEmpty, AtLeastItself
<1> QED BY <1>1, <1>2, <1>3, <1>4, Continue

LEMMA GenerateResourceOperationKeeps ==
  ASSUME NEW pend, Planned(pend), GenerateResourceOperation
  PROVE  Inv'
<1> DEFINE scope == Head(agenda).scope
           fallback(s) == UnderEach(0, <<Expression(scope, <<s>>, FALSE, TRUE, <<s>>)>>)
<1>i. PICK id : id = Len(vars) + 1
  OBVIOUS
<1>1. /\ agenda # << >> /\ Head(agenda).do = "operation" /\ UNCHANGED <<depth, concrete, status>>
  BY DEF GenerateResourceOperation, At
<1>2. /\ status = "running" /\ IsInnerSite(scope, Now(pend)) /\ Now(pend).manual = << >>
      /\ IsSite(scope, Now(pend)) /\ IsScope(scope) /\ scope # Root
      /\ Hot(Now(pend)) = {} /\ Sheltered(Now(pend))
  BY <1>1, Meets, InnerSite DEF Needs, NeedsOfDefinitions
<1>3. PICK s \in KeyStructs :
        \/ agenda' = <<Value(scope, <<s>>)>> \o Tail(agenda) /\ UNCHANGED vars
        \/ /\ vars' = Append(vars, NewVar(scope, Num, TRUE))
           /\ agenda' = <<Bind(scope, id, Num)>> \o Tail(agenda)
        \/ \E type \in {<<s>>, <<"&", s>>, <<"&mut", s>>} :
             /\ vars' = Append(vars, NewVar(scope, type, TRUE))
             /\ agenda' = (fallback(s) \o <<Bind(scope, id, type)>>) \o Tail(agenda)
  BY <1>i DEF GenerateResourceOperation, Do
<1> HIDE DEF scope
<1>n. Now(pend).vars = vars /\ Now(pend) \in States
  BY NowIsState
<1>4. /\ <<s>> \in StructTypes /\ <<s>> \in TypesOf(scope, vars)
      /\ {<<s>>, <<"&", s>>, <<"&mut", s>>, Num} \subseteq OwnTypes(scope, vars)
  <2>1. <<s>> \in StructTypes
    BY GeneratorAssumption DEF StructTypes
  <2>2. {<<s>>, Num} \subseteq PlainTypes \cap TypesOf(scope, vars)
    BY <2>1, <1>2, TypesInScope
  <2>3. <<"&">> \o <<s>> \in TypesOf(scope, vars) /\ <<"&mut">> \o <<s>> \in TypesOf(scope, vars)
    BY <2>2, <1>2, TypesInScope
  <2>4. <<"&", s>> \in TypesOf(scope, vars) /\ <<"&mut", s>> \in TypesOf(scope, vars)
    BY <2>3, PairOf
  <2> QED BY <2>1, <2>2, <2>4, <1>2, TypesInScope
<1>5. ASSUME agenda' = <<Value(scope, <<s>>)>> \o Tail(agenda), UNCHANGED vars
      PROVE  Inv'
  <2>1. EnvInv' /\ Now(pend)' = Now(pend)
    BY <1>1, <1>5, EnvUnchanged
  <2>2. Moves(Value(scope, <<s>>), Now(pend), Now(pend))
    BY <1>2, <1>4, <1>n, ValueNeeds
  <2>3. Plan(<<Value(scope, <<s>>)>>, Now(pend), Now(pend))
    BY <1>n, <2>2, PlanOne
  <2> QED BY <1>1, <1>2, <1>5, <2>1, <2>3, Continue, AtLeastItself
<1>w. PICK wait : wait = Now(pend \cup {id})'
  OBVIOUS
<1> DEFINE Ready(type) ==
             /\ wait \in States /\ wait.manual = << >> /\ IsSite(scope, wait)
             /\ Hot(wait) = {id} /\ wait.vars[id].type = type
             /\ TypesOf(scope, vars) \subseteq TypesOf(scope, wait.vars)
<1>6. ASSUME NEW type \in {<<s>>, <<"&", s>>, <<"&mut", s>>, Num},
             vars' = Append(vars, NewVar(scope, type, TRUE)),
             NEW items, agenda' = (items \o <<Bind(scope, id, type)>>) \o Tail(agenda),
             Ready(type) => Plan(items, wait, wait)
      PROVE  Inv'
  <2>1. type \in OwnTypes(scope, vars)
    BY <1>4
  <2>p. /\ UNCHANGED <<depth, concrete>> /\ IsInnerSite(scope, Now(pend))
        /\ \/ vars' = Append(vars, NewVar(scope, type, TRUE))
           \/ vars' = Append(vars, NewVar(scope, type, FALSE)) /\ type[1] = "vec"
    BY <1>1, <1>2, <1>6
  <2>o. LetOpen(pend, scope, id, type, wait)
    BY <2>p, <2>1, <1>i, <1>w, DeclaredTyped
  <2>2. EnvInv' /\ Keeps(vars', vars) /\ wait \in States /\ wait.vars = vars'
    BY <2>o DEF LetOpen
  <2>3. wait.manual = << >> /\ IsSite(scope, wait)
    BY <2>o, <1>2 DEF LetOpen
  <2>4. Hot(wait) = {id} /\ wait.vars[id].type = type
    BY <2>o, <1>2 DEF LetOpen
  <2>5. Now(pend)' \in States /\ AtLeast(Now(pend)', Now(pend))
    BY <2>o DEF LetOpen
  <2>6. Moves(Bind(scope, id, type), wait, Now(pend)')
    BY <2>o DEF LetOpen
  <2>7. TypesOf(scope, vars) \subseteq TypesOf(scope, wait.vars)
    BY <2>2, ValuesGrow
  <2>8. Plan(items, wait, wait)
    BY <1>2, <1>6, <2>2, <2>3, <2>4, <2>7
  <2>9. Plan(items \o <<Bind(scope, id, type)>>, wait, Now(pend)')
    BY <2>2, <2>5, <2>6, <2>8, PlanOne, PlanConcat
  <2> QED BY <1>1, <1>2, <1>6, <2>2, <2>5, <2>9, <1>w, Continue
<1>7. ASSUME vars' = Append(vars, NewVar(scope, Num, TRUE)),
             agenda' = <<Bind(scope, id, Num)>> \o Tail(agenda)
      PROVE  Inv'
  <2>1. << >> \o <<Bind(scope, id, Num)>> = <<Bind(scope, id, Num)>>
    OBVIOUS
  <2>2. agenda' = (<< >> \o <<Bind(scope, id, Num)>>) \o Tail(agenda)
    BY <1>7, <2>1
  <2>3. Ready(Num) => Plan(<< >>, wait, wait)
    BY PlanEmpty, AtLeastItself
  <2> QED BY <1>6, <1>7, <2>2, <2>3
<1>8. ASSUME NEW type \in {<<s>>, <<"&", s>>, <<"&mut", s>>},
             Ready(type)
      PROVE  Plan(fallback(s), wait, wait)
  <2> DEFINE value == Expression(scope, <<s>>, FALSE, TRUE, <<s>>)
             t == [wait EXCEPT !.manual = <<0>>]
  <2>1. /\ t \in States /\ t.concrete = wait.concrete /\ t.vars = wait.vars
        /\ t.pending = wait.pending /\ t.manual = <<0>>
    BY <1>8, LimitMoves DEF States
  <2> HIDE DEF t
  <2>2. IsSite(scope, t) /\ Hot(t) = {id} /\ t.vars[id].type = type
    BY <2>1, <1>2, <1>8 DEF IsSite, Hot
  <2>3. Last(type) = s
    BY DEF Last
  <2>4. value.want = <<s>> /\ value.var = FALSE
    BY DEF Expression
  <2>5. Apart(value, t)
    BY <2>1, <2>2, <2>3, <2>4 DEF Apart
  <2>6. Moves(value, t, t)
    BY <2>1, <2>2, <2>5, <1>4, <1>8, OwnExpressionNeeds
  <2>7. Stay(<<value>>, t)
    BY <2>6, StayTuples
  <2> QED BY <1>8, <2>7, PlanUnderEach DEF Stay, t
<1> HIDE DEF fallback, Ready
<1>9. ASSUME NEW type \in {<<s>>, <<"&", s>>, <<"&mut", s>>},
             vars' = Append(vars, NewVar(scope, type, TRUE)),
             agenda' = (fallback(s) \o <<Bind(scope, id, type)>>) \o Tail(agenda)
      PROVE  Inv'
  BY <1>6, <1>8, <1>9
<1> QED BY <1>3, <1>5, <1>7, <1>9

-----------------------------------------------------------------------------
(* The depth ring.                                                         *)

LEMMA SetMaxDepthOfKeeps == ASSUME NEW pend, Planned(pend), SetMaxDepthOf PROVE Inv'
<1> DEFINE h == Head(agenda)
<1>1. /\ agenda # << >> /\ h.do = "set_max_depth" /\ UNCHANGED <<vars, concrete, status>>
      /\ depth' = SetMaxDepth(depth, h.limit) /\ agenda' = << >> \o Tail(agenda)
  BY DEF SetMaxDepthOf, At, Do
<1>2. PICK v \in States : Moves(h, Now(pend), v) /\ Plan(Tail(agenda), v, AllUndone)
  BY <1>1, Meets
<1>3. status = "running" /\ depth.manual = << >> /\ h.limit \in {0, VectorDepth}
  BY <1>1, Meets DEF Needs, NeedsOfUndoing, Now
<1> HIDE DEF h
<1>4. /\ depth' \in DepthStates /\ depth'.curr = depth.curr /\ depth'.manual = <<h.limit>>
  <2>1. depth \in DepthStates
    BY DEF Planned, EnvInv
  <2>2. depth' = [depth EXCEPT !.manual = <<h.limit>>]
    BY <1>1, <1>3 DEF SetMaxDepth
  <2> QED BY <2>1, <2>2, <1>3 DEF DepthStates
<1>5. EnvInv'
  BY <1>1, <1>4 DEF Planned, EnvInv
<1>6. AtLeast(Now(pend)', v)
  BY <1>1, <1>2, <1>4 DEF Now, AtLeast, Moves, Extends
<1>7. Plan(<< >>, Now(pend)', v)
  BY <1>6, PlanEmpty
<1> QED BY <1>1, <1>2, <1>3, <1>5, <1>7, Replaced, AtLeastItself

LEMMA ResetMaxDepthOfKeeps == ASSUME NEW pend, Planned(pend), ResetMaxDepthOf PROVE Inv'
<1> DEFINE h == Head(agenda)
<1>1. /\ agenda # << >> /\ h.do = "reset_max_depth" /\ UNCHANGED <<vars, concrete, status>>
      /\ depth' = ResetMaxDepth(depth) /\ agenda' = << >> \o Tail(agenda)
  BY DEF ResetMaxDepthOf, At, Do
<1>2. PICK v \in States : Moves(h, Now(pend), v) /\ Plan(Tail(agenda), v, AllUndone)
  BY <1>1, Meets
<1>3. status = "running" /\ depth.manual # << >>
  BY <1>1, Meets DEF Needs, NeedsOfUndoing, Now
<1> HIDE DEF h
<1>4. SubSeq(depth.manual, 1, Len(depth.manual) - 1) = << >>
  <2>1. Len(depth.manual) = 1
    BY <1>3 DEF Planned, EnvInv, DepthStates
  <2> QED BY <2>1, SubSeqEmpty
<1>5. /\ depth' \in DepthStates /\ depth'.curr = depth.curr /\ depth'.manual = << >>
  BY <1>1, <1>4 DEF ResetMaxDepth, Planned, EnvInv, DepthStates
<1>6. EnvInv'
  BY <1>1, <1>5 DEF Planned, EnvInv
<1>7. AtLeast(Now(pend)', v)
  BY <1>1, <1>2, <1>5 DEF Now, AtLeast, Moves, Extends
<1>8. Plan(<< >>, Now(pend)', v)
  BY <1>7, PlanEmpty
<1> QED BY <1>1, <1>2, <1>3, <1>6, <1>8, Replaced, AtLeastItself

LEMMA NextLimit ==
  ASSUME NEW i \in DOMAIN MaxDepths
  PROVE  (i % Len(MaxDepths)) + 1 \in DOMAIN MaxDepths
<1>1. Len(MaxDepths) \in Nat \ {0} /\ DOMAIN MaxDepths = 1 .. Len(MaxDepths)
  BY MaxDepthsAssumption, EmptySeq
<1>2. i % Len(MaxDepths) \in 0 .. Len(MaxDepths) - 1
  BY <1>1
<1> QED BY <1>1, <1>2

LEMMA DecreaseDepthOfKeeps == ASSUME NEW pend, Planned(pend), DecreaseDepthOf PROVE Inv'
<1> DEFINE h == Head(agenda)
<1>1. /\ agenda # << >> /\ h.do = "decrease_depth" /\ UNCHANGED <<vars, concrete, status>>
      /\ depth' = DecreaseDepth(depth) /\ agenda' = << >> \o Tail(agenda)
  BY DEF DecreaseDepthOf, At, Do
<1>2. PICK v \in States : Moves(h, Now(pend), v) /\ Plan(Tail(agenda), v, AllUndone)
  BY <1>1, Meets
<1>3. status = "running" /\ depth.curr # 0
  BY <1>1, Meets DEF Needs, NeedsOfUndoing, Now
<1> HIDE DEF h
<1>4. depth \in DepthStates /\ depth.curr - 1 \in Nat /\ depth.idx \in DOMAIN MaxDepths
  BY <1>3 DEF Planned, EnvInv, DepthStates
<1>5. (depth.idx % Len(MaxDepths)) + 1 \in DOMAIN MaxDepths
  BY <1>4, NextLimit
<1>6. /\ depth' \in DepthStates /\ depth'.curr = depth.curr - 1 /\ depth'.manual = depth.manual
  BY <1>1, <1>4, <1>5 DEF DecreaseDepth, DepthStates
<1>7. EnvInv'
  BY <1>1, <1>6 DEF Planned, EnvInv
<1>8. AtLeast(Now(pend)', v)
  BY <1>1, <1>2, <1>6 DEF Now, AtLeast, Moves, Extends
<1>9. Plan(<< >>, Now(pend)', v)
  BY <1>8, PlanEmpty
<1> QED BY <1>1, <1>2, <1>3, <1>7, <1>9, Replaced, AtLeastItself

-----------------------------------------------------------------------------
(* Expressions.                                                            *)

LEMMA LikeExpression ==
  ASSUME NEW s \in States, NEW item, item.do \in {"expression", "access", "nest"},
         IsSite(item.scope, s), Fields(item, {"do", "scope", "type", "var", "call", "want"}),
         item.type \in TypesOf(item.scope, s.vars), item.want = item.type,
         item.var \/ item.scope = Root \/ item.type \in StructTypes,
         Sheltered(s) \/ Apart(item, s)
  PROVE  Moves(item, s, s)
<1>1. MeaningIn(s.concrete, item.type) = item.type
  BY MeansItself DEF IsSite
<1>2. Needs(item, s)
  BY <1>1 DEF Needs, NeedsOfUndoing, NeedsOfDefinitions, NeedsOfExpressions
<1> QED BY <1>2, Unmoved

(* What a struct is made of is made of nothing else.                       *)
LEMMA Parts ==
  ASSUME NEW s
  PROVE  /\ PartsOf(s) \subseteq ({Num} \cup StructTypes) \ {<<s>>}
         /\ \A u \in DOMAIN StructFields :
              u = s \/ <<u>> \in PartsOf(s) => ToSet(StructFields[u]) \subseteq PartsOf(s)
<1> DEFINE Closed(parts) == \A u \in DOMAIN StructFields :
                              u = s \/ <<u>> \in parts => ToSet(StructFields[u]) \subseteq parts
<1>1. \E parts \in SUBSET (({Num} \cup StructTypes) \ {<<s>>}) : Closed(parts)
  <2>1. CASE s \in DOMAIN StructFields
    BY <2>1, FieldsAssumption
  <2>2. CASE s \notin DOMAIN StructFields
    <3>1. Closed({})
      BY <2>2
    <3> HIDE DEF Closed
    <3>2. {} \in SUBSET (({Num} \cup StructTypes) \ {<<s>>})
      OBVIOUS
    <3> QED BY <3>1, <3>2
  <2> QED BY <2>1, <2>2
<1>2. PartsOf(s) = CHOOSE parts \in SUBSET (({Num} \cup StructTypes) \ {<<s>>}) : Closed(parts)
  BY DEF PartsOf
<1> HIDE DEF Closed
<1>3. PartsOf(s) \in SUBSET (({Num} \cup StructTypes) \ {<<s>>}) /\ Closed(PartsOf(s))
  BY <1>1, <1>2
<1> QED BY <1>3 DEF Closed

(* The fields of what is apart are apart.                                  *)
LEMMA FieldsApart ==
  ASSUME NEW s, NEW item, Apart(item, s),
         NEW x \in DOMAIN StructFields, item.want = <<x>>,
         NEW scope, NEW type \in ToSet(StructFields[x])
  PROVE  Apart(Value(scope, type), s)
<1>1. Value(scope, type).want = type
  BY DEF Value, Expression
<1>2. ASSUME NEW v \in Hot(s) PROVE type \in PartsOf(Last(s.vars[v].type))
  <2> DEFINE struct == Last(s.vars[v].type)
  <2>1. item.want \in PartsOf(struct) \/ item.want = <<struct>>
    BY <1>2 DEF Apart
  <2> HIDE DEF struct
  <2>2. x = struct \/ <<x>> \in PartsOf(struct)
    BY <2>1
  <2>3. type \in PartsOf(struct)
    BY <2>2, Parts
  <2> QED BY <2>3 DEF struct
<1> HIDE DEF Value
<1> QED BY <1>1, <1>2 DEF Apart

(* No reference is generated apart.                                        *)
LEMMA ReferenceNotApart ==
  ASSUME NEW s, NEW item, Apart(item, s), item.want \in ExprTypes, IsRef(item.want)
  PROVE  Sheltered(s)
<1>1. item.want \in References /\ Len(item.want) = 2 /\ item.want \notin PlainTypes
  BY PlainShape, ReferenceShape DEF ExprTypes
<1>2. ASSUME NEW v \in Hot(s) PROVE FALSE
  <2> DEFINE struct == Last(s.vars[v].type)
  <2>1. item.want \in PartsOf(struct) \/ item.want = <<struct>>
    BY <1>2 DEF Apart
  <2> HIDE DEF struct
  <2>2. PartsOf(struct) \subseteq PlainTypes
    BY Parts DEF PlainTypes
  <2>3. Len(<<struct>>) = 1
    OBVIOUS
  <2> QED BY <1>1, <2>1, <2>2, <2>3
<1> QED BY <1>2 DEF Sheltered

(* A struct's fields mention no type parameter.                            *)
LEMMA FieldTypes ==
  ASSUME NEW s \in DOMAIN StructFields
  PROVE  StructFields[s] \in Seq({Num} \cup StructTypes)
<1>1. PICK parts \in SUBSET (({Num} \cup StructTypes) \ {<<s>>}) :
        \A u \in DOMAIN StructFields :
          u = s \/ <<u>> \in parts => ToSet(StructFields[u]) \subseteq parts
  BY FieldsAssumption
<1>2. ToSet(StructFields[s]) \subseteq {Num} \cup StructTypes
  BY <1>1
<1>3. IsSequence(StructFields[s])
  BY GeneratorAssumption, SequenceOf
<1> QED BY <1>2, <1>3, SequenceOver DEF ToSet

(* An expression that may use no variable is one that needs none.          *)
LEMMA NoVariableNeeded ==
  ASSUME NEW h, NEW type \in ExprTypes, h.scope = Root \/ type \in StructTypes
  PROVE  ~MustAccessVariable(h, type)
<1>1. type[1] # "vec" /\ type # Untyped
  BY PlainShape, ReferenceShape DEF ExprTypes
<1>2. CASE type \in StructTypes
  BY <1>1, <1>2, GeneratorAssumption DEF StructTypes, MustAccessVariable
<1>3. CASE h.scope = Root /\ type[1] \in TypeParameters
  <2>1. type \in PlainTypes
    BY <1>3, ReferenceShape, GeneratorAssumption DEF ExprTypes
  <2>2. Last(type) = type[1]
    BY <2>1, PlainShape
  <2> QED BY <1>1, <1>3, <2>2 DEF MustAccessVariable, IsTypeConcretizable, LocalParameters
<1> QED BY <1>1, <1>2, <1>3 DEF MustAccessVariable

LEMMA GenerateExpressionOfTypeKeeps ==
  ASSUME NEW pend, Planned(pend), GenerateExpressionOfType
  PROVE  Inv'
<1> DEFINE h == Head(agenda)
           type == Resolve(h.type)
           access == [h EXCEPT !.do = "access", !.type = type]
<1>1. agenda # << >> /\ h.do = "expression" /\ UNCHANGED <<vars, depth, concrete>>
  BY DEF GenerateExpressionOfType, At
<1>2. /\ status = "running" /\ IsSite(h.scope, Now(pend))
      /\ Fields(h, {"do", "scope", "type", "var", "call", "want"})
      /\ h.type \in PlainTypes \cup TypesOf(h.scope, Now(pend).vars)
      /\ h.want \in TypesOf(h.scope, Now(pend).vars)
      /\ MeaningIn(concrete, h.type) = h.want
      /\ h.var \/ h.scope = Root \/ h.type \in StructTypes
      /\ Sheltered(Now(pend)) \/ Apart(h, Now(pend))
  <2>1. Needs(h, Now(pend)) /\ status = "running" /\ Now(pend).concrete = concrete
    BY <1>1, Meets DEF Now
  <2> QED BY <1>1, <2>1 DEF Needs, NeedsOfExpressions
<1>3. EnvInv' /\ Now(pend)' = Now(pend) /\ Now(pend) \in States /\ Now(pend).vars = vars
  BY <1>1, EnvUnchanged, NowIsState DEF Planned
<1>4. /\ IsScope(h.scope) /\ Fit(h.scope, vars, concrete)
      /\ type = h.want /\ type \in TypesOf(h.scope, Now(pend).vars)
      /\ h.type \in StructTypes => type = h.type
  <2>1. IsScope(h.scope) /\ Fit(h.scope, vars, concrete)
    BY <1>2 DEF IsSite, Now
  <2>2. type = h.want
    BY <1>2, <1>3, <2>1, Resolved
  <2> QED BY <1>2, <2>1, <2>2, StructMeansItself
<1>5. ~(MustAccessVariable(h, type) /\ ~h.var)
  BY <1>2, <1>4, NoVariableNeeded DEF TypesOf
<1>6. PICK first \in Candidates(h, type) : agenda' = Append(first, access) \o Tail(agenda)
  BY <1>5 DEF GenerateExpressionOfType, Do
<1>7. status' = status
  BY <1>5 DEF GenerateExpressionOfType
<1>8. Moves(access, Now(pend), Now(pend))
  <2>1. /\ access.do = "access" /\ access.scope = h.scope /\ access.type = type
        /\ access.want = h.want /\ access.var = h.var /\ DOMAIN access = DOMAIN h
    BY <1>2 DEF Fields
  <2> HIDE DEF access
  <2>2. Sheltered(Now(pend)) \/ Apart(access, Now(pend))
    BY <2>1, <1>2 DEF Apart
  <2> QED BY <2>1, <2>2, <1>2, <1>3, <1>4, LikeExpression DEF Fields
<1> HIDE DEF type, access
<1>9. Stay(first, Now(pend))
  <2>1. CASE Len(type) = 1 /\ type[1] \in DOMAIN StructFields
    <3> DEFINE fields == StructFields[type[1]]
    <3>1. /\ fields \in Seq({Num} \cup StructTypes)
          /\ first = [i \in DOMAIN fields |-> Value(h.scope, fields[i])]
      BY <2>1, <1>6, FieldTypes DEF Candidates
    <3> HIDE DEF fields
    <3>2. Len(fields) \in Nat /\ DOMAIN fields = 1 .. Len(fields)
      BY <3>1
    <3>3. IsSequence(first) /\ Len(first) = Len(fields)
      BY <3>1, <3>2, IndexedSequence
    <3>4. \A i \in 1 .. Len(first) : Moves(first[i], Now(pend), Now(pend))
      <4> SUFFICES ASSUME NEW i \in 1 .. Len(fields)
                   PROVE  Moves(Value(h.scope, fields[i]), Now(pend), Now(pend))
        BY <3>1, <3>2, <3>3
      <4>1. fields[i] \in TypesOf(h.scope, Now(pend).vars)
        <5>1. fields[i] \in {Num} \cup StructTypes
          BY <3>1, <3>2, ElementOfSeq
        <5> QED BY <5>1, <1>4, <1>3, TypesInScope
      <4>2. Sheltered(Now(pend)) \/ Apart(Value(h.scope, fields[i]), Now(pend))
        <5>1. h.want = <<type[1]>>
          BY <2>1, <1>4, PlainShape, ReferenceShape DEF TypesOf, ExprTypes
        <5>2. fields[i] \in ToSet(StructFields[type[1]])
          BY <3>2 DEF ToSet, fields
        <5> QED BY <5>1, <5>2, <2>1, <1>2, FieldsApart
      <4> QED BY <4>1, <4>2, <1>2, <1>3, ValueNeeds
    <3> QED BY <3>3, <3>4 DEF Stay
  <2>2. CASE ~(Len(type) = 1 /\ type[1] \in DOMAIN StructFields)
    <3>1. ~IsTypeConcretizable(type, h.scope)
      BY <1>3, <1>4, MeansItself
    <3>2. first = << >>
      BY <2>2, <3>1, <1>6 DEF Candidates
    <3> QED BY <3>2, StayTuples
  <2> QED BY <2>1, <2>2
<1>10. Plan(Append(first, access), Now(pend), Now(pend))
  BY <1>3, <1>8, <1>9, StayPlan, PlanThen
<1> QED BY <1>1, <1>2, <1>3, <1>6, <1>7, <1>10, Continue, AtLeastItself

LEMMA AccessVariableKeeps == ASSUME NEW pend, Planned(pend), AccessVariable PROVE Inv'
<1> DEFINE h == Head(agenda)
           found == h.var /\ LiveVariables(h.scope, h.type) # {}
           nest == [h EXCEPT !.do = "nest"]
           value == [h EXCEPT !.do = "expression", !.type = Tail(@), !.want = Tail(@)]
<1>1. /\ agenda # << >> /\ h.do = "access" /\ UNCHANGED <<vars, depth, concrete, status>>
      /\ agenda' = (IF IsRef(h.type) /\ ~found THEN <<value, nest>> ELSE <<nest>>) \o Tail(agenda)
  BY DEF AccessVariable, At, Do
<1>2. /\ status = "running" /\ IsSite(h.scope, Now(pend))
      /\ Fields(h, {"do", "scope", "type", "var", "call", "want"})
      /\ h.type \in TypesOf(h.scope, Now(pend).vars) /\ h.want = h.type
      /\ h.var \/ h.scope = Root \/ h.type \in StructTypes
      /\ Sheltered(Now(pend)) \/ Apart(h, Now(pend))
  BY <1>1, Meets DEF Needs, NeedsOfExpressions
<1>3. EnvInv' /\ Now(pend)' = Now(pend) /\ Now(pend) \in States
  BY <1>1, EnvUnchanged, NowIsState DEF Planned
<1>4. Moves(nest, Now(pend), Now(pend))
  <2>1. /\ nest.do = "nest" /\ nest.scope = h.scope /\ nest.type = h.type
        /\ nest.want = h.type /\ nest.var = h.var /\ DOMAIN nest = DOMAIN h
    BY <1>2 DEF Fields
  <2> HIDE DEF nest
  <2>2. Sheltered(Now(pend)) \/ Apart(nest, Now(pend))
    BY <2>1, <1>2 DEF Apart
  <2> QED BY <2>1, <2>2, <1>2, <1>3, LikeExpression DEF Fields
<1>5. ASSUME IsRef(h.type) PROVE Moves(value, Now(pend), Now(pend))
  <2>1. h.type \in References /\ h.type \notin PlainTypes
    BY <1>2, <1>5, PlainShape DEF TypesOf, ExprTypes
  <2>2. /\ Tail(h.type) \in PlainTypes /\ h.type \notin StructTypes
        /\ Last(Tail(h.type)) = Last(h.type)
    BY <2>1, ReferenceShape DEF PlainTypes
  <2>4. Tail(h.type) \in TypesOf(h.scope, Now(pend).vars)
    BY <2>2, <1>2 DEF TypesOf, ExprTypes, HasValues
  <2>5. Sheltered(Now(pend))
    BY <1>2, <1>5, ReferenceNotApart DEF TypesOf
  <2>3. /\ value.do = "expression" /\ value.scope = h.scope /\ value.type = Tail(h.type)
        /\ value.want = Tail(h.type) /\ value.var = h.var /\ DOMAIN value = DOMAIN h
    BY <1>2 DEF Fields
  <2> HIDE DEF value
  <2> QED BY <2>2, <2>3, <2>4, <2>5, <1>2, <1>3, LikeExpression DEF Fields
<1> HIDE DEF found, nest, value
<1>6. \E items : Stay(items, Now(pend)) /\ agenda' = items \o Tail(agenda)
  <2>1. CASE IsRef(h.type) /\ ~found
    BY <2>1, <1>1, <1>4, <1>5, StayTuples
  <2>2. CASE ~(IsRef(h.type) /\ ~found)
    BY <2>2, <1>1, <1>4, StayTuples
  <2> QED BY <2>1, <2>2
<1> QED BY <1>1, <1>2, <1>3, <1>6, StayPlan, Continue, AtLeastItself

LEMMA GenerateDereferenceKeeps == ASSUME NEW pend, Planned(pend), GenerateDereference PROVE Inv'
<1> DEFINE h == Head(agenda)
           value == Value(h.scope, <<"&">> \o h.type)
<1>1. /\ agenda # << >> /\ h.do = "dereference" /\ UNCHANGED <<vars, depth, concrete, status>>
      /\ agenda' = << >> \o Tail(agenda) \/ agenda' = <<value>> \o Tail(agenda)
  BY DEF GenerateDereference, At, Do
<1>2. /\ status = "running" /\ IsSite(h.scope, Now(pend)) /\ IsScope(h.scope)
      /\ Sheltered(Now(pend)) /\ h.type \in PlainTypes \cap TypesOf(h.scope, Now(pend).vars)
  BY <1>1, Meets, InnerSite DEF Needs, NeedsOfDefinitions
<1>3. EnvInv' /\ Now(pend)' = Now(pend) /\ Now(pend) \in States
  BY <1>1, EnvUnchanged, NowIsState DEF Planned
<1>4. <<"&">> \o h.type \in TypesOf(h.scope, Now(pend).vars)
  BY <1>2, TypesInScope
<1>5. Moves(value, Now(pend), Now(pend))
  BY <1>2, <1>3, <1>4, ValueNeeds
<1> HIDE DEF value
<1>6. \E items : Stay(items, Now(pend)) /\ agenda' = items \o Tail(agenda)
  BY <1>1, <1>5, StayTuples
<1> QED BY <1>1, <1>2, <1>3, <1>6, StayPlan, Continue, AtLeastItself

LEMMA NestedStay ==
  ASSUME NEW s \in States, vars \in Environments, s.vars = vars, s.curr # 0,
         NEW h, IsInnerSite(h.scope, s),
         h.type \in TypesOf(h.scope, s.vars), h.want = h.type, NEW items \in Nested(h)
  PROVE  Stay(items, s)
<1> DEFINE scope == h.scope
           f == FunctionOf(scope)
<1>1. /\ IsInner(scope) /\ IsSite(scope, s) /\ IsScope(scope) /\ Sheltered(s)
      /\ Num \in TypesOf(scope, s.vars)
  BY InnerSite, TypesInScope
<1>2. CASE items \in Returns(scope)
  <2>1. CASE items = << >>
    BY <2>1, StayTuples
  <2>2. CASE items # << >>
    <3>1. items = <<Value(scope, Functions[f].ret)>> /\ Functions[f].ret # Untyped
      BY <1>2, <2>2 DEF Returns
    <3>3. Functions[f].ret \in TypesOf(scope, s.vars)
      BY <1>1, <3>1 DEF IsSite, IsInner
    <3>4. Moves(Value(scope, Functions[f].ret), s, s)
      BY <1>1, <3>3, ValueNeeds
    <3> QED BY <3>1, <3>4, StayTuples
  <2> QED BY <2>1, <2>2
<1>3. CASE items = <<Value(scope, Num)>>
  <2>1. Moves(Value(scope, Num), s, s)
    BY <1>1, ValueNeeds
  <2> QED BY <1>3, <2>1, StayTuples
<1>4. CASE items \in {IfElse(scope, c, h.want) : c \in ConcretizeType(h.type, scope)}
  <2>1. PICK c \in ConcretizeType(h.type, scope) : items = IfElse(scope, c, h.want)
    BY <1>4
  <2>2. c = h.type
    BY <1>1, <2>1, MeansItself DEF IsSite
  <2> QED BY <2>1, <2>2, IfElseStays
<1>5. CASE items \in {<<CallTo(g, scope, TRUE)>> : g \in CallableFunctions(scope)}
  <2>1. PICK g \in CallableFunctions(scope) : items = <<CallTo(g, scope, TRUE)>>
    BY <1>5
  <2>2. Moves(CallTo(g, scope, TRUE), s, s)
    BY <1>1, CallNeeds DEF CallableFunctions
  <2> QED BY <2>1, <2>2, StayTuples
<1>6. CASE items \in BinaryOperations(scope)
  BY <1>6, BinaryOperationsStay
<1>7. CASE ~IsRef(h.type) /\ items = <<[do |-> "dereference", scope |-> scope, type |-> h.type]>>
  <2>1. h.type \in PlainTypes \cap TypesOf(h.scope, s.vars)
    BY <1>7, ReferenceShape DEF TypesOf, ExprTypes
  <2>2. Moves([do |-> "dereference", scope |-> scope, type |-> h.type], s, s)
    BY <2>1, InnerNeeds
  <2> QED BY <1>7, <2>2, StayTuples
<1>8. CASE items = <<BlockOf(scope, h.type, h.want)>>
  <2>1. Moves(BlockOf(scope, h.type, h.want), s, s)
    BY BlockNeeds
  <2> QED BY <1>8, <2>1, StayTuples
<1> QED
  BY <1>2, <1>3, <1>4, <1>5, <1>6, <1>7, <1>8 DEF Nested

LEMMA NestExpressionKeeps == ASSUME NEW pend, Planned(pend), NestExpression PROVE Inv'
<1> DEFINE h == Head(agenda)
<1>1. agenda # << >> /\ h.do = "nest" /\ UNCHANGED <<vars, concrete>>
  BY DEF NestExpression, At
<1>2. /\ status = "running" /\ IsSite(h.scope, Now(pend))
      /\ h.type \in TypesOf(h.scope, Now(pend).vars)
      /\ h.want = h.type
      /\ Sheltered(Now(pend)) \/ Apart(h, Now(pend))
  BY <1>1, Meets DEF Needs, NeedsOfExpressions
<1>3. CASE ReachedDepthLimit(depth)
  <2>1. agenda' = << >> \o Tail(agenda) /\ UNCHANGED <<depth, status>>
    BY <1>3 DEF NestExpression, Do
  <2>2. EnvInv' /\ Now(pend)' = Now(pend) /\ Now(pend) \in States
    BY <1>1, <2>1, EnvUnchanged, NowIsState DEF Planned
  <2>3. Plan(<< >>, Now(pend), Now(pend))
    BY <2>2, PlanEmpty, AtLeastItself
  <2> QED BY <1>1, <1>2, <2>1, <2>2, <2>3, Continue, AtLeastItself
<1>4. CASE ~ReachedDepthLimit(depth)
  <2>1. h.scope # Root
    <3> SUFFICES ASSUME h.scope = Root PROVE FALSE
      OBVIOUS
    <3>1. depth.manual = <<0>> /\ depth.curr \in Nat
      BY <1>2 DEF IsSite, Now, Planned, EnvInv, DepthStates
    <3> QED BY <1>4, <3>1 DEF ReachedDepthLimit, WillReachDepthLimit, CurrMaxDepthLimit
  <2>s. Sheltered(Now(pend))
    <3> SUFFICES ASSUME Apart(h, Now(pend)) PROVE FALSE
      BY <1>2
    <3>1. depth.manual = <<0>> /\ depth.curr \in Nat
      BY DEF Apart, Now, Planned, EnvInv, DepthStates
    <3> QED BY <1>4, <3>1 DEF ReachedDepthLimit, WillReachDepthLimit, CurrMaxDepthLimit
  <2>2. depth' = IncreaseDepth(depth) /\ status' = status
    BY <1>4, <2>1 DEF NestExpression
  <2>3. PICK items \in Nested(h) : agenda' = Append(items, Decrease) \o Tail(agenda)
    BY <1>4, <2>1 DEF NestExpression, Do
  <2>4. /\ EnvInv' /\ Now(pend)'.curr # 0 /\ IsInnerSite(h.scope, Now(pend)')
        /\ h.type \in TypesOf(h.scope, Now(pend)'.vars)
    BY <1>1, <1>2, <2>1, <2>s, <2>2, Increased DEF IsSite, IsInnerSite, IsInner
  <2>n. Now(pend)' \in States /\ vars' \in Environments /\ Now(pend)'.vars = vars' /\ vars' = vars
    BY <1>1, <2>2, Increased, NowIsState DEF Now
  <2>5. Stay(items, Now(pend)')
    <3>1. PICK now : now = Now(pend)'
      OBVIOUS
    <3> HIDE DEF h
    <3>2. /\ now \in States /\ vars \in Environments /\ now.vars = vars /\ now.curr # 0
          /\ IsInnerSite(h.scope, now) /\ h.type \in TypesOf(h.scope, now.vars)
      BY <3>1, <2>4, <2>n
    <3>3. Stay(items, now)
      BY <3>2, <2>3, <1>2, NestedStay
    <3> QED BY <3>1, <3>3
  <2> QED BY <1>1, <2>2, <2>3, <2>5, Nest
<1> QED BY <1>3, <1>4

-----------------------------------------------------------------------------
(* Calls.                                                                  *)

LEMMA FrontOf ==
  ASSUME NEW S, NEW s \in Seq(S), s # << >>
  PROVE  Front(s) \in Seq(S)
<1>1. Len(s) \in Nat \ {0} /\ \A i \in 1 .. Len(s) : s[i] \in S
  BY EmptySeq, ElementOfSeq
<1>2. SubSeq(s, 1, Len(s) - 1) \in Seq(S)
  BY <1>1, SubSeqProperties
<1> QED BY <1>2 DEF Front

LEMMA FrontOfAppend ==
  ASSUME NEW S, NEW s \in Seq(S), NEW e \in S
  PROVE  Front(Append(s, e)) = s
<1> DEFINE n == Len(s)
           a == Append(s, e)
<1>1. /\ n \in Nat /\ a \in Seq(S) /\ Len(a) = n + 1
      /\ \A i \in 1 .. n : a[i] = s[i]
  BY AppendProperties
<1> HIDE DEF a
<1>2. \A i \in 1 .. n : a[i] \in S
  BY <1>1, ElementOfSeq
<1>3. SubSeq(a, 1, n) \in Seq(S) /\ Len(SubSeq(a, 1, n)) = n
  BY <1>1, <1>2, SubSeqProperties
<1>4. \A i \in 1 .. n - 1 + 1 : SubSeq(a, 1, n)[i] = a[1 + i - 1]
  BY <1>1, <1>2, SubSeqProperties
<1>5. \A i \in 1 .. n : SubSeq(a, 1, n)[i] = s[i]
  BY <1>1, <1>4
<1>6. SubSeq(a, 1, n) = s
  BY <1>1, <1>3, <1>5, SeqEqual
<1> QED BY <1>1, <1>6 DEF Front, a

(* The type arguments of a call are types of the scope it is in; those for *)
(* the scope's own type parameters, in a call of its function by itself,   *)
(* are these.                                                              *)
LEMMA ArgumentTypes ==
  ASSUME vars \in Environments, NEW scope, IsScope(scope),
         NEW f \in DOMAIN Functions, NEW args \in TypeArguments(f, scope)
  PROVE  LET tps == ToSet(Functions[f].tps)
         IN  /\ DOMAIN args = tps /\ tps \subseteq TypeParameters
             /\ \A tp \in tps :
                  args[tp] \in IF tp \in LocalParameters(scope)
                                 THEN {<<tp>>} ELSE PlainTypes \cap TypesOf(scope, vars)
<1> DEFINE tps == ToSet(Functions[f].tps)
<1>1. tps \subseteq TypeParameters
  BY DEF TypeParameters
<1>2. DOMAIN args = tps /\ \A tp \in tps : args[tp] \in ConcretizeType(<<tp>>, scope)
  BY DEF TypeArguments
<1> HIDE DEF tps
<1>3. ASSUME NEW tp \in tps
      PROVE  args[tp] \in IF tp \in LocalParameters(scope)
                            THEN {<<tp>>} ELSE PlainTypes \cap TypesOf(scope, vars)
  <2>1. <<tp>> \in PlainTypes
    BY <1>1 DEF PlainTypes
  <2>2. Last(<<tp>>) = tp /\ Front(<<tp>>) = << >> /\ <<tp>>[1] # "vec"
    BY <2>1, PlainShape
  <2>3. CASE tp \in LocalParameters(scope)
    BY <2>2, <2>3, <1>2 DEF IsTypeConcretizable, ConcretizeType
  <2>4. CASE tp \notin LocalParameters(scope)
    <3>1. IsTypeConcretizable(<<tp>>, scope)
      BY <1>1, <2>2, <2>4 DEF IsTypeConcretizable
    <3>2. PICK c \in TypesWithAbilities(scope) : args[tp] = << >> \o c
      BY <1>2, <2>2, <3>1 DEF ConcretizeType
    <3>3. c \in PlainTypes \cap TypesOf(scope, vars)
      BY <3>2, TypesWithAbilitiesPlain
    <3>4. << >> \o c = c
      BY <3>3, PlainShape
    <3> QED BY <2>4, <3>2, <3>3, <3>4
  <2> QED BY <2>3, <2>4
<1> QED BY <1>1, <1>2, <1>3 DEF tps

(* Two functions have no type parameter in common.                         *)
LEMMA OwnersDiffer ==
  ASSUME NEW scope, IsScope(scope), NEW f \in DOMAIN Functions,
         NEW tp \in ToSet(Functions[f].tps), tp \in LocalParameters(scope)
  PROVE  scope # Root /\ f = FunctionOf(scope)
<1>1. scope # Root /\ LocalParameters(scope) = ToSet(Functions[FunctionOf(scope)].tps)
  BY DEF LocalParameters
<1>2. FunctionOf(scope) \in DOMAIN Functions
  BY <1>1, InnerFunction DEF IsInner
<1> QED BY <1>1, <1>2, ScopingAssumption

(* While its type arguments are registered, what a parameter's type means  *)
(* is a type of the scope the call is in.                                  *)
LEMMA MeaningInScope ==
  ASSUME NEW s \in States, NEW scope, IsSite(scope, s),
         NEW f \in DOMAIN Functions, \A tp \in ToSet(Functions[f].tps) : s.concrete[tp] # << >>,
         NEW type \in PlainTypes, type \in ToSet(Functions[f].params)
  PROVE  MeaningIn(s.concrete, type) \in TypesOf(scope, s.vars)
<1> DEFINE x == Last(type)
<1>1. type = <<x>> /\ (x \in TypeParameters => x \in ToSet(Functions[f].tps))
  BY SignatureTypes
<1>2. Fit(scope, s.vars, s.concrete) /\ IsScope(scope)
  BY DEF IsSite
<1>3. CASE x \in TypeParameters /\ x \in LocalParameters(scope)
  <2>1. scope # Root /\ f = FunctionOf(scope)
    BY <1>1, <1>2, <1>3, OwnersDiffer
  <2>2. type \in TypesOf(scope, s.vars)
    BY <2>1 DEF IsSite
  <2> QED BY <1>2, <2>2, MeansItself
<1>4. CASE x \in TypeParameters /\ x \notin LocalParameters(scope)
  <2>1. s.concrete[x] \in Seq(TypesOf(scope, s.vars) \cap PlainTypes) /\ s.concrete[x] # << >>
    BY <1>1, <1>2, <1>4 DEF Fit
  <2> HIDE DEF x
  <2>2. MeaningIn(s.concrete, <<x>>) \in TypesOf(scope, s.vars) \cap PlainTypes
    BY <1>4, <2>1, MeaningOfParameter
  <2> QED BY <1>1, <2>2
<1>5. CASE x \notin TypeParameters
  BY <1>5 DEF MeaningIn, TypesOf, ExprTypes, HasValues
<1> QED BY <1>3, <1>4, <1>5

LEMMA GenerateCallKeeps == ASSUME NEW pend, Planned(pend), GenerateCall PROVE Inv'
<1> DEFINE h == Head(agenda)
           tps == ToSet(Functions[h.f].tps)
           params == Functions[h.f].params
           arguments == Arguments(h, concrete')
           undo == [do |-> "unregister", f |-> h.f]
<1>1. agenda # << >> /\ h.do = "call" /\ UNCHANGED <<vars, depth, status>>
  BY DEF GenerateCall, At
<1>2. PICK args \in TypeArguments(h.f, h.scope) :
        /\ concrete' = [tp \in TypeParameters |->
                          IF tp \in DOMAIN args THEN Append(concrete[tp], args[tp])
                                                ELSE concrete[tp]]
        /\ agenda' = (arguments \o <<undo>>) \o Tail(agenda)
  BY DEF GenerateCall, Do
<1>3. /\ status = "running" /\ IsSite(h.scope, Now(pend)) /\ IsScope(h.scope)
      /\ h.f \in DOMAIN Functions
      /\ h.var \/ h.scope = Root
      /\ Sheltered(Now(pend))
  BY <1>1, Meets DEF Needs, NeedsOfExpressions, IsSite
<1>4. params \in Seq(PlainTypes) /\ vars \in Environments /\ Now(pend).vars = vars
  BY <1>3, GeneratorAssumption, NowIsState DEF Planned
<1>5. /\ DOMAIN args = tps /\ tps \subseteq TypeParameters
      /\ \A tp \in tps :
           args[tp] \in IF tp \in LocalParameters(h.scope)
                          THEN {<<tp>>} ELSE PlainTypes \cap TypesOf(h.scope, vars)
  BY <1>2, <1>3, <1>4, ArgumentTypes
<1>a. \A tp \in tps : args[tp] \in PlainTypes
  BY <1>5 DEF PlainTypes
<1>6. concrete \in [TypeParameters -> Seq(PlainTypes)]
  BY DEF Planned, EnvInv
<1> HIDE DEF h, tps, params, arguments, undo
<1>7. concrete' \in [TypeParameters -> Seq(PlainTypes)]
  <2> SUFFICES ASSUME NEW tp \in TypeParameters
               PROVE  (IF tp \in tps THEN Append(concrete[tp], args[tp]) ELSE concrete[tp])
                         \in Seq(PlainTypes)
    BY <1>2, <1>5
  <2> QED BY <1>a, <1>6, AppendProperties
<1>8. EnvInv' /\ Now(pend)' \in States
  <2>1. EnvInv'
    BY <1>1, <1>7 DEF Planned, EnvInv
  <2>2. pend \subseteq DOMAIN vars'
    BY <1>1 DEF Planned
  <2> QED BY <2>1, <2>2, NextIsState
<1>9. /\ Now(pend)'.curr = Now(pend).curr /\ Now(pend)'.manual = Now(pend).manual
      /\ Now(pend)'.vars = vars /\ Now(pend).vars = vars
      /\ Now(pend)'.concrete = concrete' /\ Now(pend).concrete = concrete
      /\ Now(pend)'.pending = Now(pend).pending
  BY <1>1 DEF Now
<1>t. Sheltered(Now(pend)')
  BY <1>3, <1>9 DEF Sheltered, Hot
<1>s. IsSite(h.scope, Now(pend)')
  <2>1. Fit(h.scope, vars, concrete)
    BY <1>3, <1>9 DEF IsSite
  <2>2. ASSUME NEW tp \in TypeParameters
        PROVE  concrete'[tp] \in IF tp \in LocalParameters(h.scope)
                                   THEN Seq({<<tp>>})
                                   ELSE Seq(TypesOf(h.scope, vars) \cap PlainTypes)
    <3> DEFINE S == IF tp \in LocalParameters(h.scope)
                      THEN {<<tp>>} ELSE TypesOf(h.scope, vars) \cap PlainTypes
    <3>1. concrete[tp] \in Seq(S)
      BY <2>1 DEF Fit
    <3>2. CASE tp \in tps
      <4>1. concrete'[tp] = Append(concrete[tp], args[tp]) /\ args[tp] \in S
        BY <3>2, <1>2, <1>5
      <4> HIDE DEF S
      <4>2. concrete'[tp] \in Seq(S)
        BY <3>1, <4>1, AppendProperties
      <4> QED BY <4>2 DEF S
    <3>3. CASE tp \notin tps
      BY <3>1, <3>3, <1>2, <1>5
    <3> QED BY <3>2, <3>3
  <2>3. Fit(h.scope, vars, concrete')
    BY <2>2 DEF Fit
  <2> DEFINE now == Now(pend)
             next == Now(pend)'
  <2>4. /\ IsSite(h.scope, now) /\ next.manual = now.manual /\ next.vars = now.vars
        /\ Fit(h.scope, next.vars, next.concrete)
    BY <2>3, <1>3, <1>9
  <2> HIDE DEF now, next
  <2>5. IsSite(h.scope, next)
    BY <2>4 DEF IsSite
  <2> QED BY <2>5 DEF next
<1>r. \A tp \in tps : concrete'[tp] # << >>
  <2> SUFFICES ASSUME NEW tp \in tps PROVE concrete'[tp] # << >>
    OBVIOUS
  <2>1. concrete'[tp] = Append(concrete[tp], args[tp])
    BY <1>2, <1>5
  <2>2. concrete[tp] \in Seq(PlainTypes) /\ args[tp] \in PlainTypes
    BY <1>5, <1>6, <1>a
  <2> QED BY <2>1, <2>2, AppendProperties
<1>10. Plan(arguments, Now(pend)', Now(pend)')
  <2>1. Len(params) \in Nat /\ DOMAIN params = 1 .. Len(params)
    BY <1>4
  <2>2. arguments = [i \in DOMAIN params |->
             Expression(h.scope, params[i], h.var, FALSE, MeaningIn(concrete', params[i]))]
    BY DEF arguments, Arguments, params
  <2>3. IsSequence(arguments) /\ Len(arguments) = Len(params)
    BY <2>1, <2>2, IndexedSequence
  <2>4. \A i \in 1 .. Len(params) : Moves(arguments[i], Now(pend)', Now(pend)')
    <3> SUFFICES ASSUME NEW i \in 1 .. Len(params)
                 PROVE  Moves(Expression(h.scope, params[i], h.var, FALSE,
                                         MeaningIn(concrete', params[i])), Now(pend)', Now(pend)')
      BY <2>1, <2>2
    <3>1. params[i] \in PlainTypes /\ params[i] \in ToSet(Functions[h.f].params)
      BY <2>1, <1>4, ElementOfSeq DEF params, ToSet
    <3>2. MeaningIn(concrete', params[i]) \in TypesOf(h.scope, vars)
      BY <3>1, <1>3, <1>s, <1>r, <1>8, <1>9, MeaningInScope DEF tps
    <3> QED BY <3>1, <3>2, <1>3, <1>s, <1>t, <1>8, <1>9, ExpressionNeeds
  <2> QED BY <2>3, <2>4, <1>8, PlanStays
<1>11. Now(pend) \in States
  BY NowIsState
<1>12. Moves(undo, Now(pend)', Now(pend))
  <2>1. undo.do = "unregister" /\ undo.f = h.f
    BY DEF undo
  <2>3. \A tp \in TypeParameters :
          concrete[tp] = IF tp \in tps THEN Front(concrete'[tp]) ELSE concrete'[tp]
    <3> SUFFICES ASSUME NEW tp \in TypeParameters
                 PROVE  concrete[tp] = IF tp \in tps THEN Front(concrete'[tp]) ELSE concrete'[tp]
      OBVIOUS
    <3>1. CASE tp \in tps
      <4>1. concrete'[tp] = Append(concrete[tp], args[tp])
        BY <3>1, <1>2, <1>5
      <4>2. Front(Append(concrete[tp], args[tp])) = concrete[tp]
        BY <3>1, <1>5, <1>6, <1>a, FrontOfAppend
      <4> QED BY <3>1, <4>1, <4>2
    <3>2. CASE tp \notin tps
      BY <3>2, <1>2, <1>5
    <3> QED BY <3>1, <3>2
  <2>4. concrete = [tp \in TypeParameters |->
                      IF tp \in tps THEN Front(concrete'[tp]) ELSE concrete'[tp]]
    BY <2>3, <1>6
  <2>5. Needs(undo, Now(pend)')
    BY <2>1, <1>r, <1>3, <1>9
       DEF Needs, NeedsOfUndoing, NeedsOfDefinitions, NeedsOfExpressions, tps
  <2> QED BY <2>1, <2>4, <2>5, <1>9 DEF Moves, Extends, tps
<1>13. Plan(arguments \o <<undo>>, Now(pend)', Now(pend))
  BY <1>8, <1>10, <1>11, <1>12, PlanOne, PlanConcat
<1> QED BY <1>1, <1>2, <1>3, <1>8, <1>13, Continue, AtLeastItself DEF h

LEMMA UnregisterKeeps == ASSUME NEW pend, Planned(pend), Unregister PROVE Inv'
<1> DEFINE h == Head(agenda)
           tps == ToSet(Functions[h.f].tps)
<1>1. /\ agenda # << >> /\ h.do = "unregister" /\ UNCHANGED <<vars, depth, status>>
      /\ concrete' = [tp \in TypeParameters |->
                        IF tp \in tps THEN Front(concrete[tp]) ELSE concrete[tp]]
      /\ agenda' = << >> \o Tail(agenda)
  BY DEF Unregister, At, Do
<1>2. PICK v \in States : Moves(h, Now(pend), v) /\ Plan(Tail(agenda), v, AllUndone)
  BY <1>1, Meets
<1>3. status = "running" /\ \A tp \in tps : concrete[tp] # << >>
  BY <1>1, Meets DEF Needs, NeedsOfUndoing, Now
<1>4. AtLeast(Now(pend)', v)
  BY <1>1, <1>2 DEF Now, AtLeast, Moves, Extends
<1> HIDE DEF h, tps
<1>5. concrete' \in [TypeParameters -> Seq(PlainTypes)]
  BY <1>1, <1>3, FrontOf DEF Planned, EnvInv
<1>6. EnvInv'
  BY <1>1, <1>5 DEF Planned, EnvInv
<1>7. Plan(<< >>, Now(pend)', v)
  BY <1>4, PlanEmpty
<1> QED BY <1>1, <1>2, <1>3, <1>6, <1>7, Replaced, AtLeastItself

-----------------------------------------------------------------------------
(* The start, failure, and the invariant as a whole.                       *)

LEMMA FreshEnvironment ==
  /\ NewDepthRing \in DepthStates
  /\ Initially.concrete \in [TypeParameters -> Seq(PlainTypes)]
<1>1. 1 \in DOMAIN MaxDepths
  BY MaxDepthsAssumption, EmptySeq
<1>2. << >> \in Seq(PlainTypes)
  BY EmptySeq
<1> QED BY <1>1, <1>2 DEF NewDepthRing, DepthStates, Initially

LEMMA GenerationFailsKeeps == ASSUME NEW pend, Planned(pend), GenerationFails PROVE Inv'
<1>1. EnvInv'
  BY FreshEnvironment, EmptySeq DEF GenerationFails, EnvInv
<1>2. Planned({})'
  BY <1>1 DEF GenerationFails, Planned
<1> QED BY <1>2 DEF Inv

LEMMA InitInv == Init => Inv
<1> SUFFICES ASSUME Init PROVE Inv
  OBVIOUS
<1> DEFINE fills == [i \in DOMAIN Functions |->
                       [do |-> "function", f |-> Len(Functions) + 1 - i]]
           runners == [do |-> "runners"]
<1>1. EnvInv
  BY FreshEnvironment, EmptySeq DEF Init, EnvInv
<1>3. AtLeast(Now({}), AllUndone)
  BY DEF Init, NewDepthRing, Initially, Now, AllUndone, AtLeast, Extends
<1>4. AtLeast(AllUndone, AllUndone) /\ AllUndone \in States /\ AllUndone.manual = << >>
  BY AllUndoneIsState, AtLeastItself DEF AllUndone
<1>5. Functions \in Seq(ToSet(Functions)) /\ Len(Functions) \in Nat
      /\ DOMAIN Functions = 1 .. Len(Functions)
  BY GeneratorAssumption
<1>6. IsSequence(fills) /\ Len(fills) = Len(Functions)
  BY <1>5, IndexedSequence
<1>7. \A i \in 1 .. Len(fills) : Moves(fills[i], AllUndone, AllUndone)
  <2> SUFFICES ASSUME NEW f \in DOMAIN Functions
               PROVE  Moves([do |-> "function", f |-> f], AllUndone, AllUndone)
    BY <1>5, <1>6
  <2> QED
    BY <1>4 DEF Moves, Needs, NeedsOfUndoing, NeedsOfDefinitions, NeedsOfExpressions, AllUndone,
                Extends
<1>8. Moves(runners, AllUndone, AllUndone)
  BY <1>4 DEF Moves, Needs, NeedsOfUndoing, NeedsOfDefinitions, NeedsOfExpressions, AllUndone,
              Extends
<1>9. agenda = fills \o <<runners>> /\ status = "running"
  BY DEF Init, Initially
<1> HIDE DEF fills, runners
<1>10. Plan(fills \o <<runners>>, AllUndone, AllUndone)
  BY <1>4, <1>6, <1>7, <1>8, PlanStays, PlanOne, PlanConcat
<1>11. Plan(agenda, Now({}), AllUndone)
  BY <1>3, <1>9, <1>10, PlanWeaken
<1>12. Planned({})
  BY <1>1, <1>9, <1>11 DEF Planned
<1> QED BY <1>12 DEF Inv

LEMMA NextInv == Inv /\ [Next]_state => Inv'
<1> SUFFICES ASSUME NEW pend, Planned(pend), [Next]_state PROVE Inv'
  BY DEF Inv
<1>1. ASSUME UNCHANGED state PROVE Inv'
  <2>1. Planned(pend)'
    BY <1>1 DEF state, Planned, EnvInv, Now
  <2> QED BY <2>1 DEF Inv
<1>2. CASE FillFunction \/ AddRunners \/ GenerateBlock \/ GenerateBlockReturn
  BY <1>2, FillFunctionKeeps, AddRunnersKeeps, GenerateBlockKeeps, GenerateBlockReturnKeeps
<1>3. CASE \/ GenerateDeclaration \/ BindType \/ GenerateRecordValue
           \/ GenerateExpression \/ GenerateAssignment
  BY <1>3, GenerateDeclarationKeeps, BindTypeKeeps, GenerateRecordValueKeeps,
     GenerateExpressionKeeps, GenerateAssignmentKeeps
<1>4. CASE GenerateVectorOperation \/ DeclareResult \/ GenerateResourceOperation
  BY <1>4, GenerateVectorOperationKeeps, DeclareResultKeeps, GenerateResourceOperationKeeps
<1>5. CASE SetMaxDepthOf \/ ResetMaxDepthOf \/ DecreaseDepthOf
  BY <1>5, SetMaxDepthOfKeeps, ResetMaxDepthOfKeeps, DecreaseDepthOfKeeps
<1>6. CASE \/ GenerateExpressionOfType \/ AccessVariable
           \/ GenerateDereference \/ NestExpression
  BY <1>6, GenerateExpressionOfTypeKeeps, AccessVariableKeeps, GenerateDereferenceKeeps,
     NestExpressionKeeps
<1>7. CASE GenerateCall \/ Unregister \/ GenerationFails
  BY <1>7, GenerateCallKeeps, UnregisterKeeps, GenerationFailsKeeps
<1>8. CASE Finished
  BY <1>8, <1>1 DEF Finished
<1> QED BY <1>1, <1>2, <1>3, <1>4, <1>5, <1>6, <1>7, <1>8 DEF Next

(* At every point of the generation there is a plan that undoes all.       *)
THEOREM PlanHolds == Spec => []Inv
<1> QED BY InitInv, NextInv, PTL DEF Spec

-----------------------------------------------------------------------------
(***************************************************************************)
(* What follows of it.                                                     *)
(***************************************************************************)

(* Variables have a type of the module or none yet, type arguments are     *)
(* types, and the ring of limits stays one (DepthRing of env.rs).          *)
THEOREM TypeCorrect == Spec => []TypeOK
<1>1. Inv => TypeOK
  <2> SUFFICES ASSUME NEW pend, Planned(pend) PROVE TypeOK
    BY DEF Inv
  <2>1. depth \in [curr : Nat, idx : DOMAIN MaxDepths, manual : Seq({0, VectorDepth})]
    <3>1. << >> \in Seq({0, VectorDepth}) /\ <<0>> \in Seq({0, VectorDepth})
          /\ <<VectorDepth>> \in Seq({0, VectorDepth})
      OBVIOUS
    <3> QED BY <3>1 DEF Planned, EnvInv, DepthStates
  <2>2. \A v \in DOMAIN vars :
          vars[v].type \in Types \cup {Untyped} /\ vars[v].live \in BOOLEAN
    BY NowIsState, EnvironmentOf DEF Variables
  <2>3. \A tp \in TypeParameters : concrete[tp] \in Seq(Types)
    <3>1. PlainTypes \subseteq Types
      BY DEF Types
    <3> QED BY <3>1, SeqMonotonic DEF Planned, EnvInv
  <2>4. status \in {"running", "failed", "panicked"}
    BY DEF Planned
  <2> QED BY <2>1, <2>2, <2>3, <2>4 DEF TypeOK
<1> QED BY <1>1, PlanHolds, PTL

(* No caller of set_max_depth is ever reached under a limit set by another *)
(* one, so reset_max_depth always takes back its own.                      *)
THEOREM LimitsNeverNest == Spec => []ManualLimitsNeverNest
<1>1. Inv => ManualLimitsNeverNest
  <2>1. Len(<< >>) <= 1 /\ Len(<<0>>) <= 1 /\ Len(<<VectorDepth>>) <= 1
    BY Tuples
  <2> QED BY <2>1 DEF Inv, Planned, EnvInv, DepthStates, ManualLimitsNeverNest
<1> QED BY <1>1, PlanHolds, PTL

(* However calls, blocks and expressions nest and return early, the depth, *)
(* the limits and the type arguments are back at the end of a generation.  *)
THEOREM UndoneAtEnd == Spec => []AllUndoneAtEnd
<1>1. Inv => AllUndoneAtEnd
  <2> SUFFICES ASSUME NEW pend, Planned(pend), agenda = << >>, status = "running"
               PROVE  /\ depth.curr = 0 /\ depth.manual = << >>
                      /\ \A tp \in TypeParameters : concrete[tp] = << >>
    BY DEF Inv, AllUndoneAtEnd
  <2>1. Plan(<< >>, Now(pend), AllUndone)
    BY DEF Planned
  <2>2. AtLeast(Now(pend), AllUndone)
    <3>1. PICK p : IsPlan(p, << >>, Now(pend), AllUndone)
      BY <2>1 DEF Plan
    <3>2. p[1] = AllUndone
      BY <3>1, Tuples DEF IsPlan
    <3> QED BY <3>1, <3>2 DEF IsPlan
  <2> QED BY <2>2 DEF AtLeast, Now, AllUndone
<1> QED BY <1>1, PlanHolds, PTL

(* No assertion on allow_var and allow_call, no unwrap of the type of a    *)
(* variable or of the function at the root ever fails.                     *)
THEOREM NoPanics == Spec => []NeverPanics
<1>1. Inv => NeverPanics
  BY DEF Inv, Planned, NeverPanics
<1> QED BY <1>1, PlanHolds, PTL

(* What is generated for an expression, for an argument of a call above    *)
(* all, has the type of its position under the type arguments that call    *)
(* registered; a function's own type parameters stand for themselves in    *)
(* its body, also while it calls itself.                                   *)
THEOREM PositionsTyped == Spec => []PositionsGetTheirType
<1>1. Inv => PositionsGetTheirType
  <2> SUFFICES ASSUME NEW pend, Planned(pend), agenda # << >>,
                      Head(agenda).do \in {"expression", "block_return"}
               PROVE  /\ Meaning(Head(agenda).type) = Head(agenda).want
                      /\ \A tp \in LocalParameters(Head(agenda).scope) :
                           Meaning(<<tp>>) = <<tp>>
    BY DEF Inv, PositionsGetTheirType
  <2> DEFINE h == Head(agenda)
  <2>1. Needs(h, Now(pend)) /\ Now(pend).concrete = concrete /\ Now(pend).vars = vars
    BY Meets DEF Now
  <2>2. IsSite(h.scope, Now(pend))
    BY <2>1, InnerSite DEF Needs, NeedsOfDefinitions, NeedsOfExpressions
  <2>3. IsScope(h.scope) /\ Fit(h.scope, vars, concrete)
    BY <2>1, <2>2 DEF IsSite
  <2>4. MeaningIn(concrete, h.type) = h.want
    <3>1. CASE h.do = "expression"
      BY <3>1, <2>1 DEF Needs, NeedsOfExpressions
    <3>2. CASE h.do = "block_return"
      BY <3>2, <2>1, <2>3, MeansItself DEF Needs, NeedsOfDefinitions
    <3> QED BY <3>1, <3>2
  <2>5. ASSUME NEW tp \in LocalParameters(h.scope) PROVE MeaningIn(concrete, <<tp>>) = <<tp>>
    <3>1. /\ tp \in TypeParameters /\ <<tp>> \in PlainTypes
          /\ concrete[tp] \in Seq({<<tp>>})
      BY <2>3, LocalParametersKnown DEF Fit
    <3>2. CASE concrete[tp] = << >>
      BY <3>1, <3>2, PlainShape DEF MeaningIn
    <3>3. CASE concrete[tp] # << >>
      BY <3>1, <3>3, MeaningOfParameter
    <3> QED BY <3>2, <3>3
  <2> QED BY <2>4, <2>5 DEF Meaning
<1> QED BY <1>1, PlanHolds, PTL

(* The generator asks for a value of one of a function's own type          *)
(* parameters, whether for an argument of a call, for the value the        *)
(* function returns or for an operand, only where a variable of that type  *)
(* is in scope and alive (filter_instantiatable_types of types.rs).        *)
THEOREM ParametersAvailable == Spec => []ParametersHaveValues
<1>1. Inv => ParametersHaveValues
  <2> SUFFICES ASSUME NEW pend, Planned(pend), agenda # << >>, Head(agenda).do = "access",
                      NEW tp \in LocalParameters(Head(agenda).scope),
                      Head(agenda).type = <<tp>>
               PROVE  LiveVariables(Head(agenda).scope, Head(agenda).type) # {}
    BY DEF Inv, ParametersHaveValues
  <2> DEFINE h == Head(agenda)
  <2>1. Needs(h, Now(pend)) /\ Now(pend).vars = vars
    BY Meets DEF Now
  <2>2. IsScope(h.scope) /\ <<tp>> \in TypesOf(h.scope, vars)
    BY <2>1 DEF Needs, NeedsOfExpressions, IsSite
  <2>3. tp \in TypeParameters /\ <<tp>> \in PlainTypes
    BY <2>2, LocalParametersKnown
  <2>4. Last(<<tp>>) = tp /\ <<tp>>[1] # "vec" /\ <<tp>> # Untyped
    BY <2>3, PlainShape
  <2>5. HasValue(h.scope, vars, <<tp>>)
    BY <2>2, <2>3, <2>4 DEF TypesOf, HasValues
  <2>6. PICK v \in DOMAIN vars :
          IsInScope(h.scope, vars[v].scope) /\ vars[v].type = <<tp>> /\ vars[v].live
    BY <2>5 DEF HasValue
  <2>7. v \in LiveVariables(h.scope, <<tp>>)
    BY <2>4, <2>6 DEF LiveVariables, Identifiers, IdentifiersAll
  <2> QED BY <2>7
<1> QED BY <1>1, PlanHolds, PTL

(* No expression finds a pending variable that has its type already.       *)
LEMMA NotFound ==
  ASSUME NEW s, NEW item, Sheltered(s) \/ Apart(item, s), item.var,
         NEW v \in Hot(s), s.vars[v].type = item.want
  PROVE  s.vars[v].type[1] = "vec"
<1> DEFINE struct == Last(item.want)
<1>1. CASE Sheltered(s)
  BY <1>1 DEF Sheltered
<1>2. CASE Apart(item, s)
  <2>1. item.want \in PartsOf(struct)
    BY <1>2 DEF Apart
  <2>2. item.want \in PlainTypes /\ item.want # <<struct>>
    BY <2>1, Parts DEF PlainTypes
  <2> QED BY <2>2, PlainShape
<1> QED BY <1>1, <1>2

(* A variable is named in its scope only, and after its let is complete:   *)
(* no initial value, fall back or element names the variable it is for,    *)
(* even where the type pool knows that one already (type_pool of env.rs).  *)
THEOREM DeclaredFirst == Spec => []DeclaredBeforeUse
<1>1. Inv => DeclaredBeforeUse
  <2> SUFFICES ASSUME NEW pend, Planned(pend), agenda # << >>, NEW v \in MayName(Head(agenda))
               PROVE  /\ IsInScope(Head(agenda).scope, vars[v].scope)
                      /\ \A i \in DOMAIN agenda : agenda[i].do = "bind" => agenda[i].id # v
    BY DEF Inv, DeclaredBeforeUse
  <2> DEFINE h == Head(agenda)
  <2>1. /\ Needs(h, Now(pend)) /\ Now(pend).concrete = concrete
        /\ Now(pend).vars = vars /\ Now(pend).pending = pend
    BY Meets DEF Now
  <2> SUFFICES IsInScope(h.scope, vars[v].scope) /\ v \notin pend
    BY BoundPending
  <2>2. v \in pend /\ vars[v].type # Untyped => v \in Hot(Now(pend))
    BY <2>1 DEF Hot
  <2> HIDE DEF h
  <2>3. CASE h.do \in {"expression", "access"}
    <3>1. h.var /\ v \in LiveVariables(h.scope, Resolve(h.type))
      BY <2>3 DEF MayName, h
    <3>2. /\ Sheltered(Now(pend)) \/ Apart(h, Now(pend))
          /\ IsSite(h.scope, Now(pend)) /\ h.want \in TypesOf(h.scope, vars)
          /\ h.type \in PlainTypes \cup TypesOf(h.scope, vars)
      BY <2>1, <2>3 DEF Needs, NeedsOfExpressions
    <3>3. MeaningIn(concrete, h.type) = h.want
      <4>1. CASE h.do = "expression"
        BY <4>1, <2>1 DEF Needs, NeedsOfExpressions
      <4>2. CASE h.do = "access"
        BY <4>2, <2>1, <3>2, MeansItself DEF Needs, NeedsOfExpressions, IsSite
      <4> QED BY <4>1, <4>2, <2>3
    <3>4. Resolve(h.type) = h.want
      BY <2>1, <3>2, <3>3, Resolved DEF IsSite
    <3>5. /\ IsInScope(h.scope, vars[v].scope) /\ vars[v].type = h.want
          /\ vars[v].type # Untyped /\ vars[v].type[1] # "vec"
      BY <3>1, <3>4 DEF LiveVariables, Identifiers, IdentifiersAll
    <3> QED BY <3>1, <3>2, <3>5, <2>1, <2>2, NotFound
  <2>4. CASE h.do = "block_return"
    <3>1. v \in LiveVariables(h.scope, h.type)
      BY <2>4 DEF MayName, h
    <3>2. Sheltered(Now(pend))
      BY <2>1, <2>4, InnerSite DEF Needs, NeedsOfDefinitions
    <3>3. /\ IsInScope(h.scope, vars[v].scope)
          /\ vars[v].type # Untyped /\ vars[v].type[1] # "vec"
      BY <3>1 DEF LiveVariables, Identifiers, IdentifiersAll
    <3> QED BY <3>2, <3>3, <2>1, <2>2 DEF Sheltered
  <2>5. CASE h.do \in {"statement", "operation", "assignment"}
    <3>1. v \in IdentifiersAll(h.scope)
      BY <2>5 DEF MayName, h, VectorIdentifiers, Identifiers
    <3>2. Hot(Now(pend)) = {}
      BY <2>1, <2>5 DEF Needs, NeedsOfDefinitions
    <3> QED BY <3>1, <3>2, <2>2 DEF IdentifiersAll
  <2>6. CASE h.do = "record"
    <3>1. v = h.id
      BY <2>6 DEF MayName, h
    <3> QED BY <3>1, <2>1, <2>6 DEF Needs, NeedsOfDefinitions
  <2>7. h.do \in {"expression", "access", "block_return", "statement", "operation",
                  "assignment", "record"}
    BY DEF MayName, h
  <2> QED BY <2>3, <2>4, <2>5, <2>6, <2>7
<1> QED BY <1>1, PlanHolds, PTL
=============================================================================
