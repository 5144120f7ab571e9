--------------------- MODULE TransactionalExecutor_proofs ---------------------
(***************************************************************************)
(* What the clustering of the execution manager needs of                   *)
(* TransactionalResult::similar (result.rs:402-417), and what execute_one  *)
(* returns, for any logs and any number of runs.                           *)
(***************************************************************************)
EXTENDS TransactionalExecutor, SequenceTheorems, FunctionTheorems, FiniteSetTheorems, TLAPS

(* A result as execute_one and from_panic make it: a panic has no chunks,  *)
(* and a failure compared at least one run.                                *)
WellFormed(r) ==
  /\ r.status = "Panic" => r.chunks = << >>
  /\ r.status = "Failure" => DOMAIN r.chunks # {}
  /\ r.status \in Status

(* similar() is reflexive: an input that is run again falls into its own   *)
(* cluster.                                                                *)
THEOREM SimilarReflexive ==
  ASSUME NEW r
  PROVE  ResultSimilar(r, r)
BY DEF ResultSimilar

(* similar() is symmetric: which of two results came first does not decide *)
(* whether they share a cluster.                                           *)
THEOREM SimilarSymmetric ==
  ASSUME NEW r, NEW s, ResultSimilar(r, s)
  PROVE  ResultSimilar(s, r)
BY DEF ResultSimilar

(* collect_errors has one set per run.                                     *)
LEMMA ErrorsPerRun ==
  ASSUME NEW c, NEW d, CollectErrors(c) = CollectErrors(d)
  PROVE  DOMAIN c = DOMAIN d
<1>1. DOMAIN CollectErrors(c) = DOMAIN c /\ DOMAIN CollectErrors(d) = DOMAIN d
  BY DEF CollectErrors
<1> QED BY <1>1

(* A panic and a failure are never similar.                                *)
LEMMA PanicIsNoFailure ==
  ASSUME NEW r, NEW s, WellFormed(r), WellFormed(s),
         r.status = "Panic", s.status = "Failure"
  PROVE  ~ResultSimilar(r, s) /\ ~ResultSimilar(s, r)
<1>1. DOMAIN r.chunks = {} BY DEF WellFormed
<1>2. DOMAIN s.chunks # {} BY DEF WellFormed
<1>3. CollectErrors(r.chunks) # CollectErrors(s.chunks)
  BY <1>1, <1>2, ErrorsPerRun
<1> QED BY <1>3 DEF ResultSimilar

(* Between bugs similar() is an equivalence, so that the clusters of the   *)
(* bugs do not depend on which bug became the representative.              *)
THEOREM SimilarTransitiveOnBugs ==
  ASSUME NEW r, NEW s, NEW t,
         WellFormed(r), WellFormed(s), WellFormed(t),
         ResultIsBug(r), ResultIsBug(s), ResultIsBug(t),
         ResultSimilar(r, s), ResultSimilar(s, t)
  PROVE  ResultSimilar(r, t)
<1>1. /\ r.status \in {"Panic", "Failure"}
      /\ s.status \in {"Panic", "Failure"}
      /\ t.status \in {"Panic", "Failure"}
  BY DEF WellFormed, ResultIsBug, Status
<1>2. CASE s.status = "Panic"
  <2>1. r.status = "Panic" /\ t.status = "Panic"
    BY <1>1, <1>2, PanicIsNoFailure
  <2> QED BY <1>2, <2>1 DEF ResultSimilar
<1>3. CASE s.status = "Failure"
  <2>1. r.status = "Failure" /\ t.status = "Failure"
    BY <1>1, <1>3, PanicIsNoFailure
  <2> QED BY <1>3, <2>1 DEF ResultSimilar
<1> QED BY <1>1, <1>2, <1>3

(* A failure stands apart from the success() of an input all of whose runs *)
(* ended Ok.                                                               *)
THEOREM FailureIsNoSuccess ==
  ASSUME NEW r, WellFormed(r), r.status = "Failure"
  PROVE  ~ResultSimilar(r, Success)
<1>1. DOMAIN Success.chunks = {} BY DEF Success
<1>2. DOMAIN r.chunks # {} BY DEF WellFormed
<1>3. CollectErrors(r.chunks) # CollectErrors(Success.chunks)
  BY <1>1, <1>2, ErrorsPerRun
<1> QED BY <1>3 DEF ResultSimilar

-----------------------------------------------------------------------------
(* What the builder returns for a bug has chunks of at least one run.      *)
LEMMA BuildIsWellFormed == ASSUME NEW outcomes PROVE WellFormed(Build(outcomes))
<1> DEFINE chunks == [n \in DOMAIN AllLogs(outcomes) |-> LogToChunks(AllLogs(outcomes)[n])]
<1>1. WellFormed(Success)
  BY DEF Success, WellFormed, Status
<1>2. WellFormed([status |-> CheckChunks(chunks), loc |-> "none", chunks |-> chunks])
  <2> HIDE DEF chunks
  <2>1. CheckChunks(chunks) \in {"Success", "Failure"}
    BY DEF CheckChunks
  <2>2. CheckChunks(chunks) = "Failure" => DOMAIN chunks # {}
    BY DEF CheckChunks
  <2> QED
    BY <2>1, <2>2 DEF WellFormed, Status
<1> QED
  BY <1>1, <1>2 DEF Build

(* execute_one returns results the theorems above are about.               *)
THEOREM OutputsAreWellFormed == Spec => [](output # NoOutput => WellFormed(output))
<1> DEFINE Inv == output # NoOutput => WellFormed(output)
<1>1. Init => Inv
  BY DEF Init
<1>2. Inv /\ [Next]_vars => Inv'
  <2> SUFFICES ASSUME Inv, [Next]_vars PROVE Inv'
    OBVIOUS
  <2>1. CASE BuildResult
    <3>1. WellFormed(FromPanic("result.rs"))
      BY DEF WellFormed, FromPanic, Status
    <3> QED
      BY <2>1, <3>1, BuildIsWellFormed DEF BuildResult
  <2>2. CASE UNCHANGED output
    BY <2>2
  <2>3. CASE NextInput
    BY <2>3 DEF NextInput
  <2> QED
    BY <2>1, <2>2, <2>3 DEF Next, ExecuteRun, Returned, vars
<1> QED
  BY <1>1, <1>2, PTL DEF Spec

-----------------------------------------------------------------------------
(* The verdict as its users read it: no run reports a compiler bug and all *)
(* runs say the same.                                                      *)
Agree(chunks) ==
  /\ \A n, m \in DOMAIN chunks :
       /\ Len(chunks[n]) = Len(chunks[m])
       /\ \A i \in DOMAIN chunks[1] : chunks[n][i].canonical = chunks[m][i].canonical
  /\ \A n \in DOMAIN chunks : \A i \in DOMAIN chunks[n] : chunks[n][i].kind # "Bug"

(* check_chunks answers Success exactly when the runs agree, whatever      *)
(* their number.                                                           *)
THEOREM SuccessIsAgreement ==
  ASSUME NEW Chunk, NEW chunks \in Seq(Seq(Chunk)), chunks # << >>
  PROVE  CheckChunks(chunks) = "Success" <=> Agree(chunks)
<1>1. 1 \in DOMAIN chunks OBVIOUS
<1>2. \A n \in DOMAIN chunks : chunks[n] \in Seq(Chunk) OBVIOUS
<1>3. CASE \A n \in DOMAIN chunks : chunks[n] = << >>
  <2>1. \A n \in DOMAIN chunks : Len(chunks[n]) = 0 /\ DOMAIN chunks[n] = {} BY <1>3
  <2>2. Agree(chunks) BY <2>1, <1>1 DEF Agree
  <2> QED BY <1>3, <2>2 DEF CheckChunks
<1>4. CASE ~ \A n \in DOMAIN chunks : chunks[n] = << >>
  <2>1. (\E n \in DOMAIN chunks : Len(chunks[n]) # Len(chunks[1])) => ~Agree(chunks)
    BY <1>1 DEF Agree
  <2>2. (\A n \in DOMAIN chunks : Len(chunks[n]) = Len(chunks[1]))
          => \A n, m \in DOMAIN chunks : Len(chunks[n]) = Len(chunks[m])
    BY <1>2
  <2> QED BY <1>4, <2>1, <2>2 DEF CheckChunks, Agree
<1> QED BY <1>3, <1>4
-----------------------------------------------------------------------------
(***************************************************************************)
(* Positions and what a log has there.                                     *)
(***************************************************************************)

(* The ranks of the positions count them, and so the k-th is found.        *)
LEMMA Ranks ==
  ASSUME NEW n \in Nat, NEW I \in SUBSET (1 .. n)
  PROVE  /\ IsFiniteSet(I) /\ Cardinality(I) \in Nat
         /\ \A i \in I : Rank(I, i) \in 1 .. Cardinality(I)
         /\ \A i, j \in I : i < j => Rank(I, i) < Rank(I, j)
         /\ \A k \in 1 .. Cardinality(I) : Nth(I, k) \in I /\ Rank(I, Nth(I, k)) = k
<1> DEFINE Upto(i) == {j \in I : j <= i}
           count == Cardinality(I)
<1>1. IsFiniteSet(I) /\ count \in Nat
  <2>1. IsFiniteSet(1 .. n)
    BY FS_Interval
  <2>2. IsFiniteSet(I)
    BY <2>1, FS_Subset
  <2> QED BY <2>2, FS_CardinalityType
<1>2. ASSUME NEW i \in I PROVE Rank(I, i) \in 1 .. count
  <2>1. Upto(i) \in SUBSET I /\ Upto(i) # {}
    OBVIOUS
  <2>2. IsFiniteSet(Upto(i)) /\ Cardinality(Upto(i)) \in Nat
        /\ Cardinality(Upto(i)) <= count /\ Cardinality(Upto(i)) # 0
    BY <1>1, <2>1, FS_Subset, FS_CardinalityType, FS_EmptySet
  <2> QED BY <1>1, <2>2 DEF Rank
<1>3. ASSUME NEW i \in I, NEW j \in I, i < j PROVE Rank(I, i) < Rank(I, j)
  <2>1. Upto(i) \in SUBSET Upto(j) /\ Upto(i) # Upto(j) /\ Upto(j) \in SUBSET I
    <3>1. i \in Int /\ j \in Int /\ I \subseteq Int
      OBVIOUS
    <3>2. j \in Upto(j) /\ j \notin Upto(i)
      BY <1>3, <3>1
    <3>3. \A h \in Upto(i) : h \in Upto(j)
      BY <1>3, <3>1
    <3> QED BY <3>2, <3>3
  <2>2. IsFiniteSet(Upto(j))
    BY <1>1, <2>1, FS_Subset
  <2>3. Cardinality(Upto(i)) <= Cardinality(Upto(j)) /\ Cardinality(Upto(i)) # Cardinality(Upto(j))
    BY <2>1, <2>2, FS_Subset
  <2>4. Rank(I, i) \in Nat /\ Rank(I, j) \in Nat
    BY <1>1, <1>2
  <2> QED BY <2>3, <2>4 DEF Rank
<1>4. ASSUME NEW k \in 1 .. count PROVE Nth(I, k) \in I /\ Rank(I, Nth(I, k)) = k
  <2> DEFINE rank == [i \in I |-> Rank(I, i)]
  <2>1. rank \in [I -> 1 .. count] /\ \A i \in I : rank[i] = Rank(I, i)
    BY <1>2
  <2> HIDE DEF rank
  <2>2. \A i, j \in I : rank[i] = rank[j] => i = j
    <3> SUFFICES ASSUME NEW i \in I, NEW j \in I, rank[i] = rank[j], i # j PROVE FALSE
      OBVIOUS
    <3>1. Rank(I, i) = Rank(I, j) /\ Rank(I, i) \in Int /\ (i < j \/ j < i)
      BY <2>1, <1>1, <1>2
    <3> QED BY <3>1, <1>3
  <2>3. rank \in Injection(I, 1 .. count)
    BY <2>1, <2>2, Fun_IsInj
  <2>4. IsFiniteSet(1 .. count) /\ Cardinality(1 .. count) = count
    BY <1>1, FS_Interval
  <2>5. rank \in Surjection(I, 1 .. count)
    BY <2>3, <2>4, FS_Injection
  <2>6. \A t \in 1 .. count : \E i \in I : rank[i] = t
    <3> HIDE DEF count
    <3> QED BY <2>5, Fun_SurjectionProperties
  <2>7. \E i \in I : Rank(I, i) = k
    BY <2>1, <2>6
  <2> HIDE DEF count, Upto
  <2> QED BY <2>7 DEF Nth
<1> QED BY <1>1, <1>2, <1>3, <1>4

(* Two positions with the same rank are the same.                          *)
LEMMA NthOfRank ==
  ASSUME NEW n \in Nat, NEW I \in SUBSET (1 .. n), NEW i \in I
  PROVE  Nth(I, Rank(I, i)) = i
<1> DEFINE j == Nth(I, Rank(I, i))
<1>1. Rank(I, i) \in 1 .. Cardinality(I)
  BY Ranks
<1>2. j \in I /\ Rank(I, j) = Rank(I, i)
  BY <1>1, Ranks
<1> HIDE DEF j
<1>3. ~(i < j) /\ ~(j < i)
  <2>1. Rank(I, i) \in Int
    BY <1>1, Ranks
  <2>2. i < j => Rank(I, i) < Rank(I, j)
    BY <1>2, Ranks
  <2>3. j < i => Rank(I, j) < Rank(I, i)
    BY <1>2, Ranks
  <2> QED BY <1>2, <2>1, <2>2, <2>3
<1>4. i = j
  BY <1>2, <1>3
<1> QED BY <1>4 DEF j

(* Two positions next to each other have ranks next to each other.         *)
LEMMA NextRank ==
  ASSUME NEW n \in Nat, NEW I \in SUBSET (1 .. n), NEW i \in I, i + 1 \in I
  PROVE  Rank(I, i + 1) = Rank(I, i) + 1
<1> DEFINE Upto(j) == {h \in I : h <= j}
<1>1. IsFiniteSet(Upto(i))
  <2>1. IsFiniteSet(I)
    BY Ranks
  <2>2. Upto(i) \in SUBSET I
    OBVIOUS
  <2> HIDE DEF Upto
  <2> QED BY <2>1, <2>2, FS_Subset
<1>2. Upto(i + 1) = Upto(i) \cup {i + 1} /\ i + 1 \notin Upto(i)
  <2>1. \A h \in I : h <= i + 1 <=> h <= i \/ h = i + 1
    OBVIOUS
  <2>2. ~(i + 1 <= i)
    OBVIOUS
  <2>3. Upto(i + 1) \subseteq Upto(i) \cup {i + 1}
    BY <2>1
  <2>4. Upto(i) \cup {i + 1} \subseteq Upto(i + 1)
    BY <2>1
  <2> QED BY <2>2, <2>3, <2>4
<1>3. Cardinality(Upto(i) \cup {i + 1}) = Cardinality(Upto(i)) + 1
  BY <1>1, <1>2, FS_AddElement
<1> QED BY <1>2, <1>3 DEF Rank

(* The lines of logs and of diffs.  (To the provers STRING is just a set.) *)
Texts == STRING \cup {"Success", NoValue}
Lines ==
  [sign : {"none", "-", "+", "="}, kind : Texts, ignored : BOOLEAN, text : Texts, value : Texts]

LEMMA PickedFrom ==
  ASSUME NEW S, NEW log \in Seq(S), NEW I \in SUBSET DOMAIN log
  PROVE  /\ Picked(log, I) \in Seq(S)
         /\ Len(Picked(log, I)) = Cardinality(I) /\ Cardinality(I) \in Nat
         /\ DOMAIN Picked(log, I) = 1 .. Cardinality(I)
         /\ \A k \in 1 .. Cardinality(I) :
              Picked(log, I)[k] = log[Nth(I, k)] /\ Nth(I, k) \in I
         /\ \A i \in I :
              Rank(I, i) \in 1 .. Cardinality(I) /\ Picked(log, I)[Rank(I, i)] = log[i]
<1> DEFINE count == Cardinality(I)
<1>1. Len(log) \in Nat /\ I \in SUBSET (1 .. Len(log)) /\ \A i \in I : log[i] \in S
  OBVIOUS
<1>2. /\ count \in Nat /\ \A k \in 1 .. count : Nth(I, k) \in I
      /\ \A i \in I : Rank(I, i) \in 1 .. count
  BY <1>1, Ranks
<1>3. \A i \in I : Nth(I, Rank(I, i)) = i
  BY <1>1, NthOfRank
<1> HIDE DEF count
<1>4. Picked(log, I) = [k \in 1 .. count |-> log[Nth(I, k)]]
  BY DEF Picked, count
<1>5. Picked(log, I) \in [1 .. count -> S]
  BY <1>1, <1>2, <1>4
<1>6. Picked(log, I) \in Seq(S) /\ Len(Picked(log, I)) = count
  BY <1>2, <1>5, SeqDef
<1> QED BY <1>2, <1>3, <1>4, <1>5, <1>6 DEF count

(* The ranks of the positions K among the positions I.                     *)
RanksAmong(I, K) == {Rank(I, i) : i \in K}

LEMMA RankOfRanks ==
  ASSUME NEW n \in Nat, NEW I \in SUBSET (1 .. n), NEW K \in SUBSET I
  PROVE  LET R == RanksAmong(I, K)
         IN  /\ R \in SUBSET (1 .. Cardinality(I)) /\ Cardinality(I) \in Nat
             /\ Cardinality(R) = Cardinality(K) /\ Cardinality(K) \in Nat
             /\ \A k \in 1 .. Cardinality(K) :
                  Nth(K, k) \in K /\ Nth(R, k) = Rank(I, Nth(K, k))
<1> DEFINE R == RanksAmong(I, K)
<1>0. R = {Rank(I, i) : i \in K}
  BY DEF RanksAmong
<1> HIDE DEF R
<1>1. /\ IsFiniteSet(I) /\ Cardinality(I) \in Nat /\ K \in SUBSET (1 .. n)
      /\ \A i \in I : Rank(I, i) \in 1 .. Cardinality(I)
      /\ \A i, j \in I : i < j => Rank(I, i) < Rank(I, j)
  BY Ranks
<1>2. R \in SUBSET (1 .. Cardinality(I))
  BY <1>0, <1>1
<1>3. \A i, j \in I : Rank(I, i) <= Rank(I, j) <=> i <= j
  <2> SUFFICES ASSUME NEW i \in I, NEW j \in I
               PROVE  Rank(I, i) <= Rank(I, j) <=> i <= j
    OBVIOUS
  <2>1. Rank(I, i) \in Int /\ Rank(I, j) \in Int /\ i \in Int /\ j \in Int
    BY <1>1
  <2>2. (i < j => Rank(I, i) < Rank(I, j)) /\ (j < i => Rank(I, j) < Rank(I, i))
    BY <1>1
  <2>3. i = j => Rank(I, i) = Rank(I, j)
    OBVIOUS
  <2> QED BY <2>1, <2>2, <2>3
<1>4. ASSUME NEW Q \in SUBSET K, NEW P, P = {Rank(I, i) : i \in Q}
      PROVE  Cardinality(P) = Cardinality(Q)
  <2> DEFINE rank == [i \in Q |-> Rank(I, i)]
  <2>1. rank \in [Q -> P] /\ \A i \in Q : rank[i] = Rank(I, i)
    BY <1>4
  <2>2. \A t \in P : \E i \in Q : rank[i] = t
    BY <1>4
  <2> HIDE DEF rank
  <2>3. \A i, j \in Q : rank[i] = rank[j] => i = j
    <3> SUFFICES ASSUME NEW i \in Q, NEW j \in Q, rank[i] = rank[j] PROVE i = j
      OBVIOUS
    <3>1. i \in I /\ j \in I /\ i \in Int /\ j \in Int /\ Rank(I, i) \in Int
          /\ Rank(I, i) = Rank(I, j)
      BY <1>1, <2>1
    <3>2. i <= j /\ j <= i
      BY <1>3, <3>1
    <3> QED BY <3>1, <3>2
  <2>4. rank \in Bijection(Q, P)
    BY <2>1, <2>2, <2>3, Fun_IsBij
  <2>5. IsFiniteSet(Q)
    <3>1. Q \in SUBSET I
      OBVIOUS
    <3> QED BY <1>1, <3>1, FS_Subset
  <2>6. ExistsBijection(Q, P)
    BY <2>4 DEF ExistsBijection
  <2> QED BY <2>5, <2>6, FS_Bijection
<1>5. Cardinality(R) = Cardinality(K)
  BY <1>0, <1>4
<1>6. ASSUME NEW i \in K PROVE Rank(R, Rank(I, i)) = Rank(K, i) /\ Rank(I, i) \in R
  <2> DEFINE Q == {h \in K : h <= i}
             P == {j \in R : j <= Rank(I, i)}
  <2>1. P = {Rank(I, h) : h \in Q}
    <3>1. \A h \in K : Rank(I, h) <= Rank(I, i) <=> h <= i
      BY <1>3
    <3> QED BY <1>0, <3>1
  <2>2. Q \in SUBSET K
    OBVIOUS
  <2>4. Rank(I, i) \in R
    BY <1>0
  <2> HIDE DEF P, Q
  <2>3. Cardinality(P) = Cardinality(Q)
    BY <1>4, <2>1, <2>2
  <2> QED BY <2>3, <2>4 DEF Rank, P, Q
<1>7. /\ Cardinality(K) \in Nat
      /\ \A k \in 1 .. Cardinality(K) : Nth(K, k) \in K /\ Rank(K, Nth(K, k)) = k
  BY <1>1, Ranks
<1>8. ASSUME NEW k \in 1 .. Cardinality(K) PROVE Nth(R, k) = Rank(I, Nth(K, k))
  <2> DEFINE j == Rank(I, Nth(K, k))
  <2>1. j \in R /\ Rank(R, j) = k
    BY <1>6, <1>7
  <2> HIDE DEF j
  <2>2. Nth(R, Rank(R, j)) = j
    BY <1>1, <1>2, <2>1, NthOfRank
  <2> QED BY <2>1, <2>2 DEF j
<1> QED BY <1>1, <1>2, <1>5, <1>7, <1>8 DEF R

(* Picking every position.                                                 *)
LEMMA PickedAll ==
  ASSUME NEW S, NEW s \in Seq(S)
  PROVE  Picked(s, DOMAIN s) = s
<1> DEFINE n == Len(s)
           I == 1 .. n
<1>1. n \in Nat /\ DOMAIN s = I /\ s = [k \in I |-> s[k]]
  OBVIOUS
<1>2. Cardinality(I) = n
  BY <1>1, FS_Interval
<1>3. ASSUME NEW k \in I PROVE Nth(I, k) = k
  <2>1. {j \in I : j <= k} = 1 .. k
    BY <1>1
  <2>2. Cardinality(1 .. k) = k
    <3>1. k \in Int /\ k >= 1
      BY <1>1
    <3> QED BY <3>1, FS_Interval
  <2>3. Rank(I, k) = k
    <3>1. Rank(I, k) = Cardinality({j \in I : j <= k})
      BY DEF Rank
    <3> QED BY <2>1, <2>2, <3>1
  <2>4. Nth(I, Rank(I, k)) = k
    BY <1>1, NthOfRank
  <2> QED BY <2>3, <2>4
<1>4. Picked(s, I) = [k \in 1 .. n |-> s[Nth(I, k)]]
  BY <1>2 DEF Picked
<1> QED BY <1>1, <1>3, <1>4

(* Picking twice: of what is at the positions I what is at those in K.     *)
LEMMA PickedPicked ==
  ASSUME NEW S, NEW s \in Seq(S), NEW I \in SUBSET DOMAIN s, NEW K \in SUBSET I,
         NEW J \in SUBSET (1 .. Cardinality(I)),
         \A k \in 1 .. Cardinality(I) : k \in J <=> Nth(I, k) \in K
  PROVE  Picked(Picked(s, I), J) = Picked(s, K)
<1> DEFINE part == Picked(s, I)
           count == Cardinality(I)
<1>1. Len(s) \in Nat /\ I \in SUBSET (1 .. Len(s)) /\ K \in SUBSET DOMAIN s
  OBVIOUS
<1>2. /\ \A i \in I : Rank(I, i) \in 1 .. count /\ part[Rank(I, i)] = s[i]
      /\ \A k \in 1 .. count : Nth(I, k) \in I
  BY PickedFrom
<1>3. /\ \A i \in I : Nth(I, Rank(I, i)) = i
      /\ \A k \in 1 .. count : Rank(I, Nth(I, k)) = k
  BY <1>1, Ranks, NthOfRank
<1>4. J = RanksAmong(I, K)
  <2>1. \A k \in J : \E i \in K : k = Rank(I, i)
    BY <1>3
  <2>2. \A i \in K : Rank(I, i) \in J
    BY <1>2, <1>3
  <2> QED BY <2>1, <2>2 DEF RanksAmong
<1>5. /\ Cardinality(J) = Cardinality(K)
      /\ \A k \in 1 .. Cardinality(K) : Nth(K, k) \in K /\ Nth(J, k) = Rank(I, Nth(K, k))
  BY <1>1, <1>4, RankOfRanks
<1> HIDE DEF part, count
<1>6. \A k \in 1 .. Cardinality(K) : part[Nth(J, k)] = s[Nth(K, k)]
  BY <1>2, <1>5
<1>7. Picked(part, J) = Picked(s, K)
  BY <1>5, <1>6 DEF Picked
<1> QED BY <1>7 DEF part

(* Two logs with the same lines, whatever the signs of these.              *)
Alike(a, b) ==
  /\ Len(a) = Len(b)
  /\ \A i \in DOMAIN a :
       a[i].kind = b[i].kind /\ a[i].text = b[i].text /\ a[i].value = b[i].value

LEMMA AlikePicked ==
  ASSUME NEW a \in Seq(Lines), NEW b \in Seq(Lines), Alike(a, b), NEW I \in SUBSET DOMAIN a
  PROVE  Alike(Picked(a, I), Picked(b, I))
<1> DEFINE pa == Picked(a, I)
           pb == Picked(b, I)
           n == Cardinality(I)
<1>1. DOMAIN a = DOMAIN b
  BY DEF Alike
<1>2. /\ Len(pa) = n /\ DOMAIN pa = 1 .. n
      /\ \A k \in 1 .. n : pa[k] = a[Nth(I, k)] /\ Nth(I, k) \in I
  BY PickedFrom
<1>3. /\ Len(pb) = n
      /\ \A k \in 1 .. n : pb[k] = b[Nth(I, k)]
  BY <1>1, PickedFrom
<1> HIDE DEF pa, pb, n
<1>4. Alike(pa, pb)
  BY <1>2, <1>3 DEF Alike
<1> QED BY <1>4 DEF pa, pb

LEMMA AlikeWithoutBlanks ==
  ASSUME NEW a \in Seq(Lines), NEW b \in Seq(Lines), Alike(a, b)
  PROVE  /\ WithoutBlanks(a) \in Seq(Lines) /\ WithoutBlanks(b) \in Seq(Lines)
         /\ Alike(WithoutBlanks(a), WithoutBlanks(b))
<1> DEFINE I == {i \in DOMAIN a : ~IsBlank(a[i])}
<1>1. I = {i \in DOMAIN b : ~IsBlank(b[i])}
  <2>1. Len(a) = Len(b) /\ \A i \in DOMAIN a : a[i].text = b[i].text
    BY DEF Alike
  <2>2. DOMAIN a = DOMAIN b
    BY <2>1
  <2>3. \A i \in DOMAIN a : IsBlank(a[i]) <=> IsBlank(b[i])
    BY <2>1 DEF IsBlank
  <2> QED BY <2>2, <2>3
<1>2. WithoutBlanks(a) = Picked(a, I) /\ WithoutBlanks(b) = Picked(b, I)
  BY <1>1 DEF WithoutBlanks
<1>3. I \in SUBSET DOMAIN a /\ I \in SUBSET DOMAIN b
  BY <1>1
<1> HIDE DEF I
<1> QED BY <1>2, <1>3, PickedFrom, AlikePicked

LEMMA AlikeParsed ==
  ASSUME NEW a \in Seq(Lines), NEW b \in Seq(Lines), Alike(a, b)
  PROVE  /\ ParsedLines(a) \in Seq(Lines) /\ ParsedLines(b) \in Seq(Lines)
         /\ Alike(ParsedLines(a), ParsedLines(b))
<1> DEFINE I == {i \in DOMAIN a : a[i].kind # "Differ"}
<1>1. I = {i \in DOMAIN b : b[i].kind # "Differ"}
  BY DEF Alike
<1>2. ParsedLines(a) = Picked(a, I) /\ ParsedLines(b) = Picked(b, I)
  BY <1>1 DEF ParsedLines
<1>3. I \in SUBSET DOMAIN a /\ I \in SUBSET DOMAIN b
  BY <1>1
<1> HIDE DEF I
<1> QED BY <1>2, <1>3, PickedFrom, AlikePicked

(* The chunks of a log do not depend on signs, nor does what it lacks.     *)
LEMMA AlikeChunks ==
  ASSUME NEW a \in Seq(Lines), NEW b \in Seq(Lines), Alike(a, b)
  PROVE  /\ Parses(a) <=> Parses(b)
         /\ Parses(a) => LogToChunks(a) = LogToChunks(b)
<1> DEFINE la == ParsedLines(a)
           lb == ParsedLines(b)
           kept == {i \in DOMAIN la : la[i].kind \notin {"Cont", "Warning", "Task"}}
<1>1. la \in Seq(Lines) /\ lb \in Seq(Lines) /\ Alike(la, lb)
  BY AlikeParsed
<1> HIDE DEF la, lb
<1>2. DOMAIN la = DOMAIN lb
      /\ \A i \in DOMAIN la :
           la[i].kind = lb[i].kind /\ la[i].text = lb[i].text /\ la[i].value = lb[i].value
  BY <1>1 DEF Alike
<1>3. Parses(a) <=> Parses(b)
  BY <1>2 DEF Parses, la, lb
<1>4. ASSUME Parses(a) PROVE LogToChunks(a) = LogToChunks(b)
  <2>1. kept = {i \in DOMAIN lb : lb[i].kind \notin {"Cont", "Warning", "Task"}}
    BY <1>2
  <2>2. kept \in SUBSET (1 .. Len(la)) /\ Len(la) \in Nat
    BY <1>1
  <2> HIDE DEF kept
  <2>3. \A k \in 1 .. Cardinality(kept) : Nth(kept, k) \in kept
    BY <2>2, Ranks
  <2>4. \A i \in kept : i \in DOMAIN la /\ (UsesSecondLine(la[i].kind) => i + 1 \in DOMAIN la)
    BY <1>4 DEF Parses, la, kept
  <2>5. LogToChunks(a) =
          [k \in 1 .. Cardinality(kept) |->
             [kind |-> la[Nth(kept, k)].kind, canonical |-> Canonical(la, Nth(kept, k))]]
    BY DEF LogToChunks, la, kept
  <2>6. LogToChunks(b) =
          [k \in 1 .. Cardinality(kept) |->
             [kind |-> lb[Nth(kept, k)].kind, canonical |-> Canonical(lb, Nth(kept, k))]]
    BY <2>1 DEF LogToChunks, lb
  <2>7. ASSUME NEW k \in 1 .. Cardinality(kept)
        PROVE  LET i == Nth(kept, k)
               IN  la[i].kind = lb[i].kind /\ Canonical(la, i) = Canonical(lb, i)
    <3> DEFINE i == Nth(kept, k)
    <3>1. la[i].kind = lb[i].kind /\ la[i].text = lb[i].text
      BY <1>2, <2>3, <2>4
    <3>2. UsesSecondLine(la[i].kind) =>
            la[i + 1].text = lb[i + 1].text /\ la[i + 1].value = lb[i + 1].value
      BY <1>2, <2>3, <2>4
    <3> HIDE DEF i
    <3>3. Canonical(la, i) = Canonical(lb, i)
      BY <3>1, <3>2 DEF Canonical, UsesSecondLine
    <3> QED BY <3>1, <3>3 DEF i
  <2> QED BY <2>5, <2>6, <2>7
<1> QED BY <1>3, <1>4

-----------------------------------------------------------------------------
(***************************************************************************)
(* What flattening does to the logs of the runs.                           *)
(***************************************************************************)

LEMMA Smallest ==
  ASSUME NEW S, S \subseteq Nat, S # {}
  PROVE  \E m \in S : \A k \in S : ~(k < m)
<1> DEFINE less == {p \in Nat \X Nat : p[1] < p[2]}
<1>1. IsWellFoundedOn(less, Nat)
  BY NatLessThanWellFounded DEF OpToRel
<1> HIDE DEF less
<1>2. PICK m \in S : \A k \in S : ~(<<k, m>> \in less)
  BY <1>1, WFMin
<1> QED BY <1>2 DEF less

(* One sequence.                                                           *)
LEMMA FlattenOne == ASSUME NEW x PROVE FlattenSeq(<<x>>) = x
<1> DEFINE seqs == <<x>>
           rec(f) == [i \in 1 .. Len(seqs) |-> IF i = 1 THEN seqs[i] ELSE f[i - 1] \o seqs[i]]
           g == [i \in 1 .. 1 |-> x]
           h == CHOOSE f : f = rec(f)
<1>1. Len(seqs) = 1 /\ seqs[1] = x
  OBVIOUS
<1>2. FlattenSeq(seqs) = h[Len(seqs)]
  BY <1>1 DEF FlattenSeq
<1>3. g = rec(g)
  BY <1>1
<1>4. h = rec(h)
  <2> HIDE DEF rec, g
  <2> QED BY <1>3
<1> HIDE DEF h
<1>5. h[1] = x
  BY <1>1, <1>4
<1> QED BY <1>1, <1>2, <1>5

(* Sequences of one element each.                                          *)
LEMMA FlattenUnits ==
  ASSUME NEW S, NEW s \in Seq(S), s # << >>,
         NEW seqs, seqs = [i \in 1 .. Len(s) |-> <<s[i]>>]
  PROVE  FlattenSeq(seqs) = s
<1> DEFINE n == Len(s)
           rec(f) == [i \in 1 .. Len(seqs) |-> IF i = 1 THEN seqs[i] ELSE f[i - 1] \o seqs[i]]
           First(i) == [j \in 1 .. i |-> s[j]]
           g == [i \in 1 .. n |-> First(i)]
           h == CHOOSE f : f = rec(f)
<1>1. n \in Nat /\ n > 0 /\ Len(seqs) = n /\ s \in [1 .. n -> S]
  BY EmptySeq
<1>2. FlattenSeq(seqs) = h[Len(seqs)]
  BY <1>1 DEF FlattenSeq
<1>3. First(1) = <<s[1]>> /\ First(n) = s
  BY <1>1
<1>4. ASSUME NEW i \in 2 .. n PROVE First(i) = First(i - 1) \o <<s[i]>>
  <2> DEFINE a == First(i - 1)
             b == <<s[i]>>
  <2>1. /\ i - 1 \in Nat /\ s[i] \in S
        /\ a \in [1 .. i - 1 -> S] /\ First(i) \in [1 .. i -> S] /\ b \in Seq(S)
    BY <1>1
  <2>2. a \in Seq(S) /\ Len(a) = i - 1 /\ First(i) \in Seq(S) /\ Len(First(i)) = i
        /\ Len(b) = 1 /\ b[1] = s[i]
    BY <2>1, SeqDef
  <2>3. /\ \A j \in 1 .. i : First(i)[j] = s[j]
        /\ \A j \in 1 .. i - 1 : a[j] = s[j]
    OBVIOUS
  <2> DEFINE c == a \o b
  <2> HIDE DEF First, a, b, c
  <2>4. /\ c \in Seq(S) /\ Len(c) = i
        /\ \A j \in 1 .. i : c[j] = IF j <= i - 1 THEN a[j] ELSE b[j - (i - 1)]
    <3>1. Len(a) + Len(b) = i
      BY <2>1, <2>2
    <3>2. /\ c \in Seq(S) /\ Len(c) = Len(a) + Len(b)
          /\ \A j \in 1 .. Len(a) + Len(b) :
               c[j] = IF j <= Len(a) THEN a[j] ELSE b[j - Len(a)]
      <4>1. a \in Seq(S) /\ b \in Seq(S)
        BY <2>1, <2>2
      <4> QED BY <4>1, ConcatProperties DEF c
    <3> QED BY <2>2, <3>1, <3>2
  <2>5. \A j \in 1 .. i : First(i)[j] = c[j]
    <3> SUFFICES ASSUME NEW j \in 1 .. i PROVE First(i)[j] = c[j]
      OBVIOUS
    <3>1. First(i)[j] = s[j]
      BY <2>3
    <3>2. CASE j <= i - 1
      <4>1. j \in 1 .. i - 1
        BY <3>2
      <4>2. a[j] = s[j] /\ c[j] = a[j]
        BY <2>3, <2>4, <3>2, <4>1
      <4> QED BY <3>1, <4>2
    <3>3. CASE ~(j <= i - 1)
      <4>1. j = i /\ j - (i - 1) = 1
        BY <3>3
      <4>2. c[j] = b[1]
        BY <2>4, <3>3, <4>1
      <4> QED BY <2>2, <3>1, <4>1, <4>2
    <3> QED BY <3>2, <3>3
  <2>6. First(i) = c
    BY <2>2, <2>4, <2>5, SeqEqual
  <2> QED BY <2>6 DEF a, b, c
<1> HIDE DEF First
<1>5. g = rec(g)
  <2>1. \A i \in 1 .. n : First(i) = IF i = 1 THEN seqs[i] ELSE g[i - 1] \o seqs[i]
    <3> SUFFICES ASSUME NEW i \in 1 .. n
                 PROVE  First(i) = IF i = 1 THEN seqs[i] ELSE g[i - 1] \o seqs[i]
      OBVIOUS
    <3>1. seqs[i] = <<s[i]>>
      BY <1>1
    <3>2. CASE i = 1
      BY <1>3, <3>1, <3>2
    <3>3. CASE i # 1
      <4>1. i \in 2 .. n /\ i - 1 \in 1 .. n
        BY <1>1, <3>3
      <4>2. g[i - 1] = First(i - 1)
        BY <4>1
      <4> QED BY <1>4, <3>1, <3>3, <4>1, <4>2
    <3> QED BY <3>2, <3>3
  <2> QED BY <1>1, <2>1
<1>6. h = rec(h)
  <2> HIDE DEF rec, g
  <2> QED BY <1>5
<1> HIDE DEF h
<1>7. \A i \in 1 .. n : h[i] = First(i)
  <2> SUFFICES ASSUME NEW bad, bad = {i \in 1 .. n : h[i] # First(i)}, bad # {}
               PROVE  FALSE
    OBVIOUS
  <2>1. PICK i \in bad : \A j \in bad : ~(j < i)
    <3>1. bad \subseteq Nat
      OBVIOUS
    <3> QED BY <3>1, Smallest
  <2>2. i \in 1 .. n /\ h[i] # First(i)
    BY <2>1
  <2>3. i # 1
    BY <1>1, <1>3, <1>6, <2>2
  <2>4. h[i - 1] = First(i - 1)
    <3>1. i - 1 \in 1 .. n /\ i - 1 < i
      BY <2>2, <2>3
    <3>2. i - 1 \notin bad
      BY <2>1, <3>1
    <3> QED BY <3>1, <3>2
  <2>5. h[i] = h[i - 1] \o <<s[i]>>
    BY <1>1, <1>6, <2>2, <2>3
  <2>6. i \in 2 .. n
    BY <2>2, <2>3
  <2>7. First(i) = First(i - 1) \o <<s[i]>>
    BY <1>4, <2>6
  <2> HIDE DEF h
  <2> QED BY <2>2, <2>4, <2>5, <2>7
<1> QED BY <1>1, <1>2, <1>3, <1>7

-----------------------------------------------------------------------------
(***************************************************************************)
(* What the runs of an input have printed and how that reached the builder.*)
(***************************************************************************)

SuccessLine ==
  [sign |-> "none", kind |-> "Success", ignored |-> FALSE, text |-> "Success", value |-> NoValue]

Compilers == {"V1", "V2Optimization", "V2NoOptimization", "V2OptNoSimp"}
Runs == Seq(Compilers)
PrintedLogs == Seq(Seq(Lines))
RunOutcomes == [ok : BOOLEAN, diff : BOOLEAN, log : Seq(Lines)]

(* A comparison of two compilers is the only run there is.                 *)
RunsInv ==
  /\ runs \in Seq(Runs) /\ runs # << >>
  /\ \/ Len(runs) = 1 /\ Len(runs[1]) = 2
     \/ \A n \in DOMAIN runs : Len(runs[n]) = 1

Logged(run, logs) ==
  \/ Len(run) = 1 /\ \E a \in Logs : logs = <<a>>
  \/ Len(run) = 2 /\ \E a, b \in ComparedLogs : logs = <<a, b>>

ResultsInv ==
  /\ todo \in Seq(Runs) /\ printed \in Seq(PrintedLogs) /\ results \in Seq(RunOutcomes)
  /\ Len(printed) = Len(results) /\ Len(printed) + Len(todo) = Len(runs)
  /\ \A n \in 1 .. Len(todo) : todo[n] = runs[Len(printed) + n]
  /\ \A n \in 1 .. Len(printed) :
       Logged(runs[n], printed[n]) /\ results[n] \in Outcomes(runs[n], printed[n])

OutputInv ==
  output # NoOutput =>
    /\ todo = << >>
    /\ output = IF BuildPanics(results) THEN FromPanic("result.rs") ELSE Build(results)

ExecutorInv == RunsInv /\ ResultsInv /\ OutputInv

LEMMA LogsAreLines == Logs \subseteq Seq(Lines) /\ ComparedLogs \subseteq Seq(Lines)
<1> DEFINE Unsigned ==
             [sign : {"none"}, kind : STRING, ignored : BOOLEAN, text : STRING, value : STRING]
<1>1. Unsigned \subseteq Lines
  <2>1. STRING \subseteq Texts
    BY DEF Texts
  <2> QED BY <2>1 DEF Lines
<1>2. \A log \in Logs \cup ComparedLogs : log \in Seq(Unsigned)
  BY LogsAssumption
<1> HIDE DEF Unsigned
<1>3. \A s \in Seq(Unsigned) : s \in Seq(Lines)
  BY <1>1, SeqMonotonic
<1> QED BY <1>2, <1>3

(* The runs of a configuration.                                            *)
LEMMA ConfigRuns ==
  ASSUME NEW config \in Configs
  PROVE  LET r == ToRunConfigs(config)
         IN  /\ r \in Seq(Runs) /\ r # << >>
             /\ \/ Len(r) = 1 /\ Len(r[1]) = 2
                \/ \A n \in DOMAIN r : Len(r[n]) = 1
<1> DEFINE one == <<"V1", "V2Optimization">>
           v1 == <<"V1">>
           opt == <<"V2Optimization">>
           no == <<"V2NoOptimization">>
           simp == <<"V2OptNoSimp">>
<1>1. one \in Runs /\ Len(one) = 2
  BY DEF Runs, Compilers
<1>6. \A compiler \in Compilers : <<compiler>> \in Runs /\ Len(<<compiler>>) = 1
  BY DEF Runs
<1>7. /\ v1 \in Runs /\ opt \in Runs /\ no \in Runs /\ simp \in Runs
      /\ Len(v1) = 1 /\ Len(opt) = 1 /\ Len(no) = 1 /\ Len(simp) = 1
  BY <1>6 DEF Compilers
<1>2. /\ config = "V1V2Comparison" => ToRunConfigs(config) = <<one>>
      /\ config = "V2OptNoOpt" => ToRunConfigs(config) = <<opt, no>>
      /\ config = "All" => ToRunConfigs(config) = <<v1, opt, no, simp>>
  BY DEF ToRunConfigs
<1> HIDE DEF one, v1, opt, no, simp
<1>3. CASE config = "V1V2Comparison"
  <2>1. <<one>> \in Seq(Runs) /\ <<one>> # << >> /\ Len(<<one>>) = 1 /\ <<one>>[1] = one
    BY <1>1
  <2> QED BY <1>1, <1>2, <1>3, <2>1
<1>4. CASE config = "V2OptNoOpt"
  <2>1. /\ <<opt, no>> \in Seq(Runs) /\ <<opt, no>> # << >>
        /\ \A n \in DOMAIN <<opt, no>> : Len(<<opt, no>>[n]) = 1
    BY <1>7
  <2> QED BY <1>2, <1>4, <2>1
<1>5. CASE config = "All"
  <2> DEFINE all == <<v1, opt, no, simp>>
  <2>1. /\ all \in Seq(Runs) /\ Len(all) = 4
        /\ all[1] = v1 /\ all[2] = opt /\ all[3] = no /\ all[4] = simp
    BY <1>7
  <2> HIDE DEF all
  <2>2. all # << >> /\ DOMAIN all = 1 .. 4
    BY <2>1
  <2>3. \A n \in 1 .. 4 : n = 1 \/ n = 2 \/ n = 3 \/ n = 4
    OBVIOUS
  <2>4. \A n \in DOMAIN all : Len(all[n]) = 1
    BY <1>7, <2>1, <2>2, <2>3
  <2>5. ToRunConfigs(config) = all
    BY <1>2, <1>5 DEF all
  <2> QED BY <2>1, <2>2, <2>4, <2>5
<1> QED BY <1>3, <1>4, <1>5 DEF Configs

LEMMA RequestedRuns ==
  ASSUME NEW requested \in Requests
  PROVE  \E config \in Configs : InputRuns(requested) = ToRunConfigs(config)
<1> DEFINE runsOf == [n \in DOMAIN requested |-> ToRunConfigs(requested[n])]
           default == ToRunConfigs("V1V2Comparison")
<1>1. requested \in Seq(Configs) /\ Len(requested) \in Nat /\ Len(requested) <= 1
  BY ExecutorAssumption
<1>2. default \in Seq(Runs)
  BY ConfigRuns DEF Configs
<1>3. CASE requested = << >>
  <2>1. runsOf = << >>
    BY <1>3
  <2>2. FlattenSeq(runsOf) = << >>
    BY <2>1 DEF FlattenSeq
  <2> HIDE DEF default
  <2>3. << >> \o default = default
    BY <1>2, ConcatEmptySeq
  <2>4. InputRuns(requested) = default
    BY <1>3, <2>2, <2>3 DEF InputRuns, default
  <2> QED BY <2>4 DEF Configs, default
<1>4. CASE requested # << >>
  <2>1. Len(requested) = 1 /\ requested[1] \in Configs
    <3>1. Len(requested) \in Nat \ {0}
      BY <1>1, <1>4, EmptySeq
    <3>2. Len(requested) = 1
      BY <1>1, <3>1
    <3> QED BY <1>1, <3>2
  <2> DEFINE its == ToRunConfigs(requested[1])
  <2>2. its \in Seq(Runs)
    BY <2>1, ConfigRuns
  <2>3. runsOf = <<its>>
    BY <1>1, <2>1
  <2>4. FlattenSeq(runsOf) = its
    BY <2>3, FlattenOne
  <2> HIDE DEF its, runsOf
  <2>5. its \o << >> = its
    BY <2>2, ConcatEmptySeq
  <2>6. InputRuns(requested) = its
    BY <1>4, <2>4, <2>5 DEF InputRuns, runsOf
  <2> QED BY <2>1, <2>6 DEF its
<1> QED BY <1>3, <1>4

-----------------------------------------------------------------------------
SameLine(l, m) ==
  l.kind = m.kind /\ l.text = m.text /\ l.value = m.value /\ l.ignored = m.ignored

(* Of the lines of one side those that are not blank.                      *)
LEMMA SideOf ==
  ASSUME NEW d \in Seq(Lines), NEW sign, NEW L \in SUBSET DOMAIN d,
         \A k \in DOMAIN d : k \in L <=> d[k].sign \in {sign, "="}
  PROVE  Side(d, sign) = WithoutBlanks(Picked(d, L))
<1> DEFINE part == Picked(d, L)
           K == {k \in L : ~IsBlank(d[k])}
           J == {k \in DOMAIN part : ~IsBlank(part[k])}
<1>1. /\ DOMAIN part = 1 .. Cardinality(L)
      /\ \A k \in 1 .. Cardinality(L) : part[k] = d[Nth(L, k)] /\ Nth(L, k) \in L
  BY PickedFrom
<1> HIDE DEF part
<1>2. /\ J \in SUBSET (1 .. Cardinality(L)) /\ K \in SUBSET L
      /\ \A k \in 1 .. Cardinality(L) : k \in J <=> Nth(L, k) \in K
  BY <1>1
<1>3. {k \in DOMAIN d : ~IsBlank(d[k]) /\ d[k].sign \in {sign, "="}} = K
  OBVIOUS
<1>4. Side(d, sign) = Picked(d, K)
  BY <1>3 DEF Side
<1>5. WithoutBlanks(part) = Picked(part, J)
  BY DEF WithoutBlanks
<1> HIDE DEF J, K
<1>6. Picked(part, J) = Picked(d, K)
  BY <1>2, PickedPicked DEF part
<1> QED BY <1>4, <1>5, <1>6 DEF part

(* Whichever way a diff is drawn, its sides are the logs, less blank lines.*)
LEMMA SidesOfDiff ==
  ASSUME NEW a \in Seq(Lines), NEW b \in Seq(Lines), NEW d \in Diffs(a, b)
  PROVE  /\ d \in Seq(Lines)
         /\ Side(d, "-") \in Seq(Lines) /\ Alike(Side(d, "-"), WithoutBlanks(a))
         /\ Side(d, "+") \in Seq(Lines) /\ Alike(Side(d, "+"), WithoutBlanks(b))
         /\ \A k \in DOMAIN d : d[k].ignored =>
              (\E i \in DOMAIN a : a[i].ignored) \/ (\E i \in DOMAIN b : b[i].ignored)
<1> DEFINE Signs == {"-", "+", "="}
<1>1. PICK signs \in Scripts(a, b) : d = DiffOf(a, b, signs)
  BY DEF Diffs
<1>2. PICK n \in Nat : signs \in [1 .. n -> Signs]
  <2>1. PICK m \in Len(a) .. Len(a) + Len(b) : signs \in [1 .. m -> Signs]
    BY DEF Scripts
  <2>2. Len(a) \in Nat /\ Len(b) \in Nat
    OBVIOUS
  <2> QED BY <2>1, <2>2
<1> DEFINE L == From(signs, "-")
           R == From(signs, "+")
<1>3. /\ L \in SUBSET (1 .. n) /\ R \in SUBSET (1 .. n)
      /\ \A k \in 1 .. n : (k \in L <=> signs[k] # "+") /\ (k \in R <=> signs[k] # "-")
  BY <1>2 DEF From
<1>4. /\ Cardinality(L) = Len(a) /\ Cardinality(R) = Len(b)
      /\ \A k \in 1 .. n : signs[k] = "=" => a[Rank(L, k)] = b[Rank(R, k)]
  BY <1>2 DEF Scripts
<1> HIDE DEF L, R
<1>5. /\ \A k \in L : Rank(L, k) \in 1 .. Len(a)
      /\ \A k \in R : Rank(R, k) \in 1 .. Len(b)
  BY <1>3, <1>4, Ranks
<1>6. /\ DOMAIN d = 1 .. n
      /\ \A k \in L : d[k] = [a[Rank(L, k)] EXCEPT !.sign = signs[k]]
      /\ \A k \in R : d[k] = [b[Rank(R, k)] EXCEPT !.sign = signs[k]]
  <2>1. d = [k \in 1 .. n |->
               [(IF signs[k] = "+" THEN b[Rank(R, k)] ELSE a[Rank(L, k)])
                  EXCEPT !.sign = signs[k]]]
    BY <1>1, <1>2 DEF DiffOf, L, R
  <2>2. \A k \in L : k \in 1 .. n /\ signs[k] # "+"
    BY <1>3
  <2>3. \A k \in R : k \in 1 .. n /\ signs[k] \in {"+", "="}
    BY <1>2, <1>3
  <2> QED BY <1>4, <2>1, <2>2, <2>3
<1>7. ASSUME NEW k \in 1 .. n, NEW l \in Lines, d[k] = [l EXCEPT !.sign = signs[k]]
      PROVE  /\ d[k] \in Lines /\ d[k].sign = signs[k]
             /\ SameLine(d[k], l)
  BY <1>2, <1>7 DEF Lines, SameLine
<1>8. ASSUME NEW k \in L
      PROVE  LET l == a[Rank(L, k)]
             IN  /\ l \in Lines /\ d[k] \in Lines /\ d[k].sign = signs[k]
                 /\ SameLine(d[k], l)
  <2>1. k \in 1 .. n /\ a[Rank(L, k)] \in Lines
    BY <1>3, <1>5
  <2> QED BY <1>6, <1>7, <2>1
<1>9. ASSUME NEW k \in R
      PROVE  LET l == b[Rank(R, k)]
             IN  /\ l \in Lines /\ d[k] \in Lines /\ d[k].sign = signs[k]
                 /\ SameLine(d[k], l)
  <2>1. k \in 1 .. n /\ b[Rank(R, k)] \in Lines
    BY <1>3, <1>5
  <2> QED BY <1>6, <1>7, <2>1
<1>10. \A k \in 1 .. n : k \in L \/ k \in R
  BY <1>3
<1>11. d \in Seq(Lines)
  <2>1. d = [k \in 1 .. n |-> d[k]]
    BY <1>1, <1>2 DEF DiffOf
  <2>2. \A k \in 1 .. n : d[k] \in Lines
    BY <1>8, <1>9, <1>10
  <2>3. d \in [1 .. n -> Lines]
    BY <2>1, <2>2
  <2> QED BY <2>3, SeqDef
<1>13. L \in SUBSET DOMAIN d /\ R \in SUBSET DOMAIN d
  BY <1>3, <1>6
<1>12. /\ Side(d, "-") = WithoutBlanks(Picked(d, L))
       /\ Side(d, "+") = WithoutBlanks(Picked(d, R))
  <2>1. \A k \in 1 .. n : d[k].sign = signs[k] /\ signs[k] \in Signs
    BY <1>2, <1>8, <1>9, <1>10
  <2>2. /\ \A k \in DOMAIN d : k \in L <=> d[k].sign \in {"-", "="}
        /\ \A k \in DOMAIN d : k \in R <=> d[k].sign \in {"+", "="}
    BY <2>1, <1>3, <1>6
  <2> QED BY <2>2, <1>11, <1>13, SideOf
<1>14. Picked(d, L) \in Seq(Lines) /\ Alike(Picked(d, L), a)
  <2>1. /\ Picked(d, L) \in Seq(Lines) /\ Len(Picked(d, L)) = Len(a)
        /\ DOMAIN Picked(d, L) = 1 .. Len(a)
        /\ \A k \in 1 .. Len(a) : Picked(d, L)[k] = d[Nth(L, k)] /\ Nth(L, k) \in L
    BY <1>4, <1>11, <1>13, PickedFrom
  <2>2. \A k \in 1 .. Len(a) : Rank(L, Nth(L, k)) = k
    BY <1>3, <1>4, Ranks
  <2>3. \A k \in 1 .. Len(a) :
          LET l == Picked(d, L)[k]
          IN  l.kind = a[k].kind /\ l.text = a[k].text /\ l.value = a[k].value
    BY <1>8, <2>1, <2>2 DEF SameLine
  <2> QED BY <2>1, <2>3 DEF Alike
<1>15. Picked(d, R) \in Seq(Lines) /\ Alike(Picked(d, R), b)
  <2>1. /\ Picked(d, R) \in Seq(Lines) /\ Len(Picked(d, R)) = Len(b)
        /\ DOMAIN Picked(d, R) = 1 .. Len(b)
        /\ \A k \in 1 .. Len(b) : Picked(d, R)[k] = d[Nth(R, k)] /\ Nth(R, k) \in R
    BY <1>4, <1>11, <1>13, PickedFrom
  <2>2. \A k \in 1 .. Len(b) : Rank(R, Nth(R, k)) = k
    BY <1>3, <1>4, Ranks
  <2>3. \A k \in 1 .. Len(b) :
          LET l == Picked(d, R)[k]
          IN  l.kind = b[k].kind /\ l.text = b[k].text /\ l.value = b[k].value
    BY <1>9, <2>1, <2>2 DEF SameLine
  <2> QED BY <2>1, <2>3 DEF Alike
<1>16. \A k \in DOMAIN d : d[k].ignored =>
         (\E i \in DOMAIN a : a[i].ignored) \/ (\E i \in DOMAIN b : b[i].ignored)
  <2> SUFFICES ASSUME NEW k \in 1 .. n, d[k].ignored
               PROVE  (\E i \in DOMAIN a : a[i].ignored) \/ (\E i \in DOMAIN b : b[i].ignored)
    BY <1>6
  <2>1. CASE k \in L
    BY <2>1, <1>5, <1>8 DEF SameLine
  <2>2. CASE k \in R
    BY <2>2, <1>5, <1>9 DEF SameLine
  <2> QED BY <1>10, <2>1, <2>2
<1>17. /\ Side(d, "-") \in Seq(Lines) /\ Alike(Side(d, "-"), WithoutBlanks(a))
       /\ Side(d, "+") \in Seq(Lines) /\ Alike(Side(d, "+"), WithoutBlanks(b))
  BY <1>12, <1>14, <1>15, AlikeWithoutBlanks
<1> QED BY <1>11, <1>16, <1>17

-----------------------------------------------------------------------------
(* The runs of an input are one comparison or plain runs only.             *)
LEMMA InputIsRuns ==
  ASSUME NEW requested \in Requests
  PROVE  LET r == InputRuns(requested)
         IN  /\ r \in Seq(Runs) /\ r # << >>
             /\ \/ Len(r) = 1 /\ Len(r[1]) = 2
                \/ \A n \in DOMAIN r : Len(r[n]) = 1
<1>1. PICK config \in Configs : InputRuns(requested) = ToRunConfigs(config)
  BY RequestedRuns
<1> QED BY <1>1, ConfigRuns

LEMMA InitRuns == Init => ExecutorInv
<1> SUFFICES ASSUME Init PROVE ExecutorInv
  OBVIOUS
<1>1. RunsInv
  BY InputIsRuns DEF RunsInv, Init
<1>2. ResultsInv
  <2>1. /\ printed = << >> /\ results = << >> /\ todo = runs /\ runs \in Seq(Runs)
        /\ Len(printed) = 0 /\ Len(results) = 0
    BY <1>1 DEF Init, RunsInv
  <2> QED BY <2>1 DEF ResultsInv
<1>3. OutputInv
  BY DEF Init, OutputInv
<1> QED BY <1>1, <1>2, <1>3 DEF ExecutorInv

LEMMA NextInputRuns == ASSUME NextInput PROVE ExecutorInv'
<1>1. RunsInv'
  BY InputIsRuns DEF RunsInv, NextInput
<1>2. ResultsInv'
  <2>1. /\ printed' = << >> /\ results' = << >> /\ todo' = runs' /\ runs' \in Seq(Runs)
        /\ Len(printed') = 0 /\ Len(results') = 0
    BY <1>1 DEF NextInput, RunsInv
  <2> QED BY <2>1 DEF ResultsInv
<1>3. OutputInv'
  BY DEF NextInput, OutputInv
<1> QED BY <1>1, <1>2, <1>3 DEF ExecutorInv

(* The outcome of a plain run, and of a comparison.                        *)
PlainOutcome(logs, outcome) ==
  \E a \in Logs : logs = <<a>> /\ outcome = [ok |-> a = << >>, diff |-> FALSE, log |-> a]

ComparedOutcome(logs, outcome) ==
  \E a, b \in ComparedLogs :
    /\ logs = <<a, b>>
    /\ \/ a = b /\ outcome = [ok |-> TRUE, diff |-> TRUE, log |-> << >>]
       \/ a # b /\ \E d \in Diffs(a, b) : outcome = [ok |-> FALSE, diff |-> TRUE, log |-> d]

(* What one run prints, and what its outcome is.                           *)
LEMMA OutcomeOf ==
  ASSUME NEW run, NEW logs, Logged(run, logs), NEW outcome \in Outcomes(run, logs)
  PROVE  /\ logs \in PrintedLogs /\ outcome \in RunOutcomes
         /\ Len(run) = 1 => PlainOutcome(logs, outcome)
         /\ Len(run) = 2 => ComparedOutcome(logs, outcome)
<1>1. CASE Len(run) = 1
  <2>1. PICK a \in Logs : logs = <<a>>
    BY <1>1 DEF Logged
  <2>2. a \in Seq(Lines) /\ logs[1] = a
    BY <2>1, LogsAreLines
  <2>3. outcome = [ok |-> a = << >>, diff |-> FALSE, log |-> a]
    BY <1>1, <2>2 DEF Outcomes, IsComparison
  <2>4. (a = << >>) \in BOOLEAN
    OBVIOUS
  <2>5. outcome \in RunOutcomes
    BY <2>2, <2>3, <2>4 DEF RunOutcomes
  <2>6. logs \in PrintedLogs
    BY <2>1, <2>2 DEF PrintedLogs
  <2>7. PlainOutcome(logs, outcome)
    BY <2>1, <2>3 DEF PlainOutcome
  <2> QED BY <1>1, <2>5, <2>6, <2>7
<1>2. CASE Len(run) = 2
  <2>1. PICK a \in ComparedLogs, b \in ComparedLogs : logs = <<a, b>>
    BY <1>2 DEF Logged
  <2>2. a \in Seq(Lines) /\ b \in Seq(Lines) /\ logs[1] = a /\ logs[2] = b
    BY <2>1, LogsAreLines
  <2>3. logs \in PrintedLogs
    BY <2>1, <2>2 DEF PrintedLogs
  <2>4. CASE a = b
    <3>1. outcome = [ok |-> TRUE, diff |-> TRUE, log |-> << >>]
      BY <1>2, <2>2, <2>4 DEF Outcomes, IsComparison
    <3>2. outcome \in RunOutcomes
      BY <3>1 DEF RunOutcomes
    <3>3. ComparedOutcome(logs, outcome)
      BY <2>1, <2>4, <3>1 DEF ComparedOutcome
    <3> QED BY <1>2, <2>3, <3>2, <3>3
  <2>5. CASE a # b
    <3>1. PICK d \in Diffs(a, b) : outcome = [ok |-> FALSE, diff |-> TRUE, log |-> d]
      BY <1>2, <2>2, <2>5 DEF Outcomes, IsComparison
    <3>2. d \in Seq(Lines)
      BY <2>2, SidesOfDiff
    <3>3. outcome \in RunOutcomes
      BY <3>1, <3>2 DEF RunOutcomes
    <3>4. ComparedOutcome(logs, outcome)
      BY <2>1, <2>5, <3>1 DEF ComparedOutcome
    <3> QED BY <1>2, <2>3, <3>3, <3>4
  <2> QED BY <2>4, <2>5
<1> QED BY <1>1, <1>2 DEF Logged

LEMMA RunStep ==
  ASSUME ExecutorInv, NEW logs, Logged(Head(todo), logs), ExecuteRun(logs)
  PROVE  ExecutorInv'
<1>1. /\ todo \in Seq(Runs) /\ printed \in Seq(PrintedLogs) /\ results \in Seq(RunOutcomes)
      /\ Len(printed) = Len(results) /\ Len(printed) + Len(todo) = Len(runs)
      /\ \A n \in 1 .. Len(todo) : todo[n] = runs[Len(printed) + n]
      /\ \A n \in 1 .. Len(printed) :
           Logged(runs[n], printed[n]) /\ results[n] \in Outcomes(runs[n], printed[n])
      /\ RunsInv /\ OutputInv
  BY DEF ExecutorInv, ResultsInv
<1>2. PICK outcome \in Outcomes(Head(todo), logs) : results' = Append(results, outcome)
  BY DEF ExecuteRun
<1>3. /\ todo # << >> /\ printed' = Append(printed, logs) /\ todo' = Tail(todo)
      /\ runs' = runs /\ output' = output
  BY DEF ExecuteRun
<1>4. logs \in PrintedLogs /\ outcome \in RunOutcomes
  BY <1>2, OutcomeOf
<1> DEFINE p == Len(printed)
<1>5. /\ p \in Nat /\ Len(todo) \in Nat /\ Len(todo) > 0
      /\ Head(todo) = runs[p + 1]
  <2>1. Len(todo) \in Nat /\ Len(todo) > 0 /\ Head(todo) = todo[1]
    BY <1>1, <1>3, EmptySeq
  <2> QED BY <1>1, <2>1
<1>6. /\ printed' \in Seq(PrintedLogs) /\ Len(printed') = p + 1 /\ printed'[p + 1] = logs
      /\ \A n \in 1 .. p : printed'[n] = printed[n]
  BY <1>1, <1>3, <1>4, AppendProperties
<1>7. /\ results' \in Seq(RunOutcomes) /\ Len(results') = p + 1 /\ results'[p + 1] = outcome
      /\ \A n \in 1 .. p : results'[n] = results[n]
  BY <1>1, <1>2, <1>4, AppendProperties
<1>8. /\ todo' \in Seq(Runs) /\ Len(todo') = Len(todo) - 1
      /\ \A n \in 1 .. Len(todo) - 1 : todo'[n] = todo[n + 1]
  BY <1>1, <1>3, HeadTailProperties
<1>9. ResultsInv'
  <2>1. \A n \in 1 .. Len(todo') : todo'[n] = runs[Len(printed') + n]
    <3> SUFFICES ASSUME NEW n \in 1 .. Len(todo) - 1 PROVE todo'[n] = runs[(p + 1) + n]
      BY <1>6, <1>8
    <3>1. n + 1 \in 1 .. Len(todo) /\ p + (n + 1) = (p + 1) + n
      BY <1>5
    <3> QED BY <1>1, <1>8, <3>1
  <2>2. Len(printed') + Len(todo') = Len(runs)
    <3>1. /\ Len(printed') = p + 1 /\ Len(todo') = Len(todo) - 1
          /\ p + Len(todo) = Len(runs) /\ p \in Nat /\ Len(todo) \in Nat
      BY <1>1, <1>5, <1>6, <1>8
    <3> HIDE DEF p
    <3> QED BY <3>1
  <2>3. \A n \in 1 .. Len(printed') :
          Logged(runs[n], printed'[n]) /\ results'[n] \in Outcomes(runs[n], printed'[n])
    <3> SUFFICES ASSUME NEW n \in 1 .. p + 1
                 PROVE  Logged(runs[n], printed'[n])
                        /\ results'[n] \in Outcomes(runs[n], printed'[n])
      BY <1>6
    <3>1. CASE n = p + 1
      BY <1>2, <1>5, <1>6, <1>7, <3>1
    <3>2. CASE n # p + 1
      <4>1. n \in 1 .. p
        BY <1>5, <3>2
      <4> QED BY <1>1, <1>6, <1>7, <4>1
    <3> QED BY <3>1, <3>2
  <2> QED BY <1>3, <1>6, <1>7, <1>8, <2>1, <2>2, <2>3 DEF ResultsInv
<1>10. RunsInv'
  BY <1>1, <1>3 DEF RunsInv
<1>11. OutputInv'
  BY <1>1, <1>3 DEF OutputInv
<1> QED BY <1>9, <1>10, <1>11 DEF ExecutorInv

(* The run that is next is one of the input's.                             *)
LEMMA NextIsARun ==
  ASSUME ExecutorInv, todo # << >>
  PROVE  \E n \in DOMAIN runs : Head(todo) = runs[n]
<1>1. /\ todo \in Seq(Runs) /\ printed \in Seq(PrintedLogs) /\ runs \in Seq(Runs)
      /\ Len(printed) + Len(todo) = Len(runs)
      /\ \A n \in 1 .. Len(todo) : todo[n] = runs[Len(printed) + n]
  BY DEF ExecutorInv, ResultsInv, RunsInv
<1>2. Len(printed) \in Nat /\ Len(todo) \in Nat /\ Len(todo) > 0 /\ Head(todo) = todo[1]
  BY <1>1, EmptySeq
<1>3. Len(printed) + 1 \in 1 .. Len(runs) /\ DOMAIN runs = 1 .. Len(runs)
  BY <1>1, <1>2
<1> QED BY <1>1, <1>2, <1>3

(* Before build() runs, every run was executed and logged.                 *)
THEOREM RunsAreLogged == Spec => []ExecutorInv
<1>1. ExecutorInv /\ [Next]_vars => ExecutorInv'
  <2> SUFFICES ASSUME ExecutorInv, [Next]_vars PROVE ExecutorInv'
    OBVIOUS
  <2>1. ASSUME NEW a \in Logs, todo # << >>, ~IsComparison(Head(todo)), ExecuteRun(<<a>>)
        PROVE  ExecutorInv'
    <3>1. Len(Head(todo)) = 1
      <4>1. \A n \in DOMAIN runs : Len(runs[n]) = 1 \/ Len(runs[n]) = 2
        BY DEF ExecutorInv, RunsInv
      <4>2. \E n \in DOMAIN runs : Head(todo) = runs[n]
        BY <2>1, NextIsARun
      <4> QED BY <2>1, <4>1, <4>2 DEF IsComparison
    <3> QED BY <2>1, <3>1, RunStep DEF Logged
  <2>2. ASSUME NEW a \in ComparedLogs, NEW b \in ComparedLogs,
               todo # << >>, IsComparison(Head(todo)), ExecuteRun(<<a, b>>)
        PROVE  ExecutorInv'
    BY <2>2, RunStep DEF Logged, IsComparison
  <2>3. CASE BuildResult
    BY <2>3 DEF BuildResult, ExecutorInv, RunsInv, ResultsInv, OutputInv
  <2>4. CASE UNCHANGED vars
    BY <2>4 DEF vars, ExecutorInv, RunsInv, ResultsInv, OutputInv
  <2>5. CASE NextInput
    BY <2>5, NextInputRuns
  <2> QED BY <2>1, <2>2, <2>3, <2>4, <2>5 DEF Next, Returned
<1> QED BY <1>1, InitRuns, PTL DEF Spec

-----------------------------------------------------------------------------
(***************************************************************************)
(* The chunks of one log.                                                  *)
(***************************************************************************)

Chunks == [kind : Texts, canonical : Texts]

Kept(lines) == {i \in DOMAIN lines : lines[i].kind \notin {"Cont", "Warning", "Task"}}

(* log_to_chunck as a function of the lines that are parsed.               *)
LEMMA ChunksOfLines ==
  ASSUME NEW log \in Seq(Lines), Parses(log)
  PROVE  LET lines == ParsedLines(log)
             kept  == Kept(lines)
         IN  /\ lines \in Seq(Lines)
             /\ \A i \in DOMAIN lines : lines[i].kind # "Differ"
             /\ kept \in SUBSET (1 .. Len(lines)) /\ Len(lines) \in Nat
             /\ Cardinality(kept) \in Nat
             /\ LogToChunks(log) \in Seq(Chunks)
             /\ Len(LogToChunks(log)) = Cardinality(kept)
             /\ \A k \in 1 .. Cardinality(kept) :
                  LET i == Nth(kept, k)
                  IN  /\ i \in kept
                      /\ LogToChunks(log)[k] =
                           [kind |-> lines[i].kind, canonical |-> Canonical(lines, i)]
             /\ \A i \in kept : UsesSecondLine(lines[i].kind) =>
                  i + 1 \in DOMAIN lines /\ lines[i + 1].kind = "Cont"
<1> DEFINE I == {i \in DOMAIN log : log[i].kind # "Differ"}
           lines == ParsedLines(log)
           kept == Kept(lines)
           count == Cardinality(kept)
           chunks == LogToChunks(log)
<1>1. lines = Picked(log, I) /\ I \in SUBSET DOMAIN log
  BY DEF ParsedLines
<1>0. kept = {i \in DOMAIN lines : lines[i].kind \notin {"Cont", "Warning", "Task"}}
  BY DEF Kept
<1> HIDE DEF lines, kept
<1>2. /\ lines \in Seq(Lines) /\ DOMAIN lines = 1 .. Cardinality(I)
      /\ \A k \in 1 .. Cardinality(I) : lines[k] = log[Nth(I, k)] /\ Nth(I, k) \in I
  <2> HIDE DEF I
  <2> QED BY <1>1, PickedFrom
<1>3. \A i \in DOMAIN lines : lines[i].kind # "Differ"
  BY <1>2
<1>4. kept \in SUBSET (1 .. Len(lines)) /\ Len(lines) \in Nat
  <2>1. lines \in Seq(Lines)
    BY <1>2
  <2>2. Len(lines) \in Nat /\ DOMAIN lines = 1 .. Len(lines)
    BY <2>1
  <2> QED BY <1>0, <2>2
<1>5. count \in Nat /\ \A k \in 1 .. count : Nth(kept, k) \in kept
  BY <1>4, Ranks
<1>6. \A i \in kept : UsesSecondLine(lines[i].kind) =>
        i + 1 \in DOMAIN lines /\ lines[i + 1].kind = "Cont"
  BY <1>0 DEF Parses, lines
<1>7. chunks = [k \in 1 .. count |->
                  [kind |-> lines[Nth(kept, k)].kind,
                   canonical |-> Canonical(lines, Nth(kept, k))]]
  BY <1>0 DEF LogToChunks, lines
<1> HIDE DEF count, chunks
<1>8. ASSUME NEW k \in 1 .. count PROVE chunks[k] \in Chunks
  <2> DEFINE i == Nth(kept, k)
  <2>1. i \in DOMAIN lines /\ (UsesSecondLine(lines[i].kind) => i + 1 \in DOMAIN lines)
    BY <1>0, <1>5, <1>6
  <2>2. \A j \in DOMAIN lines :
          lines[j].kind \in Texts /\ lines[j].text \in Texts /\ lines[j].value \in Texts
    <3>1. lines \in Seq(Lines)
      BY <1>2
    <3>2. \A j \in DOMAIN lines : lines[j] \in Lines
      BY <3>1
    <3> QED BY <3>2 DEF Lines
  <2>3. chunks[k] = [kind |-> lines[i].kind, canonical |-> Canonical(lines, i)]
    BY <1>7
  <2> HIDE DEF i
  <2>4. Canonical(lines, i) \in Texts
    BY <2>1, <2>2 DEF Canonical, UsesSecondLine
  <2> QED BY <2>1, <2>2, <2>3, <2>4 DEF Chunks
<1>9. chunks \in [1 .. count -> Chunks]
  <2>1. chunks = [k \in 1 .. count |-> chunks[k]]
    BY <1>7
  <2> QED BY <1>8, <2>1
<1>10. chunks \in Seq(Chunks) /\ Len(chunks) = count
  BY <1>5, <1>9, SeqDef
<1> QED BY <1>2, <1>3, <1>4, <1>5, <1>6, <1>7, <1>10 DEF count, chunks, lines, kept

(* A chunk has the kind of a line, and an error line makes a chunk.        *)
LEMMA ChunkKinds ==
  ASSUME NEW log \in Seq(Lines), Parses(log)
  PROVE  /\ LogToChunks(log) \in Seq(Chunks)
         /\ \A k \in DOMAIN LogToChunks(log) :
              \E i \in DOMAIN log : log[i].kind = LogToChunks(log)[k].kind
         /\ \A i \in DOMAIN log : log[i].kind \in ErrorKinds =>
              \E k \in DOMAIN LogToChunks(log) : LogToChunks(log)[k].kind = log[i].kind
<1> DEFINE I == {i \in DOMAIN log : log[i].kind # "Differ"}
           lines == ParsedLines(log)
           kept == Kept(lines)
           chunks == LogToChunks(log)
<1>1. I \in SUBSET DOMAIN log /\ lines = Picked(log, I)
  BY DEF ParsedLines
<1>2. /\ DOMAIN lines = 1 .. Cardinality(I)
      /\ \A k \in 1 .. Cardinality(I) : lines[k] = log[Nth(I, k)] /\ Nth(I, k) \in I
      /\ \A i \in I : Rank(I, i) \in 1 .. Cardinality(I) /\ lines[Rank(I, i)] = log[i]
  <2> HIDE DEF I, lines
  <2> QED BY <1>1, PickedFrom
<1> HIDE DEF lines
<1>3. /\ kept \in SUBSET (1 .. Len(lines)) /\ Len(lines) \in Nat
      /\ chunks \in Seq(Chunks) /\ Len(chunks) = Cardinality(kept)
      /\ \A k \in 1 .. Cardinality(kept) :
           Nth(kept, k) \in kept /\ chunks[k].kind = lines[Nth(kept, k)].kind
  <2>1. /\ kept \in SUBSET (1 .. Len(lines)) /\ Len(lines) \in Nat
        /\ chunks \in Seq(Chunks) /\ Len(chunks) = Cardinality(kept)
        /\ \A k \in 1 .. Cardinality(kept) :
             LET i == Nth(kept, k)
             IN  /\ i \in kept
                 /\ chunks[k] = [kind |-> lines[i].kind, canonical |-> Canonical(lines, i)]
    BY ChunksOfLines DEF lines
  <2> HIDE DEF kept, chunks
  <2> QED BY <2>1
<1> HIDE DEF chunks, kept
<1>4. \A k \in DOMAIN chunks : \E i \in DOMAIN log : log[i].kind = chunks[k].kind
  <2> SUFFICES ASSUME NEW k \in DOMAIN chunks PROVE \E i \in DOMAIN log : log[i].kind = chunks[k].kind
    OBVIOUS
  <2> DEFINE h == Nth(kept, k)
  <2>1. h \in DOMAIN lines /\ chunks[k].kind = lines[h].kind
    <3>1. k \in 1 .. Cardinality(kept)
      BY <1>3
    <3>2. kept \subseteq DOMAIN lines
      BY DEF kept, Kept
    <3> QED BY <1>3, <3>1, <3>2
  <2> HIDE DEF h
  <2>2. lines[h] = log[Nth(I, h)] /\ Nth(I, h) \in DOMAIN log
    BY <1>2, <2>1
  <2> QED BY <2>1, <2>2
<1>5. \A i \in DOMAIN log : log[i].kind \in ErrorKinds =>
        \E k \in DOMAIN chunks : chunks[k].kind = log[i].kind
  <2> SUFFICES ASSUME NEW i \in DOMAIN log, log[i].kind \in ErrorKinds
               PROVE  \E k \in DOMAIN chunks : chunks[k].kind = log[i].kind
    OBVIOUS
  <2> DEFINE h == Rank(I, i)
  <2>1. i \in I
    BY DEF ErrorKinds
  <2>2. h \in DOMAIN lines /\ lines[h] = log[i]
    BY <1>2, <2>1
  <2> HIDE DEF h
  <2>3. h \in kept
    BY <2>2 DEF kept, Kept, ErrorKinds
  <2>4. Rank(kept, h) \in 1 .. Cardinality(kept) /\ Nth(kept, Rank(kept, h)) = h
    BY <1>3, <2>3, Ranks, NthOfRank
  <2>5. chunks[Rank(kept, h)].kind = lines[h].kind /\ Rank(kept, h) \in DOMAIN chunks
    BY <1>3, <2>4
  <2> QED BY <2>2, <2>5
<1> QED BY <1>3, <1>4, <1>5 DEF chunks

(* The log of a run that ended Ok.                                         *)
LEMMA SuccessLog ==
  /\ <<SuccessLine>> \in Seq(Lines)
  /\ Parses(<<SuccessLine>>)
  /\ LogToChunks(<<SuccessLine>>) = <<SuccessChunk>>
<1> DEFINE log == <<SuccessLine>>
           lines == ParsedLines(log)
           kept == Kept(lines)
<1>1. SuccessLine \in Lines /\ SuccessLine.kind = "Success" /\ SuccessLine.text = "Success"
  BY DEF SuccessLine, Lines, Texts, NoValue
<1> HIDE DEF log
<1>2. log \in Seq(Lines) /\ DOMAIN log = {1} /\ log[1] = SuccessLine /\ Len(log) = 1
  BY <1>1 DEF log
<1>3. Cardinality({1}) = 1 /\ Nth({1}, 1) = 1
  <2>1. Cardinality({1}) = 1
    BY FS_Singleton
  <2>2. {1} \in SUBSET (1 .. 1)
    OBVIOUS
  <2>3. Nth({1}, 1) \in {1}
    BY <2>1, <2>2, Ranks
  <2> QED BY <2>1, <2>3
<1>4. lines = [k \in 1 .. 1 |-> SuccessLine]
  <2>1. {i \in DOMAIN log : log[i].kind # "Differ"} = {1}
    BY <1>1, <1>2
  <2>2. lines = Picked(log, {1})
    BY <2>1 DEF ParsedLines
  <2>3. Picked(log, {1}) = [k \in 1 .. 1 |-> log[Nth({1}, k)]]
    BY <1>3 DEF Picked
  <2>4. \A k \in 1 .. 1 : k = 1
    OBVIOUS
  <2> HIDE DEF lines
  <2> QED BY <1>2, <1>3, <2>2, <2>3, <2>4
<1> HIDE DEF lines
<1>5. DOMAIN lines = {1} /\ lines[1].kind = "Success" /\ lines[1].text = "Success"
  BY <1>1, <1>4
<1>6. Parses(log)
  BY <1>5 DEF Parses, lines, UsesSecondLine
<1>7. kept = {1}
  BY <1>5 DEF Kept
<1>8. LogToChunks(log) \in Seq(Chunks) /\ Len(LogToChunks(log)) = 1
      /\ LogToChunks(log)[1] = SuccessChunk
  <2>1. /\ LogToChunks(log) \in Seq(Chunks) /\ Len(LogToChunks(log)) = Cardinality(kept)
        /\ \A k \in 1 .. Cardinality(kept) :
             LogToChunks(log)[k] =
               [kind |-> lines[Nth(kept, k)].kind, canonical |-> Canonical(lines, Nth(kept, k))]
    BY <1>2, <1>6, ChunksOfLines DEF lines
  <2> HIDE DEF kept
  <2> QED BY <1>3, <1>5, <1>7, <2>1 DEF SuccessChunk, Canonical
<1>9. LogToChunks(log) = <<SuccessChunk>>
  BY <1>8
<1> QED BY <1>2, <1>6, <1>9 DEF log

-----------------------------------------------------------------------------
(***************************************************************************)
(* What a compiler said and the chunks of its log.                         *)
(***************************************************************************)

(* The lines that leave a trace in the chunks are the announcing ones and  *)
(* the details of VM errors and hashes: any other may be left out.         *)
LEMMA HeardChunks ==
  ASSUME NEW log \in Seq(Lines), Parses(log),
         NEW heard \in SUBSET DOMAIN ParsedLines(log),
         \A i \in Kept(ParsedLines(log)) :
           i \in heard /\ (UsesSecondLine(ParsedLines(log)[i].kind) => i + 1 \in heard),
         NEW part, ParsedLines(part) = Picked(ParsedLines(log), heard)
  PROVE  LogToChunks(part) = LogToChunks(log)
<1> DEFINE lines == ParsedLines(log)
           said == Picked(lines, heard)
           kept == Kept(lines)
           R == Kept(said)
           count == Cardinality(heard)
           Chunk(s, i) == [kind |-> s[i].kind, canonical |-> Canonical(s, i)]
<1>2. /\ LogToChunks(log) = [k \in 1 .. Cardinality(kept) |-> Chunk(lines, Nth(kept, k))]
      /\ kept = {i \in DOMAIN lines : lines[i].kind \notin {"Cont", "Warning", "Task"}}
  BY DEF LogToChunks, Kept
<1>3. LogToChunks(part) = [k \in 1 .. Cardinality(R) |-> Chunk(said, Nth(R, k))]
  BY DEF LogToChunks, Kept
<1>4. lines \in Seq(Lines) /\ Len(lines) \in Nat /\ DOMAIN lines = 1 .. Len(lines)
  BY ChunksOfLines
<1>5. /\ heard \in SUBSET DOMAIN lines /\ kept \in SUBSET heard
      /\ \A i \in kept : UsesSecondLine(lines[i].kind) => i + 1 \in heard
  OBVIOUS
<1> HIDE DEF lines, said, kept
<1>6. /\ said \in Seq(Lines) /\ DOMAIN said = 1 .. count
      /\ \A k \in 1 .. count : said[k] = lines[Nth(heard, k)] /\ Nth(heard, k) \in heard
      /\ \A i \in heard : Rank(heard, i) \in 1 .. count /\ said[Rank(heard, i)] = lines[i]
  BY <1>4, <1>5, PickedFrom DEF said
<1>7. /\ \A i \in heard : Nth(heard, Rank(heard, i)) = i
      /\ \A k \in 1 .. count : Rank(heard, Nth(heard, k)) = k
  <2>1. heard \in SUBSET (1 .. Len(lines)) /\ Len(lines) \in Nat
    BY <1>4, <1>5
  <2> QED BY <2>1, Ranks, NthOfRank
<1>9. R = RanksAmong(heard, kept)
  <2>1. \A k \in 1 .. count : k \in R <=> Nth(heard, k) \in kept
    <3>1. R = {k \in 1 .. count : said[k].kind \notin {"Cont", "Warning", "Task"}}
      BY <1>6 DEF Kept
    <3> QED BY <1>2, <1>5, <1>6, <3>1
  <2>2. R \subseteq 1 .. count
    BY <1>6 DEF Kept
  <2> HIDE DEF R, count
  <2>3. \A k \in R : \E i \in kept : k = Rank(heard, i)
    BY <1>7, <2>1, <2>2
  <2>4. \A i \in kept : Rank(heard, i) \in R
    BY <1>5, <1>6, <1>7, <2>1
  <2> QED BY <2>3, <2>4 DEF RanksAmong
<1> HIDE DEF R, count
<1>10. /\ Cardinality(R) = Cardinality(kept)
       /\ \A k \in 1 .. Cardinality(kept) :
            Nth(kept, k) \in kept /\ Nth(R, k) = Rank(heard, Nth(kept, k))
  <2>1. heard \in SUBSET (1 .. Len(lines)) /\ Len(lines) \in Nat
    BY <1>4, <1>5
  <2> QED BY <1>5, <1>9, <2>1, RankOfRanks
<1>11. ASSUME NEW i \in kept PROVE Chunk(said, Rank(heard, i)) = Chunk(lines, i)
  <2> DEFINE r == Rank(heard, i)
  <2>1. said[r] = lines[i]
    BY <1>5, <1>6
  <2>2. ASSUME UsesSecondLine(lines[i].kind) PROVE said[r + 1] = lines[i + 1]
    <3>1. i \in heard /\ i + 1 \in heard
      BY <1>5, <2>2
    <3>2. Rank(heard, i + 1) = Rank(heard, i) + 1
      <4>1. heard \in SUBSET (1 .. Len(lines)) /\ Len(lines) \in Nat
        BY <1>4, <1>5
      <4> QED BY <3>1, <4>1, NextRank
    <3>3. said[Rank(heard, i + 1)] = lines[i + 1]
      BY <1>6, <3>1
    <3> QED BY <3>2, <3>3
  <2> HIDE DEF r
  <2>3. Canonical(said, r) = Canonical(lines, i)
    BY <2>1, <2>2 DEF Canonical, UsesSecondLine
  <2> QED BY <2>1, <2>3 DEF r
<1>12. \A k \in 1 .. Cardinality(kept) : Chunk(said, Nth(R, k)) = Chunk(lines, Nth(kept, k))
  BY <1>10, <1>11
<1> HIDE DEF Chunk
<1> QED BY <1>2, <1>3, <1>10, <1>12

(* Warnings, task headers and what follows an announcing line beyond its   *)
(* detail leave no trace in the chunks.                                    *)
LEMMA SaidChunks ==
  ASSUME NEW log \in Seq(Lines), Parses(log)
  PROVE  LogToChunks(Said(log)) = LogToChunks(log)
<1> DEFINE lines == ParsedLines(log)
           Detail(i) == i > 1 /\ lines[i].kind = "Cont" /\ UsesSecondLine(lines[i - 1].kind)
           heard == {i \in DOMAIN lines :
                       Detail(i) \/ lines[i].kind \notin {"Cont", "Warning", "Task"}}
           said == Picked(lines, heard)
           kept == Kept(lines)
<1>1. Said(log) = said
  BY DEF Said
<1>2. kept = {i \in DOMAIN lines : lines[i].kind \notin {"Cont", "Warning", "Task"}}
  BY DEF Kept
<1>4. /\ lines \in Seq(Lines) /\ Len(lines) \in Nat /\ DOMAIN lines = 1 .. Len(lines)
      /\ \A i \in DOMAIN lines : lines[i].kind # "Differ"
      /\ \A i \in kept : UsesSecondLine(lines[i].kind) =>
           i + 1 \in DOMAIN lines /\ lines[i + 1].kind = "Cont"
  BY ChunksOfLines
<1> HIDE DEF lines
<1>5. /\ heard \in SUBSET DOMAIN lines
      /\ \A i \in kept : i \in heard /\ (UsesSecondLine(lines[i].kind) => i + 1 \in heard)
  <2>1. \A i \in kept : i \in DOMAIN lines
    BY <1>2
  <2>2. ASSUME NEW i \in kept, UsesSecondLine(lines[i].kind) PROVE i + 1 \in heard
    <3>1. i + 1 \in DOMAIN lines /\ lines[i + 1].kind = "Cont" /\ i >= 1 /\ i \in Int
      BY <1>4, <2>1, <2>2
    <3>2. i + 1 > 1 /\ (i + 1) - 1 = i
      BY <3>1
    <3>3. Detail(i + 1)
      BY <2>2, <3>1, <3>2
    <3> HIDE DEF Detail
    <3> QED BY <3>1, <3>3
  <2> HIDE DEF Detail
  <2>3. kept \in SUBSET heard
    BY <1>2
  <2> QED BY <2>2, <2>3
<1> HIDE DEF heard
<1>6. /\ said \in Seq(Lines) /\ DOMAIN said = 1 .. Cardinality(heard)
      /\ \A k \in 1 .. Cardinality(heard) : said[k] = lines[Nth(heard, k)] /\ Nth(heard, k) \in heard
  BY <1>4, <1>5, PickedFrom
<1> HIDE DEF said
<1>7. ParsedLines(said) = said
  <2>1. {i \in DOMAIN said : said[i].kind # "Differ"} = DOMAIN said
    BY <1>4, <1>5, <1>6
  <2> QED BY <1>6, <2>1, PickedAll DEF ParsedLines
<1>8. LogToChunks(said) = LogToChunks(log)
  BY <1>5, <1>7, HeardChunks DEF lines, said, kept
<1> QED BY <1>1, <1>8

(* Blank lines announce nothing.                                           *)
BlanksContinue(log) == \A i \in DOMAIN log : IsBlank(log[i]) => log[i].kind = "Cont"

(* Where no blank line cuts a VM error or a hash from its second line, it  *)
(* makes no difference whether blank lines are dropped.                    *)
LEMMA BlanksLeaveNoTrace ==
  ASSUME NEW log \in Seq(Lines), BlanksContinue(log), DetailsFollow(log),
         Parses(WithoutBlanks(log))
  PROVE  LogToChunks(WithoutBlanks(log)) = LogToChunks(log)
<1> DEFINE lines == ParsedLines(log)
           part == WithoutBlanks(log)
           I == {i \in DOMAIN log : log[i].kind # "Differ"}
           N == {i \in DOMAIN log : ~IsBlank(log[i])}
           K == I \cap N
           heard == {k \in DOMAIN lines : ~IsBlank(lines[k])}
           J == {k \in DOMAIN part : part[k].kind # "Differ"}
<1>1. lines = Picked(log, I) /\ part = Picked(log, N) /\ ParsedLines(part) = Picked(part, J)
  BY DEF ParsedLines, WithoutBlanks
<1>2. I \in SUBSET DOMAIN log /\ N \in SUBSET DOMAIN log /\ K \in SUBSET I /\ K \in SUBSET N
  OBVIOUS
<1>3. \A i \in DOMAIN log : (i \in N <=> ~IsBlank(log[i])) /\ (i \in I <=> log[i].kind # "Differ")
  OBVIOUS
<1> HIDE DEF I, N, lines, part
<1>4. /\ lines \in Seq(Lines) /\ DOMAIN lines = 1 .. Cardinality(I)
      /\ \A k \in 1 .. Cardinality(I) : lines[k] = log[Nth(I, k)] /\ Nth(I, k) \in I
  BY <1>1, <1>2, PickedFrom
<1>5. /\ part \in Seq(Lines) /\ DOMAIN part = 1 .. Cardinality(N)
      /\ \A k \in 1 .. Cardinality(N) : part[k] = log[Nth(N, k)] /\ Nth(N, k) \in N
  BY <1>1, <1>2, PickedFrom
<1>6. Picked(lines, heard) = Picked(log, K)
  <2>1. \A k \in 1 .. Cardinality(I) : k \in heard <=> Nth(I, k) \in K
    BY <1>2, <1>3, <1>4
  <2>2. heard \in SUBSET (1 .. Cardinality(I))
    BY <1>4
  <2> HIDE DEF heard, K
  <2> QED BY <1>1, <1>2, <2>1, <2>2, PickedPicked
<1>7. Picked(part, J) = Picked(log, K)
  <2>1. \A k \in 1 .. Cardinality(N) : k \in J <=> Nth(N, k) \in K
    BY <1>2, <1>3, <1>5
  <2>2. J \in SUBSET (1 .. Cardinality(N))
    BY <1>5
  <2> HIDE DEF J, K
  <2> QED BY <1>1, <1>2, <2>1, <2>2, PickedPicked
<1>8. ParsedLines(part) = Picked(lines, heard)
  BY <1>1, <1>6, <1>7
<1> DEFINE said == Picked(lines, heard)
           count == Cardinality(heard)
<1>9. /\ heard \in SUBSET (1 .. Len(lines)) /\ Len(lines) \in Nat /\ heard \in SUBSET DOMAIN lines
      /\ DOMAIN lines = 1 .. Len(lines)
      /\ \A k \in DOMAIN lines : k \in heard <=> ~IsBlank(lines[k])
  <2>1. lines \in Seq(Lines)
    BY <1>4
  <2>2. DOMAIN lines = 1 .. Len(lines) /\ Len(lines) \in Nat
    BY <2>1
  <2>3. heard \in SUBSET DOMAIN lines /\ \A k \in DOMAIN lines : k \in heard <=> ~IsBlank(lines[k])
    OBVIOUS
  <2> HIDE DEF heard
  <2> QED BY <2>2, <2>3
<1>10. \A k \in DOMAIN lines : IsBlank(lines[k]) => lines[k].kind = "Cont"
  BY <1>2, <1>4 DEF BlanksContinue
<1> HIDE DEF heard
<1>11. /\ DOMAIN said = 1 .. count /\ count \in Nat
       /\ \A k \in 1 .. count : said[k] = lines[Nth(heard, k)] /\ Nth(heard, k) \in heard
       /\ \A i \in heard : Rank(heard, i) \in 1 .. count /\ said[Rank(heard, i)] = lines[i]
  BY <1>4, <1>9, PickedFrom
<1> HIDE DEF said, count
<1>12. ASSUME NEW i \in DOMAIN lines, lines[i].kind # "Cont", UsesSecondLine(lines[i].kind)
       PROVE  /\ i + 1 \in heard /\ lines[i + 1].kind = "Cont"
              /\ lines[i].kind = "Hash" => lines[i + 1].value # NoValue
  <2> DEFINE r == Rank(heard, i)
  <2>1. i \in heard
    BY <1>9, <1>10, <1>12
  <2>2. r \in 1 .. count /\ said[r] = lines[i]
    BY <1>11, <2>1
  <2>3. /\ r + 1 \in 1 .. count /\ said[r + 1].kind = "Cont"
        /\ lines[i].kind = "Hash" => said[r + 1].value # NoValue
    <3>1. ParsedLines(part) = said
      BY <1>8 DEF said
    <3>2. Parses(part)
      BY DEF part
    <3> HIDE DEF r
    <3>3. r \in DOMAIN said /\ UsesSecondLine(said[r].kind)
      BY <1>11, <1>12, <2>2
    <3> QED BY <1>11, <2>2, <3>1, <3>2, <3>3 DEF Parses
  <2>4. i + 1 \in DOMAIN lines
    <3> DEFINE j == Nth(heard, r + 1)
    <3>1. j \in heard /\ Rank(heard, j) = r + 1
      BY <1>9, <1>11, <2>3, Ranks DEF count
    <3>2. j \in 1 .. Len(lines) /\ i \in 1 .. Len(lines) /\ r \in Int
      BY <1>9, <2>2, <3>1, <1>12, <1>11
    <3> HIDE DEF j
    <3>3. ~(j < i)
      <4>1. j < i => Rank(heard, j) < Rank(heard, i)
        BY <1>9, <2>1, <3>1, Ranks
      <4> QED BY <4>1, <3>1, <3>2
    <3>4. j # i
      BY <3>1, <3>2
    <3>5. i < j
      BY <3>2, <3>3, <3>4
    <3> QED BY <1>9, <3>2, <3>5
  <2>5. i + 1 \in heard
    <3>1. ~IsBlank(lines[i + 1])
      BY <1>12, <2>4 DEF DetailsFollow, lines
    <3> QED BY <1>9, <2>4, <3>1
  <2>6. Rank(heard, i + 1) = r + 1
    BY <1>9, <2>1, <2>5, NextRank
  <2>7. said[r + 1] = lines[i + 1]
    BY <1>11, <2>5, <2>6
  <2> HIDE DEF r
  <2> QED BY <2>3, <2>5, <2>7
<1>13. \A i \in DOMAIN lines : UsesSecondLine(lines[i].kind) => lines[i].kind # "Cont"
  BY DEF UsesSecondLine
<1>14. Parses(log)
  <2>1. \A i \in DOMAIN lines : UsesSecondLine(lines[i].kind) =>
          /\ i + 1 \in DOMAIN lines /\ lines[i + 1].kind = "Cont"
          /\ lines[i].kind = "Hash" => lines[i + 1].value # NoValue
    BY <1>9, <1>12, <1>13
  <2> QED BY <2>1 DEF Parses, lines
<1>15. \A i \in Kept(lines) : i \in heard /\ (UsesSecondLine(lines[i].kind) => i + 1 \in heard)
  BY <1>9, <1>10, <1>12, <1>13 DEF Kept
<1>16. LogToChunks(part) = LogToChunks(log)
  BY <1>8, <1>9, <1>14, <1>15, HeardChunks DEF lines
<1> QED BY <1>16 DEF part

-----------------------------------------------------------------------------
(***************************************************************************)
(* What build() read of what the compilers printed.                        *)
(***************************************************************************)

(* Every run was a plain one, or there was one comparison.                 *)
PlainRuns ==
  /\ \A n \in 1 .. Len(printed) : PlainOutcome(printed[n], results[n])
  /\ AllRead \in Seq(Logs) /\ Len(AllRead) = Len(printed)
  /\ AllLogs(results) \in Seq(Seq(Lines)) /\ Len(AllLogs(results)) = Len(printed)
  /\ \A n \in 1 .. Len(printed) :
       printed[n] = <<AllRead[n]>> /\ AllLogs(results)[n] = RunLog(results[n])

OneComparison ==
  /\ Len(printed) = 1
  /\ ComparedOutcome(printed[1], results[1])
  /\ AllRead = AsRead(printed[1])
  /\ AllLogs(results) = RunLogs(results[1])

LEMMA PlainOrCompared ==
  ASSUME ExecutorInv, todo = << >>
  PROVE  /\ printed \in Seq(PrintedLogs) /\ results \in Seq(RunOutcomes)
         /\ Len(printed) = Len(results) /\ Len(printed) > 0
         /\ PlainRuns \/ OneComparison
<1> DEFINE n == Len(printed)
<1>1. /\ printed \in Seq(PrintedLogs) /\ results \in Seq(RunOutcomes)
      /\ n = Len(results) /\ n = Len(runs) /\ n \in Nat /\ n > 0
      /\ \A i \in 1 .. n : Logged(runs[i], printed[i]) /\ results[i] \in Outcomes(runs[i], printed[i])
      /\ \/ n = 1 /\ Len(runs[1]) = 2
         \/ \A i \in 1 .. n : Len(runs[i]) = 1
  <2>1. /\ printed \in Seq(PrintedLogs) /\ results \in Seq(RunOutcomes)
        /\ n = Len(results) /\ n + Len(todo) = Len(runs) /\ runs \in Seq(Runs) /\ runs # << >>
        /\ \A i \in 1 .. n :
             Logged(runs[i], printed[i]) /\ results[i] \in Outcomes(runs[i], printed[i])
        /\ \/ Len(runs) = 1 /\ Len(runs[1]) = 2
           \/ \A i \in DOMAIN runs : Len(runs[i]) = 1
    BY DEF ExecutorInv, RunsInv, ResultsInv
  <2>2. Len(todo) = 0 /\ n \in Nat
    BY <2>1
  <2>3. Len(runs) \in Nat /\ Len(runs) > 0 /\ DOMAIN runs = 1 .. Len(runs)
    BY <2>1, EmptySeq
  <2>4. n = Len(runs)
    BY <2>1, <2>2, <2>3
  <2> QED BY <2>1, <2>3, <2>4
<1> HIDE DEF n
<1>2. CASE \A i \in 1 .. n : Len(runs[i]) = 1
  <2>1. \A i \in 1 .. n : PlainOutcome(printed[i], results[i])
    BY <1>1, <1>2, OutcomeOf
  <2> DEFINE first == [i \in 1 .. n |-> printed[i][1]]
             read == [i \in 1 .. n |-> RunLog(results[i])]
             logs == [i \in DOMAIN results |-> RunLogs(results[i])]
  <2>2. ASSUME NEW i \in 1 .. n
        PROVE  /\ first[i] \in Logs /\ printed[i] = <<first[i]>>
               /\ read[i] \in Seq(Lines) /\ RunLogs(results[i]) = <<read[i]>>
    <3>1. PICK a \in Logs :
            printed[i] = <<a>> /\ results[i] = [ok |-> a = << >>, diff |-> FALSE, log |-> a]
      BY <2>1 DEF PlainOutcome
    <3>2. first[i] = a
      BY <3>1
    <3>3. results[i].diff = FALSE /\ results[i].log = a
      BY <3>1
    <3>4. RunLogs(results[i]) = <<read[i]>>
      BY <3>3 DEF RunLogs
    <3>5. RunLog(results[i]) \in Seq(Lines)
      BY <3>3, LogsAreLines, SuccessLog DEF RunLog, SuccessLine
    <3> QED BY <3>1, <3>2, <3>4, <3>5
  <2>3. first \in Seq(Logs) /\ Len(first) = n
    <3>1. first \in [1 .. n -> Logs]
      BY <2>2
    <3> QED BY <1>1, <3>1, SeqDef
  <2>4. read \in Seq(Seq(Lines)) /\ Len(read) = n
    <3>1. read \in [1 .. n -> Seq(Lines)]
      BY <2>2
    <3> HIDE DEF read
    <3> QED BY <1>1, <3>1, SeqDef
  <2>5. printed = [i \in 1 .. Len(first) |-> <<first[i]>>]
    <3>1. printed = [i \in 1 .. n |-> printed[i]]
      BY <1>1 DEF n
    <3> HIDE DEF first
    <3> QED BY <2>2, <2>3, <3>1
  <2>10. [i \in DOMAIN printed |-> AsRead(printed[i])] = printed
    <3>1. DOMAIN printed = 1 .. n
      BY <1>1 DEF n
    <3>2. ASSUME NEW i \in 1 .. n PROVE AsRead(printed[i]) = printed[i]
      <4>1. Len(printed[i]) = 1
        BY <2>2
      <4> QED BY <4>1 DEF AsRead
    <3> HIDE DEF first
    <3>3. [i \in DOMAIN printed |-> AsRead(printed[i])] = [i \in 1 .. n |-> printed[i]]
      BY <3>1, <3>2
    <3>4. printed = [i \in 1 .. n |-> printed[i]]
      BY <1>1 DEF n
    <3> QED BY <3>3, <3>4
  <2>6. logs = [i \in 1 .. Len(read) |-> <<read[i]>>]
    <3>0. DOMAIN results = 1 .. n
      <4>1. results \in Seq(RunOutcomes) /\ n = Len(results)
        BY <1>1
      <4> QED BY <4>1
    <3>1. logs = [i \in 1 .. n |-> RunLogs(results[i])]
      BY <3>0
    <3> HIDE DEF read, logs
    <3> QED BY <2>2, <2>4, <3>1
  <2>7. AllRead = first
    <3>1. first # << >>
      BY <1>1, <2>3
    <3> HIDE DEF first
    <3>2. FlattenSeq(printed) = first
      BY <2>3, <2>5, <3>1, FlattenUnits
    <3> QED BY <2>10, <3>2 DEF AllRead
  <2>8. AllLogs(results) = read
    <3>1. read # << >>
      BY <1>1, <2>4
    <3>2. AllLogs(results) = FlattenSeq(logs)
      BY DEF AllLogs
    <3> HIDE DEF read, logs
    <3> QED BY <2>4, <2>6, <3>1, <3>2, FlattenUnits
  <2>9. \A i \in 1 .. n : read[i] = RunLog(results[i])
    OBVIOUS
  <2> HIDE DEF first, read
  <2> QED BY <1>1, <2>1, <2>2, <2>3, <2>4, <2>7, <2>8, <2>9 DEF PlainRuns, n
<1>3. CASE n = 1 /\ Len(runs[1]) = 2
  <2>1. ComparedOutcome(printed[1], results[1])
    BY <1>1, <1>3, OutcomeOf
  <2>2. AllRead = AsRead(printed[1])
    <3>1. printed = <<printed[1]>>
      BY <1>1, <1>3 DEF n
    <3>2. DOMAIN printed = 1 .. 1
      BY <3>1
    <3>3. [i \in DOMAIN printed |-> AsRead(printed[i])] = <<AsRead(printed[1])>>
      BY <3>2
    <3> QED BY <3>3, FlattenOne DEF AllRead
  <2>3. AllLogs(results) = RunLogs(results[1])
    <3>0. DOMAIN results = 1 .. 1
      <4>1. results \in Seq(RunOutcomes) /\ Len(results) = 1
        BY <1>1, <1>3
      <4> QED BY <4>1
    <3>1. [i \in DOMAIN results |-> RunLogs(results[i])] = <<RunLogs(results[1])>>
      BY <3>0
    <3> QED BY <3>1, FlattenOne DEF AllLogs
  <2> QED BY <1>1, <1>3, <2>1, <2>2, <2>3 DEF OneComparison, n
<1> QED BY <1>1, <1>2, <1>3 DEF n

(* A log as build() reads it, and as it was printed.                       *)
Reads(log, said) == Alike(log, said) \/ (said = << >> /\ log = <<SuccessLine>>)

LEMMA ReadLogsAreLines == ReadLogs \subseteq Seq(Lines)
<1>1. \A log \in ComparedLogs : WithoutBlanks(log) \in Seq(Lines)
  <2> SUFFICES ASSUME NEW log \in ComparedLogs PROVE WithoutBlanks(log) \in Seq(Lines)
    OBVIOUS
  <2>1. log \in Seq(Lines) /\ Alike(log, log)
    BY LogsAreLines DEF Alike
  <2> QED BY <2>1, AlikeWithoutBlanks
<1> QED BY <1>1, LogsAreLines DEF ReadLogs

LEMMA PrintedLogsAreLines ==
  ASSUME NEW S, S \subseteq ReadLogs, AllRead \in Seq(S)
  PROVE  AllRead \in Seq(ReadLogs) /\ AllRead \in Seq(Seq(Lines))
<1>1. S \subseteq Seq(Lines)
  BY ReadLogsAreLines
<1> QED BY <1>1, SeqMonotonic

LEMMA PlainLogsAreRead ==
  ASSUME ExecutorInv, PlainRuns
  PROVE  /\ AllRead \in Seq(ReadLogs) /\ AllRead \in Seq(Seq(Lines))
         /\ AllLogs(results) \in Seq(Seq(Lines)) /\ Len(AllLogs(results)) = Len(AllRead)
         /\ Len(AllRead) = Len(printed)
         /\ \A n \in 1 .. Len(AllRead) :
              AllLogs(results)[n] = IF AllRead[n] = << >> THEN <<SuccessLine>> ELSE AllRead[n]
<1>1. /\ \A n \in 1 .. Len(printed) : PlainOutcome(printed[n], results[n])
      /\ AllRead \in Seq(Logs) /\ Len(AllRead) = Len(printed)
      /\ AllLogs(results) \in Seq(Seq(Lines)) /\ Len(AllLogs(results)) = Len(printed)
      /\ \A n \in 1 .. Len(printed) :
           printed[n] = <<AllRead[n]>> /\ AllLogs(results)[n] = RunLog(results[n])
  BY DEF PlainRuns
<1>2. ASSUME NEW n \in 1 .. Len(printed)
      PROVE  AllLogs(results)[n] = IF AllRead[n] = << >> THEN <<SuccessLine>> ELSE AllRead[n]
  <2>1. PICK a \in Logs :
          printed[n] = <<a>> /\ results[n] = [ok |-> a = << >>, diff |-> FALSE, log |-> a]
    BY <1>1 DEF PlainOutcome
  <2>2. AllRead[n] = a
    <3>1. <<AllRead[n]>> = <<a>>
      BY <1>1, <2>1
    <3> QED BY <3>1
  <2>3. results[n].ok = (a = << >>) /\ results[n].log = a
    BY <2>1
  <2> QED BY <1>1, <2>2, <2>3 DEF RunLog, SuccessLine
<1>3. AllRead \in Seq(ReadLogs) /\ AllRead \in Seq(Seq(Lines))
  BY <1>1, PrintedLogsAreLines DEF ReadLogs
<1> QED BY <1>1, <1>2, <1>3

LEMMA ReadOfTwo ==
  ASSUME NEW a, NEW b
  PROVE  AsRead(<<a, b>>) = <<WithoutBlanks(a), WithoutBlanks(b)>>
<1>1. Len(<<a, b>>) = 2 /\ <<a, b>>[1] = a /\ <<a, b>>[2] = b
  OBVIOUS
<1> QED BY <1>1 DEF AsRead

LEMMA ComparedLogsAreRead ==
  ASSUME ExecutorInv, OneComparison, ~results[1].ok
  PROVE  /\ AllRead \in Seq(ReadLogs) /\ AllRead \in Seq(Seq(Lines))
         /\ AllLogs(results) \in Seq(Seq(Lines))
         /\ Len(AllLogs(results)) = 2 /\ Len(AllRead) = 2
         /\ \A n \in 1 .. 2 : Alike(AllLogs(results)[n], AllRead[n])
<1>1. /\ Len(printed) = 1 /\ ComparedOutcome(printed[1], results[1])
      /\ AllRead = AsRead(printed[1]) /\ AllLogs(results) = RunLogs(results[1])
  BY DEF OneComparison
<1>2. PICK a \in ComparedLogs, b \in ComparedLogs :
        /\ printed[1] = <<a, b>>
        /\ \/ a = b /\ results[1] = [ok |-> TRUE, diff |-> TRUE, log |-> << >>]
           \/ a # b /\ \E d \in Diffs(a, b) : results[1] = [ok |-> FALSE, diff |-> TRUE, log |-> d]
  BY <1>1 DEF ComparedOutcome
<1>3. PICK d \in Diffs(a, b) : results[1] = [ok |-> FALSE, diff |-> TRUE, log |-> d]
  <2>1. ASSUME results[1] = [ok |-> TRUE, diff |-> TRUE, log |-> << >>] PROVE FALSE
    <3>1. results[1].ok = TRUE
      BY <2>1
    <3> QED BY <3>1
  <2> QED BY <1>2, <2>1
<1> DEFINE left == Side(d, "-")
           right == Side(d, "+")
<1>4. /\ a \in Seq(Lines) /\ b \in Seq(Lines)
      /\ left \in Seq(Lines) /\ Alike(left, WithoutBlanks(a))
      /\ right \in Seq(Lines) /\ Alike(right, WithoutBlanks(b))
  BY LogsAreLines, SidesOfDiff
<1> HIDE DEF left, right
<1>5. AllLogs(results) = <<left, right>>
  <2>1. results[1].diff /\ ~results[1].ok /\ results[1].log = d
    BY <1>3
  <2> QED BY <1>1, <2>1 DEF RunLogs, RunLog, SplitDiffLog, left, right
<1>6. AllRead = <<WithoutBlanks(a), WithoutBlanks(b)>>
  BY <1>1, <1>2, ReadOfTwo
<1>7. /\ AllLogs(results) \in Seq(Seq(Lines)) /\ Len(AllLogs(results)) = 2
      /\ AllLogs(results)[1] = left /\ AllLogs(results)[2] = right
  BY <1>4, <1>5
<1>8. /\ AllRead \in Seq(ReadLogs) /\ Len(AllRead) = 2
      /\ AllRead[1] = WithoutBlanks(a) /\ AllRead[2] = WithoutBlanks(b)
  <2>1. WithoutBlanks(a) \in ReadLogs /\ WithoutBlanks(b) \in ReadLogs
    BY DEF ReadLogs
  <2> QED BY <1>6, <2>1
<1>9. \A n \in 1 .. 2 : n = 1 \/ n = 2
  OBVIOUS
<1>10. \A n \in 1 .. 2 : Alike(AllLogs(results)[n], AllRead[n])
  BY <1>4, <1>7, <1>8, <1>9
<1>11. AllRead \in Seq(ReadLogs) /\ AllRead \in Seq(Seq(Lines))
  BY <1>8, PrintedLogsAreLines
<1> QED BY <1>7, <1>8, <1>10, <1>11

(* When build() reads the logs, it reads every log that was printed.       *)
LEMMA LogsAreRead ==
  ASSUME ExecutorInv, todo = << >>, NEW bad \in DOMAIN results, ~results[bad].ok
  PROVE  /\ AllRead \in Seq(ReadLogs) /\ AllRead \in Seq(Seq(Lines))
         /\ AllLogs(results) \in Seq(Seq(Lines))
         /\ Len(AllLogs(results)) = Len(AllRead) /\ Len(AllRead) > 0
         /\ OneComparison => ~results[1].ok
         /\ \A n \in 1 .. Len(AllRead) : Reads(AllLogs(results)[n], AllRead[n])
<1>1. /\ results \in Seq(RunOutcomes) /\ Len(printed) = Len(results) /\ Len(printed) > 0
      /\ PlainRuns \/ OneComparison
  BY PlainOrCompared
<1>2. ASSUME OneComparison PROVE ~results[1].ok
  <2>1. results \in Seq(RunOutcomes) /\ Len(results) = 1
    BY <1>1, <1>2 DEF OneComparison
  <2>2. bad = 1
    BY <2>1
  <2> QED BY <2>2
<1>3. CASE PlainRuns /\ ~OneComparison
  <2>1. \A n \in 1 .. Len(AllRead) : Alike(AllRead[n], AllRead[n])
    BY DEF Alike
  <2>2. \A n \in 1 .. Len(AllRead) : Reads(AllLogs(results)[n], AllRead[n])
    BY <1>3, <2>1, PlainLogsAreRead DEF Reads
  <2> QED BY <1>1, <1>3, <2>2, PlainLogsAreRead
<1>4. CASE OneComparison
  <2>1. /\ AllRead \in Seq(ReadLogs) /\ AllRead \in Seq(Seq(Lines))
        /\ AllLogs(results) \in Seq(Seq(Lines))
        /\ Len(AllLogs(results)) = 2 /\ Len(AllRead) = 2
        /\ \A n \in 1 .. 2 : Alike(AllLogs(results)[n], AllRead[n])
    BY <1>2, <1>4, ComparedLogsAreRead
  <2> QED BY <1>2, <2>1 DEF Reads
<1> QED BY <1>1, <1>3, <1>4

LEMMA IgnoredIsNotBlank ==
  ASSUME NEW log \in ComparedLogs, NEW i \in DOMAIN log, log[i].ignored
  PROVE  \E k \in DOMAIN WithoutBlanks(log) : WithoutBlanks(log)[k].ignored
<1> DEFINE N == {j \in DOMAIN log : ~IsBlank(log[j])}
           part == Picked(log, N)
<1>1. log \in Seq(Lines) /\ ~IsBlank(log[i])
  BY LogsAreLines, LogsAssumption
<1>2. N \in SUBSET DOMAIN log /\ i \in N
  BY <1>1
<1> HIDE DEF N
<1>3. Rank(N, i) \in DOMAIN part /\ part[Rank(N, i)] = log[i]
  BY <1>1, <1>2, PickedFrom
<1>4. WithoutBlanks(log) = part
  BY DEF WithoutBlanks, N
<1> QED BY <1>3, <1>4

(* An outcome is ignored for a line that was printed.                      *)
LEMMA IgnoredWasPrinted ==
  ASSUME ExecutorInv, todo = << >>, NEW n \in DOMAIN results, Ignored(results[n])
  PROVE  \E m \in DOMAIN AllRead : \E i \in DOMAIN AllRead[m] : AllRead[m][i].ignored
<1>1. /\ printed \in Seq(PrintedLogs) /\ results \in Seq(RunOutcomes)
      /\ Len(printed) = Len(results) /\ Len(printed) > 0
      /\ PlainRuns \/ OneComparison
  BY PlainOrCompared
<1>2. n \in 1 .. Len(printed) /\ DOMAIN results = 1 .. Len(printed)
  <2>1. results \in Seq(RunOutcomes) /\ Len(printed) = Len(results)
    BY <1>1
  <2> QED BY <2>1
<1>3. ~results[n].ok /\ \E i \in DOMAIN results[n].log : results[n].log[i].ignored
  <2>1. ~(\E i \in DOMAIN <<SuccessLine>> : <<SuccessLine>>[i].ignored)
    BY DEF SuccessLine
  <2>2. ~results[n].ok
    BY <2>1 DEF Ignored, RunLog, SuccessLine
  <2> QED BY <2>2 DEF Ignored, RunLog
<1>4. CASE PlainRuns
  <2>1. /\ PlainOutcome(printed[n], results[n]) /\ printed[n] = <<AllRead[n]>>
        /\ AllRead \in Seq(Logs) /\ Len(AllRead) = Len(printed)
    BY <1>2, <1>4 DEF PlainRuns
  <2>2. PICK a \in Logs :
          printed[n] = <<a>> /\ results[n] = [ok |-> a = << >>, diff |-> FALSE, log |-> a]
    BY <2>1 DEF PlainOutcome
  <2>3. AllRead[n] = a
    <3>1. <<AllRead[n]>> = <<a>>
      BY <2>1, <2>2
    <3> QED BY <3>1
  <2>4. n \in DOMAIN AllRead
    BY <1>2, <2>1
  <2>5. results[n].log = a
    BY <2>2
  <2> QED BY <1>3, <2>3, <2>4, <2>5
<1>5. CASE OneComparison
  <2>1. /\ Len(printed) = 1 /\ ComparedOutcome(printed[1], results[1]) /\ AllRead = AsRead(printed[1])
    BY <1>5 DEF OneComparison
  <2>2. n = 1
    BY <1>2, <2>1
  <2>3. PICK a \in ComparedLogs, b \in ComparedLogs :
          /\ printed[1] = <<a, b>>
          /\ \/ a = b /\ results[1] = [ok |-> TRUE, diff |-> TRUE, log |-> << >>]
             \/ a # b /\ \E d \in Diffs(a, b) : results[1] = [ok |-> FALSE, diff |-> TRUE, log |-> d]
    BY <2>1 DEF ComparedOutcome
  <2>4. PICK d \in Diffs(a, b) : results[1] = [ok |-> FALSE, diff |-> TRUE, log |-> d]
    BY <1>3, <2>2, <2>3
  <2>5. a \in Seq(Lines) /\ b \in Seq(Lines)
    BY LogsAreLines
  <2>6. \E i \in DOMAIN d : d[i].ignored
    BY <1>3, <2>2, <2>4
  <2>7. (\E i \in DOMAIN a : a[i].ignored) \/ (\E i \in DOMAIN b : b[i].ignored)
    BY <2>5, <2>6, SidesOfDiff
  <2>8. AllRead = <<WithoutBlanks(a), WithoutBlanks(b)>>
    BY <2>1, <2>3, ReadOfTwo
  <2>9. 1 \in DOMAIN AllRead /\ 2 \in DOMAIN AllRead
        /\ AllRead[1] = WithoutBlanks(a) /\ AllRead[2] = WithoutBlanks(b)
    BY <2>8
  <2>10. ASSUME NEW log \in {a, b}, \E i \in DOMAIN log : log[i].ignored
         PROVE  \E i \in DOMAIN WithoutBlanks(log) : WithoutBlanks(log)[i].ignored
    BY <2>5, <2>10, IgnoredIsNotBlank
  <2> QED BY <2>7, <2>9, <2>10
<1> QED BY <1>1, <1>4, <1>5

(* When all runs ended Ok, the compilers printed the same.                 *)
LEMMA OkRunsAgree ==
  ASSUME ExecutorInv, todo = << >>, \A n \in DOMAIN results : results[n].ok
  PROVE  \A n, m \in DOMAIN AllRead : AllRead[n] = AllRead[m]
<1>1. /\ printed \in Seq(PrintedLogs) /\ results \in Seq(RunOutcomes)
      /\ Len(printed) = Len(results) /\ Len(printed) > 0
      /\ PlainRuns \/ OneComparison
  BY PlainOrCompared
<1>2. DOMAIN results = 1 .. Len(printed)
  <2>1. results \in Seq(RunOutcomes) /\ Len(printed) = Len(results)
    BY <1>1
  <2> QED BY <2>1
<1>3. CASE PlainRuns
  <2>1. AllRead \in Seq(Logs) /\ Len(AllRead) = Len(printed)
    BY <1>3 DEF PlainRuns
  <2>2. ASSUME NEW n \in 1 .. Len(printed) PROVE AllRead[n] = << >>
    <3>1. PlainOutcome(printed[n], results[n]) /\ printed[n] = <<AllRead[n]>>
      BY <1>3 DEF PlainRuns
    <3>2. PICK a \in Logs :
            printed[n] = <<a>> /\ results[n] = [ok |-> a = << >>, diff |-> FALSE, log |-> a]
      BY <3>1 DEF PlainOutcome
    <3>3. a = << >>
      <4>1. n \in DOMAIN results
        BY <1>2
      <4>2. results[n].ok
        BY <4>1
      <4>3. results[n].ok = (a = << >>)
        BY <3>2
      <4> QED BY <4>2, <4>3
    <3>4. <<AllRead[n]>> = <<a>>
      BY <3>1, <3>2
    <3> QED BY <3>3, <3>4
  <2>3. DOMAIN AllRead = 1 .. Len(printed)
    BY <2>1
  <2> QED BY <2>2, <2>3
<1>4. CASE OneComparison
  <2>1. /\ Len(printed) = 1 /\ ComparedOutcome(printed[1], results[1]) /\ AllRead = AsRead(printed[1])
    BY <1>4 DEF OneComparison
  <2>2. results[1].ok
    BY <1>2, <2>1
  <2>3. PICK a \in ComparedLogs, b \in ComparedLogs :
          /\ printed[1] = <<a, b>>
          /\ \/ a = b /\ results[1] = [ok |-> TRUE, diff |-> TRUE, log |-> << >>]
             \/ a # b /\ \E d \in Diffs(a, b) : results[1] = [ok |-> FALSE, diff |-> TRUE, log |-> d]
    BY <2>1 DEF ComparedOutcome
  <2>4. a = b
    <3>1. ASSUME NEW d, results[1] = [ok |-> FALSE, diff |-> TRUE, log |-> d] PROVE FALSE
      <4>1. results[1].ok = FALSE
        BY <3>1
      <4> QED BY <2>2, <4>1
    <3> QED BY <2>3, <3>1
  <2>5. AllRead = <<WithoutBlanks(a), WithoutBlanks(a)>>
    BY <2>1, <2>3, <2>4, ReadOfTwo
  <2> QED BY <2>5
<1> QED BY <1>1, <1>3, <1>4

-----------------------------------------------------------------------------
(***************************************************************************)
(* What execute_one returns.                                               *)
(***************************************************************************)

ReadChunks == [n \in DOMAIN AllLogs(results) |-> LogToChunks(AllLogs(results)[n])]

(* The logs were compared: some run failed, none is ignored, all parse.    *)
Compared ==
  /\ \E n \in DOMAIN results : ~results[n].ok
  /\ \A n \in DOMAIN results : ~Ignored(results[n])
  /\ \A n \in DOMAIN AllLogs(results) : Parses(AllLogs(results)[n])
  /\ output = [status |-> CheckChunks(ReadChunks), loc |-> "none", chunks |-> ReadChunks]

LEMMA WaysToReturn ==
  ASSUME ExecutorInv, output # NoOutput
  PROVE  /\ todo = << >>
         /\ \/ BuildPanics(results) /\ output = FromPanic("result.rs")
            \/ /\ output = Success
               /\ \/ \A n \in DOMAIN results : results[n].ok
                  \/ \E n \in DOMAIN results : Ignored(results[n])
            \/ Compared
<1>1. /\ todo = << >>
      /\ output = IF BuildPanics(results) THEN FromPanic("result.rs") ELSE Build(results)
  BY DEF ExecutorInv, OutputInv
<1>2. ASSUME ~BuildPanics(results),
             ~(\A n \in DOMAIN results : results[n].ok),
             ~(\E n \in DOMAIN results : Ignored(results[n]))
      PROVE  Compared
  <2>1. output = [status |-> CheckChunks(ReadChunks), loc |-> "none", chunks |-> ReadChunks]
    BY <1>1, <1>2 DEF Build, ReadChunks
  <2>2. \A n \in DOMAIN AllLogs(results) : Parses(AllLogs(results)[n])
    BY <1>2 DEF BuildPanics
  <2> QED BY <1>2, <2>1, <2>2 DEF Compared
<1>3. ASSUME ~BuildPanics(results),
             \/ \A n \in DOMAIN results : results[n].ok
             \/ \E n \in DOMAIN results : Ignored(results[n])
      PROVE  output = Success
  BY <1>1, <1>3 DEF Build
<1> QED BY <1>1, <1>2, <1>3

(* The chunks of the log a compiler printed, or of the success it logged.  *)
LEMMA ChunksOfRead ==
  ASSUME ExecutorInv, todo = << >>, Compared
  PROVE  /\ AllRead \in Seq(ReadLogs) /\ AllRead \in Seq(Seq(Lines))
         /\ ReadChunks \in Seq(Seq(Chunks)) /\ Len(ReadChunks) = Len(AllRead)
         /\ Len(AllRead) > 0
         /\ \A n \in 1 .. Len(AllRead) :
              \/ Parses(AllRead[n]) /\ ReadChunks[n] = LogToChunks(AllRead[n])
              \/ AllRead[n] = << >> /\ ReadChunks[n] = <<SuccessChunk>>
<1> DEFINE logs == AllLogs(results)
           chunks == ReadChunks
<1>1. PICK bad \in DOMAIN results : ~results[bad].ok
  BY DEF Compared
<1>2. /\ AllRead \in Seq(ReadLogs) /\ AllRead \in Seq(Seq(Lines))
      /\ logs \in Seq(Seq(Lines)) /\ Len(logs) = Len(AllRead) /\ Len(AllRead) > 0
      /\ \A n \in 1 .. Len(AllRead) : Reads(logs[n], AllRead[n])
  BY <1>1, LogsAreRead
<1>3. chunks = [n \in DOMAIN logs |-> LogToChunks(logs[n])]
      /\ \A n \in DOMAIN logs : Parses(logs[n])
  BY DEF ReadChunks, Compared
<1> HIDE DEF logs, chunks
<1>4. DOMAIN logs = 1 .. Len(logs) /\ Len(logs) \in Nat
      /\ \A n \in 1 .. Len(logs) : logs[n] \in Seq(Lines) /\ AllRead[n] \in Seq(Lines)
  <2>1. logs \in Seq(Seq(Lines)) /\ AllRead \in Seq(Seq(Lines)) /\ Len(logs) = Len(AllRead)
    BY <1>2
  <2> QED BY <2>1
<1>5. \A n \in 1 .. Len(logs) : LogToChunks(logs[n]) \in Seq(Chunks)
  BY <1>3, <1>4, ChunkKinds
<1>6. chunks \in Seq(Seq(Chunks)) /\ Len(chunks) = Len(logs)
  <2>1. chunks \in [1 .. Len(logs) -> Seq(Chunks)]
    BY <1>3, <1>4, <1>5
  <2> QED BY <1>4, <2>1, SeqDef
<1>7. ASSUME NEW n \in 1 .. Len(logs)
      PROVE  \/ Parses(AllRead[n]) /\ chunks[n] = LogToChunks(AllRead[n])
             \/ AllRead[n] = << >> /\ chunks[n] = <<SuccessChunk>>
  <2>1. chunks[n] = LogToChunks(logs[n]) /\ Parses(logs[n])
        /\ logs[n] \in Seq(Lines) /\ AllRead[n] \in Seq(Lines)
    BY <1>3, <1>4
  <2>2. CASE Alike(logs[n], AllRead[n])
    BY <2>1, <2>2, AlikeChunks
  <2>3. CASE AllRead[n] = << >> /\ logs[n] = <<SuccessLine>>
    BY <2>1, <2>3, SuccessLog
  <2> QED BY <1>2, <2>2, <2>3 DEF Reads
<1> QED BY <1>2, <1>6, <1>7 DEF chunks

LEMMA InPair ==
  ASSUME NEW S, NEW s \in Seq(S), Len(s) = 2
  PROVE  1 \in DOMAIN s /\ 2 \in DOMAIN s /\ s[1] \in S /\ s[2] \in S
<1>1. s \in [1 .. 2 -> S] /\ DOMAIN s = 1 .. 2
  BY LenProperties
<1> QED BY <1>1

(* Whichever diff the harness prints, its sides have the chunks of what    *)
(* each compiler printed, for any logs and any number of runs.             *)
THEOREM ChunksRecovered == Spec => []ChunksAreWhatWasPrinted
<1>1. ExecutorInv => ChunksAreWhatWasPrinted
  <2> SUFFICES ASSUME ExecutorInv, Judged PROVE ChunksAreWhatWasPrinted
    BY DEF ChunksAreWhatWasPrinted
  <2> DEFINE ChunksOf(log) ==
               LogToChunks(IF DetailsFollow(log) THEN log ELSE WithoutBlanks(log))
             Judge(logs) ==
               CASE logs = << << >> >> -> << <<SuccessChunk>> >>
                 [] Len(logs) = 2 -> <<ChunksOf(logs[1]), ChunksOf(logs[2])>>
                 [] OTHER -> [k \in DOMAIN logs |-> LogToChunks(logs[k])]
             judged == [n \in DOMAIN printed |-> Judge(printed[n])]
  <2>1. todo = << >> /\ Compared
    <3>1. output # NoOutput /\ output # Success /\ output.status # "Panic"
      BY DEF Judged
    <3>2. FromPanic("result.rs").status = "Panic"
      BY DEF FromPanic
    <3> QED BY <3>1, <3>2, WaysToReturn
  <2>2. output.chunks = ReadChunks
    BY <2>1 DEF Compared
  <2>3. /\ printed \in Seq(PrintedLogs) /\ Len(printed) > 0
        /\ PlainRuns \/ OneComparison
    BY <2>1, PlainOrCompared
  <2>4. /\ AllRead \in Seq(Seq(Lines))
        /\ ReadChunks \in Seq(Seq(Chunks)) /\ Len(ReadChunks) = Len(AllRead)
        /\ \A n \in 1 .. Len(AllRead) :
             \/ Parses(AllRead[n]) /\ ReadChunks[n] = LogToChunks(AllRead[n])
             \/ AllRead[n] = << >> /\ ReadChunks[n] = <<SuccessChunk>>
    BY <2>1, ChunksOfRead
  <2>5. CASE PlainRuns
    <3>1. Len(AllRead) = Len(printed) /\ \A n \in 1 .. Len(printed) : printed[n] = <<AllRead[n]>>
      BY <2>5 DEF PlainRuns
    <3>2. ASSUME NEW n \in 1 .. Len(printed) PROVE Judge(printed[n]) = <<ReadChunks[n]>>
      <4>1. CASE AllRead[n] = << >>
        <5>1. Judge(printed[n]) = << <<SuccessChunk>> >>
          <6>1. printed[n] = << << >> >>
            BY <3>1, <4>1
          <6>2. Len(<< << >> >>) = 1
            OBVIOUS
          <6> HIDE DEF ChunksOf
          <6>3. Len(printed[n]) # 2
            BY <6>1, <6>2
          <6> QED BY <6>1, <6>3
        <5>2. ReadChunks[n] = <<SuccessChunk>>
          <6>1. AllLogs(results)[n] = <<SuccessLine>> /\ n \in DOMAIN AllLogs(results)
            <7>1. /\ AllLogs(results) \in Seq(Seq(Lines))
                  /\ Len(AllLogs(results)) = Len(printed)
                  /\ AllLogs(results)[n] =
                       IF AllRead[n] = << >> THEN <<SuccessLine>> ELSE AllRead[n]
              BY <2>5, <3>1, PlainLogsAreRead
            <7>2. DOMAIN AllLogs(results) = 1 .. Len(printed)
              BY <7>1
            <7> QED BY <4>1, <7>1, <7>2
          <6> QED BY <6>1, SuccessLog DEF ReadChunks
        <5> QED BY <5>1, <5>2
      <4>2. CASE AllRead[n] # << >>
        <5>1. printed[n] = <<AllRead[n]>> /\ printed[n] # << << >> >>
          BY <3>1, <4>2
        <5>2. Judge(printed[n]) = <<LogToChunks(AllRead[n])>>
          <6> HIDE DEF ChunksOf
          <6>1. Len(printed[n]) # 2
            BY <5>1
          <6>2. Judge(printed[n]) = [k \in DOMAIN printed[n] |-> LogToChunks(printed[n][k])]
            BY <5>1, <6>1
          <6> QED BY <5>1, <6>2
        <5>3. ReadChunks[n] = LogToChunks(AllRead[n])
          BY <2>4, <3>1, <4>2
        <5> QED BY <5>2, <5>3
      <4> QED BY <4>1, <4>2
    <3> HIDE DEF Judge
    <3>3. judged = [n \in 1 .. Len(ReadChunks) |-> <<ReadChunks[n]>>]
      <4>1. DOMAIN printed = 1 .. Len(printed) /\ Len(ReadChunks) = Len(printed)
        BY <2>3, <2>4, <3>1
      <4> QED BY <3>2, <4>1
    <3>4. ReadChunks # << >>
      <4>1. Len(ReadChunks) > 0
        BY <2>3, <2>4, <3>1
      <4>2. Len(<< >>) = 0
        OBVIOUS
      <4> QED BY <4>1, <4>2
    <3> HIDE DEF judged
    <3>5. FlattenSeq(judged) = ReadChunks
      BY <2>4, <3>3, <3>4, FlattenUnits
    <3> QED BY <2>2, <3>5 DEF ChunksAreWhatWasPrinted, judged, Judge
  <2>6. CASE OneComparison
    <3>1. Len(printed) = 1 /\ ComparedOutcome(printed[1], results[1]) /\ AllRead = AsRead(printed[1])
      BY <2>6 DEF OneComparison
    <3>2. PICK a \in ComparedLogs, b \in ComparedLogs : printed[1] = <<a, b>>
      BY <3>1 DEF ComparedOutcome
    <3>3. /\ AllRead = <<WithoutBlanks(a), WithoutBlanks(b)>>
          /\ Len(AllRead) = 2 /\ AllRead[1] = WithoutBlanks(a) /\ AllRead[2] = WithoutBlanks(b)
      BY <3>1, <3>2, ReadOfTwo
    <3>4. Judge(printed[1]) = <<ChunksOf(a), ChunksOf(b)>>
      <4>1. Len(printed[1]) = 2 /\ printed[1][1] = a /\ printed[1][2] = b
            /\ printed[1] # << << >> >>
        BY <3>2
      <4> HIDE DEF ChunksOf
      <4> QED BY <4>1
    <3>5. /\ Len(ReadChunks) = 2
          /\ ReadChunks[1] = LogToChunks(WithoutBlanks(a)) /\ Parses(WithoutBlanks(a))
          /\ ReadChunks[2] = LogToChunks(WithoutBlanks(b)) /\ Parses(WithoutBlanks(b))
      <4>1. PICK bad \in DOMAIN results : ~results[bad].ok
        BY <2>1 DEF Compared
      <4>2. ~results[1].ok
        BY <2>1, <2>6, <4>1, LogsAreRead
      <4> DEFINE logs == AllLogs(results)
      <4>3. /\ logs \in Seq(Seq(Lines)) /\ Len(logs) = 2 /\ AllRead \in Seq(Seq(Lines))
            /\ \A n \in 1 .. 2 : Alike(logs[n], AllRead[n])
        BY <2>6, <4>2, ComparedLogsAreRead
      <4>4. /\ ReadChunks = [n \in DOMAIN logs |-> LogToChunks(logs[n])]
            /\ \A n \in DOMAIN logs : Parses(logs[n])
        BY <2>1 DEF Compared, ReadChunks
      <4> HIDE DEF logs
      <4>5. /\ 1 \in DOMAIN logs /\ 2 \in DOMAIN logs
            /\ logs[1] \in Seq(Lines) /\ logs[2] \in Seq(Lines)
            /\ AllRead[1] \in Seq(Lines) /\ AllRead[2] \in Seq(Lines)
        BY <3>3, <4>3, InPair
      <4>6. Alike(logs[1], AllRead[1]) /\ Alike(logs[2], AllRead[2])
        BY <4>3
      <4>7. /\ LogToChunks(logs[1]) = LogToChunks(AllRead[1]) /\ Parses(AllRead[1])
            /\ LogToChunks(logs[2]) = LogToChunks(AllRead[2]) /\ Parses(AllRead[2])
        BY <4>4, <4>5, <4>6, AlikeChunks
      <4> QED BY <2>4, <3>3, <4>4, <4>5, <4>7
    <3>9. ASSUME NEW log \in ComparedLogs, Parses(WithoutBlanks(log))
          PROVE  ChunksOf(log) = LogToChunks(WithoutBlanks(log))
      <4>1. log \in Seq(Lines) /\ BlanksContinue(log)
        BY LogsAreLines, LogsAssumption DEF BlanksContinue
      <4>2. DetailsFollow(log) => LogToChunks(WithoutBlanks(log)) = LogToChunks(log)
        BY <3>9, <4>1, BlanksLeaveNoTrace
      <4> QED BY <4>2
    <3>6. ReadChunks = <<ChunksOf(a), ChunksOf(b)>>
      <4>1. ChunksOf(a) = ReadChunks[1] /\ ChunksOf(b) = ReadChunks[2]
        BY <3>5, <3>9
      <4> HIDE DEF ChunksOf
      <4> QED BY <2>4, <3>5, <4>1
    <3> HIDE DEF Judge
    <3>7. judged = <<ReadChunks>>
      <4>1. DOMAIN printed = 1 .. 1
        BY <2>3, <3>1
      <4> QED BY <3>1, <3>4, <3>6, <4>1
    <3> HIDE DEF judged
    <3>8. FlattenSeq(judged) = ReadChunks
      BY <3>7, FlattenOne
    <3> QED BY <2>2, <3>8 DEF ChunksAreWhatWasPrinted, judged, Judge, ChunksOf
  <2> QED BY <2>3, <2>5, <2>6
<1> QED BY <1>1, RunsAreLogged, PTL

(* Runs that agree have the same message wherever one has a chunk.         *)
LEMMA AgreeAt ==
  ASSUME NEW Chunk, NEW chunks \in Seq(Seq(Chunk)), chunks # << >>, Agree(chunks),
         NEW n \in DOMAIN chunks, NEW m \in DOMAIN chunks, NEW j \in DOMAIN chunks[n]
  PROVE  j \in DOMAIN chunks[m] /\ chunks[n][j].canonical = chunks[m][j].canonical
<1>1. 1 \in DOMAIN chunks /\ \A k \in DOMAIN chunks : chunks[k] \in Seq(Chunk)
  OBVIOUS
<1>2. \A k \in DOMAIN chunks : DOMAIN chunks[k] = 1 .. Len(chunks[k])
  BY <1>1
<1>3. Len(chunks[n]) = Len(chunks[m]) /\ Len(chunks[n]) = Len(chunks[1])
  BY <1>1 DEF Agree
<1>4. j \in DOMAIN chunks[m] /\ j \in DOMAIN chunks[1]
  BY <1>1, <1>2, <1>3
<1> QED BY <1>4 DEF Agree

(* A chunk of a log that may be printed.                                   *)
LEMMA PrintedChunk ==
  ASSUME NEW log \in ReadLogs, log \in Seq(Lines), Parses(log),
         NEW j \in DOMAIN LogToChunks(log)
  PROVE  LogToChunks(log)[j] \in ReadableChunks
<1>1. LogToChunks(log)[j] \in ToSet(LogToChunks(log))
  BY DEF ToSet
<1> QED BY <1>1 DEF ReadableChunks

(* What one compiler printed reads the same whether it was diffed or not:  *)
(* build() panics only on a log some compiler truncated.                   *)
THEOREM PanicsExplained == Spec => []PanicsComeFromOneLog
<1>1. ExecutorInv => PanicsComeFromOneLog
  <2> SUFFICES ASSUME ExecutorInv, output.status = "Panic"
               PROVE  \E n \in DOMAIN AllRead : ~Parses(AllRead[n])
    BY DEF PanicsComeFromOneLog
  <2>1. output # NoOutput /\ output # Success
    BY DEF NoOutput, Success
  <2>2. ~Compared
    <3>1. CheckChunks(ReadChunks) # "Panic"
      BY DEF CheckChunks
    <3> QED BY <3>1 DEF Compared
  <2>3. todo = << >> /\ BuildPanics(results)
    BY <2>1, <2>2, WaysToReturn
  <2>4. PICK bad \in DOMAIN results : ~results[bad].ok
    BY <2>3 DEF BuildPanics
  <2>5. PICK n \in DOMAIN AllLogs(results) : ~Parses(AllLogs(results)[n])
    BY <2>3 DEF BuildPanics
  <2> DEFINE logs == AllLogs(results)
  <2>6. /\ AllRead \in Seq(Seq(Lines)) /\ logs \in Seq(Seq(Lines))
        /\ Len(logs) = Len(AllRead)
        /\ \A i \in 1 .. Len(AllRead) : Reads(logs[i], AllRead[i])
    BY <2>3, <2>4, LogsAreRead
  <2>7. n \in 1 .. Len(AllRead) /\ n \in DOMAIN AllRead
        /\ logs[n] \in Seq(Lines) /\ AllRead[n] \in Seq(Lines)
    <3>1. n \in DOMAIN logs
      BY <2>5
    <3> HIDE DEF logs
    <3>2. DOMAIN logs = 1 .. Len(logs) /\ DOMAIN AllRead = 1 .. Len(AllRead)
      BY <2>6
    <3> QED BY <2>6, <3>1, <3>2
  <2>8. logs[n] # <<SuccessLine>>
    BY <2>5, SuccessLog
  <2>9. Alike(logs[n], AllRead[n])
    BY <2>6, <2>7, <2>8 DEF Reads
  <2>10. ~Parses(logs[n])
    BY <2>5
  <2> HIDE DEF logs
  <2>11. ~Parses(AllRead[n])
    BY <2>7, <2>9, <2>10, AlikeChunks
  <2> QED BY <2>7, <2>11
<1> QED BY <1>1, RunsAreLogged, PTL

(* By TextsAssumption a chunk that says what an error says is an error; by *)
(* SaidChunks the chunks depend on what was said only.                     *)
LEMMA VerdictsOfRuns == ASSUME ExecutorInv PROVE VerdictsFollowWhatWasSaid
<1>1. ASSUME todo = << >>, Compared
      PROVE  /\ DOMAIN AllRead = 1 .. Len(AllRead) /\ DOMAIN ReadChunks = 1 .. Len(AllRead)
             /\ ReadChunks \in Seq(Seq(Chunks)) /\ ReadChunks # << >>
             /\ \A n \in 1 .. Len(AllRead) :
                  /\ AllRead[n] \in ReadLogs /\ AllRead[n] \in Seq(Lines)
                  /\ \/ Parses(AllRead[n]) /\ ReadChunks[n] = LogToChunks(AllRead[n])
                     \/ AllRead[n] = << >> /\ ReadChunks[n] = <<SuccessChunk>>
  <2>1. /\ AllRead \in Seq(ReadLogs) /\ AllRead \in Seq(Seq(Lines))
        /\ ReadChunks \in Seq(Seq(Chunks)) /\ Len(ReadChunks) = Len(AllRead)
        /\ Len(AllRead) > 0
        /\ \A n \in 1 .. Len(AllRead) :
             \/ Parses(AllRead[n]) /\ ReadChunks[n] = LogToChunks(AllRead[n])
             \/ AllRead[n] = << >> /\ ReadChunks[n] = <<SuccessChunk>>
    BY <1>1, ChunksOfRead
  <2>2. DOMAIN AllRead = 1 .. Len(AllRead) /\ DOMAIN ReadChunks = 1 .. Len(AllRead)
    BY <2>1
  <2>3. \A n \in 1 .. Len(AllRead) :
          AllRead[n] \in ReadLogs /\ AllRead[n] \in Seq(Lines)
    BY <2>1
  <2>4. ReadChunks # << >>
    <3>1. Len(<< >>) = 0
      OBVIOUS
    <3> QED BY <2>1, <3>1
  <2> QED BY <2>1, <2>2, <2>3, <2>4
<1>2. OneSidedErrorIsReported
  <2> DEFINE Reports(n) == \E i \in DOMAIN AllRead[n] : AllRead[n][i].kind \in ErrorKinds
  <2> SUFFICES ASSUME output.status = "Success",
                      ~ \E n \in DOMAIN AllRead :
                          \E i \in DOMAIN AllRead[n] : AllRead[n][i].ignored,
                      NEW n \in DOMAIN AllRead, NEW m \in DOMAIN AllRead, Reports(n)
               PROVE  Reports(m)
    BY DEF OneSidedErrorIsReported
  <2>1. output # NoOutput /\ output # FromPanic("result.rs")
    BY DEF NoOutput, FromPanic
  <2>2. todo = << >>
    BY <2>1, WaysToReturn
  <2>3. CASE \A k \in DOMAIN results : results[k].ok
    <3>1. AllRead[n] = AllRead[m]
      BY <2>2, <2>3, OkRunsAgree
    <3> QED BY <3>1
  <2>4. ~ \E k \in DOMAIN results : Ignored(results[k])
    BY <2>2, IgnoredWasPrinted
  <2>5. CASE Compared
    <3>1. /\ n \in 1 .. Len(AllRead) /\ m \in 1 .. Len(AllRead)
          /\ DOMAIN ReadChunks = 1 .. Len(AllRead)
          /\ ReadChunks \in Seq(Seq(Chunks)) /\ ReadChunks # << >>
      BY <1>1, <2>2, <2>5
    <3>2. \A k \in {n, m} :
            /\ AllRead[k] \in ReadLogs /\ AllRead[k] \in Seq(Lines)
            /\ \/ Parses(AllRead[k]) /\ ReadChunks[k] = LogToChunks(AllRead[k])
               \/ AllRead[k] = << >> /\ ReadChunks[k] = <<SuccessChunk>>
      BY <1>1, <2>2, <2>5, <3>1
    <3>3. Agree(ReadChunks)
      <4>1. CheckChunks(ReadChunks) = "Success"
        BY <2>5 DEF Compared
      <4> QED BY <3>1, <4>1, SuccessIsAgreement
    <3>4. Parses(AllRead[n]) /\ ReadChunks[n] = LogToChunks(AllRead[n])
      BY <3>2
    <3>5. PICK j \in DOMAIN ReadChunks[n] : ReadChunks[n][j].kind \in ErrorKinds
      <4>1. PICK i \in DOMAIN AllRead[n] : AllRead[n][i].kind \in ErrorKinds
        OBVIOUS
      <4>2. AllRead[n] \in Seq(Lines) /\ Parses(AllRead[n])
        BY <3>2, <3>4
      <4>3. PICK j \in DOMAIN LogToChunks(AllRead[n]) :
              LogToChunks(AllRead[n])[j].kind = AllRead[n][i].kind
        BY <4>1, <4>2, ChunkKinds
      <4> QED BY <3>4, <4>1, <4>3
    <3>6. j \in DOMAIN ReadChunks[m] /\ ReadChunks[n][j].canonical = ReadChunks[m][j].canonical
      BY <3>1, <3>3, <3>5, AgreeAt
    <3>7. ReadChunks[n][j] \in ReadableChunks
      BY <3>2, <3>4, <3>5, PrintedChunk
    <3>8. ReadChunks[m][j] \in ReadableChunks \cup {SuccessChunk}
      <4>1. ASSUME AllRead[m] = << >>, ReadChunks[m] = <<SuccessChunk>>
            PROVE  ReadChunks[m][j] = SuccessChunk
        BY <3>6, <4>1
      <4>2. ASSUME Parses(AllRead[m]), ReadChunks[m] = LogToChunks(AllRead[m])
            PROVE  ReadChunks[m][j] \in ReadableChunks
        BY <3>2, <3>6, <4>2, PrintedChunk
      <4> QED BY <3>2, <4>1, <4>2
    <3>9. ReadChunks[m][j].kind \in ErrorKinds
      BY <3>5, <3>6, <3>7, <3>8, TextsAssumption
    <3>10. Parses(AllRead[m]) /\ ReadChunks[m] = LogToChunks(AllRead[m])
      <4>1. ASSUME ReadChunks[m] = <<SuccessChunk>> PROVE FALSE
        <5>1. ReadChunks[m][j] = SuccessChunk
          BY <3>6, <4>1
        <5> QED BY <3>9, <5>1 DEF SuccessChunk, ErrorKinds
      <4> QED BY <3>2, <4>1
    <3>11. PICK i \in DOMAIN AllRead[m] : AllRead[m][i].kind = ReadChunks[m][j].kind
      BY <3>2, <3>6, <3>10, ChunkKinds
    <3> QED BY <3>9, <3>11
  <2> QED BY <2>1, <2>3, <2>4, <2>5, WaysToReturn
<1>3. WarningsAreNoFailure
  <2> SUFFICES ASSUME output.status = "Failure", \A n \in DOMAIN AllRead : AllRead[n] # << >>,
                      \A n, m \in DOMAIN AllRead : Said(AllRead[n]) = Said(AllRead[m]),
                      \A n \in DOMAIN AllRead :
                        \A i \in DOMAIN AllRead[n] : AllRead[n][i].kind # "Bug"
               PROVE  FALSE
    BY DEF WarningsAreNoFailure
  <2>1. output # NoOutput /\ output # FromPanic("result.rs") /\ output # Success
    BY DEF NoOutput, FromPanic, Success
  <2>2. todo = << >> /\ Compared
    BY <2>1, WaysToReturn
  <2>3. /\ DOMAIN AllRead = 1 .. Len(AllRead) /\ DOMAIN ReadChunks = 1 .. Len(AllRead)
        /\ ReadChunks \in Seq(Seq(Chunks)) /\ ReadChunks # << >>
    BY <1>1, <2>2
  <2>4. \A n \in DOMAIN ReadChunks :
          AllRead[n] \in Seq(Lines) /\ Parses(AllRead[n])
          /\ ReadChunks[n] = LogToChunks(AllRead[n])
    BY <1>1, <2>2, <2>3
  <2>5. \A n, m \in DOMAIN ReadChunks : ReadChunks[n] = ReadChunks[m]
    <3> SUFFICES ASSUME NEW n \in DOMAIN ReadChunks, NEW m \in DOMAIN ReadChunks
                 PROVE  ReadChunks[n] = ReadChunks[m]
      OBVIOUS
    <3>1. Said(AllRead[n]) = Said(AllRead[m])
      BY <2>3
    <3>2. /\ LogToChunks(Said(AllRead[n])) = LogToChunks(AllRead[n])
          /\ LogToChunks(Said(AllRead[m])) = LogToChunks(AllRead[m])
      BY <2>4, SaidChunks
    <3> QED BY <2>4, <3>1, <3>2
  <2>6. \A n \in DOMAIN ReadChunks : \A k \in DOMAIN ReadChunks[n] : ReadChunks[n][k].kind # "Bug"
    <3> SUFFICES ASSUME NEW n \in DOMAIN ReadChunks, NEW k \in DOMAIN ReadChunks[n]
                 PROVE  ReadChunks[n][k].kind # "Bug"
      OBVIOUS
    <3> DEFINE log == AllRead[n]
    <3>1. log \in Seq(Lines) /\ Parses(log) /\ ReadChunks[n] = LogToChunks(log)
      BY <2>4
    <3> HIDE DEF log
    <3>2. PICK i \in DOMAIN log : log[i].kind = ReadChunks[n][k].kind
      BY <3>1, ChunkKinds
    <3> QED BY <2>3, <3>2 DEF log
  <2>7. Agree(ReadChunks)
    <3>1. 1 \in DOMAIN ReadChunks
      BY <2>3
    <3>2. \A n, m \in DOMAIN ReadChunks :
            /\ Len(ReadChunks[n]) = Len(ReadChunks[m])
            /\ \A i \in DOMAIN ReadChunks[1] : ReadChunks[n][i].canonical = ReadChunks[m][i].canonical
      <4> SUFFICES ASSUME NEW n \in DOMAIN ReadChunks, NEW m \in DOMAIN ReadChunks
                   PROVE  /\ Len(ReadChunks[n]) = Len(ReadChunks[m])
                          /\ \A i \in DOMAIN ReadChunks[1] :
                               ReadChunks[n][i].canonical = ReadChunks[m][i].canonical
        OBVIOUS
      <4>1. ReadChunks[n] = ReadChunks[m]
        BY <2>5
      <4> QED BY <4>1
    <3> QED BY <2>6, <3>2 DEF Agree
  <2>8. CheckChunks(ReadChunks) = "Success"
    BY <2>3, <2>7, SuccessIsAgreement
  <2> QED BY <2>2, <2>8 DEF Compared
<1> QED BY <1>2, <1>3 DEF VerdictsFollowWhatWasSaid

(* An error that some compilers report and others do not is never judged a *)
(* success, and a difference in warnings only no failure.                  *)
THEOREM VerdictsFollow == Spec => []VerdictsFollowWhatWasSaid
<1>1. ExecutorInv => VerdictsFollowWhatWasSaid
  BY VerdictsOfRuns
<1> QED BY <1>1, RunsAreLogged, PTL

-----------------------------------------------------------------------------
(***************************************************************************)
(* Results of two inputs.                                                  *)
(***************************************************************************)

(* Runs that are judged to agree report the same errors: a chunk with the  *)
(* message of an error is an error.                                        *)
LEMMA SuccessHasSameErrors ==
  ASSUME ExecutorInv, output.status = "Success"
  PROVE  ~ErrorsDiffer(output)
<1>1. /\ output # NoOutput /\ output # FromPanic("result.rs")
      /\ DOMAIN CollectErrors(output.chunks) = DOMAIN output.chunks
  BY DEF NoOutput, FromPanic, CollectErrors
<1>2. CASE output = Success
  BY <1>1, <1>2 DEF Success, ErrorsDiffer
<1>3. CASE todo = << >> /\ Compared
  <2> DEFINE chunks == ReadChunks
  <2>1. output.chunks = chunks /\ CheckChunks(chunks) = "Success"
    BY <1>3 DEF Compared
  <2>2. /\ chunks \in Seq(Seq(Chunks)) /\ Len(chunks) = Len(AllRead) /\ Len(AllRead) > 0
        /\ AllRead \in Seq(ReadLogs) /\ AllRead \in Seq(Seq(Lines))
        /\ \A n \in 1 .. Len(AllRead) :
             \/ Parses(AllRead[n]) /\ chunks[n] = LogToChunks(AllRead[n])
             \/ AllRead[n] = << >> /\ chunks[n] = <<SuccessChunk>>
    BY <1>3, ChunksOfRead
  <2> HIDE DEF chunks
  <2>3. /\ chunks # << >> /\ DOMAIN chunks = 1 .. Len(AllRead)
        /\ \A n \in 1 .. Len(AllRead) : AllRead[n] \in ReadLogs /\ AllRead[n] \in Seq(Lines)
    <3>1. Len(<< >>) = 0
      OBVIOUS
    <3>2. DOMAIN chunks = 1 .. Len(AllRead)
      BY <2>2
    <3>3. \A n \in 1 .. Len(AllRead) : AllRead[n] \in ReadLogs /\ AllRead[n] \in Seq(Lines)
      BY <2>2
    <3> QED BY <2>2, <3>1, <3>2, <3>3
  <2>4. Agree(chunks)
    BY <2>1, <2>2, <2>3, SuccessIsAgreement
  <2>5. ASSUME NEW n \in DOMAIN chunks, NEW j \in DOMAIN chunks[n]
        PROVE  chunks[n][j] \in ReadableChunks \cup {SuccessChunk}
    <3>1. CASE AllRead[n] = << >> /\ chunks[n] = <<SuccessChunk>>
      BY <2>5, <3>1
    <3>2. CASE Parses(AllRead[n]) /\ chunks[n] = LogToChunks(AllRead[n])
      BY <2>3, <2>5, <3>2, PrintedChunk
    <3> QED BY <2>2, <2>3, <3>1, <3>2
  <2>6. ASSUME NEW n \in DOMAIN chunks, NEW m \in DOMAIN chunks,
               NEW j \in DOMAIN chunks[n], chunks[n][j].kind \in ErrorKinds
        PROVE  /\ j \in DOMAIN chunks[m] /\ chunks[m][j].kind \in ErrorKinds
               /\ chunks[n][j].canonical = chunks[m][j].canonical
    <3>1. j \in DOMAIN chunks[m] /\ chunks[n][j].canonical = chunks[m][j].canonical
      BY <2>2, <2>3, <2>4, AgreeAt
    <3>2. /\ chunks[n][j] \in ReadableChunks \cup {SuccessChunk}
          /\ chunks[m][j] \in ReadableChunks \cup {SuccessChunk}
      BY <2>5, <3>1
    <3> QED BY <2>6, <3>1, <3>2, TextsAssumption
  <2> DEFINE Errors(n) == {chunks[n][i].canonical :
                             i \in {j \in DOMAIN chunks[n] : chunks[n][j].kind \in ErrorKinds}}
  <2>7. ASSUME NEW n \in DOMAIN chunks, NEW m \in DOMAIN chunks PROVE Errors(n) \subseteq Errors(m)
    BY <2>6
  <2>8. \A n, m \in DOMAIN chunks : Errors(n) = Errors(m)
    BY <2>7
  <2>9. CollectErrors(chunks) = [n \in DOMAIN chunks |-> Errors(n)]
    BY DEF CollectErrors
  <2> HIDE DEF Errors
  <2> QED BY <2>1, <2>8, <2>9 DEF ErrorsDiffer
<1> QED BY <1>1, <1>2, <1>3, WaysToReturn

(* What is known of every result that was returned.                        *)
Returnable(r) == WellFormed(r) /\ (r.status = "Success" => ~ErrorsDiffer(r))

LEMMA OutputIsReturnable ==
  ASSUME ExecutorInv, output # NoOutput
  PROVE  Returnable(output)
<1>1. WellFormed(output)
  <2>1. WellFormed(FromPanic("result.rs"))
    BY DEF WellFormed, FromPanic, Status
  <2>2. output = IF BuildPanics(results) THEN FromPanic("result.rs") ELSE Build(results)
    BY DEF ExecutorInv, OutputInv
  <2> QED BY <2>1, <2>2, BuildIsWellFormed
<1> QED BY <1>1, SuccessHasSameErrors DEF Returnable

PastInv == \A r \in past : Returnable(r)

(* However many inputs are executed, a failure whose runs report different *)
(* errors is similar to no success, and no failure is similar to a panic:  *)
(* what hides a failure from the manager is a failure, or agrees with it   *)
(* on the errors of every run.                                             *)
THEOREM DifferencesAreSeen == Spec => []DifferencesStandOut
<1>1. Init => PastInv
  BY DEF Init, PastInv
<1>2. ExecutorInv /\ PastInv /\ [Next]_vars => PastInv'
  <2> SUFFICES ASSUME ExecutorInv, PastInv, [Next]_vars PROVE PastInv'
    OBVIOUS
  <2>1. CASE NextInput
    <3>1. past' = past \cup {output} /\ output # NoOutput
      BY <2>1 DEF NextInput
    <3>2. Returnable(output)
      BY <3>1, OutputIsReturnable
    <3> QED BY <3>1, <3>2 DEF PastInv
  <2>2. CASE UNCHANGED past
    BY <2>2 DEF PastInv
  <2> QED BY <2>1, <2>2 DEF Next, ExecuteRun, BuildResult, Returned, vars
<1>3. ExecutorInv /\ PastInv => DifferencesStandOut
  <2> SUFFICES ASSUME ExecutorInv, PastInv, output.status = "Failure",
                      NEW r \in past, ResultSimilar(output, r)
               PROVE  r.status # "Panic" /\ (r.status = "Success" => ~ErrorsDiffer(output))
    BY DEF DifferencesStandOut
  <2>1. Returnable(r) /\ Returnable(output)
    BY OutputIsReturnable DEF PastInv, NoOutput
  <2>2. r.status # "Panic"
    BY <2>1, PanicIsNoFailure DEF Returnable
  <2>3. ASSUME r.status = "Success" PROVE ~ErrorsDiffer(output)
    <3>1. CollectErrors(output.chunks) = CollectErrors(r.chunks)
      BY <2>2 DEF ResultSimilar
    <3>2. ~ErrorsDiffer(r)
      BY <2>1, <2>3 DEF Returnable
    <3> QED BY <3>1, <3>2 DEF ErrorsDiffer
  <2> QED BY <2>2, <2>3
<1> QED BY <1>1, <1>2, <1>3, RunsAreLogged, PTL DEF Spec
=============================================================================
