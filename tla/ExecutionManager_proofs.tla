----------------------- MODULE ExecutionManager_proofs -----------------------
(***************************************************************************)
(* Theorems about ExecutionManager, for every set of threads, inputs and   *)
(* results and every reflexive and symmetric R::similar.                   *)
(***************************************************************************)
EXTENDS ExecutionManager, SequenceTheorems, TLAPS

HoldsResult == {"executed", "checked", "pool_locked", "both_locked"}

(* What a thread's locals are at each label.                               *)
LocalsInv ==
  \A t \in Thread :
    /\ pc[t] # "idle" => input[t] \in Input
    /\ pc[t] \in HoldsResult => result[t] \in Result

(* Who is in a critical section holds its mutex.                           *)
LockInv ==
  \A t \in Thread :
    /\ pool_lock = t <=> pc[t] \in {"pool_locked", "both_locked"}
    /\ map_lock = t <=> pc[t] = "both_locked"

(* No input is executed twice.                                             *)
OnceInv ==
  \A t \in Thread :
    pc[t] # "idle" =>
      /\ input[t] \notin todo
      /\ input[t] \notin DOMAIN verdict
      /\ \A u \in Thread : pc[u] # "idle" /\ input[u] = input[t] => u = t

TodoInv == todo \cap DOMAIN verdict = {}

(* Between the check and the insertion, a bug that still has no similar    *)
(* member in the pool is one the thread will announce.                     *)
AnnounceInv ==
  Api = "execute_check_new_bug" =>
    \A t \in Thread :
      /\ pc[t] \in {"checked", "pool_locked", "both_locked"}
      /\ IsBug(result[t])
      /\ ~ \E x \in pool : Similar(result[t], x)
      => bug[t]

-----------------------------------------------------------------------------
(* add_result keeps the inputs of every cluster a sequence of inputs.      *)
LEMMA MapKeepsSequences ==
  ASSUME NEW r \in Result, NEW i \in Input,
         DOMAIN input_map \subseteq Result,
         \A x \in DOMAIN input_map : input_map[x] \in Seq(Input),
         InsertIntoMap(r, i)
  PROVE  /\ DOMAIN input_map' \subseteq Result
         /\ \A x \in DOMAIN input_map' : input_map'[x] \in Seq(Input)
<1>1. CASE ~SaveInput
  BY <1>1 DEF InsertIntoMap
<1>2. ASSUME NEW x \in DOMAIN input_map, input_map' = [input_map EXCEPT ![x] = Append(@, i)]
      PROVE  /\ DOMAIN input_map' \subseteq Result
             /\ \A y \in DOMAIN input_map' : input_map'[y] \in Seq(Input)
  <2>1. Append(input_map[x], i) \in Seq(Input)
    BY AppendProperties
  <2>2. DOMAIN input_map' = DOMAIN input_map
    BY <1>2
  <2>3. \A y \in DOMAIN input_map : input_map'[y] = IF y = x THEN Append(input_map[x], i) ELSE input_map[y]
    BY <1>2
  <2>4. QED
    BY <2>1, <2>2, <2>3
<1>3. CASE input_map' = Put(input_map, r, <<i>>)
  <2>1. <<i>> \in Seq(Input)
    OBVIOUS
  <2>2. QED
    BY <1>3, <2>1 DEF Put
<1>4. QED
  BY <1>1, <1>2, <1>3 DEF InsertIntoMap

(***************************************************************************)
(* Every variable has its type, and a thread that works has an input and,  *)
(* once executed, a result (execute_without_save, mod.rs:160-171).         *)
(***************************************************************************)
THEOREM TypeCorrect == Spec => [](TypeOK /\ LocalsInv)
<1> USE ManagerAssumption DEF TypeOK, LocalsInv, HoldsResult, Labels
<1>1. Init => TypeOK /\ LocalsInv
  BY DEF Init, EmptyMap
<1>2. TypeOK /\ LocalsInv /\ [Next]_vars => TypeOK' /\ LocalsInv'
  <2> SUFFICES ASSUME TypeOK, LocalsInv, [Next]_vars PROVE TypeOK' /\ LocalsInv'
    OBVIOUS
  <2> USE DEF clustering, locks, threads, panics, Goto
  <2>1. ASSUME NEW t \in Thread, NEW i \in Input, Take(t, i) PROVE TypeOK' /\ LocalsInv'
    BY <2>1 DEF Take
  <2>2. ASSUME NEW t \in Thread, NEW r \in Result, ExecuteReturns(t, r)
        PROVE TypeOK' /\ LocalsInv'
    BY <2>2 DEF ExecuteReturns
  <2>3. ASSUME NEW t \in Thread, NEW r \in PanicResult, ExecutePanics(t, r)
        PROVE TypeOK' /\ LocalsInv'
    BY <2>3 DEF ExecutePanics, HookInserts, Put
  <2>4. ASSUME NEW t \in Thread, NEW r \in PanicResult, PanicCaughtInside(t, r)
        PROVE TypeOK' /\ LocalsInv'
    BY <2>4 DEF PanicCaughtInside, HookInserts, Put
  <2>5. ASSUME NEW t \in Thread, PickUpPanic(t) PROVE TypeOK' /\ LocalsInv'
    BY <2>5 DEF PickUpPanic, Without
  <2>6. ASSUME NEW t \in Thread, CheckSeen(t) PROVE TypeOK' /\ LocalsInv'
    BY <2>6 DEF CheckSeen
  <2>7. ASSUME NEW t \in Thread, SkipNonBug(t) PROVE TypeOK' /\ LocalsInv'
    BY <2>7 DEF SkipNonBug, Return, Put
  <2>8. ASSUME NEW t \in Thread, LockPool(t) PROVE TypeOK' /\ LocalsInv'
    BY <2>8 DEF LockPool, CallsAddResult
  <2>9. ASSUME NEW t \in Thread, LockMap(t) PROVE TypeOK' /\ LocalsInv'
    BY <2>9 DEF LockMap
  <2>10. ASSUME NEW t \in Thread, AddResult(t) PROVE TypeOK' /\ LocalsInv'
    <3>1. input[t] \in Input /\ result[t] \in Result
      BY <2>10 DEF AddResult
    <3>2. DOMAIN input_map' \subseteq Result /\ \A x \in DOMAIN input_map' : input_map'[x] \in Seq(Input)
      BY <2>10, <3>1, MapKeepsSequences DEF AddResult
    <3>3. pool' \subseteq Result
      BY <2>10, <3>1 DEF AddResult, InsertIntoPool
    <3>4. DOMAIN verdict' \subseteq Input
          /\ \A i \in DOMAIN verdict' : verdict'[i] \in [result : Result, new : BOOLEAN]
      BY <2>10, <3>1 DEF AddResult, Return, Put
    <3>5. QED
      BY <2>10, <3>1, <3>2, <3>3, <3>4 DEF AddResult, Return
  <2>11. CASE GenerateReport
    BY <2>11 DEF GenerateReport
  <2>12. CASE UNCHANGED vars
    BY <2>12 DEF vars
  <2>13. QED
    BY <2>1, <2>2, <2>3, <2>4, <2>5, <2>6, <2>7, <2>8, <2>9, <2>10, <2>11, <2>12
       DEF Next, Executes, Proceeds, Terminated
<1>3. QED
  BY <1>1, <1>2, PTL DEF Spec

-----------------------------------------------------------------------------
(***************************************************************************)
(* The mutexes exclude each other's critical sections, and no input is     *)
(* executed twice (par_iter in generate.rs:54-63, check.rs:156-177).       *)
(***************************************************************************)
Discipline == LockInv /\ OnceInv /\ TodoInv

LEMMA MutexAndOnce == Spec => []Discipline
<1> USE ManagerAssumption DEF Discipline, LockInv, OnceInv, TodoInv
<1>1. Init => Discipline
  BY DEF Init, EmptyMap
<1>2. TypeOK /\ LocalsInv /\ Discipline /\ [Next]_vars => Discipline'
  <2> SUFFICES ASSUME TypeOK, LocalsInv, Discipline, [Next]_vars PROVE Discipline'
    OBVIOUS
  <2> USE DEF TypeOK, LocalsInv
  <2> USE DEF clustering, locks, threads, panics, Goto
  <2>1. ASSUME NEW t \in Thread, NEW i \in Input, Take(t, i) PROVE Discipline'
    BY <2>1 DEF Take
  <2>2. ASSUME NEW t \in Thread, NEW r \in Result, ExecuteReturns(t, r) PROVE Discipline'
    BY <2>2 DEF ExecuteReturns
  <2>3. ASSUME NEW t \in Thread, NEW r \in PanicResult, ExecutePanics(t, r) PROVE Discipline'
    BY <2>3 DEF ExecutePanics, HookInserts, Put
  <2>4. ASSUME NEW t \in Thread, NEW r \in PanicResult, PanicCaughtInside(t, r) PROVE Discipline'
    BY <2>4 DEF PanicCaughtInside, HookInserts, Put
  <2>5. ASSUME NEW t \in Thread, PickUpPanic(t) PROVE Discipline'
    BY <2>5 DEF PickUpPanic, Without
  <2>6. ASSUME NEW t \in Thread, CheckSeen(t) PROVE Discipline'
    BY <2>6 DEF CheckSeen
  <2>7. ASSUME NEW t \in Thread, SkipNonBug(t) PROVE Discipline'
    BY <2>7 DEF SkipNonBug, Return, Put
  <2>8. ASSUME NEW t \in Thread, LockPool(t) PROVE Discipline'
    BY <2>8 DEF LockPool, CallsAddResult
  <2>9. ASSUME NEW t \in Thread, LockMap(t) PROVE Discipline'
    BY <2>9 DEF LockMap
  <2>10. ASSUME NEW t \in Thread, AddResult(t) PROVE Discipline'
    BY <2>10 DEF AddResult, Return, InsertIntoPool, InsertIntoMap, Put
  <2>11. CASE GenerateReport
    BY <2>11 DEF GenerateReport
  <2>12. CASE UNCHANGED vars
    BY <2>12 DEF vars
  <2>13. QED
    BY <2>1, <2>2, <2>3, <2>4, <2>5, <2>6, <2>7, <2>8, <2>9, <2>10, <2>11, <2>12
       DEF Next, Executes, Proceeds, Terminated
<1>3. QED
  BY <1>1, <1>2, TypeCorrect, PTL DEF Spec

-----------------------------------------------------------------------------
(* Only add_result changes the pool, and it never drops a member.          *)
LEMMA PoolSteps ==
  ASSUME [Next]_vars
  PROVE  \/ UNCHANGED <<pool, input_map>>
         \/ \E t \in Thread : AddResult(t)
<1> USE DEF clustering, locks, threads, panics
<1> QED
  BY DEF Next, Executes, Proceeds, Terminated, Take, ExecuteReturns, ExecutePanics,
         PanicCaughtInside, PickUpPanic, CheckSeen, SkipNonBug, LockPool, LockMap,
         GenerateReport, vars

(* Only a call that returns changes the verdicts.                          *)
LEMMA ClusteringSteps ==
  ASSUME [Next]_vars
  PROVE  \/ UNCHANGED <<pool, input_map, verdict>>
         \/ \E t \in Thread : AddResult(t) \/ SkipNonBug(t)
<1> USE DEF clustering, locks, threads, panics
<1> QED
  BY DEF Next, Executes, Proceeds, Terminated, Take, ExecuteReturns, ExecutePanics,
         PanicCaughtInside, PickUpPanic, CheckSeen, LockPool, LockMap,
         GenerateReport, vars

(***************************************************************************)
(* No two results in the pool are similar, whatever threads interleave     *)
(* between the check and the insertion (mod.rs:124-131).                   *)
(***************************************************************************)
THEOREM PoolIsDissimilar == Spec => []PoolPairwiseDissimilar
<1>1. Init => PoolPairwiseDissimilar
  BY DEF Init, PoolPairwiseDissimilar
<1>2. TypeOK /\ LocalsInv /\ PoolPairwiseDissimilar /\ [Next]_vars => PoolPairwiseDissimilar'
  <2> SUFFICES ASSUME TypeOK, LocalsInv, PoolPairwiseDissimilar, [Next]_vars
               PROVE  PoolPairwiseDissimilar'
    OBVIOUS
  <2>1. CASE UNCHANGED pool
    BY <2>1 DEF PoolPairwiseDissimilar
  <2>2. ASSUME NEW t \in Thread, AddResult(t) PROVE PoolPairwiseDissimilar'
    <3>1. result[t] \in Result /\ pool \subseteq Result
      BY <2>2 DEF AddResult, TypeOK, LocalsInv, HoldsResult
    <3>2. QED
      BY <2>2, <3>1, SimilarAssumption DEF AddResult, InsertIntoPool, PoolPairwiseDissimilar
  <2>3. QED
    BY <2>1, <2>2, PoolSteps
<1>3. QED
  BY <1>1, <1>2, TypeCorrect, PTL DEF Spec

(***************************************************************************)
(* With save_input the clusters of the report are the pool (mod.rs:128-148).*)
(***************************************************************************)
THEOREM KeysAreThePool == Spec => []KeysArePool
<1>1. Init => KeysArePool
  BY DEF Init, KeysArePool, EmptyMap
<1>2. KeysArePool /\ [Next]_vars => KeysArePool'
  <2> SUFFICES ASSUME KeysArePool, [Next]_vars PROVE KeysArePool'
    OBVIOUS
  <2>1. CASE UNCHANGED <<pool, input_map>>
    BY <2>1 DEF KeysArePool
  <2>2. ASSUME NEW t \in Thread, AddResult(t) PROVE KeysArePool'
    BY <2>2 DEF AddResult, InsertIntoPool, InsertIntoMap, Put, KeysArePool
  <2>3. QED
    BY <2>1, <2>2, PoolSteps
<1>3. QED
  BY <1>1, <1>2, PTL DEF Spec

(***************************************************************************)
(* The result of every finished bug has a similar member in the pool: no   *)
(* order of the threads loses one (mod.rs:124-131).                        *)
(***************************************************************************)
THEOREM BugsAreRepresented == Spec => []EveryBugRepresented
<1>1. Init => EveryBugRepresented
  BY DEF Init, EveryBugRepresented, EmptyMap
<1>2. TypeOK /\ LocalsInv /\ EveryBugRepresented /\ [Next]_vars => EveryBugRepresented'
  <2> SUFFICES ASSUME TypeOK, LocalsInv, EveryBugRepresented, [Next]_vars
               PROVE  EveryBugRepresented'
    OBVIOUS
  <2>1. ASSUME NEW t \in Thread, AddResult(t) PROVE EveryBugRepresented'
    <3>1. result[t] \in Result
      BY <2>1 DEF AddResult, LocalsInv, HoldsResult
    <3>2. pool \subseteq pool' /\ \E x \in pool' : Similar(result[t], x)
      BY <2>1, <3>1, SimilarAssumption DEF AddResult, InsertIntoPool
    <3>3. verdict' = Put(verdict, input[t], [result |-> result[t], new |-> bug[t]])
      BY <2>1 DEF AddResult, Return
    <3>4. QED
      BY <3>2, <3>3 DEF EveryBugRepresented, Put
  <2>2. ASSUME NEW t \in Thread, SkipNonBug(t) PROVE EveryBugRepresented'
    <3>1. verdict' = Put(verdict, input[t], [result |-> result[t], new |-> FALSE])
      BY <2>2 DEF SkipNonBug, Return
    <3>2. ~IsBug(result[t]) /\ pool' = pool
      BY <2>2 DEF SkipNonBug
    <3>3. QED
      BY <3>1, <3>2 DEF EveryBugRepresented, Put
  <2>3. CASE UNCHANGED <<pool, verdict>>
    BY <2>3 DEF EveryBugRepresented
  <2>4. QED
    BY <2>1, <2>2, <2>3, ClusteringSteps
<1>3. QED
  BY <1>1, <1>2, TypeCorrect, PTL DEF Spec

(* What is used of the threads below.                                      *)
Announced == TypeOK /\ LocalsInv /\ Discipline

(* Between the check and the insertion a thread knows whether it announces.*)
LEMMA AnnouncingIsInvariant == Spec => []AnnounceInv
<1>1. Init => AnnounceInv
  BY DEF Init, AnnounceInv
<1>2. Announced /\ AnnounceInv /\ [Next]_vars => AnnounceInv'
  <2> SUFFICES ASSUME Announced, AnnounceInv, [Next]_vars, Api = "execute_check_new_bug"
               PROVE  AnnounceInv'
    BY DEF AnnounceInv
  <2>1. pool \subseteq pool'
    BY PoolSteps DEF AddResult, InsertIntoPool
  <2> USE DEF Announced, AnnounceInv, TypeOK
  <2> USE DEF clustering, locks, threads, panics, Goto
  <2>2. ASSUME NEW t \in Thread, NEW i \in Input, Take(t, i) PROVE AnnounceInv'
    BY <2>2, <2>1 DEF Take
  <2>3. ASSUME NEW t \in Thread, NEW r \in Result, ExecuteReturns(t, r) PROVE AnnounceInv'
    BY <2>3, <2>1 DEF ExecuteReturns
  <2>4. ASSUME NEW t \in Thread, NEW r \in PanicResult, ExecutePanics(t, r) PROVE AnnounceInv'
    BY <2>4, <2>1 DEF ExecutePanics, HookInserts, Put
  <2>5. ASSUME NEW t \in Thread, NEW r \in PanicResult, PanicCaughtInside(t, r) PROVE AnnounceInv'
    BY <2>5, <2>1 DEF PanicCaughtInside, HookInserts, Put
  <2>6. ASSUME NEW t \in Thread, PickUpPanic(t) PROVE AnnounceInv'
    BY <2>6, <2>1 DEF PickUpPanic, Without
  <2>7. ASSUME NEW t \in Thread, CheckSeen(t) PROVE AnnounceInv'
    BY <2>7, <2>1 DEF CheckSeen
  <2>8. ASSUME NEW t \in Thread, SkipNonBug(t) PROVE AnnounceInv'
    BY <2>8, <2>1 DEF SkipNonBug, Return
  <2>9. ASSUME NEW t \in Thread, LockPool(t) PROVE AnnounceInv'
    BY <2>9, <2>1 DEF LockPool, CallsAddResult
  <2>10. ASSUME NEW t \in Thread, LockMap(t) PROVE AnnounceInv'
    BY <2>10, <2>1 DEF LockMap
  <2>11. ASSUME NEW t \in Thread, AddResult(t) PROVE AnnounceInv'
    BY <2>11, <2>1 DEF AddResult, Return
  <2>12. CASE GenerateReport
    BY <2>12, <2>1 DEF GenerateReport
  <2>13. CASE UNCHANGED vars
    BY <2>13, <2>1 DEF vars
  <2>14. QED
    BY <2>2, <2>3, <2>4, <2>5, <2>6, <2>7, <2>8, <2>9, <2>10, <2>11, <2>12, <2>13
       DEF Next, Executes, Proceeds, Terminated
<1>3. QED
  BY <1>1, <1>2, TypeCorrect, MutexAndOnce, PTL DEF Spec, Announced

(***************************************************************************)
(* Every bug that became a representative was announced as new by the call *)
(* that inserted it (execute_check_new_bug, mod.rs:188-197).               *)
(***************************************************************************)
THEOREM FirstSightIsReported == Spec => []FirstSightReported
<1>1. Init => FirstSightReported
  BY DEF Init, FirstSightReported
<1>2. Announced /\ AnnounceInv /\ FirstSightReported /\ [Next]_vars => FirstSightReported'
  <2> SUFFICES ASSUME Announced, AnnounceInv, FirstSightReported, [Next]_vars,
                      Api = "execute_check_new_bug"
               PROVE  FirstSightReported'
    BY DEF FirstSightReported
  <2>1. ASSUME NEW t \in Thread, AddResult(t) PROVE FirstSightReported'
    <3>1. verdict' = Put(verdict, input[t], [result |-> result[t], new |-> bug[t]])
      BY <2>1 DEF AddResult, Return
    <3>2. input[t] \notin DOMAIN verdict
      BY <2>1 DEF AddResult, Announced, Discipline, OnceInv
    <3>3. ASSUME NEW x \in pool', IsBug(x)
          PROVE  \E i \in DOMAIN verdict' : verdict'[i].result = x /\ verdict'[i].new
      <4>1. CASE x \in pool
        <5>1. PICK i \in DOMAIN verdict : verdict[i].result = x /\ verdict[i].new
          BY <3>3, <4>1 DEF FirstSightReported
        <5>2. QED
          BY <3>1, <3>2, <5>1 DEF Put
      <4>2. CASE x \notin pool
        <5>1. x = result[t] /\ ~ \E y \in pool : Similar(result[t], y)
          BY <2>1, <3>3, <4>2 DEF AddResult, InsertIntoPool
        <5>2. bug[t]
          BY <2>1, <3>3, <5>1 DEF AddResult, AnnounceInv
        <5>3. QED
          BY <3>1, <5>1, <5>2 DEF Put
      <4>3. QED
        BY <4>1, <4>2
    <3>4. QED
      BY <3>3 DEF FirstSightReported
  <2>2. ASSUME NEW t \in Thread, SkipNonBug(t) PROVE FirstSightReported'
    BY <2>2 DEF SkipNonBug
  <2>3. CASE UNCHANGED <<pool, verdict>>
    BY <2>3 DEF FirstSightReported
  <2>4. QED
    BY <2>1, <2>2, <2>3, ClusteringSteps
<1>3. QED
  BY <1>1, <1>2, AnnouncingIsInvariant, TypeCorrect, MutexAndOnce, PTL DEF Spec, Announced

(***************************************************************************)
(* A panic is picked up by the execution it unwound (mod.rs:78-81, 163-170).*)
(***************************************************************************)
PanicInv ==
  /\ PanicPickedUpIsOwn
  /\ \A t \in Thread :
       /\ pc[t] \in {"idle", "executing", "caught"} => result[t] = None
       /\ pc[t] \in {"idle", "executing"} => raised[t] = None

THEOREM PanicsArePickedUp == Spec => []PanicPickedUpIsOwn
<1> USE ManagerAssumption DEF PanicInv, PanicPickedUpIsOwn
<1>1. Init => PanicInv
  BY DEF Init
<1>2. TypeOK /\ LocalsInv /\ PanicInv /\ [Next]_vars => PanicInv'
  <2> SUFFICES ASSUME TypeOK, LocalsInv, PanicInv, [Next]_vars PROVE PanicInv'
    OBVIOUS
  <2> USE DEF TypeOK, LocalsInv, Labels
  <2> USE DEF clustering, locks, threads, panics, Goto
  <2>1. ASSUME NEW t \in Thread, NEW i \in Input, Take(t, i) PROVE PanicInv'
    BY <2>1 DEF Take
  <2>2. ASSUME NEW t \in Thread, NEW r \in Result, ExecuteReturns(t, r) PROVE PanicInv'
    BY <2>2 DEF ExecuteReturns
  <2>3. ASSUME NEW t \in Thread, NEW r \in PanicResult, ExecutePanics(t, r) PROVE PanicInv'
    BY <2>3 DEF ExecutePanics, HookInserts, Put
  <2>4. ASSUME NEW t \in Thread, NEW r \in PanicResult, PanicCaughtInside(t, r) PROVE PanicInv'
    BY <2>4 DEF PanicCaughtInside, HookInserts, Put
  <2>5. ASSUME NEW t \in Thread, PickUpPanic(t) PROVE PanicInv'
    BY <2>5 DEF PickUpPanic, Without
  <2>6. ASSUME NEW t \in Thread, CheckSeen(t) PROVE PanicInv'
    BY <2>6 DEF CheckSeen
  <2>7. ASSUME NEW t \in Thread, SkipNonBug(t) PROVE PanicInv'
    BY <2>7 DEF SkipNonBug, Return
  <2>8. ASSUME NEW t \in Thread, LockPool(t) PROVE PanicInv'
    BY <2>8 DEF LockPool, CallsAddResult
  <2>9. ASSUME NEW t \in Thread, LockMap(t) PROVE PanicInv'
    BY <2>9 DEF LockMap
  <2>10. ASSUME NEW t \in Thread, AddResult(t) PROVE PanicInv'
    BY <2>10 DEF AddResult, Return
  <2>11. CASE GenerateReport
    BY <2>11 DEF GenerateReport
  <2>12. CASE UNCHANGED vars
    BY <2>12 DEF vars
  <2>13. QED
    BY <2>1, <2>2, <2>3, <2>4, <2>5, <2>6, <2>7, <2>8, <2>9, <2>10, <2>11, <2>12
       DEF Next, Executes, Proceeds, Terminated
<1>3. QED
  BY <1>1, <1>2, TypeCorrect, PTL DEF Spec, PanicInv

-----------------------------------------------------------------------------
(***************************************************************************)
(* What a call returns.                                                    *)
(***************************************************************************)

(* Only a bug is answered with true, and only by execute_check_new_bug.    *)
BugInv ==
  \A t \in Thread : bug[t] =>
    /\ Api = "execute_check_new_bug"
    /\ pc[t] \in {"checked", "pool_locked", "both_locked"}
    /\ IsBug(result[t])

LEMMA OnlyBugsAreNew == Spec => []BugInv
<1> USE ManagerAssumption DEF BugInv
<1>1. Init => BugInv
  BY DEF Init
<1>2. TypeOK /\ LocalsInv /\ BugInv /\ [Next]_vars => BugInv'
  <2> SUFFICES ASSUME TypeOK, LocalsInv, BugInv, [Next]_vars PROVE BugInv'
    OBVIOUS
  <2> USE DEF TypeOK, LocalsInv, Labels
  <2> USE DEF clustering, locks, threads, panics, Goto
  <2>1. ASSUME NEW t \in Thread, NEW i \in Input, Take(t, i) PROVE BugInv'
    BY <2>1 DEF Take
  <2>2. ASSUME NEW t \in Thread, NEW r \in Result, ExecuteReturns(t, r) PROVE BugInv'
    BY <2>2 DEF ExecuteReturns
  <2>3. ASSUME NEW t \in Thread, NEW r \in PanicResult, ExecutePanics(t, r) PROVE BugInv'
    BY <2>3 DEF ExecutePanics, HookInserts, Put
  <2>4. ASSUME NEW t \in Thread, NEW r \in PanicResult, PanicCaughtInside(t, r) PROVE BugInv'
    BY <2>4 DEF PanicCaughtInside, HookInserts, Put
  <2>5. ASSUME NEW t \in Thread, PickUpPanic(t) PROVE BugInv'
    BY <2>5 DEF PickUpPanic, Without
  <2>6. ASSUME NEW t \in Thread, CheckSeen(t) PROVE BugInv'
    BY <2>6 DEF CheckSeen
  <2>7. ASSUME NEW t \in Thread, SkipNonBug(t) PROVE BugInv'
    BY <2>7 DEF SkipNonBug, Return
  <2>8. ASSUME NEW t \in Thread, LockPool(t) PROVE BugInv'
    BY <2>8 DEF LockPool, CallsAddResult
  <2>9. ASSUME NEW t \in Thread, LockMap(t) PROVE BugInv'
    BY <2>9 DEF LockMap
  <2>10. ASSUME NEW t \in Thread, AddResult(t) PROVE BugInv'
    BY <2>10 DEF AddResult, Return, InsertIntoPool
  <2>11. CASE GenerateReport
    BY <2>11 DEF GenerateReport
  <2>12. CASE UNCHANGED vars
    BY <2>12 DEF vars
  <2>13. QED
    BY <2>1, <2>2, <2>3, <2>4, <2>5, <2>6, <2>7, <2>8, <2>9, <2>10, <2>11, <2>12
       DEF Next, Executes, Proceeds, Terminated
<1>3. QED
  BY <1>1, <1>2, TypeCorrect, PTL DEF Spec

(***************************************************************************)
(* The manager with all its threads, locks and panics implements the       *)
(* atomic promise of BugClustering.                                        *)
(***************************************************************************)
THEOREM Refinement == Spec => ImplementsClustering
<1>1. Init => Promise!Init
  BY DEF Init, Promise!Init, EmptyMap, Promise!EmptyMap
<1>2. Announced /\ AnnounceInv /\ BugInv /\ [Next]_vars => [Promise!Next]_(Promise!vars)
  <2> SUFFICES ASSUME Announced, AnnounceInv, BugInv, [Next]_vars
               PROVE  [Promise!Next]_(Promise!vars)
    OBVIOUS
  <2>1. ASSUME NEW t \in Thread, AddResult(t)
        PROVE  Promise!Submit(input[t], result[t], bug[t])
    <3>1. /\ bug[t] => Api = "execute_check_new_bug" /\ IsBug(result[t])
          /\ Api = "execute_check_new_bug" /\ IsBug(result[t]) /\ ~Promise!Seen(result[t]) => bug[t]
      BY <2>1 DEF AddResult, AnnounceInv, BugInv, Promise!Seen
    <3>2. Promise!Group(input[t], result[t])
      BY <2>1 DEF AddResult, InsertIntoPool, InsertIntoMap, Put,
                  Promise!Group, Promise!Seen, Promise!Put
    <3>3. Promise!Answer(input[t], result[t], bug[t])
      BY <2>1 DEF AddResult, Return, Put, Promise!Answer, Promise!Put,
                  Announced, Discipline, OnceInv
    <3>4. QED
      BY <3>1, <3>2, <3>3 DEF Promise!Submit
  <2>2. ASSUME NEW t \in Thread, SkipNonBug(t)
        PROVE  Promise!Discard(input[t], result[t])
    BY <2>2 DEF SkipNonBug, Return, Put, Promise!Discard, Promise!Answer, Promise!Put,
                Announced, Discipline, OnceInv
  <2>3. ASSUME NEW t \in Thread, AddResult(t) \/ SkipNonBug(t)
        PROVE  input[t] \in Input /\ result[t] \in Result /\ bug[t] \in BOOLEAN
    BY <2>3 DEF AddResult, SkipNonBug, Announced, TypeOK, LocalsInv, HoldsResult
  <2>4. QED
    BY <2>1, <2>2, <2>3, ClusteringSteps DEF Promise!Next, Promise!vars, clustering
<1>3. QED
  BY <1>1, <1>2, TypeCorrect, MutexAndOnce, AnnouncingIsInvariant, OnlyBugsAreNew, PTL
     DEF Spec, ImplementsClustering, Promise!Spec, Announced

(***************************************************************************)
(* When calls are serialised, as the fuzz targets do with the RUNNER mutex *)
(* (v1v2.rs:101), a call answers true exactly for a bug that no similar    *)
(* result preceded: the manager implements the strict promise.             *)
(***************************************************************************)
Serialised == \A t, u \in Thread : t = u

(* Nothing comes between the check and the insertion.                      *)
ExactInv ==
  Api = "execute_check_new_bug" =>
    \A t \in Thread :
      pc[t] \in {"checked", "pool_locked", "both_locked"} =>
        (bug[t] <=> IsBug(result[t]) /\ ~ \E x \in pool : Similar(result[t], x))

THEOREM SerialisedRefinement == Serialised => (Spec => ImplementsStrictClustering)
<1> SUFFICES ASSUME Serialised PROVE Spec => ImplementsStrictClustering
  OBVIOUS
<1>1. Init => ExactInv
  BY DEF Init, ExactInv
<1>2. Announced /\ ExactInv /\ [Next]_vars => ExactInv'
  <2> SUFFICES ASSUME Announced, ExactInv, [Next]_vars, Api = "execute_check_new_bug"
               PROVE  ExactInv'
    BY DEF ExactInv
  <2> USE ManagerAssumption DEF Announced, ExactInv, TypeOK, LocalsInv, HoldsResult, Serialised
  <2> USE DEF clustering, locks, threads, panics, Goto
  <2>1. ASSUME NEW t \in Thread, NEW i \in Input, Take(t, i) PROVE ExactInv'
    BY <2>1 DEF Take
  <2>2. ASSUME NEW t \in Thread, NEW r \in Result, ExecuteReturns(t, r) PROVE ExactInv'
    BY <2>2 DEF ExecuteReturns
  <2>3. ASSUME NEW t \in Thread, NEW r \in PanicResult, ExecutePanics(t, r) PROVE ExactInv'
    BY <2>3 DEF ExecutePanics, HookInserts, Put
  <2>4. ASSUME NEW t \in Thread, NEW r \in PanicResult, PanicCaughtInside(t, r) PROVE ExactInv'
    BY <2>4 DEF PanicCaughtInside, HookInserts, Put
  <2>5. ASSUME NEW t \in Thread, PickUpPanic(t) PROVE ExactInv'
    BY <2>5 DEF PickUpPanic, Without
  <2>6. ASSUME NEW t \in Thread, CheckSeen(t) PROVE ExactInv'
    BY <2>6, ZenonT(60) DEF CheckSeen
  <2>7. ASSUME NEW t \in Thread, SkipNonBug(t) PROVE ExactInv'
    BY <2>7 DEF SkipNonBug, Return
  <2>8. ASSUME NEW t \in Thread, LockPool(t) PROVE ExactInv'
    BY <2>8 DEF LockPool, CallsAddResult
  <2>9. ASSUME NEW t \in Thread, LockMap(t) PROVE ExactInv'
    BY <2>9 DEF LockMap
  <2>10. ASSUME NEW t \in Thread, AddResult(t) PROVE ExactInv'
    BY <2>10 DEF AddResult, Return, InsertIntoPool
  <2>11. CASE GenerateReport
    BY <2>11 DEF GenerateReport
  <2>12. CASE UNCHANGED vars
    BY <2>12 DEF vars
  <2>13. QED
    BY <2>1, <2>2, <2>3, <2>4, <2>5, <2>6, <2>7, <2>8, <2>9, <2>10, <2>11, <2>12
       DEF Next, Executes, Proceeds, Terminated
<1>3. Init => Promise!Init
  BY DEF Init, Promise!Init, EmptyMap, Promise!EmptyMap
<1>4. Announced /\ ExactInv /\ BugInv /\ [Next]_vars => [Promise!StrictNext]_(Promise!vars)
  <2> SUFFICES ASSUME Announced, ExactInv, BugInv, [Next]_vars
               PROVE  [Promise!StrictNext]_(Promise!vars)
    OBVIOUS
  <2>1. ASSUME NEW t \in Thread, AddResult(t)
        PROVE  Promise!SubmitStrict(input[t], result[t])
    <3>1. bug[t] <=> (Api = "execute_check_new_bug" /\ IsBug(result[t]) /\ ~Promise!Seen(result[t]))
      BY <2>1 DEF AddResult, ExactInv, BugInv, Promise!Seen
    <3>2. bug[t] = (Api = "execute_check_new_bug" /\ IsBug(result[t]) /\ ~Promise!Seen(result[t]))
      <4>1. bug[t] \in BOOLEAN
        BY DEF Announced, TypeOK
      <4>2. QED
        BY <3>1, <4>1
    <3>3. Promise!Group(input[t], result[t])
      BY <2>1 DEF AddResult, InsertIntoPool, InsertIntoMap, Put,
                  Promise!Group, Promise!Seen, Promise!Put
    <3>4. Promise!Answer(input[t], result[t], bug[t])
      BY <2>1 DEF AddResult, Return, Put, Promise!Answer, Promise!Put,
                  Announced, Discipline, OnceInv
    <3>5. QED
      BY <3>2, <3>3, <3>4 DEF Promise!SubmitStrict
  <2>2. ASSUME NEW t \in Thread, SkipNonBug(t)
        PROVE  Promise!Discard(input[t], result[t])
    BY <2>2 DEF SkipNonBug, Return, Put, Promise!Discard, Promise!Answer, Promise!Put,
                Announced, Discipline, OnceInv
  <2>3. ASSUME NEW t \in Thread, AddResult(t) \/ SkipNonBug(t)
        PROVE  input[t] \in Input /\ result[t] \in Result
    BY <2>3 DEF AddResult, SkipNonBug, Announced, TypeOK, LocalsInv, HoldsResult
  <2>4. QED
    BY <2>1, <2>2, <2>3, ClusteringSteps DEF Promise!StrictNext, Promise!vars, clustering
<1>5. QED
  BY <1>1, <1>2, <1>3, <1>4, TypeCorrect, MutexAndOnce, OnlyBugsAreNew, PTL
     DEF Spec, ImplementsStrictClustering, Promise!StrictSpec, Announced

-----------------------------------------------------------------------------
(***************************************************************************)
(* The clusters, and the report handle_check prints of them.               *)
(***************************************************************************)

(* The check command adds nothing but bugs.                                *)
AddedInv ==
  Api = "add_bugs" =>
    /\ \A t \in Thread :
         /\ pc[t] # "checked"
         /\ pc[t] \in {"pool_locked", "both_locked"} => IsBug(result[t])
    /\ \A x \in DOMAIN input_map : IsBug(x)

LEMMA OnlyBugsAreAdded == Spec => []AddedInv
<1> USE DEF AddedInv
<1>1. Init => AddedInv
  BY DEF Init, EmptyMap
<1>2. TypeOK /\ LocalsInv /\ AddedInv /\ [Next]_vars => AddedInv'
  <2> SUFFICES ASSUME TypeOK, LocalsInv, AddedInv, [Next]_vars, Api = "add_bugs"
               PROVE  AddedInv'
    OBVIOUS
  <2> USE DEF TypeOK, LocalsInv, Labels
  <2> USE DEF clustering, locks, threads, panics, Goto
  <2>1. ASSUME NEW t \in Thread, NEW i \in Input, Take(t, i) PROVE AddedInv'
    BY <2>1 DEF Take
  <2>2. ASSUME NEW t \in Thread, NEW r \in Result, ExecuteReturns(t, r) PROVE AddedInv'
    BY <2>2 DEF ExecuteReturns
  <2>3. ASSUME NEW t \in Thread, NEW r \in PanicResult, ExecutePanics(t, r) PROVE AddedInv'
    BY <2>3 DEF ExecutePanics, HookInserts, Put
  <2>4. ASSUME NEW t \in Thread, NEW r \in PanicResult, PanicCaughtInside(t, r) PROVE AddedInv'
    BY <2>4 DEF PanicCaughtInside, HookInserts, Put
  <2>5. ASSUME NEW t \in Thread, PickUpPanic(t) PROVE AddedInv'
    BY <2>5 DEF PickUpPanic, Without
  <2>6. ASSUME NEW t \in Thread, CheckSeen(t) PROVE AddedInv'
    BY <2>6 DEF CheckSeen
  <2>7. ASSUME NEW t \in Thread, SkipNonBug(t) PROVE AddedInv'
    BY <2>7 DEF SkipNonBug, Return
  <2>8. ASSUME NEW t \in Thread, LockPool(t) PROVE AddedInv'
    BY <2>8 DEF LockPool, CallsAddResult
  <2>9. ASSUME NEW t \in Thread, LockMap(t) PROVE AddedInv'
    BY <2>9 DEF LockMap
  <2>10. ASSUME NEW t \in Thread, AddResult(t) PROVE AddedInv'
    BY <2>10 DEF AddResult, Return, InsertIntoMap, Put
  <2>11. CASE GenerateReport
    BY <2>11 DEF GenerateReport
  <2>12. CASE UNCHANGED vars
    BY <2>12 DEF vars
  <2>13. QED
    BY <2>1, <2>2, <2>3, <2>4, <2>5, <2>6, <2>7, <2>8, <2>9, <2>10, <2>11, <2>12
       DEF Next, Executes, Proceeds, Terminated
<1>3. QED
  BY <1>1, <1>2, TypeCorrect, PTL DEF Spec

(* Clusters hold finished inputs under similar results, no input at two    *)
(* places.                                                                 *)
FiledInv ==
  SaveInput =>
    /\ \A x \in DOMAIN input_map : \A k \in DOMAIN input_map[x] :
         /\ input_map[x][k] \in DOMAIN verdict
         /\ Similar(verdict[input_map[x][k]].result, x)
    /\ \A x, y \in DOMAIN input_map :
         \A k \in DOMAIN input_map[x], l \in DOMAIN input_map[y] :
           input_map[x][k] = input_map[y][l] => x = y /\ k = l
    /\ \A i \in DOMAIN verdict :
         (Api = "add_bugs" => IsBug(verdict[i].result)) =>
           \E x \in DOMAIN input_map : \E k \in DOMAIN input_map[x] : input_map[x][k] = i

LEMMA FilingIsInvariant == Spec => []FiledInv
<1>1. Init => FiledInv
  BY DEF Init, FiledInv, EmptyMap
<1>2. Announced /\ FiledInv /\ [Next]_vars => FiledInv'
  <2> SUFFICES ASSUME Announced, FiledInv, [Next]_vars, SaveInput PROVE FiledInv'
    BY DEF FiledInv
  <2>1. ASSUME NEW t \in Thread, AddResult(t) PROVE FiledInv'
    <3> DEFINE i == input[t]
               r == result[t]
    <3>1. /\ i \in Input /\ r \in Result /\ i \notin DOMAIN verdict
          /\ verdict' = Put(verdict, i, [result |-> r, new |-> bug[t]])
      BY <2>1 DEF AddResult, Return, Announced, LocalsInv, HoldsResult, Discipline, OnceInv
    <3>2. /\ DOMAIN verdict' = DOMAIN verdict \cup {i} /\ verdict'[i].result = r
          /\ \A j \in DOMAIN verdict : verdict'[j] = verdict[j]
      BY <3>1 DEF Put
    <3>3. \A x \in DOMAIN input_map :
            input_map[x] \in Seq(Input) /\ \A k \in DOMAIN input_map[x] : input_map[x][k] # i
      BY <3>1 DEF FiledInv, Announced, TypeOK
    <3>4. CASE \E x \in DOMAIN input_map :
                 Similar(r, x) /\ input_map' = [input_map EXCEPT ![x] = Append(@, i)]
      <4>1. PICK x \in DOMAIN input_map :
              Similar(r, x) /\ input_map' = [input_map EXCEPT ![x] = Append(@, i)]
        BY <3>4
      <4>2. /\ DOMAIN input_map' = DOMAIN input_map
            /\ \A y \in DOMAIN input_map : y # x => input_map'[y] = input_map[y]
            /\ DOMAIN input_map'[x] = DOMAIN input_map[x] \cup {Len(input_map[x]) + 1}
            /\ \A k \in DOMAIN input_map[x] : input_map'[x][k] = input_map[x][k]
            /\ input_map'[x][Len(input_map[x]) + 1] = i
        BY <3>1, <3>3, <4>1
      <4> QED
        BY <3>2, <3>3, <4>1, <4>2 DEF FiledInv
    <3>5. CASE /\ ~ \E x \in DOMAIN input_map : Similar(r, x)
               /\ input_map' = Put(input_map, r, <<i>>)
      <4>1. r \notin DOMAIN input_map /\ Similar(r, r)
        BY <3>1, <3>5, SimilarAssumption
      <4>2. /\ DOMAIN input_map' = DOMAIN input_map \cup {r}
            /\ input_map'[r] = <<i>> /\ DOMAIN <<i>> = {1} /\ <<i>>[1] = i
            /\ \A y \in DOMAIN input_map : input_map'[y] = input_map[y]
        BY <3>5, <4>1 DEF Put
      <4> QED
        BY <3>2, <3>3, <4>1, <4>2 DEF FiledInv
    <3> QED
      BY <2>1, <3>4, <3>5 DEF AddResult, InsertIntoMap
  <2>2. ASSUME NEW t \in Thread, SkipNonBug(t) PROVE FiledInv'
    <3>1. /\ Api = "add_bugs" /\ ~IsBug(result[t]) /\ input[t] \notin DOMAIN verdict
          /\ verdict' = Put(verdict, input[t], [result |-> result[t], new |-> FALSE])
          /\ input_map' = input_map
      BY <2>2 DEF SkipNonBug, Return, Announced, Discipline, OnceInv
    <3> QED
      BY <3>1 DEF FiledInv, Put
  <2>3. CASE UNCHANGED <<pool, input_map, verdict>>
    BY <2>3 DEF FiledInv
  <2> QED
    BY <2>1, <2>2, <2>3, ClusteringSteps
<1> QED
  BY <1>1, <1>2, TypeCorrect, MutexAndOnce, PTL DEF Spec, Announced

(***************************************************************************)
(* Every finished input that was added is filed exactly once, under a      *)
(* similar result (add_result, mod.rs:133-148).                            *)
(***************************************************************************)
THEOREM FiledOnce == Spec => []InputsFiledOnce
<1>1. FiledInv => InputsFiledOnce
  <2> SUFFICES ASSUME FiledInv, SaveInput, NEW i \in DOMAIN verdict,
                      Api = "add_bugs" => IsBug(verdict[i].result)
               PROVE  \E x \in DOMAIN input_map :
                        /\ Similar(verdict[i].result, x)
                        /\ \E k \in DOMAIN input_map[x] :
                             \A y \in DOMAIN input_map : \A l \in DOMAIN input_map[y] :
                               input_map[y][l] = i <=> y = x /\ l = k
    BY DEF InputsFiledOnce
  <2>1. PICK x \in DOMAIN input_map : \E k \in DOMAIN input_map[x] : input_map[x][k] = i
    BY DEF FiledInv
  <2>2. PICK k \in DOMAIN input_map[x] : input_map[x][k] = i
    BY <2>1
  <2> QED
    BY <2>2 DEF FiledInv
<1> QED
  BY <1>1, FilingIsInvariant, PTL

(* What R::similar is on the bugs of the R in use                          *)
(* (TransactionalExecutor_proofs, SimilarTransitiveOnBugs).                *)
TransitiveOnBugs ==
  \A r, s, u \in Result :
    IsBug(r) /\ IsBug(s) /\ IsBug(u) /\ Similar(r, s) /\ Similar(s, u) => Similar(r, u)

(* The report is printed when all is done.                                 *)
ReportInv ==
  report # NoReport =>
    /\ Finished /\ Api = "add_bugs"
    /\ report[1] = {r \in DOMAIN input_map : IsBug(r)}

(***************************************************************************)
(* The report of the check command, which saves inputs, has every bug      *)
(* under exactly one cluster (generate_report, mod.rs:199-230).            *)
(***************************************************************************)
THEOREM ReportIsComplete ==
  SaveInput /\ TransitiveOnBugs => (Spec => []ReportListsEachBugOnce)
<1> SUFFICES ASSUME SaveInput, TransitiveOnBugs PROVE Spec => []ReportListsEachBugOnce
  OBVIOUS
<1>1. Init => ReportInv
  BY DEF Init, ReportInv
<1>2. TypeOK /\ ReportInv /\ [Next]_vars => ReportInv'
  <2> SUFFICES ASSUME TypeOK, ReportInv, [Next]_vars PROVE ReportInv'
    OBVIOUS
  <2> USE DEF clustering, locks, threads, panics
  <2>1. CASE report # NoReport
    <3>1. Finished /\ UNCHANGED <<todo, pc, input_map, report>>
      BY <2>1 DEF ReportInv, Finished, Next, Executes, Proceeds, Take, ExecuteReturns,
                  ExecutePanics, PanicCaughtInside, PickUpPanic, CheckSeen, SkipNonBug,
                  LockPool, CallsAddResult, LockMap, AddResult, GenerateReport, Terminated, vars
    <3> QED
      BY <3>1 DEF ReportInv, Finished
  <2>2. CASE report = NoReport
    <3>1. CASE GenerateReport
      BY <3>1 DEF GenerateReport, ReportInv, Finished
    <3>2. CASE ~GenerateReport
      <4>1. report' = report
        BY <3>2 DEF Next, Executes, Proceeds, Take, ExecuteReturns, ExecutePanics,
                    PanicCaughtInside, PickUpPanic, CheckSeen, SkipNonBug, LockPool,
                    LockMap, AddResult, Return, Terminated, vars
      <4> QED
        BY <2>2, <4>1 DEF ReportInv
    <3> QED
      BY <3>1, <3>2
  <2> QED
    BY <2>1, <2>2
<1>3. TypeOK /\ ReportInv /\ FiledInv /\ AddedInv /\ KeysArePool /\ PoolPairwiseDissimilar
        => ReportListsEachBugOnce
  <2> SUFFICES ASSUME TypeOK, ReportInv, FiledInv, AddedInv, KeysArePool,
                      PoolPairwiseDissimilar, report # NoReport,
                      NEW i \in DOMAIN verdict, IsBug(verdict[i].result)
               PROVE  \E x \in report[1] :
                        \A y \in report[1] : Similar(verdict[i].result, y) <=> y = x
    BY DEF ReportListsEachBugOnce
  <2> DEFINE r == verdict[i].result
  <2>1. report[1] = DOMAIN input_map /\ \A x \in DOMAIN input_map : IsBug(x)
    BY DEF ReportInv, AddedInv
  <2>2. r \in Result /\ DOMAIN input_map \subseteq Result /\ DOMAIN input_map = pool
    BY DEF TypeOK, KeysArePool
  <2>3. PICK x \in DOMAIN input_map : \E k \in DOMAIN input_map[x] : input_map[x][k] = i
    BY DEF FiledInv
  <2>4. Similar(r, x)
    BY <2>3 DEF FiledInv
  <2>5. ASSUME NEW y \in DOMAIN input_map, Similar(r, y) PROVE y = x
    <3>1. Similar(x, r)
      BY <2>2, <2>4, SimilarAssumption
    <3>2. Similar(x, y)
      BY <2>1, <2>2, <2>5, <3>1 DEF TransitiveOnBugs
    <3> QED
      BY <2>2, <3>2 DEF PoolPairwiseDissimilar
  <2> QED
    BY <2>1, <2>4, <2>5
<1> QED
  BY <1>1, <1>2, <1>3, TypeCorrect, FilingIsInvariant, OnlyBugsAreAdded, KeysAreThePool,
     PoolIsDissimilar, PTL DEF Spec
=============================================================================
