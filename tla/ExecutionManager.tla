--------------------------- MODULE ExecutionManager ---------------------------
(***************************************************************************)
(* src/execution/mod.rs: one ExecutionManager shared by the threads of the *)
(* program (rayon workers in `generate` and `check`, one thread in `run`   *)
(* and under the RUNNER mutex of the fuzz targets).                        *)
(*                                                                         *)
(* A thread executes an input under catch_unwind.  A panic runs the hook   *)
(* the manager installed, which leaves a result for the thread in          *)
(* trace_map; after the unwinding the thread picks it up.  The result is   *)
(* then clustered under two mutexes, pool and input_map.                   *)
(*                                                                         *)
(* The steps are the stretches between two lock operations: what a thread  *)
(* does while it holds a mutex no other thread needs is one step.          *)
(***************************************************************************)
EXTENDS Sequences, HashMaps

CONSTANTS
  Thread,         (* The threads that share the manager.                   *)
  Input,          (* The inputs to execute, each by one thread.            *)
  Result,         (* The values of the type parameter R.                   *)
  PanicResult,    (* Those R::from_panic builds.                           *)
  IsBug(_),       (* R::is_bug.                                            *)
  Similar(_, _),  (* R::similar under the manager's compare_mode.          *)
  Api,            (* The method the program calls.                         *)
  SaveInput,      (* save_input.                                           *)
  None            (* No thread, no input, no result.                       *)

(* handle_generate and the fuzz targets call execute_check_new_bug,        *)
(* handle_run calls execute, and handle_check calls execute_without_save   *)
(* and then add_result for the bugs only.                                  *)
Apis == {"execute_check_new_bug", "execute", "add_bugs"}

ASSUME ManagerAssumption ==
  /\ None \notin Thread \cup Input \cup Result
  /\ PanicResult \subseteq Result
  /\ Api \in Apis
  /\ SaveInput \in BOOLEAN
  /\ \A r \in Result : IsBug(r) \in BOOLEAN
  /\ \A r, s \in Result : Similar(r, s) \in BOOLEAN

(* What the theorems and the clusters rest on: R::similar is reflexive and *)
(* symmetric (TransactionalExecutor_proofs shows it of the R in use).      *)
ASSUME SimilarAssumption ==
  /\ \A r \in Result : Similar(r, r)
  /\ \A r, s \in Result : Similar(r, s) => Similar(s, r)

VARIABLES
  todo,           (* Inputs no thread has taken yet.                       *)
  pc,             (* Where each thread is.                                 *)
  input,          (* The input each thread works on.                       *)
  result,         (* The result of execute_without_save, per thread.       *)
  bug,            (* The local `bug` of execute_check_new_bug, per thread. *)
  pool,           (* The set of pairwise dissimilar results.               *)
  input_map,      (* The inputs under each cluster's first result.         *)
  trace_map,      (* What the hook left for a thread.                      *)
  pool_lock,      (* The thread that holds the mutex of pool.              *)
  map_lock,       (* The thread that holds the mutex of input_map.         *)
  verdict,        (* Per finished input, its result and what was returned. *)
  raised,         (* History: the panic that unwound the thread's call.    *)
  report          (* The clusters generate_report printed.                 *)

clustering == <<pool, input_map, verdict>>
locks == <<pool_lock, map_lock>>
threads == <<todo, pc, input, result, bug>>
panics == <<trace_map, raised>>
vars == <<threads, clustering, panics, locks, report>>

Labels == {"idle", "executing", "caught", "executed", "checked", "pool_locked", "both_locked"}

NoReport == << >>

Goto(t, label) == pc' = [pc EXCEPT ![t] = label]

Init ==
  /\ todo = Input
  /\ pc = [t \in Thread |-> "idle"]
  /\ input = [t \in Thread |-> None]
  /\ result = [t \in Thread |-> None]
  /\ bug = [t \in Thread |-> FALSE]
  /\ pool = {}
  /\ input_map = EmptyMap
  /\ trace_map = EmptyMap
  /\ pool_lock = None
  /\ map_lock = None
  /\ verdict = EmptyMap
  /\ raised = [t \in Thread |-> None]
  /\ report = NoReport

(* A par_iter worker takes the next input.                                 *)
Take(t, i) ==
  /\ pc[t] = "idle"
  /\ i \in todo
  /\ todo' = todo \ {i}
  /\ input' = [input EXCEPT ![t] = i]
  /\ Goto(t, "executing")
  /\ UNCHANGED <<result, bug, clustering, panics, locks, report>>

-----------------------------------------------------------------------------
(***************************************************************************)
(* execute_without_save.                                                   *)
(***************************************************************************)

(* executor.execute_one returned a result.                                 *)
ExecuteReturns(t, r) ==
  /\ pc[t] = "executing"
  /\ r \in Result \ PanicResult
  /\ result' = [result EXCEPT ![t] = r]
  /\ Goto(t, "executed")
  /\ UNCHANGED <<todo, input, bug, clustering, panics, locks, report>>

(* Mutations of HookInserts: one slot for all threads; or_insert.           *)
HookInsertsShared(t, r) == trace_map' = Put(trace_map, None, r)

HookKeepsFirst(t, r) ==
  trace_map' = IF t \in DOMAIN trace_map THEN trace_map ELSE Put(trace_map, t, r)

(* The panic hook: HashMap::insert under the map's mutex.                  *)
HookInserts(t, r) == trace_map' = Put(trace_map, t, r)

(* A panic that execute_one's callees catch themselves (the Move verifier  *)
(* does) runs the hook all the same and is not seen by catch_unwind.       *)
PanicCaughtInside(t, r) ==
  /\ pc[t] = "executing"
  /\ r \in PanicResult
  /\ HookInserts(t, r)
  /\ UNCHANGED <<threads, clustering, raised, locks, report>>

(* A panic that unwinds to catch_unwind.                                   *)
ExecutePanics(t, r) ==
  /\ pc[t] = "executing"
  /\ r \in PanicResult
  /\ HookInserts(t, r)
  /\ raised' = [raised EXCEPT ![t] = r]
  /\ Goto(t, "caught")
  /\ UNCHANGED <<todo, input, result, bug, clustering, locks, report>>

(* Mutation of PickUpPanic: the panicking input is tried again.            *)
PickUpPanicRetries(t) ==
  /\ pc[t] = "caught"
  /\ t \in DOMAIN trace_map
  /\ trace_map' = Without(trace_map, t)
  /\ raised' = [raised EXCEPT ![t] = None]
  /\ Goto(t, "executing")
  /\ UNCHANGED <<todo, input, result, bug, clustering, locks, report>>

(* trace_map.lock().remove(&thread_id).unwrap(): without an entry the      *)
(* thread panics with the mutex held, and its hook then waits for it.      *)
PickUpPanic(t) ==
  /\ pc[t] = "caught"
  /\ t \in DOMAIN trace_map
  /\ result' = [result EXCEPT ![t] = trace_map[t]]
  /\ trace_map' = Without(trace_map, t)
  /\ Goto(t, "executed")
  /\ UNCHANGED <<todo, input, bug, clustering, raised, locks, report>>

-----------------------------------------------------------------------------
(***************************************************************************)
(* Clustering.                                                             *)
(***************************************************************************)

(* The call returns and its locals are gone.                               *)
Return(t, new) ==
  /\ verdict' = Put(verdict, input[t], [result |-> result[t], new |-> new])
  /\ input' = [input EXCEPT ![t] = None]
  /\ result' = [result EXCEPT ![t] = None]
  /\ bug' = [bug EXCEPT ![t] = FALSE]
  /\ raised' = [raised EXCEPT ![t] = None]
  /\ Goto(t, "idle")

(* Mutation of CheckSeen: any earlier bug counts as seen.                   *)
CheckSeenAnyBug(t) ==
  /\ Api = "execute_check_new_bug"
  /\ pc[t] = "executed"
  /\ IsBug(result[t]) => pool_lock = None
  /\ bug' = [bug EXCEPT ![t] = IsBug(result[t]) /\ ~ \E x \in pool : IsBug(x)]
  /\ Goto(t, "checked")
  /\ UNCHANGED <<todo, input, result, clustering, panics, locks, report>>

(* `result.is_bug() && !self.seen_similar_result(result)`: the pool is     *)
(* locked for the scan only, and only for a bug.                           *)
CheckSeen(t) ==
  /\ Api = "execute_check_new_bug"
  /\ pc[t] = "executed"
  /\ IsBug(result[t]) => pool_lock = None
  /\ bug' = [bug EXCEPT ![t] =
       IsBug(result[t]) /\ ~ \E x \in pool : Similar(result[t], x)]
  /\ Goto(t, "checked")
  /\ UNCHANGED <<todo, input, result, clustering, panics, locks, report>>

(* handle_check adds nothing for a result that is no bug.                  *)
SkipNonBug(t) ==
  /\ Api = "add_bugs"
  /\ pc[t] = "executed"
  /\ ~IsBug(result[t])
  /\ Return(t, FALSE)
  /\ UNCHANGED <<todo, pool, input_map, trace_map, locks, report>>

(* The thread is at its call of add_result.                                *)
CallsAddResult(t) ==
  \/ pc[t] = "checked"
  \/ pc[t] = "executed" /\ Api = "execute"
  \/ pc[t] = "executed" /\ Api = "add_bugs" /\ IsBug(result[t])

LockPool(t) ==
  /\ CallsAddResult(t)
  /\ pool_lock = None
  /\ pool_lock' = t
  /\ Goto(t, "pool_locked")
  /\ UNCHANGED <<todo, input, result, bug, clustering, panics, map_lock, report>>

LockMap(t) ==
  /\ pc[t] = "pool_locked"
  /\ map_lock = None
  /\ map_lock' = t
  /\ Goto(t, "both_locked")
  /\ UNCHANGED <<todo, input, result, bug, clustering, panics, pool_lock, report>>

(* Mutations of InsertIntoPool: the set's own equality decides; the pool    *)
(* is a cache of one.                                                      *)
InsertUnlessEqual(r) == pool' = pool \cup {r}

InsertReplaces(r) ==
  pool' = IF \E x \in pool : Similar(r, x) THEN pool ELSE {r}

InsertIntoPool(r) ==
  pool' = IF \E x \in pool : Similar(r, x) THEN pool ELSE pool \cup {r}

(* Mutations of InsertIntoMap: HashMap::entry; the missing return.          *)
InsertIntoMapByKey(r, i) ==
  \/ ~SaveInput /\ UNCHANGED input_map
  \/ /\ SaveInput
     /\ input_map' = IF r \in DOMAIN input_map
                       THEN [input_map EXCEPT ![r] = Append(@, i)]
                       ELSE Put(input_map, r, <<i>>)

InsertIntoMapGoesOn(r, i) ==
  \/ ~SaveInput /\ UNCHANGED input_map
  \/ /\ SaveInput
     /\ input_map' =
          Put([x \in DOMAIN input_map |->
                 IF Similar(r, x) THEN Append(input_map[x], i) ELSE input_map[x]], r, <<i>>)

(* The first similar key in the map's iteration order, which is arbitrary, *)
(* gets the input; without one the result becomes a key.                   *)
InsertIntoMap(r, i) ==
  \/ /\ ~SaveInput
     /\ UNCHANGED input_map
  \/ /\ SaveInput
     /\ \E x \in DOMAIN input_map :
          /\ Similar(r, x)
          /\ input_map' = [input_map EXCEPT ![x] = Append(@, i)]
  \/ /\ SaveInput
     /\ ~ \E x \in DOMAIN input_map : Similar(r, x)
     /\ input_map' = Put(input_map, r, <<i>>)

(* The body of add_result; both guards are dropped when it returns.        *)
AddResult(t) ==
  /\ pc[t] = "both_locked"
  /\ InsertIntoPool(result[t])
  /\ InsertIntoMap(result[t], input[t])
  /\ pool_lock' = None
  /\ map_lock' = None
  /\ Return(t, bug[t])
  /\ UNCHANGED <<todo, trace_map, report>>

-----------------------------------------------------------------------------
Finished == todo = {} /\ \A t \in Thread : pc[t] = "idle"

(* Mutation of GenerateReport: the workers are not joined.                  *)
GenerateReportEarly ==
  /\ Api = "add_bugs"
  /\ report = NoReport
  /\ map_lock = None
  /\ report' = <<{r \in DOMAIN input_map : IsBug(r)}>>
  /\ UNCHANGED <<threads, clustering, panics, locks>>

(* generate_report, called by handle_check when the workers have joined.   *)
GenerateReport ==
  /\ Api = "add_bugs"
  /\ Finished
  /\ report = NoReport
  /\ map_lock = None
  /\ report' = <<{r \in DOMAIN input_map : IsBug(r)}>>
  /\ UNCHANGED <<threads, clustering, panics, locks>>

(* The program has nothing left to do.                                     *)
Terminated ==
  /\ Finished
  /\ Api = "add_bugs" => report # NoReport
  /\ UNCHANGED vars

Executes(t) ==
  \/ \E r \in Result : ExecuteReturns(t, r)
  \/ \E r \in PanicResult : ExecutePanics(t, r)

Proceeds(t) ==
  \/ \E i \in Input : Take(t, i)
  \/ PickUpPanic(t)
  \/ CheckSeen(t)
  \/ SkipNonBug(t)
  \/ LockPool(t)
  \/ LockMap(t)
  \/ AddResult(t)

Next ==
  \/ \E t \in Thread :
       \/ Executes(t)
       \/ \E r \in PanicResult : PanicCaughtInside(t, r)
       \/ Proceeds(t)
  \/ GenerateReport
  \/ Terminated

Spec == Init /\ [][Next]_vars

(* The scheduler runs every thread that can run, and execute_one, whose    *)
(* gas and compiler limits bound it, ends.  Nothing is assumed of the      *)
(* order in which waiting threads get a mutex.                             *)
Fairness ==
  /\ \A t \in Thread : WF_vars(Executes(t)) /\ WF_vars(Proceeds(t))
  /\ WF_vars(GenerateReport)

FairSpec == Spec /\ Fairness

-----------------------------------------------------------------------------
(***************************************************************************)
(* Properties.                                                             *)
(***************************************************************************)

(* Every variable has its type.                                            *)
TypeOK ==
  /\ todo \subseteq Input
  /\ pc \in [Thread -> Labels]
  /\ input \in [Thread -> Input \cup {None}]
  /\ result \in [Thread -> Result \cup {None}]
  /\ bug \in [Thread -> BOOLEAN]
  /\ pool \subseteq Result
  /\ DOMAIN input_map \subseteq Result
  /\ \A x \in DOMAIN input_map : input_map[x] \in Seq(Input)
  /\ DOMAIN trace_map \subseteq Thread
  /\ \A t \in DOMAIN trace_map : trace_map[t] \in PanicResult
  /\ pool_lock \in Thread \cup {None}
  /\ map_lock \in Thread \cup {None}
  /\ DOMAIN verdict \subseteq Input
  /\ \A i \in DOMAIN verdict : verdict[i] \in [result : Result, new : BOOLEAN]
  /\ raised \in [Thread -> PanicResult \cup {None}]

(* No two members of the pool are similar, whatever the threads interleave *)
(* between the check and the insertion (add_result, mod.rs:124-131).       *)
PoolPairwiseDissimilar ==
  \A x, y \in pool : x # y => ~Similar(x, y)

(* The clusters that generate_report prints and the pool that answers      *)
(* seen_similar_result never drift apart, although add_result maintains    *)
(* them by two separate searches (mod.rs:128-148).                         *)
KeysArePool ==
  SaveInput => DOMAIN input_map = pool

(* No input is lost and none is filed twice: every finished input that was *)
(* added is in exactly one cluster, one its result is similar to.          *)
InputsFiledOnce ==
  SaveInput =>
    \A i \in DOMAIN verdict :
      (Api = "add_bugs" => IsBug(verdict[i].result)) =>
        \E x \in DOMAIN input_map :
          /\ Similar(verdict[i].result, x)
          /\ \E k \in DOMAIN input_map[x] :
               \A y \in DOMAIN input_map : \A l \in DOMAIN input_map[y] :
                 input_map[y][l] = i <=> y = x /\ l = k

(* A bug that became a representative was announced: the call that         *)
(* inserted it returned true (execute_check_new_bug, mod.rs:188-197).      *)
FirstSightReported ==
  Api = "execute_check_new_bug" =>
    \A x \in pool : IsBug(x) =>
      \E i \in DOMAIN verdict : verdict[i].result = x /\ verdict[i].new

(* No bug gets lost: the result of every finished input that is a bug has  *)
(* a similar member in the pool.                                           *)
EveryBugRepresented ==
  \A i \in DOMAIN verdict :
    IsBug(verdict[i].result) => \E x \in pool : Similar(verdict[i].result, x)

(* A panic is attributed to the execution it unwound: what the thread      *)
(* finds in trace_map is there, and is what its own hook left last, also   *)
(* when earlier panics left entries nobody picked up (mod.rs:160-171).     *)
PanicPickedUpIsOwn ==
  \A t \in Thread :
    /\ pc[t] = "caught" => t \in DOMAIN trace_map /\ trace_map[t] = raised[t]
    /\ result[t] \in PanicResult => result[t] = raised[t]

(* The printed report lists every bug under exactly one cluster, whichever *)
(* order the threads added them in (generate_report, mod.rs:199-230).      *)
ReportListsEachBugOnce ==
  report # NoReport =>
    \A i \in DOMAIN verdict :
      IsBug(verdict[i].result) =>
        \E x \in report[1] :
          \A y \in report[1] : Similar(verdict[i].result, y) <=> y = x

(* Every input is answered.                                                *)
AllAnswered ==
  \A i \in Input : <>(i \in DOMAIN verdict)

(* The manager implements the promise to its callers; serialised, also the *)
(* strict one.                                                             *)
Promise == INSTANCE BugClustering WITH AnswersNew <- Api = "execute_check_new_bug"

ImplementsClustering == Promise!Spec

ImplementsStrictClustering == Promise!StrictSpec

(* "Return true if the result is a bug AND it has not been seen before"    *)
(* (mod.rs:183-184): of two similar bugs at most one is announced.         *)
NewBugAnnouncedOnce ==
  \A i, j \in DOMAIN verdict :
    i # j /\ verdict[i].new /\ verdict[j].new
      => ~Similar(verdict[i].result, verdict[j].result)

(* "Return false if the result is not a bug OR the result is a bug but has *)
(* been seen before" (mod.rs:185-187): a bug that is not announced was     *)
(* seen as a bug in another execution.                                     *)
UnannouncedBugWasSeen ==
  Api = "execute_check_new_bug" =>
    \A i \in DOMAIN verdict :
      IsBug(verdict[i].result) /\ ~verdict[i].new =>
        \E j \in DOMAIN verdict \ {i} :
          IsBug(verdict[j].result) /\ Similar(verdict[i].result, verdict[j].result)
=============================================================================
