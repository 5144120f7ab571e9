-------------------------- MODULE ModuleFilling_proofs --------------------------
(***************************************************************************)
(* fill_struct never lets a struct contain itself, for any number of       *)
(* structs, fields and type arguments.  The acquires lists that            *)
(* post_process_module leaves behind, for any functions and any call       *)
(* graph, are sufficient, and no longer than they must be.  What holds of  *)
(* the two parts of ModuleFilling holds of their composition: each step of *)
(* one leaves the other's variables alone.                                 *)
(***************************************************************************)
EXTENDS ModuleFilling, TLAPS

(* What adding the edges from a to new makes of a graph.                   *)
WithEdges(graph, a, new) == [graph EXCEPT ![a] = @ \cup new]

(* A set without a that was closed stays so.                               *)
LEMMA ClosedWithout ==
  ASSUME NEW graph \in [Structs -> SUBSET Structs], NEW a \in Structs,
         NEW new \in SUBSET Structs, NEW set \in SUBSET Structs,
         Closed(graph, set), a \notin set
  PROVE  Closed(WithEdges(graph, a, new), set)
BY DEF Closed, WithEdges

(* The heart of the argument.  When no path leads from the new successors  *)
(* back to a, some closed set C holds them and not a.  A struct s had a    *)
(* closed set D with its successors and without s; from C and D one makes  *)
(* such a set in the new graph.                                            *)
LEMMA EdgesMakeNoCycle ==
  ASSUME NEW graph \in [Structs -> SUBSET Structs], NEW a \in Structs,
         NEW new \in SUBSET Structs, ~ReachesIn(graph, new, a),
         \A s \in Structs : ~ReachesIn(graph, graph[s], s),
         NEW s \in Structs
  PROVE  ~ReachesIn(WithEdges(graph, a, new), WithEdges(graph, a, new)[s], s)
<1> DEFINE after == WithEdges(graph, a, new)
<1>1. PICK C \in SUBSET Structs : Closed(graph, C) /\ new \subseteq C /\ a \notin C
  BY DEF ReachesIn
<1>2. PICK D \in SUBSET Structs : Closed(graph, D) /\ graph[s] \subseteq D /\ s \notin D
  BY DEF ReachesIn
<1>3. /\ \A u \in Structs \ {a} : after[u] = graph[u]
      /\ after[a] = graph[a] \cup new
  BY DEF WithEdges
<1>4. SUFFICES \E set \in SUBSET Structs :
                 Closed(after, set) /\ after[s] \subseteq set /\ s \notin set
  BY DEF ReachesIn
<1>5. Closed(graph, C \cup D) /\ Closed(graph, C \cap D)
  BY <1>1, <1>2 DEF Closed
<1>6. CASE s = a
  <2>1. Closed(after, C \cup D)
    BY <1>1, <1>2, <1>5, <1>6, ClosedWithout
  <2> QED
    BY <2>1, <1>1, <1>2, <1>3, <1>6
<1>7. CASE s # a /\ a \notin D
  <2>1. Closed(after, D)
    BY <1>2, <1>7, ClosedWithout
  <2> QED
    BY <2>1, <1>2, <1>3, <1>7
<1>8. CASE s # a /\ a \in D /\ s \notin C
  <2>1. Closed(after, C \cup D)
    BY <1>1, <1>2, <1>3 DEF Closed
  <2> QED
    BY <2>1, <1>2, <1>3, <1>8
<1>9. CASE s # a /\ a \in D /\ s \in C
  <2>1. Closed(after, C \cap D)
    BY <1>1, <1>5, ClosedWithout
  <2>2. after[s] \subseteq C \cap D
    BY <1>1, <1>2, <1>3, <1>9 DEF Closed
  <2> QED
    BY <2>1, <2>2, <1>2
<1> QED
  BY <1>6, <1>7, <1>8, <1>9

-----------------------------------------------------------------------------
(* Every variable has its type, and a struct that waits has no fields.     *)
THEOREM StructsTypeCorrect == SpecStructs => []StructsTypeOK
<1>1. InitStructs => StructsTypeOK
  BY DEF InitStructs, StructsTypeOK
<1>2. StructsTypeOK /\ [NextStructs]_structVars => StructsTypeOK'
  <2> SUFFICES ASSUME StructsTypeOK, [NextStructs]_structVars
               PROVE  StructsTypeOK'
    OBVIOUS
  <2>1. ASSUME NEW st \in Structs, FillStruct(st)
        PROVE  StructsTypeOK'
    BY <2>1 DEF FillStruct, StructsTypeOK
  <2>2. ASSUME NEW st \in current, NEW t \in Structs, NEW args \in SUBSET Structs,
               AddStructField(st, t, args)
        PROVE  StructsTypeOK'
    BY <2>2 DEF AddStructField, StructsTypeOK
  <2>3. CASE UNCHANGED structVars
    BY <2>3 DEF structVars, StructsTypeOK
  <2> QED
    BY <2>1, <2>2, <2>3 DEF NextStructs, GetUsableStructType
<1> QED
  BY <1>1, <1>2, PTL DEF SpecStructs

(* No struct contains itself, whatever fields check_struct_reachable lets  *)
(* through and in whatever order (fill_struct, move_smith.rs:622).         *)
THEOREM NoCyclicStructs == SpecStructs => []NoStructContainsItself
<1>1. InitStructs => NoStructContainsItself
  <2> SUFFICES ASSUME InitStructs, NEW s \in Structs
               PROVE  ~ReachesIn(used, used[s], s)
    BY DEF NoStructContainsItself
  <2>1. Closed(used, {}) /\ used[s] \subseteq {}
    BY DEF InitStructs, Closed
  <2> QED
    BY <2>1 DEF ReachesIn
<1>2. StructsTypeOK /\ NoStructContainsItself /\ [NextStructs]_structVars
        => NoStructContainsItself'
  <2> SUFFICES ASSUME StructsTypeOK, NoStructContainsItself, [NextStructs]_structVars
               PROVE  NoStructContainsItself'
    OBVIOUS
  <2>1. CASE UNCHANGED used
    BY <2>1 DEF NoStructContainsItself, ReachesIn, Closed
  <2>2. ASSUME NEW st \in current, NEW t \in Structs, NEW args \in SUBSET Structs,
               AddStructField(st, t, args)
        PROVE  NoStructContainsItself'
    <3>1. used' = WithEdges(used, st, {t} \cup args)
      BY <2>2 DEF AddStructField, WithEdges, StructsTypeOK
    <3>2. ~ReachesIn(used, {t} \cup args, st)
      BY <2>2 DEF AddStructField, CheckStructReachable
    <3>3. ASSUME NEW s \in Structs
          PROVE  ~ReachesIn(used', used'[s], s)
      BY <3>1, <3>2, EdgesMakeNoCycle DEF StructsTypeOK, NoStructContainsItself
    <3> QED
      BY <3>3 DEF NoStructContainsItself, ReachesIn, Closed
  <2> QED
    BY <2>1, <2>2 DEF NextStructs, FillStruct, GetUsableStructType, structVars
<1> QED
  BY <1>1, <1>2, StructsTypeCorrect, PTL DEF SpecStructs

-----------------------------------------------------------------------------

(* Every variable has its type.                                            *)
THEOREM AcquiresTypeCorrect == SpecAcquires => []AcquiresTypeOK
<1>1. InitAcquires => AcquiresTypeOK
  BY DEF InitAcquires, AcquiresTypeOK
<1>2. AcquiresTypeOK /\ [NextAcquires]_acquiresVars => AcquiresTypeOK'
  <2> SUFFICES ASSUME AcquiresTypeOK, [NextAcquires]_acquiresVars
               PROVE  AcquiresTypeOK'
    OBVIOUS
  <2> USE DEF AcquiresTypeOK
  <2>1. CASE CollectCalls
    BY <2>1, AcquiresAssumption DEF CollectCalls, DirectResources
  <2>2. CASE StartPass
    BY <2>2 DEF StartPass
  <2>3. CASE EndPass
    BY <2>3 DEF EndPass
  <2>4. ASSUME NEW caller \in Functions, NEW callee \in Functions, Visit(caller, callee)
        PROVE  AcquiresTypeOK'
    BY <2>4 DEF Visit
  <2>5. CASE UNCHANGED acquiresVars
    BY <2>5 DEF acquiresVars
  <2> QED
    BY <2>1, <2>2, <2>3, <2>4, <2>5 DEF NextAcquires
<1> QED
  BY <1>1, <1>2, PTL DEF SpecAcquires

-----------------------------------------------------------------------------
(* The calls of a set along which nothing remains to be copied.            *)
SettledCalls(calls) == \A c \in calls : acquires[c[2]] \subseteq acquires[c[1]]

(* The inductive invariant.  A pass that has copied nothing so far leaves  *)
(* the calls it has looked at settled; were the flag set on a copy only    *)
(* some of the time, or reset within a pass, this would be lost.           *)
PassInv ==
  /\ \A f \in Functions : direct[f] \subseteq acquires[f]
  /\ step = "collect" => updated
  /\ step = "pass" /\ ~updated => SettledCalls(visited)
  /\ step = "test" /\ ~updated => SettledCalls(LocalCalls)

LEMMA PassInvHolds == SpecAcquires => []PassInv
<1>1. InitAcquires => PassInv
  BY DEF InitAcquires, PassInv
<1>2. AcquiresTypeOK /\ PassInv /\ [NextAcquires]_acquiresVars => PassInv'
  <2> SUFFICES ASSUME AcquiresTypeOK, PassInv, [NextAcquires]_acquiresVars
               PROVE  PassInv'
    OBVIOUS
  <2>1. CASE CollectCalls
    BY <2>1 DEF CollectCalls, PassInv
  <2>2. CASE StartPass
    BY <2>2 DEF StartPass, PassInv, SettledCalls
  <2>3. CASE EndPass
    BY <2>3 DEF EndPass, PassInv, SettledCalls, LocalCalls
  <2>4. ASSUME NEW caller \in Functions, NEW callee \in Functions, Visit(caller, callee)
        PROVE  PassInv'
    <3>1. \A f \in Functions : direct'[f] \subseteq acquires'[f]
      BY <2>4 DEF Visit, PassInv, AcquiresTypeOK
    <3>2. ASSUME ~updated'
          PROVE  SettledCalls(visited)'
      <4>1. ~updated /\ acquires[callee] \subseteq acquires[caller]
        BY <2>4, <3>2 DEF Visit
      <4>2. acquires' = acquires
        BY <2>4, <4>1 DEF Visit, AcquiresTypeOK
      <4>3. visited' = visited \cup {<<caller, callee>>} /\ step = "pass"
        BY <2>4 DEF Visit
      <4> QED
        BY <4>1, <4>2, <4>3 DEF PassInv, SettledCalls
    <3>3. step' = "pass"
      BY <2>4 DEF Visit
    <3> QED
      BY <3>1, <3>2, <3>3 DEF PassInv
  <2>5. CASE UNCHANGED acquiresVars
    BY <2>5 DEF acquiresVars, PassInv, SettledCalls, LocalCalls
  <2> QED
    BY <2>1, <2>2, <2>3, <2>4, <2>5 DEF NextAcquires
<1> QED
  BY <1>1, <1>2, AcquiresTypeCorrect, PTL DEF SpecAcquires

(* When the loop of post_process_module ends, every function lists what it *)
(* and all it calls acquire (move_smith.rs:160-181).                       *)
THEOREM ListsSuffice == SpecAcquires => []AcquiresSuffice
<1>1. PassInv => AcquiresSuffice
  BY DEF PassInv, AcquiresSuffice, AcquiresDone, Sufficient, SettledCalls
<1> QED
  BY <1>1, PassInvHolds, PTL

-----------------------------------------------------------------------------
(* The lists never go beyond any sufficient assignment: together with      *)
(* ListsSuffice, at the end they are the least one.                        *)
THEOREM ListsNeeded == SpecAcquires => []AcquiresNeeded
<1>1. InitAcquires => AcquiresNeeded
  BY DEF InitAcquires, AcquiresNeeded, Sufficient
<1>2. AcquiresTypeOK /\ AcquiresNeeded /\ [NextAcquires]_acquiresVars => AcquiresNeeded'
  <2> SUFFICES ASSUME AcquiresTypeOK, AcquiresNeeded, [NextAcquires]_acquiresVars,
                      NEW lists \in [Functions -> SUBSET Resources],
                      Sufficient(lists)',
                      NEW f \in Functions
               PROVE  acquires'[f] \subseteq lists[f]
    BY DEF AcquiresNeeded, Sufficient, LocalCalls
  <2>1. CASE CollectCalls
    BY <2>1 DEF CollectCalls, Sufficient
  <2>2. CASE UNCHANGED <<call_map, direct, acquires>>
    BY <2>2 DEF AcquiresNeeded, Sufficient, LocalCalls
  <2>3. ASSUME NEW caller \in Functions, NEW callee \in Functions, Visit(caller, callee)
        PROVE  acquires'[f] \subseteq lists[f]
    <3>1. Sufficient(lists)
      BY <2>3 DEF Visit, Sufficient, LocalCalls
    <3>2. \A h \in Functions : acquires[h] \subseteq lists[h]
      BY <3>1 DEF AcquiresNeeded
    <3>3. lists[callee] \subseteq lists[caller]
      BY <3>1, <2>3 DEF Visit, Sufficient
    <3>4. acquires' = [acquires EXCEPT ![caller] = @ \cup acquires[callee]]
      BY <2>3 DEF Visit
    <3> QED
      BY <3>2, <3>3, <3>4 DEF AcquiresTypeOK
  <2> QED
    BY <2>1, <2>2, <2>3 DEF NextAcquires, StartPass, EndPass, acquiresVars
<1> QED
  BY <1>1, <1>2, AcquiresTypeCorrect, PTL DEF SpecAcquires
-----------------------------------------------------------------------------
(* MoveSmith::generate runs fill_struct and post_process_module as         *)
(* specified on their own.                                                 *)
THEOREM Composition == Spec => SpecStructs /\ SpecAcquires
<1>1. Init => InitStructs /\ InitAcquires
  BY DEF Init
<1>2. [Next]_fillingVars => [NextStructs]_structVars /\ [NextAcquires]_acquiresVars
  <2> USE DEF fillingVars, structVars, acquiresVars
  <2>1. CASE FillStructs
    BY <2>1 DEF FillStructs
  <2>2. CASE PostProcess
    BY <2>2 DEF PostProcess
  <2>3. CASE Finished \/ UNCHANGED fillingVars
    BY <2>3 DEF Finished
  <2> QED
    BY <2>1, <2>2, <2>3 DEF Next
<1> QED
  BY <1>1, <1>2, PTL DEF Spec, SpecStructs, SpecAcquires

(* A generated module has no cyclic struct, at any moment.                 *)
THEOREM ModulesHaveNoCyclicStructs == Spec => []NoStructContainsItself
BY Composition, NoCyclicStructs, PTL

(* A generated module's acquires lists are sufficient and least.           *)
THEOREM ModulesAcquireWhatTheyNeed == Spec => [](AcquiresSuffice /\ AcquiresNeeded)
BY Composition, ListsSuffice, ListsNeeded, PTL
=============================================================================
