-------------------------------- MODULE Acquires --------------------------------
(***************************************************************************)
(* post_process_module (move_smith.rs:132-191): a function of a module     *)
(* must name, in its acquires list, every resource type it takes from the  *)
(* global storage itself or through the functions it calls.  The lists     *)
(* start with the functions' own operations (post_process_function); pass  *)
(* after pass over all calls copies what a callee acquires to its callers, *)
(* until a pass copies nothing.                                            *)
(***************************************************************************)
EXTENDS Naturals

CONSTANTS
  Functions,    (* The functions of the module.                            *)
  Foreign,      (* Functions of other modules, and runners' helpers.       *)
  Resources,    (* Resource types.                                         *)
  CallMaps      (* The call graphs the bodies may have.                    *)

ASSUME AcquiresAssumption ==
  /\ Functions \cap Foreign = {}
  /\ CallMaps \subseteq [Functions -> SUBSET (Functions \cup Foreign)]

VARIABLES
  call_map,     (* Per function, what it calls.                            *)
  direct,       (* Per function, the resources of its own operations.      *)
  acquires,     (* acquires_map.                                           *)
  step,         (* "collect", "test" (of the while loop) or "pass".        *)
  visited,      (* The calls the current pass has looked at.               *)
  updated       (* Whether it copied anything.                             *)

acquiresVars == <<call_map, direct, acquires, step, visited, updated>>

(* The calls that count: not of itself, and not out of the module.         *)
LocalCalls ==
  {c \in Functions \X Functions : c[2] \in call_map[c[1]] /\ c[1] # c[2]}

InitAcquires ==
  /\ call_map = [f \in Functions |-> {}]
  /\ direct = [f \in Functions |-> {}]
  /\ acquires = direct
  /\ step = "collect"
  /\ visited = {}
  /\ updated = TRUE

(* post_process_function: what a body takes from or borrows in storage.    *)
DirectResources == [Functions -> SUBSET Resources]

(* The loop that fills call_map and acquires_map from the bodies.          *)
CollectCalls ==
  /\ step = "collect"
  /\ call_map' \in CallMaps
  /\ direct' \in DirectResources
  /\ acquires' = direct'
  /\ step' = "test"
  /\ UNCHANGED <<visited, updated>>

(* while updated.                                                          *)
StartPass ==
  /\ step = "test"
  /\ updated
  /\ step' = "pass"
  /\ updated' = FALSE
  /\ visited' = {}
  /\ UNCHANGED <<call_map, direct, acquires>>

(* Mutation of Visit: a copy does not ask for another pass.                *)
VisitOnce(caller, callee) ==
  /\ step = "pass"
  /\ <<caller, callee>> \in LocalCalls \ visited
  /\ visited' = visited \cup {<<caller, callee>>}
  /\ acquires' = [acquires EXCEPT ![caller] = @ \cup acquires[callee]]
  /\ UNCHANGED <<call_map, direct, step, updated>>

(* Mutation of Visit: every call looked at asks for another pass.          *)
VisitAlwaysUpdates(caller, callee) ==
  /\ step = "pass"
  /\ <<caller, callee>> \in LocalCalls \ visited
  /\ visited' = visited \cup {<<caller, callee>>}
  /\ acquires' = [acquires EXCEPT ![caller] = @ \cup acquires[callee]]
  /\ updated' = TRUE
  /\ UNCHANGED <<call_map, direct, step>>

(* Mutation of Visit: the caller's resources go to the callee.             *)
VisitBackwards(caller, callee) ==
  /\ step = "pass"
  /\ <<caller, callee>> \in LocalCalls \ visited
  /\ visited' = visited \cup {<<caller, callee>>}
  /\ acquires' = [acquires EXCEPT ![callee] = @ \cup acquires[caller]]
  /\ updated' = (updated \/ ~(acquires[caller] \subseteq acquires[callee]))
  /\ UNCHANGED <<call_map, direct, step>>

(* One call: what the callee acquires, the caller does.  The code takes    *)
(* the calls in the order of the names, which may be any.                  *)
Visit(caller, callee) ==
  /\ step = "pass"
  /\ <<caller, callee>> \in LocalCalls \ visited
  /\ visited' = visited \cup {<<caller, callee>>}
  /\ acquires' = [acquires EXCEPT ![caller] = @ \cup acquires[callee]]
  /\ updated' = (updated \/ ~(acquires[callee] \subseteq acquires[caller]))
  /\ UNCHANGED <<call_map, direct, step>>

EndPass ==
  /\ step = "pass"
  /\ visited = LocalCalls
  /\ step' = "test"
  /\ UNCHANGED <<call_map, direct, acquires, visited, updated>>

NextAcquires ==
  \/ CollectCalls \/ StartPass \/ EndPass
  \/ \E caller, callee \in Functions : Visit(caller, callee)

SpecAcquires == InitAcquires /\ [][NextAcquires]_acquiresVars

-----------------------------------------------------------------------------
AcquiresTypeOK ==
  /\ call_map \in [Functions -> SUBSET (Functions \cup Foreign)]
  /\ direct \in [Functions -> SUBSET Resources]
  /\ acquires \in [Functions -> SUBSET Resources]
  /\ step \in {"collect", "test", "pass"}
  /\ visited \subseteq Functions \X Functions
  /\ updated \in BOOLEAN

AcquiresDone == step = "test" /\ ~updated

(* An assignment of lists the Move compiler would not call too short.      *)
Sufficient(lists) ==
  /\ \A f \in Functions : direct[f] \subseteq lists[f]
  /\ \A c \in LocalCalls : lists[c[2]] \subseteq lists[c[1]]

(* At the end every function lists what it and all it calls acquire,       *)
(* however long the chain of calls and whatever cycles there are.          *)
AcquiresSuffice == AcquiresDone => Sufficient(acquires)

(* No function lists a resource that no chain of calls explains: the lists *)
(* are within every sufficient assignment.                                 *)
AcquiresNeeded ==
  \A lists \in [Functions -> SUBSET Resources] :
    Sufficient(lists) => \A f \in Functions : acquires[f] \subseteq lists[f]
=============================================================================
