---------------------------- MODULE BugClustering ----------------------------
(***************************************************************************)
(* What an execution manager promises to its callers, with every call an   *)
(* atomic step: results are grouped under representatives of which no two  *)
(* are similar, and a call answers "new bug" for every bug that becomes a  *)
(* representative.                                                         *)
(*                                                                         *)
(* Two strengths of the promise are stated.  Submit lets a call answer     *)
(* "new" for a bug whose representative is already there (two callers may  *)
(* both be the first to see a bug); SubmitStrict is the promise of the     *)
(* comment on execute_check_new_bug, "the result is a bug AND it has not   *)
(* been seen before".                                                      *)
(***************************************************************************)
EXTENDS Sequences, HashMaps

CONSTANTS
  Input,          (* The test inputs, each executed once.                  *)
  Result,         (* The results an execution can have.                    *)
  IsBug(_),       (* The result is to be reported.                         *)
  Similar(_, _),  (* Two results are the same problem.                     *)
  AnswersNew,     (* The call tells its caller whether the bug is new.     *)
  SaveInput       (* The inputs of each representative are remembered.     *)

VARIABLES
  pool,           (* The representatives.                                  *)
  input_map,      (* For each representative, the inputs grouped under it. *)
  verdict         (* For each finished input: its result and the answer.   *)

vars == <<pool, input_map, verdict>>

Seen(r) == \E x \in pool : Similar(r, x)

Init ==
  /\ pool = {}
  /\ input_map = EmptyMap
  /\ verdict = EmptyMap

(***************************************************************************)
(* The result joins a representative it is similar to, or becomes one.     *)
(***************************************************************************)
Group(i, r) ==
  /\ pool' = IF Seen(r) THEN pool ELSE pool \cup {r}
  /\ \/ /\ ~SaveInput
        /\ UNCHANGED input_map
     \/ /\ SaveInput
        /\ \E x \in DOMAIN input_map :
             /\ Similar(r, x)
             /\ input_map' = [input_map EXCEPT ![x] = Append(@, i)]
     \/ /\ SaveInput
        /\ ~ \E x \in DOMAIN input_map : Similar(r, x)
        /\ input_map' = Put(input_map, r, <<i>>)

Answer(i, r, new) ==
  /\ i \notin DOMAIN verdict
  /\ verdict' = Put(verdict, i, [result |-> r, new |-> new])

Submit(i, r, new) ==
  /\ new => AnswersNew /\ IsBug(r)
  /\ AnswersNew /\ IsBug(r) /\ ~Seen(r) => new
  /\ Group(i, r)
  /\ Answer(i, r, new)

SubmitStrict(i, r) ==
  /\ Group(i, r)
  /\ Answer(i, r, AnswersNew /\ IsBug(r) /\ ~Seen(r))

(***************************************************************************)
(* A caller may throw away a result that is no bug.                        *)
(***************************************************************************)
Discard(i, r) ==
  /\ ~IsBug(r)
  /\ Answer(i, r, FALSE)
  /\ UNCHANGED <<pool, input_map>>

Next ==
  \E i \in Input, r \in Result :
    \/ \E new \in BOOLEAN : Submit(i, r, new)
    \/ Discard(i, r)

StrictNext ==
  \E i \in Input, r \in Result :
    \/ SubmitStrict(i, r)
    \/ Discard(i, r)

Spec == Init /\ [][Next]_vars
StrictSpec == Init /\ [][StrictNext]_vars
=============================================================================
