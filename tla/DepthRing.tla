------------------------------- MODULE DepthRing -------------------------------
(***************************************************************************)
(* struct DepthRing (env.rs:54-159): the nesting depth of the generator    *)
(* and the limit on it.  The limit in force is the last one set by hand,   *)
(* or else the current one of a ring of limits; the ring moves on whenever *)
(* the depth comes back to 0 with no limit set by hand.                    *)
(***************************************************************************)
EXTENDS Naturals, Sequences

CONSTANT MaxDepths    (* max_depths: the ring of limits, drawn at the start. *)

ASSUME MaxDepthsAssumption == MaxDepths \in Seq(Nat) /\ MaxDepths # << >>

DepthRings ==
  [curr : Nat, idx : DOMAIN MaxDepths, manual : Seq(Nat)]

NewDepthRing == [curr |-> 0, idx |-> 1, manual |-> << >>]

CurrMaxDepthLimit(d) ==
  IF d.manual # << >> THEN d.manual[Len(d.manual)] ELSE MaxDepths[d.idx]

WillReachDepthLimit(d, inc) == d.curr + inc >= CurrMaxDepthLimit(d)

ReachedDepthLimit(d) == WillReachDepthLimit(d, 0)

IncreaseDepth(d) == [d EXCEPT !.curr = @ + 1]

DecreaseDepth(d) ==
  [d EXCEPT !.curr = @ - 1,
            !.idx = IF d.curr = 1 /\ d.manual = << >>
                      THEN (@ % Len(MaxDepths)) + 1 ELSE @]

SetMaxDepth(d, limit) == [d EXCEPT !.manual = Append(@, limit)]

ResetMaxDepth(d) == [d EXCEPT !.manual = SubSeq(@, 1, Len(@) - 1)]
=============================================================================
