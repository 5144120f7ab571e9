----------------------------- MODULE ModuleFilling -----------------------------
(***************************************************************************)
(* MoveSmith::generate for one module: fill_module fills the structs, then *)
(* the functions, and post_process_module settles the acquires lists.  The *)
(* function bodies are ExpressionGenerator's; here they are any calls and  *)
(* resource operations.                                                    *)
(***************************************************************************)
EXTENDS StructGraph, Acquires

fillingVars == <<structVars, acquiresVars>>

Init == InitStructs /\ InitAcquires

(* Structs have all their fields before anything is generated from them.   *)
FillStructs == step = "collect" /\ NextStructs /\ UNCHANGED acquiresVars

PostProcess == unfilled = {} /\ NextAcquires /\ UNCHANGED structVars

Finished == AcquiresDone /\ UNCHANGED fillingVars

Next == FillStructs \/ PostProcess \/ Finished

Spec == Init /\ [][Next]_fillingVars

(* generate() runs on: the loops of the code never wait.  How many fields  *)
(* a struct gets is drawn; that it ends is no matter of the graph.         *)
FairSpec == Spec /\ WF_fillingVars(PostProcess)

-----------------------------------------------------------------------------
(* The loop over the passes comes to an end once it has begun.             *)
PassesEnd == step # "collect" ~> AcquiresDone
=============================================================================
