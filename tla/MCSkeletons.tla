------------------------------ MODULE MCSkeletons ------------------------------
(***************************************************************************)
(* An instance of Skeletons: three generic structs and the one with all    *)
(* abilities.                                                              *)
(***************************************************************************)
EXTENDS Skeletons

SomeTypeParams == << <<{"key"}>>, <<{}>>, <<{}>> >>
=============================================================================
