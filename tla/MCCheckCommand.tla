----------------------------- MODULE MCCheckCommand -----------------------------
(***************************************************************************)
(* An instance of CheckCommand: two raw inputs share a stem, a third has a *)
(* Move file already and converts under one of two configurations.         *)
(***************************************************************************)
EXTENDS CheckCommand

CONSTANTS rawA, fuzzA, rawB, a, b, c1, c2

Stem == [raw \in {rawA, fuzzA, rawB} |-> IF raw = rawB THEN b ELSE a]

Convertible == {rawA, fuzzA} \X {c1, c2} \cup {<<rawB, c1>>}

(* The results that are bugs: those of fuzzA, and of rawB under c1.      *)
SomeBugs(result) == \E raw \in {fuzzA, rawB} : result[2] = Code(raw, c1)
=============================================================================
