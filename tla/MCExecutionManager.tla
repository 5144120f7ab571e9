-------------------------- MODULE MCExecutionManager --------------------------
(***************************************************************************)
(* Instances of ExecutionManager over results of the transactional         *)
(* executor: R is TransactionalResult, with its is_bug and similar.        *)
(***************************************************************************)
EXTENDS ExecutionManager, TransactionalResult, TLC

Chunk(kind, canonical) == [kind |-> kind, canonical |-> canonical]

(* The outcomes of a V1/V2 comparison run.                                 *)
Compared(status, v1, v2) == [status |-> status, loc |-> "none", chunks |-> <<v1, v2>>]

ErrA == Chunk("Error", "a")
ErrB == Chunk("VMError", "b")
HashX == Chunk("Hash", "x")

(* V1 rejects the program with error a, V2 accepts it; with and without a  *)
(* hash in V2's output.  The two results differ and are similar.           *)
RejectedByV1 == Compared("Failure", <<ErrA>>, << >>)
RejectedByV1Ran == Compared("Failure", <<ErrA>>, <<HashX>>)

(* Both fail, with different errors.                                       *)
ErrorsDiffer == Compared("Failure", <<ErrA>>, <<ErrB>>)

PanicP == FromPanic("p")
PanicQ == FromPanic("q")

Panics == {PanicP, PanicQ}

BugResults == {RejectedByV1, RejectedByV1Ran, PanicP, PanicQ}
MixedResults == {Success, RejectedByV1, RejectedByV1Ran, PanicP, PanicQ}
CheckResults == {Success, RejectedByV1, RejectedByV1Ran, ErrorsDiffer, PanicP}
OnePanic == {PanicP}
NoPanics == {}
PanicResults == {Success, PanicP}
ErrorResults == {RejectedByV1, RejectedByV1Ran, ErrorsDiffer}

Interchangeable == Permutations(Thread) \cup Permutations(Input)
=============================================================================
