--------------------------- MODULE MCGenerateCommand ---------------------------
(***************************************************************************)
(* An instance of GenerateCommand: the programs of three --seeds.  Those   *)
(* of a and c show one bug, that of b none, and what an empty program      *)
(* shows is left open.  From d no program is ever generated.               *)
(***************************************************************************)
EXTENDS GenerateCommand, TransactionalResult

CONSTANTS a, b, c, d

ThreeStreams == {<<a, b>>, <<b, c>>, <<d, a>>}

FirstBuffers == {<<a, 0>>, <<b, 1>>, <<b, 2>>, <<c, 2>>}

ErrA == [kind |-> "Error", canonical |-> "a"]
ErrB == [kind |-> "VMError", canonical |-> "b"]
Failure(v1, v2) == [status |-> "Failure", loc |-> "none", chunks |-> <<v1, v2>>]

RejectedByV1 == Failure(<<ErrA>>, << >>)
RejectedByV1Ran == Failure(<<ErrA>>, <<[kind |-> "Hash", canonical |-> "x"]>>)
ErrorsDiffer == Failure(<<ErrA>>, <<ErrB>>)

Results == {Success, RejectedByV1, RejectedByV1Ran, ErrorsDiffer}

OutcomesOf(program) ==
  CASE program[1] = a -> {RejectedByV1}
    [] program[1] = c -> {RejectedByV1Ran, ErrorsDiffer}
    [] program[1] = b -> {Success}
    [] OTHER -> {Success, ErrorsDiffer}
=============================================================================
