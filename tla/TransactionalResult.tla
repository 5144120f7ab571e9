------------------------- MODULE TransactionalResult -------------------------
(***************************************************************************)
(* src/execution/transactional/result.rs: how the logs of the runs of one  *)
(* input become a verdict, and when two verdicts are "similar".            *)
(*                                                                         *)
(* A log is a sequence of lines.  Of a line only what the code looks at is *)
(* kept: its diff sign, the kind its first words announce ("Cont" when     *)
(* ResultChunkKind::try_from_str returns None, "Differ" for an "errors     *)
(* differ" line), whether it contains a TO_IGNORE pattern, and two tokens: *)
(* text stands for the line's canonical text, "" if the line is blank, and *)
(* value for what follows its first colon, NoValue if it has none.         *)
(*                                                                         *)
(* get_canonicalized_msg looks for one pair of phrases in all lines of a   *)
(* chunk (line 317) and for the others in one line; the tokens take all of *)
(* them from that one line.                                                *)
(***************************************************************************)
EXTENDS Integers, Sequences, FiniteSets, SequencesExt

(* ResultStatus; Unknown is only the value before initialize().            *)
Status == {"Success", "Failure", "Panic"}

ErrorKinds == {"Error", "VMError", "Bug"}

(* TransactionalResult::success().                                         *)
Success == [status |-> "Success", loc |-> "none", chunks |-> << >>]

(* TransactionalResult::from_panic(): no chunks, the location in the log.  *)
FromPanic(loc) == [status |-> "Panic", loc |-> loc, chunks |-> << >>]

-----------------------------------------------------------------------------
(***************************************************************************)
(* From a log to its chunks.                                               *)
(***************************************************************************)

(* How many of the positions I are at most i, and the k-th of them.        *)
Rank(I, i) == Cardinality({j \in I : j <= i})

Nth(I, k) == CHOOSE i \in I : Rank(I, i) = k

(* What a log has at the positions I, in its order.                        *)
Picked(log, I) == [k \in 1 .. Cardinality(I) |-> log[Nth(I, k)]]

(* A line whose trimmed text is empty; in a diff its trimmed text is the   *)
(* sign alone, and so shorter than 2.                                      *)
IsBlank(line) == line.text = ""

WithoutBlanks(log) == Picked(log, {i \in DOMAIN log : ~IsBlank(log[i])})

(* The side of a comparison run's diff that the given sign selects, less   *)
(* its blank lines; a run that ended Ok logs the single line "Success",    *)
(* which carries no sign.                                                  *)
Side(log, sign) ==
  Picked(log, {i \in DOMAIN log : ~IsBlank(log[i]) /\ log[i].sign \in {sign, "="}})

(* Mutation of SplitDiffLog: common lines go to one side only.              *)
SplitDiffLogCommonLeft(log) ==
  <<Side(log, "-"),
    Picked(log, {i \in DOMAIN log : ~IsBlank(log[i]) /\ log[i].sign = "+"})>>

SplitDiffLog(log) == <<Side(log, "-"), Side(log, "+")>>

ParsedLines(log) == Picked(log, {i \in DOMAIN log : log[i].kind # "Differ"})

(* The canonical message of these kinds is taken from the second line of   *)
(* their chunk.                                                            *)
UsesSecondLine(kind) == kind \in {"VMError", "Hash"}

NoValue == "no value"

(* Of every chunk that is kept, lines.get(1).unwrap() succeeds, and of a   *)
(* hash also split(":").nth(1).unwrap() on that line.                      *)
Parses(log) ==
  LET lines == ParsedLines(log)
  IN  \A i \in DOMAIN lines :
        UsesSecondLine(lines[i].kind) =>
          /\ i + 1 \in DOMAIN lines /\ lines[i + 1].kind = "Cont"
          /\ lines[i].kind = "Hash" => lines[i + 1].value # NoValue

(* The canonical message of the chunk that line i announces.               *)
Canonical(lines, i) ==
  CASE lines[i].kind = "VMError" -> lines[i + 1].text
    [] lines[i].kind = "Hash" -> lines[i + 1].value
    [] OTHER -> lines[i].text

(* Lines before the first announced kind are dropped, a chunk extends to   *)
(* the next announced kind, and warnings and tasks are not kept.           *)
LogToChunks(log) ==
  LET lines == ParsedLines(log)
      kept  == {i \in DOMAIN lines : lines[i].kind \notin {"Cont", "Warning", "Task"}}
      Chunk(i) == [kind |-> lines[i].kind, canonical |-> Canonical(lines, i)]
  IN  [k \in 1 .. Cardinality(kept) |-> Chunk(Nth(kept, k))]

-----------------------------------------------------------------------------
(***************************************************************************)
(* The verdict over the chunks of all runs.                                *)
(***************************************************************************)

(* Mutation of CheckChunks: the first two runs only are compared.           *)
CheckChunksFirstTwo(runs) ==
  IF \A n \in DOMAIN runs : runs[n] = << >> THEN "Success"
  ELSE IF \E n \in DOMAIN runs : Len(runs[n]) # Len(runs[1]) THEN "Failure"
  ELSE IF \E n \in DOMAIN runs : \E i \in DOMAIN runs[n] : runs[n][i].kind = "Bug"
    THEN "Failure"
  ELSE IF \E i \in DOMAIN runs[1] :
            \E n, m \in (DOMAIN runs) \cap {1, 2} : runs[n][i].canonical # runs[m][i].canonical
    THEN "Failure"
  ELSE "Success"

(* Mutation of CheckChunks: chunks are compared only as far as both runs    *)
(* have them.                                                              *)
CheckChunksZipped(runs) ==
  IF \E n \in DOMAIN runs : \E i \in DOMAIN runs[n] : runs[n][i].kind = "Bug"
    THEN "Failure"
  ELSE IF \E n, m \in DOMAIN runs : \E i \in (DOMAIN runs[n]) \cap (DOMAIN runs[m]) :
            runs[n][i].canonical # runs[m][i].canonical
    THEN "Failure"
  ELSE "Success"

CheckChunks(runs) ==
  IF \A n \in DOMAIN runs : runs[n] = << >> THEN "Success"
  ELSE IF \E n \in DOMAIN runs : Len(runs[n]) # Len(runs[1]) THEN "Failure"
  ELSE IF \E n \in DOMAIN runs : \E i \in DOMAIN runs[n] : runs[n][i].kind = "Bug"
    THEN "Failure"
  ELSE IF \E i \in DOMAIN runs[1] :
            \E n, m \in DOMAIN runs : runs[n][i].canonical # runs[m][i].canonical
    THEN "Failure"
  ELSE "Success"

(* A run is [ok, diff, log]: whether it ended Ok, whether its log is a     *)
(* diff of two compilers, and the log of its error.                        *)
RunLog(run) ==
  IF run.ok
    THEN <<[sign |-> "none", kind |-> "Success", ignored |-> FALSE,
            text |-> "Success", value |-> NoValue]>>
    ELSE run.log

RunLogs(run) == IF run.diff THEN SplitDiffLog(RunLog(run)) ELSE <<RunLog(run)>>

Ignored(run) == \E i \in DOMAIN RunLog(run) : RunLog(run)[i].ignored

AllLogs(runs) == FlattenSeq([n \in DOMAIN runs |-> RunLogs(runs[n])])

(* Whether build() reaches get_canonicalized_msg on a chunk it cannot read *)
(* and so panics.                                                          *)
BuildPanics(runs) ==
  /\ \E n \in DOMAIN runs : ~runs[n].ok
  /\ \A n \in DOMAIN runs : ~Ignored(runs[n])
  /\ \E n \in DOMAIN AllLogs(runs) : ~Parses(AllLogs(runs)[n])

(* TransactionalResultBuilder::build() for runs it does not panic on.      *)
Build(runs) ==
  IF (\A n \in DOMAIN runs : runs[n].ok) \/ (\E n \in DOMAIN runs : Ignored(runs[n]))
    THEN Success
    ELSE LET chunks == [n \in DOMAIN AllLogs(runs) |-> LogToChunks(AllLogs(runs)[n])]
         IN  [status |-> CheckChunks(chunks), loc |-> "none", chunks |-> chunks]

-----------------------------------------------------------------------------
(***************************************************************************)
(* impl ExecutionResult for TransactionalResult.                           *)
(***************************************************************************)

ResultIsBug(r) == r.status # "Success"

(* Mutation of CollectErrors: one set for all runs.                         *)
CollectErrorsOfAll(chunks) ==
  <<UNION {{chunks[n][i].canonical :
              i \in {j \in DOMAIN chunks[n] : chunks[n][j].kind \in ErrorKinds}} :
           n \in DOMAIN chunks}>>

(* For each run, the set of canonical error messages.                      *)
CollectErrors(chunks) ==
  [n \in DOMAIN chunks |->
     {chunks[n][i].canonical : i \in {j \in DOMAIN chunks[n] : chunks[n][j].kind \in ErrorKinds}}]

(* similar() under ResultCompareMode::SameError, the mode every caller     *)
(* uses.                                                                   *)
ResultSimilar(r, other) ==
  IF r.status = "Panic" /\ other.status = "Panic"
    THEN r.loc = other.loc
    ELSE CollectErrors(r.chunks) = CollectErrors(other.chunks)
=============================================================================
