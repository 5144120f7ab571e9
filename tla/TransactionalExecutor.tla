------------------------ MODULE TransactionalExecutor ------------------------
(***************************************************************************)
(* src/execution/transactional: an input is run under one or more          *)
(* configurations of the Move compiler and VM, each run's outcome is added *)
(* to the result builder, and build() turns the outcomes into a verdict.   *)
(*                                                                         *)
(* The compilers and the VM are external: a run of one configuration       *)
(* prints some log out of a set.  A comparison run prints nothing if the   *)
(* logs of the two compilers are equal and their line diff otherwise; a    *)
(* plain run that prints anything is an error that carries the log.        *)
(*                                                                         *)
(* What is returned for one input is compared with similar() to what was   *)
(* returned for others: past keeps the earlier results, MaxPast of them.   *)
(***************************************************************************)
EXTENDS TransactionalResult

CONSTANTS
  Logs,         (* What one compiler and the VM may print in a plain run.  *)
  ComparedLogs, (* The same in a comparison run.                           *)
  Requests,     (* The lists of CommonRunConfigs an input is built with.   *)
  MaxPast       (* Bound on the results that are remembered.               *)

Configs == {"V1V2Comparison", "V2OptNoOpt", "All"}

(* Every caller asks for one common configuration or for none.             *)
ASSUME ExecutorAssumption ==
  \A requested \in Requests : requested \in Seq(Configs) /\ Len(requested) <= 1

(* What a compiler prints carries no diff sign, and a blank line announces *)
(* nothing.                                                                *)
ASSUME LogsAssumption ==
  \A log \in Logs \cup ComparedLogs :
    /\ log \in Seq([sign : {"none"}, kind : STRING, ignored : BOOLEAN,
                    text : STRING, value : STRING])
    /\ \A i \in DOMAIN log :
         IsBlank(log[i]) => log[i].kind = "Cont" /\ ~log[i].ignored

(* What a plain run that prints nothing is compared by.                    *)
SuccessChunk == [kind |-> "Success", canonical |-> "Success"]

(* The logs as build() reads them: split_diff_log drops blank lines.       *)
ReadLogs == Logs \cup {WithoutBlanks(log) : log \in ComparedLogs}

ReadableChunks ==
  UNION {ToSet(LogToChunks(log)) : log \in {l \in ReadLogs : Parses(l)}}

(* An error reads like nothing but an error: its line starts with "error"  *)
(* or "bug", or it is the detail of a VM error, a status code.             *)
ASSUME TextsAssumption ==
  \A c, d \in ReadableChunks \cup {SuccessChunk} :
    c.kind \in ErrorKinds /\ c.canonical = d.canonical => d.kind \in ErrorKinds

VARIABLES
  runs,         (* input.runs.                                             *)
  todo,         (* The runs of the input that are left.                    *)
  printed,      (* History: per run, what each compiler printed.           *)
  results,      (* The builder's results.                                  *)
  output,       (* What execute_one returned, or nothing yet.              *)
  past          (* History: what it returned for earlier inputs.           *)

vars == <<runs, todo, printed, results, output, past>>

NoOutput == [status |-> "Unknown", loc |-> "none", chunks |-> << >>]

(* CommonRunConfig::to_run_configs: the compilers of each run, two for a   *)
(* comparison.                                                             *)
ToRunConfigs(config) ==
  CASE config = "V1V2Comparison" -> << <<"V1", "V2Optimization">> >>
    [] config = "V2OptNoOpt" -> << <<"V2Optimization">>, <<"V2NoOptimization">> >>
    [] config = "All" -> << <<"V1">>, <<"V2Optimization">>,
                            <<"V2NoOptimization">>, <<"V2OptNoSimp">> >>

(* TransactionalInputBuilder::build adds the default when none was asked.  *)
InputRuns(requested) ==
  FlattenSeq([n \in DOMAIN requested |-> ToRunConfigs(requested[n])])
    \o (IF requested = << >> THEN ToRunConfigs("V1V2Comparison") ELSE << >>)

IsComparison(run) == Len(run) = 2

Init ==
  /\ \E requested \in Requests : runs = InputRuns(requested)
  /\ todo = runs
  /\ printed = << >>
  /\ results = << >>
  /\ output = NoOutput
  /\ past = {}

-----------------------------------------------------------------------------
(***************************************************************************)
(* The harness (external).                                                 *)
(***************************************************************************)

(* The lines of a diff that come from the side of the sign.                *)
From(signs, sign) == {k \in DOMAIN signs : signs[k] \in {sign, "="}}

(* The line diff with these signs: the lines of a and of b in their order. *)
DiffOf(a, b, signs) ==
  LET Line(k) == IF signs[k] = "+" THEN b[Rank(From(signs, "+"), k)]
                                   ELSE a[Rank(From(signs, "-"), k)]
  IN  [k \in DOMAIN signs |-> [Line(k) EXCEPT !.sign = signs[k]]]

(* The signs there may be: only equal lines are common, and between two of *)
(* them comes what only a has before what only b has.                      *)
Scripts(a, b) ==
  {signs \in UNION {[1 .. n -> {"-", "+", "="}] : n \in Len(a) .. Len(a) + Len(b)} :
     /\ Cardinality(From(signs, "-")) = Len(a)
     /\ Cardinality(From(signs, "+")) = Len(b)
     /\ \A k \in DOMAIN signs :
          /\ signs[k] = "=" => a[Rank(From(signs, "-"), k)] = b[Rank(From(signs, "+"), k)]
          /\ signs[k] = "-" /\ k > 1 => signs[k - 1] # "+"}

Diffs(a, b) == {DiffOf(a, b, signs) : signs \in Scripts(a, b)}

(* The outcomes of a run whose compilers print these logs.                 *)
Outcomes(run, logs) ==
  IF ~IsComparison(run)
    THEN {[ok |-> logs[1] = << >>, diff |-> FALSE, log |-> logs[1]]}
    ELSE IF logs[1] = logs[2]
      THEN {[ok |-> TRUE, diff |-> TRUE, log |-> << >>]}
      ELSE {[ok |-> FALSE, diff |-> TRUE, log |-> d] : d \in Diffs(logs[1], logs[2])}

-----------------------------------------------------------------------------
(* One iteration of the loop over input.runs, with add_result.             *)
ExecuteRun(logs) ==
  /\ todo # << >>
  /\ \E outcome \in Outcomes(Head(todo), logs) : results' = Append(results, outcome)
  /\ printed' = Append(printed, logs)
  /\ todo' = Tail(todo)
  /\ UNCHANGED <<runs, output, past>>

(* After the loop, build(); a panic in it unwinds to the manager, whose    *)
(* hook turns it into a result.                                            *)
BuildResult ==
  /\ todo = << >>
  /\ output = NoOutput
  /\ output' = IF BuildPanics(results) THEN FromPanic("result.rs") ELSE Build(results)
  /\ UNCHANGED <<runs, todo, printed, results, past>>

(* execute_one is called for another input; it keeps nothing of the last.  *)
NextInput ==
  /\ output # NoOutput
  /\ Cardinality(past) < MaxPast
  /\ \E requested \in Requests : runs' = InputRuns(requested)
  /\ todo' = runs'
  /\ printed' = << >>
  /\ results' = << >>
  /\ output' = NoOutput
  /\ past' = past \cup {output}

Returned == output # NoOutput /\ UNCHANGED vars

Next ==
  \/ \E a \in Logs : todo # << >> /\ ~IsComparison(Head(todo)) /\ ExecuteRun(<<a>>)
  \/ \E a, b \in ComparedLogs : todo # << >> /\ IsComparison(Head(todo)) /\ ExecuteRun(<<a, b>>)
  \/ BuildResult
  \/ NextInput
  \/ Returned

Spec == Init /\ [][Next]_vars

-----------------------------------------------------------------------------
(***************************************************************************)
(* Properties.                                                             *)
(***************************************************************************)

(* The logs of one run as build() reads them, and those of all runs.       *)
AsRead(logs) ==
  IF Len(logs) = 2 THEN <<WithoutBlanks(logs[1]), WithoutBlanks(logs[2])>> ELSE logs

AllRead == FlattenSeq([n \in DOMAIN printed |-> AsRead(printed[n])])

Judged == output \notin {NoOutput, Success} /\ output.status # "Panic"

(* No blank line separates a VM error or a hash from its second line.      *)
DetailsFollow(log) ==
  LET lines == ParsedLines(log)
  IN  \A i \in DOMAIN lines :
        UsesSecondLine(lines[i].kind) /\ i + 1 \in DOMAIN lines => ~IsBlank(lines[i + 1])

(* Whichever diff the harness prints, splitting it by its signs recovers   *)
(* what each compiler printed but its blank lines: a comparison is judged  *)
(* on the chunks of two plain runs, except that a blank line between a VM  *)
(* error or a hash and its detail is not taken for the detail              *)
(* (split_diff_log, result.rs:169-192; log_to_chunck, 264-290).            *)
ChunksAreWhatWasPrinted ==
  Judged =>
    LET ChunksOf(log) == LogToChunks(IF DetailsFollow(log) THEN log ELSE WithoutBlanks(log))
        Judge(logs) ==
          CASE logs = << << >> >> -> << <<SuccessChunk>> >>
            [] Len(logs) = 2 -> <<ChunksOf(logs[1]), ChunksOf(logs[2])>>
            [] OTHER -> [k \in DOMAIN logs |-> LogToChunks(logs[k])]
    IN  output.chunks = FlattenSeq([n \in DOMAIN printed |-> Judge(printed[n])])

(* What a compiler said beyond warnings and task headers: the announcing   *)
(* lines of its log, with the detail line of a VM error or a hash.         *)
Said(log) ==
  LET lines == ParsedLines(log)
      Detail(i) == i > 1 /\ lines[i].kind = "Cont" /\ UsesSecondLine(lines[i - 1].kind)
  IN  Picked(lines, {i \in DOMAIN lines :
                       Detail(i) \/ lines[i].kind \notin {"Cont", "Warning", "Task"}})

(* An error that some compilers report and others do not is never judged a *)
(* success, however many runs there are and whichever of them report it    *)
(* (check_chunks, result.rs:213-242), unless a log is ignored.             *)
OneSidedErrorIsReported ==
  output.status = "Success" =>
    \/ \E n \in DOMAIN AllRead : \E i \in DOMAIN AllRead[n] : AllRead[n][i].ignored
    \/ \A n, m \in DOMAIN AllRead :
         (\E i \in DOMAIN AllRead[n] : AllRead[n][i].kind \in ErrorKinds)
           => \E i \in DOMAIN AllRead[m] : AllRead[m][i].kind \in ErrorKinds

(* Compilers that differ in warnings and task headers only agree: no       *)
(* failure is reported (log_to_chunck, result.rs:264-290).                 *)
WarningsAreNoFailure ==
  (/\ output.status = "Failure"
   /\ \A n \in DOMAIN AllRead : AllRead[n] # << >>) =>
    \/ \E n, m \in DOMAIN AllRead : Said(AllRead[n]) # Said(AllRead[m])
    \/ \E n \in DOMAIN AllRead : \E i \in DOMAIN AllRead[n] : AllRead[n][i].kind = "Bug"

(* The verdict follows from what the compilers said: an error of one side  *)
(* is no success, a difference in warnings no failure.                     *)
VerdictsFollowWhatWasSaid == OneSidedErrorIsReported /\ WarningsAreNoFailure

(* build() never panics for the way two logs were diffed: it panics only   *)
(* if some compiler's own log, less the blank lines of a compared one, has *)
(* a VM error or a hash without a second line or a hash whose second line  *)
(* has no colon (get_canonicalized_msg, result.rs:294-295).                *)
PanicsComeFromOneLog ==
  output.status = "Panic" => \E n \in DOMAIN AllRead : ~Parses(AllRead[n])

(* What the compilers report differs: not all runs have the same errors.   *)
ErrorsDiffer(r) ==
  LET errors == CollectErrors(r.chunks)
  IN  \E n, m \in DOMAIN errors : errors[n] # errors[m]

(* Of two inputs executed one after the other, a failure whose runs report *)
(* different errors is never similar to a success, built or constant, and  *)
(* no failure to a panic: neither hides it from the manager's pool         *)
(* (check_chunks, result.rs:213-242; similar, 402-417).                    *)
DifferencesStandOut ==
  output.status = "Failure" =>
    \A r \in past :
      ResultSimilar(output, r) =>
        r.status # "Panic" /\ (r.status = "Success" => ~ErrorsDiffer(output))

(* A bug counts as seen only if a bug like it was: "Return false if the    *)
(* result is not a bug OR the result is a bug but has been seen before"    *)
(* (execute_check_new_bug, execution/mod.rs:183-187).  A failure that has  *)
(* no error chunk, such as two hashes that differ, is similar to a success *)
(* with as many runs that differ in warnings only.                         *)
FailuresAreSimilarToBugsOnly ==
  output.status = "Failure" =>
    \A r \in past : ResultSimilar(output, r) => ResultIsBug(r)
=============================================================================
