----------------------- MODULE MCTransactionalExecutor -----------------------
(***************************************************************************)
(* Instances of TransactionalExecutor over short logs.                     *)
(***************************************************************************)
EXTENDS TransactionalExecutor

Line(kind, text) ==
  [sign |-> "none", kind |-> kind, ignored |-> FALSE, text |-> text, value |-> NoValue]

Blank == Line("Cont", "")

(* A line with a colon.                                                    *)
Valued(value) == [Line("Cont", "hash: value") EXCEPT !.value = value]

(* A VM error and the verifier's error for the same status code have the   *)
(* same canonical text.                                                    *)
Lines ==
  {Line("Warning", "w"), Line("Task", "t"), Line("Error", "code1"),
   Line("VMError", "vm"), Line("Cont", "code1"),
   Line("Hash", "hash"), Valued("value1"), Valued("value2"),
   Line("Bug", "b"), Line("Return", "r"), Blank,
   [Line("Error", "out of gas") EXCEPT !.ignored = TRUE]}

(* A status code is the detail of a VM error, a value that of a hash.      *)
Printable(log) ==
  \A i \in DOMAIN log : log[i].kind = "Cont" =>
    /\ i > 1 \/ IsBlank(log[i])
    /\ log[i].text = "code1" => log[i - 1].kind \in {"VMError", "Cont"}
    /\ log[i].value # NoValue => log[i - 1].kind = "Hash"

UpTo(lines, n) == {log \in UNION {[1 .. k -> lines] : k \in 0 .. n} : Printable(log)}

(* Logs for runs of any configuration, and longer ones for comparisons.    *)
CommonLogs ==
  UpTo(Lines, 1) \cup
  {<<Line("VMError", "vm"), Line("Cont", "code1")>>,
   <<Line("VMError", "vm"), Blank>>,
   <<Line("Hash", "hash"), Valued("value1")>>,
   <<Line("Hash", "hash"), Valued("value2")>>,
   <<Line("Hash", "hash"), Line("Cont", "words")>>,
   <<Line("Warning", "w"), Line("Error", "code1")>>}

LongLogs ==
  CommonLogs \cup
  UpTo({Line("Warning", "w"), Line("VMError", "vm"), Line("Cont", "code1"), Blank}, 3) \cup
  {<<Line("Hash", "hash"), Blank, Valued("value1")>>}

(* Logs for pairs of inputs: a warning, an error, two hashes, a log that   *)
(* cannot be read and nothing.                                             *)
FewLogs ==
  {<< >>, <<Line("Warning", "w")>>, <<Line("Error", "code1")>>, <<Line("VMError", "vm")>>,
   <<Line("VMError", "vm"), Line("Cont", "code1")>>,
   <<Line("Hash", "hash"), Valued("value1")>>,
   <<Line("Hash", "hash"), Valued("value2")>>}

AnyRequest == {<< >>, <<"V2OptNoOpt">>, <<"All">>}

FewRequests == {<< >>, <<"V2OptNoOpt">>}

(* Bounds: inputs with four runs, and two inputs one after the other, with *)
(* one or two runs each, only with few logs.                               *)
FourRunLogs ==
  FewLogs \cup {<<Line("Bug", "b")>>, <<Line("Task", "t")>>,
                <<[Line("Error", "out of gas") EXCEPT !.ignored = TRUE]>>}

FirstLogs ==
  {<< >>, <<Line("Warning", "w")>>, <<Line("Error", "code1")>>, <<Line("VMError", "vm")>>,
   <<Line("Hash", "hash"), Valued("value1")>>}

Few(inputRuns, logs, fewLogs) ==
  Len(inputRuns) <= 2 /\ \A n \in DOMAIN logs : ToSet(logs[n]) \subseteq fewLogs

PairsAreShort ==
  /\ past' # {} => Few(runs', printed', FewLogs)
  /\ past' # past => Few(runs, printed, FirstLogs)

FourRunsAreShort ==
  Len(runs') = 4 => \A n \in DOMAIN printed' : ToSet(printed'[n]) \subseteq FourRunLogs
=============================================================================
