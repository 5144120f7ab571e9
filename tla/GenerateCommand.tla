---------------------------- MODULE GenerateCommand ----------------------------
(***************************************************************************)
(* handle_generate (cli/generate.rs): sessions of `move-smith generate`    *)
(* into one directory.  A session generates programs, each from a seed and *)
(* into a file of its own, next to it the bytes it was generated from;     *)
(* then it executes them and lists the files with new bugs.  The workers   *)
(* of a phase run side by side; the process may be killed at any point.    *)
(*                                                                         *)
(* A buffer is a seed and a size: the first 16K * 2^size bytes the seed    *)
(* gives.  It also stands for the program generated from those bytes.      *)
(* As in CheckCommand, fs::write is two steps.                             *)
(***************************************************************************)
EXTENDS Naturals, FiniteSets, HashMaps

CONSTANTS
  Seeds,          (* The seeds of single programs.                         *)
  MaxNum,         (* A bound on the number of files.                       *)
  Streams,        (* Of each --seed, the seeds drawn from it, in order.    *)
  MaxSize,        (* A bound on the sizes that are told apart.             *)
  Suffices,       (* The buffers from which generation succeeds.  A seed   *)
                  (* may have none: not every failure is a lack of bytes.  *)
  Result,         (* The results an execution can have.                    *)
  Outcomes(_),    (* Of a program, the results it may have.                *)
  IsBug(_),       (* The result is to be reported.                         *)
  Similar(_, _),  (* Two results are the same problem.                     *)
  MaxSessions,    (* A bound on the sessions.                              *)
  MaxCrashes      (* A bound on the sessions that are killed.              *)

Buffers == Seeds \X (0 .. MaxSize)

(* A result is similar to itself.                                          *)
ASSUME GenerateAssumption ==
  /\ MaxNum \in Nat /\ MaxSize \in Nat /\ MaxSessions \in Nat /\ MaxCrashes \in Nat
  /\ Streams \subseteq [1 .. MaxNum -> Seeds]
  /\ \A r \in Result : Similar(r, r)
  /\ Suffices \subseteq Buffers

(* What a file may hold besides, and the code of a generation that took    *)
(* too long.                                                               *)
Absent == <<"absent">>
Torn == <<"torn">>
Empty == <<"empty">>

Listed(files) == <<"files", files>>

(* A file is named after its number and whether it is a package.           *)
FileNames == BOOLEAN \X (1 .. MaxNum)

VARIABLES
  moves,          (* The Move files.                                       *)
  raws,           (* The buffer files.                                     *)
  failed,         (* failed_files.txt.                                     *)
  phase,          (* Of the session, or how the last one ended.            *)
  cmd,            (* The session's stream, num, package and skip_run.      *)
  stage,          (* How far a phase is with each of its files.            *)
  size,           (* Of each file, the size of its buffer.                 *)
  codes,          (* What the generation of each file came to.             *)
  pool, verdict,  (* The session's execution manager.                      *)
  sessions,       (* How many sessions have begun.                         *)
  crashes         (* How many of them were killed.                         *)

disk == <<moves, raws, failed>>
manager == <<pool, verdict>>
counts == <<sessions, crashes>>
vars == <<disk, manager, counts, phase, cmd, stage, size, codes>>

(* ExecutionManager::default() saves no inputs.                            *)
Manager == INSTANCE BugClustering WITH
  Input <- 1 .. MaxNum, AnswersNew <- TRUE, SaveInput <- FALSE, input_map <- << >>

Init ==
  /\ moves = [f \in FileNames |-> Absent]
  /\ raws = [f \in FileNames |-> Absent]
  /\ failed = Absent
  /\ phase = "idle"
  /\ cmd \in [stream : Streams, num : {0}, package : {FALSE}, skip_run : {FALSE}]
  /\ stage = EmptyMap /\ size = EmptyMap /\ codes = EmptyMap
  /\ pool = {} /\ verdict = EmptyMap
  /\ sessions = 0 /\ crashes = 0

Files == 1 .. cmd.num
FileOf(i) == <<cmd.package, i>>

(* Mutation of SeedOf: the seeds are taken from the end of the list.       *)
SeedFromEnd(i) == cmd.stream[cmd.num + 1 - i]

(* generate_seeds: the first num of the stream, one for each file.         *)
SeedOf(i) == cmd.stream[i]

BufferOf(i) == <<SeedOf(i), size[i]>>

Advance(i, to) == stage' = [stage EXCEPT ![i] = to]

StartSession(stream, num, package, skip_run) ==
  /\ phase \in {"idle", "done"}
  /\ sessions < MaxSessions
  /\ sessions' = sessions + 1
  /\ cmd' = [stream |-> stream, num |-> num, package |-> package, skip_run |-> skip_run]
  /\ phase' = "generate"
  /\ stage' = [i \in 1 .. num |-> "buffer"]
  /\ size' = [i \in 1 .. num |-> 0]
  /\ codes' = EmptyMap
  /\ UNCHANGED <<disk, manager, crashes>>

-----------------------------------------------------------------------------
(* [1/2], one file: generate_move_with_seed.                               *)

(* Mutation of TryLarger: the buffer keeps its length.                     *)
TryAgain(i) ==
  /\ phase = "generate" /\ stage[i] = "buffer"
  /\ BufferOf(i) \notin Suffices
  /\ UNCHANGED vars

(* Generation fails: the buffer is extended to twice its length, without   *)
(* an end if no buffer suffices.  Sizes beyond MaxSize, of which none      *)
(* suffices, count as MaxSize.                                             *)
TryLarger(i) ==
  /\ phase = "generate" /\ stage[i] = "buffer"
  /\ BufferOf(i) \notin Suffices
  /\ size' = [size EXCEPT ![i] = IF @ < MaxSize THEN @ + 1 ELSE @]
  /\ UNCHANGED <<disk, manager, counts, phase, cmd, stage, codes>>

(* Any attempt may exceed its time: its log says "IncorrectFormat".        *)
TimesOut(i) ==
  /\ phase = "generate" /\ stage[i] = "buffer"
  /\ codes' = Put(codes, i, Empty)
  /\ Advance(i, "finished")
  /\ UNCHANGED <<disk, manager, counts, phase, cmd, size>>

CreateMove(i) ==
  /\ phase = "generate" /\ stage[i] = "buffer"
  /\ BufferOf(i) \in Suffices
  /\ moves' = [moves EXCEPT ![FileOf(i)] = Torn]
  /\ Advance(i, "move")
  /\ UNCHANGED <<raws, failed, manager, counts, phase, cmd, size, codes>>

WriteMove(i) ==
  /\ phase = "generate" /\ stage[i] = "move"
  /\ moves' = [moves EXCEPT ![FileOf(i)] = BufferOf(i)]
  /\ Advance(i, "written")
  /\ UNCHANGED <<raws, failed, manager, counts, phase, cmd, size, codes>>

CreateRaw(i) ==
  /\ phase = "generate" /\ stage[i] = "written"
  /\ raws' = [raws EXCEPT ![FileOf(i)] = Torn]
  /\ Advance(i, "raw")
  /\ UNCHANGED <<moves, failed, manager, counts, phase, cmd, size, codes>>

WriteRaw(i) ==
  /\ phase = "generate" /\ stage[i] = "raw"
  /\ raws' = [raws EXCEPT ![FileOf(i)] = BufferOf(i)]
  /\ codes' = Put(codes, i, BufferOf(i))
  /\ Advance(i, "finished")
  /\ UNCHANGED <<moves, failed, manager, counts, phase, cmd, size>>

(* collect() waits for all files; the manager is new in each session.      *)
EndGenerate ==
  /\ phase = "generate" /\ \A i \in Files : stage[i] = "finished"
  /\ phase' = IF cmd.skip_run THEN "done" ELSE "run"
  /\ stage' = [i \in Files |-> "waiting"]
  /\ pool' = {} /\ verdict' = EmptyMap
  /\ UNCHANGED <<disk, counts, cmd, size, codes>>

-----------------------------------------------------------------------------
(* [2/2], one file: execute_check_new_bug, as BugClustering promises it.   *)
Execute(i) ==
  /\ phase = "run" /\ stage[i] = "waiting"
  /\ \E r \in Result, new \in BOOLEAN :
       r \in Outcomes(codes[i]) /\ Manager!Submit(i, r, new)
  /\ Advance(i, "finished")
  /\ UNCHANGED <<disk, counts, phase, cmd, size, codes>>

CreateList ==
  /\ phase = "run" /\ \A i \in Files : stage[i] = "finished"
  /\ failed' = Torn
  /\ phase' = "list"
  /\ UNCHANGED <<moves, raws, manager, counts, cmd, stage, size, codes>>

(* Mutation of FailedFiles: the files without code are left out before the *)
(* results are zipped with the files.                                      *)
FailedFilesMisaligned ==
  {FileOf(i) : i \in {j \in Files :
     \E k \in Files : /\ verdict[k].new /\ codes[k] # Empty
                      /\ j = k - Cardinality({m \in 1 .. k : codes[m] = Empty})}}

(* The files zipped with the answers.                                      *)
FailedFiles == {FileOf(i) : i \in {j \in Files : verdict[j].new}}

WriteList ==
  /\ phase = "list"
  /\ failed' = Listed(FailedFiles)
  /\ phase' = "done"
  /\ UNCHANGED <<moves, raws, manager, counts, cmd, stage, size, codes>>

(* The process is killed.  Only the files remain.                          *)
Crash ==
  /\ phase \in {"generate", "run", "list"}
  /\ crashes < MaxCrashes
  /\ crashes' = crashes + 1
  /\ phase' = "idle"
  /\ UNCHANGED <<disk, manager, sessions, cmd, stage, size, codes>>

(* No more sessions.                                                       *)
Finished ==
  /\ sessions = MaxSessions /\ phase \in {"idle", "done"}
  /\ UNCHANGED vars

Work ==
  \/ \E i \in Files :
       \/ TryLarger(i)
       \/ CreateMove(i) \/ WriteMove(i) \/ CreateRaw(i) \/ WriteRaw(i)
       \/ Execute(i)
  \/ EndGenerate \/ CreateList \/ WriteList

Next ==
  \/ Work \/ Crash \/ Finished
  \/ \E i \in Files : TimesOut(i)
  \/ \E stream \in Streams, num \in 1 .. MaxNum, package, skip_run \in BOOLEAN :
       StartSession(stream, num, package, skip_run)

(* The workers of the process go on until they are done.  That a           *)
(* generation takes too long is up to the clock and never relied upon.     *)
Spec == Init /\ [][Next]_vars /\ WF_vars(Work)

-----------------------------------------------------------------------------
(***************************************************************************)
(* Properties.                                                             *)
(***************************************************************************)

(* Every variable has its type; the session's files are at work.           *)
TypeOK ==
  /\ moves \in [FileNames -> Buffers \cup {Absent, Torn}]
  /\ raws \in [FileNames -> Buffers \cup {Absent, Torn}]
  /\ failed \in {Absent, Torn} \cup {Listed(files) : files \in SUBSET FileNames}
  /\ phase \in {"idle", "generate", "run", "list", "done"}
  /\ cmd \in [stream : Streams, num : 0 .. MaxNum, package : BOOLEAN, skip_run : BOOLEAN]
  /\ stage \in [Files -> {"buffer", "move", "written", "raw", "waiting", "finished"}]
  /\ size \in [Files -> 0 .. MaxSize]
  /\ DOMAIN codes \subseteq Files
  /\ sessions \in 0 .. MaxSessions /\ crashes \in 0 .. MaxCrashes

(* What a seed gives: the first buffer that suffices.                      *)
IsFirst(buffer) ==
  /\ buffer \in Suffices
  /\ \A smaller \in 0 .. buffer[2] - 1 : <<buffer[1], smaller>> \notin Suffices

(* What a file holds depends on --seed and the number of the file only,    *)
(* not on how many are generated or what earlier sessions left; after the  *)
(* generation, each file with a code holds it and has the buffer it is     *)
(* generated from next to it, and files that do not fit together were left *)
(* by a kill.                                                              *)
FilesAreReproducible ==
  /\ \A f \in FileNames : \A content \in {moves[f], raws[f]} \ {Absent, Torn} :
       /\ IsFirst(content)
       /\ \E stream \in Streams : content[1] = stream[f[2]]
  /\ phase \in {"run", "list", "done"} => \A i \in Files :
       \/ codes[i] = Empty
       \/ /\ moves[FileOf(i)] = codes[i] /\ raws[FileOf(i)] = codes[i]
          /\ codes[i][1] = cmd.stream[i]
  /\ phase # "generate" /\ crashes = 0 => moves = raws

(* A session that ran its programs lists files with bugs, and every bug is *)
(* similar to one of a file in the list, or to a result that is no bug.    *)
(* A listed file holds the program that showed the bug, unless its         *)
(* generation took too long.                                               *)
FailedFilesShowTheBugs ==
  phase = "done" /\ ~cmd.skip_run =>
    LET listed == {i \in Files : FileOf(i) \in failed[2]}
    IN  /\ failed = Listed({FileOf(i) : i \in listed})
        /\ \A i \in listed : /\ IsBug(verdict[i].result)
                             /\ codes[i] \in {moves[FileOf(i)], Empty}
        /\ \A i \in Files : IsBug(verdict[i].result) =>
             \E j \in Files : /\ j \in listed \/ ~IsBug(verdict[j].result)
                              /\ Similar(verdict[i].result, verdict[j].result)

(* The seed of the file gives no buffer from which generation succeeds.    *)
Hopeless(i) == \A n \in 0 .. MaxSize : <<SeedOf(i), n>> \notin Suffices

(* A session that goes on forever does so over a file whose seed gives no  *)
(* buffer that suffices: the loop has no limit.  Any other session comes   *)
(* to an end, also one in which every such file has run out of time, or    *)
(* is killed.                                                              *)
SessionsEnd ==
  []<>(\/ phase \in {"idle", "done"}
       \/ phase = "generate" /\ \E i \in Files : stage[i] = "buffer" /\ Hopeless(i))
=============================================================================
