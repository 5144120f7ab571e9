------------------------------ MODULE CheckCommand ------------------------------
(***************************************************************************)
(* handle_check (cli/check.rs): sessions of `move-smith check` on one      *)
(* corpus directory.  A session converts raw inputs to Move files, loads   *)
(* the results earlier sessions saved, executes the other Move files,      *)
(* saves their results and reports the bugs.  The workers of a phase run   *)
(* side by side; the process may be killed at any point.                   *)
(*                                                                         *)
(* fs::write truncates a file and then writes it: two steps, between which *)
(* a crash leaves a torn file.                                             *)
(***************************************************************************)
EXTENDS Naturals

CONSTANTS
  Raws,         (* Raw inputs: *.raw, *.fuzz and files without extension.  *)
  Stems,        (* File names without extension.                           *)
  StemOf,       (* Of each raw input; several may share one.               *)
  GivenMoves,   (* Stems that come with a Move file.                       *)
  Configs,      (* Configurations of generator and executor.               *)
  Converts,     (* The pairs of raw input and configuration for which      *)
                (* raw2move succeeds when it has the time.                 *)
  Buggy(_),     (* Whether executing a content shows a bug.                *)
  MaxSessions,  (* A bound on the sessions.                                *)
  MaxCrashes    (* A bound on the sessions that are killed.                *)

ASSUME CheckAssumption ==
  /\ StemOf \in [Raws -> Stems]
  /\ GivenMoves \subseteq Stems
  /\ Converts \subseteq Raws \X Configs
  /\ MaxSessions \in Nat /\ MaxCrashes \in Nat

(* What a Move file may hold.                                              *)
Absent == <<"absent">>
Torn == <<"torn">>      \* truncated, not yet written
Mixed == <<"mixed">>    \* two codes written over each other
Given == <<"given">>
Code(raw, config) == <<"code", raw, config>>
Contents == {Torn, Mixed, Given} \cup {Code(r, c) : r \in Raws, c \in Configs}

(* What an .output file may hold besides.                                  *)
ResultOf(content, config) == <<"result", content, config>>
Results == {ResultOf(content, c) : content \in Contents, c \in Configs}

VARIABLES
  moves,        (* The .move files.                                        *)
  outputs,      (* The .output files.                                      *)
  errors,       (* The stems with an .error file.                          *)
  phase,        (* Of the session, or how the last one ended.              *)
  cmd,          (* The flags and configuration of the session.             *)
  stage,        (* How far a phase is with each of its files.              *)
  all_moves,    (* The Move files of the session.                          *)
  to_execute,   (* Those whose results are not loaded.                     *)
  failed,       (* The raw inputs that num_parse_err counts.               *)
  filed,        (* What add_result was called with.                        *)
  sessions,     (* How many sessions have begun.                           *)
  crashes       (* How many of them were killed.                           *)

files == <<moves, outputs, errors>>
memory == <<cmd, all_moves, to_execute, failed, filed>>
vars == <<files, memory, phase, stage, sessions, crashes>>

Init ==
  /\ moves = [s \in Stems |-> IF s \in GivenMoves THEN Given ELSE Absent]
  /\ outputs = [s \in Stems |-> Absent]
  /\ errors = {}
  /\ phase = "idle"
  /\ cmd \in [regenerate : {FALSE}, rerun : {FALSE}, config : Configs]
  /\ stage = [r \in Raws |-> "finished"]
  /\ all_moves = {} /\ to_execute = {} /\ failed = {} /\ filed = {}
  /\ sessions = 0 /\ crashes = 0

(* The scan of the directory; the Move files found are part of the         *)
(* session even when their raw inputs fail to convert.                     *)
StartSession(regenerate, rerun, config) ==
  /\ phase \in {"idle", "done", "panicked"}
  /\ sessions < MaxSessions
  /\ sessions' = sessions + 1
  /\ cmd' = [regenerate |-> regenerate, rerun |-> rerun, config |-> config]
  /\ phase' = "convert"
  /\ stage' = [r \in Raws |-> "waiting"]
  /\ all_moves' = {s \in Stems : moves[s] # Absent}
  /\ to_execute' = {} /\ failed' = {} /\ filed' = {}
  /\ UNCHANGED <<files, crashes>>

Advance(file, to) == stage' = [stage EXCEPT ![file] = to]

-----------------------------------------------------------------------------
(* [2/5], one raw input: is there a Move file?                             *)

(* Mutation of LookForMove: --regenerate is forgotten.                     *)
LookForMoveOnly(raw) ==
  /\ phase = "convert" /\ stage[raw] = "waiting"
  /\ IF moves[StemOf[raw]] = Absent
       THEN Advance(raw, "busy") /\ UNCHANGED all_moves
       ELSE Advance(raw, "finished") /\ all_moves' = all_moves \cup {StemOf[raw]}
  /\ UNCHANGED <<files, cmd, to_execute, failed, filed, phase, sessions, crashes>>

(* Mutation of LookForMove: the Move file counts before it is written.     *)
LookForMoveEarly(raw) ==
  /\ phase = "convert" /\ stage[raw] = "waiting"
  /\ IF cmd.regenerate \/ moves[StemOf[raw]] = Absent
       THEN Advance(raw, "busy")
       ELSE Advance(raw, "finished")
  /\ all_moves' = all_moves \cup {StemOf[raw]}
  /\ UNCHANGED <<files, cmd, to_execute, failed, filed, phase, sessions, crashes>>

LookForMove(raw) ==
  /\ phase = "convert" /\ stage[raw] = "waiting"
  /\ IF cmd.regenerate \/ moves[StemOf[raw]] = Absent
       THEN Advance(raw, "busy") /\ UNCHANGED all_moves
       ELSE Advance(raw, "finished") /\ all_moves' = all_moves \cup {StemOf[raw]}
  /\ UNCHANGED <<files, cmd, to_execute, failed, filed, phase, sessions, crashes>>

(* raw2move fails: an .error file, and no Move file from this input.  It   *)
(* may fail for any input, as generation has a limit of wall clock time.   *)
ConversionFails(raw) ==
  /\ phase = "convert" /\ stage[raw] = "busy"
  /\ errors' = errors \cup {StemOf[raw]}
  /\ failed' = failed \cup {raw}
  /\ Advance(raw, "finished")
  /\ UNCHANGED <<moves, outputs, cmd, all_moves, to_execute, filed,
                 phase, sessions, crashes>>

CreateMove(raw) ==
  /\ phase = "convert" /\ stage[raw] = "busy"
  /\ <<raw, cmd.config>> \in Converts
  /\ moves' = [moves EXCEPT ![StemOf[raw]] = Torn]
  /\ Advance(raw, "open")
  /\ UNCHANGED <<outputs, errors, memory, phase, sessions, crashes>>

(* Written from the start of the file.  When another worker has written it *)
(* since it was created, the end of a longer code remains.                 *)
WriteMove(raw) ==
  /\ phase = "convert" /\ stage[raw] = "open"
  /\ \E content \in {Code(raw, cmd.config)} \cup
                    (IF moves[StemOf[raw]] = Torn THEN {} ELSE {Mixed}) :
       moves' = [moves EXCEPT ![StemOf[raw]] = content]
  /\ all_moves' = all_moves \cup {StemOf[raw]}
  /\ Advance(raw, "finished")
  /\ UNCHANGED <<outputs, errors, cmd, to_execute, failed, filed,
                 phase, sessions, crashes>>

EndConvert ==
  /\ phase = "convert" /\ \A raw \in Raws : stage[raw] = "finished"
  /\ phase' = "load"
  /\ stage' = [s \in all_moves |-> "waiting"]
  /\ UNCHANGED <<files, memory, sessions, crashes>>

-----------------------------------------------------------------------------
(* add_result, for bugs.                                                   *)
FileIfBug(s, result) ==
  filed' = IF Buggy(result) THEN filed \cup {<<s, result>>} ELSE filed

(* Mutation of MustExecute: any existing .output is loaded.                *)
MustExecuteNew(s) == outputs[s] = Absent

(* Mutation of MustExecute: every Move file is executed.                   *)
MustExecuteAll(s) == TRUE

MustExecute(s) == cmd.rerun \/ outputs[s] = Absent

(* [3/5], one Move file.                                                   *)
PutOff(s) ==
  /\ phase = "load" /\ stage[s] = "waiting"
  /\ MustExecute(s)
  /\ to_execute' = to_execute \cup {s}
  /\ Advance(s, "finished")
  /\ UNCHANGED <<files, cmd, all_moves, failed, filed, phase, sessions, crashes>>

(* Mutation of LoadResult: the bug is not added.                           *)
LoadSilently(s) ==
  /\ phase = "load" /\ stage[s] = "waiting"
  /\ ~MustExecute(s) /\ outputs[s] # Torn
  /\ Advance(s, "finished")
  /\ UNCHANGED <<files, memory, phase, sessions, crashes>>

(* A saved result; a bug among them is clustered again.                    *)
LoadResult(s) ==
  /\ phase = "load" /\ stage[s] = "waiting"
  /\ ~MustExecute(s) /\ outputs[s] # Torn
  /\ FileIfBug(s, outputs[s])
  /\ Advance(s, "finished")
  /\ UNCHANGED <<files, cmd, all_moves, to_execute, failed, phase, sessions, crashes>>

(* Mutation of LoadPanics: the file is read until it is complete.          *)
LoadRetries(s) ==
  /\ phase = "load" /\ stage[s] = "waiting"
  /\ ~MustExecute(s) /\ outputs[s] = Torn
  /\ UNCHANGED vars

(* serde_json::from_str(..).unwrap(): the panic of a worker ends the       *)
(* session.                                                                *)
LoadPanics(s) ==
  /\ phase = "load" /\ stage[s] = "waiting"
  /\ ~MustExecute(s) /\ outputs[s] = Torn
  /\ phase' = "panicked"
  /\ UNCHANGED <<files, memory, stage, sessions, crashes>>

EndLoad ==
  /\ phase = "load" /\ \A s \in all_moves : stage[s] = "finished"
  /\ phase' = "execute"
  /\ stage' = [s \in to_execute |-> "waiting"]
  /\ UNCHANGED <<files, memory, sessions, crashes>>

-----------------------------------------------------------------------------
(* [4/5], one Move file: executed, which never fails but may panic, a      *)
(* result like others; save_result_to_disk begins.                         *)
CreateOutput(s) ==
  /\ phase = "execute" /\ stage[s] = "waiting"
  /\ outputs' = [outputs EXCEPT ![s] = Torn]
  /\ Advance(s, "open")
  /\ UNCHANGED <<moves, errors, memory, phase, sessions, crashes>>

(* Mutation of WriteOutput: only bugs are written.                         *)
WriteBugs(s) ==
  /\ phase = "execute" /\ stage[s] = "open"
  /\ LET result == ResultOf(moves[s], cmd.config) IN
       outputs' = IF Buggy(result) THEN [outputs EXCEPT ![s] = result] ELSE outputs
  /\ Advance(s, "saved")
  /\ UNCHANGED <<moves, errors, memory, phase, sessions, crashes>>

WriteOutput(s) ==
  /\ phase = "execute" /\ stage[s] = "open"
  /\ outputs' = [outputs EXCEPT ![s] = ResultOf(moves[s], cmd.config)]
  /\ Advance(s, "saved")
  /\ UNCHANGED <<moves, errors, memory, phase, sessions, crashes>>

(* The result, still at hand, is clustered if it is a bug.                 *)
FileResult(s) ==
  /\ phase = "execute" /\ stage[s] = "saved"
  /\ FileIfBug(s, ResultOf(moves[s], cmd.config))
  /\ Advance(s, "finished")
  /\ UNCHANGED <<files, cmd, all_moves, to_execute, failed, phase, sessions, crashes>>

(* [5/5]: the report, of what was filed.                                   *)
EndExecute ==
  /\ phase = "execute" /\ \A s \in to_execute : stage[s] = "finished"
  /\ phase' = "done"
  /\ UNCHANGED <<files, memory, stage, sessions, crashes>>

(* The process is killed.  Only the files remain.                          *)
Crash ==
  /\ phase \in {"convert", "load", "execute"}
  /\ crashes < MaxCrashes
  /\ crashes' = crashes + 1
  /\ phase' = "idle"
  /\ stage' = [r \in Raws |-> "finished"]
  /\ UNCHANGED <<files, memory, sessions>>

(* No more sessions.                                                       *)
Finished ==
  /\ sessions = MaxSessions /\ phase \in {"idle", "done", "panicked"}
  /\ UNCHANGED vars

Work ==
  \/ \E raw \in Raws :
       \/ LookForMove(raw) \/ ConversionFails(raw)
       \/ CreateMove(raw) \/ WriteMove(raw)
  \/ \E s \in all_moves : PutOff(s) \/ LoadResult(s) \/ LoadPanics(s)
  \/ \E s \in to_execute : CreateOutput(s) \/ WriteOutput(s) \/ FileResult(s)
  \/ EndConvert \/ EndLoad \/ EndExecute

Next ==
  \/ Work \/ Crash \/ Finished
  \/ \E regenerate, rerun \in BOOLEAN, config \in Configs :
       StartSession(regenerate, rerun, config)

(* The workers of the process go on until they are done.                   *)
Spec == Init /\ [][Next]_vars /\ WF_vars(Work)

-----------------------------------------------------------------------------
(* Every variable has its type; only the session's files are at work.      *)
TypeOK ==
  /\ moves \in [Stems -> Contents \cup {Absent}]
  /\ outputs \in [Stems -> Results \cup {Absent, Torn}]
  /\ errors \subseteq Stems
  /\ phase \in {"idle", "convert", "load", "execute", "done", "panicked"}
  /\ cmd \in [regenerate : BOOLEAN, rerun : BOOLEAN, config : Configs]
  /\ all_moves \subseteq {s \in Stems : moves[s] # Absent}
  /\ to_execute \subseteq all_moves
  /\ failed \subseteq Raws
  /\ filed \subseteq all_moves \X Results
  /\ sessions \in 0..MaxSessions /\ crashes \in 0..MaxCrashes

(* The report of a session lists exactly the bugs among the results on     *)
(* disk of its Move files, loaded or executed, and leaves none without.    *)
ReportIsWhatDiskHolds ==
  phase = "done" =>
    /\ \A s \in all_moves : outputs[s] \in Results
    /\ filed = {<<s, outputs[s]>> : s \in {t \in all_moves : Buggy(outputs[t])}}

(* A session with --rerun reports on the Move files as they are now, with  *)
(* the present configuration.                                              *)
RerunReportsThePresent ==
  phase = "done" /\ cmd.rerun =>
    \A s \in all_moves : outputs[s] = ResultOf(moves[s], cmd.config)

(* What a session with --regenerate leaves in a raw input's Move file:     *)
(* what the inputs that share it and convert wrote there.                  *)
FreshContents(raw) ==
  LET writers == {other \in Raws \ failed : StemOf[other] = StemOf[raw]} IN
    {Code(w, cmd.config) : w \in writers} \cup (IF writers = {raw} THEN {} ELSE {Mixed})

(* With --regenerate and --rerun a session makes good whatever crashed     *)
(* sessions and other configurations left behind, for every raw input      *)
(* whose conversion does not fail: what is executed is its code of this    *)
(* session or, where several inputs share a Move file, one of theirs or a  *)
(* mixture of them, never a torn file and never an old one.  Of an input   *)
(* whose conversion fails an old or torn Move file survives, and is        *)
(* executed.                                                               *)
FreshSessionRecovers ==
  phase = "done" /\ cmd.regenerate /\ cmd.rerun =>
    \A raw \in Raws \ failed :
      \E content \in FreshContents(raw) :
        outputs[StemOf[raw]] = ResultOf(content, cmd.config)

(* A session fails to load a result only if an earlier one was killed.     *)
PanicNeedsCrash == phase = "panicked" => crashes > 0 /\ ~cmd.rerun

(* Without --rerun a saved result is never touched.                        *)
ResultsKept ==
  [][\A s \in Stems : ~cmd.rerun /\ outputs[s] \in Results => outputs'[s] = outputs[s]]_vars

(* A session comes to an end, or is killed.                                *)
SessionsEnd == phase = "convert" ~> phase \in {"idle", "done", "panicked"}
=============================================================================
