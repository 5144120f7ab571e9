-------------------------- MODULE CheckCommand_proofs --------------------------
(***************************************************************************)
(* What a finished session of the check command reports, for any corpus,   *)
(* any number of sessions and crashes, and any interleaving of workers.    *)
(***************************************************************************)
EXTENDS CheckCommand, TLAPS

(* The kinds of contents are told apart.                                   *)
LEMMA Distinct ==
  /\ Absent # Torn /\ Absent # Mixed /\ Absent # Given
  /\ \A r, c : Code(r, c) # Absent /\ Code(r, c) # Torn
  /\ \A content, c : ResultOf(content, c) # Absent /\ ResultOf(content, c) # Torn
<1>1. /\ Absent[1] = "absent" /\ Torn[1] = "torn"
      /\ Mixed[1] = "mixed" /\ Given[1] = "given"
      /\ \A r, c : Code(r, c)[1] = "code"
      /\ \A content, c : ResultOf(content, c)[1] = "result"
  BY DEF Absent, Torn, Mixed, Given, Code, ResultOf
<1> QED
  BY <1>1

(* How far a phase is with each of its files.                              *)
StageOK ==
  /\ phase = "convert" => stage \in [Raws -> {"waiting", "busy", "open", "finished"}]
  /\ phase = "load" => stage \in [all_moves -> {"waiting", "finished"}]
  /\ phase = "execute" => stage \in [to_execute -> {"waiting", "open", "saved", "finished"}]
  /\ phase = "convert" => to_execute = {} /\ filed = {}

LEMMA TypeAndStage == Spec => [](TypeOK /\ StageOK)
<1> USE CheckAssumption
<1>1. Init => TypeOK /\ StageOK
  <2> SUFFICES ASSUME Init PROVE TypeOK /\ StageOK
    OBVIOUS
  <2>1. Given \in Contents
    BY DEF Contents
  <2>2. cmd \in [regenerate : BOOLEAN, rerun : BOOLEAN, config : Configs]
    BY DEF Init
  <2> QED
    BY <2>1, <2>2 DEF Init, TypeOK, StageOK
<1>2. TypeOK /\ StageOK /\ [Next]_vars => (TypeOK /\ StageOK)'
  <2> SUFFICES ASSUME TypeOK, StageOK, [Next]_vars
               PROVE  (TypeOK /\ StageOK)'
    OBVIOUS
  <2> USE DEF TypeOK, StageOK, Advance, files, memory
  <2>1. ASSUME NEW raw \in Raws,
               LookForMove(raw) \/ ConversionFails(raw) \/ CreateMove(raw) \/ WriteMove(raw)
        PROVE  (TypeOK /\ StageOK)'
    <3>1. CASE LookForMove(raw)
      BY <3>1 DEF LookForMove
    <3>2. CASE ConversionFails(raw)
      BY <3>2 DEF ConversionFails
    <3>3. CASE CreateMove(raw)
      BY <3>3, Distinct DEF CreateMove, Contents
    <3>4. CASE WriteMove(raw)
      <4>1. PICK content \in {Code(raw, cmd.config), Mixed} :
              moves' = [moves EXCEPT ![StemOf[raw]] = content]
        BY <3>4 DEF WriteMove
      <4>2. content \in Contents /\ content # Absent
        BY <4>1, Distinct DEF Contents
      <4> QED
        BY <3>4, <4>1, <4>2 DEF WriteMove
    <3> QED
      BY <2>1, <3>1, <3>2, <3>3, <3>4
  <2>2. ASSUME NEW s \in all_moves, PutOff(s) \/ LoadResult(s) \/ LoadPanics(s)
        PROVE  (TypeOK /\ StageOK)'
    BY <2>2 DEF PutOff, LoadResult, LoadPanics, MustExecute, FileIfBug
  <2>3. ASSUME NEW s \in to_execute, CreateOutput(s) \/ WriteOutput(s) \/ FileResult(s)
        PROVE  (TypeOK /\ StageOK)'
    <3>1. ResultOf(moves[s], cmd.config) \in Results
      BY DEF Results
    <3> QED
      BY <2>3, <3>1 DEF CreateOutput, WriteOutput, FileResult, FileIfBug
  <2>4. CASE EndConvert \/ EndLoad \/ EndExecute
    BY <2>4 DEF EndConvert, EndLoad, EndExecute
  <2>5. CASE Crash \/ Finished \/ UNCHANGED vars
    BY <2>5 DEF Crash, Finished, vars
  <2>6. ASSUME NEW regenerate \in BOOLEAN, NEW rerun \in BOOLEAN, NEW config \in Configs,
               StartSession(regenerate, rerun, config)
        PROVE  (TypeOK /\ StageOK)'
    BY <2>6 DEF StartSession
  <2> QED
    BY <2>1, <2>2, <2>3, <2>4, <2>5, <2>6 DEF Next, Work
<1> QED
  BY <1>1, <1>2, PTL DEF Spec

(* Every variable has its type, and a session works on existing Move files *)
(* only.                                                                   *)
THEOREM TypeCorrect == Spec => []TypeOK
BY TypeAndStage, PTL

-----------------------------------------------------------------------------
(* The Move files whose results the session has dealt with.                *)
Settled(s) ==
  /\ s \in all_moves
  /\ \/ phase = "load" /\ stage[s] = "finished" /\ s \notin to_execute
     \/ phase = "execute" /\ (s \in to_execute => stage[s] = "finished")
     \/ phase = "done"

(* The inductive invariant behind the report.  The phases only fit         *)
(* together because a Move file is either loaded or put off, and because   *)
(* the output of one that was put off is not looked at before it is        *)
(* executed.                                                               *)
SessionInv ==
  /\ phase = "load" =>
       \A s \in all_moves :
         /\ s \in to_execute => stage[s] = "finished"
         /\ cmd.rerun /\ stage[s] = "finished" => s \in to_execute
  /\ phase = "execute" /\ cmd.rerun => all_moves = to_execute
  /\ phase = "execute" => \A s \in to_execute :
       stage[s] = "saved" => outputs[s] = ResultOf(moves[s], cmd.config)
  /\ \A s \in all_moves :
       Settled(s) =>
         /\ outputs[s] \in Results
         /\ cmd.rerun => outputs[s] = ResultOf(moves[s], cmd.config)
  /\ phase \in {"load", "execute", "done"} =>
       \A s \in all_moves, result \in Results :
         <<s, result>> \in filed <=> Settled(s) /\ outputs[s] = result /\ Buggy(result)

LEMMA SessionInvHolds == Spec => []SessionInv
<1>1. Init => SessionInv
  BY DEF Init, SessionInv, Settled
<1>2. TypeOK /\ StageOK /\ SessionInv /\ [Next]_vars => SessionInv'
  <2> SUFFICES ASSUME TypeOK, StageOK, SessionInv, [Next]_vars
               PROVE  SessionInv'
    OBVIOUS
  <2> USE DEF SessionInv, Settled, Advance, files, memory
  <2>1. ASSUME NEW raw \in Raws,
               LookForMove(raw) \/ ConversionFails(raw) \/ CreateMove(raw) \/ WriteMove(raw)
        PROVE  SessionInv'
    BY <2>1 DEF LookForMove, ConversionFails, CreateMove, WriteMove
  <2>2. ASSUME NEW s \in all_moves, PutOff(s)
        PROVE  SessionInv'
    BY <2>2 DEF PutOff, StageOK
  <2>3. ASSUME NEW s \in all_moves, LoadResult(s)
        PROVE  SessionInv'
    <3>1. /\ phase = "load" /\ phase' = "load" /\ ~cmd.rerun /\ cmd' = cmd
          /\ s \notin to_execute /\ to_execute' = to_execute
          /\ moves' = moves /\ outputs' = outputs /\ all_moves' = all_moves
          /\ stage' = [stage EXCEPT ![s] = "finished"]
          /\ stage \in [all_moves -> {"waiting", "finished"}]
          /\ stage[s] = "waiting"
      BY <2>3 DEF LoadResult, MustExecute, StageOK
    <3>2. outputs[s] \in Results
      BY <2>3 DEF LoadResult, MustExecute, TypeOK
    <3>3. \A t \in all_moves : Settled(t)' <=> Settled(t) \/ t = s
      BY <3>1
    <3>4. filed' = IF Buggy(outputs[s]) THEN filed \cup {<<s, outputs[s]>>} ELSE filed
      BY <2>3 DEF LoadResult, FileIfBug
    <3>5. ASSUME NEW t \in all_moves, NEW result \in Results
          PROVE  <<t, result>> \in filed' <=>
                   Settled(t)' /\ outputs[t] = result /\ Buggy(result)
      <4>1. ~Settled(s)
        BY <3>1
      <4>2. <<t, result>> \in filed' <=>
              \/ <<t, result>> \in filed
              \/ t = s /\ result = outputs[s] /\ Buggy(outputs[s])
        BY <3>4
      <4>3. CASE t = s
        BY <4>1, <4>2, <4>3, <3>1, <3>3
      <4>4. CASE t # s
        BY <4>2, <4>4, <3>1, <3>3
      <4> QED
        BY <4>3, <4>4
    <3> QED
      BY <3>1, <3>2, <3>3, <3>5
  <2>4. ASSUME NEW s \in all_moves, LoadPanics(s)
        PROVE  SessionInv'
    BY <2>4 DEF LoadPanics
  <2>5. ASSUME NEW s \in to_execute, CreateOutput(s)
        PROVE  SessionInv'
    <3>1. /\ phase = "execute" /\ phase' = "execute" /\ cmd' = cmd
          /\ to_execute' = to_execute /\ filed' = filed
          /\ moves' = moves /\ all_moves' = all_moves
          /\ stage' = [stage EXCEPT ![s] = "open"]
          /\ stage \in [to_execute -> {"waiting", "open", "saved", "finished"}]
          /\ stage[s] = "waiting"
          /\ outputs' = [outputs EXCEPT ![s] = Torn]
      BY <2>5 DEF CreateOutput, StageOK
    <3>2. s \in Stems /\ s \in all_moves /\ ~Settled(s) /\ ~Settled(s)'
      BY <3>1 DEF TypeOK
    <3>3. \A t \in all_moves \ {s} : (Settled(t)' <=> Settled(t)) /\ outputs'[t] = outputs[t]
      BY <3>1 DEF TypeOK
    <3> QED
      BY <3>1, <3>2, <3>3
  <2>6. ASSUME NEW s \in to_execute, WriteOutput(s)
        PROVE  SessionInv'
    <3>1. /\ phase = "execute" /\ phase' = "execute" /\ cmd' = cmd
          /\ to_execute' = to_execute /\ filed' = filed
          /\ moves' = moves /\ all_moves' = all_moves
          /\ stage' = [stage EXCEPT ![s] = "saved"]
          /\ stage \in [to_execute -> {"waiting", "open", "saved", "finished"}]
          /\ stage[s] = "open"
          /\ outputs' = [outputs EXCEPT ![s] = ResultOf(moves[s], cmd.config)]
      BY <2>6 DEF WriteOutput, StageOK
    <3>2. /\ s \in Stems /\ s \in all_moves /\ ~Settled(s) /\ ~Settled(s)'
          /\ outputs'[s] = ResultOf(moves[s], cmd.config)
      BY <3>1 DEF TypeOK
    <3>3. \A t \in all_moves \ {s} : (Settled(t)' <=> Settled(t)) /\ outputs'[t] = outputs[t]
      BY <3>1 DEF TypeOK
    <3>4. \A t \in to_execute \ {s} : stage'[t] = stage[t] /\ outputs'[t] = outputs[t]
      BY <3>1, <3>3 DEF TypeOK
    <3> QED
      BY <3>1, <3>2, <3>3, <3>4
  <2>13. ASSUME NEW s \in to_execute, FileResult(s)
        PROVE  SessionInv'
    <3> DEFINE r == ResultOf(moves[s], cmd.config)
    <3>1. /\ phase = "execute" /\ phase' = "execute" /\ cmd' = cmd
          /\ to_execute' = to_execute /\ outputs' = outputs
          /\ moves' = moves /\ all_moves' = all_moves
          /\ stage' = [stage EXCEPT ![s] = "finished"]
          /\ stage \in [to_execute -> {"waiting", "open", "saved", "finished"}]
          /\ stage[s] = "saved"
          /\ outputs[s] = r
          /\ filed' = IF Buggy(r) THEN filed \cup {<<s, r>>} ELSE filed
      BY <2>13 DEF FileResult, FileIfBug, StageOK
    <3>2. s \in Stems /\ s \in all_moves /\ ~Settled(s) /\ Settled(s)'
      BY <3>1 DEF TypeOK
    <3>3. r \in Results
      <4>1. moves[s] \in Contents /\ cmd.config \in Configs
        BY <3>2 DEF TypeOK
      <4> QED
        BY <4>1 DEF Results
    <3>4. \A t \in all_moves \ {s} : Settled(t)' <=> Settled(t)
      BY <3>1 DEF TypeOK
    <3>5. ASSUME NEW t \in all_moves, NEW result \in Results
          PROVE  <<t, result>> \in filed' <=>
                   Settled(t)' /\ outputs[t] = result /\ Buggy(result)
      <4> HIDE DEF r
      <4>1. <<t, result>> \in filed' <=>
              \/ <<t, result>> \in filed
              \/ t = s /\ result = r /\ Buggy(r)
        BY <3>1
      <4>2. <<t, result>> \in filed <=> Settled(t) /\ outputs[t] = result /\ Buggy(result)
        BY <3>1
      <4>3. CASE t = s
        BY <4>1, <4>2, <4>3, <3>1, <3>2
      <4>4. CASE t # s
        BY <4>1, <4>2, <4>4, <3>4
      <4> QED
        BY <4>3, <4>4
    <3> QED
      BY <3>1, <3>2, <3>3, <3>4, <3>5
  <2>7. CASE EndConvert
    <3>1. phase' = "load" /\ \A s \in all_moves : stage'[s] = "waiting"
      BY <2>7 DEF EndConvert
    <3> QED
      BY <2>7, <3>1 DEF EndConvert, StageOK
  <2>8. CASE EndLoad
    <3>1. /\ phase = "load" /\ phase' = "execute"
          /\ UNCHANGED <<moves, outputs, cmd, all_moves, to_execute, filed>>
          /\ \A s \in all_moves : stage[s] = "finished"
          /\ \A s \in to_execute : stage'[s] = "waiting"
      BY <2>8 DEF EndLoad
    <3>2. \A s \in all_moves : Settled(s)' <=> Settled(s)
      BY <3>1
    <3>3. cmd.rerun => all_moves = to_execute
      BY <3>1 DEF TypeOK
    <3> QED
      BY <3>1, <3>2, <3>3
  <2>9. CASE EndExecute
    <3>1. /\ phase = "execute" /\ phase' = "done"
          /\ UNCHANGED <<moves, outputs, cmd, all_moves, to_execute, filed>>
          /\ \A s \in to_execute : stage[s] = "finished"
      BY <2>9 DEF EndExecute
    <3>2. \A s \in all_moves : Settled(s)' <=> Settled(s)
      BY <3>1
    <3> QED
      BY <3>1, <3>2
  <2>10. CASE Crash
    BY <2>10 DEF Crash
  <2>11. ASSUME NEW regenerate \in BOOLEAN, NEW rerun \in BOOLEAN, NEW config \in Configs,
                StartSession(regenerate, rerun, config)
         PROVE  SessionInv'
    BY <2>11 DEF StartSession
  <2>12. CASE UNCHANGED vars
    BY <2>12 DEF vars
  <2> QED
    BY <2>1, <2>2, <2>3, <2>4, <2>5, <2>6, <2>7, <2>8, <2>9, <2>10, <2>11, <2>12, <2>13
    DEF Next, Work, Finished
<1> QED
  BY <1>1, <1>2, TypeAndStage, PTL DEF Spec

(* handle_check's report lists exactly the bugs among the results on disk, *)
(* whether loaded or executed (check.rs:124-182).                          *)
THEOREM ReportIsDisk == Spec => []ReportIsWhatDiskHolds
<1>1. TypeOK /\ SessionInv => ReportIsWhatDiskHolds
  <2> SUFFICES ASSUME TypeOK, SessionInv, phase = "done"
               PROVE  /\ \A s \in all_moves : outputs[s] \in Results
                      /\ filed = {<<s, outputs[s]>> :
                                     s \in {t \in all_moves : Buggy(outputs[t])}}
    BY DEF ReportIsWhatDiskHolds
  <2>1. \A s \in all_moves : Settled(s) /\ outputs[s] \in Results
    BY DEF SessionInv, Settled
  <2>2. \A s \in all_moves, result \in Results :
          <<s, result>> \in filed <=> outputs[s] = result /\ Buggy(result)
    BY <2>1 DEF SessionInv
  <2>3. filed \subseteq all_moves \X Results
    BY DEF TypeOK
  <2> QED
    BY <2>1, <2>2, <2>3
<1> QED
  BY <1>1, TypeAndStage, SessionInvHolds, PTL

(* --rerun reports on the Move files as they are, with the present         *)
(* configuration (check.rs:134).                                           *)
THEOREM RerunIsPresent == Spec => []RerunReportsThePresent
<1>1. SessionInv => RerunReportsThePresent
  BY DEF SessionInv, Settled, RerunReportsThePresent
<1> QED
  BY <1>1, SessionInvHolds, PTL

-----------------------------------------------------------------------------
(* Whether a raw input has written the Move file of another, or its own.   *)
Wrote(writer, raw) ==
  /\ writer \in Raws \ failed /\ StemOf[writer] = StemOf[raw]
  /\ phase = "convert" => stage[writer] = "finished"

(* Under --regenerate a Move file holds, from the first worker that        *)
(* creates it on, what a worker of the session wrote, or a mixture when    *)
(* two have written.  It is torn only while one is still to write: each    *)
(* worker writes after it truncates, so the last step on the file is a     *)
(* write.                                                                  *)
FreshMove(raw) ==
  \/ /\ moves[StemOf[raw]] = Torn
     /\ phase = "convert"
     /\ \E other \in Raws : StemOf[other] = StemOf[raw] /\ stage[other] = "open"
  \/ \E w \in Raws : Wrote(w, raw) /\ moves[StemOf[raw]] = Code(w, cmd.config)
  \/ /\ moves[StemOf[raw]] = Mixed
     /\ \E w1, w2 \in Raws : w1 # w2 /\ Wrote(w1, raw) /\ Wrote(w2, raw)

RegenerateInv ==
  /\ phase = "convert" => \A raw \in failed : stage[raw] = "finished"
  /\ cmd.regenerate => \A raw \in Raws :
       /\ phase = "convert" /\ stage[raw] = "open" => FreshMove(raw)
       /\ \/ phase = "convert" /\ stage[raw] = "finished"
          \/ phase \in {"load", "execute", "done"}
          => raw \in failed \/ (FreshMove(raw) /\ StemOf[raw] \in all_moves)

(* One worker of the conversion keeps every Move file fresh.               *)
LEMMA ConversionKeepsFresh ==
  ASSUME TypeOK, StageOK, RegenerateInv, cmd.regenerate, NEW busy \in Raws,
         \/ LookForMove(busy) \/ ConversionFails(busy)
         \/ CreateMove(busy) \/ WriteMove(busy),
         NEW raw \in Raws,
         \/ stage'[raw] = "open"
         \/ stage'[raw] = "finished" /\ raw \notin failed'
  PROVE  FreshMove(raw)' /\ (stage'[raw] = "finished" => StemOf[raw] \in all_moves')
<1> USE CheckAssumption DEF TypeOK, StageOK, RegenerateInv, Advance, files, memory
<1>1. CASE LookForMove(busy)
  <2>1. /\ UNCHANGED <<moves, cmd, phase, failed, all_moves>> /\ phase = "convert"
        /\ stage[busy] = "waiting" /\ stage' = [stage EXCEPT ![busy] = "busy"]
    BY <1>1 DEF LookForMove
  <2>2. raw # busy /\ stage'[raw] = stage[raw] /\ FreshMove(raw)
    BY <2>1
  <2>3. FreshMove(raw)'
    BY <2>1, <2>2 DEF FreshMove, Wrote
  <2> QED
    BY <2>1, <2>2, <2>3
<1>2. CASE ConversionFails(busy)
  <2>1. /\ UNCHANGED <<moves, cmd, phase, all_moves>> /\ phase = "convert"
        /\ failed' = failed \cup {busy}
        /\ stage[busy] = "busy" /\ stage' = [stage EXCEPT ![busy] = "finished"]
    BY <1>2 DEF ConversionFails
  <2>2. raw # busy /\ stage'[raw] = stage[raw] /\ FreshMove(raw)
    BY <2>1
  <2>3. FreshMove(raw)'
    BY <2>1, <2>2 DEF FreshMove, Wrote
  <2> QED
    BY <2>1, <2>2, <2>3
<1>3. CASE CreateMove(busy)
  <2>1. /\ UNCHANGED <<cmd, phase, failed, all_moves>> /\ phase = "convert"
        /\ moves' = [moves EXCEPT ![StemOf[busy]] = Torn]
        /\ stage[busy] = "busy" /\ stage' = [stage EXCEPT ![busy] = "open"]
    BY <1>3 DEF CreateMove
  <2>2. CASE StemOf[raw] = StemOf[busy]
    <3>1. FreshMove(raw)'
      BY <2>1, <2>2 DEF FreshMove
    <3> QED
      BY <2>1, <2>2, <3>1
  <2>3. CASE StemOf[raw] # StemOf[busy]
    <3>1. raw # busy /\ stage'[raw] = stage[raw] /\ moves'[StemOf[raw]] = moves[StemOf[raw]]
      BY <2>1, <2>3
    <3>2. FreshMove(raw)'
      BY <2>1, <2>3, <3>1 DEF FreshMove, Wrote
    <3> QED
      BY <2>1, <3>1, <3>2
  <2> QED
    BY <2>2, <2>3
<1>4. CASE WriteMove(busy)
  <2>1. /\ UNCHANGED <<cmd, phase, failed>> /\ phase = "convert"
        /\ all_moves' = all_moves \cup {StemOf[busy]}
        /\ stage[busy] = "open" /\ stage' = [stage EXCEPT ![busy] = "finished"]
        /\ busy \notin failed
    BY <1>4 DEF WriteMove
  <2>2. PICK content : /\ moves' = [moves EXCEPT ![StemOf[busy]] = content]
                       /\ \/ content = Code(busy, cmd.config)
                          \/ content = Mixed /\ moves[StemOf[busy]] # Torn
    BY <1>4 DEF WriteMove
  <2>3. CASE StemOf[raw] = StemOf[busy]
    <3>1. FreshMove(busy)
      BY <2>1
    <3>2. Wrote(busy, raw)' /\ \A w \in Raws : Wrote(w, busy) => w # busy /\ Wrote(w, raw)'
      BY <2>1, <2>3 DEF Wrote
    <3>3. moves'[StemOf[raw]] = content
      BY <2>2, <2>3
    <3>4. CASE content = Code(busy, cmd.config)
      BY <2>1, <3>2, <3>3, <3>4 DEF FreshMove
    <3>5. CASE content = Mixed /\ moves[StemOf[busy]] # Torn
      <4>1. PICK w \in Raws : Wrote(w, busy)
        BY <3>1, <3>5 DEF FreshMove
      <4> QED
        BY <2>1, <2>3, <3>2, <3>3, <3>5, <4>1 DEF FreshMove
    <3>6. FreshMove(raw)'
      BY <2>2, <3>4, <3>5
    <3> QED
      BY <2>1, <2>3, <3>6
  <2>4. CASE StemOf[raw] # StemOf[busy]
    <3>1. raw # busy /\ stage'[raw] = stage[raw] /\ moves'[StemOf[raw]] = moves[StemOf[raw]]
      BY <2>1, <2>2, <2>4
    <3>2. FreshMove(raw)'
      BY <2>1, <2>4, <3>1 DEF FreshMove, Wrote
    <3> QED
      BY <2>1, <3>1, <3>2
  <2> QED
    BY <2>3, <2>4
<1> QED
  BY <1>1, <1>2, <1>3, <1>4

LEMMA RegenerateInvHolds == Spec => []RegenerateInv
<1> USE CheckAssumption
<1>1. Init => RegenerateInv
  BY DEF Init, RegenerateInv
<1>2. TypeOK /\ StageOK /\ RegenerateInv /\ [Next]_vars => RegenerateInv'
  <2> SUFFICES ASSUME TypeOK, StageOK, RegenerateInv, [Next]_vars
               PROVE  RegenerateInv'
    OBVIOUS
  <2> USE DEF Advance, files, memory
  <2>1. ASSUME NEW busy \in Raws,
               \/ LookForMove(busy) \/ ConversionFails(busy)
               \/ CreateMove(busy) \/ WriteMove(busy)
        PROVE  RegenerateInv'
    <3>1. phase = "convert" /\ phase' = "convert" /\ cmd' = cmd
      BY <2>1 DEF LookForMove, ConversionFails, CreateMove, WriteMove
    <3>2. \A raw \in failed' : stage'[raw] = "finished"
      BY <2>1 DEF LookForMove, ConversionFails, CreateMove, WriteMove, RegenerateInv, StageOK,
                  TypeOK
    <3>3. ASSUME cmd.regenerate, NEW raw \in Raws,
                 \/ stage'[raw] = "open"
                 \/ stage'[raw] = "finished" /\ raw \notin failed'
          PROVE  FreshMove(raw)' /\ (stage'[raw] = "finished" => StemOf[raw] \in all_moves')
      BY <2>1, <3>3, ConversionKeepsFresh
    <3>4. ASSUME cmd'.regenerate, NEW raw \in Raws
          PROVE  /\ stage'[raw] = "open" => FreshMove(raw)'
                 /\ stage'[raw] = "finished" =>
                      raw \in failed' \/ (FreshMove(raw)' /\ StemOf[raw] \in all_moves')
      BY <3>1, <3>3, <3>4
    <3>5. ~(phase' \in {"load", "execute", "done"})
      BY <3>1
    <3> QED
      BY <3>2, <3>4, <3>5 DEF RegenerateInv
  <2>2. ASSUME NEW s \in all_moves, PutOff(s) \/ LoadResult(s) \/ LoadPanics(s)
        PROVE  RegenerateInv'
    <3>1. /\ phase' \in {"load", "panicked"} /\ phase = "load"
          /\ UNCHANGED <<moves, cmd, all_moves, failed>>
      BY <2>2 DEF PutOff, LoadResult, LoadPanics
    <3> QED
      BY <3>1 DEF RegenerateInv, FreshMove, Wrote
  <2>3. ASSUME NEW s \in to_execute, CreateOutput(s) \/ WriteOutput(s) \/ FileResult(s)
        PROVE  RegenerateInv'
    <3>1. /\ phase' = "execute" /\ phase = "execute"
          /\ UNCHANGED <<moves, cmd, all_moves, failed>>
      BY <2>3 DEF CreateOutput, WriteOutput, FileResult
    <3> QED
      BY <3>1 DEF RegenerateInv, FreshMove, Wrote
  <2>4. CASE EndConvert
    <3>1. /\ phase = "convert" /\ phase' = "load"
          /\ UNCHANGED <<moves, cmd, all_moves, failed>>
          /\ \A raw \in Raws : stage[raw] = "finished"
      BY <2>4 DEF EndConvert
    <3>2. \A raw \in Raws : FreshMove(raw) => FreshMove(raw)'
      BY <3>1 DEF FreshMove, Wrote
    <3> QED
      BY <3>1, <3>2 DEF RegenerateInv
  <2>5. CASE EndLoad \/ EndExecute
    <3>1. /\ phase \in {"load", "execute"} /\ phase' \in {"execute", "done"}
          /\ UNCHANGED <<moves, cmd, all_moves, failed>>
      BY <2>5 DEF EndLoad, EndExecute
    <3> QED
      BY <3>1 DEF RegenerateInv, FreshMove, Wrote
  <2>6. CASE Crash
    BY <2>6 DEF Crash, RegenerateInv
  <2>7. ASSUME NEW regenerate \in BOOLEAN, NEW rerun \in BOOLEAN, NEW config \in Configs,
               StartSession(regenerate, rerun, config)
        PROVE  RegenerateInv'
    BY <2>7 DEF StartSession, RegenerateInv
  <2>8. CASE UNCHANGED vars
    BY <2>8 DEF vars, RegenerateInv, FreshMove, Wrote
  <2> QED
    BY <2>1, <2>2, <2>3, <2>4, <2>5, <2>6, <2>7, <2>8 DEF Next, Work, Finished
<1> QED
  BY <1>1, <1>2, TypeAndStage, PTL DEF Spec

(* After --regenerate --rerun nothing is left of crashed sessions or other *)
(* configurations for the inputs whose conversion did not fail, also when  *)
(* several write one Move file (check.rs:79-98, 134).                      *)
THEOREM FreshSessionsRecover == Spec => []FreshSessionRecovers
<1>1. RegenerateInv /\ RerunReportsThePresent => FreshSessionRecovers
  <2> SUFFICES ASSUME RegenerateInv, RerunReportsThePresent,
                      phase = "done", cmd.regenerate, cmd.rerun, NEW raw \in Raws \ failed
               PROVE  \E content \in FreshContents(raw) :
                        outputs[StemOf[raw]] = ResultOf(content, cmd.config)
    BY DEF FreshSessionRecovers
  <2>1. FreshMove(raw) /\ outputs[StemOf[raw]] = ResultOf(moves[StemOf[raw]], cmd.config)
    BY DEF RegenerateInv, RerunReportsThePresent
  <2>2. moves[StemOf[raw]] \in FreshContents(raw)
    <3> DEFINE writers == {other \in Raws \ failed : StemOf[other] = StemOf[raw]}
    <3>1. \A w \in Raws : Wrote(w, raw) => w \in writers
      BY DEF Wrote
    <3>2. CASE \E w \in Raws : Wrote(w, raw) /\ moves[StemOf[raw]] = Code(w, cmd.config)
      BY <3>1, <3>2 DEF FreshContents
    <3>3. CASE /\ moves[StemOf[raw]] = Mixed
               /\ \E w1, w2 \in Raws : w1 # w2 /\ Wrote(w1, raw) /\ Wrote(w2, raw)
      <4>1. writers # {raw}
        BY <3>1, <3>3
      <4> QED
        BY <3>3, <4>1 DEF FreshContents
    <3> QED
      BY <2>1, <3>2, <3>3 DEF FreshMove
  <2> QED
    BY <2>1, <2>2
<1> QED
  BY <1>1, RegenerateInvHolds, RerunIsPresent, PTL

-----------------------------------------------------------------------------
(* A torn output is either being written or was left by a killed session.  *)
TornInv ==
  /\ \A s \in Stems :
       outputs[s] = Torn =>
         \/ crashes > 0
         \/ phase = "execute" /\ s \in to_execute /\ stage[s] = "open"
  /\ PanicNeedsCrash

(* A session that panics does so over what a killed session left           *)
(* (execution/mod.rs:236-239).                                             *)
THEOREM PanicsNeedACrash == Spec => []PanicNeedsCrash
<1>1. Init => TornInv
  BY Distinct DEF Init, TornInv, PanicNeedsCrash
<1>2. TypeOK /\ StageOK /\ TornInv /\ [Next]_vars => TornInv'
  <2> SUFFICES ASSUME TypeOK, StageOK, TornInv, [Next]_vars
               PROVE  TornInv'
    OBVIOUS
  <2> USE DEF TornInv, PanicNeedsCrash, Advance, files, memory
  <2>1. ASSUME NEW raw \in Raws,
               LookForMove(raw) \/ ConversionFails(raw) \/ CreateMove(raw) \/ WriteMove(raw)
        PROVE  TornInv'
    BY <2>1 DEF LookForMove, ConversionFails, CreateMove, WriteMove
  <2>2. ASSUME NEW s \in all_moves, PutOff(s) \/ LoadResult(s) \/ LoadPanics(s)
        PROVE  TornInv'
    BY <2>2 DEF PutOff, LoadResult, LoadPanics, MustExecute, TypeOK
  <2>3. ASSUME NEW s \in to_execute, CreateOutput(s)
        PROVE  TornInv'
    BY <2>3 DEF CreateOutput, StageOK, TypeOK
  <2>4. ASSUME NEW s \in to_execute, WriteOutput(s)
        PROVE  TornInv'
    <3>1. ResultOf(moves[s], cmd.config) # Torn
      BY Distinct
    <3> QED
      BY <2>4, <3>1 DEF WriteOutput, StageOK, TypeOK
  <2>9. ASSUME NEW s \in to_execute, FileResult(s)
        PROVE  TornInv'
    BY <2>9 DEF FileResult, StageOK
  <2>5. CASE EndConvert \/ EndLoad \/ EndExecute
    BY <2>5 DEF EndConvert, EndLoad, EndExecute
  <2>6. CASE Crash
    BY <2>6 DEF Crash, TypeOK
  <2>7. ASSUME NEW regenerate \in BOOLEAN, NEW rerun \in BOOLEAN, NEW config \in Configs,
               StartSession(regenerate, rerun, config)
        PROVE  TornInv'
    BY <2>7 DEF StartSession
  <2>8. CASE UNCHANGED vars
    BY <2>8 DEF vars
  <2> QED
    BY <2>1, <2>2, <2>3, <2>4, <2>5, <2>6, <2>7, <2>8, <2>9 DEF Next, Work, Finished
<1>3. TornInv => PanicNeedsCrash
  BY DEF TornInv
<1> QED
  BY <1>1, <1>2, <1>3, TypeAndStage, PTL DEF Spec
-----------------------------------------------------------------------------
(* Without --rerun only what had no output is executed, and until it is    *)
(* done its output is none or torn.                                        *)
KeptInv ==
  ~cmd.rerun =>
    /\ phase = "load" => \A s \in to_execute : outputs[s] = Absent
    /\ phase = "execute" => \A s \in to_execute :
         /\ stage[s] = "waiting" => outputs[s] = Absent
         /\ stage[s] = "open" => outputs[s] = Torn

LEMMA KeptInvHolds == Spec => []KeptInv
<1>1. Init => KeptInv
  BY DEF Init, KeptInv
<1>2. TypeOK /\ StageOK /\ KeptInv /\ [Next]_vars => KeptInv'
  <2> SUFFICES ASSUME TypeOK, StageOK, KeptInv, [Next]_vars PROVE KeptInv'
    OBVIOUS
  <2> USE DEF KeptInv, Advance, files, memory
  <2>1. ASSUME NEW raw \in Raws,
               LookForMove(raw) \/ ConversionFails(raw) \/ CreateMove(raw) \/ WriteMove(raw)
        PROVE  KeptInv'
    BY <2>1 DEF LookForMove, ConversionFails, CreateMove, WriteMove
  <2>2. ASSUME NEW s \in all_moves, PutOff(s) \/ LoadResult(s) \/ LoadPanics(s)
        PROVE  KeptInv'
    BY <2>2 DEF PutOff, LoadResult, LoadPanics, MustExecute
  <2>3. ASSUME NEW s \in to_execute, CreateOutput(s) \/ WriteOutput(s) \/ FileResult(s)
        PROVE  KeptInv'
    BY <2>3 DEF CreateOutput, WriteOutput, FileResult, StageOK, TypeOK
  <2>4. CASE EndConvert
    BY <2>4 DEF EndConvert, StageOK
  <2>5. CASE EndLoad
    BY <2>5 DEF EndLoad
  <2>6. CASE EndExecute \/ Crash
    BY <2>6 DEF EndExecute, Crash
  <2>7. ASSUME NEW regenerate \in BOOLEAN, NEW rerun \in BOOLEAN, NEW config \in Configs,
               StartSession(regenerate, rerun, config)
        PROVE  KeptInv'
    BY <2>7 DEF StartSession
  <2>8. CASE UNCHANGED vars
    BY <2>8 DEF vars
  <2> QED
    BY <2>1, <2>2, <2>3, <2>4, <2>5, <2>6, <2>7, <2>8 DEF Next, Work, Finished
<1> QED
  BY <1>1, <1>2, TypeAndStage, PTL DEF Spec

(* Without --rerun no session touches a saved result (check.rs:134), also  *)
(* one that is killed or that panics.                                      *)
THEOREM SavedResultsAreKept == Spec => ResultsKept
<1> DEFINE Kept == \A s \in Stems : ~cmd.rerun /\ outputs[s] \in Results => outputs'[s] = outputs[s]
<1>1. Absent \notin Results /\ Torn \notin Results
  BY Distinct DEF Results
<1>2. StageOK /\ KeptInv /\ TypeOK /\ [Next]_vars => [Kept]_vars
  <2> SUFFICES ASSUME StageOK, KeptInv, TypeOK, [Next]_vars,
                      NEW s \in Stems, ~cmd.rerun, outputs[s] \in Results
               PROVE  outputs'[s] = outputs[s]
    OBVIOUS
  <2>1. ASSUME NEW t \in to_execute, CreateOutput(t) \/ WriteOutput(t)
        PROVE  outputs'[s] = outputs[s]
    <3>1. outputs[t] \in {Absent, Torn} /\ \E x : outputs' = [outputs EXCEPT ![t] = x]
      BY <2>1 DEF CreateOutput, WriteOutput, KeptInv
    <3> QED
      BY <1>1, <3>1 DEF TypeOK
  <2>2. CASE UNCHANGED outputs
    BY <2>2
  <2> QED
    BY <2>1, <2>2
       DEF Next, Work, Finished, vars, files, memory, LookForMove, ConversionFails, CreateMove,
           WriteMove, PutOff, LoadResult, LoadPanics, FileResult, EndConvert, EndLoad,
           EndExecute, Crash, StartSession
<1> QED
  BY <1>2, TypeAndStage, KeptInvHolds, PTL DEF Spec, ResultsKept
=============================================================================
