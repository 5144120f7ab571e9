------------------------ MODULE GenerateCommand_proofs ------------------------
(***************************************************************************)
(* What sessions of the generate command leave on disk and list, for any   *)
(* number of seeds, files, sessions and kills, and any interleaving.       *)
(***************************************************************************)
EXTENDS GenerateCommand, TLAPS

(* The contents of a file are told apart.                                  *)
LEMMA Distinct ==
  /\ Absent # Torn /\ Absent # Empty /\ Torn # Empty
  /\ \A files : Listed(files) # Absent /\ Listed(files) # Torn
  /\ \A files : Listed(files)[2] = files
  /\ \A buffer \in Buffers : buffer \notin {Absent, Torn, Empty}
<1>1. /\ Absent[1] = "absent" /\ Torn[1] = "torn" /\ Empty[1] = "empty"
      /\ \A files : Listed(files)[1] = "files" /\ Listed(files)[2] = files
  BY DEF Absent, Torn, Empty, Listed
<1>2. /\ DOMAIN Absent = 1 .. 1 /\ DOMAIN Torn = 1 .. 1 /\ DOMAIN Empty = 1 .. 1
      /\ \A buffer \in Buffers : DOMAIN buffer = 1 .. 2
  BY DEF Absent, Torn, Empty, Buffers
<1>3. 2 \in 1 .. 2 /\ 2 \notin 1 .. 1
  OBVIOUS
<1> QED
  BY <1>1, <1>2, <1>3

LEMMA FileNamesTellApart ==
  ASSUME TypeOK
  PROVE  /\ \A i \in Files : FileOf(i) \in FileNames /\ FileOf(i)[2] = i
         /\ \A i, j \in Files : FileOf(i) = FileOf(j) => i = j
  BY GenerateAssumption DEF TypeOK, FileNames, FileOf, Files

LEMMA BuffersOfFiles ==
  ASSUME TypeOK, NEW i \in Files
  PROVE  /\ BufferOf(i) \in Buffers
         /\ BufferOf(i)[1] = SeedOf(i) /\ BufferOf(i)[2] = size[i]
         /\ SeedOf(i) = cmd.stream[FileOf(i)[2]] /\ cmd.stream \in Streams
<1>1. i \in 1 .. MaxNum /\ cmd.stream \in [1 .. MaxNum -> Seeds] /\ cmd.stream \in Streams
  BY GenerateAssumption DEF TypeOK, Files
<1>2. size[i] \in 0 .. MaxSize
  BY DEF TypeOK
<1> QED
  BY <1>1, <1>2 DEF BufferOf, Buffers, SeedOf, FileOf

-----------------------------------------------------------------------------
LEMMA TypeStep == TypeOK /\ [Next]_vars => TypeOK'
<1> SUFFICES ASSUME TypeOK, [Next]_vars PROVE TypeOK'
  OBVIOUS
<1> USE GenerateAssumption DEF TypeOK, Advance, disk, manager, counts, Files, Put
<1>1. ASSUME NEW i \in Files, TryLarger(i) PROVE TypeOK'
  BY <1>1 DEF TryLarger
<1>2. ASSUME NEW i \in Files, TimesOut(i) PROVE TypeOK'
  BY <1>2 DEF TimesOut
<1>3. ASSUME NEW i \in Files, CreateMove(i) \/ CreateRaw(i) PROVE TypeOK'
  BY <1>3 DEF CreateMove, CreateRaw
<1>4. ASSUME NEW i \in Files, WriteMove(i) PROVE TypeOK'
  BY <1>4, BuffersOfFiles DEF WriteMove
<1>5. ASSUME NEW i \in Files, WriteRaw(i) PROVE TypeOK'
  BY <1>5, BuffersOfFiles DEF WriteRaw
<1>6. ASSUME NEW i \in Files, Execute(i) PROVE TypeOK'
  BY <1>6 DEF Execute
<1>7. CASE EndGenerate \/ CreateList
  BY <1>7 DEF EndGenerate, CreateList
<1>8. CASE WriteList
  <2>1. FailedFiles \in SUBSET FileNames
    BY FileNamesTellApart DEF FailedFiles
  <2> QED
    BY <1>8, <2>1 DEF WriteList
<1>9. CASE Crash \/ Finished \/ UNCHANGED vars
  BY <1>9 DEF Crash, Finished, vars
<1>10. ASSUME NEW stream \in Streams, NEW num \in 1 .. MaxNum,
              NEW package \in BOOLEAN, NEW skip_run \in BOOLEAN,
              StartSession(stream, num, package, skip_run)
       PROVE  TypeOK'
  BY <1>10 DEF StartSession, EmptyMap
<1> QED
  BY <1>1, <1>2, <1>3, <1>4, <1>5, <1>6, <1>7, <1>8, <1>9, <1>10 DEF Next, Work

(* Every variable has its type; the session's files are at work.           *)
THEOREM TypeCorrect == Spec => []TypeOK
<1>1. ASSUME Init PROVE TypeOK
  <2>1. cmd \in [stream : Streams, num : {0}, package : {FALSE}, skip_run : {FALSE}]
    BY <1>1 DEF Init
  <2>2. Files = {}
    BY <2>1 DEF Files
  <2>3. cmd \in [stream : Streams, num : 0 .. MaxNum, package : BOOLEAN, skip_run : BOOLEAN]
    <3>1. 0 \in 0 .. MaxNum
      BY GenerateAssumption
    <3>2. {0} \subseteq 0 .. MaxNum /\ {FALSE} \subseteq BOOLEAN
      BY <3>1, Zenon
    <3> QED
      BY <2>1, <3>2, Zenon
  <2>4. /\ stage \in [Files -> {"buffer", "move", "written", "raw", "waiting", "finished"}]
        /\ size \in [Files -> 0 .. MaxSize]
        /\ DOMAIN codes \subseteq Files
    BY <1>1, <2>2 DEF Init, EmptyMap
  <2>5. /\ moves \in [FileNames -> Buffers \cup {Absent, Torn}]
        /\ raws \in [FileNames -> Buffers \cup {Absent, Torn}]
        /\ phase \in {"idle", "generate", "run", "list", "done"}
        /\ failed = Absent
    BY <1>1 DEF Init
  <2>6. sessions \in 0 .. MaxSessions /\ crashes \in 0 .. MaxCrashes
    BY <1>1, GenerateAssumption DEF Init
  <2> QED
    BY <2>3, <2>4, <2>5, <2>6 DEF TypeOK
<1> QED
  BY <1>1, TypeStep, PTL DEF Spec

-----------------------------------------------------------------------------
(* What a file holds is what the seed of its number gives.                 *)
ContentOK(f, content) ==
  content \notin {Absent, Torn} =>
    /\ content \in Buffers /\ IsFirst(content)
    /\ \E stream \in Streams : content[1] = stream[f[2]]

(* The outcome of a file's generation fits the files.                      *)
Fits(i) ==
  \/ codes[i] = Empty
  \/ /\ codes[i] = moves[FileOf(i)] /\ codes[i] = raws[FileOf(i)]
     /\ codes[i][1] = SeedOf(i)

(* The invariant behind the files, for all of them and for one of those at *)
(* work: no smaller buffer has been passed over, and nobody else writes    *)
(* the Move file between its own write and that of its buffer.             *)
WorkOK(i) ==
  /\ stage[i] = "buffer" => \A n \in 0 .. size[i] - 1 : <<SeedOf(i), n>> \notin Suffices
  /\ stage[i] \in {"move", "written", "raw"} => IsFirst(BufferOf(i))
  /\ stage[i] \in {"written", "raw"} => moves[FileOf(i)] = BufferOf(i)
  /\ stage[i] = "finished" => i \in DOMAIN codes /\ Fits(i)

FilesInv ==
  /\ \A f \in FileNames : ContentOK(f, moves[f]) /\ ContentOK(f, raws[f])
  /\ phase = "generate" => \A i \in Files : WorkOK(i)
  /\ phase \in {"run", "list", "done"} => \A i \in Files : Fits(i)
  /\ crashes = 0 => \A f \in FileNames :
       \/ moves[f] = raws[f]
       \/ phase = "generate" /\ \E i \in Files :
            f = FileOf(i) /\ stage[i] \in {"move", "written", "raw"}

(* The invariant behind the list: the manager has seen the files that are  *)
(* finished, and every representative is the result of one of them, which  *)
(* was told it is new if it is a bug.                                      *)
ManagerInv ==
  phase \in {"run", "list", "done"} /\ ~cmd.skip_run =>
    /\ DOMAIN verdict = {i \in Files : phase = "run" => stage[i] = "finished"}
    /\ verdict \in [DOMAIN verdict -> [result : Result, new : BOOLEAN]]
    /\ \A i \in DOMAIN verdict :
         /\ verdict[i].new => IsBug(verdict[i].result)
         /\ \E x \in pool : Similar(verdict[i].result, x)
    /\ \A x \in pool : \E j \in DOMAIN verdict :
         verdict[j].result = x /\ (IsBug(x) => verdict[j].new)
    /\ phase = "done" => failed = Listed(FailedFiles)

LEMMA FilesInvHolds == Spec => []FilesInv
<1>1. Init => FilesInv
  BY DEF Init, FilesInv, ContentOK
<1>2. TypeOK /\ FilesInv /\ [Next]_vars => FilesInv'
  <2> SUFFICES ASSUME TypeOK, FilesInv, [Next]_vars PROVE FilesInv'
    OBVIOUS
  <2> USE DEF FilesInv, ContentOK, WorkOK, Fits, IsFirst, Advance, disk, manager, counts
  <2>1. ASSUME NEW i \in Files, TryLarger(i) PROVE FilesInv'
    <3>1. \A j \in Files : WorkOK(j)'
      <4> SUFFICES ASSUME NEW j \in Files PROVE WorkOK(j)'
        OBVIOUS
      <4>1. CASE j = i
        <5>1. size'[i] \in {size[i], size[i] + 1} /\ size[i] \in Nat
          BY <2>1, GenerateAssumption DEF TryLarger, TypeOK
        <5>2. \A n \in 0 .. size'[i] - 1 : n \in 0 .. size[i] - 1 \/ n = size[i]
          BY <5>1
        <5> QED
          BY <2>1, <4>1, <5>2 DEF TryLarger, BufferOf, SeedOf
      <4>2. CASE j # i
        BY <2>1, <4>2 DEF TryLarger, BufferOf, SeedOf, FileOf, TypeOK
      <4> QED
        BY <4>1, <4>2
    <3> QED
      BY <2>1, <3>1 DEF TryLarger, FileOf, Files, SeedOf
  <2>2. ASSUME NEW i \in Files, TimesOut(i) PROVE FilesInv'
    <3>1. /\ moves' = moves /\ raws' = raws
          /\ stage' = [stage EXCEPT ![i] = "finished"] /\ codes' = Put(codes, i, Empty)
          /\ phase = "generate" /\ phase' = "generate" /\ crashes' = crashes
          /\ cmd' = cmd /\ size' = size /\ stage[i] = "buffer"
      BY <2>2 DEF TimesOut
    <3>2. \A j \in Files : WorkOK(j)'
      BY <3>1, FileNamesTellApart DEF TypeOK, BufferOf, SeedOf, FileOf, Put
    <3> QED
      BY <3>1, <3>2, FileNamesTellApart DEF TypeOK, Files, FileOf
  <2>3. ASSUME NEW i \in Files, CreateMove(i) PROVE FilesInv'
    <3>1. /\ moves' = [moves EXCEPT ![FileOf(i)] = Torn] /\ raws' = raws
          /\ stage' = [stage EXCEPT ![i] = "move"] /\ codes' = codes
          /\ phase = "generate" /\ phase' = "generate" /\ crashes' = crashes
          /\ cmd' = cmd /\ size' = size /\ stage[i] = "buffer"
          /\ BufferOf(i) \in Suffices
      BY <2>3 DEF CreateMove
    <3>2. IsFirst(BufferOf(i))
      BY <3>1, BuffersOfFiles
    <3>3. \A j \in Files : WorkOK(j)'
      BY <3>1, <3>2, FileNamesTellApart DEF TypeOK, BufferOf, SeedOf, FileOf
    <3> QED
      BY <3>1, <3>3, FileNamesTellApart DEF TypeOK, Files, FileOf
  <2>4. ASSUME NEW i \in Files, WriteMove(i) PROVE FilesInv'
    <3>1. /\ moves' = [moves EXCEPT ![FileOf(i)] = BufferOf(i)] /\ raws' = raws
          /\ stage' = [stage EXCEPT ![i] = "written"] /\ codes' = codes
          /\ phase = "generate" /\ phase' = "generate" /\ crashes' = crashes
          /\ cmd' = cmd /\ size' = size /\ stage[i] = "move"
      BY <2>4 DEF WriteMove
    <3>2. ContentOK(FileOf(i), BufferOf(i))
      BY <3>1, BuffersOfFiles
    <3>3. \A j \in Files : WorkOK(j)'
      BY <3>1, FileNamesTellApart DEF TypeOK, BufferOf, SeedOf, FileOf
    <3> QED
      BY <3>1, <3>2, <3>3, FileNamesTellApart DEF TypeOK, Files, FileOf
  <2>5. ASSUME NEW i \in Files, CreateRaw(i) PROVE FilesInv'
    <3>1. /\ raws' = [raws EXCEPT ![FileOf(i)] = Torn] /\ moves' = moves
          /\ stage' = [stage EXCEPT ![i] = "raw"] /\ codes' = codes
          /\ phase = "generate" /\ phase' = "generate" /\ crashes' = crashes
          /\ cmd' = cmd /\ size' = size /\ stage[i] = "written"
      BY <2>5 DEF CreateRaw
    <3>2. \A j \in Files : WorkOK(j)'
      BY <3>1, FileNamesTellApart DEF TypeOK, BufferOf, SeedOf, FileOf
    <3> QED
      BY <3>1, <3>2, FileNamesTellApart DEF TypeOK, Files, FileOf
  <2>6. ASSUME NEW i \in Files, WriteRaw(i) PROVE FilesInv'
    <3>1. /\ raws' = [raws EXCEPT ![FileOf(i)] = BufferOf(i)] /\ moves' = moves
          /\ stage' = [stage EXCEPT ![i] = "finished"] /\ codes' = Put(codes, i, BufferOf(i))
          /\ phase = "generate" /\ phase' = "generate" /\ crashes' = crashes
          /\ cmd' = cmd /\ size' = size /\ stage[i] = "raw"
      BY <2>6 DEF WriteRaw
    <3>2. ContentOK(FileOf(i), BufferOf(i))
      BY <3>1, BuffersOfFiles
    <3>3. \A j \in Files : WorkOK(j)'
      BY <3>1, FileNamesTellApart, BuffersOfFiles DEF TypeOK, BufferOf, SeedOf, FileOf, Put
    <3>4. moves[FileOf(i)] = BufferOf(i)
      BY <3>1
    <3> QED
      BY <3>1, <3>2, <3>3, <3>4, FileNamesTellApart DEF TypeOK, Files, FileOf
  <2>7. ASSUME NEW i \in Files, Execute(i) PROVE FilesInv'
    BY <2>7 DEF Execute, FileOf, SeedOf, Files
  <2>8. CASE EndGenerate
    BY <2>8 DEF EndGenerate, FileOf, SeedOf, Files
  <2>9. CASE CreateList \/ WriteList
    BY <2>9 DEF CreateList, WriteList, FileOf, SeedOf, Files
  <2>10. CASE Crash
    BY <2>10 DEF Crash, TypeOK
  <2>11. CASE Finished \/ UNCHANGED vars
    BY <2>11, SMTT(30) DEF Finished, vars, FileOf, SeedOf, Files, BufferOf
  <2>12. ASSUME NEW stream \in Streams, NEW num \in 1 .. MaxNum,
                NEW package \in BOOLEAN, NEW skip_run \in BOOLEAN,
                StartSession(stream, num, package, skip_run)
         PROVE  FilesInv'
    BY <2>12 DEF StartSession, Files
  <2> QED
    BY <2>1, <2>2, <2>3, <2>4, <2>5, <2>6, <2>7, <2>8, <2>9, <2>10, <2>11, <2>12 DEF Next, Work
<1> QED
  BY <1>1, <1>2, TypeCorrect, PTL DEF Spec

(* What a file holds depends on --seed and the number of the file only,    *)
(* and after the generation each file fits its code and its buffer.        *)
THEOREM Reproducible == Spec => []FilesAreReproducible
<1>1. ASSUME TypeOK, FilesInv PROVE FilesAreReproducible
  <2>1. \A f \in FileNames : \A content \in {moves[f], raws[f]} \ {Absent, Torn} :
          IsFirst(content) /\ \E stream \in Streams : content[1] = stream[f[2]]
    BY <1>1 DEF FilesInv, ContentOK
  <2>2. phase \in {"run", "list", "done"} => \A i \in Files :
          \/ codes[i] = Empty
          \/ /\ moves[FileOf(i)] = codes[i] /\ raws[FileOf(i)] = codes[i]
             /\ codes[i][1] = cmd.stream[i]
    BY <1>1 DEF FilesInv, Fits, SeedOf
  <2>3. ASSUME phase # "generate", crashes = 0 PROVE moves = raws
    <3>1. \A f \in FileNames : moves[f] = raws[f]
      BY <1>1, <2>3 DEF FilesInv
    <3> QED
      BY <1>1, <3>1 DEF TypeOK
  <2> QED
    BY <2>1, <2>2, <2>3 DEF FilesAreReproducible
<1> QED
  BY <1>1, TypeCorrect, FilesInvHolds, PTL

-----------------------------------------------------------------------------
LEMMA ManagerInvHolds == Spec => []ManagerInv
<1>1. Init => ManagerInv
  BY DEF Init, ManagerInv
<1>2. TypeOK /\ ManagerInv /\ [Next]_vars => ManagerInv'
  <2> SUFFICES ASSUME TypeOK, ManagerInv, [Next]_vars PROVE ManagerInv'
    OBVIOUS
  <2> USE DEF ManagerInv, Advance, disk, manager, counts, Files
  <2>1. ASSUME NEW i \in Files,
               \/ TryLarger(i) \/ TimesOut(i)
               \/ CreateMove(i) \/ WriteMove(i) \/ CreateRaw(i) \/ WriteRaw(i)
        PROVE  ManagerInv'
    BY <2>1 DEF TryLarger, TimesOut, CreateMove, WriteMove, CreateRaw, WriteRaw
  <2>2. CASE EndGenerate
    BY <2>2 DEF EndGenerate, EmptyMap
  <2>3. ASSUME NEW i \in Files, Execute(i) PROVE ManagerInv'
    <3>1. /\ phase = "run" /\ phase' = "run" /\ cmd' = cmd
          /\ stage[i] = "waiting" /\ stage' = [stage EXCEPT ![i] = "finished"]
      BY <2>3 DEF Execute
    <3> SUFFICES ASSUME ~cmd.skip_run PROVE ManagerInv'
      BY <3>1
    <3>2. PICK r \in Result, new \in BOOLEAN : Manager!Submit(i, r, new)
      BY <2>3 DEF Execute
    <3>3. /\ new => IsBug(r)
          /\ IsBug(r) /\ ~ (\E x \in pool : Similar(r, x)) => new
          /\ pool' = IF \E x \in pool : Similar(r, x) THEN pool ELSE pool \cup {r}
          /\ verdict' = Put(verdict, i, [result |-> r, new |-> new])
      <4>1. Manager!Group(i, r) /\ Manager!Answer(i, r, new)
        BY <3>2 DEF Manager!Submit
      <4>2. new => IsBug(r)
        BY <3>2, Zenon DEF Manager!Submit
      <4>3. IsBug(r) /\ ~ (\E x \in pool : Similar(r, x)) => new
        BY <3>2, Zenon DEF Manager!Submit, Manager!Seen
      <4>4. pool' = IF \E x \in pool : Similar(r, x) THEN pool ELSE pool \cup {r}
        BY <4>1, Zenon DEF Manager!Group, Manager!Seen
      <4>5. verdict' = Put(verdict, i, [result |-> r, new |-> new])
        BY <4>1, Zenon DEF Manager!Answer, Manager!Put, Put
      <4> QED
        BY <4>2, <4>3, <4>4, <4>5
    <3>4. DOMAIN verdict' = {j \in Files : stage'[j] = "finished"}
      BY <3>1, <3>3 DEF Put, TypeOK
    <3>5. /\ verdict' \in [DOMAIN verdict' -> [result : Result, new : BOOLEAN]]
          /\ verdict'[i].result = r /\ verdict'[i].new = new /\ i \in DOMAIN verdict'
          /\ \A j \in DOMAIN verdict : j # i /\ j \in DOMAIN verdict' /\ verdict'[j] = verdict[j]
          /\ DOMAIN verdict' = DOMAIN verdict \cup {i}
      BY <3>1, <3>3 DEF Put
    <3>6. pool \subseteq pool' /\ \E x \in pool' : Similar(r, x)
      BY <3>3, GenerateAssumption
    <3>7. \A j \in DOMAIN verdict' :
            /\ verdict'[j].new => IsBug(verdict'[j].result)
            /\ \E x \in pool' : Similar(verdict'[j].result, x)
      BY <3>1, <3>3, <3>5, <3>6
    <3>8. ASSUME NEW x \in pool'
          PROVE  \E j \in DOMAIN verdict' :
                   verdict'[j].result = x /\ (IsBug(x) => verdict'[j].new)
      <4>1. CASE x \in pool
        BY <3>1, <3>5, <4>1
      <4>2. CASE x \notin pool
        BY <3>3, <3>5, <4>2
      <4> QED
        BY <4>1, <4>2
    <3> QED
      BY <3>1, <3>4, <3>5, <3>7, <3>8
  <2>4. CASE CreateList
    BY <2>4 DEF CreateList, TypeOK
  <2>5. CASE WriteList
    BY <2>5 DEF WriteList, FailedFiles, FileOf
  <2>6. CASE Crash
    BY <2>6 DEF Crash
  <2>7. CASE Finished \/ UNCHANGED vars
    <3>1. UNCHANGED <<failed, pool, verdict, phase, cmd, stage>>
      BY <2>7 DEF Finished, vars
    <3>2. FailedFiles' = FailedFiles
      BY <3>1 DEF FailedFiles, FileOf
    <3> QED
      BY <3>1, <3>2
  <2>8. ASSUME NEW stream \in Streams, NEW num \in 1 .. MaxNum,
               NEW package \in BOOLEAN, NEW skip_run \in BOOLEAN,
               StartSession(stream, num, package, skip_run)
        PROVE  ManagerInv'
    BY <2>8 DEF StartSession
  <2> QED
    BY <2>1, <2>2, <2>3, <2>4, <2>5, <2>6, <2>7, <2>8 DEF Next, Work
<1> QED
  BY <1>1, <1>2, TypeCorrect, PTL DEF Spec

(* A session that ran its programs lists files with bugs, and every bug is *)
(* similar to one of a file in the list, or to a result that is no bug;    *)
(* the listed files hold the programs that showed the bugs.                *)
THEOREM ListShowsTheBugs == Spec => []FailedFilesShowTheBugs
<1>1. ASSUME TypeOK, FilesInv, ManagerInv PROVE FailedFilesShowTheBugs
  <2> SUFFICES ASSUME phase = "done", ~cmd.skip_run
               PROVE  FailedFilesShowTheBugs
    BY DEF FailedFilesShowTheBugs
  <2> DEFINE listed == {i \in Files : FileOf(i) \in failed[2]}
  <2>1. /\ DOMAIN verdict = Files /\ failed = Listed(FailedFiles)
        /\ verdict \in [Files -> [result : Result, new : BOOLEAN]]
        /\ \A i \in Files : /\ verdict[i].new => IsBug(verdict[i].result)
                            /\ \E x \in pool : Similar(verdict[i].result, x)
        /\ \A x \in pool : \E j \in Files :
             verdict[j].result = x /\ (IsBug(x) => verdict[j].new)
    BY <1>1 DEF ManagerInv
  <2>2. listed = {i \in Files : verdict[i].new}
    BY <1>1, <2>1, Distinct, FileNamesTellApart DEF FailedFiles
  <2>3. failed = Listed({FileOf(i) : i \in listed})
    BY <2>1, <2>2 DEF FailedFiles
  <2>4. \A i \in listed : /\ IsBug(verdict[i].result)
                          /\ codes[i] \in {moves[FileOf(i)], Empty}
    BY <1>1, <2>1, <2>2 DEF FilesInv, Fits
  <2>5. ASSUME NEW i \in Files
        PROVE  \E j \in Files : /\ j \in listed \/ ~IsBug(verdict[j].result)
                                /\ Similar(verdict[i].result, verdict[j].result)
    <3>1. PICK x \in pool : Similar(verdict[i].result, x)
      BY <2>1
    <3>2. PICK j \in Files : verdict[j].result = x /\ (IsBug(x) => verdict[j].new)
      BY <2>1
    <3> QED
      BY <2>2, <3>1, <3>2
  <2> QED
    BY <2>3, <2>4, <2>5 DEF FailedFilesShowTheBugs
<1> QED
  BY <1>1, TypeCorrect, FilesInvHolds, ManagerInvHolds, PTL
=============================================================================
