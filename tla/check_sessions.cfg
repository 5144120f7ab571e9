SPECIFICATION Spec
CONSTANTS
  rawA = rawA
  fuzzA = fuzzA
  rawB = rawB
  a = a
  b = b
  c1 = c1
  c2 = c2
  Raws = {rawA, fuzzA, rawB}
  Stems = {a, b}
  StemOf <- Stem
  GivenMoves = {b}
  Configs = {c1, c2}
  Converts <- Convertible
  Buggy <- SomeBugs
  MaxSessions = 3
  MaxCrashes = 2
INVARIANTS
  TypeOK
  ReportIsWhatDiskHolds
  RerunReportsThePresent
  FreshSessionRecovers
  PanicNeedsCrash
PROPERTIES
  ResultsKept
  SessionsEnd
