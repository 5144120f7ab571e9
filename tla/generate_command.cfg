SPECIFICATION Spec
CONSTANTS
  a = a
  b = b
  c = c
  d = d
  Seeds = {a, b, c, d}
  MaxNum = 2
  Streams <- ThreeStreams
  MaxSize = 2
  Suffices <- FirstBuffers
  Result <- Results
  Outcomes <- OutcomesOf
  IsBug <- ResultIsBug
  Similar <- ResultSimilar
  MaxSessions = 2
  MaxCrashes = 1
INVARIANTS
  FilesAreReproducible
  FailedFilesShowTheBugs
PROPERTIES
  SessionsEnd
