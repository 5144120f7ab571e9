SPECIFICATION Spec
CONSTANTS
  Requests <- AnyRequest
  Logs <- CommonLogs
  ComparedLogs <- LongLogs
  MaxPast = 1
INVARIANTS
  ChunksAreWhatWasPrinted
  PanicsComeFromOneLog
  VerdictsFollowWhatWasSaid
  DifferencesStandOut
ACTION_CONSTRAINTS
  FourRunsAreShort
  PairsAreShort
