SPECIFICATION Spec
CONSTANTS
  Requests <- FewRequests
  Logs <- FewLogs
  ComparedLogs <- FewLogs
  MaxPast = 1
INVARIANTS
  FailuresAreSimilarToBugsOnly
