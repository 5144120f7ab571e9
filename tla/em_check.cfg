SPECIFICATION Spec
CONSTANTS
  Thread = {t1, t2, t3}
  Input = {i1, i2, i3}
  Result <- CheckResults
  PanicResult <- OnePanic
  IsBug <- ResultIsBug
  Similar <- ResultSimilar
  Api = "add_bugs"
  SaveInput = TRUE
  None = None
SYMMETRY Interchangeable
INVARIANTS
  TypeOK
  PoolPairwiseDissimilar
  EveryBugRepresented
  ReportListsEachBugOnce
  KeysArePool
  InputsFiledOnce
