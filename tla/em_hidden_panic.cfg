SPECIFICATION Spec
CONSTANTS
  Thread = {t1}
  Input = {i1, i2}
  Result <- PanicResults
  PanicResult <- OnePanic
  IsBug <- ResultIsBug
  Similar <- ResultSimilar
  Api = "execute_check_new_bug"
  SaveInput = FALSE
  None = None
INVARIANTS
  UnannouncedBugWasSeen
