SPECIFICATION Spec
CONSTANTS
  Thread = {t1, t2}
  Input = {i1, i2}
  Result <- ErrorResults
  PanicResult <- NoPanics
  IsBug <- ResultIsBug
  Similar <- ResultSimilar
  Api = "execute_check_new_bug"
  SaveInput = FALSE
  None = None
INVARIANTS
  NewBugAnnouncedOnce
