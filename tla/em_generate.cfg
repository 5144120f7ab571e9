SPECIFICATION FairSpec
CONSTANTS
  Thread = {t1, t2}
  Input = {i1, i2, i3}
  Result <- MixedResults
  PanicResult <- Panics
  IsBug <- ResultIsBug
  Similar <- ResultSimilar
  Api = "execute_check_new_bug"
  SaveInput = TRUE
  None = None
INVARIANTS
  FirstSightReported
  PanicPickedUpIsOwn
PROPERTIES
  ImplementsClustering
  AllAnswered
