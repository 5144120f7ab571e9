SPECIFICATION Spec
CONSTANTS
  Functions <- PlainFunction
  StructFields <- Structs
  KeyStructs = {"S"}
  MaxDepths <- ShallowRing
  NumStmts = 2
  NumAdditional = 0
  MaxElems = 0
  AllowRecursiveCalls = FALSE
INVARIANTS
  DereferencesExistingVariable
