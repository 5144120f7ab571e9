SPECIFICATION Spec
CONSTANTS
  Functions <- GenericFunctions
  StructFields <- Structs
  KeyStructs = {"S"}
  MaxDepths <- ShallowRing
  NumStmts = 2
  NumAdditional = 1
  MaxElems = 1
  AllowRecursiveCalls = TRUE
INVARIANTS
  TypeOK
  DeclaredBeforeUse
  ManualLimitsNeverNest
  AllUndoneAtEnd
  NeverPanics
  PositionsGetTheirType
  ParametersHaveValues
