SPECIFICATION Spec
CONSTANTS
  TypeParams <- SomeTypeParams
  FieldCounts = {2}
  StructFieldLimits = {2}
  TypeDepths = {2, 5}
  PackDepth = 4
INVARIANTS
  TypeOK
  ConcretizationSucceeds
  DeclarationsAreLegal
  PackedAsDeclared
PROPERTIES
  ImplementsStructGraph
