SPECIFICATION FairSpec
CONSTANTS
  Structs = {s1, s2, s3, s4}
  Generic = {s1, s2, s3}
  AllAbilities = {s4}
  MaxArgs = 1
  Functions = {f1, f2, f3}
  Foreign = {g}
  f1 = f1
  f2 = f2
  f3 = f3
  g = g
  CallMaps <- SomeCallMaps
  Resources = {r1}
INVARIANTS
  NoStructContainsItself
  AcquiresSuffice
  AcquiresNeeded
PROPERTIES
  PassesEnd
