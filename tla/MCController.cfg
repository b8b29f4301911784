SPECIFICATION Spec
CONSTANTS
  s1 = s1
  s2 = s2
  f1 = f1
  f2 = f2
  m1 = m1
  m2 = m2
  r1 = r1
  r2 = r2
  SetAddress = {s1, s2}
  FactoryAddress = {f1}
  ZeroAddress = zero
  ModuleAddress <- Modules
  ResourceAddress <- Resources
  Account = {alice}
  Id = {0, 1}
  FeeType = {0}
  FeePercentage = {0, 1}
  InitialList <- DistinctLists
INVARIANTS ListsMatchMappings IdsMatchResources
