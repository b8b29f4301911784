SPECIFICATION Spec
CONSTANTS
  PRECISE_UNIT = 4
  m1 = m1
  m2 = m2
  m3 = m3
  alice = alice
  bob = bob
  Component = {c1}
  PositionModule = {x1}
  Module <- Modules
  Account <- Accounts
  NullAddress = null
  LocksOnLeaving <- Retaining
  MaxListed = 1
  RealUnit <- PositionUnits
  Multiplier <- PositionMultipliers
  MaxSupply = 1
  MaxHeld = 1
SYMMETRY Symmetry
INVARIANTS ModuleListMatchesStates LockerCanReturn
PROPERTIES FrozenUnderDisabledLocker NullManagerIsFinal ImplementsAuthority
