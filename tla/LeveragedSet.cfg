SPECIFICATION Spec
CONSTANTS
  PRECISE_UNIT = 2
  Asset = {a, b}
  Defaulted = {a}
  ComponentUnits = {0, 3}
  MaxDebt = 2
  MaxHeld = 3
  Surplus = {0, 1}
  Quantity = {1, 2}
  Borrowed = {1}
  MaxSupply = 4
INVARIANTS HooksMatchFlags EnabledAreEntered
PROPERTIES RemovalUnregisters RedemptionIsSynced IssuanceMissesOnlyInterest DebtIsNeverDropped
