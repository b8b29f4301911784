SPECIFICATION Spec
CONSTANTS
  PRECISE_UNIT = 2
  c1 = c1
  c2 = c2
  Component = {c1}
  PositionModule = {"StakingModule"}
  StakingContract = {s1}
  Account = {alice, bob}
  MaxSupply = 4
  MaxHeld = 8
  ONE_YEAR_IN_SECONDS = 1
  protocolFee = 0
  protocolRecipient = bob
  MaxTime = 1
  tradeFee = 0
  InitialUnits <- FourUnits
  Quantity = {2}
  StakedUnits = {2}
  FeePercentages = {1}
  Exchanged <- NotForSale
  TradeQuantity = {1}
  MaxRoundings = 2
INVARIANTS UsersCanRedeem
