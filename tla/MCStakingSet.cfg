SPECIFICATION Spec
CONSTANTS
  PRECISE_UNIT = 2
  c1 = c1
  c2 = c2
  Component = {c1, c2}
  PositionModule = {"StakingModule"}
  StakingContract = {s1, s2}
  Account = {alice, bob}
  MaxSupply = 4
  MaxHeld = 7
  ONE_YEAR_IN_SECONDS = 1
  protocolFee = 0
  protocolRecipient = bob
  MaxTime = 1
  tradeFee = 0
  InitialUnits <- OneComponent
  Quantity = {1, 2}
  StakedUnits = {1, 2}
  FeePercentages = {1}
  Exchanged <- ForSale
  TradeQuantity = {1}
  MaxRoundings = 4
INVARIANTS TypeOK StakingContractsMatchRecords ExternalUnitMatchesRecords StakedShortByDust RemovalLeavesNoPosition
PROPERTIES StakingNeverDilutes
