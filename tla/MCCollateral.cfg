SPECIFICATION Spec
CONSTANTS
  PRECISE_UNIT = 4
  c1 = c1
  c2 = c2
  Component = {c1, c2}
  PositionModule = {}
  Account = {alice, bob}
  MaxSupply = 8
  MaxHeld = 7
  ONE_YEAR_IN_SECONDS = 1
  protocolFee = 2
  protocolRecipient = bob
  MaxTime = 2
  tradeFee = 1
  InitialUnits <- Units
  Quantity = {1, 4}
  FeePercentages = {0, 1}
  TradeQuantity = {1}
  Exchanged <- ForSale
INVARIANTS FullyBacked HoldersCanExit NoFeeChargedTwice
PROPERTIES OnlyFeesDilute AccrualAsExpected
