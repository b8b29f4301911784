SPECIFICATION Spec
CONSTANTS
  PRECISE_UNIT = 20
  c1 = c1
  c2 = c2
  usd = usd
  Component = {c1, c2}
  PositionModule = {}
  Account = {alice}
  Asset = {c1, c2, usd}
  masterQuoteAsset = usd
  MaxSupply = 45
  MaxHeld = 60
  MaxMultiplier = 30
  baseUnits <- Decimals
  protocolShare <- Share
  protocolDirect <- Direct
  InitialUnits <- Units
  MaxCalls = 4
  BasicQuantity = {23}
  ReserveQuantity = {16}
  RedeemQuantity = {12}
  Quotes <- QuotesOverUsd
  Settings <- TwoChoices
INVARIANTS ReserveListMatchesMapping QuantitiesAsExpected
PROPERTIES FairAtNav NavCostsAtMostDust PositionsAsExpected PossibleRedeemIsValid
