SPECIFICATION BookSpec
CONSTANTS
  PRECISE_UNIT = 4
  c1 = c1
  c2 = c2
  x1 = x1
  x2 = x2
  Component = {c1, c2}
  PositionModule = {x1, x2}
  ModulesOf <- Acting
  DefaultUnit <- CoarseDefault
  ExternalUnit <- CoarseExternal
  FeePercentage <- Fees
  Supply <- Supplies
  MaxMultiplier = 6
INVARIANTS ListMatchesPositions ExternalListMatchesUnits PositionsCanBeClosed
PROPERTIES RepricingKeepsPositions
