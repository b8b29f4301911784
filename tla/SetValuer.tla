------------------------------ MODULE SetValuer ------------------------------
(***************************************************************************)
(* contracts/protocol/SetValuer.sol: the worth of one SetToken in a quote  *)
(* asset, from the position units and the price oracle.                    *)
(***************************************************************************)
EXTENDS SetVault, PriceOracle

CONSTANT baseUnits   \* 10 ** decimals() of every component

ASSUME SetValuerAssumption ==
  /\ Component \subseteq Asset
  /\ baseUnits \in [Component -> Nat \ {0}]

\* Each unit is rounded when it is normalised and again when it is priced.
valueOf(c) ==
  preciseMulSigned(
    sdiv(getTotalComponentRealUnits(positions, c) * PRECISE_UNIT, baseUnits[c]),
    getPrice(c, masterQuoteAsset))

masterValuation == FoldLeft(LAMBDA v, c : v + valueOf(c), 0, positions.components)

\* A missing price, and a value below zero, revert.
isPriced(quoteAsset) ==
  /\ \A c \in components : getPrice(c, masterQuoteAsset) # NoPrice
  /\ quoteAsset # masterQuoteAsset =>
       getPrice(quoteAsset, masterQuoteAsset) # NoPrice
  /\ masterValuation >= 0

calculateSetTokenValuation(quoteAsset) ==
  IF quoteAsset = masterQuoteAsset THEN masterValuation
  ELSE sdiv(masterValuation * PRECISE_UNIT, getPrice(quoteAsset, masterQuoteAsset))
==============================================================================
