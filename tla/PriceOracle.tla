----------------------------- MODULE PriceOracle -----------------------------
(***************************************************************************)
(* contracts/protocol/PriceOracle.sol: prices by pair of assets, asked for *)
(* directly, inverted, or over the master quote asset.  oracles holds what *)
(* the oracle of a pair reads, zero where none is registered.  Adapters,   *)
(* which are asked last, are not represented: a price they would have to   *)
(* give is not found.                                                      *)
(***************************************************************************)
EXTENDS PreciseUnitMath

CONSTANTS Asset, masterQuoteAsset

ASSUME PriceOracleAssumption == masterQuoteAsset \in Asset

VARIABLE oracles

NoPrice == 0

OracleInit == oracles = [pair \in Asset \X Asset |-> NoPrice]

_calculateInversePrice(inverseValue) == preciseDiv(PRECISE_UNIT, inverseValue)

_getDirectOrInversePrice(one, two) ==
  IF oracles[<<one, two>>] # NoPrice THEN oracles[<<one, two>>]
  ELSE IF oracles[<<two, one>>] # NoPrice
       THEN _calculateInversePrice(oracles[<<two, one>>])
       ELSE NoPrice

_getPriceFromMasterQuote(one, two) ==
  LET priceOne == _getDirectOrInversePrice(one, masterQuoteAsset)
      priceTwo == _getDirectOrInversePrice(two, masterQuoteAsset)
  IN  IF priceOne # NoPrice /\ priceTwo # NoPrice
      THEN preciseDiv(priceOne, priceTwo) ELSE NoPrice

getPrice(one, two) ==
  IF _getDirectOrInversePrice(one, two) # NoPrice
  THEN _getDirectOrInversePrice(one, two)
  ELSE _getPriceFromMasterQuote(one, two)

-----------------------------------------------------------------------------

addPair(one, two, price) ==
  /\ oracles[<<one, two>>] = NoPrice
  /\ oracles' = [oracles EXCEPT ![<<one, two>>] = price]

\* The owner registers another oracle, or the oracle reads another value.
editPair(one, two, price) ==
  /\ oracles[<<one, two>>] # NoPrice
  /\ oracles' = [oracles EXCEPT ![<<one, two>>] = price]

removePair(one, two) ==
  /\ oracles[<<one, two>>] # NoPrice
  /\ oracles' = [oracles EXCEPT ![<<one, two>>] = NoPrice]
==============================================================================
