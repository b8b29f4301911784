--------------------------- MODULE NavExpectations ---------------------------
(***************************************************************************)
(* utils/common/navIssuanceModuleUtils.ts: what the tests of the NAV       *)
(* issuance modules expect of them, computed from the state before a call. *)
(* The formulas are not those of the contract: the multiplier goes over a  *)
(* rounded inflation, fees are taken before the conversion to base units,  *)
(* and the rounding of stored units is imitated in the opposite order.     *)
(***************************************************************************)
EXTENDS MathUtils

\* Mutant of getExpectedPostFeeQuantity: the direct fee is forgotten.
postFeeWithoutDirect(quantity, managerFeePercentage, directFeePercentage) ==
  quantity - preciseMul(quantity, managerFeePercentage)

getExpectedPostFeeQuantity(quantity, managerFeePercentage, directFeePercentage) ==
  quantity - preciseMul(quantity, managerFeePercentage)
           - preciseMul(quantity, directFeePercentage)

getExpectedIssuePositionMultiplier(multiplier, previousSupply, currentSupply) ==
  LET inflation == preciseDivCeil(currentSupply - previousSupply, currentSupply)
  IN  preciseMul(multiplier, PRECISE_UNIT - inflation)

getExpectedRedeemPositionMultiplier(multiplier, previousSupply, currentSupply) ==
  LET deflation == preciseDiv(previousSupply - currentSupply, currentSupply)
  IN  preciseMul(multiplier, PRECISE_UNIT + deflation)

getExpectedSetTokenIssueQuantity(nav, supply, base, quantity, manager, direct, premium) ==
  LET subFees     == getExpectedPostFeeQuantity(quantity, manager, direct)
      subPremium  == subFees - preciseMul(subFees, premium)
      normalized  == preciseDiv(subPremium, base)
      denominator == preciseMul(supply, nav) + preciseDiv(subFees, base) - normalized
  IN  preciseDiv(preciseMul(normalized, supply), denominator)

\* Mutant of roundedUnit: the conversion is not imitated and the unit is moved
\* to the virtual scale only.
virtualUnitOnly(unit, multiplier) == preciseMul(unit, multiplier)

\* The stored unit, as the utilities round it for the conversions.
roundedUnit(unit, multiplier) ==
  preciseDiv(preciseMul(unit, multiplier), multiplier)

getExpectedIssuePositionUnit(units, quantity, before, after, multiplier, manager, direct) ==
  LET numerator == preciseMul(before, units)
                     + getExpectedPostFeeQuantity(quantity, manager, direct)
  IN  roundedUnit(preciseDiv(numerator, after), multiplier)

\* The value of the SetTokens less the premium, in precise units.
redeemedValue(quantity, valuation, premium) ==
  LET total == preciseMul(valuation, quantity)
  IN  total - preciseMulCeil(total, premium)

getExpectedReserveRedeemQuantity(quantity, nav, base, manager, direct, premium) ==
  LET value == redeemedValue(quantity, nav, premium)
  IN  preciseMul(getExpectedPostFeeQuantity(value, manager, direct), base)

\* The unit after a redemption, from the supplies before and after it.
getExpectedRedeemPositionUnit(units, quantity, nav, base, before, after, multiplier, premium) ==
  LET outflow   == preciseMul(redeemedValue(quantity, nav, premium), base)
      numerator == preciseMul(before, units) - outflow
  IN  roundedUnit(preciseDiv(numerator, after), multiplier)
==============================================================================
