--------------------------- MODULE FeeExpectations ---------------------------
(***************************************************************************)
(* utils/common/feeModuleUtils.ts: the streaming fee the tests expect, the *)
(* SetTokens it mints and the position units after it.                     *)
(***************************************************************************)
EXTENDS MathUtils

CONSTANT ONE_YEAR_IN_SECONDS

\* The rate is the one in force before the accrual.
getStreamingFee(previousAccrueTimestamp, recentAccrueTimestamp, rate) ==
  div((recentAccrueTimestamp - previousAccrueTimestamp) * rate, ONE_YEAR_IN_SECONDS)

getStreamingFeeInflationAmount(inflationPercent, totalSupply) ==
  div(inflationPercent * totalSupply, PRECISE_UNIT - inflationPercent)

\* Debt is rounded away from zero.
getPostFeePositionUnit(preFeeUnit, inflationPercent) ==
  IF preFeeUnit >= 0 THEN preciseMul(preFeeUnit, PRECISE_UNIT - inflationPercent)
                     ELSE preciseMulCeilInt(preFeeUnit, PRECISE_UNIT - inflationPercent)
==============================================================================
