--------------------------- MODULE PreciseUnitMath ---------------------------
(***************************************************************************)
(* Fixed-point arithmetic of contracts/lib/PreciseUnitMath.sol.  The       *)
(* operators work on unbounded integers: the code multiplies through       *)
(* SafeMath and SignedSafeMath, so an overflow reverts the transaction and *)
(* never yields a wrapped number.  A zero divisor reverts as well: callers *)
(* guard with the divisor, no operator here invents a value for it.        *)
(***************************************************************************)
EXTENDS Integers

CONSTANT PRECISE_UNIT   \* 10^18 in the code; instances take a small scale

ASSUME PreciseUnitAssumption == PRECISE_UNIT \in Nat \ {0}

abs(a) == IF a >= 0 THEN a ELSE -a

\* Division of the EVM: the quotient is truncated towards zero.
sdiv(a, b) == IF (a >= 0) = (b > 0)
              THEN abs(a) \div abs(b)
              ELSE -(abs(a) \div abs(b))

\* One correction step turns truncation into rounding down.
divDown(a, b) ==
  LET result == sdiv(a, b)
  IN  IF a # 0 /\ (a < 0) # (b < 0) /\ abs(a) % abs(b) # 0
      THEN result - 1
      ELSE result

preciseMul(a, b) == (a * b) \div PRECISE_UNIT

preciseMulSigned(a, b) == sdiv(a * b, PRECISE_UNIT)

preciseMulCeil(a, b) ==
  IF a = 0 \/ b = 0 THEN 0 ELSE (a * b - 1) \div PRECISE_UNIT + 1

preciseDiv(a, b) == (a * PRECISE_UNIT) \div b

preciseDivCeil(a, b) == IF a > 0 THEN (a * PRECISE_UNIT - 1) \div b + 1 ELSE 0

conservativePreciseMul(a, b) == divDown(a * b, PRECISE_UNIT)

conservativePreciseDiv(a, b) == divDown(a * PRECISE_UNIT, b)
==============================================================================
