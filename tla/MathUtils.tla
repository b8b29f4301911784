------------------------------ MODULE MathUtils ------------------------------
(***************************************************************************)
(* utils/common/mathUtils.ts: the fixed-point arithmetic with which the    *)
(* tests compute what the contracts should answer.  It is written apart    *)
(* from PreciseUnitMath.sol on BigNumber, an unbounded integer whose div   *)
(* truncates towards zero.                                                 *)
(***************************************************************************)
EXTENDS Integers

CONSTANT PRECISE_UNIT   \* the scale of PreciseUnitMath

magnitude(a) == IF a >= 0 THEN a ELSE -a

\* BigNumber.div, and BigNumber.mod of a positive modulus.
div(a, b) == IF (a >= 0) = (b > 0) THEN magnitude(a) \div magnitude(b)
                                   ELSE -(magnitude(a) \div magnitude(b))
mod(a, b) == a % b

preciseMul(a, b) == div(a * b, PRECISE_UNIT)

preciseMulCeil(a, b) ==
  IF a = 0 \/ b = 0 THEN 0 ELSE div(a * b - 1, PRECISE_UNIT) + 1

sameSign(a, b) == (a > 0 /\ b > 0) \/ (a < 0 /\ b < 0)

\* Away from zero, for either sign of the result.
preciseMulCeilInt(a, b) ==
  IF a = 0 \/ b = 0 THEN 0
  ELSE IF sameSign(a, b) THEN div(a * b - 1, PRECISE_UNIT) + 1
                         ELSE div(a * b + 1, PRECISE_UNIT) - 1

preciseDiv(a, b) == div(a * PRECISE_UNIT, b)

preciseDivCeil(a, b) ==
  IF a = 0 \/ b = 0 THEN 0 ELSE div(a * PRECISE_UNIT - 1, b) + 1

preciseDivCeilInt(a, b) ==
  IF a = 0 \/ b = 0 THEN 0
  ELSE IF sameSign(a, b) THEN div(a * PRECISE_UNIT - 1, b) + 1
                         ELSE div(a * PRECISE_UNIT + 1, b) - 1

divDown(a, b) ==
  LET result == div(a, b)
  IN  IF \/ a < 0 /\ b > 0 /\ mod(a, b) # 0
         \/ a > 0 /\ b < 0 /\ mod(a, -b) # 0
      THEN result - 1 ELSE result

min(valueOne, valueTwo) == IF valueOne < valueTwo THEN valueOne ELSE valueTwo
==============================================================================
