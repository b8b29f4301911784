---------------------------- MODULE LibraryProofs ----------------------------
(***************************************************************************)
(* What the libraries under all the contracts guarantee to their callers:  *)
(* arrays of addresses that repeat none, and the rounding of products and  *)
(* quotients at every scale; that the arithmetic of the tests, written     *)
(* apart in TypeScript, agrees with that of the contracts; what a sum over *)
(* a finite set, of balances or of units, does when its terms change; and  *)
(* what the edits of Position.sol do to units, lists and listings.         *)
(***************************************************************************)
EXTENDS PositionLibrary, FiniteSetTheorems,
        WellFoundedInduction, TLAPS

Tests == INSTANCE MathUtils

-----------------------------------------------------------------------------
(* AddressArrayUtils.sol: push, remove and removeStorage. *)

\* In an array without repetitions indexOf finds the slot of the address.
LEMMA IndexOfFinds ==
  ASSUME NEW S, NEW A \in Seq(S), NEW a, IsInjective(A), contains(A, a)
  PROVE  indexOf(A, a) \in 1 .. Len(A) /\ A[indexOf(A, a)] = a
<1>1. \E i \in DOMAIN A : A[i] = a /\ \A j \in DOMAIN A : j < i => A[j] # a
  <2>1. PICK k \in DOMAIN A : A[k] = a  BY DEF contains
  <2>2. \A j \in DOMAIN A : j < k => A[j] # a
    <3>1. DOMAIN A = 1 .. Len(A) /\ Len(A) \in Nat  OBVIOUS
    <3>2. SUFFICES ASSUME NEW j \in DOMAIN A, j < k, A[j] = a PROVE FALSE
      OBVIOUS
    <3>3. j = k  BY <2>1, <3>2 DEF IsInjective
    <3>4. QED  BY <2>1, <3>1, <3>2, <3>3
  <2>3. QED  BY <2>1, <2>2
<1>2. indexOf(A, a) \in DOMAIN A /\ A[indexOf(A, a)] = a
  BY <1>1 DEF indexOf
<1>3. QED  BY <1>2

\* push of a missing address keeps the array free of repetitions and adds
\* exactly that address.
LEMMA PushKeepsDistinct ==
  ASSUME NEW S, NEW A \in Seq(S), NEW a \in S, IsInjective(A), ~contains(A, a)
  PROVE  /\ Append(A, a) \in Seq(S)
         /\ IsInjective(Append(A, a))
         /\ ToSet(Append(A, a)) = ToSet(A) \cup {a}
<1>1. Append(A, a) \in Seq(S)  OBVIOUS
<1>2. DOMAIN A = 1 .. Len(A) /\ Len(A) \in Nat  OBVIOUS
<1>3. DOMAIN Append(A, a) = 1 .. Len(A) + 1  OBVIOUS
<1>4. \A i \in 1 .. Len(A) : Append(A, a)[i] = A[i]  OBVIOUS
<1>5. Append(A, a)[Len(A) + 1] = a  OBVIOUS
<1>6. IsInjective(Append(A, a))
  BY <1>2, <1>3, <1>4, <1>5 DEF IsInjective, contains
<1>7. ToSet(Append(A, a)) = ToSet(A) \cup {a}
  BY <1>2, <1>3, <1>4, <1>5 DEF ToSet
<1>8. QED  BY <1>1, <1>6, <1>7

\* removeStorage removes exactly the address and repeats none, although the
\* last element moves into the freed slot.
LEMMA RemoveStorageKeepsDistinct ==
  ASSUME NEW S, NEW A \in Seq(S), NEW a, IsInjective(A), contains(A, a)
  PROVE  /\ removeStorage(A, a) \in Seq(S)
         /\ IsInjective(removeStorage(A, a))
         /\ ToSet(removeStorage(A, a)) = ToSet(A) \ {a}
<1> DEFINE k == indexOf(A, a)
           n == Len(A)
           B == [j \in 1 .. n - 1 |-> IF j = k THEN A[n] ELSE A[j]]
<1>1. k \in 1 .. n /\ A[k] = a  BY IndexOfFinds
<1>2. n \in Nat /\ DOMAIN A = 1 .. n /\ \A i \in 1 .. n : A[i] \in S  OBVIOUS
<1>3. removeStorage(A, a) = B  BY DEF removeStorage
<1> HIDE DEF k, n
<1>4. n - 1 \in Nat  BY <1>1, <1>2
<1>5. \A j \in 1 .. n - 1 : B[j] \in S  BY <1>1, <1>2
<1>6. B \in Seq(S)  BY <1>4, <1>5
<1>7. \A i, j \in 1 .. n : A[i] = A[j] => i = j  BY <1>2 DEF IsInjective
<1>8. IsInjective(B)  BY <1>1, <1>2, <1>4, <1>7 DEF IsInjective
<1>9. ToSet(B) = ToSet(A) \ {a}
  <2>1. ASSUME NEW x \in ToSet(B) PROVE x \in ToSet(A) \ {a}
    BY <1>1, <1>2, <1>4, <1>7, <2>1 DEF ToSet
  <2>2. ASSUME NEW x \in ToSet(A) \ {a} PROVE x \in ToSet(B)
    <3>1. PICK i \in 1 .. n : A[i] = x  BY <1>2, <2>2 DEF ToSet
    <3>2. i # k  BY <1>1, <2>2, <3>1
    <3>3. CASE i < n
      <4>1. i \in 1 .. n - 1 /\ B[i] = x  BY <1>2, <3>1, <3>2, <3>3
      <4>2. QED  BY <4>1 DEF ToSet
    <3>4. CASE i = n
      <4>1. k \in 1 .. n - 1 /\ B[k] = x  BY <1>1, <1>2, <3>1, <3>2, <3>4
      <4>2. QED  BY <4>1 DEF ToSet
    <3>5. QED  BY <1>2, <3>1, <3>3, <3>4
  <2>3. QED  BY <2>1, <2>2
<1>10. QED  BY <1>3, <1>6, <1>8, <1>9

\* remove removes exactly the address and repeats none: what follows the freed
\* slot is shifted by one.
LEMMA RemoveKeepsDistinct ==
  ASSUME NEW S, NEW A \in Seq(S), NEW a, IsInjective(A), contains(A, a)
  PROVE  /\ remove(A, a) \in Seq(S)
         /\ IsInjective(remove(A, a))
         /\ ToSet(remove(A, a)) = ToSet(A) \ {a}
<1> DEFINE k == indexOf(A, a)
           n == Len(A)
           B == [j \in 1 .. n - 1 |-> IF j < k THEN A[j] ELSE A[j + 1]]
<1>1. k \in 1 .. n /\ A[k] = a  BY IndexOfFinds
<1>2. n \in Nat /\ DOMAIN A = 1 .. n /\ \A i \in 1 .. n : A[i] \in S  OBVIOUS
<1>3. remove(A, a) = B  BY DEF remove
<1> HIDE DEF k, n
<1>4. n - 1 \in Nat  BY <1>1, <1>2
<1>5. \A j \in 1 .. n - 1 : B[j] \in S  BY <1>1, <1>2
<1>6. B \in Seq(S)  BY <1>4, <1>5
<1>7. \A i, j \in 1 .. n : A[i] = A[j] => i = j  BY <1>2 DEF IsInjective
<1>8. IsInjective(B)  BY <1>1, <1>2, <1>4, <1>7 DEF IsInjective
<1>9. ToSet(B) = ToSet(A) \ {a}
  <2>1. ASSUME NEW x \in ToSet(B) PROVE x \in ToSet(A) \ {a}
    BY <1>1, <1>2, <1>4, <1>7, <2>1 DEF ToSet
  <2>2. ASSUME NEW x \in ToSet(A) \ {a} PROVE x \in ToSet(B)
    <3>1. PICK i \in 1 .. n : A[i] = x  BY <1>2, <2>2 DEF ToSet
    <3>2. i # k  BY <1>1, <2>2, <3>1
    <3>3. CASE i < k
      <4>1. i \in 1 .. n - 1 /\ B[i] = x  BY <1>1, <1>2, <3>1, <3>3
      <4>2. QED  BY <4>1 DEF ToSet
    <3>4. CASE i > k
      <4>1. i - 1 \in 1 .. n - 1 /\ B[i - 1] = x  BY <1>1, <1>2, <3>1, <3>4
      <4>2. QED  BY <4>1 DEF ToSet
    <3>5. QED  BY <1>1, <3>2, <3>3, <3>4
  <2>3. QED  BY <2>1, <2>2
<1>10. QED  BY <1>3, <1>6, <1>8, <1>9

\* Membership as the mappings and as the lists see it.
LEMMA ContainsIsMembership ==
  ASSUME NEW A, NEW a
  PROVE  contains(A, a) <=> a \in ToSet(A)
BY DEF contains, ToSet

-----------------------------------------------------------------------------
(* PreciseUnitMath.sol. *)

\* Division of an integer rounds down, and leaves less than the divisor.
LEMMA DivBounds ==
  ASSUME NEW a \in Int, NEW b \in Nat \ {0}
  PROVE  /\ a \div b \in Int
         /\ (a \div b) * b <= a
         /\ a < (a \div b) * b + b
OBVIOUS

\* An integer q with q*b <= a < q*b + b is the quotient.
LEMMA DivUnique ==
  ASSUME NEW a \in Int, NEW b \in Nat \ {0}, NEW q \in Int,
         q * b <= a, a < q * b + b
  PROVE  a \div b = q
<1> DEFINE p == a \div b
<1>1. p \in Int /\ p * b <= a /\ a < p * b + b  BY DivBounds
<1> HIDE DEF p
<1>2. p * b < (q + 1) * b /\ q * b < (p + 1) * b  BY <1>1
<1>3. \A x, y \in Int : x * b < y * b => x < y
  OBVIOUS
<1>4. p < q + 1 /\ q < p + 1
  BY <1>1, <1>2, <1>3
<1>5. QED  BY <1>1, <1>4 DEF p

\* The correction step of divDown is exact: dividing by a positive number
\* rounds down, for negative dividends too.
THEOREM DivDownFloors ==
  ASSUME NEW a \in Int, NEW b \in Nat \ {0}
  PROVE  divDown(a, b) = a \div b
<1> DEFINE q == abs(a) \div b
           r == abs(a) % b
<1>1. abs(a) \in Nat /\ abs(b) = b  BY DEF abs
<1>2. q \in Nat /\ r \in 0 .. b - 1 /\ abs(a) = q * b + r
  BY <1>1
<1> HIDE DEF q, r
<1>3. CASE a >= 0
  <2>1. abs(a) = a  BY <1>3 DEF abs
  <2>2. QED  BY <1>1, <1>3, <2>1 DEF divDown, sdiv, q, r
<1>4. CASE a < 0
  <2>1. sdiv(a, b) = -q /\ a = -(q * b + r)
    BY <1>1, <1>2, <1>4 DEF sdiv, abs, q, r
  <2>2. CASE r = 0
    <3>1. divDown(a, b) = -q  BY <1>1, <2>1, <2>2 DEF divDown, q, r
    <3>2. (-q) * b <= a /\ a < (-q) * b + b  BY <1>2, <2>1, <2>2
    <3>3. QED  BY <1>2, <3>1, <3>2, DivUnique
  <2>3. CASE r # 0
    <3>1. divDown(a, b) = -q - 1  BY <1>1, <1>4, <2>1, <2>3 DEF divDown, q, r
    <3>2. (-q - 1) * b = -(q * b) - b  BY <1>2
    <3>3. q * b \in Int /\ r > 0 /\ r < b  BY <1>2, <2>3
    <3>4. (-q - 1) * b <= a /\ a < (-q - 1) * b + b
      BY <1>2, <2>1, <3>2, <3>3
    <3>5. QED  BY <1>2, <3>1, <3>4, DivUnique
  <2>4. QED  BY <2>2, <2>3
<1>5. QED  BY <1>3, <1>4

\* A unit whose product with a multiplier stays positive after rounding
\* proves the multiplier positive: what _validateNewMultiplier relies on.
LEMMA PositiveProduct ==
  ASSUME NEW u \in Int, NEW m \in Int, u > 0,
         conservativePreciseMul(u, m) > 0
  PROVE  m > 0
<1>1. PRECISE_UNIT \in Nat \ {0}  BY PreciseUnitAssumption
<1>2. SUFFICES ASSUME m <= 0 PROVE conservativePreciseMul(u, m) <= 0
  BY <1>1, DivDownFloors, DivBounds DEF conservativePreciseMul
<1>3. u * m \in Int /\ u * m <= 0  BY <1>2
<1>4. conservativePreciseMul(u, m) = (u * m) \div PRECISE_UNIT
  BY <1>1, <1>3, DivDownFloors DEF conservativePreciseMul
<1>5. QED  BY <1>1, <1>3, <1>4, DivBounds

\* The quotient of natural numbers is one, and the remainder is below b.
LEMMA NatDivBounds ==
  ASSUME NEW x \in Nat, NEW b \in Nat \ {0}
  PROVE  x \div b \in Nat /\ (x \div b) * b <= x /\ x < (x \div b) * b + b
OBVIOUS

\* preciseMul rounds down.
LEMMA PreciseMulBound ==
  ASSUME NEW a \in Nat, NEW b \in Nat
  PROVE  preciseMul(a, b) \in Nat /\ preciseMul(a, b) * PRECISE_UNIT <= a * b
<1> DEFINE p == a * b
           q == p \div PRECISE_UNIT
<1>1. p \in Nat  OBVIOUS
<1>2. PRECISE_UNIT \in Nat \ {0}  BY PreciseUnitAssumption
<1>3. preciseMul(a, b) = q  BY DEF preciseMul
<1> HIDE DEF p
<1>4. q \in Nat /\ q * PRECISE_UNIT <= p
  BY <1>1, <1>2, NatDivBounds
<1>5. QED  BY <1>3, <1>4 DEF p

\* preciseMulCeil rounds up.
LEMMA PreciseMulCeilBound ==
  ASSUME NEW a \in Nat, NEW b \in Nat
  PROVE  preciseMulCeil(a, b) \in Nat /\ preciseMulCeil(a, b) * PRECISE_UNIT >= a * b
<1>1. PRECISE_UNIT \in Nat \ {0}  BY PreciseUnitAssumption
<1>2. CASE a = 0 \/ b = 0  BY <1>1, <1>2 DEF preciseMulCeil
<1>3. CASE a # 0 /\ b # 0
  <2> DEFINE p == a * b
             q == (p - 1) \div PRECISE_UNIT
  <2>1. p \in Nat /\ p # 0  BY <1>3
  <2>2. preciseMulCeil(a, b) = q + 1  BY <1>3 DEF preciseMulCeil
  <2> HIDE DEF p
  <2>3. p - 1 \in Nat  BY <2>1
  <2>4. q \in Nat /\ p - 1 < q * PRECISE_UNIT + PRECISE_UNIT
    BY <1>1, <2>3, NatDivBounds
  <2> HIDE DEF q
  <2>5. (q + 1) * PRECISE_UNIT = q * PRECISE_UNIT + PRECISE_UNIT  BY <1>1, <2>4
  <2>6. q * PRECISE_UNIT \in Int  BY <1>1, <2>4
  <2>7. (q + 1) * PRECISE_UNIT >= p /\ q + 1 \in Nat
    BY <1>1, <2>1, <2>4, <2>5, <2>6
  <2>8. QED  BY <2>2, <2>7 DEF p
<1>4. QED  BY <1>2, <1>3

\* preciseDivCeil rounds up.
LEMMA PreciseDivCeilBound ==
  ASSUME NEW a \in Nat, NEW s \in Nat \ {0}
  PROVE  preciseDivCeil(a, s) \in Nat /\ preciseDivCeil(a, s) * s >= a * PRECISE_UNIT
<1>1. PRECISE_UNIT \in Nat \ {0}  BY PreciseUnitAssumption
<1>2. CASE a = 0  BY <1>1, <1>2 DEF preciseDivCeil
<1>3. CASE a > 0
  <2> DEFINE p == a * PRECISE_UNIT
             q == (p - 1) \div s
  <2>1. p \in Nat /\ p # 0  BY <1>1, <1>3
  <2>2. preciseDivCeil(a, s) = q + 1  BY <1>3 DEF preciseDivCeil
  <2> HIDE DEF p
  <2>3. p - 1 \in Nat  BY <2>1
  <2>4. q \in Nat /\ p - 1 < q * s + s
    BY <2>3, NatDivBounds
  <2> HIDE DEF q
  <2>5. (q + 1) * s = q * s + s /\ q * s \in Int  BY <2>4
  <2>6. (q + 1) * s >= p /\ q + 1 \in Nat  BY <2>1, <2>4, <2>5
  <2>7. QED  BY <2>2, <2>6 DEF p
<1>4. QED  BY <1>2, <1>3

-----------------------------------------------------------------------------
(* What modules compute with it. *)

\* A deposit rounded up covers what the SetTokens minted for it promise.
LEMMA DepositCovers ==
  ASSUME NEW supply \in Nat, NEW q \in Nat, NEW r \in Nat, NEW tokens \in Nat
  PROVE  (supply + q) * r - (tokens + preciseMulCeil(r, q)) * PRECISE_UNIT
           <= supply * r - tokens * PRECISE_UNIT
<1> DEFINE k == preciseMulCeil(r, q)
<1>1. PRECISE_UNIT \in Nat  BY PreciseUnitAssumption
<1>2. k \in Nat /\ k * PRECISE_UNIT >= r * q  BY PreciseMulCeilBound
<1> HIDE DEF k
<1>3. /\ (supply + q) * r = supply * r + r * q
      /\ (tokens + k) * PRECISE_UNIT = tokens * PRECISE_UNIT + k * PRECISE_UNIT
      /\ supply * r \in Int /\ r * q \in Int
      /\ tokens * PRECISE_UNIT \in Int /\ k * PRECISE_UNIT \in Int
  BY <1>1, <1>2
<1>4. QED  BY <1>2, <1>3 DEF k

\* A payment rounded down is at most what the SetTokens burned promised.
LEMMA PaymentCovers ==
  ASSUME NEW supply \in Nat, NEW q \in Nat, NEW r \in Nat, NEW tokens \in Nat
  PROVE  (supply - q) * r - (tokens - preciseMul(q, r)) * PRECISE_UNIT
           <= supply * r - tokens * PRECISE_UNIT
<1> DEFINE k == preciseMul(q, r)
<1>1. PRECISE_UNIT \in Nat  BY PreciseUnitAssumption
<1>2. k \in Nat /\ k * PRECISE_UNIT <= q * r  BY PreciseMulBound
<1> HIDE DEF k
<1>3. /\ (supply - q) * r = supply * r - q * r
      /\ (tokens - k) * PRECISE_UNIT = tokens * PRECISE_UNIT - k * PRECISE_UNIT
      /\ supply * r \in Int /\ q * r \in Int
      /\ tokens * PRECISE_UNIT \in Int /\ k * PRECISE_UNIT \in Int
  BY <1>1, <1>2
<1>4. QED  BY <1>2, <1>3 DEF k

\* A share of at most one is at most the whole.
LEMMA ShareBound ==
  ASSUME NEW q \in Nat, NEW share \in 0 .. PRECISE_UNIT
  PROVE  preciseMul(q, share) \in Nat /\ preciseMul(q, share) <= q
<1> DEFINE amount == preciseMul(q, share)
<1>1. PRECISE_UNIT \in Nat \ {0} /\ share \in Nat /\ share <= PRECISE_UNIT
  BY PreciseUnitAssumption
<1>2. amount \in Nat /\ amount * PRECISE_UNIT <= q * share
  BY <1>1, PreciseMulBound
<1> HIDE DEF amount
<1>3. q * share <= q * PRECISE_UNIT  BY <1>1
<1>4. /\ q * share \in Int /\ amount * PRECISE_UNIT \in Int
      /\ q * PRECISE_UNIT \in Int
  BY <1>1, <1>2
<1>5. amount * PRECISE_UNIT <= q * PRECISE_UNIT  BY <1>2, <1>3, <1>4
<1>6. amount <= q  BY <1>1, <1>2, <1>5
<1>7. QED  BY <1>2, <1>6 DEF amount

\* What an accrual mints, and the multiplier it leaves: a share fee of the new
\* supply at most, and a multiplier that is lower exactly when fee is not zero.
LEMMA InflationBounds ==
  ASSUME NEW supply \in Nat, NEW m \in Nat \ {0}, NEW fee \in Nat,
         fee < PRECISE_UNIT
  PROVE  LET minted == (fee * supply) \div (PRECISE_UNIT - fee)
             n == preciseMulSigned(m, PRECISE_UNIT - fee)
         IN  /\ minted \in Nat
             /\ (supply + minted) * (PRECISE_UNIT - fee) <= supply * PRECISE_UNIT
             /\ minted * PRECISE_UNIT <= fee * (supply + minted)
             /\ n \in Nat /\ n * PRECISE_UNIT <= m * (PRECISE_UNIT - fee)
             /\ fee = 0 => minted = 0 /\ n = m
             /\ fee # 0 => n < m
<1> DEFINE D == PRECISE_UNIT - fee
           x == fee * supply
           y == m * D
           minted == x \div D
           n == y \div PRECISE_UNIT
<1>1. PRECISE_UNIT \in Nat \ {0} /\ D \in Nat \ {0}  BY PreciseUnitAssumption
<1>2. PRECISE_UNIT = D + fee  BY <1>1
<1> HIDE DEF D
<1>3. x \in Nat /\ y \in Nat  BY <1>1
<1>4. preciseMulSigned(m, D) = n
  <2>1. ASSUME NEW a \in Nat, NEW b \in Nat \ {0} PROVE sdiv(a, b) = a \div b
    BY DEF sdiv, abs
  <2>2. preciseMulSigned(m, D) = sdiv(y, PRECISE_UNIT)  BY DEF preciseMulSigned
  <2> HIDE DEF y
  <2>3. QED  BY <1>1, <1>3, <2>1, <2>2
<1> HIDE DEF x, y
<1>5. minted \in Nat /\ minted * D <= x  BY <1>1, <1>3, NatDivBounds
<1>6. n \in Nat /\ n * PRECISE_UNIT <= y  BY <1>1, <1>3, NatDivBounds
<1>7. fee = 0 => minted = 0 /\ n = m
  <2> SUFFICES ASSUME fee = 0 PROVE minted = 0 /\ n = m
    OBVIOUS
  <2>1. x = 0 /\ y = m * PRECISE_UNIT /\ D = PRECISE_UNIT
    BY <1>1, <1>2 DEF x, y
  <2>2. minted = 0  BY <1>1, <2>1
  <2>3. m * PRECISE_UNIT \in Int /\ m * PRECISE_UNIT < m * PRECISE_UNIT + PRECISE_UNIT
    BY <1>1
  <2>4. n = m  BY <1>1, <2>1, <2>3, DivUnique
  <2>5. QED  BY <2>2, <2>4
<1> HIDE DEF minted, n
<1>8. (supply + minted) * D <= supply * PRECISE_UNIT
  <2>1. (supply + minted) * D = supply * D + minted * D  BY <1>1, <1>5
  <2>2. supply * PRECISE_UNIT = supply * D + x  BY <1>1, <1>2 DEF x
  <2>3. supply * D \in Int /\ minted * D \in Int  BY <1>1, <1>5
  <2>4. QED  BY <1>3, <1>5, <2>1, <2>2, <2>3
<1>9. minted * PRECISE_UNIT <= fee * (supply + minted)
  <2>1. minted * PRECISE_UNIT = minted * D + fee * minted  BY <1>1, <1>2, <1>5
  <2>2. fee * (supply + minted) = x + fee * minted  BY <1>5 DEF x
  <2>3. minted * D \in Int /\ fee * minted \in Int  BY <1>1, <1>5
  <2>4. QED  BY <1>3, <1>5, <2>1, <2>2, <2>3
<1>10. fee # 0 => n < m
  <2> SUFFICES ASSUME fee # 0 PROVE n < m
    OBVIOUS
  <2>1. y < m * PRECISE_UNIT
    <3>1. m * PRECISE_UNIT = y + m * fee  BY <1>1, <1>2 DEF y
    <3>2. m * fee > 0 /\ m * fee \in Int  OBVIOUS
    <3>3. QED  BY <1>3, <3>1, <3>2
  <2>2. n * PRECISE_UNIT < m * PRECISE_UNIT
    <3>1. n * PRECISE_UNIT \in Int /\ m * PRECISE_UNIT \in Int  BY <1>1, <1>6
    <3>2. QED  BY <1>3, <1>6, <2>1, <3>1
  <2>3. QED  BY <1>1, <1>6, <2>2
<1>11. QED
  BY <1>4, <1>5, <1>6, <1>7, <1>8, <1>9, <1>10 DEF D, minted, n, x, y

-----------------------------------------------------------------------------
(* mathUtils.ts against PreciseUnitMath.sol. *)

\* BigNumber divides as the EVM does.
LEMMA DivisionsAgree ==
  ASSUME NEW a \in Int, NEW b \in Int
  PROVE  Tests!div(a, b) = sdiv(a, b)
BY DEF Tests!div, Tests!magnitude, sdiv, abs

\* Of natural numbers the quotient is the one TLA+ has.
LEMMA NaturalDivision ==
  ASSUME NEW a \in Nat, NEW b \in Nat \ {0}
  PROVE  Tests!div(a, b) = a \div b
BY DEF Tests!div, Tests!magnitude

\* The tests multiply and divide unsigned amounts exactly as the contracts do,
\* rounded down and rounded up.
THEOREM UnsignedArithmeticAgrees ==
  ASSUME NEW a \in Nat, NEW b \in Nat
  PROVE  /\ Tests!preciseMul(a, b) = preciseMul(a, b)
         /\ Tests!preciseMulCeil(a, b) = preciseMulCeil(a, b)
         /\ b # 0 => Tests!preciseDiv(a, b) = preciseDiv(a, b)
         /\ b # 0 => Tests!preciseDivCeil(a, b) = preciseDivCeil(a, b)
<1>1. PRECISE_UNIT \in Nat \ {0}  BY PreciseUnitAssumption
<1>2. Tests!preciseMul(a, b) = preciseMul(a, b)
  <2>1. a * b \in Nat  OBVIOUS
  <2>2. QED  BY <1>1, <2>1, NaturalDivision DEF Tests!preciseMul, preciseMul
<1>3. Tests!preciseMulCeil(a, b) = preciseMulCeil(a, b)
  <2>1. CASE a = 0 \/ b = 0
    BY <2>1 DEF Tests!preciseMulCeil, preciseMulCeil
  <2>2. CASE a # 0 /\ b # 0
    <3>1. a * b - 1 \in Nat  BY <2>2
    <3>2. QED
      BY <1>1, <2>2, <3>1, NaturalDivision DEF Tests!preciseMulCeil, preciseMulCeil
  <2>3. QED  BY <2>1, <2>2
<1>4. ASSUME b # 0 PROVE Tests!preciseDiv(a, b) = preciseDiv(a, b)
  <2>1. a * PRECISE_UNIT \in Nat  BY <1>1
  <2>2. QED  BY <1>4, <2>1, NaturalDivision DEF Tests!preciseDiv, preciseDiv
<1>5. ASSUME b # 0 PROVE Tests!preciseDivCeil(a, b) = preciseDivCeil(a, b)
  <2>1. CASE a = 0
    BY <2>1, <1>5 DEF Tests!preciseDivCeil, preciseDivCeil
  <2>2. CASE a # 0
    <3>1. a * PRECISE_UNIT - 1 \in Nat  BY <1>1, <2>2
    <3>2. a > 0  BY <2>2
    <3>3. QED
      BY <1>5, <2>2, <3>1, <3>2, NaturalDivision DEF Tests!preciseDivCeil, preciseDivCeil
  <2>3. QED  BY <2>1, <2>2
<1>6. QED  BY <1>2, <1>3, <1>4, <1>5

\* The tests' divDown floors like that of the contracts, for a debt as well.
THEOREM DivDownAgrees ==
  ASSUME NEW a \in Int, NEW b \in Nat \ {0}
  PROVE  Tests!divDown(a, b) = divDown(a, b)
<1> DEFINE q == abs(a) \div b
           r == abs(a) % b
<1>1. abs(a) \in Nat /\ abs(b) = b  BY DEF abs
<1>2. q \in Nat /\ r \in 0 .. b - 1 /\ abs(a) = q * b + r
  BY <1>1
<1>3. Tests!div(a, b) = sdiv(a, b)  BY DivisionsAgree
<1>4. CASE a >= 0
  BY <1>3, <1>4 DEF Tests!divDown, divDown, Tests!mod
<1>5. CASE a < 0
  <2>1. -a = q * b + r  BY <1>2, <1>5 DEF abs
  <2>2. Tests!mod(a, b) = 0 <=> r = 0
    <3> HIDE DEF q, r
    <3> DEFINE p == a \div b
               s == a % b
    <3>1. p \in Int /\ s \in 0 .. b - 1 /\ a = p * b + s  OBVIOUS
    <3> HIDE DEF p, s
    <3>2. (p + q) * b = -(r + s)
      <4>1. (p + q) * b = p * b + q * b  BY <1>2, <3>1
      <4>2. QED  BY <1>2, <2>1, <3>1, <4>1
    <3>3. CASE r = 0
      <4>1. (p + q) * b = -s /\ s < b  BY <1>2, <3>1, <3>2, <3>3
      <4>2. p + q = 0
        <5>1. p + q \in Int  BY <1>2, <3>1
        <5>2. QED  BY <3>1, <4>1, <5>1
      <4>3. QED  BY <3>1, <3>3, <4>1, <4>2 DEF Tests!mod, s
    <3>4. CASE s = 0
      <4>1. (p + q) * b = -r /\ r < b  BY <1>2, <3>1, <3>2, <3>4
      <4>2. p + q = 0
        <5>1. p + q \in Int  BY <1>2, <3>1
        <5>2. QED  BY <1>2, <4>1, <5>1
      <4>3. QED  BY <1>2, <3>4, <4>1, <4>2 DEF Tests!mod, s
    <3>5. QED  BY <3>3, <3>4 DEF Tests!mod, s
  <2>3. QED
    BY <1>1, <1>3, <1>5, <2>2 DEF Tests!divDown, divDown
<1>6. QED  BY <1>4, <1>5

-----------------------------------------------------------------------------
(* Sums over finite sets.  The library computes them by recursion over the *)
(* subsets; what follows is by induction on their cardinality.             *)

\* Induction, as a statement about the set of numbers of which something holds.
LEMMA NaturalsFromZero ==
  ASSUME NEW N \in SUBSET Nat, 0 \in N, \A n \in N : n + 1 \in N
  PROVE  N = Nat
<1> DEFINE R == OpToRel(<, Nat)
           T == Nat \ N
<1>1. \A x, y \in Nat : x < y => <<x, y>> \in R  BY DEF OpToRel
<1>2. IsWellFoundedOn(R, Nat)  BY NatLessThanWellFounded
<1> HIDE DEF R
<1>3. SUFFICES ASSUME T # {} PROVE FALSE  OBVIOUS
<1>4. T \subseteq Nat  OBVIOUS
<1>5. PICK m \in T : \A y \in T : ~ (<<y, m>> \in R)
  <2> HIDE DEF T
  <2>1. QED  BY <1>2, <1>3, <1>4, WFMin
<1>6. m \in Nat /\ m # 0 /\ m - 1 \in Nat /\ m - 1 < m  OBVIOUS
<1>7. <<m - 1, m>> \in R  BY <1>1, <1>6
<1>8. m - 1 \in N  BY <1>5, <1>6, <1>7
<1>9. (m - 1) + 1 = m  BY <1>6
<1>10. m \in N  BY <1>8, <1>9
<1>11. QED  BY <1>10

\* The subsets of a finite set, one element at a time.
LEMMA SubsetsOfFinite ==
  ASSUME NEW S, IsFiniteSet(S)
  PROVE  \A T \in SUBSET S :
           /\ IsFiniteSet(T) /\ Cardinality(T) \in Nat
           /\ Cardinality(T) = 0 <=> T = {}
           /\ \A x \in T : /\ T \ {x} \in SUBSET S
                           /\ Cardinality(T \ {x}) = Cardinality(T) - 1
<1> TAKE T \in SUBSET S
<1>1. IsFiniteSet(T) /\ Cardinality(T) \in Nat  BY FS_Subset, FS_CardinalityType
<1>2. Cardinality(T) = 0 <=> T = {}  BY <1>1, FS_EmptySet
<1>3. ASSUME NEW x \in T PROVE Cardinality(T \ {x}) = Cardinality(T) - 1
  BY <1>1, FS_RemoveElement
<1>4. QED  BY <1>1, <1>2, <1>3

\* The sum of the values of f over a finite set.
sumOver(f, S) == MapThenSumSet(LAMBDA s : f[s], S)

pick(T) == CHOOSE x \in T : TRUE

\* One level of the recursion that computes the sums of f over the subsets of S.
partial(f, g, T) == IF T = {} THEN 0 ELSE f[pick(T)] + g[T \ {pick(T)}]

Sums(f, S, g) == g = [T \in SUBSET S |-> partial(f, g, T)]

LEMMA SumIsChosen ==
  ASSUME NEW f, NEW S
  PROVE  sumOver(f, S) = (CHOOSE g : Sums(f, S, g))[S]
BY DEF sumOver, MapThenSumSet, MapThenFoldSet, Sums, partial, pick

\* Such a table of sums exists.
LEMMA SumsExist ==
  ASSUME NEW f, NEW S, IsFiniteSet(S)
  PROVE  \E g : Sums(f, S, g)
<1> DEFINE Upto(n) == {T \in SUBSET S : Cardinality(T) <= n}
           Has(n, g) == g = [T \in Upto(n) |-> partial(f, g, T)]
           N == {n \in Nat : \E g : Has(n, g)}
<1>1. \A T \in SUBSET S : IsFiniteSet(T) /\ Cardinality(T) \in Nat /\ Cardinality(T) <= Cardinality(S)
  BY FS_Subset, FS_CardinalityType
<1>2. \A T \in SUBSET S : T # {} =>
        /\ T \ {pick(T)} \in SUBSET S
        /\ Cardinality(T \ {pick(T)}) = Cardinality(T) - 1
  <2> TAKE T \in SUBSET S
  <2> HAVE T # {}
  <2>1. pick(T) \in T  BY DEF pick
  <2>2. QED  BY <1>1, <2>1, FS_RemoveElement
<1>3. 0 \in N
  <2> DEFINE g == [T \in Upto(0) |-> 0]
  <2>1. \A T \in Upto(0) : T = {}
    <3>1. \A T \in SUBSET S : Cardinality(T) <= 0 => Cardinality(T) = 0  BY <1>1
    <3>2. QED  BY <1>1, <3>1, FS_EmptySet
  <2>2. Has(0, g)  BY <2>1 DEF partial
  <2>3. QED  BY <2>2
<1>4. ASSUME NEW n \in N PROVE n + 1 \in N
  <2>1. PICK g : Has(n, g)  OBVIOUS
  <2> DEFINE h == [T \in Upto(n + 1) |-> IF T \in Upto(n) THEN g[T] ELSE partial(f, g, T)]
  <2>2. ASSUME NEW T \in Upto(n + 1) PROVE h[T] = partial(f, h, T)
    <3>1. CASE T = {}
      <4>1. T \in Upto(n)  BY <3>1, <1>1, FS_EmptySet
      <4>2. g[T] = 0  BY <4>1, <2>1, <3>1 DEF partial
      <4>3. QED  BY <4>1, <4>2, <3>1 DEF partial
    <3>2. CASE T # {}
      <4> DEFINE U == T \ {pick(T)}
      <4>1. U \in Upto(n)  BY <1>1, <1>2, <3>2
      <4>2. U \in Upto(n + 1)  BY <1>1, <4>1
      <4> HIDE DEF U
      <4>3. h[U] = g[U]  BY <4>1, <4>2
      <4>4. partial(f, h, T) = partial(f, g, T)  BY <4>3, <3>2 DEF partial, U
      <4>5. CASE T \in Upto(n)
        <5>1. g[T] = partial(f, g, T)  BY <2>1, <4>5
        <5>2. QED  BY <4>4, <4>5, <5>1
      <4>6. CASE T \notin Upto(n)  BY <4>4, <4>6
      <4>7. QED  BY <4>5, <4>6
    <3>3. QED  BY <3>1, <3>2
  <2>3. Has(n + 1, h)
    <3> HIDE DEF Upto
    <3>1. h = [T \in Upto(n + 1) |-> h[T]]  OBVIOUS
    <3> HIDE DEF h
    <3>2. QED  BY <2>2, <3>1
  <2> HIDE DEF h, Has
  <2>4. n + 1 \in Nat  OBVIOUS
  <2>5. QED  BY <2>3, <2>4
<1>5. N = Nat
  <2> HIDE DEF N
  <2>1. N \in SUBSET Nat  BY DEF N
  <2>2. QED  BY <1>3, <1>4, <2>1, NaturalsFromZero
<1>6. Cardinality(S) \in N  BY <1>5, FS_CardinalityType
<1>7. PICK g : Has(Cardinality(S), g)  BY <1>6
<1>8. Upto(Cardinality(S)) = SUBSET S  BY <1>1
<1>9. Sums(f, S, g)  BY <1>7, <1>8 DEF Sums
<1>10. QED  BY <1>9

\* Two such tables agree wherever both are defined.
LEMMA SumsAgree ==
  ASSUME NEW f, NEW S, IsFiniteSet(S), NEW R \in SUBSET S,
         NEW g, Sums(f, S, g), NEW h, Sums(f, R, h)
  PROVE  g[R] = h[R]
<1> DEFINE N == {n \in Nat : \A T \in SUBSET R : Cardinality(T) = n => g[T] = h[T]}
<1>1. \A T \in SUBSET S :
        /\ IsFiniteSet(T) /\ Cardinality(T) \in Nat
        /\ Cardinality(T) = 0 <=> T = {}
        /\ \A x \in T : T \ {x} \in SUBSET S /\ Cardinality(T \ {x}) = Cardinality(T) - 1
  BY SubsetsOfFinite
<1>2. \A T \in SUBSET R : g[T] = partial(f, g, T) /\ h[T] = partial(f, h, T)
  BY DEF Sums
<1>3. 0 \in N
  <2>1. \A T \in SUBSET R : Cardinality(T) = 0 => T = {}  BY <1>1
  <2>2. QED  BY <1>2, <2>1 DEF partial
<1>4. ASSUME NEW n \in N PROVE n + 1 \in N
  <2>1. SUFFICES ASSUME NEW T \in SUBSET R, Cardinality(T) = n + 1
                 PROVE  g[T] = h[T]
    OBVIOUS
  <2>2. T # {}  BY <1>1, <2>1
  <2> DEFINE U == T \ {pick(T)}
  <2>3. pick(T) \in T  BY <2>2 DEF pick
  <2>4. U \in SUBSET R /\ Cardinality(U) = n
    BY <1>1, <2>1, <2>3
  <2>5. g[U] = h[U]  BY <2>4
  <2>6. QED  BY <1>2, <2>2, <2>5 DEF partial
<1>5. N = Nat
  <2> HIDE DEF N
  <2>1. N \in SUBSET Nat  BY DEF N
  <2>2. QED  BY <1>3, <1>4, <2>1, NaturalsFromZero
<1>6. Cardinality(R) \in N  BY <1>1, <1>5
<1>7. QED  BY <1>6

\* The sum is what its recursion says.
LEMMA SumUnfolds ==
  ASSUME NEW f, NEW S, IsFiniteSet(S)
  PROVE  /\ S = {} => sumOver(f, S) = 0
         /\ S # {} => /\ pick(S) \in S
                      /\ sumOver(f, S) = f[pick(S)] + sumOver(f, S \ {pick(S)})
<1> DEFINE R == S \ {pick(S)}
<1>1. IsFiniteSet(R) /\ R \in SUBSET S  BY FS_Subset
<1>2. PICK g : Sums(f, S, g) /\ sumOver(f, S) = g[S]
  BY SumsExist, SumIsChosen
<1>3. PICK h : Sums(f, R, h) /\ sumOver(f, R) = h[R]
  <2> HIDE DEF R
  <2>1. QED  BY <1>1, SumsExist, SumIsChosen
<1>4. g[R] = h[R]
  <2> HIDE DEF R
  <2>1. QED  BY <1>1, <1>2, <1>3, SumsAgree
<1>5. g[S] = partial(f, g, S)  BY <1>2 DEF Sums
<1>6. S # {} => pick(S) \in S  BY DEF pick
<1>7. QED  BY <1>2, <1>3, <1>4, <1>5, <1>6 DEF partial

\* An integer combination of sums that is not negative for any element is not
\* negative as a whole.
LEMMA SumsCombine ==
  ASSUME NEW S, IsFiniteSet(S), NEW a \in Int, NEW b \in Int, NEW c \in Int,
         NEW f, NEW g, NEW h,
         \A s \in S : f[s] \in Int /\ g[s] \in Int /\ h[s] \in Int,
         \A s \in S : a * f[s] + b * g[s] + c * h[s] >= 0
  PROVE  /\ sumOver(f, S) \in Int /\ sumOver(g, S) \in Int /\ sumOver(h, S) \in Int
         /\ a * sumOver(f, S) + b * sumOver(g, S) + c * sumOver(h, S) >= 0
<1> DEFINE Good(T) ==
      /\ sumOver(f, T) \in Int /\ sumOver(g, T) \in Int /\ sumOver(h, T) \in Int
      /\ a * sumOver(f, T) + b * sumOver(g, T) + c * sumOver(h, T) >= 0
           N == {n \in Nat : \A T \in SUBSET S : Cardinality(T) = n => Good(T)}
<1>1. \A T \in SUBSET S :
        /\ IsFiniteSet(T) /\ Cardinality(T) \in Nat
        /\ Cardinality(T) = 0 <=> T = {}
        /\ \A x \in T : T \ {x} \in SUBSET S /\ Cardinality(T \ {x}) = Cardinality(T) - 1
  BY SubsetsOfFinite
<1>2. 0 \in N
  <2>1. \A T \in SUBSET S : Cardinality(T) = 0 => T = {}  BY <1>1
  <2>2. sumOver(f, {}) = 0 /\ sumOver(g, {}) = 0 /\ sumOver(h, {}) = 0
    BY FS_EmptySet, SumUnfolds
  <2>3. Good({})  BY <2>2
  <2>4. QED  BY <2>1, <2>3
<1>3. ASSUME NEW n \in N PROVE n + 1 \in N
  <2>1. SUFFICES ASSUME NEW T \in SUBSET S, Cardinality(T) = n + 1
                 PROVE  Good(T)
    OBVIOUS
  <2>2. T # {}  BY <1>1, <2>1
  <2> DEFINE x == pick(T)
             U == T \ {x}
  <2>3. x \in T  BY <2>2 DEF pick
  <2>4. U \in SUBSET S /\ Cardinality(U) = n
    BY <1>1, <2>1, <2>3
  <2>5. Good(U)  BY <2>4
  <2>6. /\ sumOver(f, T) = f[x] + sumOver(f, U)
        /\ sumOver(g, T) = g[x] + sumOver(g, U)
        /\ sumOver(h, T) = h[x] + sumOver(h, U)
    BY <1>1, <2>2, SumUnfolds
  <2> HIDE DEF x, U
  <2>7. a * f[x] + b * g[x] + c * h[x] >= 0
        /\ f[x] \in Int /\ g[x] \in Int /\ h[x] \in Int
    BY <2>3
  <2> DEFINE F == sumOver(f, U)  G == sumOver(g, U)  H == sumOver(h, U)
  <2> HIDE DEF F, G, H
  <2>8. F \in Int /\ G \in Int /\ H \in Int /\ a * F + b * G + c * H >= 0
    BY <2>5 DEF F, G, H
  <2>9. /\ a * (f[x] + F) = a * f[x] + a * F
        /\ b * (g[x] + G) = b * g[x] + b * G
        /\ c * (h[x] + H) = c * h[x] + c * H
    BY <2>7, <2>8
  <2>10. a * (f[x] + F) + b * (g[x] + G) + c * (h[x] + H) >= 0
    BY <2>7, <2>8, <2>9
  <2>11. QED  BY <2>6, <2>7, <2>8, <2>10 DEF F, G, H
<1>4. N = Nat
  <2> HIDE DEF N
  <2>1. N \in SUBSET Nat  BY DEF N
  <2>2. QED  BY <1>2, <1>3, <2>1, NaturalsFromZero
<1>5. Cardinality(S) \in N  BY <1>1, <1>4
<1>6. Good(S)  BY <1>5
<1>7. QED  BY <1>6

\* The sum of integers is an integer.
LEMMA SumType ==
  ASSUME NEW S, IsFiniteSet(S), NEW f, \A s \in S : f[s] \in Int
  PROVE  sumOver(f, S) \in Int
<1>1. \A s \in S : 0 * f[s] + 0 * f[s] + 0 * f[s] >= 0  OBVIOUS
<1>2. 0 \in Int  OBVIOUS
<1> DEFINE z == 0
<1> HIDE DEF z
<1>3. z \in Int /\ \A s \in S : z * f[s] + z * f[s] + z * f[s] >= 0  BY DEF z
<1>4. \A s \in S : f[s] \in Int /\ f[s] \in Int /\ f[s] \in Int  OBVIOUS
<1>5. QED  BY <1>3, <1>4, SumsCombine, ZenonT(60)

\* Equal values have equal sums.
LEMMA SumsEqual ==
  ASSUME NEW S, IsFiniteSet(S), NEW f, NEW g,
         \A s \in S : f[s] \in Int /\ g[s] = f[s]
  PROVE  sumOver(f, S) \in Int /\ sumOver(g, S) = sumOver(f, S)
<1> DEFINE z == 0  o == 1  m == -1
<1> HIDE DEF z, o, m
<1>1. z \in Int /\ o \in Int /\ m \in Int  BY DEF z, o, m
<1>2. /\ \A s \in S : f[s] \in Int /\ g[s] \in Int /\ f[s] \in Int
      /\ \A s \in S : g[s] \in Int /\ f[s] \in Int /\ g[s] \in Int
  OBVIOUS
<1>3. \A s \in S : o * f[s] + m * g[s] + z * f[s] >= 0  BY DEF z, o, m
<1>4. \A s \in S : m * f[s] + o * g[s] + z * f[s] >= 0  BY DEF z, o, m
<1>5. /\ sumOver(f, S) \in Int /\ sumOver(g, S) \in Int
      /\ o * sumOver(f, S) + m * sumOver(g, S) + z * sumOver(f, S) >= 0
  BY <1>1, <1>2, <1>3, SumsCombine, ZenonT(60)
<1>6. m * sumOver(f, S) + o * sumOver(g, S) + z * sumOver(f, S) >= 0
  BY <1>1, <1>2, <1>4, SumsCombine, ZenonT(60)
<1>7. QED  BY <1>5, <1>6 DEF z, o, m

\* Removing an element takes its value off the sum.
LEMMA SumRemoves ==
  ASSUME NEW S, IsFiniteSet(S), NEW f, \A s \in S : f[s] \in Int, NEW x \in S
  PROVE  sumOver(f, S \ {x}) \in Int /\ sumOver(f, S) = f[x] + sumOver(f, S \ {x})
<1> DEFINE Good(T) == \A y \in T : sumOver(f, T) = f[y] + sumOver(f, T \ {y})
           N == {n \in Nat : \A T \in SUBSET S : Cardinality(T) = n => Good(T)}
<1>1. \A T \in SUBSET S :
        /\ IsFiniteSet(T) /\ Cardinality(T) \in Nat
        /\ Cardinality(T) = 0 <=> T = {}
        /\ \A y \in T : T \ {y} \in SUBSET S /\ Cardinality(T \ {y}) = Cardinality(T) - 1
  BY SubsetsOfFinite
<1>2. \A T \in SUBSET S : sumOver(f, T) \in Int
  BY <1>1, SumType
<1>3. 0 \in N
  <2>1. \A T \in SUBSET S : Cardinality(T) = 0 => T = {}  BY <1>1
  <2>2. QED  BY <2>1
<1>4. ASSUME NEW n \in N PROVE n + 1 \in N
  <2>1. SUFFICES ASSUME NEW T \in SUBSET S, Cardinality(T) = n + 1, NEW y \in T
                 PROVE  sumOver(f, T) = f[y] + sumOver(f, T \ {y})
    OBVIOUS
  <2> DEFINE z == pick(T)
             U == T \ {z}
             V == T \ {y}
             W == U \ {y}
  <2>2. z \in T /\ sumOver(f, T) = f[z] + sumOver(f, U)
    <3>1. IsFiniteSet(T) /\ T # {}  BY <1>1, <2>1
    <3>2. QED  BY <3>1, SumUnfolds
  <2>3. CASE y = z  BY <2>2, <2>3
  <2>4. CASE y # z
    <3> HIDE DEF z
    <3>1. U \in SUBSET S /\ Cardinality(U) = n /\ y \in U
      <4>1. U \in SUBSET S /\ Cardinality(U) = Cardinality(T) - 1
        BY <1>1, <2>2
      <4>2. y \in U  BY <2>4
      <4>3. n \in Nat  OBVIOUS
      <4> HIDE DEF U
      <4>4. QED  BY <2>1, <4>1, <4>2, <4>3
    <3>2. sumOver(f, U) = f[y] + sumOver(f, W)
      <4> HIDE DEF U
      <4>1. QED  BY <3>1
    <3>3. V \in SUBSET S /\ Cardinality(V) = n /\ z \in V
      <4>1. V \in SUBSET S /\ Cardinality(V) = n  BY <1>1, <2>1
      <4>2. z \in V  BY <2>2, <2>4
      <4>3. QED  BY <4>1, <4>2
    <3>4. sumOver(f, V) = f[z] + sumOver(f, V \ {z})
      <4> HIDE DEF V
      <4>1. QED  BY <3>3
    <3>5. V \ {z} = W  OBVIOUS
    <3>6. /\ sumOver(f, T) \in Int /\ sumOver(f, U) \in Int
          /\ sumOver(f, V) \in Int /\ sumOver(f, W) \in Int
          /\ f[y] \in Int /\ f[z] \in Int
      BY <1>2, <2>2
    <3> HIDE DEF U, V, W
    <3>7. sumOver(f, V) = f[z] + sumOver(f, W)  BY <3>4, <3>5
    <3>8. sumOver(f, T) = f[z] + sumOver(f, U)  BY <2>2
    <3>9. sumOver(f, T) = f[y] + sumOver(f, V)
      BY <3>2, <3>6, <3>7, <3>8
    <3>10. QED  BY <3>9 DEF V
  <2>5. QED  BY <2>3, <2>4
<1>5. N = Nat
  <2> HIDE DEF N
  <2>1. N \in SUBSET Nat  BY DEF N
  <2>2. QED  BY <1>3, <1>4, <2>1, NaturalsFromZero
<1>6. Cardinality(S) \in N  BY <1>1, <1>5
<1>7. QED  BY <1>2, <1>6

\* Changing one value changes the sum by the difference.
LEMMA SumChangesOne ==
  ASSUME NEW S, IsFiniteSet(S), NEW f, \A s \in S : f[s] \in Int, NEW x \in S,
         NEW g, g[x] \in Int, \A s \in S \ {x} : g[s] = f[s]
  PROVE  /\ sumOver(f, S) \in Int /\ sumOver(g, S) \in Int
         /\ sumOver(g, S) - sumOver(f, S) = g[x] - f[x]
<1> DEFINE R == S \ {x}
<1>1. IsFiniteSet(R)  BY SubsetsOfFinite
<1>2. \A s \in S : g[s] \in Int  OBVIOUS
<1>3. sumOver(g, R) = sumOver(f, R) /\ sumOver(f, R) \in Int
  BY <1>1, SumsEqual
<1>4. sumOver(f, S) = f[x] + sumOver(f, R)  BY SumRemoves
<1>5. sumOver(g, S) = g[x] + sumOver(g, R)  BY <1>2, SumRemoves
<1> HIDE DEF R
<1>6. QED  BY <1>2, <1>3, <1>4, <1>5

\* A sum of natural numbers is one, and at least each of them.
LEMMA SumOfNaturals ==
  ASSUME NEW S, IsFiniteSet(S), NEW f, \A s \in S : f[s] \in Nat
  PROVE  /\ sumOver(f, S) \in Nat
         /\ \A x \in S : f[x] <= sumOver(f, S)
<1>1. ASSUME NEW R \in SUBSET S PROVE sumOver(f, R) \in Nat
  <2>1. IsFiniteSet(R)  BY SubsetsOfFinite
  <2> DEFINE z == 0  o == 1
  <2> HIDE DEF z, o
  <2>2. /\ z \in Int /\ o \in Int
        /\ \A s \in R : o * f[s] + z * f[s] + z * f[s] >= 0
    BY DEF z, o
  <2>3. \A s \in R : f[s] \in Int  OBVIOUS
  <2>4. /\ sumOver(f, R) \in Int
        /\ o * sumOver(f, R) + z * sumOver(f, R) + z * sumOver(f, R) >= 0
    BY <2>1, <2>2, <2>3, SumsCombine, ZenonT(60)
  <2>5. QED  BY <2>4 DEF z, o
<1>2. ASSUME NEW x \in S PROVE f[x] <= sumOver(f, S)
  <2>1. sumOver(f, S) = f[x] + sumOver(f, S \ {x})  BY SumRemoves
  <2>2. sumOver(f, S \ {x}) \in Nat  BY <1>1
  <2>3. QED  BY <2>1, <2>2
<1>3. QED  BY <1>1, <1>2

\* Terms that are all zero add up to zero.
LEMMA SumOfZeros ==
  ASSUME NEW S, IsFiniteSet(S), NEW f, \A s \in S : f[s] = 0
  PROVE  sumOver(f, S) = 0
<1> DEFINE z == 0  o == 1  m == -1
<1> HIDE DEF z, o, m
<1>1. z \in Int /\ o \in Int /\ m \in Int  BY DEF z, o, m
<1>2. \A s \in S : f[s] \in Int  OBVIOUS
<1>3. \A s \in S : o * f[s] + z * f[s] + z * f[s] >= 0  BY DEF z, o
<1>4. \A s \in S : m * f[s] + z * f[s] + z * f[s] >= 0  BY DEF z, m
<1>5. /\ sumOver(f, S) \in Int
      /\ o * sumOver(f, S) + z * sumOver(f, S) + z * sumOver(f, S) >= 0
  BY <1>1, <1>2, <1>3, SumsCombine, ZenonT(60)
<1>6. m * sumOver(f, S) + z * sumOver(f, S) + z * sumOver(f, S) >= 0
  BY <1>1, <1>2, <1>4, SumsCombine, ZenonT(60)
<1>7. QED  BY <1>5, <1>6 DEF z, o, m

\* The sum of sums, term by term.
LEMMA SumsAdd ==
  ASSUME NEW S, IsFiniteSet(S), NEW f, NEW g, NEW h,
         \A s \in S : f[s] \in Int /\ g[s] \in Int, \A s \in S : h[s] = f[s] + g[s]
  PROVE  /\ sumOver(f, S) \in Int /\ sumOver(g, S) \in Int
         /\ sumOver(h, S) = sumOver(f, S) + sumOver(g, S)
<1> DEFINE o == 1  m == -1
<1> HIDE DEF o, m
<1>1. o \in Int /\ m \in Int  BY DEF o, m
<1>2. \A s \in S : f[s] \in Int /\ g[s] \in Int /\ h[s] \in Int  OBVIOUS
<1>3. \A s \in S : o * f[s] + o * g[s] + m * h[s] >= 0  BY DEF o, m
<1>4. \A s \in S : m * f[s] + m * g[s] + o * h[s] >= 0  BY DEF o, m
<1>5. /\ sumOver(f, S) \in Int /\ sumOver(g, S) \in Int /\ sumOver(h, S) \in Int
      /\ o * sumOver(f, S) + o * sumOver(g, S) + m * sumOver(h, S) >= 0
  BY <1>1, <1>2, <1>3, SumsCombine, ZenonT(60)
<1>6. m * sumOver(f, S) + m * sumOver(g, S) + o * sumOver(h, S) >= 0
  BY <1>1, <1>2, <1>4, SumsCombine, ZenonT(60)
<1>7. QED  BY <1>5, <1>6 DEF o, m

\* Function g is f with d added to its term x.
adds(f, g, x, d) == g = [f EXCEPT ![x] = @ + d]

\* Adding to one term of a function adds to the sum.
LEMMA AddingMovesSum ==
  ASSUME NEW S, IsFiniteSet(S), NEW f \in [S -> Int], NEW x \in S, NEW d \in Int,
         NEW g, adds(f, g, x, d)
  PROVE  /\ g \in [S -> Int]
         /\ sumOver(f, S) \in Int
         /\ sumOver(g, S) = sumOver(f, S) + d
<1>1. g \in [S -> Int]  BY DEF adds
<1>2. g[x] = f[x] + d  BY DEF adds
<1>3. \A s \in S \ {x} : g[s] = f[s]  BY DEF adds
<1>4. \A s \in S : f[s] \in Int  OBVIOUS
<1>5. g[x] \in Int  BY <1>2
<1>6. /\ sumOver(f, S) \in Int /\ sumOver(g, S) \in Int
      /\ sumOver(g, S) - sumOver(f, S) = g[x] - f[x]
  BY <1>3, <1>4, <1>5, SumChangesOne
<1>7. f[x] \in Int  BY <1>4
<1>8. sumOver(g, S) = sumOver(f, S) + d  BY <1>2, <1>6, <1>7
<1>9. QED  BY <1>1, <1>6, <1>8

-----------------------------------------------------------------------------
(* Position.sol. *)

\* The inductive invariant of a position record.  Lists without repetitions
\* are what removeStorage needs, a positive multiplier what a unit needs to
\* have a type and a sign.
BookInv(p) ==
  /\ p \in PositionState
  /\ p.positionMultiplier > 0
  /\ IsInjective(p.components)
  /\ \A c \in Component : IsInjective(p.externalPositionModules[c])
  /\ \A c \in Component, m \in PositionModule :
       /\ isExternalPositionModule(p, c, m) <=> p.externalUnit[c][m] # 0
       /\ p.externalData[c][m] => isExternalPositionModule(p, c, m)

\* A unit is stored as an integer, and as zero only if it is zero or the
\* conversion is refused: debt is rounded away from zero.
LEMMA StoredUnit ==
  ASSUME NEW p, p.positionMultiplier \in Int, p.positionMultiplier > 0,
         NEW u \in Int
  PROVE  /\ _convertRealToVirtualUnit(p, u) \in Int
         /\ convertOk(p, u) /\ u # 0 => _convertRealToVirtualUnit(p, u) # 0
<1> DEFINE m == p.positionMultiplier
           v == _convertRealToVirtualUnit(p, u)
<1>1. PRECISE_UNIT \in Nat \ {0}  BY PreciseUnitAssumption
<1>2. u * PRECISE_UNIT \in Int /\ m \in Nat \ {0}  BY <1>1
<1>3. v = (u * PRECISE_UNIT) \div m
  BY <1>2, DivDownFloors DEF _convertRealToVirtualUnit, conservativePreciseDiv
<1>4. v \in Int /\ v * m <= u * PRECISE_UNIT  BY <1>2, <1>3, DivBounds
<1>5. ASSUME convertOk(p, u), u # 0 PROVE v # 0
  <2>1. CASE u > 0  BY <1>5, <2>1 DEF convertOk
  <2>2. CASE u < 0
    <3>1. u * PRECISE_UNIT < 0  BY <1>1, <2>2
    <3>2. v # 0  BY <1>2, <1>4, <3>1
    <3>3. QED  BY <3>2
  <2>3. QED  BY <1>5, <2>1, <2>2
<1>6. QED  BY <1>4, <1>5

-----------------------------------------------------------------------------
(* The edits of the library. *)

\* Listing and delisting a component touches the component list alone, which
\* the requires of the SetToken keep free of repetitions.
LEMMA ListingKeepsBook ==
  ASSUME NEW p, BookInv(p), NEW c \in Component
  PROVE  /\ addComponentOk(p, c) => BookInv(addComponent(p, c))
         /\ removeComponentOk(p, c) => BookInv(removeComponent(p, c))
<1> USE DEF BookInv, PositionState
<1>1. ASSUME addComponentOk(p, c) PROVE BookInv(addComponent(p, c))
  <2>1. /\ Append(p.components, c) \in Seq(Component)
        /\ IsInjective(Append(p.components, c))
    BY <1>1, PushKeepsDistinct DEF addComponentOk, isComponent
  <2>2. QED  BY <2>1 DEF addComponent, isExternalPositionModule
<1>2. ASSUME removeComponentOk(p, c) PROVE BookInv(removeComponent(p, c))
  <2>1. /\ removeStorage(p.components, c) \in Seq(Component)
        /\ IsInjective(removeStorage(p.components, c))
    BY <1>2, RemoveStorageKeepsDistinct DEF removeComponentOk, isComponent
  <2>2. QED  BY <2>1 DEF removeComponent, isExternalPositionModule
<1>3. QED  BY <1>1, <1>2

\* editDefaultPosition keeps the invariant.
LEMMA DefaultEditKeepsBook ==
  ASSUME NEW p, BookInv(p), NEW c \in Component, NEW u \in Nat,
         editDefaultPositionOk(p, c, u)
  PROVE  BookInv(editDefaultPosition(p, c, u))
<1> DEFINE q == IF listsComponent(p, c, u) THEN addComponent(p, c)
                ELSE IF delistsComponent(p, c, u) THEN removeComponent(p, c)
                ELSE p
<1>1. BookInv(q)  BY ListingKeepsBook DEF editDefaultPositionOk
<1>2. editDefaultPosition(p, c, u) = editDefaultPositionUnit(q, c, u)
  BY DEF editDefaultPosition
<1> HIDE DEF q
<1>3. q \in PositionState /\ q.positionMultiplier \in Int /\ q.positionMultiplier > 0
  BY <1>1 DEF BookInv, PositionState
<1> DEFINE v == _convertRealToVirtualUnit(q, u)
           units == [q.virtualUnit EXCEPT ![c] = v]
<1>4. u \in Int  OBVIOUS
<1>5. v \in Int  BY <1>3, <1>4, StoredUnit
<1> HIDE DEF v
<1>6. units \in [Component -> Int]  BY <1>3, <1>5 DEF PositionState
<1>7. editDefaultPosition(p, c, u) = [q EXCEPT !.virtualUnit = units]
  BY <1>2, <1>3 DEF editDefaultPositionUnit, v, PositionState
<1> HIDE DEF units
<1>8. QED
  BY <1>1, <1>3, <1>6, <1>7 DEF BookInv, PositionState, isExternalPositionModule

\* Storing a unit that is not zero, with its data, for a module that is listed
\* or becomes so.
LEMMA OpeningKeepsBook ==
  ASSUME NEW p, BookInv(p), NEW c \in Component, NEW m \in PositionModule,
         NEW u \in Int, u # 0, convertOk(p, u), NEW data \in BOOLEAN
  PROVE  BookInv(editExternalPosition(p, c, m, u, data))
<1> DEFINE r == IF isComponent(p, c) THEN p ELSE addComponent(p, c)
           L == IF isExternalPositionModule(r, c, m) THEN r.externalPositionModules[c]
                ELSE Append(r.externalPositionModules[c], m)
           v == _convertRealToVirtualUnit(p, u)
           lists == [r.externalPositionModules EXCEPT ![c] = L]
           units == [r.externalUnit EXCEPT ![c][m] = v]
           datas == [r.externalData EXCEPT ![c][m] = data]
<1>1. BookInv(r) /\ r.positionMultiplier = p.positionMultiplier
  <2>1. BookInv(r)  BY ListingKeepsBook DEF addComponentOk
  <2>2. p \in PositionState  BY DEF BookInv
  <2>3. addComponent(p, c).positionMultiplier = p.positionMultiplier
    BY <2>2 DEF addComponent, PositionState
  <2>4. QED  BY <2>1, <2>3
<1>2. v \in Int /\ v # 0  BY StoredUnit DEF BookInv, PositionState
<1> HIDE DEF r, v
<1>3. /\ L \in Seq(PositionModule) /\ IsInjective(L)
      /\ ToSet(L) = ToSet(r.externalPositionModules[c]) \cup {m}
  <2>1. /\ r.externalPositionModules[c] \in Seq(PositionModule)
        /\ IsInjective(r.externalPositionModules[c])
    BY <1>1 DEF BookInv, PositionState
  <2>2. CASE isExternalPositionModule(r, c, m)
    BY <2>1, <2>2, ContainsIsMembership DEF isExternalPositionModule
  <2>3. CASE ~isExternalPositionModule(r, c, m)
    BY <2>1, <2>3, PushKeepsDistinct DEF isExternalPositionModule
  <2>4. QED  BY <2>2, <2>3
<1>4. r \in PositionState /\ r = [r EXCEPT !.externalPositionModules = @]
  BY <1>1 DEF BookInv, PositionState
<1>5. openExternalPosition(p, c, m) = [r EXCEPT !.externalPositionModules = lists]
  BY <1>4 DEF openExternalPosition, addExternalPositionModule, r, PositionState
<1> HIDE DEF L
<1>6. editExternalPosition(p, c, m, u, data)
        = [r EXCEPT !.externalPositionModules = lists, !.externalUnit = units,
                    !.externalData = datas]
  BY <1>1, <1>4, <1>5 DEF editExternalPosition, editExternalPositionUnit, v,
     editExternalPositionData, _convertRealToVirtualUnit, PositionState
<1>7. /\ lists \in [Component -> Seq(PositionModule)]
      /\ units \in [Component -> [PositionModule -> Int]]
      /\ datas \in [Component -> [PositionModule -> BOOLEAN]]
  BY <1>2, <1>3, <1>4 DEF PositionState
<1>8. \A d \in Component : IsInjective(lists[d])
  BY <1>1, <1>3 DEF BookInv, PositionState
<1>9. \A d \in Component, n \in PositionModule :
        /\ contains(lists[d], n) <=> units[d][n] # 0
        /\ datas[d][n] => contains(lists[d], n)
  <2> SUFFICES ASSUME NEW d \in Component, NEW n \in PositionModule
               PROVE  /\ contains(lists[d], n) <=> units[d][n] # 0
                      /\ datas[d][n] => contains(lists[d], n)
    OBVIOUS
  <2> DEFINE A == r.externalPositionModules[d]
  <2>1. /\ contains(A, n) <=> r.externalUnit[d][n] # 0
        /\ r.externalData[d][n] => contains(A, n)
    BY <1>1 DEF BookInv, isExternalPositionModule
  <2>2. /\ lists[d] = IF d = c THEN L ELSE A
        /\ units[d][n] = IF d = c /\ n = m THEN v ELSE r.externalUnit[d][n]
        /\ datas[d][n] = IF d = c /\ n = m THEN data ELSE r.externalData[d][n]
    BY <1>4 DEF PositionState
  <2>3. d = c => (contains(L, n) <=> contains(A, n) \/ n = m)
    BY <1>3, ContainsIsMembership
  <2> HIDE DEF lists, units, datas, A
  <2>4. QED  BY <1>2, <2>1, <2>2, <2>3
<1> HIDE DEF lists, units, datas
<1>10. QED
  BY <1>1, <1>4, <1>6, <1>7, <1>8, <1>9
  DEF BookInv, PositionState, isExternalPositionModule

\* Setting a unit to zero closes the position, list, unit and data together.
LEMMA ClosingKeepsBook ==
  ASSUME NEW p, BookInv(p), NEW c \in Component, NEW m \in PositionModule,
         editExternalPositionOk(p, c, m, 0, FALSE)
  PROVE  BookInv(editExternalPosition(p, c, m, 0, FALSE))
<1>1. CASE getExternalPositionRealUnit(p, c, m) = 0
  BY <1>1 DEF editExternalPosition
<1>2. CASE getExternalPositionRealUnit(p, c, m) # 0
  <2> DEFINE r == IF isLastPosition(p, c) THEN removeComponent(p, c) ELSE p
             L == removeStorage(r.externalPositionModules[c], m)
             lists == [r.externalPositionModules EXCEPT ![c] = L]
             units == [r.externalUnit EXCEPT ![c][m] = 0]
             datas == [r.externalData EXCEPT ![c][m] = FALSE]
  <2>1. BookInv(r)
    BY <1>2, ListingKeepsBook DEF editExternalPositionOk
  <2>2. contains(r.externalPositionModules[c], m)
    BY <1>2 DEF editExternalPositionOk, removeExternalPositionModuleOk,
       isExternalPositionModule, removeComponent, BookInv, PositionState
  <2>3. editExternalPosition(p, c, m, 0, FALSE) = removeExternalPositionModule(r, c, m)
    BY <1>2 DEF editExternalPosition, closeExternalPosition
  <2> HIDE DEF r
  <2>4. /\ L \in Seq(PositionModule) /\ IsInjective(L)
        /\ ToSet(L) = ToSet(r.externalPositionModules[c]) \ {m}
    BY <2>1, <2>2, RemoveStorageKeepsDistinct DEF BookInv, PositionState
  <2>5. r \in PositionState  BY <2>1 DEF BookInv
  <2>6. removeExternalPositionModule(r, c, m)
          = [r EXCEPT !.externalPositionModules = lists, !.externalUnit = units,
                      !.externalData = datas]
    BY <2>5 DEF removeExternalPositionModule, PositionState
  <2> HIDE DEF L
  <2>7. /\ lists \in [Component -> Seq(PositionModule)]
        /\ units \in [Component -> [PositionModule -> Int]]
        /\ datas \in [Component -> [PositionModule -> BOOLEAN]]
    BY <2>4, <2>5 DEF PositionState
  <2>8. \A d \in Component : IsInjective(lists[d])
    BY <2>1, <2>4 DEF BookInv, PositionState
  <2>9. \A d \in Component, n \in PositionModule :
          /\ contains(lists[d], n) <=> units[d][n] # 0
          /\ datas[d][n] => contains(lists[d], n)
    BY <2>1, <2>4, <2>5, ContainsIsMembership
    DEF BookInv, PositionState, isExternalPositionModule
  <2> HIDE DEF lists, units, datas
  <2> DEFINE e == editExternalPosition(p, c, m, 0, FALSE)
  <2>10. e = [r EXCEPT !.externalPositionModules = lists, !.externalUnit = units,
                       !.externalData = datas]
    BY <2>3, <2>6
  <2> HIDE DEF e
  <2>11. BookInv(e)
    BY <2>1, <2>5, <2>7, <2>8, <2>9, <2>10
    DEF BookInv, PositionState, isExternalPositionModule
  <2>12. QED  BY <2>11 DEF e
<1>3. QED  BY <1>1, <1>2

\* A multiplier that passes validation is positive.
LEMMA RepricingKeepsBook ==
  ASSUME NEW p, BookInv(p), NEW newMultiplier \in Int,
         _validateNewMultiplier(p, newMultiplier)
  PROVE  BookInv(editPositionMultiplier(p, newMultiplier))
<1>1. PICK u \in positionUnits(p) : conservativePreciseMul(u, newMultiplier) > 0
  BY DEF _validateNewMultiplier
<1>2. u \in Int /\ u > 0
  <2>1. \A c \in ToSet(p.components) : c \in Component
    BY DEF BookInv, PositionState, ToSet
  <2>2. \A c \in Component : \A m \in ToSet(p.externalPositionModules[c]) :
          m \in PositionModule
    BY DEF BookInv, PositionState, ToSet
  <2>3. QED  BY <2>1, <2>2 DEF positionUnits, abs, BookInv, PositionState
<1>3. newMultiplier > 0  BY <1>1, <1>2, PositiveProduct
<1>4. QED
  BY <1>3 DEF editPositionMultiplier, BookInv, PositionState, isExternalPositionModule

-----------------------------------------------------------------------------

\* A SetToken starts with distinct components, at a scale of one, and with no
\* external position.
LEMMA NewKeepsBook ==
  ASSUME NEW L \in Seq(Component), IsInjective(L), NEW U,
         \A d \in Component : contains(L, d) => U[indexOf(L, d)] \in Int
  PROVE  BookInv(newPositions(L, U))
<1> DEFINE unit(d) == IF contains(L, d) THEN U[indexOf(L, d)] ELSE 0
           units == [d \in Component |-> unit(d)]
           none == << >>
           lists == [d \in Component |-> none]
           p == newPositions(L, U)
<1>1. PRECISE_UNIT \in Int /\ PRECISE_UNIT > 0  BY PreciseUnitAssumption
<1>2. none \in Seq(PositionModule) /\ IsInjective(none)
      /\ \A m : ~contains(none, m)
  BY DEF IsInjective, contains
<1>3. \A d \in Component : unit(d) \in Int  OBVIOUS
<1> HIDE DEF unit
<1>4. units \in [Component -> Int]  BY <1>3
<1>5. p = [components |-> L, virtualUnit |-> units,
           externalPositionModules |-> lists,
           externalUnit |-> [d \in Component |-> [m \in PositionModule |-> 0]],
           externalData |-> [d \in Component |-> [m \in PositionModule |-> FALSE]],
           positionMultiplier |-> PRECISE_UNIT]
  BY Zenon DEF newPositions, unit
<1> HIDE DEF units, none
<1>6. lists \in [Component -> Seq(PositionModule)]  BY <1>2
<1>7. \A d \in Component : lists[d] = none  OBVIOUS
<1> HIDE DEF lists, p
<1>8. p \in PositionState
  BY <1>1, <1>4, <1>5, <1>6 DEF PositionState
<1>9. \A d \in Component, m \in PositionModule :
        /\ ~isExternalPositionModule(p, d, m)
        /\ p.externalUnit[d][m] = 0 /\ ~p.externalData[d][m]
  BY <1>2, <1>5, <1>7 DEF isExternalPositionModule
<1>10. BookInv(p)
  BY <1>1, <1>2, <1>5, <1>7, <1>8, <1>9 DEF BookInv
<1>11. QED  BY <1>10 DEF p

-----------------------------------------------------------------------------
(* What the component list tells. *)

\* No default unit is negative, none that is stored reads as zero, and a component
\* is listed exactly while it has a position.
Told(p) ==
  \A c \in Component :
    /\ p.virtualUnit[c] >= 0
    /\ p.virtualUnit[c] > 0 => getDefaultPositionRealUnit(p, c) > 0
    /\ isComponent(p, c) <=>
         p.virtualUnit[c] > 0 \/ p.externalPositionModules[c] # << >>

\* A unit is read back as the product rounded down.
LEMMA UnitReads ==
  ASSUME NEW m \in Nat \ {0}, NEW v \in Nat
  PROVE  /\ conservativePreciseMul(v, m) = (v * m) \div PRECISE_UNIT
         /\ conservativePreciseMul(v, m) \in Nat
         /\ v = 0 => conservativePreciseMul(v, m) = 0
<1> DEFINE n == v * m
<1>1. PRECISE_UNIT \in Nat \ {0} /\ n \in Nat  BY PreciseUnitAssumption
<1>2. v = 0 => n = 0  OBVIOUS
<1>3. conservativePreciseMul(v, m) = divDown(n, PRECISE_UNIT)
  BY DEF conservativePreciseMul
<1> HIDE DEF n
<1>4. divDown(n, PRECISE_UNIT) = n \div PRECISE_UNIT  BY <1>1, DivDownFloors
<1>5. n \div PRECISE_UNIT \in Nat /\ (n = 0 => n \div PRECISE_UNIT = 0)
  BY <1>1
<1>6. QED  BY <1>2, <1>3, <1>4, <1>5 DEF n

\* What is stored for a unit, debt included, reads back as at most that unit,
\* and as the same at a scale of one.
LEMMA StoredReads ==
  ASSUME NEW p, p.positionMultiplier \in Int, p.positionMultiplier > 0,
         NEW u \in Int
  PROVE  LET m == p.positionMultiplier
             v == _convertRealToVirtualUnit(p, u)
             r == conservativePreciseMul(v, m)
         IN  /\ v \in Int /\ r \in Int /\ r <= u
             /\ m = PRECISE_UNIT => v = u /\ r = u
<1> DEFINE m == p.positionMultiplier
           P == PRECISE_UNIT
           n == u * P
           v == _convertRealToVirtualUnit(p, u)
           w == v * m
           r == conservativePreciseMul(v, m)
<1>1. P \in Nat \ {0} /\ m \in Nat \ {0} /\ n \in Int  BY PreciseUnitAssumption
<1>2. v = divDown(n, m)
  BY DEF _convertRealToVirtualUnit, conservativePreciseDiv
<1>3. r = divDown(w, P)  BY DEF conservativePreciseMul
<1> HIDE DEF n, m, P, v, r
<1>4. v = n \div m  BY <1>1, <1>2, DivDownFloors
<1>5. v \in Int /\ v * m <= n  BY <1>1, <1>4, DivBounds
<1>6. w \in Int  BY <1>1, <1>5
<1> HIDE DEF w
<1>7. r = w \div P  BY <1>1, <1>3, <1>6, DivDownFloors
<1>8. r \in Int /\ r * P <= w  BY <1>1, <1>6, <1>7, DivBounds
<1>9. r <= u
  <2>1. r * P <= u * P /\ r * P \in Int /\ u * P \in Int
    BY <1>1, <1>5, <1>8 DEF n, w
  <2>2. QED  BY <1>1, <1>8, <2>1
<1>10. ASSUME m = P PROVE v = u /\ r = u
  <2>1. u * P \in Int /\ u * P <= n /\ n < u * P + P  BY <1>1 DEF n
  <2>2. v = u  BY <1>1, <1>4, <1>10, <2>1, DivUnique
  <2>3. u * P <= w /\ w < u * P + P  BY <1>10, <2>1, <2>2 DEF n, w
  <2>4. r = u  BY <1>1, <1>6, <1>7, <2>3, DivUnique
  <2>5. QED  BY <2>2, <2>4
<1>11. QED  BY <1>5, <1>8, <1>9, <1>10 DEF v, r, m, P

\* A default unit is stored as a natural number, as zero only if it is zero.
LEMMA StoredDefault ==
  ASSUME NEW p, p.positionMultiplier \in Int, p.positionMultiplier > 0,
         NEW u \in Nat, convertOk(p, u)
  PROVE  LET v == _convertRealToVirtualUnit(p, u)
         IN  v \in Nat /\ (u = 0 => v = 0) /\ (u > 0 => v > 0)
<1> DEFINE m == p.positionMultiplier
           n == u * PRECISE_UNIT
           v == _convertRealToVirtualUnit(p, u)
<1>1. PRECISE_UNIT \in Nat \ {0} /\ m \in Nat \ {0}  BY PreciseUnitAssumption
<1>2. n \in Nat /\ n \in Int /\ (u = 0 => n = 0)  BY <1>1
<1>3. v = divDown(n, m)
  BY DEF _convertRealToVirtualUnit, conservativePreciseDiv
<1>4. u > 0 => v # 0  BY DEF convertOk
<1> HIDE DEF n, m, v
<1>5. v = n \div m  BY <1>1, <1>2, <1>3, DivDownFloors
<1>6. v \in Nat /\ (n = 0 => v = 0)  BY <1>1, <1>2, <1>5, NatDivBounds
<1>7. QED  BY <1>2, <1>4, <1>6 DEF v

\* A unit that is stored is still worth something when it is read.
Survives(p, u) ==
  u > 0 => conservativePreciseMul(_convertRealToVirtualUnit(p, u),
                                  p.positionMultiplier) > 0

\* At any multiplier a unit of two or more does.
LEMMA CoarseSurvives ==
  ASSUME NEW p, p.positionMultiplier \in Int, p.positionMultiplier > 0,
         NEW u \in Nat, u # 1, convertOk(p, u)
  PROVE  Survives(p, u)
<1> SUFFICES ASSUME u > 0
             PROVE  conservativePreciseMul(_convertRealToVirtualUnit(p, u),
                                           p.positionMultiplier) > 0
  BY DEF Survives
<1> DEFINE m == p.positionMultiplier
           P == PRECISE_UNIT
           n == u * P
           v == _convertRealToVirtualUnit(p, u)
           x == v * m
<1>1. P \in Nat \ {0} /\ m \in Nat \ {0}  BY PreciseUnitAssumption
<1>2. n \in Nat /\ n >= P + P
  <2>1. u - 2 \in Nat /\ n \in Nat  BY <1>1
  <2>2. (u - 2) * P >= 0 /\ (u - 2) * P \in Int  BY <1>1, <2>1
  <2>3. n = (u - 2) * P + (P + P)  BY <1>1, <2>1
  <2>4. QED  BY <1>1, <2>1, <2>2, <2>3
<1>3. v = divDown(n, m)
  BY DEF _convertRealToVirtualUnit, conservativePreciseDiv
<1>4. v \in Nat /\ v > 0  BY <1>1, StoredDefault
<1> HIDE DEF n, m, P, v
<1>5. v = n \div m
  <2>1. n \in Int /\ m \in Nat \ {0}  BY <1>1, <1>2
  <2>2. divDown(n, m) = n \div m  BY <2>1, DivDownFloors
  <2>3. QED  BY <1>3, <2>2
<1>6. n < v * m + m  BY <1>1, <1>2, <1>5, NatDivBounds
<1>7. x \in Nat /\ x >= m  BY <1>1, <1>4
<1> HIDE DEF x
<1>8. x >= P  BY <1>1, <1>2, <1>6, <1>7 DEF x
<1>9. x \div P > 0
  <2>1. x \div P \in Nat /\ x < (x \div P) * P + P  BY <1>1, <1>7, NatDivBounds
  <2>2. x \div P = 0 => (x \div P) * P = 0  BY <1>1
  <2>3. QED  BY <1>1, <1>7, <1>8, <2>1, <2>2
<1>10. conservativePreciseMul(v, m) = x \div P
  BY <1>1, <1>4, UnitReads DEF x, P
<1>11. QED  BY <1>9, <1>10 DEF v, m

\* At a scale of one every unit does.
LEMMA WholeSurvives ==
  ASSUME NEW p, p.positionMultiplier = PRECISE_UNIT, NEW u \in Nat
  PROVE  Survives(p, u)
BY StoredReads, PreciseUnitAssumption DEF Survives

\* The default unit of a component, read.
LEMMA DefaultReads ==
  ASSUME NEW p, BookInv(p), Told(p), NEW c \in Component
  PROVE  /\ getDefaultPositionRealUnit(p, c) \in Nat
         /\ getDefaultPositionRealUnit(p, c) = 0 <=> p.virtualUnit[c] = 0
<1>1. /\ p.positionMultiplier \in Nat \ {0} /\ p.virtualUnit[c] \in Nat
      /\ p.virtualUnit[c] > 0 => getDefaultPositionRealUnit(p, c) > 0
  BY DEF BookInv, PositionState, Told
<1>2. getDefaultPositionRealUnit(p, c)
        = conservativePreciseMul(p.virtualUnit[c], p.positionMultiplier)
  BY DEF getDefaultPositionRealUnit, _convertVirtualToRealUnit
<1>3. /\ getDefaultPositionRealUnit(p, c) \in Nat
      /\ p.virtualUnit[c] = 0 => getDefaultPositionRealUnit(p, c) = 0
  BY <1>1, <1>2, UnitReads
<1>4. QED  BY <1>1, <1>3

\* What listing and delisting a component changes, and what it leaves alone.
LEMMA ListingTells ==
  ASSUME NEW p, BookInv(p), NEW c \in Component, NEW q,
         \/ addComponentOk(p, c) /\ q = addComponent(p, c)
         \/ removeComponentOk(p, c) /\ q = removeComponent(p, c)
  PROVE  /\ q.virtualUnit = p.virtualUnit
         /\ q.externalPositionModules = p.externalPositionModules
         /\ q.externalUnit = p.externalUnit
         /\ q.positionMultiplier = p.positionMultiplier
         /\ \A d \in Component \ {c} : isComponent(q, d) <=> isComponent(p, d)
         /\ isComponent(q, c) <=> ~isComponent(p, c)
<1>1. p \in PositionState  BY DEF BookInv
<1>2. p.components \in Seq(Component) /\ IsInjective(p.components)
  BY DEF BookInv, PositionState
<1>3. CASE addComponentOk(p, c) /\ q = addComponent(p, c)
  <2>1. ToSet(Append(p.components, c)) = ToSet(p.components) \cup {c}
    BY <1>2, <1>3, PushKeepsDistinct DEF addComponentOk, isComponent
  <2>2. q.components = Append(p.components, c)
    BY <1>1, <1>3 DEF addComponent, PositionState
  <2>3. \A d : isComponent(q, d) <=> isComponent(p, d) \/ d = c
    BY <2>1, <2>2, ContainsIsMembership DEF isComponent
  <2>4. QED
    BY <1>1, <1>3, <2>3 DEF addComponent, addComponentOk, PositionState
<1>4. CASE removeComponentOk(p, c) /\ q = removeComponent(p, c)
  <2>1. ToSet(removeStorage(p.components, c)) = ToSet(p.components) \ {c}
    BY <1>2, <1>4, RemoveStorageKeepsDistinct DEF removeComponentOk, isComponent
  <2>2. q.components = removeStorage(p.components, c)
    BY <1>1, <1>4 DEF removeComponent, PositionState
  <2>3. \A d : isComponent(q, d) <=> isComponent(p, d) /\ d # c
    BY <2>1, <2>2, ContainsIsMembership DEF isComponent
  <2>4. QED
    BY <1>1, <1>4, <2>3 DEF removeComponent, removeComponentOk, PositionState
<1>5. QED  BY <1>3, <1>4

\* What setting a default unit changes, and what it leaves alone.
DefaultEdited(p, c, u, e) ==
  /\ e.virtualUnit =
       [p.virtualUnit EXCEPT ![c] = _convertRealToVirtualUnit(p, u)]
  /\ e.externalPositionModules = p.externalPositionModules
  /\ e.externalUnit = p.externalUnit
  /\ e.positionMultiplier = p.positionMultiplier
  /\ \A d \in Component \ {c} : isComponent(e, d) <=> isComponent(p, d)
  /\ isComponent(e, c) <=>
       \/ listsComponent(p, c, u)
       \/ isComponent(p, c) /\ ~delistsComponent(p, c, u)

\* editDefaultPosition does just that.
LEMMA DefaultEditFrame ==
  ASSUME NEW p, BookInv(p), NEW c \in Component, NEW u \in Nat,
         editDefaultPositionOk(p, c, u)
  PROVE  DefaultEdited(p, c, u, editDefaultPosition(p, c, u))
<1> DEFINE q == IF listsComponent(p, c, u) THEN addComponent(p, c)
                ELSE IF delistsComponent(p, c, u) THEN removeComponent(p, c)
                ELSE p
           v == _convertRealToVirtualUnit(p, u)
           e == editDefaultPosition(p, c, u)
<1>1. BookInv(q)  BY ListingKeepsBook DEF editDefaultPositionOk
<1>2. /\ q.virtualUnit = p.virtualUnit
      /\ q.positionMultiplier = p.positionMultiplier
      /\ q.externalPositionModules = p.externalPositionModules
      /\ q.externalUnit = p.externalUnit
      /\ \A d \in Component \ {c} : isComponent(q, d) <=> isComponent(p, d)
      /\ isComponent(q, c) <=> \/ listsComponent(p, c, u)
                               \/ isComponent(p, c) /\ ~delistsComponent(p, c, u)
  <2>1. CASE listsComponent(p, c, u)
    <3>1. addComponentOk(p, c) /\ q = addComponent(p, c)
      BY <2>1 DEF editDefaultPositionOk
    <3>2. ~isComponent(p, c)  BY <3>1 DEF addComponentOk
    <3> HIDE DEF q
    <3>3. QED  BY <2>1, <3>1, <3>2, ListingTells
  <2>2. CASE ~listsComponent(p, c, u) /\ delistsComponent(p, c, u)
    <3>1. removeComponentOk(p, c) /\ q = removeComponent(p, c)
      BY <2>2 DEF editDefaultPositionOk
    <3>2. isComponent(p, c)  BY <3>1 DEF removeComponentOk
    <3> HIDE DEF q
    <3>3. QED  BY <2>2, <3>1, <3>2, ListingTells
  <2>3. CASE ~listsComponent(p, c, u) /\ ~delistsComponent(p, c, u)
    BY <2>3
  <2>4. QED  BY <2>1, <2>2, <2>3
<1>3. e = editDefaultPositionUnit(q, c, u)
  BY DEF editDefaultPosition
<1> HIDE DEF q
<1>4. q \in PositionState  BY <1>1 DEF BookInv
<1>5. _convertRealToVirtualUnit(q, u) = v
  BY <1>2 DEF _convertRealToVirtualUnit
<1> HIDE DEF v, e
<1>6. /\ e.components = q.components
      /\ e.virtualUnit = [p.virtualUnit EXCEPT ![c] = v]
      /\ e.externalPositionModules = p.externalPositionModules
      /\ e.externalUnit = p.externalUnit
      /\ e.positionMultiplier = p.positionMultiplier
  BY <1>2, <1>3, <1>4, <1>5 DEF editDefaultPositionUnit, PositionState
<1>7. \A d : isComponent(e, d) <=> isComponent(q, d)
  BY <1>6 DEF isComponent
<1>8. DefaultEdited(p, c, u, e)  BY <1>2, <1>6, <1>7 DEF DefaultEdited, v
<1>9. QED  BY <1>8 DEF e

\* What storing an external unit that is not zero changes, and what it leaves alone.
Opened(p, c, m, u, e) ==
  /\ e.virtualUnit = p.virtualUnit
  /\ e.externalUnit[c][m] = _convertRealToVirtualUnit(p, u)
  /\ \A d \in Component, n \in PositionModule :
       d # c \/ n # m => e.externalUnit[d][n] = p.externalUnit[d][n]
  /\ e.positionMultiplier = p.positionMultiplier
  /\ \A d \in Component : isComponent(e, d) <=> isComponent(p, d) \/ d = c
  /\ e.externalPositionModules[c] # << >>
  /\ \A d \in Component \ {c} :
       e.externalPositionModules[d] = p.externalPositionModules[d]

\* That is editExternalPosition with a unit.
LEMMA OpeningFrame ==
  ASSUME NEW p, BookInv(p), NEW c \in Component, NEW m \in PositionModule,
         NEW u \in Int, u # 0, NEW data \in BOOLEAN
  PROVE  Opened(p, c, m, u, editExternalPosition(p, c, m, u, data))
<1> DEFINE r == IF isComponent(p, c) THEN p ELSE addComponent(p, c)
           old == r.externalPositionModules[c]
           L == IF isExternalPositionModule(r, c, m) THEN old ELSE Append(old, m)
           lists == [r.externalPositionModules EXCEPT ![c] = L]
           v == _convertRealToVirtualUnit(p, u)
           e == editExternalPosition(p, c, m, u, data)
<1>1. BookInv(r)  BY ListingKeepsBook DEF addComponentOk
<1>2. /\ r.virtualUnit = p.virtualUnit
      /\ r.externalPositionModules = p.externalPositionModules
      /\ r.externalUnit = p.externalUnit
      /\ r.positionMultiplier = p.positionMultiplier
      /\ \A d \in Component : isComponent(r, d) <=> isComponent(p, d) \/ d = c
  <2>1. CASE isComponent(p, c)  BY <2>1
  <2>2. CASE ~isComponent(p, c)
    <3>1. addComponentOk(p, c) /\ r = addComponent(p, c)
      BY <2>2 DEF addComponentOk
    <3> HIDE DEF r
    <3>2. QED  BY <2>2, <3>1, ListingTells
  <2>3. QED  BY <2>1, <2>2
<1> HIDE DEF r
<1>3. r \in PositionState  BY <1>1 DEF BookInv
<1>4. old \in Seq(PositionModule)  BY <1>3 DEF PositionState
<1>5. L # << >>
  <2>1. CASE isExternalPositionModule(r, c, m)
    BY <1>4, <2>1 DEF isExternalPositionModule, contains
  <2>2. CASE ~isExternalPositionModule(r, c, m)
    <3> HIDE DEF old
    <3>1. Append(old, m) # << >>  BY <1>4
    <3>2. QED  BY <2>2, <3>1
  <2>3. QED  BY <2>1, <2>2
<1>6. openExternalPosition(p, c, m) = [r EXCEPT !.externalPositionModules = lists]
  BY <1>3 DEF openExternalPosition, addExternalPositionModule, r, PositionState
<1>7. _convertRealToVirtualUnit(openExternalPosition(p, c, m), u) = v
  BY <1>2, <1>3, <1>6 DEF _convertRealToVirtualUnit, PositionState
<1> HIDE DEF L, old, v
<1>8. /\ e.components = r.components /\ e.virtualUnit = r.virtualUnit
      /\ e.positionMultiplier = r.positionMultiplier
      /\ e.externalPositionModules = lists
      /\ e.externalUnit = [r.externalUnit EXCEPT ![c][m] = v]
  BY <1>3, <1>6, <1>7 DEF editExternalPosition, editExternalPositionUnit,
     editExternalPositionData, PositionState
<1> HIDE DEF e
<1>9. \A d \in Component : isComponent(e, d) <=> isComponent(p, d) \/ d = c
  BY <1>2, <1>8 DEF isComponent
<1>10. /\ e.externalPositionModules[c] # << >>
       /\ \A d \in Component \ {c} :
            e.externalPositionModules[d] = p.externalPositionModules[d]
  BY <1>2, <1>3, <1>5, <1>8 DEF PositionState
<1>11. /\ e.externalUnit[c][m] = v
       /\ \A d \in Component, n \in PositionModule :
            d # c \/ n # m => e.externalUnit[d][n] = p.externalUnit[d][n]
  BY <1>2, <1>3, <1>8 DEF PositionState
<1>12. Opened(p, c, m, u, e)  BY <1>2, <1>8, <1>9, <1>10, <1>11 DEF Opened, v
<1>13. QED  BY <1>12 DEF e

\* What closing an external position changes, and what it leaves alone.
Closed(p, c, m, e) ==
  /\ e.virtualUnit = p.virtualUnit
  /\ e.externalUnit[c][m] = 0
  /\ \A d \in Component, n \in PositionModule :
       d # c \/ n # m => e.externalUnit[d][n] = p.externalUnit[d][n]
  /\ e.positionMultiplier = p.positionMultiplier
  /\ \A d \in Component \ {c} : isComponent(e, d) <=> isComponent(p, d)
  /\ isComponent(e, c) <=> isComponent(p, c) /\ ~isLastPosition(p, c)
  /\ p.externalPositionModules[c] # << >>
  /\ e.externalPositionModules[c] = << >>
       <=> Len(p.externalPositionModules[c]) = 1
  /\ \A d \in Component \ {c} :
       e.externalPositionModules[d] = p.externalPositionModules[d]

\* That is editExternalPosition with a unit of zero, when there is a unit.
LEMMA ClosingFrame ==
  ASSUME NEW p, BookInv(p), NEW c \in Component, NEW m \in PositionModule,
         editExternalPositionOk(p, c, m, 0, FALSE),
         getExternalPositionRealUnit(p, c, m) # 0
  PROVE  Closed(p, c, m, editExternalPosition(p, c, m, 0, FALSE))
<1> DEFINE last == isLastPosition(p, c)
           r == IF last THEN removeComponent(p, c) ELSE p
           old == p.externalPositionModules[c]
           L == removeStorage(old, m)
           lists == [p.externalPositionModules EXCEPT ![c] = L]
           e == editExternalPosition(p, c, m, 0, FALSE)
<1>1. BookInv(r)
  BY ListingKeepsBook DEF editExternalPositionOk
<1>2. /\ r.virtualUnit = p.virtualUnit
      /\ r.externalPositionModules = p.externalPositionModules
      /\ r.externalUnit = p.externalUnit
      /\ r.positionMultiplier = p.positionMultiplier
      /\ \A d \in Component \ {c} : isComponent(r, d) <=> isComponent(p, d)
      /\ isComponent(r, c) <=> isComponent(p, c) /\ ~last
  <2>1. CASE last
    <3>1. removeComponentOk(p, c) /\ r = removeComponent(p, c)
      BY <2>1 DEF editExternalPositionOk
    <3>2. isComponent(p, c)  BY <3>1 DEF removeComponentOk
    <3> HIDE DEF r, last
    <3>3. QED  BY <2>1, <3>1, <3>2, ListingTells
  <2>2. CASE ~last  BY <2>2
  <2>3. QED  BY <2>1, <2>2
<1>3. e = removeExternalPositionModule(r, c, m)
  BY DEF editExternalPosition, closeExternalPosition
<1> HIDE DEF r, e
<1>4. r \in PositionState /\ p \in PositionState  BY <1>1 DEF BookInv
<1>5. old \in Seq(PositionModule) /\ contains(old, m) /\ IsInjective(old)
  BY DEF editExternalPositionOk, removeExternalPositionModuleOk,
     isExternalPositionModule, BookInv, PositionState
<1>6. old # << >> /\ (L = << >> <=> Len(old) = 1)
  <2> DEFINE n == Len(old)
             k == indexOf(old, m)
  <2>1. n \in Nat /\ n > 0  BY <1>5 DEF contains
  <2>2. L = [j \in 1 .. n - 1 |-> IF j = k THEN old[n] ELSE old[j]]
    BY DEF removeStorage
  <2> HIDE DEF L, n, k, old
  <2>3. L = << >> <=> n - 1 = 0
    <3>1. CASE n = 1  BY <2>2, <3>1
    <3>2. CASE n > 1
      <4>1. 1 \in DOMAIN L  BY <2>1, <2>2, <3>2
      <4>2. QED  BY <2>1, <3>2, <4>1
    <3>3. QED  BY <2>1, <3>1, <3>2
  <2>4. QED  BY <1>5, <2>1, <2>3 DEF n, contains
<1> HIDE DEF L, last
<1>7. /\ e.components = r.components /\ e.virtualUnit = p.virtualUnit
      /\ e.positionMultiplier = p.positionMultiplier
      /\ e.externalPositionModules = lists
      /\ e.externalUnit = [p.externalUnit EXCEPT ![c][m] = 0]
  BY <1>2, <1>3, <1>4 DEF removeExternalPositionModule, PositionState, L
<1>8. \A d : isComponent(e, d) <=> isComponent(r, d)
  BY <1>7 DEF isComponent
<1>9. /\ e.externalPositionModules[c] = L
      /\ \A d \in Component \ {c} :
           e.externalPositionModules[d] = p.externalPositionModules[d]
  BY <1>4, <1>7 DEF PositionState
<1>10. /\ e.externalUnit[c][m] = 0
       /\ \A d \in Component, n \in PositionModule :
            d # c \/ n # m => e.externalUnit[d][n] = p.externalUnit[d][n]
  <2>1. p.externalUnit \in [Component -> [PositionModule -> Int]]
    BY <1>4 DEF PositionState
  <2>2. e.externalUnit = [p.externalUnit EXCEPT ![c][m] = 0]  BY <1>7
  <2>3. QED  BY <2>1, <2>2
<1>11. Closed(p, c, m, e)
  BY <1>2, <1>6, <1>7, <1>8, <1>9, <1>10 DEF Closed, last
<1>12. QED  BY <1>11 DEF e

\* A default unit that survives lists its component, and zero delists it when
\* nothing else is held of it.
LEMMA DefaultEditTells ==
  ASSUME NEW p, BookInv(p), Told(p), NEW c \in Component, NEW u \in Nat,
         Survives(p, u), editDefaultPositionOk(p, c, u)
  PROVE  Told(editDefaultPosition(p, c, u))
<1> DEFINE v == _convertRealToVirtualUnit(p, u)
           e == editDefaultPosition(p, c, u)
           m == p.positionMultiplier
<1>1. m \in Nat \ {0} /\ m \in Int /\ m > 0  BY DEF BookInv, PositionState
<1>2. /\ v \in Nat /\ (u = 0 => v = 0)
      /\ u > 0 => v > 0 /\ conservativePreciseMul(v, m) > 0
  BY <1>1, StoredDefault DEF editDefaultPositionOk, Survives
<1>3. /\ e.virtualUnit = [p.virtualUnit EXCEPT ![c] = v]
      /\ e.externalPositionModules = p.externalPositionModules
      /\ e.positionMultiplier = m
      /\ \A d \in Component \ {c} : isComponent(e, d) <=> isComponent(p, d)
      /\ isComponent(e, c) <=> \/ listsComponent(p, c, u)
                               \/ isComponent(p, c) /\ ~delistsComponent(p, c, u)
  BY DefaultEditFrame DEF DefaultEdited
<1> HIDE DEF v, e, m
<1>4. p.virtualUnit \in [Component -> Int]  BY DEF BookInv, PositionState
<1>5. ASSUME NEW d \in Component, d # c
      PROVE  /\ e.virtualUnit[d] = p.virtualUnit[d]
             /\ getDefaultPositionRealUnit(e, d) = getDefaultPositionRealUnit(p, d)
             /\ isComponent(e, d) <=> isComponent(p, d)
  BY <1>3, <1>4, <1>5
  DEF getDefaultPositionRealUnit, _convertVirtualToRealUnit, m
<1>6. /\ e.virtualUnit[c] = v
      /\ getDefaultPositionRealUnit(e, c) = conservativePreciseMul(v, m)
  BY <1>3, <1>4 DEF getDefaultPositionRealUnit, _convertVirtualToRealUnit
<1>7. isComponent(e, c) <=> v > 0 \/ p.externalPositionModules[c] # << >>
  <2> DEFINE r == getDefaultPositionRealUnit(p, c)
  <2>1. r \in Nat /\ (r = 0 <=> p.virtualUnit[c] = 0)  BY DefaultReads
  <2>2. isComponent(p, c) <=>
          p.virtualUnit[c] > 0 \/ p.externalPositionModules[c] # << >>
    BY DEF Told
  <2>3. p.virtualUnit[c] \in Int /\ p.virtualUnit[c] >= 0  BY <1>4 DEF Told
  <2> HIDE DEF r
  <2>4. CASE p.externalPositionModules[c] # << >>
    BY <1>3, <2>2, <2>4
    DEF listsComponent, delistsComponent, hasExternalPosition
  <2>5. CASE p.externalPositionModules[c] = << >> /\ u > 0
    BY <1>2, <1>3, <2>1, <2>2, <2>3, <2>5
    DEF listsComponent, delistsComponent, hasExternalPosition, hasDefaultPosition, r
  <2>6. CASE p.externalPositionModules[c] = << >> /\ u = 0
    BY <1>2, <1>3, <2>1, <2>2, <2>3, <2>6
    DEF listsComponent, delistsComponent, hasExternalPosition, hasDefaultPosition, r
  <2>7. QED  BY <2>4, <2>5, <2>6
<1>8. ASSUME NEW d \in Component
      PROVE  /\ e.virtualUnit[d] >= 0
             /\ e.virtualUnit[d] > 0 => getDefaultPositionRealUnit(e, d) > 0
             /\ isComponent(e, d) <=>
                  e.virtualUnit[d] > 0 \/ e.externalPositionModules[d] # << >>
  <2>1. CASE d = c
    <3>1. v > 0 => conservativePreciseMul(v, m) > 0  BY <1>2
    <3>2. QED  BY <1>2, <1>3, <1>6, <1>7, <2>1, <3>1
  <2>2. CASE d # c  BY <1>3, <1>5, <2>2 DEF Told
  <2>3. QED  BY <2>1, <2>2
<1>9. Told(e)  BY <1>8 DEF Told
<1>10. QED  BY <1>9 DEF e

\* Storing an external unit lists its component, if it was not.
LEMMA OpeningTells ==
  ASSUME NEW p, BookInv(p), Told(p), NEW c \in Component, NEW m \in PositionModule,
         NEW u \in Int, u # 0, NEW data \in BOOLEAN
  PROVE  Told(editExternalPosition(p, c, m, u, data))
<1> DEFINE e == editExternalPosition(p, c, m, u, data)
<1>1. Opened(p, c, m, u, e)  BY OpeningFrame
<1> HIDE DEF e
<1>2. /\ e.virtualUnit = p.virtualUnit
      /\ e.positionMultiplier = p.positionMultiplier
      /\ \A d \in Component : isComponent(e, d) <=> isComponent(p, d) \/ d = c
      /\ e.externalPositionModules[c] # << >>
      /\ \A d \in Component \ {c} :
           e.externalPositionModules[d] = p.externalPositionModules[d]
  BY <1>1 DEF Opened
<1>3. \A d : getDefaultPositionRealUnit(e, d) = getDefaultPositionRealUnit(p, d)
  BY <1>2 DEF getDefaultPositionRealUnit, _convertVirtualToRealUnit
<1>4. Told(e)  BY <1>2, <1>3 DEF Told
<1>5. QED  BY <1>4 DEF e

\* Closing the last position of a component delists it; any other leaves it listed.
LEMMA ClosingTells ==
  ASSUME NEW p, BookInv(p), Told(p), NEW c \in Component, NEW m \in PositionModule,
         editExternalPositionOk(p, c, m, 0, FALSE)
  PROVE  Told(editExternalPosition(p, c, m, 0, FALSE))
<1>1. CASE getExternalPositionRealUnit(p, c, m) = 0
  BY <1>1 DEF editExternalPosition
<1>2. CASE getExternalPositionRealUnit(p, c, m) # 0
  <2> DEFINE last == isLastPosition(p, c)
             n == Len(p.externalPositionModules[c])
             e == editExternalPosition(p, c, m, 0, FALSE)
  <2>0. Closed(p, c, m, e)  BY <1>2, ClosingFrame
  <2> HIDE DEF e
  <2>1. /\ e.virtualUnit = p.virtualUnit
        /\ e.positionMultiplier = p.positionMultiplier
        /\ \A d \in Component \ {c} : isComponent(e, d) <=> isComponent(p, d)
        /\ isComponent(e, c) <=> isComponent(p, c) /\ ~last
        /\ p.externalPositionModules[c] # << >>
        /\ e.externalPositionModules[c] = << >> <=> n = 1
        /\ \A d \in Component \ {c} :
             e.externalPositionModules[d] = p.externalPositionModules[d]
    BY <2>0 DEF Closed
  <2>2. \A d : getDefaultPositionRealUnit(e, d) = getDefaultPositionRealUnit(p, d)
    BY <2>1 DEF getDefaultPositionRealUnit, _convertVirtualToRealUnit
  <2>3. isComponent(p, c)  BY <2>1 DEF Told
  <2>4. last <=> p.virtualUnit[c] = 0 /\ n = 1
    BY DefaultReads DEF isLastPosition
  <2>5. p.virtualUnit[c] \in Int /\ p.virtualUnit[c] >= 0
    BY DEF BookInv, PositionState, Told
  <2> HIDE DEF last, n
  <2>6. isComponent(e, c) <=>
          e.virtualUnit[c] > 0 \/ e.externalPositionModules[c] # << >>
    BY <2>1, <2>3, <2>4, <2>5
  <2>7. ASSUME NEW d \in Component
        PROVE  /\ e.virtualUnit[d] >= 0
               /\ e.virtualUnit[d] > 0 => getDefaultPositionRealUnit(e, d) > 0
               /\ isComponent(e, d) <=>
                    e.virtualUnit[d] > 0 \/ e.externalPositionModules[d] # << >>
    <3>1. CASE d = c  BY <2>1, <2>2, <2>6, <3>1 DEF Told
    <3>2. CASE d # c  BY <2>1, <2>2, <3>2 DEF Told
    <3>3. QED  BY <3>1, <3>2
  <2>8. Told(e)  BY <2>7 DEF Told
  <2>9. QED  BY <2>8 DEF e
<1>3. QED  BY <1>1, <1>2

\* A multiplier that passes validation leaves no listed unit at zero.
LEMMA RepricingTells ==
  ASSUME NEW p, BookInv(p), Told(p), NEW newMultiplier \in Int,
         _validateNewMultiplier(p, newMultiplier)
  PROVE  Told(editPositionMultiplier(p, newMultiplier))
<1> DEFINE e == editPositionMultiplier(p, newMultiplier)
<1>1. p \in PositionState  BY DEF BookInv
<1>2. /\ e.components = p.components /\ e.virtualUnit = p.virtualUnit
      /\ e.externalPositionModules = p.externalPositionModules
      /\ e.positionMultiplier = newMultiplier
  BY <1>1 DEF editPositionMultiplier, PositionState
<1> HIDE DEF e
<1>3. ASSUME NEW d \in Component, p.virtualUnit[d] > 0
      PROVE  getDefaultPositionRealUnit(e, d) > 0
  <2>1. d \in ToSet(p.components)
    BY <1>3, ContainsIsMembership DEF Told, isComponent
  <2>2. p.virtualUnit[d] \in positionUnits(p)
    BY <1>3, <2>1 DEF positionUnits
  <2>3. conservativePreciseMul(p.virtualUnit[d], newMultiplier) > 0
    BY <2>2 DEF _validateNewMultiplier
  <2>4. QED
    BY <1>2, <2>3 DEF getDefaultPositionRealUnit, _convertVirtualToRealUnit
<1>4. Told(e)  BY <1>2, <1>3 DEF Told, isComponent
<1>5. QED  BY <1>4 DEF e

-----------------------------------------------------------------------------
(* What an edit does to the units that are read. *)

\* What is not listed is not held: the default unit reads as zero and there is no
\* external position.
Listed(p) ==
  \A c \in Component :
    /\ p.virtualUnit[c] >= 0
    /\ \/ isComponent(p, c)
       \/ /\ getDefaultPositionRealUnit(p, c) = 0
          /\ p.externalPositionModules[c] = << >>

\* A default unit is a natural number, an external one an integer.
LEMMA UnitsRead ==
  ASSUME NEW p, BookInv(p), NEW c \in Component
  PROVE  /\ Listed(p) => getDefaultPositionRealUnit(p, c) \in Nat
         /\ \A m \in PositionModule :
              /\ getExternalPositionRealUnit(p, c, m) \in Int
              /\ p.externalUnit[c][m] = 0 => getExternalPositionRealUnit(p, c, m) = 0
              /\ p.positionMultiplier = PRECISE_UNIT
                   => getExternalPositionRealUnit(p, c, m) = p.externalUnit[c][m]
<1> DEFINE k == p.positionMultiplier
<1>1. PRECISE_UNIT \in Nat \ {0} /\ k \in Nat \ {0}
  BY PreciseUnitAssumption DEF BookInv, PositionState
<1>2. ASSUME Listed(p) PROVE getDefaultPositionRealUnit(p, c) \in Nat
  <2>1. p.virtualUnit[c] \in Nat  BY <1>2 DEF BookInv, PositionState, Listed
  <2>2. QED
    BY <1>1, <2>1, UnitReads
    DEF getDefaultPositionRealUnit, _convertVirtualToRealUnit
<1>3. ASSUME NEW m \in PositionModule
      PROVE  /\ getExternalPositionRealUnit(p, c, m) \in Int
             /\ p.externalUnit[c][m] = 0 => getExternalPositionRealUnit(p, c, m) = 0
             /\ k = PRECISE_UNIT
                  => getExternalPositionRealUnit(p, c, m) = p.externalUnit[c][m]
  <2> DEFINE v == p.externalUnit[c][m]
             w == v * k
             r == getExternalPositionRealUnit(p, c, m)
  <2>1. v \in Int  BY DEF BookInv, PositionState
  <2>2. r = divDown(w, PRECISE_UNIT)
    BY DEF getExternalPositionRealUnit, _convertVirtualToRealUnit,
       conservativePreciseMul
  <2> HIDE DEF v, k, r
  <2>3. w \in Int /\ (v = 0 => w = 0) /\ (k = PRECISE_UNIT => w = v * PRECISE_UNIT)
    BY <1>1, <2>1
  <2> HIDE DEF w
  <2>4. r = w \div PRECISE_UNIT  BY <1>1, <2>2, <2>3, DivDownFloors
  <2>5. r \in Int  BY <1>1, <2>3, <2>4, DivBounds
  <2>6. w = 0 => r = 0  BY <1>1, <2>4
  <2>7. ASSUME k = PRECISE_UNIT PROVE r = v
    <3>1. v * PRECISE_UNIT <= w /\ w < v * PRECISE_UNIT + PRECISE_UNIT
      BY <1>1, <2>1, <2>3, <2>7
    <3>2. QED  BY <1>1, <2>1, <2>3, <2>4, <3>1, DivUnique
  <2>8. QED  BY <2>3, <2>5, <2>6, <2>7 DEF v, r
<1>4. QED  BY <1>2, <1>3

\* The default unit of c was set to u: it reads as at most that, and as just that
\* at a scale of one.
DefaultSet(p, c, u, e) ==
  /\ BookInv(e) /\ Listed(e)
  /\ e.positionMultiplier = p.positionMultiplier
  /\ e.externalPositionModules = p.externalPositionModules
  /\ e.externalUnit = p.externalUnit
  /\ \A d \in Component \ {c} : e.virtualUnit[d] = p.virtualUnit[d]
  /\ getDefaultPositionRealUnit(e, c) <= u
  /\ p.positionMultiplier = PRECISE_UNIT => getDefaultPositionRealUnit(e, c) = u

\* That is what editDefaultPosition achieves.
LEMMA DefaultEditReads ==
  ASSUME NEW p, BookInv(p), Listed(p), NEW c \in Component, NEW u \in Nat,
         editDefaultPositionOk(p, c, u)
  PROVE  DefaultSet(p, c, u, editDefaultPosition(p, c, u))
<1> DEFINE e == editDefaultPosition(p, c, u)
           v == _convertRealToVirtualUnit(p, u)
           k == p.positionMultiplier
<1>1. BookInv(e)  BY DefaultEditKeepsBook
<1>2. DefaultEdited(p, c, u, e)  BY DefaultEditFrame
<1>3. k \in Int /\ k > 0 /\ k \in Nat \ {0} /\ p.virtualUnit \in [Component -> Int]
  BY DEF BookInv, PositionState
<1>4. v \in Nat /\ (u = 0 => v = 0)
  BY <1>3, StoredDefault DEF editDefaultPositionOk
<1>5. /\ conservativePreciseMul(v, k) <= u
      /\ k = PRECISE_UNIT => conservativePreciseMul(v, k) = u
  BY <1>3, StoredReads
<1> HIDE DEF e
<1>6. /\ e.virtualUnit = [p.virtualUnit EXCEPT ![c] = v]
      /\ e.externalPositionModules = p.externalPositionModules
      /\ e.externalUnit = p.externalUnit
      /\ e.positionMultiplier = k
      /\ \A d \in Component \ {c} : isComponent(e, d) <=> isComponent(p, d)
      /\ isComponent(e, c) <=>
           \/ listsComponent(p, c, u)
           \/ isComponent(p, c) /\ ~delistsComponent(p, c, u)
  BY <1>2 DEF DefaultEdited
<1> HIDE DEF v, k
<1>7. /\ e.virtualUnit[c] = v
      /\ \A d \in Component \ {c} : e.virtualUnit[d] = p.virtualUnit[d]
  BY <1>3, <1>6
<1>8. /\ getDefaultPositionRealUnit(e, c) = conservativePreciseMul(v, k)
      /\ \A d \in Component \ {c} :
           getDefaultPositionRealUnit(e, d) = getDefaultPositionRealUnit(p, d)
  BY <1>6, <1>7 DEF getDefaultPositionRealUnit, _convertVirtualToRealUnit, k
<1>9. ASSUME NEW d \in Component
      PROVE  /\ e.virtualUnit[d] >= 0
             /\ \/ isComponent(e, d)
                \/ /\ getDefaultPositionRealUnit(e, d) = 0
                   /\ e.externalPositionModules[d] = << >>
  <2>1. CASE d # c  BY <1>6, <1>7, <1>8, <2>1 DEF Listed
  <2>2. CASE d = c
    <3>1. e.virtualUnit[d] >= 0  BY <1>4, <1>7, <2>2
    <3>2. ASSUME ~isComponent(e, c)
          PROVE  u = 0 /\ p.externalPositionModules[c] = << >>
      <4>1. \/ isComponent(p, c)
            \/ /\ getDefaultPositionRealUnit(p, c) = 0
               /\ p.externalPositionModules[c] = << >>
        BY DEF Listed
      <4>2. QED
        BY <1>6, <3>2, <4>1 DEF listsComponent, delistsComponent,
           hasDefaultPosition, hasExternalPosition
    <3>3. u = 0 => getDefaultPositionRealUnit(e, c) = 0
      BY <1>3, <1>4, <1>8, UnitReads
    <3>4. QED  BY <1>6, <2>2, <3>1, <3>2, <3>3
  <2>3. QED  BY <2>1, <2>2
<1>10. Listed(e)  BY <1>9 DEF Listed
<1>11. DefaultSet(p, c, u, e)
  BY <1>1, <1>5, <1>6, <1>7, <1>8, <1>10 DEF DefaultSet, k
<1>12. QED  BY <1>11 DEF e

\* The external unit of c for m was set to u: it reads as at most that, and as just
\* that at a scale of one.
ExternalSet(p, c, m, u, e) ==
  /\ BookInv(e) /\ Listed(e)
  /\ e.positionMultiplier = p.positionMultiplier
  /\ e.virtualUnit = p.virtualUnit
  /\ \A d \in Component, n \in PositionModule :
       d # c \/ n # m => e.externalUnit[d][n] = p.externalUnit[d][n]
  /\ getExternalPositionRealUnit(e, c, m) <= u
  /\ p.positionMultiplier = PRECISE_UNIT => getExternalPositionRealUnit(e, c, m) = u

\* That is what editExternalPosition achieves, also for a unit of zero that nothing
\* is stored for.
LEMMA ExternalEditReads ==
  ASSUME NEW p, BookInv(p), Listed(p), NEW c \in Component,
         NEW m \in PositionModule, NEW u \in Int,
         editExternalPositionOk(p, c, m, u, FALSE)
  PROVE  ExternalSet(p, c, m, u, editExternalPosition(p, c, m, u, FALSE))
<1> DEFINE e == editExternalPosition(p, c, m, u, FALSE)
           k == p.positionMultiplier
<1>1. k \in Int /\ k > 0 /\ k \in Nat \ {0}  BY DEF BookInv, PositionState
<1>2. CASE u # 0
  <2> DEFINE v == _convertRealToVirtualUnit(p, u)
  <2>1. convertOk(p, u)  BY <1>2 DEF editExternalPositionOk
  <2>2. BookInv(e)  BY <1>2, <2>1, OpeningKeepsBook
  <2>3. Opened(p, c, m, u, e)  BY <1>2, OpeningFrame
  <2>4. /\ conservativePreciseMul(v, k) <= u
        /\ k = PRECISE_UNIT => conservativePreciseMul(v, k) = u
    BY <1>1, StoredReads
  <2> HIDE DEF e
  <2>5. /\ e.virtualUnit = p.virtualUnit
        /\ e.externalUnit[c][m] = v
        /\ \A d \in Component, n \in PositionModule :
             d # c \/ n # m => e.externalUnit[d][n] = p.externalUnit[d][n]
        /\ e.positionMultiplier = k
        /\ \A d \in Component : isComponent(e, d) <=> isComponent(p, d) \/ d = c
        /\ \A d \in Component \ {c} :
             e.externalPositionModules[d] = p.externalPositionModules[d]
    BY <2>3 DEF Opened
  <2> HIDE DEF v, k
  <2>6. /\ getExternalPositionRealUnit(e, c, m) = conservativePreciseMul(v, k)
        /\ \A d : getDefaultPositionRealUnit(e, d) = getDefaultPositionRealUnit(p, d)
    BY <2>5 DEF getDefaultPositionRealUnit, getExternalPositionRealUnit,
       _convertVirtualToRealUnit, k
  <2>7. Listed(e)  BY <2>5, <2>6 DEF Listed
  <2>8. ExternalSet(p, c, m, u, e)
    BY <2>2, <2>4, <2>5, <2>6, <2>7 DEF ExternalSet, k
  <2>9. QED  BY <2>8 DEF e
<1>3. CASE u = 0 /\ getExternalPositionRealUnit(p, c, m) = 0
  <2>1. e = p  BY <1>3 DEF editExternalPosition
  <2> HIDE DEF e
  <2>2. ExternalSet(p, c, m, u, e)  BY <1>3, <2>1 DEF ExternalSet
  <2>3. QED  BY <2>2 DEF e
<1>4. CASE u = 0 /\ getExternalPositionRealUnit(p, c, m) # 0
  <2>1. BookInv(e)  BY <1>4, ClosingKeepsBook
  <2>2. Closed(p, c, m, e)  BY <1>4, ClosingFrame
  <2> HIDE DEF e
  <2>3. /\ e.virtualUnit = p.virtualUnit
        /\ e.externalUnit[c][m] = 0
        /\ \A d \in Component, n \in PositionModule :
             d # c \/ n # m => e.externalUnit[d][n] = p.externalUnit[d][n]
        /\ e.positionMultiplier = k
        /\ \A d \in Component \ {c} : isComponent(e, d) <=> isComponent(p, d)
        /\ isComponent(e, c) <=> isComponent(p, c) /\ ~isLastPosition(p, c)
        /\ p.externalPositionModules[c] # << >>
        /\ e.externalPositionModules[c] = << >>
             <=> Len(p.externalPositionModules[c]) = 1
        /\ \A d \in Component \ {c} :
             e.externalPositionModules[d] = p.externalPositionModules[d]
    BY <2>2 DEF Closed
  <2>4. getExternalPositionRealUnit(e, c, m) = 0  BY <2>1, <2>3, UnitsRead
  <2>5. \A d : getDefaultPositionRealUnit(e, d) = getDefaultPositionRealUnit(p, d)
    BY <2>3 DEF getDefaultPositionRealUnit, _convertVirtualToRealUnit
  <2>6. ASSUME NEW d \in Component
        PROVE  /\ e.virtualUnit[d] >= 0
               /\ \/ isComponent(e, d)
                  \/ /\ getDefaultPositionRealUnit(e, d) = 0
                     /\ e.externalPositionModules[d] = << >>
    <3>1. CASE d # c  BY <2>3, <2>5, <3>1 DEF Listed
    <3>2. CASE d = c  BY <2>3, <2>5, <3>2 DEF Listed, isLastPosition
    <3>3. QED  BY <3>1, <3>2
  <2>7. Listed(e)  BY <2>6 DEF Listed
  <2>8. ExternalSet(p, c, m, u, e)
    BY <1>4, <2>1, <2>3, <2>4, <2>7 DEF ExternalSet, k
  <2>9. QED  BY <2>8 DEF e
<1>5. QED  BY <1>2, <1>3, <1>4

\* A lower multiplier that passes validation keeps the listing, and raises no unit
\* but a debt's.
LEMMA RepricingReads ==
  ASSUME NEW p, BookInv(p), Listed(p), NEW n \in Int,
         _validateNewMultiplier(p, n), n <= p.positionMultiplier
  PROVE  LET e == editPositionMultiplier(p, n)
         IN  /\ BookInv(e) /\ Listed(e) /\ n > 0
             /\ \A c \in Component, m \in PositionModule :
                  \/ getExternalPositionRealUnit(e, c, m)
                       <= getExternalPositionRealUnit(p, c, m)
                  \/ getExternalPositionRealUnit(e, c, m) <= 0
<1> DEFINE e == editPositionMultiplier(p, n)
           k == p.positionMultiplier
           P == PRECISE_UNIT
<1>1. P \in Nat \ {0} /\ k \in Nat \ {0} /\ p \in PositionState
  BY PreciseUnitAssumption DEF BookInv, PositionState
<1>2. BookInv(e)  BY RepricingKeepsBook
<1>3. /\ e.components = p.components /\ e.virtualUnit = p.virtualUnit
      /\ e.externalPositionModules = p.externalPositionModules
      /\ e.externalUnit = p.externalUnit
      /\ e.positionMultiplier = n
  BY <1>1 DEF editPositionMultiplier, PositionState
<1> HIDE DEF e
<1>4. n \in Nat \ {0}  BY <1>2, <1>3 DEF BookInv
<1>5. ASSUME NEW v \in Int
      PROVE  \/ divDown(v * n, P) <= divDown(v * k, P)
             \/ divDown(v * n, P) <= 0
  <2> DEFINE x == v * n
             y == v * k
             a == x \div P
             b == y \div P
  <2>1. x \in Int /\ y \in Int /\ (v >= 0 => x <= y) /\ (v < 0 => x <= 0)
    <3>1. CASE v >= 0
      <4>1. v \in Nat /\ k - n \in Nat  BY <1>1, <1>4, <3>1
      <4>2. v * (k - n) \in Nat /\ y = x + v * (k - n)  BY <1>1, <1>4, <4>1
      <4>3. QED  BY <1>1, <1>4, <3>1, <4>2
    <3>2. CASE v < 0
      <4>1. -v \in Nat  BY <3>2
      <4>2. (-v) * n \in Nat /\ x = -((-v) * n)  BY <1>4, <4>1
      <4>3. QED  BY <1>1, <1>4, <3>2, <4>2
    <3>3. QED  BY <3>1, <3>2
  <2>2. divDown(x, P) = a /\ divDown(y, P) = b
    <3> HIDE DEF x, y, P
    <3>1. QED  BY <1>1, <2>1, DivDownFloors
  <2> HIDE DEF x, y, P
  <2>3. /\ a \in Int /\ a * P <= x
        /\ b \in Int /\ y < b * P + P
    BY <1>1, <2>1, DivBounds
  <2> HIDE DEF a, b
  <2>4. CASE v >= 0
    <3>1. a * P < (b + 1) * P  BY <1>1, <2>1, <2>3, <2>4
    <3>2. a < b + 1  BY <1>1, <2>3, <3>1
    <3>3. QED  BY <2>2, <2>3, <3>2 DEF x, y
  <2>5. CASE v < 0
    <3>1. a * P <= 0 * P  BY <1>1, <2>1, <2>3, <2>5
    <3>2. a <= 0  BY <1>1, <2>3, <3>1
    <3>3. QED  BY <2>2, <3>2 DEF x
  <2>6. QED  BY <2>4, <2>5
<1>6. ASSUME NEW c \in Component, NEW m \in PositionModule
      PROVE  \/ getExternalPositionRealUnit(e, c, m)
                  <= getExternalPositionRealUnit(p, c, m)
             \/ getExternalPositionRealUnit(e, c, m) <= 0
  <2>1. p.externalUnit[c][m] \in Int  BY <1>1 DEF PositionState
  <2>2. QED
    BY <1>3, <1>5, <2>1 DEF getExternalPositionRealUnit,
       _convertVirtualToRealUnit, conservativePreciseMul, k, P
<1>7. Listed(e)
  <2> SUFFICES ASSUME NEW c \in Component
               PROVE  /\ e.virtualUnit[c] >= 0
                      /\ \/ isComponent(e, c)
                         \/ /\ getDefaultPositionRealUnit(e, c) = 0
                            /\ e.externalPositionModules[c] = << >>
    BY DEF Listed
  <2> DEFINE v == p.virtualUnit[c]
             a == getDefaultPositionRealUnit(e, c)
             b == getDefaultPositionRealUnit(p, c)
  <2>1. v \in Nat  BY <1>1 DEF PositionState, Listed
  <2>2. a = conservativePreciseMul(v, n) /\ b = conservativePreciseMul(v, k)
    BY <1>3 DEF getDefaultPositionRealUnit, _convertVirtualToRealUnit
  <2>3. a = divDown(v * n, P) /\ b = divDown(v * k, P)
    BY <2>2 DEF conservativePreciseMul
  <2>4. a \in Nat  BY <1>4, <2>1, <2>2, UnitReads
  <2> HIDE DEF a, b, v
  <2>5. a <= b \/ a <= 0  BY <1>5, <2>1, <2>3
  <2>6. b = 0 => a = 0  BY <2>4, <2>5
  <2>7. isComponent(e, c) <=> isComponent(p, c)  BY <1>3 DEF isComponent
  <2>8. QED  BY <1>3, <2>1, <2>6, <2>7 DEF Listed, a, b, v
<1>8. QED  BY <1>2, <1>4, <1>6, <1>7 DEF e

\* The unit stored for a balance, over the supply, is what backs it: at most what was
\* there before and the change of the balance, where an empty balance was backed in full.
LEMMA EditedUnitCovers ==
  ASSUME NEW p, NEW c, NEW supply \in Nat, NEW pre \in Nat, NEW post \in Nat,
         getDefaultPositionRealUnit(p, c) \in Nat,
         calculateAndEditDefaultPositionOk(p, c, supply, pre, post)
  PROVE  LET r == getDefaultPositionRealUnit(p, c)
             u == editedUnit(p, c, supply, pre, post)
         IN  /\ u \in Nat
             /\ supply * u <= IF post = 0 THEN 0
                  ELSE post * PRECISE_UNIT - pre * PRECISE_UNIT + supply * r
<1> DEFINE r == getDefaultPositionRealUnit(p, c)
           u == editedUnit(p, c, supply, pre, post)
           tracked == preciseMul(r, supply)
           added == post - (pre - tracked)
<1>1. PRECISE_UNIT \in Nat \ {0}  BY PreciseUnitAssumption
<1>2. r \in Nat  OBVIOUS
<1>3. CASE post = 0
  <2>1. u = 0  BY <1>3 DEF editedUnit
  <2>2. QED  BY <1>3, <2>1
<1>4. CASE post # 0
  <2>1. post > 0  BY <1>4
  <2>2. /\ tracked <= pre /\ pre - tracked <= post /\ supply # 0
    BY <2>1 DEF calculateAndEditDefaultPositionOk,
                calculateDefaultEditPositionUnitOk
  <2>3. tracked \in Nat /\ tracked * PRECISE_UNIT <= r * supply
    BY <1>2, PreciseMulBound
  <2>4. u = (added * PRECISE_UNIT) \div supply
    BY <2>1 DEF editedUnit, calculateDefaultEditPositionUnit, preciseDiv
  <2> HIDE DEF tracked, u, r
  <2>5. added \in Nat /\ supply \in Nat \ {0}  BY <2>2, <2>3
  <2>6. added * PRECISE_UNIT
          = post * PRECISE_UNIT - pre * PRECISE_UNIT + tracked * PRECISE_UNIT
    BY <1>1, <2>3
  <2> HIDE DEF added
  <2>7. added * PRECISE_UNIT \in Nat  BY <1>1, <2>5
  <2>8. u \in Nat /\ u * supply <= added * PRECISE_UNIT
    BY <2>4, <2>5, <2>7, NatDivBounds
  <2>9. u * supply = supply * u /\ r * supply = supply * r
    BY <1>2, <2>8
  <2>10. /\ supply * u \in Int /\ supply * r \in Int
         /\ post * PRECISE_UNIT \in Int /\ pre * PRECISE_UNIT \in Int
         /\ tracked * PRECISE_UNIT \in Int
    BY <1>1, <1>2, <2>3, <2>8
  <2>11. QED  BY <1>4, <2>3, <2>6, <2>8, <2>9, <2>10 DEF u, r
<1>5. QED  BY <1>3, <1>4

-----------------------------------------------------------------------------
(* The units of a component with at most one external position. *)

\* One level of the recursion that adds up the units of c from the slots T.
totalOf(p, c, g, T) ==
  IF T = {} THEN getDefaultPositionRealUnit(p, c)
  ELSE g[T \ {Max(T)}]
         + getExternalPositionRealUnit(p, c, p.externalPositionModules[c][Max(T)])

Totals(p, c, S, g) == g = [T \in SUBSET S |-> totalOf(p, c, g, T)]

\* The library adds by recursion over the slots of the list.
LEMMA TotalIsChosen ==
  ASSUME NEW p, NEW c
  PROVE  LET S == DOMAIN p.externalPositionModules[c]
         IN  getTotalComponentRealUnits(p, c) = (CHOOSE g : Totals(p, c, S, g))[S]
BY DEF getTotalComponentRealUnits, FoldLeft, MapThenFoldSet, Totals, totalOf

\* With one module at most, which is called while its unit is not zero.
LEMMA TotalOfOne ==
  ASSUME NEW p, BookInv(p), Listed(p), NEW c \in Component,
         NEW m \in PositionModule,
         \A n \in PositionModule : n # m => p.externalUnit[c][n] = 0
  PROVE  /\ getTotalComponentRealUnits(p, c)
              = getDefaultPositionRealUnit(p, c) + getExternalPositionRealUnit(p, c, m)
         /\ ToSet(p.externalPositionModules[c])
              = IF p.externalUnit[c][m] = 0 THEN {} ELSE {m}
<1> DEFINE L == p.externalPositionModules[c]
           S == DOMAIN L
           r == getDefaultPositionRealUnit(p, c)
           x == getExternalPositionRealUnit(p, c, m)
<1>1. L \in Seq(PositionModule) /\ IsInjective(L) /\ S = 1 .. Len(L) /\ Len(L) \in Nat
  BY DEF BookInv, PositionState
<1>2. r \in Nat /\ x \in Int /\ (p.externalUnit[c][m] = 0 => x = 0)
  BY UnitsRead
<1>3. \A n \in PositionModule : contains(L, n) <=> p.externalUnit[c][n] # 0
  BY DEF BookInv, isExternalPositionModule
<1>4. \A i \in S : L[i] = m
  BY <1>1, <1>3 DEF contains
<1>5. ToSet(L) = IF p.externalUnit[c][m] = 0 THEN {} ELSE {m}
  BY <1>1, <1>3, <1>4 DEF contains, ToSet
<1> DEFINE t == getTotalComponentRealUnits(p, c)
           f == CHOOSE g : Totals(p, c, S, g)
<1>6. t = f[S]  BY TotalIsChosen
<1> HIDE DEF t
<1>7. CASE p.externalUnit[c][m] = 0
  <2>1. S = {}  BY <1>3, <1>4, <1>7 DEF contains
  <2> DEFINE h == [T \in {{}} |-> r]
  <2>2. SUBSET S = {{}}  BY <2>1
  <2>3. Totals(p, c, S, h)  BY <2>2 DEF Totals, totalOf
  <2>4. Totals(p, c, S, f)  BY <2>3
  <2> HIDE DEF f, S
  <2>5. f[S] = r  BY <2>1, <2>2, <2>4 DEF Totals, totalOf
  <2>6. QED  BY <1>2, <1>5, <1>6, <1>7, <2>5 DEF t
<1>8. CASE p.externalUnit[c][m] # 0
  <2>1. S = {1}
    <3>1. contains(L, m)  BY <1>3, <1>8
    <3>2. Len(L) > 0  BY <1>1, <3>1 DEF contains
    <3>3. ASSUME Len(L) > 1 PROVE FALSE
      <4>1. 1 \in S /\ 2 \in S  BY <1>1, <3>3
      <4>2. L[1] = L[2]  BY <1>4, <4>1
      <4>3. QED  BY <1>1, <4>1, <4>2 DEF IsInjective
    <3>4. Len(L) = 1
      <4>1. Len(L) \in Nat  BY <1>1
      <4> HIDE DEF L
      <4>2. ~(Len(L) > 1)  BY <3>3
      <4>3. QED  BY <3>2, <4>1, <4>2
    <3>5. QED  BY <1>1, <3>4
  <2>2. Max({1}) = 1  BY DEF Max
  <2>3. {1} \ {1} = {} /\ SUBSET {1} = {{}, {1}} /\ {1} # {}  OBVIOUS
  <2>4. L[1] = m  BY <1>4, <2>1
  <2> DEFINE h == [T \in SUBSET {1} |-> IF T = {} THEN r ELSE r + x]
  <2>5. Totals(p, c, S, h)
    <3>1. h[{}] = r  BY <2>3
    <3>2. ASSUME NEW T \in SUBSET {1} PROVE h[T] = totalOf(p, c, h, T)
      <4>1. CASE T = {}  BY <4>1 DEF totalOf
      <4>2. CASE T = {1}
        <5>1. h[T] = r + x  BY <4>2
        <5> HIDE DEF h, r, x
        <5>2. totalOf(p, c, h, T) = h[{}] + x
          BY <2>2, <2>3, <2>4, <4>2 DEF totalOf, x
        <5>3. QED  BY <3>1, <5>1, <5>2
      <4>3. QED  BY <2>3, <4>1, <4>2
    <3>3. h = [T \in SUBSET {1} |-> h[T]]  OBVIOUS
    <3> HIDE DEF h
    <3>4. QED  BY <2>1, <3>2, <3>3 DEF Totals
  <2>6. Totals(p, c, S, f)  BY <2>5
  <2> HIDE DEF f, S, h
  <2>7. f[{}] = r
    BY <2>1, <2>3, <2>6 DEF Totals, totalOf
  <2>8. f[{1}] = totalOf(p, c, f, {1})
    BY <2>1, <2>3, <2>6 DEF Totals
  <2>9. totalOf(p, c, f, {1}) = f[{}] + x
    BY <2>2, <2>3, <2>4 DEF totalOf
  <2>10. QED  BY <1>5, <1>6, <1>8, <2>1, <2>7, <2>8, <2>9 DEF t
<1>9. QED  BY <1>7, <1>8

-----------------------------------------------------------------------------
(* Positions without external ones, as most Sets have them. *)

\* The positions of a SetToken without external positions.  What is not listed
\* is not held: issuance, which visits listed components, misses nothing.
PlainInv(p) ==
  /\ p \in PositionState
  /\ p.positionMultiplier > 0
  /\ IsInjective(p.components)
  /\ \A c \in Component :
       /\ p.virtualUnit[c] >= 0
       /\ p.virtualUnit[c] > 0 => isComponent(p, c)
       /\ p.externalPositionModules[c] = << >>

\* The real unit is the virtual one at the multiplier, rounded down.
LEMMA RealUnitFloors ==
  ASSUME NEW p, PlainInv(p), NEW c \in Component
  PROVE  LET r == getDefaultPositionRealUnit(p, c)
             n == p.virtualUnit[c] * p.positionMultiplier
         IN  /\ n \in Nat /\ r \in Nat /\ r = n \div PRECISE_UNIT
             /\ r * PRECISE_UNIT <= n /\ n <= (r + 1) * PRECISE_UNIT
<1> DEFINE n == p.virtualUnit[c] * p.positionMultiplier
           r == n \div PRECISE_UNIT
<1>1. PRECISE_UNIT \in Nat \ {0}  BY PreciseUnitAssumption
<1>2. p.virtualUnit[c] \in Nat /\ p.positionMultiplier \in Nat
  BY DEF PlainInv, PositionState
<1>3. n \in Nat  BY <1>2
<1>4. getDefaultPositionRealUnit(p, c) = r
  BY <1>1, <1>3, DivDownFloors
  DEF getDefaultPositionRealUnit, _convertVirtualToRealUnit, conservativePreciseMul
<1> HIDE DEF n
<1>5. /\ r \in Nat /\ r * PRECISE_UNIT <= n
      /\ n < r * PRECISE_UNIT + PRECISE_UNIT
  BY <1>1, <1>3, NatDivBounds
<1> HIDE DEF r
<1>6. n <= (r + 1) * PRECISE_UNIT  BY <1>1, <1>3, <1>5
<1>7. QED  BY <1>3, <1>4, <1>5, <1>6 DEF n, r

\* A unit that is stored reads back as at most what was asked for.
LEMMA StoredReadsBelow ==
  ASSUME NEW v \in Nat, NEW m \in Nat \ {0}, NEW u \in Nat,
         v * m <= u * PRECISE_UNIT
  PROVE  (v * m) \div PRECISE_UNIT <= u
<1> DEFINE n == v * m
           r == n \div PRECISE_UNIT
<1>1. PRECISE_UNIT \in Nat \ {0}  BY PreciseUnitAssumption
<1>2. n \in Nat  OBVIOUS
<1> HIDE DEF n
<1>3. r \in Nat /\ r * PRECISE_UNIT <= n  BY <1>1, <1>2, NatDivBounds
<1>4. n <= u * PRECISE_UNIT  BY DEF n
<1> HIDE DEF r
<1>5. r * PRECISE_UNIT <= u * PRECISE_UNIT  BY <1>1, <1>2, <1>3, <1>4
<1>6. r <= u  BY <1>1, <1>3, <1>5
<1>7. QED  BY <1>6 DEF r, n

\* editDefaultPosition touches one component, stores at most the unit asked
\* for, and lists the component when it stores any.
LEMMA EditDefaultKeeps ==
  ASSUME NEW p, PlainInv(p), NEW c \in Component, NEW u \in Nat,
         editDefaultPositionOk(p, c, u)
  PROVE  LET q == editDefaultPosition(p, c, u)
         IN  /\ PlainInv(q)
             /\ q.positionMultiplier = p.positionMultiplier
             /\ \A d \in Component \ {c} : q.virtualUnit[d] = p.virtualUnit[d]
             /\ q.virtualUnit[c] = (u * PRECISE_UNIT) \div p.positionMultiplier
             /\ getDefaultPositionRealUnit(q, c) <= u
<1> DEFINE m == p.positionMultiplier
           v == _convertRealToVirtualUnit(p, u)
           L == IF listsComponent(p, c, u) THEN Append(p.components, c)
                ELSE IF delistsComponent(p, c, u) THEN removeStorage(p.components, c)
                ELSE p.components
           units == [p.virtualUnit EXCEPT ![c] = v]
           q == editDefaultPosition(p, c, u)
<1>1. PRECISE_UNIT \in Nat \ {0} /\ m \in Nat \ {0}
  BY PreciseUnitAssumption DEF PlainInv, PositionState
<1>2. v \in Nat /\ v * m <= u * PRECISE_UNIT /\ (u = 0 => v = 0)
  <2>1. u * PRECISE_UNIT \in Nat /\ u * PRECISE_UNIT \in Int  BY <1>1
  <2>2. v = (u * PRECISE_UNIT) \div m
    BY <1>1, <2>1, DivDownFloors DEF _convertRealToVirtualUnit, conservativePreciseDiv
  <2>3. v \in Nat /\ v * m <= u * PRECISE_UNIT
    BY <1>1, <2>1, <2>2, NatDivBounds
  <2>4. ASSUME u = 0 PROVE v = 0
    BY <1>1, <2>2, <2>4
  <2>5. QED  BY <2>3, <2>4
<1>2a. v = (u * PRECISE_UNIT) \div m
  <2>1. u * PRECISE_UNIT \in Int  BY <1>1
  <2>2. QED
    BY <1>1, <2>1, DivDownFloors DEF _convertRealToVirtualUnit, conservativePreciseDiv
<1> HIDE DEF v
<1>3. /\ p.components \in Seq(Component) /\ IsInjective(p.components)
      /\ p.virtualUnit \in [Component -> Int]
      /\ p.externalPositionModules[c] = << >>
  BY DEF PlainInv, PositionState
<1>4. /\ L \in Seq(Component) /\ IsInjective(L)
      /\ \A d \in Component \ {c} : contains(p.components, d) => contains(L, d)
      /\ u > 0 => contains(L, c)
  <2>1. CASE listsComponent(p, c, u)
    <3>1. ~contains(p.components, c)
      BY <2>1 DEF editDefaultPositionOk, addComponentOk, isComponent
    <3>2. /\ L \in Seq(Component) /\ IsInjective(L)
          /\ ToSet(L) = ToSet(p.components) \cup {c}
      BY <1>3, <2>1, <3>1, PushKeepsDistinct
    <3>3. QED  BY <3>2, ContainsIsMembership
  <2>2. CASE delistsComponent(p, c, u)
    <3>1. contains(p.components, c) /\ u = 0
      BY <2>2 DEF editDefaultPositionOk, removeComponentOk, isComponent,
                  delistsComponent
    <3>2. ~listsComponent(p, c, u)  BY <3>1 DEF listsComponent
    <3>3. /\ L \in Seq(Component) /\ IsInjective(L)
          /\ ToSet(L) = ToSet(p.components) \ {c}
      BY <1>3, <2>2, <3>1, <3>2, RemoveStorageKeepsDistinct
    <3>4. QED  BY <3>1, <3>3, ContainsIsMembership
  <2>3. CASE ~listsComponent(p, c, u) /\ ~delistsComponent(p, c, u)
    <3>1. L = p.components  BY <2>3
    <3>2. ASSUME u > 0 PROVE contains(L, c)
      <4>1. getDefaultPositionRealUnit(p, c) > 0
        BY <1>3, <2>3, <3>2
        DEF listsComponent, hasDefaultPosition, hasExternalPosition
      <4>2. p.virtualUnit[c] > 0
        <5>1. p.virtualUnit[c] \in Nat
          BY DEF PlainInv, PositionState
        <5>2. SUFFICES ASSUME p.virtualUnit[c] = 0 PROVE FALSE
          BY <5>1
        <5>3. p.virtualUnit[c] * m = 0  BY <1>1, <5>2
        <5>4. getDefaultPositionRealUnit(p, c) = 0 \div PRECISE_UNIT
          BY <5>3, RealUnitFloors
        <5>5. QED  BY <1>1, <4>1, <5>4
      <4>3. QED  BY <3>1, <4>2 DEF PlainInv, isComponent
    <3>3. QED  BY <1>3, <3>1, <3>2
  <2>4. QED  BY <2>1, <2>2, <2>3
<1>5. q = [p EXCEPT !.components = L, !.virtualUnit = units]
  BY <1>3 DEF editDefaultPosition, editDefaultPositionUnit, addComponent,
    removeComponent, PlainInv, PositionState, v, _convertRealToVirtualUnit
<1> HIDE DEF L, q
<1>6. /\ units \in [Component -> Int] /\ units[c] = v
      /\ \A d \in Component \ {c} : units[d] = p.virtualUnit[d]
  BY <1>2, <1>3
<1> HIDE DEF units
<1>7. /\ q.components = L /\ q.virtualUnit = units
      /\ q.positionMultiplier = m /\ q \in PositionState
      /\ q.externalPositionModules = p.externalPositionModules
  BY <1>4, <1>5, <1>6 DEF PlainInv, PositionState
<1>8. PlainInv(q)
  <2>1. \A d \in Component \ {c} :
          p.virtualUnit[d] >= 0 /\ (p.virtualUnit[d] > 0 => contains(p.components, d))
    BY DEF PlainInv, isComponent
  <2>2. v > 0 => u > 0  BY <1>2
  <2>3. QED
    BY <1>1, <1>2, <1>4, <1>6, <1>7, <2>1, <2>2 DEF PlainInv, isComponent
<1>9. getDefaultPositionRealUnit(q, c) <= u
  <2>1. getDefaultPositionRealUnit(q, c) = (v * m) \div PRECISE_UNIT
    BY <1>6, <1>7, <1>8, RealUnitFloors
  <2>2. QED  BY <1>1, <1>2, <2>1, StoredReadsBelow
<1>10. QED  BY <1>2a, <1>6, <1>7, <1>8, <1>9 DEF q

\* The EVM's quotient of natural numbers.
LEMMA TruncationFloors ==
  ASSUME NEW a \in Nat, NEW b \in Nat \ {0}
  PROVE  sdiv(a, b) = a \div b
BY DEF sdiv, abs

\* The enumeration of a finite set.
LEMMA EnumerationIsDistinct ==
  ASSUME NEW S, IsFiniteSet(S), S \subseteq Component
  PROVE  LET s == SetToSeq(S)
         IN  /\ s \in Seq(Component) /\ IsInjective(s)
             /\ \A i \in DOMAIN s : s[i] \in S
<1> DEFINE n == Cardinality(S)
           s == SetToSeq(S)
<1>1. n \in Nat /\ ExistsBijection(1 .. n, S)  BY FS_CardinalityType
<1>2. \E f \in [1 .. n -> S] : IsInjective(f)
  BY <1>1 DEF ExistsBijection, Bijection, Injection, IsInjective
<1>3. s \in [1 .. n -> S] /\ IsInjective(s)
  BY <1>2 DEF SetToSeq
<1> HIDE DEF n, s
<1>4. QED  BY <1>1, <1>3 DEF s

\* A SetToken starts with the units given, listed where there is one.
LEMMA NewIsPlain ==
  ASSUME NEW L \in Seq(Component), IsInjective(L), NEW U,
         \A i \in DOMAIN L : U[i] \in Nat
  PROVE  PlainInv(newPositions(L, U))
<1> DEFINE unit(c) == IF contains(L, c) THEN U[indexOf(L, c)] ELSE 0
           units == [c \in Component |-> unit(c)]
           none == << >>
           p == newPositions(L, U)
<1>1. PRECISE_UNIT \in Int /\ PRECISE_UNIT > 0  BY PreciseUnitAssumption
<1>2. \A c \in Component : unit(c) \in Nat /\ (unit(c) > 0 => contains(L, c))
  <2> SUFFICES ASSUME NEW c \in Component
               PROVE  unit(c) \in Nat /\ (unit(c) > 0 => contains(L, c))
    OBVIOUS
  <2>1. CASE contains(L, c)
    <3>1. indexOf(L, c) \in 1 .. Len(L)  BY <2>1, IndexOfFinds
    <3>2. indexOf(L, c) \in DOMAIN L  BY <3>1
    <3>3. QED  BY <2>1, <3>2
  <2>2. CASE ~contains(L, c)  BY <2>2
  <2>3. QED  BY <2>1, <2>2
<1>3. p = [components |-> L, virtualUnit |-> units,
           externalPositionModules |-> [c \in Component |-> none],
           externalUnit |-> [c \in Component |-> [m \in PositionModule |-> 0]],
           externalData |-> [c \in Component |-> [m \in PositionModule |-> FALSE]],
           positionMultiplier |-> PRECISE_UNIT]
  BY Zenon DEF newPositions
<1> HIDE DEF unit, p
<1>4. units \in [Component -> Int] /\ \A c \in Component : units[c] = unit(c)
  BY <1>2
<1>5. none \in Seq(PositionModule)  OBVIOUS
<1> HIDE DEF none, units
<1>6. p \in PositionState  BY <1>1, <1>3, <1>4, <1>5 DEF PositionState
<1>7. /\ p.components = L /\ p.virtualUnit = units
      /\ p.positionMultiplier = PRECISE_UNIT
      /\ \A c \in Component : p.externalPositionModules[c] = none
  BY <1>3
<1>8. PlainInv(p)
  BY <1>1, <1>2, <1>4, <1>6, <1>7 DEF PlainInv, isComponent, none
<1>9. QED  BY <1>8 DEF p

\* A multiplier that is validated keeps such positions as they are.
LEMMA RepricingIsPlain ==
  ASSUME NEW p, PlainInv(p), NEW n \in Int, _validateNewMultiplier(p, n)
  PROVE  LET e == editPositionMultiplier(p, n)
         IN  /\ PlainInv(e) /\ n > 0
             /\ e.positionMultiplier = n /\ e.virtualUnit = p.virtualUnit
<1>1. PICK u \in positionUnits(p) : conservativePreciseMul(u, n) > 0
  BY DEF _validateNewMultiplier
<1>2. u \in Int /\ u > 0
  <2>1. \A c \in ToSet(p.components) : c \in Component
    BY DEF PlainInv, PositionState, ToSet
  <2>2. \A c \in Component : \A m \in ToSet(p.externalPositionModules[c]) :
          m \in PositionModule
    BY DEF PlainInv, PositionState, ToSet
  <2>3. p \in PositionState  BY DEF PlainInv
  <2>4. QED  BY <2>1, <2>2, <2>3 DEF positionUnits, abs, PositionState
<1>3. n > 0  BY <1>1, <1>2, PositiveProduct
<1>4. QED
  BY <1>3 DEF editPositionMultiplier, PlainInv, PositionState, isComponent

-----------------------------------------------------------------------------
(* The sum over a list, which the library takes from the last slot on. *)

running(v, g, T) == IF T = {} THEN 0 ELSE g[T \ {Max(T)}] + v[Max(T)]

Running(v, S, g) == g = [T \in SUBSET S |-> running(v, g, T)]

\* A set of slots has a last one.
LEMMA MaxIsMember ==
  ASSUME NEW n \in Nat
  PROVE  \A T \in SUBSET (1 .. n) : T # {} => Max(T) \in T
<1> DEFINE HasLast(T) == \E x \in T : \A y \in T : x >= y
           N == {k \in Nat : \A T \in SUBSET (1 .. k) : T # {} => HasLast(T)}
<1>1. 0 \in N
  <2>1. 1 .. 0 = {}  OBVIOUS
  <2> HIDE DEF HasLast
  <2>2. QED  BY <2>1
<1>2. ASSUME NEW k \in N PROVE k + 1 \in N
  <2> SUFFICES ASSUME NEW T \in SUBSET (1 .. k + 1), T # {} PROVE HasLast(T)
    OBVIOUS
  <2>1. CASE k + 1 \in T  BY <2>1
  <2>2. CASE k + 1 \notin T
    <3>1. T \in SUBSET (1 .. k)  BY <2>2
    <3>2. QED  BY <3>1
  <2>3. QED  BY <2>1, <2>2
<1> HIDE DEF HasLast
<1>3. N = Nat  BY <1>1, <1>2, NaturalsFromZero
<1>4. QED  BY <1>3 DEF HasLast, Max

\* The recursion has one solution, and it is the sum.
LEMMA RunningIsSum ==
  ASSUME NEW n \in Nat, NEW v, \A i \in 1 .. n : v[i] \in Int
  PROVE  LET S == 1 .. n
         IN  /\ \E g : Running(v, S, g)
             /\ \A g : Running(v, S, g) => g[S] = sumOver(v, S)
<1> DEFINE S == 1 .. n
           h == [T \in SUBSET S |-> sumOver(v, T)]
<1>1. IsFiniteSet(S)  BY FS_Interval
<1>2. \A T \in SUBSET S : T # {} => Max(T) \in T  BY MaxIsMember
<1> HIDE DEF S
<1>3. ASSUME NEW T \in SUBSET S, T # {}
      PROVE  /\ T \ {Max(T)} \in SUBSET S
             /\ sumOver(v, T \ {Max(T)}) \in Int /\ v[Max(T)] \in Int
             /\ sumOver(v, T) = v[Max(T)] + sumOver(v, T \ {Max(T)})
  <2>1. IsFiniteSet(T)  BY <1>1, FS_Subset
  <2>2. \A i \in T : v[i] \in Int  BY DEF S
  <2>3. QED  BY <1>2, <1>3, <2>1, <2>2, SumRemoves
<1>4. sumOver(v, {}) = 0  BY SumUnfolds, FS_EmptySet
<1>5. Running(v, S, h)
  <2>1. ASSUME NEW T \in SUBSET S PROVE h[T] = running(v, h, T)
    <3>1. CASE T = {}  BY <1>4, <3>1 DEF running
    <3>2. CASE T # {}
      <4>1. h[T \ {Max(T)}] = sumOver(v, T \ {Max(T)}) /\ h[T] = sumOver(v, T)
        BY <1>3, <3>2
      <4> HIDE DEF h
      <4>2. QED  BY <1>3, <3>2, <4>1 DEF running
    <3>3. QED  BY <3>1, <3>2
  <2>2. h = [T \in SUBSET S |-> h[T]]  OBVIOUS
  <2> HIDE DEF h
  <2>3. QED  BY <2>1, <2>2 DEF Running
<1> HIDE DEF h
<1>6. ASSUME NEW g, Running(v, S, g) PROVE g[S] = sumOver(v, S)
  <2> DEFINE N == {k \in Nat : \A T \in SUBSET S :
                     Cardinality(T) = k => g[T] = sumOver(v, T)}
  <2>1. \A T \in SUBSET S : g[T] = running(v, g, T)
    BY <1>6 DEF Running
  <2>2. \A T \in SUBSET S :
          /\ Cardinality(T) \in Nat /\ (Cardinality(T) = 0 <=> T = {})
          /\ \A x \in T : Cardinality(T \ {x}) = Cardinality(T) - 1
    BY <1>1, SubsetsOfFinite
  <2>3. 0 \in N
    <3>1. ASSUME NEW T \in SUBSET S, Cardinality(T) = 0
          PROVE  g[T] = sumOver(v, T)
      BY <1>4, <2>1, <2>2, <3>1 DEF running
    <3>2. QED  BY <3>1
  <2>4. ASSUME NEW k \in N PROVE k + 1 \in N
    <3>1. ASSUME NEW T \in SUBSET S, Cardinality(T) = k + 1
          PROVE  g[T] = sumOver(v, T)
      <4>1. T # {}  BY <2>2, <3>1
      <4>2. Max(T) \in T  BY <1>2, <4>1
      <4>3. Cardinality(T \ {Max(T)}) = k /\ T \ {Max(T)} \in SUBSET S
        BY <2>2, <3>1, <4>2
      <4>4. g[T \ {Max(T)}] = sumOver(v, T \ {Max(T)})  BY <4>3
      <4>5. g[T] = g[T \ {Max(T)}] + v[Max(T)]  BY <2>1, <4>1 DEF running
      <4>6. QED  BY <1>3, <4>1, <4>4, <4>5
    <3>2. QED  BY <3>1
  <2>5. N = Nat
    <3>1. N \in SUBSET Nat  OBVIOUS
    <3> HIDE DEF N
    <3>2. QED  BY <2>3, <2>4, <3>1, NaturalsFromZero
  <2>6. S \in SUBSET S /\ Cardinality(S) \in N  BY <2>2, <2>5
  <2>7. QED  BY <2>6
<1>7. QED  BY <1>5, <1>6 DEF S
==============================================================================
