--------------------------- MODULE CollateralProofs ---------------------------
(***************************************************************************)
(* Theorems about the backing of a SetToken, its streaming fee and the     *)
(* balances of its holders, for any components, units, fees, trades and    *)
(* scale, and any finite set of accounts.                                  *)
(***************************************************************************)
EXTENDS Collateral, LibraryProofs, FiniteSetTheorems

VaultInv == VaultTypeOK /\ PlainInv(positions)

\* What accruals took and what is pending, before the quotient is rounded.
FeeInv ==
  /\ FeeTypeOK /\ owed \in Nat /\ charged \in Nat
  /\ feeStates.lastStreamingFeeTimestamp <= blockTimestamp
  /\ charged * ONE_YEAR_IN_SECONDS
       + (blockTimestamp - feeStates.lastStreamingFeeTimestamp)
           * feeStates.streamingFeePercentage
       <= owed

-----------------------------------------------------------------------------
(* Units of a position. *)

\* Recalculating a position from the balances leaves the component no further
\* short of its backing than it was, and not short at all of an empty balance.
LEMMA RecalculationKeeps ==
  ASSUME NEW p, PlainInv(p), NEW c \in Component, NEW supply \in Nat,
         NEW pre \in Nat, NEW post \in Nat,
         calculateAndEditDefaultPositionOk(p, c, supply, pre, post)
  PROVE  LET q == calculateAndEditDefaultPosition(p, c, supply, pre, post)
             before == deficitOf(p, supply, pre, c)
         IN  /\ PlainInv(q)
             /\ q.positionMultiplier = p.positionMultiplier
             /\ \A d \in Component \ {c} : q.virtualUnit[d] = p.virtualUnit[d]
             /\ deficitOf(q, supply, post, c) <= IF before > 0 THEN before ELSE 0
<1> DEFINE u == editedUnit(p, c, supply, pre, post)
           q == calculateAndEditDefaultPosition(p, c, supply, pre, post)
           r == getDefaultPositionRealUnit(p, c)
           s == getDefaultPositionRealUnit(q, c)
<1>1. PRECISE_UNIT \in Nat \ {0}  BY PreciseUnitAssumption
<1>2. r \in Nat  BY RealUnitFloors
<1>3. u \in Nat /\ supply * u <= IF post = 0 THEN 0
        ELSE post * PRECISE_UNIT - pre * PRECISE_UNIT + supply * r
  BY <1>2, EditedUnitCovers
<1>4. editDefaultPositionOk(p, c, u)
  BY DEF calculateAndEditDefaultPositionOk
<1>5. q = editDefaultPosition(p, c, u)
  BY DEF calculateAndEditDefaultPosition
<1> HIDE DEF u, q
<1>6. /\ PlainInv(q) /\ q.positionMultiplier = p.positionMultiplier
      /\ \A d \in Component \ {c} : q.virtualUnit[d] = p.virtualUnit[d]
      /\ s <= u
  BY <1>3, <1>4, <1>5, EditDefaultKeeps
<1>7. s \in Nat  BY <1>6, RealUnitFloors
<1>8. deficitOf(q, supply, post, c) = supply * s - post * PRECISE_UNIT
      /\ deficitOf(p, supply, pre, c) = supply * r - pre * PRECISE_UNIT
  BY DEF deficitOf
<1> HIDE DEF s, r
<1>9. supply * s <= supply * u  BY <1>3, <1>6, <1>7
<1>10. /\ supply * s \in Int /\ supply * u \in Int /\ supply * r \in Int
       /\ post * PRECISE_UNIT \in Nat /\ pre * PRECISE_UNIT \in Int
  BY <1>1, <1>2, <1>3, <1>7
<1>11. deficitOf(q, supply, post, c)
         <= IF deficitOf(p, supply, pre, c) > 0
            THEN deficitOf(p, supply, pre, c) ELSE 0
  BY <1>3, <1>8, <1>9, <1>10
<1>12. QED  BY <1>6, <1>11 DEF q

\* The lower multiplier pays for the SetTokens minted, up to the rounding of
\* one unit for each SetToken.
LEMMA InflationPaid ==
  ASSUME NEW S \in Nat, NEW S1 \in Nat, NEW v \in Nat, NEW m \in Nat,
         NEW n \in Nat, NEW D \in Nat, NEW r \in Nat, NEW r1 \in Nat,
         S1 * D <= S * PRECISE_UNIT, n * PRECISE_UNIT <= m * D,
         r1 * PRECISE_UNIT <= v * n, v * m <= (r + 1) * PRECISE_UNIT
  PROVE  S1 * r1 <= S * r + S
<1> DEFINE P == PRECISE_UNIT
<1>1. P \in Nat \ {0}  BY PreciseUnitAssumption
<1>2. \A x, y, z \in Nat : x <= y => z * x <= z * y  OBVIOUS
<1> HIDE DEF P
<1>3. (r1 * P) * P <= v * (m * D)
  <2>1. P * (r1 * P) <= P * (v * n)  BY <1>1, <1>2 DEF P
  <2>2. v * (n * P) <= v * (m * D)  BY <1>1, <1>2 DEF P
  <2>3. P * (r1 * P) = (r1 * P) * P /\ P * (v * n) = v * (n * P)  BY <1>1
  <2>4. /\ (r1 * P) * P \in Int /\ v * (n * P) \in Int /\ v * (m * D) \in Int
    BY <1>1
  <2>5. QED  BY <2>1, <2>2, <2>3, <2>4
<1>4. S1 * ((r1 * P) * P) <= S1 * (v * (m * D))
  <2>1. (r1 * P) * P \in Nat /\ v * (m * D) \in Nat  BY <1>1
  <2>2. QED  BY <1>2, <1>3, <2>1
<1>5. S1 * (v * (m * D)) <= (v * m) * (S * P)
  <2>1. v * m \in Nat /\ S1 * D \in Nat /\ S * P \in Nat  BY <1>1
  <2>2. (v * m) * (S1 * D) <= (v * m) * (S * P)  BY <1>2, <2>1 DEF P
  <2>3. S1 * (v * (m * D)) = (v * m) * (S1 * D)  OBVIOUS
  <2>4. QED  BY <2>2, <2>3
<1>6. (S * P) * (v * m) <= (S * P) * ((r + 1) * P)
  <2>1. v * m \in Nat /\ (r + 1) * P \in Nat /\ S * P \in Nat  BY <1>1
  <2>2. QED  BY <1>2, <2>1 DEF P
<1>7. (S1 * r1) * (P * P) <= (S * (r + 1)) * (P * P)
  <2>1. S1 * ((r1 * P) * P) = (S1 * r1) * (P * P)  BY <1>1
  <2>2. (S * P) * ((r + 1) * P) = (S * (r + 1)) * (P * P)  BY <1>1
  <2>3. (v * m) * (S * P) = (S * P) * (v * m)  BY <1>1
  <2>4. /\ S1 * ((r1 * P) * P) \in Int /\ S1 * (v * (m * D)) \in Int
        /\ (v * m) * (S * P) \in Int /\ (S * P) * ((r + 1) * P) \in Int
    BY <1>1
  <2>5. QED  BY <1>4, <1>5, <1>6, <2>1, <2>2, <2>3, <2>4
<1>8. S1 * r1 <= S * (r + 1)
  <2>1. P * P \in Nat \ {0} /\ S1 * r1 \in Nat /\ S * (r + 1) \in Nat  BY <1>1
  <2>2. \A x, y \in Nat, z \in Nat \ {0} : x * z <= y * z => x <= y  OBVIOUS
  <2>3. QED  BY <1>7, <2>1, <2>2
<1>9. QED  BY <1>8

-----------------------------------------------------------------------------
(* The streaming fee. *)

LEMMA FeeInitEstablishes == Init => FeeInv
BY StreamingFeeAssumption, PreciseUnitAssumption
DEF Init, FeeInit, FeeInv, FeeTypeOK, FeeState, NoFeeState

\* The fee due is a natural number whose product with the year is at most what
\* was pending.
LEMMA PendingFee ==
  ASSUME FeeInv
  PROVE  /\ _calculateStreamingFee \in Nat
         /\ _calculateStreamingFee * ONE_YEAR_IN_SECONDS
              <= (blockTimestamp - feeStates.lastStreamingFeeTimestamp)
                   * feeStates.streamingFeePercentage
<1> DEFINE elapsed == blockTimestamp - feeStates.lastStreamingFeeTimestamp
           x == elapsed * feeStates.streamingFeePercentage
<1>1. elapsed \in Nat /\ feeStates.streamingFeePercentage \in Nat
  BY DEF FeeInv, FeeTypeOK, FeeState
<1>2. x \in Nat  BY <1>1
<1>3. _calculateStreamingFee = x \div ONE_YEAR_IN_SECONDS
  BY DEF _calculateStreamingFee
<1> HIDE DEF x
<1>4. QED
  BY <1>2, <1>3, NatDivBounds, StreamingFeeAssumption DEF x

\* Every step keeps the meters of fees in order: an accrual moves what was
\* pending, rounded down, to what was charged; a second adds the rate in force.
LEMMA FeePreserved == FeeInv /\ [Next]_vars => FeeInv'
<1> SUFFICES ASSUME FeeInv, [Next]_vars PROVE FeeInv'
  OBVIOUS
<1> DEFINE Y == ONE_YEAR_IN_SECONDS
           rate == feeStates.streamingFeePercentage
           elapsed == blockTimestamp - feeStates.lastStreamingFeeTimestamp
           fee == _calculateStreamingFee
<1>1. /\ Y \in Nat \ {0} /\ PRECISE_UNIT \in Nat \ {0}
      /\ protocolRecipient \in Account
      /\ FeePercentages \subseteq Nat
  BY StreamingFeeAssumption, PreciseUnitAssumption, CollateralAssumption
<1>2. /\ moduleState \in {"NONE", "PENDING", "INITIALIZED"}
      /\ feeStates \in FeeState /\ blockTimestamp \in Nat
      /\ owed \in Nat /\ charged \in Nat
      /\ feeStates.lastStreamingFeeTimestamp \in Nat
      /\ rate \in Nat /\ elapsed \in Nat
      /\ charged * Y + elapsed * rate <= owed
  BY DEF FeeInv, FeeTypeOK, FeeState
<1>3. charged * Y \in Nat /\ elapsed * rate \in Nat  BY <1>1, <1>2
<1>4. CASE UNCHANGED <<feeVars, owed, charged>>
  BY <1>4 DEF FeeInv, FeeTypeOK, feeVars
<1>5. CASE UNCHANGED vars  BY <1>4, <1>5 DEF vars, feeVars
<1>6. CASE UseVault /\ UNCHANGED <<moduleState, feeStates, blockTimestamp, owed, charged>>
  BY <1>4, <1>6 DEF feeVars
<1>7. CASE UseFee /\ charged' = charged + _calculateStreamingFee /\ UNCHANGED owed
  <2>1. /\ moduleState' = moduleState /\ blockTimestamp' = blockTimestamp
        /\ feeStates' \in FeeState
        /\ feeStates'.lastStreamingFeeTimestamp = blockTimestamp
    <3>1. CASE accrueFee
      BY <1>2, <3>1 DEF accrueFee, FeeState
    <3>2. ASSUME NEW f \in FeePercentages, updateStreamingFee(f)
          PROVE  /\ moduleState' = moduleState /\ blockTimestamp' = blockTimestamp
                 /\ feeStates' \in FeeState
                 /\ feeStates'.lastStreamingFeeTimestamp = blockTimestamp
      BY <1>1, <1>2, <3>2 DEF updateStreamingFee, FeeState
    <3>3. QED  BY <1>7, <3>1, <3>2 DEF UseFee
  <2>2. fee \in Nat /\ fee * Y <= elapsed * rate  BY PendingFee
  <2> HIDE DEF fee
  <2>3. charged' \in Nat /\ charged' * Y = charged * Y + fee * Y
    BY <1>1, <1>2, <1>7, <2>2 DEF fee
  <2>4. feeStates'.streamingFeePercentage \in Nat  BY <2>1 DEF FeeState
  <2>5. (blockTimestamp' - feeStates'.lastStreamingFeeTimestamp)
          * feeStates'.streamingFeePercentage = 0
    BY <1>2, <2>1, <2>4
  <2>6. fee * Y \in Int  BY <1>1, <2>2
  <2>7. charged' * Y <= owed'  BY <1>2, <1>3, <1>7, <2>2, <2>3, <2>6
  <2>8. charged' * Y \in Int  BY <1>1, <2>3
  <2>9. QED
    BY <1>2, <1>7, <2>1, <2>3, <2>5, <2>7, <2>8 DEF FeeInv, FeeTypeOK
<1>8. CASE ManageFee /\ UNCHANGED <<owed, charged>>
  <2>1. ASSUME NEW a \in Account, updateFeeRecipient(a) PROVE FeeInv'
    BY <1>2, <1>8, <2>1 DEF updateFeeRecipient, FeeInv, FeeTypeOK, FeeState
  <2>2. ASSUME NEW a \in Account, NEW max \in FeePercentages,
               NEW f \in FeePercentages, initialize(a, max, f)
        PROVE  FeeInv'
    <3>1. /\ moduleState' = "INITIALIZED" /\ blockTimestamp' = blockTimestamp
          /\ feeStates' = [feeRecipient |-> a, maxStreamingFeePercentage |-> max,
                           streamingFeePercentage |-> f,
                           lastStreamingFeeTimestamp |-> blockTimestamp]
      BY <2>2 DEF initialize
    <3>2. max \in 0 .. PRECISE_UNIT - 1 /\ f \in Nat
      BY <1>1, <2>2 DEF initialize
    <3>3. feeStates' \in FeeState  BY <1>2, <3>1, <3>2 DEF FeeState
    <3>4. (blockTimestamp' - feeStates'.lastStreamingFeeTimestamp)
            * feeStates'.streamingFeePercentage = 0
      BY <1>2, <3>1, <3>2
    <3>5. QED
      BY <1>2, <1>3, <1>8, <3>1, <3>3, <3>4 DEF FeeInv, FeeTypeOK
  <2>3. CASE addModule  BY <1>8, <2>3 DEF addModule, FeeInv, FeeTypeOK
  <2>4. QED  BY <1>8, <2>1, <2>2, <2>3 DEF ManageFee
<1>9. CASE removeModule /\ UNCHANGED <<owed, charged>>
  <2>1. /\ moduleState' = "NONE" /\ blockTimestamp' = blockTimestamp
        /\ feeStates' = NoFeeState(protocolRecipient)
    BY <1>9 DEF removeModule
  <2>2. /\ feeStates' \in FeeState
        /\ feeStates'.lastStreamingFeeTimestamp = 0
        /\ feeStates'.streamingFeePercentage = 0
    BY <1>1, <2>1 DEF NoFeeState, FeeState
  <2>3. (blockTimestamp' - feeStates'.lastStreamingFeeTimestamp)
          * feeStates'.streamingFeePercentage = 0
    BY <1>2, <2>1, <2>2
  <2>4. QED  BY <1>2, <1>3, <1>9, <2>1, <2>2, <2>3 DEF FeeInv, FeeTypeOK
<1>10. CASE tick /\ owed' = owed + feeStates.streamingFeePercentage /\ UNCHANGED charged
  <2>1. /\ blockTimestamp' = blockTimestamp + 1
        /\ moduleState' = moduleState /\ feeStates' = feeStates
    BY <1>10 DEF tick
  <2>2. (blockTimestamp' - feeStates'.lastStreamingFeeTimestamp)
          * feeStates'.streamingFeePercentage = elapsed * rate + rate
    <3>1. blockTimestamp' - feeStates'.lastStreamingFeeTimestamp = elapsed + 1
      <4>1. feeStates'.lastStreamingFeeTimestamp = feeStates.lastStreamingFeeTimestamp
        BY <2>1
      <4>2. \A b, l \in Nat : (b + 1) - l = (b - l) + 1  OBVIOUS
      <4>3. QED  BY <1>2, <2>1, <4>1, <4>2
    <3> HIDE DEF elapsed, rate
    <3>2. (elapsed + 1) * rate = elapsed * rate + rate  BY <1>2
    <3>3. QED  BY <2>1, <3>1, <3>2 DEF rate
  <2>3. QED  BY <1>2, <1>3, <1>10, <2>1, <2>2 DEF FeeInv, FeeTypeOK
<1>11. QED  BY <1>5, <1>6, <1>7, <1>8, <1>9, <1>10 DEF Next

\* The fee's state and meters are sound in every state.
THEOREM FeeInvariant == Spec => []FeeInv
BY FeeInitEstablishes, FeePreserved, PTL DEF Spec

\* Nobody pays a streaming fee for a period twice or at a rate set afterwards,
\* for any rates, any length of the year and however often accrueFee is called.
THEOREM NoFeeTwiceCorrect == Spec => []NoFeeChargedTwice
<1>1. FeeInv => NoFeeChargedTwice
  <2> SUFFICES ASSUME FeeInv PROVE NoFeeChargedTwice
    OBVIOUS
  <2> DEFINE Y == ONE_YEAR_IN_SECONDS
             fee == _calculateStreamingFee
             pending == (blockTimestamp - feeStates.lastStreamingFeeTimestamp)
                          * feeStates.streamingFeePercentage
  <2>1. Y \in Nat /\ charged \in Nat /\ owed \in Nat /\ pending \in Int
        /\ charged * Y + pending <= owed
    BY StreamingFeeAssumption DEF FeeInv, FeeTypeOK, FeeState
  <2>2. fee \in Nat /\ fee * Y <= pending  BY PendingFee
  <2> HIDE DEF fee, pending
  <2>3. (charged + fee) * Y = charged * Y + fee * Y  BY <2>1, <2>2
  <2>4. charged * Y \in Int /\ fee * Y \in Int  BY <2>1, <2>2
  <2>5. QED  BY <2>1, <2>2, <2>3, <2>4 DEF NoFeeChargedTwice, fee
<1>2. QED  BY <1>1, FeeInvariant, PTL

-----------------------------------------------------------------------------
(* The positions. *)

LEMMA VaultInitEstablishes == Init => VaultInv
<1> SUFFICES ASSUME NEW s \in SetToSeqs(DOMAIN InitialUnits), s # << >>,
                    VaultInit(s, [i \in DOMAIN s |-> InitialUnits[s[i]]])
             PROVE  VaultInv
  BY DEF Init
<1> DEFINE U == [i \in DOMAIN s |-> InitialUnits[s[i]]]
           n == Cardinality(DOMAIN InitialUnits)
           p == newPositions(s, U)
<1>1. n \in Nat  BY FS_CardinalityType, CollateralAssumption
<1>2. s \in [1 .. n -> DOMAIN InitialUnits]
      /\ \A i, j \in 1 .. n : i # j => s[i] # s[j]
  BY DEF SetToSeqs
<1> HIDE DEF n
<1>3. s \in [1 .. n -> Component]  BY <1>2, CollateralAssumption
<1>4. s \in Seq(Component) /\ IsInjective(s)
  BY <1>1, <1>2, <1>3 DEF IsInjective
<1>5. \A i \in DOMAIN s : U[i] \in Nat
  BY <1>2, CollateralAssumption
<1>6. positions = p /\ totalSupply = 0 /\ balances = [a \in Account |-> 0]
      /\ held = [c \in Component |-> 0]
  BY DEF VaultInit
<1> HIDE DEF U
<1>7. PlainInv(p)  BY <1>4, <1>5, NewIsPlain
<1> HIDE DEF p
<1>8. p \in PositionState  BY <1>7 DEF PlainInv
<1>9. QED  BY <1>6, <1>7, <1>8 DEF VaultInv, VaultTypeOK

\* What a step that leaves the multiplier alone does to the backing, and what
\* an accrual does.
Backing ==
  /\ ~repriced => \A c \in Component :
       deficit(c)' <= IF deficit(c) > 0 THEN deficit(c) ELSE 0
  /\ repriced => \A c \in Component : deficit(c)' <= deficit(c) + totalSupply
  /\ repriced => (totalSupply' - totalSupply) * PRECISE_UNIT
                   <= _calculateStreamingFee * totalSupply'
  /\ repriced => _calculateStreamingFee # 0

\* A step that leaves units, supply and the tokens held alone.
LEMMA StillBacked ==
  ASSUME VaultInv, UNCHANGED <<positions, totalSupply>>,
         \A c \in Component : held'[c] \in Nat /\ held'[c] >= held[c]
  PROVE  Backing
<1>1. ~repriced  BY DEF repriced
<1>2. ASSUME NEW c \in Component PROVE deficit(c)' <= deficit(c) /\ deficit(c) \in Int
                                        /\ deficit(c)' \in Int
  <2> DEFINE r == getDefaultPositionRealUnit(positions, c)
  <2>1. r \in Nat  BY RealUnitFloors DEF VaultInv
  <2>2. deficit(c) = totalSupply * r - held[c] * PRECISE_UNIT
        /\ deficit(c)' = totalSupply * r - held'[c] * PRECISE_UNIT
    BY DEF deficit, deficitOf
  <2> HIDE DEF r
  <2>3. PRECISE_UNIT \in Nat  BY PreciseUnitAssumption
  <2>4. totalSupply \in Nat /\ held[c] \in Nat /\ held'[c] \in Nat
        /\ held'[c] >= held[c]
    BY DEF VaultInv, VaultTypeOK
  <2>5. held[c] * PRECISE_UNIT <= held'[c] * PRECISE_UNIT  BY <2>3, <2>4
  <2>6. totalSupply * r \in Int /\ held[c] * PRECISE_UNIT \in Int
        /\ held'[c] * PRECISE_UNIT \in Int
    BY <2>1, <2>3, <2>4
  <2>7. QED  BY <2>2, <2>5, <2>6
<1>3. \A c \in Component : deficit(c)' <= IF deficit(c) > 0 THEN deficit(c) ELSE 0
  BY <1>2
<1>4. QED  BY <1>1, <1>3 DEF Backing

\* A component that is not listed promises nothing.
LEMMA UnlistedIsEmpty ==
  ASSUME VaultInv, NEW c \in Component, c \notin components
  PROVE  realUnit(c) = 0
<1>1. positions.virtualUnit[c] = 0
  BY ContainsIsMembership
  DEF VaultInv, PlainInv, PositionState, isComponent, components
<1>2. positions.positionMultiplier \in Nat /\ PRECISE_UNIT \in Nat \ {0}
  BY PreciseUnitAssumption DEF VaultInv, PlainInv, PositionState
<1>3. positions.virtualUnit[c] * positions.positionMultiplier = 0
  BY <1>1, <1>2
<1>4. realUnit(c) = 0 \div PRECISE_UNIT
  BY <1>3, RealUnitFloors DEF VaultInv, realUnit
<1>5. QED  BY <1>2, <1>4

LEMMA IssueKeeps ==
  ASSUME VaultInv, NEW a \in Account, NEW q \in Quantity, issue(a, q)
  PROVE  VaultInv' /\ Backing
<1>1. /\ q \in Nat /\ positions' = positions /\ totalSupply' = totalSupply + q
      /\ balances' = [balances EXCEPT ![a] = @ + q]
      /\ held' = [c \in Component |->
                    IF c \in components THEN held[c] + requiredForIssue(c, q)
                                        ELSE held[c]]
  BY CollateralAssumption DEF issue, _mint
<1>2. /\ totalSupply \in Nat /\ balances \in [Account -> Nat]
      /\ held \in [Component -> Nat]
  BY DEF VaultInv, VaultTypeOK
<1>3. ASSUME NEW c \in Component
      PROVE  /\ held'[c] \in Nat
             /\ deficit(c)' <= IF deficit(c) > 0 THEN deficit(c) ELSE 0
  <2> DEFINE r == getDefaultPositionRealUnit(positions, c)
  <2>1. r \in Nat /\ PRECISE_UNIT \in Nat
    BY RealUnitFloors, PreciseUnitAssumption DEF VaultInv
  <2>2. /\ deficit(c) = totalSupply * r - held[c] * PRECISE_UNIT
        /\ deficit(c)' = (totalSupply + q) * r - held'[c] * PRECISE_UNIT
    BY <1>1 DEF deficit, deficitOf
  <2>3. CASE c \in components
    <3>1. held'[c] = held[c] + preciseMulCeil(r, q)
      BY <1>1, <2>3 DEF requiredForIssue, realUnit
    <3> HIDE DEF r
    <3>2. preciseMulCeil(r, q) \in Nat  BY <1>1, <2>1, PreciseMulCeilBound
    <3>3. deficit(c)' <= deficit(c)
      BY <1>1, <1>2, <2>1, <2>2, <3>1, DepositCovers
    <3>4. deficit(c) \in Int /\ deficit(c)' \in Int
      <4>1. /\ totalSupply * r \in Int /\ (totalSupply + q) * r \in Int
            /\ held[c] * PRECISE_UNIT \in Int /\ held'[c] * PRECISE_UNIT \in Int
        BY <1>1, <1>2, <2>1, <3>1, <3>2
      <4>2. QED  BY <2>2, <4>1
    <3>5. QED  BY <1>2, <3>1, <3>2, <3>3, <3>4
  <2>4. CASE c \notin components
    <3>1. r = 0  BY <2>4, UnlistedIsEmpty DEF realUnit
    <3>2. held'[c] = held[c]  BY <1>1, <2>4
    <3>3. held[c] * PRECISE_UNIT \in Nat  BY <1>2, <2>1
    <3> HIDE DEF r
    <3>4. deficit(c)' <= 0 /\ deficit(c) <= 0 /\ deficit(c) \in Int
      BY <1>1, <1>2, <2>1, <2>2, <3>1, <3>2, <3>3
    <3>5. QED  BY <1>2, <3>2, <3>4
  <2>5. QED  BY <2>3, <2>4
<1>4. held' \in [Component -> Nat]
  <2>1. held' = [c \in Component |-> held'[c]]  BY <1>1
  <2>2. QED  BY <1>3, <2>1
<1>5. balances' \in [Account -> Nat] /\ totalSupply' \in Nat  BY <1>1, <1>2
<1>6. ~repriced  BY <1>1 DEF repriced
<1>7. QED
  BY <1>1, <1>3, <1>4, <1>5, <1>6
  DEF VaultInv, VaultTypeOK, PlainInv, PositionState, isComponent, Backing

LEMMA RedeemKeeps ==
  ASSUME VaultInv, NEW a \in Account, NEW q \in Quantity, redeem(a, q)
  PROVE  VaultInv' /\ Backing
<1>1. /\ q \in Nat /\ positions' = positions /\ totalSupply' = totalSupply - q
      /\ balances[a] >= q /\ totalSupply >= q
      /\ balances' = [balances EXCEPT ![a] = @ - q]
      /\ held' = [c \in Component |->
                    IF c \in components THEN held[c] - paidOnRedeem(c, q)
                                        ELSE held[c]]
      /\ \A c \in components : paidOnRedeem(c, q) <= held[c]
  BY CollateralAssumption DEF redeem, _burn, canPay
<1>2. /\ totalSupply \in Nat /\ balances \in [Account -> Nat]
      /\ held \in [Component -> Nat]
  BY DEF VaultInv, VaultTypeOK
<1>3. ASSUME NEW c \in Component
      PROVE  /\ held'[c] \in Nat
             /\ deficit(c)' <= IF deficit(c) > 0 THEN deficit(c) ELSE 0
  <2> DEFINE r == getDefaultPositionRealUnit(positions, c)
  <2>1. r \in Nat /\ PRECISE_UNIT \in Nat
    BY RealUnitFloors, PreciseUnitAssumption DEF VaultInv
  <2>2. /\ deficit(c) = totalSupply * r - held[c] * PRECISE_UNIT
        /\ deficit(c)' = (totalSupply - q) * r - held'[c] * PRECISE_UNIT
    BY <1>1 DEF deficit, deficitOf
  <2>3. CASE c \in components
    <3>1. held'[c] = held[c] - preciseMul(q, r) /\ preciseMul(q, r) <= held[c]
      BY <1>1, <2>3 DEF paidOnRedeem, realUnit
    <3> HIDE DEF r
    <3>2. preciseMul(q, r) \in Nat  BY <1>1, <2>1, PreciseMulBound
    <3>3. deficit(c)' <= deficit(c)
      BY <1>1, <1>2, <2>1, <2>2, <3>1, PaymentCovers
    <3>4. held'[c] \in Nat  BY <1>2, <3>1, <3>2
    <3>5. deficit(c) \in Int /\ deficit(c)' \in Int
      <4>1. /\ totalSupply * r \in Int /\ (totalSupply - q) * r \in Int
            /\ held[c] * PRECISE_UNIT \in Int /\ held'[c] * PRECISE_UNIT \in Int
        BY <1>1, <1>2, <2>1, <3>4
      <4>2. QED  BY <2>2, <4>1
    <3>6. QED  BY <3>3, <3>4, <3>5
  <2>4. CASE c \notin components
    <3>1. r = 0  BY <2>4, UnlistedIsEmpty DEF realUnit
    <3>2. held'[c] = held[c]  BY <1>1, <2>4
    <3>3. held[c] * PRECISE_UNIT \in Nat  BY <1>2, <2>1
    <3> HIDE DEF r
    <3>4. deficit(c)' <= 0 /\ deficit(c) <= 0 /\ deficit(c) \in Int
      BY <1>1, <1>2, <2>1, <2>2, <3>1, <3>2, <3>3
    <3>5. QED  BY <1>2, <3>2, <3>4
  <2>5. QED  BY <2>3, <2>4
<1>4. held' \in [Component -> Nat]
  <2>1. held' = [c \in Component |-> held'[c]]  BY <1>1
  <2>2. QED  BY <1>3, <2>1
<1>5. balances' \in [Account -> Nat] /\ totalSupply' \in Nat  BY <1>1, <1>2
<1>6. ~repriced  BY <1>1 DEF repriced
<1>7. QED
  BY <1>1, <1>3, <1>4, <1>5, <1>6
  DEF VaultInv, VaultTypeOK, PlainInv, PositionState, isComponent, Backing

LEMMA TransferKeeps ==
  ASSUME VaultInv, NEW a \in Account, NEW b \in Account, NEW q \in Quantity,
         transfer(a, b, q)
  PROVE  VaultInv' /\ Backing
<1>1. /\ q \in Nat /\ balances[a] >= q
      /\ balances' = [balances EXCEPT ![a] = @ - q, ![b] = @ + q]
      /\ UNCHANGED <<positions, totalSupply, held>> /\ a # b
  BY CollateralAssumption DEF transfer
<1>2. balances' \in [Account -> Nat]
  BY <1>1 DEF VaultInv, VaultTypeOK
<1>3. Backing
  BY <1>1, StillBacked DEF VaultInv, VaultTypeOK
<1>4. QED
  BY <1>1, <1>2, <1>3
  DEF VaultInv, VaultTypeOK, PlainInv, PositionState, isComponent

LEMMA AirdropKeeps ==
  ASSUME VaultInv, NEW c \in Component, NEW q \in TradeQuantity, airdrop(c, q)
  PROVE  VaultInv' /\ Backing
<1>1. /\ q \in Nat /\ held' = [held EXCEPT ![c] = @ + q]
      /\ UNCHANGED <<positions, totalSupply, balances>>
  BY CollateralAssumption DEF airdrop
<1>2. /\ held' \in [Component -> Nat]
      /\ \A d \in Component : held'[d] \in Nat /\ held'[d] >= held[d]
  BY <1>1 DEF VaultInv, VaultTypeOK
<1>3. Backing  BY <1>1, <1>2, StillBacked
<1>4. QED
  BY <1>1, <1>2, <1>3
  DEF VaultInv, VaultTypeOK, PlainInv, PositionState, isComponent

\* A component no edit touched, over the same supply and tokens.
LEMMA SameDeficit ==
  ASSUME NEW p, NEW q, NEW c \in Component, NEW supply, NEW tokens,
         q.virtualUnit[c] = p.virtualUnit[c],
         q.positionMultiplier = p.positionMultiplier
  PROVE  deficitOf(q, supply, tokens, c) = deficitOf(p, supply, tokens, c)
BY DEF deficitOf, getDefaultPositionRealUnit, _convertVirtualToRealUnit

\* A trade recalculates what was sold, then what was bought; a component traded
\* against itself is recalculated twice over a balance that did not change.
LEMMA TradeKeeps ==
  ASSUME VaultInv, NEW x \in Exchanged, NEW sold \in TradeQuantity,
         NEW least \in {0, sold}, NEW received \in TradeQuantity,
         trade(x[1], x[2], sold, least, received)
  PROVE  VaultInv' /\ Backing /\ ~repriced
<1> DEFINE send == x[1]
           receive == x[2]
           S == totalSupply
           totalSend == getDefaultTotalNotional(S, sold)
           traded == exchanged(send, receive, totalSend, received)
           gain == traded[receive] - held[receive]
           after == [traded EXCEPT ![receive] = @ - preciseMul(gain, tradeFee)]
           p1 == calculateAndEditDefaultPosition(positions, send, S, held[send],
                                                 after[send])
           p2 == calculateAndEditDefaultPosition(p1, receive, S, held[receive],
                                                 after[receive])
           worst(d) == IF d > 0 THEN d ELSE 0
<1>1. /\ send \in Component /\ receive \in Component
      /\ sold \in Nat /\ received \in Nat /\ PRECISE_UNIT \in Nat \ {0}
      /\ tradeFee \in Nat
  BY CollateralAssumption, TradeAssumption, PreciseUnitAssumption
<1>2. /\ S \in Nat /\ held \in [Component -> Nat] /\ PlainInv(positions)
      /\ positions.positionMultiplier \in Nat
  BY DEF VaultInv, VaultTypeOK, PlainInv, PositionState
<1>3. /\ positions' = p2 /\ held' = after /\ gain >= 0
      /\ after[send] <= held[send] /\ after[receive] >= held[receive]
      /\ calculateAndEditDefaultPositionOk(positions, send, S, held[send], after[send])
      /\ calculateAndEditDefaultPositionOk(p1, receive, S, held[receive], after[receive])
      /\ totalSend <= held[send]
      /\ totalSupply' = S /\ balances' = balances
  BY DEF trade, updatedPositions, _updateSetTokenPositionsOk
<1> HIDE DEF send, receive, p1, p2
<1>4. /\ held' \in [Component -> Nat]
      /\ \A c \in Component \ {send, receive} : held'[c] = held[c]
  <2>1. totalSend \in Nat  BY <1>1, <1>2, PreciseMulBound DEF getDefaultTotalNotional
  <2>2. /\ gain >= 0 /\ after[receive] >= held[receive] /\ held' = after
        /\ totalSend <= held[send]
    BY <1>3
  <2>3. /\ held[send] \in Nat /\ held[receive] \in Nat
    BY <1>1, <1>2
  <2> HIDE DEF totalSend
  <2>4. /\ traded \in [Component -> Int]
        /\ \A c \in Component \ {send, receive} : traded[c] = held[c]
        /\ send # receive => traded[send] = held[send] - totalSend
    BY <1>1, <1>2, <2>1 DEF exchanged
  <2> HIDE DEF traded
  <2>5. gain \in Nat  BY <1>1, <2>2, <2>3, <2>4
  <2>6. preciseMul(gain, tradeFee) \in Nat  BY <1>1, <2>5, PreciseMulBound
  <2> HIDE DEF gain
  <2>7. /\ after \in [Component -> Int]
        /\ \A c \in Component : c # receive => after[c] = traded[c]
    BY <1>1, <2>4, <2>6
  <2> HIDE DEF after
  <2>8. after[receive] >= 0  BY <2>2, <2>3, <1>1, <2>7
  <2>9. send # receive => after[send] >= 0
    <3> SUFFICES ASSUME send # receive PROVE after[send] >= 0
      OBVIOUS
    <3>1. after[send] = held[send] - totalSend  BY <1>1, <2>4, <2>7
    <3>2. QED  BY <2>1, <2>2, <2>3, <3>1
  <2>10. \A c \in Component \ {send, receive} : after[c] = held[c]
    BY <2>4, <2>7
  <2>11. \A c \in Component : after[c] \in Nat
    <3> SUFFICES ASSUME NEW c \in Component PROVE after[c] >= 0
      BY <2>7
    <3>1. CASE c = receive  BY <2>8, <3>1
    <3>2. CASE c = send /\ c # receive  BY <2>9, <3>2
    <3>3. CASE c # send /\ c # receive  BY <1>2, <2>10, <3>3
    <3>4. QED  BY <3>1, <3>2, <3>3
  <2>12. QED  BY <2>2, <2>7, <2>10, <2>11
<1> HIDE DEF after
<1>5. /\ after[send] \in Nat /\ after[receive] \in Nat
      /\ held[send] \in Nat /\ held[receive] \in Nat
  BY <1>1, <1>2, <1>3, <1>4
<1>6. /\ PlainInv(p1) /\ p1.positionMultiplier = positions.positionMultiplier
      /\ \A c \in Component \ {send} : p1.virtualUnit[c] = positions.virtualUnit[c]
      /\ deficitOf(p1, S, after[send], send)
           <= worst(deficitOf(positions, S, held[send], send))
  <2>1. calculateAndEditDefaultPositionOk(positions, send, S, held[send], after[send])
    BY <1>3
  <2>2. QED  BY <1>1, <1>2, <1>5, <2>1, RecalculationKeeps, SMTT(60) DEF p1
<1>7. /\ PlainInv(p2) /\ p2.positionMultiplier = p1.positionMultiplier
      /\ \A c \in Component \ {receive} : p2.virtualUnit[c] = p1.virtualUnit[c]
      /\ deficitOf(p2, S, after[receive], receive)
           <= worst(deficitOf(p1, S, held[receive], receive))
  <2>1. calculateAndEditDefaultPositionOk(p1, receive, S, held[receive], after[receive])
    BY <1>3
  <2>2. QED  BY <1>1, <1>2, <1>5, <1>6, <2>1, RecalculationKeeps DEF p2
<1>8. ASSUME NEW p, PlainInv(p), NEW c \in Component, NEW t \in Nat
      PROVE  deficitOf(p, S, t, c) \in Int
  <2>1. getDefaultPositionRealUnit(p, c) \in Nat  BY <1>8, RealUnitFloors
  <2>2. QED  BY <1>1, <1>2, <1>8, <2>1 DEF deficitOf
<1>9. ASSUME NEW c \in Component
      PROVE  deficitOf(p2, S, after[c], c) <= worst(deficitOf(positions, S, held[c], c))
  <2>1. held[c] \in Nat /\ after[c] \in Nat  BY <1>2, <1>3, <1>4
  <2>2. deficitOf(positions, S, held[c], c) \in Int  BY <1>2, <1>8, <2>1
  <2>3. CASE c # send /\ c # receive
    <3>1. after[c] = held[c]  BY <1>3, <1>4, <2>3
    <3>2. p2.virtualUnit[c] = positions.virtualUnit[c]
          /\ p2.positionMultiplier = positions.positionMultiplier
      BY <1>6, <1>7, <2>3
    <3>3. deficitOf(p2, S, after[c], c) = deficitOf(positions, S, held[c], c)
      BY <3>1, <3>2, SameDeficit
    <3>4. QED  BY <2>2, <3>3
  <2>4. CASE c = send /\ c # receive
    <3>1. p2.virtualUnit[c] = p1.virtualUnit[c]
          /\ p2.positionMultiplier = p1.positionMultiplier
      BY <1>7, <2>4
    <3>2. deficitOf(p2, S, after[c], c) = deficitOf(p1, S, after[c], c)
      BY <3>1, SameDeficit
    <3>3. QED  BY <1>6, <2>4, <3>2
  <2>5. CASE c # send /\ c = receive
    <3>1. p1.virtualUnit[c] = positions.virtualUnit[c]  BY <1>6, <2>5
    <3>2. deficitOf(p1, S, held[c], c) = deficitOf(positions, S, held[c], c)
      BY <1>6, <3>1, SameDeficit
    <3>3. QED  BY <1>7, <2>5, <3>2
  <2>6. CASE c = send /\ c = receive
    <3>1. after[c] = held[c]  BY <1>3, <2>1, <2>6
    <3>2. /\ deficitOf(p1, S, held[c], c)
               <= worst(deficitOf(positions, S, held[c], c))
          /\ deficitOf(p2, S, after[c], c) <= worst(deficitOf(p1, S, held[c], c))
      BY <1>6, <1>7, <2>6, <3>1
    <3>3. deficitOf(p1, S, held[c], c) \in Int /\ deficitOf(p2, S, after[c], c) \in Int
      BY <1>6, <1>7, <1>8, <2>1
    <3>4. QED  BY <2>2, <3>2, <3>3
  <2>7. QED  BY <2>3, <2>4, <2>5, <2>6
<1>10. \A c \in Component : /\ deficit(c) = deficitOf(positions, S, held[c], c)
                            /\ deficit(c)' = deficitOf(p2, S, after[c], c)
  BY <1>3 DEF deficit, deficitOf
<1>11. ~repriced  BY <1>3, <1>6, <1>7 DEF repriced
<1>12. PlainInv(positions')  BY <1>3, <1>7
<1>13. Backing  BY <1>9, <1>10, <1>11 DEF Backing
<1>14. VaultInv'
  <2>1. PlainInv(positions')  BY <1>12
  <2>2. (PlainInv(positions))'
    BY <2>1 DEF PlainInv, PositionState, isComponent
  <2>3. QED
    BY <1>2, <1>3, <1>4, <2>1, <2>2 DEF VaultInv, VaultTypeOK, PlainInv
<1>15. QED  BY <1>11, <1>13, <1>14

\* The SetTokens minted by an accrual go to the two recipients.
LEMMA FeeMintKeepsTypes ==
  ASSUME VaultInv, FeeInv, NEW q \in Nat, _mintManagerAndProtocolFee(q)
  PROVE  totalSupply' = totalSupply + q /\ balances' \in [Account -> Nat]
<1> DEFINE amount == preciseMul(q, protocolFee)
           paid == [balances EXCEPT ![feeStates.feeRecipient] = @ + (q - amount)]
<1>1. protocolRecipient \in Account  BY StreamingFeeAssumption
<1>2. amount \in Nat /\ amount <= q  BY ShareBound, StreamingFeeAssumption
<1>3. /\ totalSupply' = totalSupply + q
      /\ balances' = [paid EXCEPT ![protocolRecipient] = @ + amount]
  BY DEF _mintManagerAndProtocolFee
<1> HIDE DEF amount
<1>4. feeStates.feeRecipient \in Account /\ balances \in [Account -> Nat]
  BY DEF FeeInv, FeeTypeOK, FeeState, VaultInv, VaultTypeOK
<1>5. q - amount \in Nat  BY <1>2
<1>6. paid \in [Account -> Nat]  BY <1>4, <1>5
<1> HIDE DEF paid
<1>7. QED  BY <1>1, <1>2, <1>3, <1>6

\* An accrual, called by itself or before the rate changes.
LEMMA AccrualKeeps ==
  ASSUME VaultInv, FeeInv, _accrue, held' = held
  PROVE  VaultInv' /\ Backing
<1> DEFINE fee == _calculateStreamingFee
           m == positions.positionMultiplier
           n == preciseMulSigned(m, PRECISE_UNIT - fee)
           S == totalSupply
           minted == (fee * S) \div (PRECISE_UNIT - fee)
<1>1. /\ PRECISE_UNIT \in Nat \ {0} /\ m \in Nat \ {0} /\ S \in Nat
      /\ held \in [Component -> Nat] /\ balances \in [Account -> Nat]
  BY PreciseUnitAssumption
  DEF VaultInv, VaultTypeOK, PlainInv, PositionState
<1>2. CASE UNCHANGED <<positions, totalSupply, balances>>
  <2>1. Backing  BY <1>1, <1>2, StillBacked
  <2>2. QED
    BY <1>1, <1>2, <2>1
    DEF VaultInv, VaultTypeOK, PlainInv, PositionState, isComponent
<1>3. CASE /\ fee < PRECISE_UNIT
           /\ _mintManagerAndProtocolFee(_calculateStreamingFeeInflation(fee))
           /\ _validateNewMultiplier(positions, newMultiplier(fee))
           /\ positions' = editPositionMultiplier(positions, newMultiplier(fee))
  <2>1. fee \in Nat  BY PendingFee
  <2>2. /\ minted \in Nat
        /\ (S + minted) * (PRECISE_UNIT - fee) <= S * PRECISE_UNIT
        /\ minted * PRECISE_UNIT <= fee * (S + minted)
        /\ n \in Nat /\ n * PRECISE_UNIT <= m * (PRECISE_UNIT - fee)
        /\ fee = 0 => minted = 0 /\ n = m
        /\ fee # 0 => n < m
    <3> HIDE DEF fee, m, S
    <3>1. QED  BY <1>1, <1>3, <2>1, InflationBounds
  <2>3. /\ newMultiplier(fee) = n
        /\ _calculateStreamingFeeInflation(fee) = minted
    BY DEF newMultiplier, _calculateStreamingFeeInflation
  <2>4. totalSupply' = S + minted /\ balances' \in [Account -> Nat]
    BY <1>3, <2>2, <2>3, FeeMintKeepsTypes
  <2>5. /\ positions' = [positions EXCEPT !.positionMultiplier = n]
        /\ _validateNewMultiplier(positions, n)
    BY <1>3, <2>3 DEF editPositionMultiplier
  <2> HIDE DEF minted, n, fee
  <2>6. PlainInv(positions) /\ n \in Int  BY <2>2 DEF VaultInv
  <2>7. /\ n > 0 /\ PlainInv(editPositionMultiplier(positions, n))
        /\ editPositionMultiplier(positions, n).positionMultiplier = n
        /\ editPositionMultiplier(positions, n).virtualUnit = positions.virtualUnit
    BY <2>5, <2>6, RepricingIsPlain
  <2>8. /\ PlainInv(positions') /\ positions' \in PositionState
        /\ positions'.positionMultiplier = n
        /\ positions'.virtualUnit = positions.virtualUnit
    <3>1. positions' = editPositionMultiplier(positions, n)
      BY <2>5 DEF editPositionMultiplier
    <3>2. QED  BY <2>7, <3>1 DEF PlainInv
  <2>9. VaultInv'
    <3>1. (PlainInv(positions))'
      BY <2>8 DEF PlainInv, PositionState, isComponent
    <3>2. QED
      BY <1>1, <2>2, <2>4, <2>8, <3>1 DEF VaultInv, VaultTypeOK
  <2>10. repriced <=> fee # 0  BY <1>1, <2>1, <2>2, <2>8 DEF repriced
  <2>11. ASSUME NEW c \in Component
         PROVE  /\ deficit(c)' <= deficit(c) + S
                /\ fee = 0 => deficit(c)' = deficit(c)
                /\ deficit(c) \in Int
    <3> DEFINE v == positions.virtualUnit[c]
               r == getDefaultPositionRealUnit(positions, c)
               r1 == getDefaultPositionRealUnit(positions', c)
    <3>1. /\ v \in Nat /\ r \in Nat /\ v * m <= (r + 1) * PRECISE_UNIT
      <4>1. PlainInv(positions)  BY DEF VaultInv
      <4>2. v \in Nat  BY <4>1 DEF PlainInv, PositionState
      <4>3. r \in Nat /\ v * m <= (r + 1) * PRECISE_UNIT
        BY <4>1, RealUnitFloors
      <4>4. QED  BY <4>2, <4>3
    <3>2. /\ r1 \in Nat /\ r1 * PRECISE_UNIT <= v * n
      BY <2>7, <2>8, RealUnitFloors
    <3>3. /\ deficit(c) = S * r - held[c] * PRECISE_UNIT
          /\ deficit(c)' = (S + minted) * r1 - held[c] * PRECISE_UNIT
      BY <2>4 DEF deficit, deficitOf
    <3>4. fee = 0 => r1 = r
      BY <2>2, <2>8
      DEF getDefaultPositionRealUnit, _convertVirtualToRealUnit
    <3> HIDE DEF v, r, r1, m, S
    <3>5. PRECISE_UNIT - fee \in Nat /\ S + minted \in Nat
      BY <1>1, <1>3, <2>1, <2>2
    <3>6. (S + minted) * r1 <= S * r + S
      BY <1>1, <2>2, <3>1, <3>2, <3>5, InflationPaid
    <3>7. /\ (S + minted) * r1 \in Int /\ S * r \in Int
          /\ held[c] * PRECISE_UNIT \in Int
      BY <1>1, <3>1, <3>2, <3>5
    <3>8. fee = 0 => deficit(c)' = deficit(c)
      <4> SUFFICES ASSUME fee = 0 PROVE deficit(c)' = deficit(c)
        OBVIOUS
      <4>1. S + minted = S /\ r1 = r  BY <1>1, <2>2, <3>4
      <4>2. QED  BY <3>3, <4>1
    <3>9. QED  BY <1>1, <3>3, <3>6, <3>7, <3>8
  <2>12. (totalSupply' - totalSupply) * PRECISE_UNIT <= fee * totalSupply'
    <3>1. totalSupply' - totalSupply = minted  BY <1>1, <2>2, <2>4
    <3>2. QED  BY <2>2, <2>4, <3>1
  <2>13. Backing
    <3>1. ASSUME ~repriced, NEW c \in Component
          PROVE  deficit(c)' <= IF deficit(c) > 0 THEN deficit(c) ELSE 0
      BY <2>10, <2>11, <3>1
    <3>2. QED  BY <2>10, <2>11, <2>12, <3>1 DEF Backing, fee
  <2>14. QED  BY <2>9, <2>13
<1>4. QED  BY <1>2, <1>3 DEF _accrue

\* Every step keeps the vault sound and its backing as Backing says.
LEMMA StepKeeps ==
  ASSUME VaultInv, FeeInv, [Next]_vars
  PROVE  VaultInv' /\ Backing
<1>1. CASE UNCHANGED vault
  <2>1. \A c \in Component : held'[c] \in Nat /\ held'[c] >= held[c]
    BY <1>1 DEF vault, VaultInv, VaultTypeOK
  <2>2. Backing  BY <1>1, <2>1, StillBacked DEF vault
  <2>3. QED
    BY <1>1, <2>2
    DEF vault, VaultInv, VaultTypeOK, PlainInv, PositionState, isComponent
<1>2. CASE UNCHANGED vars  BY <1>1, <1>2 DEF vars, vault
<1>3. CASE UseVault
  BY <1>3, IssueKeeps, RedeemKeeps, TransferKeeps, AirdropKeeps, TradeKeeps
  DEF UseVault
<1>4. CASE UseFee
  BY <1>4, AccrualKeeps DEF UseFee, accrueFee, updateStreamingFee
<1>5. CASE ManageFee \/ removeModule \/ tick
  BY <1>1, <1>5
  DEF ManageFee, updateFeeRecipient, initialize, addModule, removeModule, tick
<1>6. QED  BY <1>2, <1>3, <1>4, <1>5 DEF Next

-----------------------------------------------------------------------------

\* Positions, supply and balances are sound in every state, and so are the
\* meters of fees.
THEOREM CollateralInvariant == Spec => [](VaultInv /\ FeeInv)
<1>1. VaultInv /\ FeeInv /\ [Next]_vars => (VaultInv /\ FeeInv)'
  BY StepKeeps, FeePreserved
<1>2. QED
  BY <1>1, VaultInitEstablishes, FeeInitEstablishes, PTL DEF Spec

\* No subtraction of a redemption, a trade or a fee goes below zero, and every
\* fee state is one the module admits.
THEOREM TypeCorrect == Spec => []TypeOK
<1>1. VaultInv /\ FeeInv => TypeOK  BY DEF VaultInv, FeeInv, TypeOK
<1>2. QED  BY <1>1, CollateralInvariant, PTL

\* Issuing, redeeming, trading, transferring and receiving tokens leave no
\* component further short of its backing, for any amounts and at any rounding:
\* only an accrual that reprices can, and that by less than one unit for each
\* whole SetToken, whatever the fee, the supply, the units and the multiplier.
THEOREM OnlyFeesDiluteCorrect == Spec => OnlyFeesDilute
<1>1. VaultInv /\ FeeInv /\ [Next]_vars
        => [\A c \in Component :
              deficit(c)' <= IF repriced THEN deficit(c) + totalSupply
                             ELSE IF deficit(c) > 0 THEN deficit(c) ELSE 0]_vars
  BY StepKeeps DEF Backing
<1>2. QED  BY <1>1, CollateralInvariant, PTL DEF Spec, OnlyFeesDilute

\* The SetTokens an accrual mints are at most the fee's share of the supply.
THEOREM InflationCorrect == Spec => InflationWithinFee
<1>1. VaultInv /\ FeeInv /\ [Next]_vars
        => [repriced => (totalSupply' - totalSupply) * PRECISE_UNIT
                          <= _calculateStreamingFee * totalSupply']_vars
  BY StepKeeps DEF Backing
<1>2. QED  BY <1>1, CollateralInvariant, PTL DEF Spec, InflationWithinFee

\* Only an accrual reprices, and what it takes is charged.
LEMMA OnlyAccrualsReprice ==
  ASSUME VaultInv, FeeInv, [Next]_vars, repriced
  PROVE  _accrue /\ charged' = charged + _calculateStreamingFee
<1>1. CASE UNCHANGED positions  BY <1>1 DEF repriced
<1>2. CASE UseVault
  <2>1. ASSUME NEW x \in Exchanged, NEW sold \in TradeQuantity,
               NEW least \in {0, sold}, NEW received \in TradeQuantity,
               trade(x[1], x[2], sold, least, received)
        PROVE  FALSE
    BY <2>1, TradeKeeps
  <2>2. QED  BY <1>1, <1>2, <2>1 DEF UseVault, issue, redeem, transfer, airdrop
<1>3. CASE UseFee /\ charged' = charged + _calculateStreamingFee
  BY <1>3 DEF UseFee, accrueFee, updateStreamingFee
<1>4. CASE ManageFee \/ removeModule \/ tick
  BY <1>1, <1>4 DEF ManageFee, updateFeeRecipient, initialize, addModule,
                    removeModule, tick, vault
<1>5. CASE UNCHANGED vars  BY <1>1, <1>5 DEF vars
<1>6. QED  BY <1>2, <1>3, <1>4, <1>5 DEF Next

\* The fees charged never fall, so that none was taken before a state with none.
LEMMA ChargedGrows ==
  ASSUME VaultInv, FeeInv, [Next]_vars, charged' = 0
  PROVE  charged = 0 /\ ~repriced
<1>1. charged \in Nat /\ _calculateStreamingFee \in Nat
  BY PendingFee DEF FeeInv
<1>2. charged' \in {charged, charged + _calculateStreamingFee}
  BY DEF Next, vars
<1>3. charged = 0  BY <1>1, <1>2
<1>4. ASSUME repriced PROVE FALSE
  <2>1. charged' = charged + _calculateStreamingFee
    BY <1>4, OnlyAccrualsReprice
  <2>2. _calculateStreamingFee # 0  BY <1>4, StepKeeps DEF Backing
  <2>3. QED  BY <1>1, <1>3, <2>1, <2>2
<1>5. QED  BY <1>3, <1>4

\* Until the first fee is taken the SetToken holds what its positions promise,
\* through any issuance, redemption, trade and airdrop, however they round, and
\* whatever rates are set and pending: a step that takes no fee reprices nothing.
THEOREM FullyBackedCorrect == Spec => []FullyBacked
<1> DEFINE Inv == VaultInv /\ FeeInv
<1>1. Init /\ Inv => FullyBacked
  <2> SUFFICES ASSUME Init, Inv PROVE FullyBacked
    OBVIOUS
  <2>1. totalSupply = 0 /\ \A c \in Component : held[c] = 0
    BY DEF Init, VaultInit
  <2>2. ASSUME NEW c \in Component PROVE deficit(c) <= 0
    <3> DEFINE r == getDefaultPositionRealUnit(positions, c)
    <3>1. r \in Nat /\ PRECISE_UNIT \in Nat
      BY RealUnitFloors, PreciseUnitAssumption DEF VaultInv
    <3>2. deficit(c) = 0 * r - 0 * PRECISE_UNIT  BY <2>1 DEF deficit, deficitOf
    <3> HIDE DEF r
    <3>3. QED  BY <3>1, <3>2
  <2>3. QED  BY <2>2 DEF FullyBacked
<1>2. Inv /\ FullyBacked /\ [Next]_vars => FullyBacked'
  <2> SUFFICES ASSUME Inv, FullyBacked, [Next]_vars, charged' = 0
               PROVE  \A c \in Component : deficit(c)' <= 0
    BY DEF FullyBacked
  <2>1. charged = 0 /\ ~repriced  BY ChargedGrows
  <2>2. Backing  BY StepKeeps
  <2>3. \A c \in Component :
          deficit(c)' <= IF deficit(c) > 0 THEN deficit(c) ELSE 0
    BY <2>1, <2>2 DEF Backing
  <2>4. ASSUME NEW c \in Component PROVE deficit(c)' <= 0
    <3>1. deficit(c) <= 0  BY <2>1 DEF FullyBacked
    <3>2. deficit(c) \in Int
      <4>1. getDefaultPositionRealUnit(positions, c) \in Nat
        BY RealUnitFloors DEF VaultInv
      <4>2. QED
        BY <4>1, PreciseUnitAssumption
        DEF VaultInv, VaultTypeOK, deficit, deficitOf
    <3>3. ~(deficit(c) > 0)  BY <3>1, <3>2
    <3>4. QED  BY <2>3, <3>3
  <2>5. QED  BY <2>4
<1> HIDE DEF Inv
<1>3. Spec => []Inv  BY CollateralInvariant DEF Inv
<1>4. QED  BY <1>1, <1>2, <1>3, PTL DEF Spec

-----------------------------------------------------------------------------
(* The balances. *)

\* The balances add up to the supply, with the sum of the library.
BalancesInv == totalSupply = sumOver(balances, Account)

\* Paying an account, or charging it, moves the sum of the balances.
LEMMA PayingMovesSum ==
  ASSUME NEW f \in [Account -> Int], NEW a \in Account, NEW d \in Int,
         NEW g, adds(f, g, a, d)
  PROVE  /\ g \in [Account -> Int]
         /\ sumOver(f, Account) \in Int
         /\ sumOver(g, Account) = sumOver(f, Account) + d
BY SetVaultAssumption, AddingMovesSum

LEMMA FeeMintAddsUp ==
  ASSUME VaultInv, FeeInv, BalancesInv, NEW q \in Nat, _mintManagerAndProtocolFee(q)
  PROVE  BalancesInv'
<1> DEFINE amount == preciseMul(q, protocolFee)
           r == feeStates.feeRecipient
<1>1. protocolFee \in Nat /\ protocolRecipient \in Account
  BY StreamingFeeAssumption, PreciseUnitAssumption
<1>2. amount \in Nat  BY <1>1, PreciseMulBound
<1>3. r \in Account /\ balances \in [Account -> Int]
  BY DEF FeeInv, FeeTypeOK, FeeState, VaultInv, VaultTypeOK
<1>4. totalSupply' = totalSupply + q
  BY DEF _mintManagerAndProtocolFee
<1>5. PICK paid : adds(balances, paid, r, q - amount)
  BY DEF adds
<1>6. adds(paid, balances', protocolRecipient, amount)
  BY <1>5 DEF adds, _mintManagerAndProtocolFee
<1> HIDE DEF amount, r
<1>7. q - amount \in Int /\ amount \in Int  BY <1>2
<1>8. /\ paid \in [Account -> Int] /\ sumOver(balances, Account) \in Int
      /\ sumOver(paid, Account) = sumOver(balances, Account) + (q - amount)
  BY <1>3, <1>5, <1>7, PayingMovesSum
<1>9. sumOver(balances', Account) = sumOver(paid, Account) + amount
  BY <1>1, <1>6, <1>7, <1>8, PayingMovesSum
<1>10. sumOver(balances', Account) = totalSupply + q
  BY <1>7, <1>8, <1>9 DEF BalancesInv
<1>11. QED  BY <1>4, <1>10 DEF BalancesInv

\* Every step moves the supply by what it moves the balances.
LEMMA StepAddsUp ==
  ASSUME VaultInv, FeeInv, BalancesInv, [Next]_vars
  PROVE  BalancesInv'
<1>1. balances \in [Account -> Int] /\ totalSupply \in Nat /\ Quantity \subseteq Nat
  BY CollateralAssumption DEF VaultInv, VaultTypeOK
<1>2. CASE UNCHANGED <<totalSupply, balances>>  BY <1>2 DEF BalancesInv
<1>3. ASSUME NEW a \in Account, NEW q \in Quantity, issue(a, q) PROVE BalancesInv'
  <2>1. totalSupply' = totalSupply + q /\ adds(balances, balances', a, q)
    BY <1>3 DEF adds, issue, _mint
  <2>2. sumOver(balances', Account) = sumOver(balances, Account) + q
    BY <1>1, <2>1, PayingMovesSum
  <2>3. QED  BY <2>1, <2>2 DEF BalancesInv
<1>4. ASSUME NEW a \in Account, NEW q \in Quantity, redeem(a, q) PROVE BalancesInv'
  <2>1. /\ totalSupply' = totalSupply - q
        /\ balances' = [balances EXCEPT ![a] = balances[a] - q]
    BY <1>4 DEF redeem, _burn
  <2>2. -q \in Int /\ balances[a] - q = balances[a] + (-q)  BY <1>1
  <2>3. adds(balances, balances', a, -q)  BY <2>1, <2>2 DEF adds
  <2>4. sumOver(balances', Account) = sumOver(balances, Account) + (-q)
    BY <1>1, <2>2, <2>3, PayingMovesSum
  <2>5. sumOver(balances', Account) = totalSupply - q
    BY <1>1, <2>4 DEF BalancesInv
  <2>6. QED  BY <2>1, <2>5 DEF BalancesInv
<1>5. ASSUME NEW a \in Account, NEW b \in Account, NEW q \in Quantity,
             transfer(a, b, q)
      PROVE  BalancesInv'
  <2>1. /\ -q \in Int /\ q \in Int /\ a # b
        /\ balances' = [balances EXCEPT ![a] = @ - q, ![b] = @ + q]
        /\ totalSupply' = totalSupply
    BY <1>1, <1>5 DEF transfer
  <2>2. PICK sent : adds(balances, sent, a, -q)
    BY DEF adds
  <2>3. adds(sent, balances', b, q)
    <3>1. balances[a] - q = balances[a] + (-q)  BY <1>1
    <3>2. QED  BY <1>1, <2>1, <2>2, <3>1 DEF adds
  <2>4. /\ sent \in [Account -> Int] /\ sumOver(balances, Account) \in Int
        /\ sumOver(sent, Account) = sumOver(balances, Account) + (-q)
    BY <1>1, <2>1, <2>2, PayingMovesSum
  <2>5. sumOver(balances', Account) = sumOver(sent, Account) + q
    BY <2>1, <2>3, <2>4, PayingMovesSum
  <2>6. sumOver(balances', Account) = sumOver(balances, Account)
    BY <2>1, <2>4, <2>5
  <2>7. QED  BY <2>1, <2>6 DEF BalancesInv
<1>6. CASE _accrue
  <2>1. CASE UNCHANGED <<positions, totalSupply, balances>>  BY <1>2, <2>1
  <2>2. CASE /\ _calculateStreamingFee < PRECISE_UNIT
             /\ _mintManagerAndProtocolFee(
                  _calculateStreamingFeeInflation(_calculateStreamingFee))
    <3> DEFINE fee == _calculateStreamingFee
               x == fee * totalSupply
               D == PRECISE_UNIT - fee
    <3>1. fee \in Nat  BY PendingFee
    <3> HIDE DEF fee
    <3>2. D \in Nat \ {0}  BY <2>2, <3>1, PreciseUnitAssumption DEF fee
    <3>3. x \in Nat  BY <1>1, <3>1
    <3> HIDE DEF x, D
    <3>4. x \div D \in Nat  BY <3>2, <3>3, NatDivBounds
    <3>5. _calculateStreamingFeeInflation(fee) = x \div D
      BY DEF _calculateStreamingFeeInflation, x, D
    <3>6. QED  BY <2>2, <3>4, <3>5, FeeMintAddsUp DEF fee
  <2>3. QED  BY <1>6, <2>1, <2>2 DEF _accrue
<1>7. CASE UseVault
  <2>1. CASE UNCHANGED <<totalSupply, balances>>  BY <1>2, <2>1
  <2>2. CASE \E a \in Account, q \in Quantity : issue(a, q) \/ redeem(a, q)
    BY <1>3, <1>4, <2>2
  <2>3. CASE \E a, b \in Account, q \in Quantity : transfer(a, b, q)
    BY <1>5, <2>3
  <2>4. CASE \E c \in Component, q \in TradeQuantity : airdrop(c, q)
    BY <2>1, <2>4 DEF airdrop
  <2>5. CASE \E x \in Exchanged, s \in TradeQuantity, r \in TradeQuantity :
               \E least \in {0, s} : trade(x[1], x[2], s, least, r)
    <3>1. UNCHANGED <<totalSupply, balances>>  BY <2>5 DEF trade
    <3>2. QED  BY <2>1, <3>1
  <2>6. QED  BY <1>7, <2>2, <2>3, <2>4, <2>5 DEF UseVault
<1>8. CASE UseFee  BY <1>6, <1>8 DEF UseFee, accrueFee, updateStreamingFee
<1>9. CASE ManageFee \/ removeModule \/ tick
  BY <1>2, <1>9 DEF ManageFee, updateFeeRecipient, initialize, addModule,
                    removeModule, tick, vault
<1>10. CASE UNCHANGED vars  BY <1>2, <1>10 DEF vars
<1>11. QED  BY <1>7, <1>8, <1>9, <1>10 DEF Next

\* The balances add up to the supply in every state.
LEMMA BalancesAddUp == Spec => []BalancesInv
<1>1. Init => BalancesInv
  <2> SUFFICES ASSUME Init PROVE BalancesInv
    OBVIOUS
  <2>1. totalSupply = 0 /\ \A a \in Account : balances[a] = 0
    BY DEF Init, VaultInit
  <2>2. sumOver(balances, Account) = 0  BY <2>1, SetVaultAssumption, SumOfZeros
  <2>3. QED  BY <2>1, <2>2 DEF BalancesInv
<1>2. BalancesInv /\ VaultInv /\ FeeInv /\ [Next]_vars => BalancesInv'
  BY StepAddsUp
<1>3. QED  BY <1>1, <1>2, CollateralInvariant, PTL DEF Spec

\* Nobody is locked in until a fee is taken: what a whole balance is owed of a
\* component is at most what the whole supply is, and that is held.
THEOREM HoldersCanExitCorrect == Spec => []HoldersCanExit
<1>1. VaultInv /\ BalancesInv /\ FullyBacked => HoldersCanExit
  <2> SUFFICES ASSUME VaultInv, BalancesInv, FullyBacked, charged = 0,
                      NEW a \in Account, NEW c \in components
               PROVE  paidOnRedeem(c, balances[a]) <= held[c]
    BY DEF HoldersCanExit, canPay
  <2> DEFINE r == getDefaultPositionRealUnit(positions, c)
             paid == preciseMul(balances[a], r)
             b == balances[a]
             S == totalSupply
             h == held[c]
  <2>1. c \in Component
    BY DEF VaultInv, PlainInv, PositionState, components, ToSet
  <2>2. r \in Nat /\ PRECISE_UNIT \in Nat \ {0}
    BY <2>1, RealUnitFloors, PreciseUnitAssumption DEF VaultInv
  <2>3. b \in Nat /\ S \in Nat /\ h \in Nat
        /\ \A x \in Account : balances[x] \in Nat
    BY <2>1 DEF VaultInv, VaultTypeOK
  <2>4. b <= S
    BY <2>3, SetVaultAssumption, SumOfNaturals DEF BalancesInv
  <2>5. S * r - h * PRECISE_UNIT <= 0
    BY <2>1 DEF FullyBacked, deficit, deficitOf
  <2>6. paidOnRedeem(c, balances[a]) = paid
    BY DEF paidOnRedeem, realUnit
  <2> HIDE DEF r, b, S, h
  <2>7. preciseMul(b, r) \in Nat /\ preciseMul(b, r) * PRECISE_UNIT <= b * r
    BY <2>2, <2>3, PreciseMulBound
  <2> DEFINE x == preciseMul(b, r)
  <2>8. paid = x  BY DEF b
  <2> HIDE DEF x, paid
  <2>9. x * PRECISE_UNIT <= h * PRECISE_UNIT
    <3>1. b * r <= S * r  BY <2>2, <2>3, <2>4
    <3>2. /\ b * r \in Int /\ S * r \in Int /\ h * PRECISE_UNIT \in Int
          /\ x * PRECISE_UNIT \in Int
      BY <2>2, <2>3, <2>7 DEF x
    <3>3. QED  BY <2>5, <2>7, <3>1, <3>2 DEF x
  <2>10. x <= h  BY <2>2, <2>3, <2>7, <2>9 DEF x
  <2>11. QED  BY <2>6, <2>8, <2>10 DEF h
<1>2. QED
  BY <1>1, CollateralInvariant, BalancesAddUp, FullyBackedCorrect, PTL

-----------------------------------------------------------------------------
(* The accrual against the formula of the tests. *)

\* BigNumber divides natural numbers as the EVM does.
LEMMA ExpectedDivision ==
  ASSUME NEW a \in Nat, NEW b \in Nat \ {0}
  PROVE  Expected!div(a, b) = a \div b
BY DEF Expected!div, Expected!magnitude

\* A unit scaled at once, as the tests do, against one read at the scaled
\* multiplier, as the code does.
LEMMA UnitsScaleAlike ==
  ASSUME NEW v \in Nat, NEW m \in Nat, NEW n \in Nat, NEW K \in Nat,
         NEW r \in Nat, NEW r1 \in Nat, NEW e \in Nat, NEW w \in Nat,
         K <= PRECISE_UNIT,
         r * PRECISE_UNIT <= v * m, v * m < r * PRECISE_UNIT + PRECISE_UNIT,
         n * PRECISE_UNIT <= m * K, m * K < n * PRECISE_UNIT + PRECISE_UNIT,
         r1 * PRECISE_UNIT <= v * n, v * n < r1 * PRECISE_UNIT + PRECISE_UNIT,
         e * PRECISE_UNIT <= r * K, r * K < e * PRECISE_UNIT + PRECISE_UNIT,
         v < w * PRECISE_UNIT + PRECISE_UNIT
  PROVE  r1 <= e + 1 /\ e <= r1 + 1 + w
<1> DEFINE P == PRECISE_UNIT
<1>1. P \in Nat \ {0}  BY PreciseUnitAssumption
<1>2. \A x, y, z \in Nat : x <= y => z * x <= z * y  OBVIOUS
<1>3. \A x, y \in Nat, z \in Nat \ {0} : x * z <= y * z => x <= y  OBVIOUS
<1>4. \A x, y \in Nat, z \in Nat \ {0} : x * z < y * z => x < y  OBVIOUS
<1> HIDE DEF P
<1>5. r1 <= e + 1
  <2>1. P * (r1 * P) <= P * (v * n)  BY <1>1, <1>2 DEF P
  <2>2. v * (n * P) <= v * (m * K)  BY <1>1, <1>2 DEF P
  <2>3. K * (v * m) <= K * ((r + 1) * P)
    <3>1. v * m <= (r + 1) * P  BY <1>1 DEF P
    <3>2. v * m \in Nat /\ (r + 1) * P \in Nat  BY <1>1
    <3>3. QED  BY <1>2, <3>1, <3>2
  <2>4. (r1 * P) * P <= (K * (r + 1)) * P
    <3>1. /\ P * (r1 * P) = (r1 * P) * P /\ P * (v * n) = v * (n * P)
          /\ v * (m * K) = K * (v * m) /\ K * ((r + 1) * P) = (K * (r + 1)) * P
      BY <1>1
    <3>2. /\ (r1 * P) * P \in Int /\ v * (n * P) \in Int /\ K * (v * m) \in Int
          /\ (K * (r + 1)) * P \in Int
      BY <1>1
    <3>3. QED  BY <2>1, <2>2, <2>3, <3>1, <3>2
  <2>5. r1 * P <= K * (r + 1)
    <3>1. r1 * P \in Nat /\ K * (r + 1) \in Nat  BY <1>1
    <3>2. QED  BY <1>1, <1>3, <2>4, <3>1
  <2>6. r1 * P < (e + 2) * P
    <3>1. K * (r + 1) = r * K + K /\ (e + 2) * P = e * P + P + P  BY <1>1
    <3>2. r * K \in Int /\ e * P \in Int /\ r1 * P \in Int /\ K * (r + 1) \in Int
      BY <1>1
    <3>3. r * K < e * P + P /\ K <= P  BY DEF P
    <3>4. QED  BY <1>1, <2>5, <3>1, <3>2, <3>3
  <2>7. r1 < e + 2  BY <1>1, <1>4, <2>6
  <2>8. QED  BY <2>7
<1>6. e <= r1 + 1 + w
  <2>1. P * (e * P) <= P * (r * K)  BY <1>1, <1>2 DEF P
  <2>2. K * (r * P) <= K * (v * m)  BY <1>1, <1>2 DEF P
  <2>3. v * (m * K) <= v * ((n + 1) * P)
    <3>1. m * K <= (n + 1) * P  BY <1>1 DEF P
    <3>2. m * K \in Nat /\ (n + 1) * P \in Nat  BY <1>1
    <3>3. QED  BY <1>2, <3>1, <3>2
  <2>4. (e * P) * P <= (v * (n + 1)) * P
    <3>1. /\ P * (e * P) = (e * P) * P /\ P * (r * K) = K * (r * P)
          /\ v * (m * K) = K * (v * m) /\ v * ((n + 1) * P) = (v * (n + 1)) * P
      BY <1>1
    <3>2. /\ (e * P) * P \in Int /\ K * (r * P) \in Int /\ K * (v * m) \in Int
          /\ (v * (n + 1)) * P \in Int
      BY <1>1
    <3>3. QED  BY <2>1, <2>2, <2>3, <3>1, <3>2
  <2>5. e * P <= v * (n + 1)
    <3>1. e * P \in Nat /\ v * (n + 1) \in Nat  BY <1>1
    <3>2. QED  BY <1>1, <1>3, <2>4, <3>1
  <2>6. e * P < (r1 + w + 2) * P
    <3>1. /\ v * (n + 1) = v * n + v
          /\ (r1 + w + 2) * P = (r1 * P + P) + (w * P + P)
      BY <1>1
    <3>2. /\ v * n \in Int /\ e * P \in Int /\ r1 * P \in Int /\ w * P \in Int
          /\ v * (n + 1) \in Int
      BY <1>1
    <3>3. v * n < r1 * P + P /\ v < w * P + P  BY DEF P
    <3>4. QED  BY <1>1, <2>5, <3>1, <3>2, <3>3
  <2>7. e < r1 + w + 2  BY <1>1, <1>4, <2>6
  <2>8. QED  BY <2>7
<1>7. QED  BY <1>5, <1>6

\* What an accrual that reprices does to the supply and the multiplier.
LEMMA AccrualReprices ==
  ASSUME FeeInv, VaultInv, VaultInv', [Next]_vars, repriced
  PROVE  LET fee == _calculateStreamingFee
             n == preciseMulSigned(positions.positionMultiplier, PRECISE_UNIT - fee)
         IN  /\ fee \in Nat /\ fee < PRECISE_UNIT
             /\ totalSupply' - totalSupply
                  = (fee * totalSupply) \div (PRECISE_UNIT - fee)
             /\ positions' = [positions EXCEPT !.positionMultiplier = n]
             /\ n \in Int
<1>1. _calculateStreamingFee \in Nat  BY PendingFee
<1>2. CASE UNCHANGED <<positions, totalSupply, balances>>  BY <1>2 DEF repriced
<1>3. CASE
  /\ _calculateStreamingFee < PRECISE_UNIT
  /\ _mintManagerAndProtocolFee(
       _calculateStreamingFeeInflation(_calculateStreamingFee))
  /\ positions' = editPositionMultiplier(positions,
                                         newMultiplier(_calculateStreamingFee))
  <2> DEFINE fee == _calculateStreamingFee
             minted == (fee * totalSupply) \div (PRECISE_UNIT - fee)
  <2>1. totalSupply' = totalSupply + minted
    BY <1>3 DEF _mintManagerAndProtocolFee, _calculateStreamingFeeInflation
  <2>2. fee < PRECISE_UNIT /\ totalSupply \in Nat /\ totalSupply' \in Nat
        /\ PRECISE_UNIT \in Nat
    BY <1>3, PreciseUnitAssumption DEF VaultInv, VaultTypeOK
  <2>3. minted \in Int
    <3> HIDE DEF fee
    <3>1. PRECISE_UNIT - fee \in Nat \ {0} /\ fee * totalSupply \in Nat
      BY <1>1, <2>2 DEF fee
    <3>2. QED  BY <3>1
  <2> HIDE DEF minted
  <2>4. totalSupply' - totalSupply = minted  BY <2>1, <2>2, <2>3
  <2>5. /\ positions' = [positions EXCEPT !.positionMultiplier =
              newMultiplier(fee)]
    BY <1>3 DEF editPositionMultiplier
  <2>6. newMultiplier(fee) \in Int
    <3>1. positions'.positionMultiplier \in Int
      BY DEF VaultInv, PlainInv, PositionState
    <3>2. positions \in PositionState  BY DEF VaultInv, PlainInv
    <3>3. positions'.positionMultiplier = newMultiplier(fee)
      BY <2>5, <3>2 DEF PositionState
    <3>4. QED  BY <3>1, <3>3
  <2>7. QED
    BY <1>1, <2>2, <2>4, <2>5, <2>6 DEF minted, newMultiplier
<1>4. _accrue  BY OnlyAccrualsReprice
<1>5. QED  BY <1>2, <1>3, <1>4 DEF _accrue

\* Whatever the fee, the supply, the units and the scale, an accrual mints what
\* the formula of the tests says, and leaves every unit as near to the formula's
\* as the virtual units are coarse.
THEOREM AccrualCorrect == Spec => AccrualAsExpected
<1>1. VaultInv /\ FeeInv /\ VaultInv' /\ [Next]_vars
        => [repriced =>
             LET fee == Expected!getStreamingFee(feeStates.lastStreamingFeeTimestamp,
                          blockTimestamp, feeStates.streamingFeePercentage)
             IN  /\ totalSupply' - totalSupply
                      = Expected!getStreamingFeeInflationAmount(fee, totalSupply)
                 /\ \A c \in components :
                      LET expected == Expected!getPostFeePositionUnit(realUnit(c), fee)
                      IN  /\ realUnit(c)' <= expected + 1
                          /\ expected <= realUnit(c)' + 1
                               + positions.virtualUnit[c] \div PRECISE_UNIT]_vars
  <2> SUFFICES ASSUME VaultInv, FeeInv, VaultInv', [Next]_vars, repriced
      PROVE
        LET fee == Expected!getStreamingFee(feeStates.lastStreamingFeeTimestamp,
                     blockTimestamp, feeStates.streamingFeePercentage)
        IN  /\ totalSupply' - totalSupply
                 = Expected!getStreamingFeeInflationAmount(fee, totalSupply)
            /\ \A c \in components :
                 LET expected == Expected!getPostFeePositionUnit(realUnit(c), fee)
                 IN  /\ realUnit(c)' <= expected + 1
                     /\ expected <= realUnit(c)' + 1
                          + positions.virtualUnit[c] \div PRECISE_UNIT
    OBVIOUS
  <2> DEFINE fee == _calculateStreamingFee
             m == positions.positionMultiplier
             K == PRECISE_UNIT - fee
             n == preciseMulSigned(m, K)
  <2>1. Expected!getStreamingFee(feeStates.lastStreamingFeeTimestamp,
          blockTimestamp, feeStates.streamingFeePercentage) = fee
    <3> DEFINE x == (blockTimestamp - feeStates.lastStreamingFeeTimestamp)
                      * feeStates.streamingFeePercentage
    <3>1. /\ blockTimestamp - feeStates.lastStreamingFeeTimestamp \in Nat
          /\ feeStates.streamingFeePercentage \in Nat
      BY DEF FeeInv, FeeTypeOK, FeeState
    <3>2. x \in Nat  BY <3>1
    <3>3. Expected!getStreamingFee(feeStates.lastStreamingFeeTimestamp,
            blockTimestamp, feeStates.streamingFeePercentage)
              = Expected!div(x, ONE_YEAR_IN_SECONDS)
      BY DEF Expected!getStreamingFee
    <3> HIDE DEF x
    <3>4. Expected!div(x, ONE_YEAR_IN_SECONDS) = x \div ONE_YEAR_IN_SECONDS
      BY <3>2, StreamingFeeAssumption, ExpectedDivision
    <3>5. QED  BY <3>3, <3>4 DEF _calculateStreamingFee, x
  <2>2. /\ fee \in Nat /\ fee < PRECISE_UNIT /\ n \in Int
        /\ totalSupply' - totalSupply = (fee * totalSupply) \div K
        /\ positions' = [positions EXCEPT !.positionMultiplier = n]
    BY AccrualReprices
  <2>3. /\ m \in Nat \ {0} /\ totalSupply \in Nat /\ PRECISE_UNIT \in Nat \ {0}
        /\ positions \in PositionState
    BY PreciseUnitAssumption
    DEF VaultInv, VaultTypeOK, PlainInv, PositionState
  <2> HIDE DEF fee, m
  <2>4. K \in Nat \ {0} /\ K <= PRECISE_UNIT  BY <2>2, <2>3
  <2>5. totalSupply' - totalSupply
          = Expected!getStreamingFeeInflationAmount(fee, totalSupply)
    <3> DEFINE x == fee * totalSupply
    <3>1. x \in Nat  BY <2>2, <2>3
    <3> HIDE DEF x, K
    <3>2. Expected!div(x, K) = x \div K  BY <2>4, <3>1, ExpectedDivision
    <3>3. QED  BY <2>2, <3>2 DEF Expected!getStreamingFeeInflationAmount, x, K
  <2>6. n \in Nat /\ n * PRECISE_UNIT <= m * K
        /\ m * K < n * PRECISE_UNIT + PRECISE_UNIT
    <3> DEFINE y == m * K
    <3>1. y \in Nat  BY <2>3, <2>4
    <3>2. n = sdiv(y, PRECISE_UNIT)  BY DEF preciseMulSigned
    <3> HIDE DEF y, n
    <3>3. sdiv(y, PRECISE_UNIT) = y \div PRECISE_UNIT
      BY <2>3, <3>1 DEF sdiv, abs
    <3>4. QED  BY <2>3, <3>1, <3>2, <3>3, NatDivBounds DEF y
  <2> HIDE DEF K, n
  <2>7. ASSUME NEW c \in components
        PROVE  LET expected == Expected!getPostFeePositionUnit(realUnit(c), fee)
               IN  /\ realUnit(c)' <= expected + 1
                   /\ expected <= realUnit(c)' + 1
                        + positions.virtualUnit[c] \div PRECISE_UNIT
    <3> DEFINE v == positions.virtualUnit[c]
               r == getDefaultPositionRealUnit(positions, c)
               r1 == getDefaultPositionRealUnit(positions', c)
               e == (r * K) \div PRECISE_UNIT
               w == v \div PRECISE_UNIT
    <3>1. c \in Component  BY <2>3 DEF PositionState, components, ToSet
    <3>2. positions'.virtualUnit[c] = v /\ positions'.positionMultiplier = n
      BY <2>2, <2>3, <3>1 DEF PositionState
    <3>3. PlainInv(positions) /\ PlainInv(positions')
      <4>1. PlainInv(positions)' BY DEF VaultInv
      <4>2. QED
        BY <4>1 DEF VaultInv, PlainInv, PositionState, isComponent
    <3>4. v \in Nat
      BY <3>1, <3>3 DEF PlainInv, PositionState
    <3>5. /\ r \in Nat /\ r = (v * m) \div PRECISE_UNIT
          /\ r * PRECISE_UNIT <= v * m
      BY <3>1, <3>3, RealUnitFloors DEF m
    <3>6. /\ r1 \in Nat /\ r1 = (v * n) \div PRECISE_UNIT
          /\ r1 * PRECISE_UNIT <= v * n
      BY <3>1, <3>2, <3>3, RealUnitFloors
    <3>7. Expected!getPostFeePositionUnit(realUnit(c), fee) = e
      <4> DEFINE x == r * K
      <4>1. x \in Nat  BY <2>4, <3>5
      <4>2. Expected!getPostFeePositionUnit(realUnit(c), fee)
              = Expected!div(x, PRECISE_UNIT)
        BY <3>5 DEF Expected!getPostFeePositionUnit, Expected!preciseMul, realUnit, K
      <4> HIDE DEF x
      <4>3. Expected!div(x, PRECISE_UNIT) = x \div PRECISE_UNIT
        BY <2>3, <4>1, ExpectedDivision
      <4>4. QED  BY <4>2, <4>3 DEF x
    <3>8. realUnit(c)' = r1  BY DEF realUnit
    <3> HIDE DEF v, r, r1
    <3>9. /\ v * m \in Nat /\ v * n \in Nat /\ r * K \in Nat
      BY <2>3, <2>4, <2>6, <3>4, <3>5
    <3>10. /\ v * m < r * PRECISE_UNIT + PRECISE_UNIT
           /\ v * n < r1 * PRECISE_UNIT + PRECISE_UNIT
           /\ e \in Nat /\ e * PRECISE_UNIT <= r * K
           /\ r * K < e * PRECISE_UNIT + PRECISE_UNIT
           /\ w \in Nat /\ v < w * PRECISE_UNIT + PRECISE_UNIT
      BY <2>3, <3>4, <3>5, <3>6, <3>9, NatDivBounds
    <3> HIDE DEF e, w
    <3>11. r1 <= e + 1 /\ e <= r1 + 1 + w
      BY <2>3, <2>4, <2>6, <3>4, <3>5, <3>6, <3>10, UnitsScaleAlike
    <3>12. QED  BY <3>7, <3>8, <3>11 DEF v, w
  <2>8. QED  BY <2>1, <2>5, <2>7
<1>2. QED
  BY <1>1, CollateralInvariant, PTL DEF Spec, AccrualAsExpected
==============================================================================
