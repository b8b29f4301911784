----------------------------- MODULE NavSetProofs -----------------------------
(***************************************************************************)
(* Theorems about NAVIssuanceModule: its settings, the value that an       *)
(* issuance or redemption moves, and what the tests expect of them, for    *)
(* any components, prices, fees, quantities, scale and choices of the      *)
(* manager.                                                                *)
(***************************************************************************)
EXTENDS NavSet, LibraryProofs

\* A SetToken without the module has no reserve asset on record: initialize
\* adds to the mapping what it is given, and trusts that nothing is there.
Forgotten == navState # "INITIALIZED" => navIssuanceSettings.reserveAssets = << >>

\* The list and the mapping of reserve assets.
Agree(list, mapping) ==
  /\ IsInjective(list)
  /\ \A c \in Component : mapping[c] <=> contains(list, c)

\* No fee and no premium exceeds what the manager first committed to.
WithinLimits ==
  /\ \A action \in {"issue", "redeem"} :
       navIssuanceSettings.managerFees[action] <= navIssuanceSettings.maxManagerFee
  /\ navIssuanceSettings.premiumPercentage
       <= navIssuanceSettings.maxPremiumPercentage

\* The module works for a SetToken only above a least supply, so that no call
\* divides by a supply of zero.
Committed == navState = "INITIALIZED" => navIssuanceSettings.minSetTokenSupply > 0

SettingsInv ==
  /\ NavTypeOK
  /\ Agree(navIssuanceSettings.reserveAssets, isReserveAsset)
  /\ Forgotten
  /\ WithinLimits
  /\ Committed

\* No settings agree with an empty mapping.
LEMMA EmptyAgrees ==
  /\ NoSettings \in NAVIssuanceSettings
  /\ Agree(<< >>, [c \in Component |-> FALSE])
<1>1. 0 \in Percentage  BY PreciseUnitAssumption DEF Percentage
<1>2. QED
  BY <1>1 DEF NoSettings, NAVIssuanceSettings, Agree, IsInjective, contains

LEMMA InitEstablishes == Init => SettingsInv
BY EmptyAgrees
DEF Init, NavInit, SettingsInv, NavTypeOK, Forgotten, WithinLimits, Committed,
    NoSettings

\* Adding and removing a reserve asset.
LEMMA EditReservesKeeps ==
  ASSUME SettingsInv, NEW c \in Component,
         addReserveAsset(c) \/ removeReserveAsset(c)
  PROVE  SettingsInv'
<1> DEFINE list == navIssuanceSettings.reserveAssets
           list1 == navIssuanceSettings'.reserveAssets
<1>1. /\ list \in Seq(Component) /\ IsInjective(list)
      /\ isReserveAsset \in [Component -> BOOLEAN]
      /\ \A d \in Component : isReserveAsset[d] <=> contains(list, d)
  BY DEF SettingsInv, NavTypeOK, NAVIssuanceSettings, Agree
<1>2. /\ list1 \in Seq(Component)
      /\ navIssuanceSettings' = [navIssuanceSettings EXCEPT !.reserveAssets = list1]
      /\ isReserveAsset' \in [Component -> BOOLEAN]
      /\ Agree(list1, isReserveAsset')
  <2>1. CASE addReserveAsset(c)
    <3>1. list1 = Append(list, c)
          /\ navIssuanceSettings' = [navIssuanceSettings EXCEPT !.reserveAssets = list1]
      BY <2>1 DEF addReserveAsset, SettingsInv, NavTypeOK, NAVIssuanceSettings
    <3>2. /\ list1 \in Seq(Component) /\ IsInjective(list1)
          /\ ToSet(list1) = ToSet(list) \cup {c}
      BY <1>1, <2>1, <3>1, PushKeepsDistinct DEF addReserveAsset
    <3>3. \A d : contains(list1, d) <=> contains(list, d) \/ d = c
      BY <3>2, ContainsIsMembership
    <3>4. isReserveAsset' = [isReserveAsset EXCEPT ![c] = TRUE]
      BY <2>1 DEF addReserveAsset
    <3>5. QED  BY <1>1, <3>1, <3>2, <3>3, <3>4 DEF Agree
  <2>2. CASE removeReserveAsset(c)
    <3>1. list1 = remove(list, c)
          /\ navIssuanceSettings' = [navIssuanceSettings EXCEPT !.reserveAssets = list1]
      BY <2>2 DEF removeReserveAsset, SettingsInv, NavTypeOK, NAVIssuanceSettings
    <3>2. /\ list1 \in Seq(Component) /\ IsInjective(list1)
          /\ ToSet(list1) = ToSet(list) \ {c}
      BY <1>1, <2>2, <3>1, RemoveKeepsDistinct DEF removeReserveAsset
    <3>3. \A d : contains(list1, d) <=> contains(list, d) /\ d # c
      BY <3>2, ContainsIsMembership
    <3>4. isReserveAsset' = [isReserveAsset EXCEPT ![c] = FALSE]
      BY <2>2 DEF removeReserveAsset
    <3>5. QED  BY <1>1, <3>1, <3>2, <3>3, <3>4 DEF Agree
  <2>3. QED  BY <2>1, <2>2
<1>3. navState = "INITIALIZED" /\ navState' = navState
  BY DEF addReserveAsset, removeReserveAsset, ManagerOnly
<1> HIDE DEF list1
<1>4. NavTypeOK'
  BY <1>2, <1>3 DEF SettingsInv, NavTypeOK, NAVIssuanceSettings
<1>5. WithinLimits' /\ Committed' /\ navIssuanceSettings'.reserveAssets = list1
  BY <1>2, <1>3 DEF SettingsInv, NavTypeOK, NAVIssuanceSettings, WithinLimits,
    Committed
<1>6. QED  BY <1>2, <1>3, <1>4, <1>5 DEF SettingsInv, Forgotten

\* A premium or a fee stays below its limit, which is below 100%.
LEMMA EditFeesKeeps ==
  ASSUME SettingsInv, NEW x \in Nat, NEW action \in {"issue", "redeem"},
         editPremium(x) \/ editManagerFee(x, action)
  PROVE  SettingsInv'
<1>1. /\ navIssuanceSettings'.reserveAssets = navIssuanceSettings.reserveAssets
      /\ isReserveAsset' = isReserveAsset /\ navState' = navState
  BY DEF editPremium, editManagerFee, ManagerOnly, SettingsInv, NavTypeOK,
         NAVIssuanceSettings
<1>2. PRECISE_UNIT \in Nat /\ Percentage = 0 .. PRECISE_UNIT - 1
  BY PreciseUnitAssumption DEF Percentage
<1>3. /\ navIssuanceSettings' \in NAVIssuanceSettings /\ WithinLimits'
      /\ navIssuanceSettings'.minSetTokenSupply
           = navIssuanceSettings.minSetTokenSupply
  <2>1. CASE editPremium(x)
    <3>1. x \in Percentage
      BY <1>2, <2>1 DEF editPremium, SettingsInv, NavTypeOK, NAVIssuanceSettings
    <3>2. QED
      BY <2>1, <3>1 DEF editPremium, SettingsInv, NavTypeOK,
         NAVIssuanceSettings, WithinLimits
  <2>2. CASE editManagerFee(x, action)
    <3>1. x \in Percentage
      BY <1>2, <2>2 DEF editManagerFee, SettingsInv, NavTypeOK, NAVIssuanceSettings
    <3>2. QED
      BY <2>2, <3>1 DEF editManagerFee, SettingsInv, NavTypeOK,
         NAVIssuanceSettings, WithinLimits
  <2>3. QED  BY <2>1, <2>2
<1>4. QED  BY <1>1, <1>3 DEF SettingsInv, NavTypeOK, Forgotten, Committed

\* Settings that pass the requires of initialize.
LEMMA InitializeKeeps ==
  ASSUME SettingsInv, NEW s \in Settings, initialize(s)
  PROVE  SettingsInv'
<1> DEFINE list == s.reserveAssets
<1>1. list \in Seq(Component) /\ IsInjective(list)
  <2>1. list \in Seq(Component)  BY NavSetAssumption
  <2>2. ~hasDuplicate(list)  BY DEF initialize
  <2>3. DOMAIN list \subseteq Int  BY <2>1
  <2>4. ASSUME NEW i \in DOMAIN list, NEW j \in DOMAIN list, list[i] = list[j]
        PROVE  i = j
    <3>1. ~(i < j) /\ ~(j < i)  BY <2>2, <2>4 DEF hasDuplicate
    <3>2. QED  BY <2>3, <3>1
  <2>5. QED  BY <2>1, <2>4 DEF IsInjective
<1>2. \A c \in Component : ~isReserveAsset[c]
  BY DEF initialize, SettingsInv, Forgotten, Agree, contains
<1>3. isReserveAsset' = [c \in Component |-> contains(list, c)]
  <2>1. \A c \in Component : contains(list, c) \in BOOLEAN  BY DEF contains
  <2>2. \A c \in Component :
          (isReserveAsset[c] \/ contains(list, c)) = contains(list, c)
    BY <1>2, <2>1
  <2>3. QED  BY <2>2 DEF initialize
<1>4. Agree(list, isReserveAsset') /\ isReserveAsset' \in [Component -> BOOLEAN]
  BY <1>1, <1>3 DEF Agree, contains
<1>5. s \in NAVIssuanceSettings /\ navIssuanceSettings' = s
      /\ navState' = "INITIALIZED"
  <2>1. PRECISE_UNIT \in Nat /\ Percentage = 0 .. PRECISE_UNIT - 1
    BY PreciseUnitAssumption DEF Percentage
  <2>2. s.maxManagerFee \in Percentage /\ s.maxPremiumPercentage \in Percentage
        /\ s.premiumPercentage \in Percentage
    BY <2>1, NavSetAssumption DEF initialize
  <2>3. s.managerFees \in [{"issue", "redeem"} -> Percentage]
    BY <2>1, <2>2, NavSetAssumption DEF initialize
  <2>4. QED  BY <2>2, <2>3, NavSetAssumption DEF NAVIssuanceSettings, initialize
<1>6. WithinLimits' /\ Committed'
  BY <1>5 DEF initialize, WithinLimits, Committed
<1>7. QED  BY <1>4, <1>5, <1>6 DEF SettingsInv, NavTypeOK, Forgotten

\* Removal forgets the list and, for the assets listed, the mapping.
LEMMA RemovalKeeps ==
  ASSUME SettingsInv, removeModule
  PROVE  SettingsInv'
<1>1. \A c \in Component :
        ~(isReserveAsset[c] /\ ~contains(navIssuanceSettings.reserveAssets, c))
  BY DEF SettingsInv, Agree
<1>2. isReserveAsset' = [c \in Component |-> FALSE]
  BY <1>1 DEF removeModule, SettingsInv, NavTypeOK
<1>3. navIssuanceSettings' = NoSettings /\ navState' = "NONE"
  BY DEF removeModule
<1>4. NoSettings.reserveAssets = << >>  BY DEF NoSettings
<1>5. NavTypeOK' /\ Agree(NoSettings.reserveAssets, isReserveAsset')
  BY <1>2, <1>3, <1>4, EmptyAgrees DEF NavTypeOK
<1>6. WithinLimits'  BY <1>3 DEF WithinLimits, NoSettings
<1>7. QED  BY <1>3, <1>4, <1>5, <1>6 DEF SettingsInv, Forgotten, Committed

LEMMA NextPreserves == SettingsInv /\ [Next]_vars => SettingsInv'
<1> SUFFICES ASSUME SettingsInv, [Next]_vars PROVE SettingsInv'
  OBVIOUS
<1>1. CASE UNCHANGED navVars
  BY <1>1 DEF navVars, SettingsInv, NavTypeOK, Forgotten, WithinLimits, Committed
<1>2. CASE UNCHANGED vars  BY <1>1, <1>2 DEF vars
<1>3. CASE UseBasic \/ ManageOracles  BY <1>1, <1>3 DEF UseBasic, ManageOracles
<1>4. CASE UseNav  BY <1>1, <1>4 DEF UseNav, issue, redeem
<1>5. CASE Manage
  <2>1. ASSUME NEW c \in Component, addReserveAsset(c) \/ removeReserveAsset(c)
        PROVE  SettingsInv'
    BY <2>1, EditReservesKeeps
  <2>2. ASSUME NEW s \in Settings, NEW a \in {"issue", "redeem"},
               \/ editPremium(s.premiumPercentage)
               \/ editManagerFee(s.managerFees[a], a)
        PROVE  SettingsInv'
    <3>1. s.premiumPercentage \in Nat /\ s.managerFees[a] \in Nat
      BY NavSetAssumption
    <3>2. QED  BY <2>2, <3>1, EditFeesKeeps
  <2>3. ASSUME NEW s \in Settings, initialize(s) PROVE SettingsInv'
    BY <2>3, InitializeKeeps
  <2>4. CASE removeModule  BY <2>4, RemovalKeeps
  <2>5. CASE addModule
    BY <2>5 DEF addModule, SettingsInv, NavTypeOK, Forgotten, WithinLimits,
      Committed
  <2>6. QED  BY <1>5, <2>1, <2>2, <2>3, <2>4, <2>5 DEF Manage
<1>6. QED  BY <1>2, <1>3, <1>4, <1>5 DEF Next

-----------------------------------------------------------------------------

\* The settings are sound in every state: typed, below their limits, and with
\* a list and a mapping of reserve assets that agree.
THEOREM SettingsInvariant == Spec => []SettingsInv
BY InitEstablishes, NextPreserves, PTL DEF Spec

\* No manager's fee and no premium exceeds the limit set at initialisation.
THEOREM LimitsCorrect == Spec => []WithinLimits
BY SettingsInvariant, PTL DEF SettingsInv

\* getReserveAssets lists exactly the assets that issue and redeem accept.
THEOREM ReserveListCorrect == Spec => []ReserveListMatchesMapping
<1>1. SettingsInv => ReserveListMatchesMapping
  <2> SUFFICES ASSUME SettingsInv PROVE ReserveListMatchesMapping
    OBVIOUS
  <2> DEFINE list == navIssuanceSettings.reserveAssets
  <2>1. list \in Seq(Component) /\ Agree(list, isReserveAsset)
    BY DEF SettingsInv, NavTypeOK, NAVIssuanceSettings
  <2>2. DOMAIN list \subseteq Int  BY <2>1
  <2>3. ~hasDuplicate(list)  BY <2>1, <2>2 DEF Agree, hasDuplicate, IsInjective
  <2>4. QED  BY <2>1, <2>3 DEF Agree, ReserveListMatchesMapping
<1>2. QED  BY <1>1, SettingsInvariant, PTL

-----------------------------------------------------------------------------
(* The value of a SetToken. *)

OraclesTyped == oracles \in [Asset \X Asset -> Nat]

\* A price is an unsigned number, zero if it is not found.
LEMMA PriceType ==
  ASSUME OraclesTyped, NEW one \in Asset, NEW two \in Asset
  PROVE  getPrice(one, two) \in Nat
<1>1. PRECISE_UNIT \in Nat \ {0}  BY PreciseUnitAssumption
<1>2. \A a, b \in Nat : b # 0 => preciseDiv(a, b) \in Nat
  <2> SUFFICES ASSUME NEW a \in Nat, NEW b \in Nat, b # 0
               PROVE  preciseDiv(a, b) \in Nat
    OBVIOUS
  <2>1. a * PRECISE_UNIT \in Nat  BY <1>1
  <2>2. QED  BY <2>1, NatDivBounds DEF preciseDiv
<1>3. \A a, b \in Asset : _getDirectOrInversePrice(a, b) \in Nat
  <2> SUFFICES ASSUME NEW a \in Asset, NEW b \in Asset
               PROVE  _getDirectOrInversePrice(a, b) \in Nat
    OBVIOUS
  <2>1. oracles[<<a, b>>] \in Nat /\ oracles[<<b, a>>] \in Nat
    BY DEF OraclesTyped
  <2>2. oracles[<<b, a>>] # 0 => preciseDiv(PRECISE_UNIT, oracles[<<b, a>>]) \in Nat
    BY <1>1, <1>2, <2>1
  <2>3. QED
    BY <2>1, <2>2 DEF _getDirectOrInversePrice, _calculateInversePrice, NoPrice
<1>4. _getPriceFromMasterQuote(one, two) \in Nat
  <2>1. /\ _getDirectOrInversePrice(one, masterQuoteAsset) \in Nat
        /\ _getDirectOrInversePrice(two, masterQuoteAsset) \in Nat
    BY <1>3, PriceOracleAssumption
  <2>2. QED  BY <1>2, <2>1 DEF _getPriceFromMasterQuote, NoPrice
<1>5. QED  BY <1>3, <1>4 DEF getPrice

\* Without external positions the total of a component is its default unit.
LEMMA TotalIsDefault ==
  ASSUME PlainInv(positions), NEW c \in Component
  PROVE  getTotalComponentRealUnits(positions, c) = realUnit(c)
<1> DEFINE S == DOMAIN positions.externalPositionModules[c]
           r == getDefaultPositionRealUnit(positions, c)
           f == CHOOSE g : Totals(positions, c, S, g)
           h == [T \in {{}} |-> r]
<1>1. S = {}
  <2>1. positions.externalPositionModules[c] = << >>  BY DEF PlainInv
  <2>2. QED  BY <2>1
<1>2. SUBSET S = {{}}  BY <1>1
<1>3. Totals(positions, c, S, h)  BY <1>2 DEF Totals, totalOf
<1>4. Totals(positions, c, S, f)  BY <1>3
<1>5. getTotalComponentRealUnits(positions, c) = f[S]  BY TotalIsChosen
<1> HIDE DEF f, S
<1>6. f[S] = r  BY <1>1, <1>2, <1>4 DEF Totals, totalOf
<1>7. QED  BY <1>5, <1>6 DEF realUnit

\* No component is worth less than nothing.
LEMMA ComponentValue ==
  ASSUME PlainInv(positions), OraclesTyped, NEW c \in Component
  PROVE  valueOf(c) \in Nat
<1> DEFINE r == realUnit(c)
           price == getPrice(c, masterQuoteAsset)
           b == baseUnits[c]
<1>1. PRECISE_UNIT \in Nat \ {0} /\ b \in Nat \ {0}
  BY PreciseUnitAssumption, SetValuerAssumption
<1>2. r \in Nat  BY RealUnitFloors DEF realUnit
<1>3. price \in Nat
  BY PriceType, PriceOracleAssumption, SetValuerAssumption
<1>4. getTotalComponentRealUnits(positions, c) = r  BY TotalIsDefault
<1> DEFINE n == sdiv(r * PRECISE_UNIT, b)
<1>5. valueOf(c) = sdiv(n * price, PRECISE_UNIT)
  BY <1>4 DEF valueOf, preciseMulSigned
<1> HIDE DEF r, price, b
<1>6. n \in Nat
  <2>1. r * PRECISE_UNIT \in Nat  BY <1>1, <1>2
  <2>2. QED  BY <1>1, <2>1, TruncationFloors, NatDivBounds
<1> HIDE DEF n
<1>7. n * price \in Nat  BY <1>3, <1>6
<1>8. sdiv(n * price, PRECISE_UNIT) \in Nat
  BY <1>1, <1>7, TruncationFloors, NatDivBounds
<1>9. QED  BY <1>5, <1>8

valued(g, T) ==
  IF T = {} THEN 0
  ELSE g[T \ {Max(T)}] + valueOf(positions.components[Max(T)])

Valued(g) == g = [T \in SUBSET (DOMAIN positions.components) |-> valued(g, T)]

LEMMA ValuationIsChosen ==
  masterValuation = (CHOOSE g : Valued(g))[DOMAIN positions.components]
BY DEF masterValuation, FoldLeft, MapThenFoldSet, Valued, valued

\* The valuation is the sum of what the components are worth.
LEMMA ValuationIsSum ==
  ASSUME PlainInv(positions), OraclesTyped
  PROVE  LET L == positions.components
         IN  /\ masterValuation = sumOver([i \in DOMAIN L |-> valueOf(L[i])], DOMAIN L)
             /\ masterValuation \in Nat
<1> DEFINE L == positions.components
           n == Len(L)
           S == DOMAIN L
           v == [i \in S |-> valueOf(L[i])]
           f == CHOOSE g : Valued(g)
<1>1. L \in Seq(Component) /\ S = 1 .. n /\ n \in Nat
  BY DEF PlainInv, PositionState
<1>2. \A i \in S : v[i] \in Nat /\ v[i] = valueOf(L[i])
  <2>1. \A i \in S : L[i] \in Component  BY <1>1
  <2>2. \A i \in S : valueOf(L[i]) \in Nat  BY <2>1, ComponentValue
  <2>3. QED  BY <2>2
<1>3. \A T \in SUBSET S : T # {} => Max(T) \in T
  BY <1>1, MaxIsMember
<1>4. masterValuation = f[S]  BY ValuationIsChosen
<1> HIDE DEF v
<1>5. \A g, T : T \in SUBSET S => valued(g, T) = running(v, g, T)
  BY <1>2, <1>3 DEF valued, running
<1>6. \A g : Valued(g) <=> Running(v, S, g)
  BY <1>5 DEF Valued, Running
<1>7. /\ \E g : Running(v, S, g)
      /\ \A g : Running(v, S, g) => g[S] = sumOver(v, S)
  <2>1. \A i \in 1 .. n : v[i] \in Int  BY <1>1, <1>2
  <2> HIDE DEF n, S
  <2>2. QED  BY <1>1, <2>1, RunningIsSum
<1>8. Valued(f)  BY <1>6, <1>7
<1> HIDE DEF f
<1>9. masterValuation = sumOver(v, S)  BY <1>4, <1>6, <1>7, <1>8
<1>10. sumOver(v, S) \in Nat
  <2>1. IsFiniteSet(S)  BY <1>1, FS_Interval
  <2>2. QED  BY <1>2, <2>1, SumOfNaturals
<1>11. QED  BY <1>9, <1>10 DEF v

\* In a quote asset whose price is found the value is an unsigned number too.
LEMMA ValuationType ==
  ASSUME PlainInv(positions), OraclesTyped, NEW c \in Component, isPriced(c)
  PROVE  calculateSetTokenValuation(c) \in Nat
<1> DEFINE price == getPrice(c, masterQuoteAsset)
<1>1. masterValuation \in Nat /\ PRECISE_UNIT \in Nat \ {0}
  BY ValuationIsSum, PreciseUnitAssumption
<1>2. price \in Nat
  BY PriceType, PriceOracleAssumption, SetValuerAssumption
<1>3. c # masterQuoteAsset => price # 0  BY DEF isPriced, NoPrice
<1> HIDE DEF price
<1>4. masterValuation * PRECISE_UNIT \in Nat  BY <1>1
<1>5. price # 0 => sdiv(masterValuation * PRECISE_UNIT, price) \in Nat
  BY <1>2, <1>4, TruncationFloors, NatDivBounds
<1>6. QED  BY <1>1, <1>3, <1>5 DEF calculateSetTokenValuation, price

-----------------------------------------------------------------------------
(* The vault, as NAV issuance and redemption leave it. *)

VaultInv == VaultTypeOK /\ PlainInv(positions) /\ OraclesTyped

NavInv == SettingsInv /\ VaultInv

\* The percentages in use.
LEMMA PercentagesRead ==
  ASSUME SettingsInv
  PROVE  /\ navIssuanceSettings.premiumPercentage \in 0 .. PRECISE_UNIT - 1
         /\ \A action \in {"issue", "redeem"} :
              /\ navIssuanceSettings.managerFees[action] \in 0 .. PRECISE_UNIT - 1
              /\ protocolShare[action] \in 0 .. PRECISE_UNIT
              /\ protocolDirect[action] \in 0 .. PRECISE_UNIT
BY NAVAssumption DEF SettingsInv, NavTypeOK, NAVIssuanceSettings, Percentage

\* The protocol's share never exceeds the manager's fee.
LEMMA SharesRead ==
  ASSUME SettingsInv, NEW action \in {"issue", "redeem"}
  PROVE  LET share == preciseMul(protocolShare[action],
                                 navIssuanceSettings.managerFees[action])
         IN  share \in Nat /\ share <= navIssuanceSettings.managerFees[action]
<1> DEFINE f == navIssuanceSettings.managerFees[action]
           s == protocolShare[action]
<1>1. f \in Nat /\ s \in 0 .. PRECISE_UNIT /\ s \in Nat
  BY PercentagesRead, PreciseUnitAssumption
<1> HIDE DEF f, s
<1>2. preciseMul(f, s) \in Nat /\ preciseMul(f, s) <= f  BY <1>1, ShareBound
<1>3. s * f = f * s  BY <1>1
<1>4. preciseMul(s, f) = preciseMul(f, s)  BY <1>3 DEF preciseMul
<1>5. QED  BY <1>2, <1>4 DEF f, s

\* Fees are never negative.
LEMMA FeesAreNatural ==
  ASSUME SettingsInv, NEW action \in {"issue", "redeem"}, NEW x \in Nat
  PROVE  feesOf(action, x) \in Nat
<1> DEFINE f == navIssuanceSettings.managerFees[action]
           direct == protocolDirect[action]
           share == preciseMul(protocolShare[action], f)
<1>1. f \in Nat /\ direct \in Nat
  BY PercentagesRead, PreciseUnitAssumption
<1>2. share \in Nat /\ share <= f  BY SharesRead
<1> HIDE DEF f, direct, share
<1>3. share + direct \in Nat /\ f - share \in Nat  BY <1>1, <1>2
<1>4. preciseMul(share + direct, x) \in Nat /\ preciseMul(f - share, x) \in Nat
  BY <1>3, PreciseMulBound
<1>5. feesOf(action, x) = preciseMul(share + direct, x) + preciseMul(f - share, x)
  BY DEF feesOf, protocolFeePercentage, managerFeePercentage, share, f, direct
<1>6. QED  BY <1>4, <1>5

\* What is rounded up of a share of at most the whole is at most the whole.
LEMMA CeilShareBound ==
  ASSUME NEW a \in Nat, NEW share \in 0 .. PRECISE_UNIT
  PROVE  /\ preciseMulCeil(a, share) \in Nat /\ preciseMulCeil(a, share) <= a
         /\ preciseMulCeil(a, share) * PRECISE_UNIT >= a * share
         /\ preciseMulCeil(a, share) * PRECISE_UNIT < a * share + PRECISE_UNIT
<1> DEFINE P == PRECISE_UNIT
           x == a * share
           y == preciseMulCeil(a, share)
<1>1. P \in Nat \ {0} /\ share \in Nat /\ share <= P  BY PreciseUnitAssumption
<1>2. y \in Nat /\ y * P >= x  BY <1>1, PreciseMulCeilBound
<1>3. x \in Nat /\ x <= a * P  BY <1>1
<1>4. y * P < x + P
  <2>1. CASE a = 0 \/ share = 0
    <3>1. y = 0 /\ x = 0  BY <1>1, <2>1 DEF preciseMulCeil
    <3> HIDE DEF P, x, y
    <3>2. QED  BY <1>1, <3>1
  <2>2. CASE a # 0 /\ share # 0
    <3>1. x - 1 \in Nat  BY <1>1, <2>2
    <3> DEFINE d == (x - 1) \div P
    <3>2. y = d + 1  BY <2>2 DEF preciseMulCeil
    <3> HIDE DEF P, x, y
    <3>3. d \in Nat /\ d * P <= x - 1  BY <1>1, <3>1, NatDivBounds
    <3> HIDE DEF d
    <3>4. (d + 1) * P = d * P + P /\ d * P \in Nat  BY <1>1, <3>3
    <3>5. QED  BY <1>1, <1>3, <3>2, <3>3, <3>4
  <2>3. QED  BY <2>1, <2>2
<1> HIDE DEF P, x, y
<1>5. y <= a
  <2>1. y * P < (a + 1) * P
    <3>1. (a + 1) * P = a * P + P /\ a * P \in Nat /\ y * P \in Nat
      BY <1>1, <1>2
    <3>2. QED  BY <1>1, <1>3, <1>4, <3>1
  <2>2. y < a + 1  BY <1>1, <1>2, <2>1
  <2>3. QED  BY <1>2, <2>2
<1>6. QED  BY <1>2, <1>4, <1>5 DEF P, x, y

\* What an issuance mints for a net quantity: a natural number, that times the
\* denominator at most the normalised quantity times the supply.
LEMMA MintedReads ==
  ASSUME NavInv, NEW r \in Component, isPriced(r), NEW net \in Nat,
         mintDenominator(r, net) > 0
  PROVE  LET V == calculateSetTokenValuation(r)
             D == mintDenominator(r, net)
             premium == preciseMul(net, navIssuanceSettings.premiumPercentage)
             n == preciseDiv(net - premium, baseUnits[r])
             minted == _getSetTokenMintQuantity(r, net)
         IN  /\ V \in Nat /\ D \in Nat \ {0} /\ n \in Nat /\ minted \in Nat
             /\ premium \in Nat /\ premium <= net
             /\ minted * D <= n * totalSupply
             /\ totalSupply * V < (D + 1) * PRECISE_UNIT
<1> DEFINE P == PRECISE_UNIT
           S == totalSupply
           b == baseUnits[r]
           V == calculateSetTokenValuation(r)
           D == mintDenominator(r, net)
           premium == preciseMul(net, navIssuanceSettings.premiumPercentage)
           n == preciseDiv(net - premium, b)
           full == preciseDiv(net, b)
           total == preciseMul(S, V)
           minted == _getSetTokenMintQuantity(r, net)
<1>1. /\ P \in Nat \ {0} /\ S \in Nat /\ b \in Nat \ {0}
      /\ navIssuanceSettings.premiumPercentage \in 0 .. P
  BY PreciseUnitAssumption, SetValuerAssumption, PercentagesRead
  DEF NavInv, VaultInv, VaultTypeOK
<1>2. V \in Nat  BY ValuationType DEF NavInv, VaultInv
<1>3. premium \in Nat /\ premium <= net  BY <1>1, ShareBound
<1>4. /\ D = total + full - n /\ D > 0
      /\ minted = preciseDiv(preciseMul(n, S), D)
  BY DEF mintDenominator, _getSetTokenMintQuantity
<1> HIDE DEF b, V, D, premium, minted, S
<1>5. /\ n \in Nat /\ full \in Nat /\ n <= full
  <2>1. net - premium \in Nat  BY <1>3
  <2>2. (net - premium) * P \in Nat /\ net * P \in Nat
        /\ (net - premium) * P <= net * P
    BY <1>1, <1>3, <2>1
  <2> DEFINE x == (net - premium) * P
             y == net * P
  <2> HIDE DEF x, y, P
  <2>3. /\ x \div b \in Nat /\ (x \div b) * b <= x
        /\ y \div b \in Nat /\ y < (y \div b) * b + b
    BY <1>1, <2>2, NatDivBounds DEF x, y
  <2> DEFINE k == x \div b
             l == y \div b
  <2>4. n = k /\ full = l  BY DEF preciseDiv, x, y, P
  <2> HIDE DEF k, l, n, full
  <2>5. k \in Nat /\ l \in Nat /\ k * b <= x /\ y < l * b + b /\ x <= y
        /\ x \in Nat /\ y \in Nat
    BY <2>2, <2>3 DEF k, l, x, y
  <2>6. k * b < (l + 1) * b
    <3>1. (l + 1) * b = l * b + b /\ k * b \in Nat /\ l * b \in Nat
      BY <1>1, <2>5
    <3>2. QED  BY <1>1, <2>5, <3>1
  <2>7. k < l + 1  BY <1>1, <2>5, <2>6
  <2>8. QED  BY <2>4, <2>5, <2>7
<1> HIDE DEF n, full
<1>6. total \in Nat /\ S * V < (total + 1) * P
  <2>1. S * V \in Nat  BY <1>1, <1>2
  <2> DEFINE w == S * V
  <2> HIDE DEF w, P
  <2>2. /\ w \div P \in Nat /\ w < (w \div P) * P + P
    BY <1>1, <2>1, NatDivBounds DEF w
  <2>3. total = w \div P  BY DEF preciseMul, w, P
  <2> HIDE DEF total
  <2>4. (total + 1) * P = total * P + P  BY <1>1, <2>2, <2>3
  <2>5. QED  BY <2>2, <2>3, <2>4 DEF w
<1> HIDE DEF total
<1>7. D \in Nat \ {0} /\ total <= D  BY <1>4, <1>5, <1>6
<1>8. S * V < (D + 1) * P
  <2>1. (total + 1) * P <= (D + 1) * P  BY <1>1, <1>6, <1>7
  <2>2. S * V \in Nat /\ (total + 1) * P \in Nat /\ (D + 1) * P \in Nat
    BY <1>1, <1>2, <1>6, <1>7
  <2>3. QED  BY <1>6, <2>1, <2>2
<1>9. minted \in Nat /\ minted * D <= n * S
  <2> DEFINE x == preciseMul(n, S)
  <2>1. x \in Nat /\ x * P <= n * S  BY <1>1, <1>5, PreciseMulBound
  <2> HIDE DEF x, P
  <2>2. x * P \in Nat  BY <1>1, <2>1
  <2>3. (x * P) \div D \in Nat /\ ((x * P) \div D) * D <= x * P
    BY <1>7, <2>2, NatDivBounds
  <2>4. minted = (x * P) \div D  BY <1>4 DEF preciseDiv, x, P
  <2>5. n * S \in Nat /\ minted * D \in Nat  BY <1>1, <1>5, <1>7, <2>3, <2>4
  <2>6. QED  BY <2>1, <2>2, <2>3, <2>4, <2>5
<1>10. QED
  BY <1>2, <1>3, <1>5, <1>7, <1>8, <1>9 DEF V, D, premium, n, minted, S, P, b

\* What leaves in a redemption: a natural number, rounded down at every step.
LEMMA OutflowReads ==
  ASSUME NavInv, NEW r \in Component, isPriced(r), NEW q \in Nat
  PROVE  LET V == calculateSetTokenValuation(r)
             premium == navIssuanceSettings.premiumPercentage
             value == preciseMul(q, V)
             whole == preciseMul(value, baseUnits[r])
             outflow == _getRedeemReserveQuantity(r, q)
         IN  /\ V \in Nat /\ value \in Nat /\ whole \in Nat /\ outflow \in Nat
             /\ value * PRECISE_UNIT <= q * V
             /\ whole * PRECISE_UNIT <= value * baseUnits[r]
             /\ value * baseUnits[r] < whole * PRECISE_UNIT + PRECISE_UNIT
             /\ outflow = whole - preciseMulCeil(whole, premium)
             /\ outflow * PRECISE_UNIT <= whole * (PRECISE_UNIT - premium)
             /\ whole * (PRECISE_UNIT - premium) < outflow * PRECISE_UNIT + PRECISE_UNIT
<1> DEFINE P == PRECISE_UNIT
           b == baseUnits[r]
           V == calculateSetTokenValuation(r)
           premium == navIssuanceSettings.premiumPercentage
           value == preciseMul(q, V)
           whole == preciseMul(value, b)
           taken == preciseMulCeil(whole, premium)
           outflow == _getRedeemReserveQuantity(r, q)
<1>1. /\ P \in Nat \ {0} /\ b \in Nat \ {0}
      /\ premium \in 0 .. P /\ premium \in Nat /\ premium <= P
  BY PreciseUnitAssumption, SetValuerAssumption, PercentagesRead DEF NavInv
<1>2. V \in Nat  BY ValuationType DEF NavInv, VaultInv
<1>3. outflow = whole - taken  BY DEF _getRedeemReserveQuantity
<1> HIDE DEF b, V, premium, outflow
<1>4. value \in Nat /\ value * P <= q * V  BY <1>2, PreciseMulBound
<1> HIDE DEF value
<1>5. /\ whole \in Nat /\ whole * P <= value * b /\ value * b < whole * P + P
  <2>1. value * b \in Nat  BY <1>1, <1>4
  <2>2. QED  BY <1>1, <2>1, NatDivBounds DEF preciseMul
<1> HIDE DEF whole
<1>6. /\ taken \in Nat /\ taken <= whole
      /\ taken * P >= whole * premium /\ taken * P < whole * premium + P
  BY <1>1, <1>5, CeilShareBound
<1> HIDE DEF taken, P
<1>7. outflow \in Nat  BY <1>3, <1>5, <1>6
<1>8. /\ outflow * P = whole * P - taken * P
      /\ whole * (P - premium) = whole * P - whole * premium
      /\ whole * P \in Nat /\ taken * P \in Nat /\ whole * premium \in Nat
  BY <1>1, <1>3, <1>5, <1>6
<1>9. /\ outflow * P <= whole * (P - premium)
      /\ whole * (P - premium) < outflow * P + P
  BY <1>1, <1>6, <1>8
<1>10. QED
  BY <1>2, <1>3, <1>4, <1>5, <1>7, <1>9
  DEF V, premium, value, whole, taken, outflow, P, b

\* The positions after repricing to n and storing a unit u of component r.
Updated(r, n, u) ==
  /\ PlainInv(positions') /\ n > 0
  /\ positions'.positionMultiplier = n
  /\ \A d \in Component \ {r} : positions'.virtualUnit[d] = positions.virtualUnit[d]
  /\ positions'.virtualUnit[r] = (u * PRECISE_UNIT) \div n
  /\ getDefaultPositionRealUnit(positions', r) <= u

LEMMA StateUpdates ==
  ASSUME PlainInv(positions), NEW r \in Component, NEW n \in Int, NEW u \in Nat,
         _handleStateUpdates(r, n, u)
  PROVE  Updated(r, n, u)
<1> DEFINE p == editPositionMultiplier(positions, n)
           e == editDefaultPosition(p, r, u)
<1>1. /\ _validateNewMultiplier(positions, n)
      /\ editDefaultPositionOk(p, r, u) /\ positions' = e
  BY DEF _handleStateUpdates
<1>2. /\ PlainInv(p) /\ n > 0 /\ p.positionMultiplier = n
      /\ p.virtualUnit = positions.virtualUnit
  BY <1>1, RepricingIsPlain
<1> HIDE DEF p
<1>3. /\ PlainInv(e) /\ e.positionMultiplier = p.positionMultiplier
      /\ \A d \in Component \ {r} : e.virtualUnit[d] = p.virtualUnit[d]
      /\ e.virtualUnit[r] = (u * PRECISE_UNIT) \div p.positionMultiplier
      /\ getDefaultPositionRealUnit(e, r) <= u
  BY <1>1, <1>2, EditDefaultKeeps
<1> HIDE DEF e
<1>4. QED  BY <1>1, <1>2, <1>3 DEF Updated

\* An issuance or redemption that brings in (or, if negative, pays out) d of
\* component r, for a supply of S1 afterwards.
Moved(r, d, S1) ==
  LET S == totalSupply
  IN  /\ S \in Nat \ {0} /\ S1 \in Nat \ {0} /\ totalSupply' = S1
      /\ d \in Int /\ totalReserve(r) \in Nat /\ totalReserve(r) + d >= 0
      /\ held'[r] = held[r] + d
      /\ \A c \in Component \ {r} : held'[c] = held[c]
      /\ Updated(r, (positions.positionMultiplier * S) \div S1,
                 ((totalReserve(r) + d) * PRECISE_UNIT) \div S1)

\* The unit and the multiplier that both handlers store.
LEMMA HandlersStore ==
  ASSUME VaultInv, NEW r \in Component, NEW d \in Int, totalReserve(r) + d >= 0,
         NEW S1 \in Nat \ {0}, totalSupply # 0,
         _handleStateUpdates(r, positionMultiplierFor(S1),
                             preciseDiv(totalReserve(r) + d, S1))
  PROVE  /\ totalSupply \in Nat \ {0} /\ totalReserve(r) \in Nat
         /\ Updated(r, (positions.positionMultiplier * totalSupply) \div S1,
                    ((totalReserve(r) + d) * PRECISE_UNIT) \div S1)
<1> DEFINE P == PRECISE_UNIT
           m == positions.positionMultiplier
           S == totalSupply
           R == totalReserve(r)
<1>1. P \in Nat \ {0} /\ m \in Nat /\ S \in Nat \ {0}
  BY PreciseUnitAssumption DEF VaultInv, VaultTypeOK, PlainInv, PositionState
<1>2. R \in Nat
  <2>1. realUnit(r) \in Nat  BY RealUnitFloors DEF VaultInv, realUnit
  <2>2. QED  BY <1>1, <2>1, PreciseMulBound DEF totalReserve
<1> HIDE DEF m, S, R, P
<1>3. m * S \in Nat  BY <1>1
<1>4. (m * S) \div S1 \in Nat /\ sdiv(m * S, S1) = (m * S) \div S1
  BY <1>3, TruncationFloors, NatDivBounds
<1>5. R + d \in Nat /\ (R + d) * P \in Nat  BY <1>1, <1>2 DEF R
<1>6. ((R + d) * P) \div S1 \in Nat  BY <1>5, NatDivBounds
<1>7. _handleStateUpdates(r, (m * S) \div S1, ((R + d) * P) \div S1)
  BY <1>4 DEF positionMultiplierFor, preciseDiv, m, S, R, P
<1>8. PlainInv(positions) /\ (m * S) \div S1 \in Int  BY <1>4 DEF VaultInv
<1>9. Updated(r, (m * S) \div S1, ((R + d) * P) \div S1)
  BY <1>6, <1>7, <1>8, StateUpdates
<1>10. QED  BY <1>1, <1>2, <1>9 DEF m, S, R, P

\* No handler runs at a supply of zero.
LEMMA SupplyIsPositive ==
  ASSUME NavInv, navState = "INITIALIZED", NEW x \in Nat,
         x >= navIssuanceSettings.minSetTokenSupply
  PROVE  x # 0
BY DEF NavInv, SettingsInv, Committed, NavTypeOK, NAVIssuanceSettings

LEMMA NavIssueMoves ==
  ASSUME NavInv, NEW a \in Account, NEW r \in Component, NEW q \in Nat,
         issue(a, r, q)
  PROVE  LET net == netFlow("issue", q)
             minted == _getSetTokenMintQuantity(r, net)
         IN  /\ VaultInv' /\ net \in Nat /\ minted \in Nat
             /\ Moved(r, net, totalSupply + minted)
             /\ isPriced(r) /\ mintDenominator(r, net) > 0
<1> DEFINE net == netFlow("issue", q)
           minted == _getSetTokenMintQuantity(r, net)
           S1 == totalSupply + minted
<1>1. /\ navState = "INITIALIZED" /\ isPriced(r)
      /\ totalSupply >= navIssuanceSettings.minSetTokenSupply
      /\ net >= 0 /\ mintDenominator(r, net) > 0
      /\ held' = [held EXCEPT ![r] = @ + net]
      /\ _handleStateUpdates(r, positionMultiplierFor(S1),
                             preciseDiv(totalReserve(r) + net, S1))
      /\ totalSupply' = S1 /\ balances' = [balances EXCEPT ![a] = @ + minted]
      /\ oracles' = oracles
  BY DEF issue, _validateCommon, _mint, _getIssuePositionUnit
<1>2. net \in Nat
  <2>1. feesOf("issue", q) \in Nat  BY FeesAreNatural DEF NavInv
  <2>2. net \in Int  BY <2>1 DEF netFlow
  <2>3. QED  BY <1>1, <2>2
<1> HIDE DEF net
<1>3. minted \in Nat  BY <1>1, <1>2, MintedReads
<1> HIDE DEF minted
<1>4. /\ totalSupply \in Nat /\ balances \in [Account -> Nat]
      /\ held \in [Component -> Nat]
  BY DEF NavInv, VaultInv, VaultTypeOK
<1>5. totalSupply # 0 /\ S1 \in Nat \ {0}
  <2>1. totalSupply # 0  BY <1>1, <1>4, SupplyIsPositive
  <2>2. QED  BY <1>3, <1>4, <2>1
<1> HIDE DEF S1
<1>6. totalReserve(r) + net >= 0
  <2>1. realUnit(r) \in Nat  BY RealUnitFloors DEF NavInv, VaultInv, realUnit
  <2>2. totalReserve(r) \in Nat  BY <1>4, <2>1, PreciseMulBound DEF totalReserve
  <2>3. QED  BY <1>2, <2>2
<1>7. /\ totalSupply \in Nat \ {0} /\ totalReserve(r) \in Nat
      /\ Updated(r, (positions.positionMultiplier * totalSupply) \div S1,
                 ((totalReserve(r) + net) * PRECISE_UNIT) \div S1)
  <2>1. VaultInv /\ net \in Int  BY <1>2 DEF NavInv
  <2>2. QED  BY <1>1, <1>5, <1>6, <2>1, HandlersStore
<1>8. /\ held'[r] = held[r] + net /\ held' \in [Component -> Nat]
      /\ \A c \in Component \ {r} : held'[c] = held[c]
  BY <1>1, <1>2, <1>4
<1>9. Moved(r, net, S1)
  BY <1>1, <1>2, <1>5, <1>6, <1>7, <1>8 DEF Moved
<1>10. VaultInv'
  <2>1. balances' \in [Account -> Nat]  BY <1>1, <1>3, <1>4
  <2>2. PlainInv(positions') /\ positions' \in PositionState
    BY <1>7 DEF Updated, PlainInv
  <2>3. totalSupply' \in Nat  BY <1>1, <1>5
  <2>4. OraclesTyped'  BY <1>1 DEF NavInv, VaultInv, OraclesTyped
  <2>5. (PlainInv(positions))'  BY <2>2 DEF PlainInv, PositionState, isComponent
  <2>6. QED  BY <1>8, <2>1, <2>2, <2>3, <2>4, <2>5 DEF VaultInv, VaultTypeOK
<1>11. QED  BY <1>1, <1>2, <1>3, <1>9, <1>10 DEF S1, net, minted

LEMMA NavRedeemMoves ==
  ASSUME NavInv, NEW a \in Account, NEW r \in Component, NEW q \in Nat,
         redeem(a, r, q)
  PROVE  LET outflow == _getRedeemReserveQuantity(r, q)
         IN  /\ VaultInv' /\ outflow \in Nat /\ q # 0
             /\ Moved(r, -outflow, totalSupply - q)
             /\ isPriced(r)
<1> DEFINE outflow == _getRedeemReserveQuantity(r, q)
           S1 == totalSupply - q
<1>1. /\ navState = "INITIALIZED" /\ isPriced(r) /\ q > 0
      /\ S1 >= navIssuanceSettings.minSetTokenSupply
      /\ totalReserve(r) >= outflow /\ held[r] >= outflow
      /\ balances[a] >= q /\ totalSupply >= q
      /\ held' = [held EXCEPT ![r] = @ - outflow]
      /\ _handleStateUpdates(r, positionMultiplierFor(S1),
                             preciseDiv(totalReserve(r) - outflow, S1))
      /\ totalSupply' = S1 /\ balances' = [balances EXCEPT ![a] = @ - q]
      /\ oracles' = oracles
  BY DEF redeem, _validateCommon, _burn, _getRedeemPositionUnit
<1>2. outflow \in Nat  BY <1>1, OutflowReads
<1> HIDE DEF outflow
<1>3. /\ totalSupply \in Nat /\ balances \in [Account -> Nat]
      /\ held \in [Component -> Nat]
  BY DEF NavInv, VaultInv, VaultTypeOK
<1>4. S1 \in Nat  BY <1>1, <1>3
<1> HIDE DEF S1
<1>5. S1 # 0  BY <1>1, <1>4, SupplyIsPositive
<1>6. totalSupply # 0  BY <1>1, <1>3
<1>7. totalReserve(r) \in Nat
  <2>1. realUnit(r) \in Nat  BY RealUnitFloors DEF NavInv, VaultInv, realUnit
  <2>2. QED  BY <1>3, <2>1, PreciseMulBound DEF totalReserve
<1> DEFINE d == -outflow
<1>8. /\ d \in Int /\ totalReserve(r) + d >= 0
      /\ totalReserve(r) + d = totalReserve(r) - outflow
  BY <1>1, <1>2, <1>7
<1> HIDE DEF d
<1>9. /\ totalSupply \in Nat \ {0}
      /\ Updated(r, (positions.positionMultiplier * totalSupply) \div S1,
                 ((totalReserve(r) + d) * PRECISE_UNIT) \div S1)
  <2>1. VaultInv  BY DEF NavInv
  <2>2. QED  BY <1>1, <1>4, <1>5, <1>6, <1>8, <2>1, HandlersStore
<1>10. /\ held'[r] = held[r] + d /\ held' \in [Component -> Nat]
       /\ \A c \in Component \ {r} : held'[c] = held[c]
  BY <1>1, <1>2, <1>3 DEF d
<1>11. Moved(r, d, S1)
  BY <1>1, <1>4, <1>5, <1>7, <1>8, <1>9, <1>10 DEF Moved
<1>12. VaultInv'
  <2>1. balances' \in [Account -> Nat]  BY <1>1, <1>3
  <2>2. PlainInv(positions') /\ positions' \in PositionState
    BY <1>9 DEF Updated, PlainInv
  <2>3. totalSupply' \in Nat  BY <1>1, <1>4
  <2>4. OraclesTyped'  BY <1>1 DEF NavInv, VaultInv, OraclesTyped
  <2>5. (PlainInv(positions))'  BY <2>2 DEF PlainInv, PositionState, isComponent
  <2>6. QED  BY <1>10, <2>1, <2>2, <2>3, <2>4, <2>5 DEF VaultInv, VaultTypeOK
<1>13. QED  BY <1>1, <1>2, <1>11, <1>12 DEF S1, d, outflow

-----------------------------------------------------------------------------
(* The invariant. *)

\* The first module reads the same positions.
LEMMA BasicReads ==
  ASSUME NEW c, NEW q
  PROVE  /\ Basic!requiredForIssue(c, q) = preciseMulCeil(realUnit(c), q)
         /\ Basic!paidOnRedeem(c, q) = preciseMul(q, realUnit(c))
         /\ Basic!components = components
<1>1. Basic!realUnit(c) = realUnit(c)
  BY DEF Basic!realUnit, realUnit, Basic!getDefaultPositionRealUnit,
    getDefaultPositionRealUnit, Basic!_convertVirtualToRealUnit,
    _convertVirtualToRealUnit, Basic!conservativePreciseMul,
    conservativePreciseMul, Basic!divDown, divDown, Basic!sdiv, sdiv,
    Basic!abs, abs
<1>2. QED
  BY <1>1 DEF Basic!requiredForIssue, Basic!paidOnRedeem, Basic!preciseMulCeil,
    preciseMulCeil, Basic!preciseMul, preciseMul, Basic!components, components,
    Basic!ToSet, ToSet

\* Issuing and redeeming for components changes supply, balances and tokens.
LEMMA BasicKeeps ==
  ASSUME VaultInv, NEW a \in Account, NEW q \in Nat,
         Basic!issue(a, q) \/ Basic!redeem(a, q), UNCHANGED oracles
  PROVE  VaultInv' /\ positions' = positions
<1>1. /\ totalSupply \in Nat /\ balances \in [Account -> Nat]
      /\ held \in [Component -> Nat] /\ PlainInv(positions)
  BY DEF VaultInv, VaultTypeOK
<1>2. \A c \in Component : realUnit(c) \in Nat
  BY <1>1, RealUnitFloors DEF realUnit
<1>3. /\ positions' = positions /\ totalSupply' \in Nat
      /\ balances' \in [Account -> Nat] /\ held' \in [Component -> Nat]
  <2>1. CASE Basic!issue(a, q)
    <3>1. /\ positions' = positions /\ totalSupply' = totalSupply + q
          /\ balances' = [balances EXCEPT ![a] = @ + q]
          /\ held' = [c \in Component |->
                        IF c \in components
                        THEN held[c] + preciseMulCeil(realUnit(c), q)
                        ELSE held[c]]
      BY <2>1, BasicReads DEF Basic!issue, Basic!_mint
    <3>2. \A c \in Component : preciseMulCeil(realUnit(c), q) \in Nat
      BY <1>2, PreciseMulCeilBound
    <3>3. QED  BY <1>1, <3>1, <3>2
  <2>2. CASE Basic!redeem(a, q)
    <3>1. /\ positions' = positions /\ totalSupply' = totalSupply - q
          /\ balances[a] >= q /\ totalSupply >= q
          /\ balances' = [balances EXCEPT ![a] = @ - q]
          /\ \A c \in components : preciseMul(q, realUnit(c)) <= held[c]
          /\ held' = [c \in Component |->
                        IF c \in components
                        THEN held[c] - preciseMul(q, realUnit(c))
                        ELSE held[c]]
      BY <2>2, BasicReads DEF Basic!redeem, Basic!_burn, Basic!canPay
    <3>2. \A c \in Component : preciseMul(q, realUnit(c)) \in Nat
      BY <1>2, PreciseMulBound
    <3>3. QED  BY <1>1, <3>1, <3>2
  <2>3. QED  BY <2>1, <2>2
<1>4. QED
  BY <1>1, <1>3 DEF VaultInv, VaultTypeOK, OraclesTyped, PlainInv, isComponent

\* A SetToken starts with the units it was created with and no price.
LEMMA VaultInitEstablishes == Init => VaultInv
<1> SUFFICES ASSUME Init PROVE VaultInv
  OBVIOUS
<1> DEFINE s == SetToSeq(DOMAIN InitialUnits)
           U == [i \in DOMAIN s |-> InitialUnits[s[i]]]
           p == newPositions(s, U)
<1>1. /\ s \in Seq(Component) /\ IsInjective(s)
      /\ \A i \in DOMAIN s : s[i] \in DOMAIN InitialUnits
  BY EnumerationIsDistinct, NavSetAssumption
<1>2. /\ positions = p /\ totalSupply = 0 /\ balances = [a \in Account |-> 0]
      /\ held = [c \in Component |-> 0]
      /\ oracles = [pair \in Asset \X Asset |-> NoPrice]
  BY DEF Init, VaultInit, OracleInit
<1> HIDE DEF s
<1>3. \A i \in DOMAIN s : U[i] \in Nat  BY <1>1, NavSetAssumption
<1> HIDE DEF U
<1>4. PlainInv(p)  BY <1>1, <1>3, NewIsPlain
<1> HIDE DEF p
<1>5. p \in PositionState  BY <1>4 DEF PlainInv
<1>6. QED  BY <1>2, <1>4, <1>5 DEF VaultInv, VaultTypeOK, OraclesTyped, NoPrice

\* Oracles read unsigned numbers.
LEMMA OraclesKept ==
  ASSUME OraclesTyped, ManageOracles
  PROVE  OraclesTyped'
<1>1. PICK quote \in Quotes :
        \/ addPair(quote[1], quote[2], quote[3])
        \/ editPair(quote[1], quote[2], quote[3])
        \/ removePair(quote[1], quote[2])
  BY DEF ManageOracles
<1>2. quote[1] \in Asset /\ quote[2] \in Asset /\ quote[3] \in Nat
  BY NavSetAssumption
<1>3. PICK x \in Nat : oracles' = [oracles EXCEPT ![<<quote[1], quote[2]>>] = x]
  BY <1>1, <1>2 DEF addPair, editPair, removePair, NoPrice
<1>4. QED  BY <1>2, <1>3 DEF OraclesTyped

\* What a step does to the vault: a NAV issuance or redemption moves value, any
\* other step leaves the positions alone.
LEMMA StepMoves ==
  ASSUME NavInv, [Next]_vars
  PROVE  /\ VaultInv'
         /\ \/ positions' = positions
            \/ \E a \in Account, r \in Component, q \in ReserveQuantity :
                 issue(a, r, q)
            \/ \E a \in Account, r \in Component, q \in RedeemQuantity :
                 redeem(a, r, q)
<1>1. CASE UNCHANGED <<vault, oracles>>
  BY <1>1 DEF vault, NavInv, VaultInv, VaultTypeOK, OraclesTyped, PlainInv,
    isComponent
<1>2. CASE UNCHANGED vars  BY <1>1, <1>2 DEF vars
<1>3. CASE Manage
  BY <1>1, <1>3 DEF Manage, addReserveAsset, removeReserveAsset, editPremium,
    editManagerFee, ManagerOnly, initialize, removeModule, addModule
<1>4. CASE ManageOracles
  <2>1. OraclesTyped'  BY <1>4, OraclesKept DEF NavInv, VaultInv
  <2>2. UNCHANGED vault  BY <1>4 DEF ManageOracles
  <2>3. QED
    BY <2>1, <2>2 DEF vault, NavInv, VaultInv, VaultTypeOK, PlainInv, isComponent
<1>5. CASE UseBasic
  <2>1. PICK a \in Account, q \in BasicQuantity : Basic!issue(a, q) \/ Basic!redeem(a, q)
    BY <1>5 DEF UseBasic
  <2>2. q \in Nat /\ UNCHANGED oracles  BY <1>5, NavSetAssumption DEF UseBasic
  <2>3. QED  BY <2>1, <2>2, BasicKeeps DEF NavInv
<1>6. CASE UseNav
  <2>1. ASSUME NEW a \in Account, NEW r \in Component, NEW q \in ReserveQuantity,
               issue(a, r, q)
        PROVE  VaultInv'
    <3>1. q \in Nat  BY NavSetAssumption
    <3>2. QED  BY <2>1, <3>1, NavIssueMoves
  <2>2. ASSUME NEW a \in Account, NEW r \in Component, NEW q \in RedeemQuantity,
               redeem(a, r, q)
        PROVE  VaultInv'
    <3>1. q \in Nat  BY NavSetAssumption
    <3>2. QED  BY <2>2, <3>1, NavRedeemMoves
  <2>3. QED  BY <1>6, <2>1, <2>2 DEF UseNav
<1>7. QED  BY <1>2, <1>3, <1>4, <1>5, <1>6 DEF Next

\* The types of the vault hold, no unit and no balance is negative, and what is
\* not listed has no unit: a SetToken issued at net asset value keeps the
\* positions that issuance for components relies on.
THEOREM NavInvariant == Spec => []NavInv
<1>1. Init => NavInv  BY InitEstablishes, VaultInitEstablishes DEF NavInv
<1>2. NavInv /\ [Next]_vars => NavInv'
  BY NextPreserves, StepMoves DEF NavInv
<1>3. QED  BY <1>1, <1>2, PTL DEF Spec

-----------------------------------------------------------------------------
(* Issuing and redeeming at net asset value. *)

\* Only an issuance or a redemption in a component is a step in it.
LEMMA NavStepReads ==
  ASSUME NavInv, [Next]_vars, NEW r \in Component, NavStepIn(r)
  PROVE  \E a \in Account, q \in Nat : issue(a, r, q) \/ redeem(a, r, q)
<1>1. CASE \E a \in Account, c \in Component, q \in ReserveQuantity : issue(a, c, q)
  <2>1. PICK a \in Account, c \in Component, q \in ReserveQuantity : issue(a, c, q)
    BY <1>1
  <2>2. q \in Nat  BY NavSetAssumption
  <2>3. \A d \in Component \ {c} : held'[d] = held[d]
    BY <2>1, <2>2, NavIssueMoves DEF Moved
  <2>4. r = c  BY <2>3 DEF NavStepIn
  <2>5. QED  BY <2>1, <2>2, <2>4
<1>2. CASE \E a \in Account, c \in Component, q \in RedeemQuantity : redeem(a, c, q)
  <2>1. PICK a \in Account, c \in Component, q \in RedeemQuantity : redeem(a, c, q)
    BY <1>2
  <2>2. q \in Nat  BY NavSetAssumption
  <2>3. \A d \in Component \ {c} : held'[d] = held[d]
    BY <2>1, <2>2, NavRedeemMoves DEF Moved
  <2>4. r = c  BY <2>3 DEF NavStepIn
  <2>5. QED  BY <2>1, <2>2, <2>4
<1>3. QED  BY <1>1, <1>2, StepMoves DEF NavStepIn

\* What FairAtNav says of a step in component c.
Fair(c) ==
  LET V == calculateSetTokenValuation(c)
      minted == totalSupply' - totalSupply
      paid == held[c] - held'[c]
      premium == navIssuanceSettings.premiumPercentage
      worth == preciseDiv(-paid - preciseMul(-paid, premium), baseUnits[c])
  IN  IF minted >= 0
      THEN minted * totalSupply * V <= PRECISE_UNIT * (worth * totalSupply + minted)
      ELSE paid * PRECISE_UNIT * PRECISE_UNIT * PRECISE_UNIT
             <= -minted * V * baseUnits[c] * (PRECISE_UNIT - premium)

\* The SetTokens minted are worth no more than what was paid for them: the
\* denominator is the total value but for its rounding.
LEMMA MintingBound ==
  ASSUME NEW minted \in Nat, NEW D \in Nat, NEW n \in Nat, NEW S \in Nat, NEW V \in Nat,
         NEW P \in Nat, minted * D <= n * S, S * V < (D + 1) * P
  PROVE  minted * S * V <= P * (n * S + minted)
<1> DEFINE w == S * V
           x == n * S
           y == minted * D
<1>1. w \in Nat /\ x \in Nat /\ y \in Nat /\ w <= (D + 1) * P /\ y <= x
      /\ (D + 1) * P \in Nat
  OBVIOUS
<1>2. minted * S * V = minted * w
  OBVIOUS
<1>3. minted * ((D + 1) * P) = P * (y + minted)
  OBVIOUS
<1>4. P * (y + minted) <= P * (x + minted)  BY <1>1
<1> HIDE DEF w, x, y
<1>5. minted * w <= minted * ((D + 1) * P)  BY <1>1
<1>6. minted * w \in Int /\ minted * ((D + 1) * P) \in Int /\ P * (x + minted) \in Int
  BY <1>1
<1>7. minted * w <= P * (x + minted)  BY <1>1, <1>3, <1>4, <1>5, <1>6
<1>8. QED  BY <1>2, <1>7 DEF x

LEMMA IssueIsFair ==
  ASSUME NavInv, NEW a \in Account, NEW r \in Component, NEW q \in Nat,
         issue(a, r, q)
  PROVE  Fair(r)
<1> DEFINE net == netFlow("issue", q)
           minted == _getSetTokenMintQuantity(r, net)
           premium == navIssuanceSettings.premiumPercentage
           n == preciseDiv(net - preciseMul(net, premium), baseUnits[r])
           V == calculateSetTokenValuation(r)
           D == mintDenominator(r, net)
           S == totalSupply
<1>1. /\ net \in Nat /\ minted \in Nat /\ Moved(r, net, S + minted)
      /\ isPriced(r) /\ D > 0
  BY NavIssueMoves
<1> HIDE DEF net
<1>2. /\ V \in Nat /\ D \in Nat \ {0} /\ n \in Nat
      /\ minted * D <= n * S /\ S * V < (D + 1) * PRECISE_UNIT
  BY <1>1, MintedReads
<1> HIDE DEF minted, V, D
<1>3. /\ S \in Nat /\ totalSupply' - totalSupply = minted
      /\ -(held[r] - held'[r]) = net
  <2>1. held[r] \in Nat  BY DEF NavInv, VaultInv, VaultTypeOK
  <2>2. QED  BY <1>1, <2>1 DEF Moved
<1>4. preciseDiv(-(held[r] - held'[r]) - preciseMul(-(held[r] - held'[r]), premium),
                 baseUnits[r]) = n
  BY <1>3
<1> HIDE DEF n, S
<1>5. minted * S * V <= PRECISE_UNIT * (n * S + minted)
  BY <1>1, <1>2, <1>3, MintingBound, PreciseUnitAssumption
<1>6. QED  BY <1>1, <1>3, <1>4, <1>5 DEF Fair, V, S, premium

\* Three roundings, each down.
LEMMA PayingBound ==
  ASSUME NEW paid \in Nat, NEW whole \in Nat, NEW value \in Nat, NEW q \in Nat,
         NEW V \in Nat, NEW b \in Nat, NEW P \in Nat, NEW K \in Nat,
         paid * P <= whole * K, whole * P <= value * b, value * P <= q * V
  PROVE  paid * P * P * P <= q * V * b * K
<1> DEFINE w == whole * P
           v == value * P
           t == q * V
<1>1. w \in Nat /\ v \in Nat /\ t \in Nat /\ v <= t /\ w <= value * b  OBVIOUS
<1>2. \A x, y, z \in Nat : x <= y => x * z <= y * z  OBVIOUS
<1>3. (paid * P) * (P * P) <= (whole * K) * (P * P)  BY <1>2
<1>4. (whole * K) * (P * P) = w * (K * P)  OBVIOUS
<1>5. w * (K * P) <= (value * b) * (K * P)
  <2> HIDE DEF w
  <2>1. K * P \in Nat /\ value * b \in Nat  OBVIOUS
  <2>2. QED  BY <1>1, <1>2, <2>1
<1>6. (value * b) * (K * P) = v * (b * K)  OBVIOUS
<1>7. v * (b * K) <= t * (b * K)
  <2> HIDE DEF v, t
  <2>1. b * K \in Nat  OBVIOUS
  <2>2. QED  BY <1>1, <1>2, <2>1
<1>8. t * (b * K) = q * V * b * K /\ (paid * P) * (P * P) = paid * P * P * P
  OBVIOUS
<1> DEFINE x1 == (paid * P) * (P * P)
           x2 == (whole * K) * (P * P)
           x3 == (value * b) * (K * P)
           x4 == t * (b * K)
<1>9. x1 \in Int /\ x2 \in Int /\ x3 \in Int /\ x4 \in Int  OBVIOUS
<1>10. x1 <= x2 /\ x2 <= x3 /\ x3 <= x4  BY <1>3, <1>4, <1>5, <1>6, <1>7
<1>11. x1 = paid * P * P * P /\ x4 = q * V * b * K  BY <1>8
<1> HIDE DEF x1, x2, x3, x4
<1>12. x1 <= x4  BY <1>9, <1>10
<1>13. QED  BY <1>11, <1>12

LEMMA RedeemIsFair ==
  ASSUME NavInv, NEW a \in Account, NEW r \in Component, NEW q \in Nat,
         redeem(a, r, q)
  PROVE  Fair(r)
<1> DEFINE outflow == _getRedeemReserveQuantity(r, q)
           premium == navIssuanceSettings.premiumPercentage
           V == calculateSetTokenValuation(r)
           value == preciseMul(q, V)
           whole == preciseMul(value, baseUnits[r])
           P == PRECISE_UNIT
           K == P - premium
           b == baseUnits[r]
           S == totalSupply
<1>1. /\ outflow \in Nat /\ Moved(r, -outflow, S - q) /\ isPriced(r) /\ q # 0
  BY NavRedeemMoves
<1>2. /\ V \in Nat /\ value \in Nat /\ whole \in Nat
      /\ value * P <= q * V /\ whole * P <= value * b
      /\ outflow * P <= whole * K
  BY <1>1, OutflowReads
<1>3. P \in Nat /\ K \in Nat /\ b \in Nat
  <2>1. /\ P \in Nat /\ P # 0 /\ premium \in 0 .. P - 1 /\ b \in Nat
    BY PreciseUnitAssumption, SetValuerAssumption, PercentagesRead DEF NavInv
  <2> HIDE DEF P, premium, b
  <2>2. QED  BY <2>1
<1>4. /\ S \in Nat /\ totalSupply' - totalSupply = -q
      /\ held[r] - held'[r] = outflow
  <2>1. held[r] \in Nat  BY DEF NavInv, VaultInv, VaultTypeOK
  <2>2. QED  BY <1>1, <2>1 DEF Moved
<1> HIDE DEF outflow, value, whole, V, K, P, b
<1>5. outflow * P * P * P <= q * V * b * K  BY <1>1, <1>2, <1>3, PayingBound
<1> HIDE DEF S
<1>6. -(-q) = q /\ ~(-q >= 0)  BY <1>1
<1> DEFINE minted == totalSupply' - totalSupply
<1>7. minted = -q /\ ~(minted >= 0)  BY <1>4, <1>6
<1>8. -((-q) * V * b * K) = q * V * b * K
  <2> DEFINE x == V * b * K
  <2>1. x \in Nat  BY <1>2, <1>3
  <2>2. (-q) * V * b * K = (-q) * x /\ q * V * b * K = q * x  BY <1>2, <1>3
  <2> HIDE DEF x
  <2>3. -((-q) * x) = q * x  BY <2>1
  <2>4. QED  BY <2>2, <2>3
<1> HIDE DEF minted
<1>9. outflow * P * P * P <= -minted * V * b * K  BY <1>5, <1>7, <1>8
<1>10. QED
  BY <1>4, <1>7, <1>9 DEF Fair, V, K, P, b, premium, minted

\* Neither issuing nor redeeming at net asset value takes value from those who
\* stay, whatever the prices, fees and premium.
THEOREM FairCorrect == Spec => FairAtNav
<1>1. NavInv /\ [Next]_vars => \A c \in Component : NavStepIn(c) => Fair(c)
  BY NavStepReads, IssueIsFair, RedeemIsFair
<1>2. NavInv /\ [Next]_vars => [\A c \in Component : NavStepIn(c) => Fair(c)]_vars
  BY <1>1
<1>3. QED  BY <1>2, NavInvariant, PTL DEF Spec, FairAtNav, Fair

\* The new unit of the reserve asset is paid for by what came in.
LEMMA ReserveBound ==
  ASSUME NEW S \in Nat, NEW S1 \in Nat \ {0}, NEW R \in Nat, NEW d \in Int, R + d >= 0,
         NEW r0 \in Nat, NEW r1 \in Nat, NEW P \in Nat,
         R * P <= r0 * S, r1 <= ((R + d) * P) \div S1
  PROVE  S1 * r1 <= S * r0 + d * P
<1> DEFINE x == (R + d) * P
           u == x \div S1
<1>1. x \in Nat /\ x = R * P + d * P  OBVIOUS
<1>2. u \in Nat /\ u * S1 <= x
  <2> HIDE DEF x
  <2>1. QED  BY <1>1, NatDivBounds
<1>3. r1 <= u  OBVIOUS
<1> HIDE DEF x, u
<1>4. r1 * S1 <= u * S1  BY <1>2, <1>3
<1>5. /\ S1 * r1 = r1 * S1 /\ S * r0 = r0 * S
      /\ r1 * S1 \in Int /\ u * S1 \in Int /\ R * P \in Int /\ d * P \in Int
      /\ r0 * S \in Int
  BY <1>2
<1>6. QED  BY <1>1, <1>2, <1>4, <1>5

\* Every other unit shrinks with the multiplier, up to its rounding.
LEMMA OtherBound ==
  ASSUME NEW S \in Nat, NEW S1 \in Nat \ {0}, NEW m \in Nat, NEW v \in Nat,
         NEW r0 \in Nat, NEW r1 \in Nat, NEW P \in Nat \ {0},
         r1 * P <= v * ((m * S) \div S1), v * m <= (r0 + 1) * P
  PROVE  S1 * r1 <= S * r0 + S
<1> DEFINE x == m * S
           n == x \div S1
<1>1. x \in Nat  OBVIOUS
<1>2. n \in Nat /\ n * S1 <= x
  <2> HIDE DEF x
  <2>1. QED  BY <1>1, NatDivBounds
<1> HIDE DEF n
<1>3. \A a, b, c \in Nat : a <= b => a * c <= b * c  OBVIOUS
<1>4. r1 * P \in Nat /\ v * n \in Nat /\ r1 * P <= v * n  BY <1>2 DEF n
<1>5. (r1 * P) * S1 <= (v * n) * S1  BY <1>3, <1>4
<1>6. (v * n) * S1 = (n * S1) * v  BY <1>2
<1>7. (n * S1) * v <= x * v
  <2> HIDE DEF x
  <2>1. n * S1 \in Nat  BY <1>2
  <2>2. QED  BY <1>1, <1>2, <1>3, <2>1
<1>8. x * v = (v * m) * S  OBVIOUS
<1>9. (v * m) * S <= ((r0 + 1) * P) * S
  <2>1. v * m \in Nat /\ (r0 + 1) * P \in Nat  OBVIOUS
  <2>2. QED  BY <1>3, <2>1
<1> DEFINE y1 == (r1 * P) * S1
           y2 == (v * n) * S1
           y3 == x * v
           y4 == ((r0 + 1) * P) * S
<1>10. y1 \in Int /\ y2 \in Int /\ y3 \in Int /\ y4 \in Int  BY <1>2
<1>11. y1 = (S1 * r1) * P /\ y4 = (S * r0 + S) * P  OBVIOUS
<1>12. y1 <= y2 /\ y2 <= y3 /\ y3 <= y4  BY <1>5, <1>6, <1>7, <1>8, <1>9
<1> HIDE DEF y1, y2, y3, y4
<1>13. (S1 * r1) * P <= (S * r0 + S) * P  BY <1>10, <1>11, <1>12
<1> DEFINE a == S1 * r1
           b == S * r0 + S
<1>14. a \in Nat /\ b \in Nat  OBVIOUS
<1>15. a * P <= b * P  BY <1>13
<1> HIDE DEF a, b
<1>16. a <= b  BY <1>14, <1>15
<1>17. QED  BY <1>16 DEF a, b

LEMMA MovedCostsDust ==
  ASSUME NavInv, NEW r \in Component, NEW d, NEW S1, Moved(r, d, S1),
         NEW c \in Component
  PROVE  deficit(c)' <= deficit(c) + IF c = r THEN 0 ELSE totalSupply
<1> DEFINE P == PRECISE_UNIT
           S == totalSupply
           m == positions.positionMultiplier
           r0 == getDefaultPositionRealUnit(positions, c)
           r1 == getDefaultPositionRealUnit(positions', c)
           v == positions.virtualUnit[c]
           R == totalReserve(r)
           n == (m * S) \div S1
           u == ((R + d) * P) \div S1
           h == held[c]
<1>1. /\ P \in Nat \ {0} /\ m \in Nat /\ h \in Nat /\ v \in Nat
      /\ PlainInv(positions)
  BY PreciseUnitAssumption
  DEF NavInv, VaultInv, VaultTypeOK, PlainInv, PositionState
<1>2. /\ S \in Nat \ {0} /\ S1 \in Nat \ {0} /\ totalSupply' = S1 /\ d \in Int
      /\ R \in Nat /\ R + d >= 0
      /\ held'[c] = h + IF c = r THEN d ELSE 0
      /\ PlainInv(positions') /\ positions'.positionMultiplier = n
      /\ c # r => positions'.virtualUnit[c] = v
      /\ c = r => r1 <= u
  BY <1>1 DEF Moved, Updated
<1>3. /\ r0 \in Nat /\ v * m <= (r0 + 1) * P /\ r0 * P <= v * m
  BY <1>1, RealUnitFloors
<1>4. r1 \in Nat /\ (c # r => r1 * P <= v * n)
  BY <1>1, <1>2, RealUnitFloors
<1>5. /\ deficit(c) = S * r0 - h * P
      /\ deficit(c)' = S1 * r1 - held'[c] * P
  BY <1>2 DEF deficit, deficitOf
<1>6. c = r => R * P <= r0 * S
  BY <1>1, <1>2, <1>3, PreciseMulBound DEF totalReserve, realUnit
<1> HIDE DEF P, S, m, r0, r1, v, R, h
<1>7. CASE c = r
  <2>1. S1 * r1 <= S * r0 + d * P
    BY <1>1, <1>2, <1>3, <1>4, <1>6, <1>7, ReserveBound
  <2>2. (h + d) * P = h * P + d * P /\ h * P \in Int /\ d * P \in Int
        /\ S1 * r1 \in Int /\ S * r0 \in Int
    BY <1>1, <1>2, <1>3, <1>4
  <2> HIDE DEF n, u
  <2>3. QED  BY <1>2, <1>5, <1>7, <2>1, <2>2
<1>8. CASE c # r
  <2>1. S1 * r1 <= S * r0 + S
    BY <1>1, <1>2, <1>3, <1>4, <1>8, OtherBound
  <2>2. h * P \in Int /\ S1 * r1 \in Int /\ S * r0 \in Int /\ h + 0 = h
    BY <1>1, <1>2, <1>3, <1>4
  <2> HIDE DEF n, u
  <2>3. QED  BY <1>2, <1>5, <1>8, <2>1, <2>2 DEF S
<1>9. QED  BY <1>7, <1>8

\* A step in a component moves some of it for some new supply.
LEMMA NavStepMoves ==
  ASSUME NavInv, [Next]_vars, NEW r \in Component, NavStepIn(r)
  PROVE  \E d, S1 : Moved(r, d, S1)
<1>1. PICK a \in Account, q \in Nat : issue(a, r, q) \/ redeem(a, r, q)
  BY NavStepReads
<1>2. QED  BY <1>1, NavIssueMoves, NavRedeemMoves

\* The reserve asset is never left worse backed, and any other component by
\* less than one unit per SetToken.
THEOREM NavDustCorrect == Spec => NavCostsAtMostDust
<1>1. NavInv /\ [Next]_vars =>
        [\A r \in Component : NavStepIn(r) =>
           \A c \in Component :
             deficit(c)' <= deficit(c) + IF c = r THEN 0 ELSE totalSupply]_vars
  BY NavStepMoves, MovedCostsDust
<1>2. QED  BY <1>1, NavInvariant, PTL DEF Spec, NavCostsAtMostDust

\* What a holder can redeem, the view isRedeemValid accepts.
THEOREM PossibleRedeemCorrect == Spec => PossibleRedeemIsValid
<1>1. ASSUME NavInv, [Next]_vars, NEW c \in Component, NavStepIn(c),
             totalSupply' < totalSupply
      PROVE  isRedeemValid(c, totalSupply - totalSupply')
  <2> DEFINE q == totalSupply - totalSupply'
  <2>1. PICK a \in Account, x \in Nat : issue(a, c, x) \/ redeem(a, c, x)
    BY <1>1, NavStepReads
  <2>2. CASE issue(a, c, x)
    <3>1. PICK minted \in Nat : totalSupply' = totalSupply + minted
                                /\ totalSupply \in Nat
      BY <1>1, <2>2, NavIssueMoves DEF Moved
    <3>2. QED  BY <1>1, <3>1
  <2>3. CASE redeem(a, c, x)
    <3> DEFINE outflow == _getRedeemReserveQuantity(c, x)
    <3>1. /\ outflow \in Nat /\ x # 0 /\ Moved(c, -outflow, totalSupply - x)
      BY <1>1, <2>3, NavRedeemMoves
    <3>2. totalSupply \in Nat /\ totalSupply' = totalSupply - x
          /\ totalReserve(c) \in Nat
      BY <3>1 DEF Moved
    <3>3. q = x  BY <3>2
    <3>4. feesOf("redeem", outflow) \in Nat
      BY <1>1, <3>1, FeesAreNatural DEF NavInv
    <3>5. /\ isReserveAsset[c] /\ totalReserve(c) >= outflow
          /\ totalSupply - x >= navIssuanceSettings.minSetTokenSupply
      BY <2>3 DEF redeem, _validateCommon
    <3>6. navIssuanceSettings.minSetTokenSupply \in Nat
      BY <1>1 DEF NavInv, SettingsInv, NavTypeOK, NAVIssuanceSettings
    <3> HIDE DEF outflow, q
    <3>7. totalReserve(c) >= netFlow("redeem", outflow)
      BY <3>1, <3>2, <3>4, <3>5 DEF netFlow
    <3>8. totalSupply >= navIssuanceSettings.minSetTokenSupply + x
      BY <3>2, <3>5, <3>6
    <3>9. isRedeemValid(c, x)
      BY <3>1, <3>5, <3>7, <3>8 DEF isRedeemValid, outflow
    <3>10. QED  BY <3>3, <3>9 DEF q
  <2>4. QED  BY <2>1, <2>2, <2>3
<1>2. NavInv /\ [Next]_vars =>
        [\A c \in Component : NavStepIn(c) /\ totalSupply' < totalSupply =>
           isRedeemValid(c, totalSupply - totalSupply')]_vars
  BY <1>1
<1>3. QED  BY <1>2, NavInvariant, PTL DEF Spec, PossibleRedeemIsValid

-----------------------------------------------------------------------------
(* What the tests expect an issuance to mint and a redemption to pay. *)

\* On unsigned numbers the tests compute as the contracts do.
LEMMA ExpectedReads ==
  ASSUME NEW a \in Nat, NEW b \in Nat
  PROVE  /\ Expected!preciseMul(a, b) = preciseMul(a, b)
         /\ Expected!preciseMulCeil(a, b) = preciseMulCeil(a, b)
         /\ b # 0 => Expected!preciseDiv(a, b) = preciseDiv(a, b)
<1>1. /\ Expected!preciseMul(a, b) = Tests!preciseMul(a, b)
      /\ Expected!preciseMulCeil(a, b) = Tests!preciseMulCeil(a, b)
      /\ Expected!preciseDiv(a, b) = Tests!preciseDiv(a, b)
  BY DEF Expected!preciseMul, Tests!preciseMul, Expected!preciseMulCeil,
    Tests!preciseMulCeil, Expected!preciseDiv, Tests!preciseDiv, Expected!div,
    Tests!div, Expected!magnitude, Tests!magnitude
<1>2. QED  BY <1>1, UnsignedArithmeticAgrees

\* Two fees are rounded apart: together they are short of their sum by less
\* than two units.
LEMMA TwoFloors ==
  ASSUME NEW a \in Nat, NEW b \in Nat
  PROVE  LET sum == a \div PRECISE_UNIT + b \div PRECISE_UNIT
         IN  /\ sum \in Nat /\ sum * PRECISE_UNIT <= a + b
             /\ a + b < sum * PRECISE_UNIT + 2 * PRECISE_UNIT
<1> DEFINE P == PRECISE_UNIT
           x == a \div P
           y == b \div P
<1>1. P \in Nat \ {0}  BY PreciseUnitAssumption
<1> HIDE DEF P
<1>2. /\ x \in Nat /\ x * P <= a /\ a < x * P + P
      /\ y \in Nat /\ y * P <= b /\ b < y * P + P
  BY <1>1, NatDivBounds
<1> HIDE DEF x, y
<1>3. (x + y) * P = x * P + y * P /\ x * P \in Int /\ y * P \in Int  BY <1>1, <1>2
<1>4. x + y \in Nat /\ (x + y) * P <= a + b /\ a + b < (x + y) * P + 2 * P
  BY <1>1, <1>2, <1>3
<1>5. QED  BY <1>4 DEF x, y, P

\* Two ways of splitting what is left of a quantity agree within one unit.
LEMMA NearSums ==
  ASSUME NEW T \in Nat, NEW k \in Nat, NEW l \in Nat, NEW P \in Nat \ {0},
         k * P <= T, T < k * P + 2 * P, l * P <= T, T < l * P + 2 * P
  PROVE  k - l <= 1 /\ l - k <= 1
<1>1. /\ k * P \in Int /\ l * P \in Int
      /\ (k + 2) * P = k * P + 2 * P /\ (l + 2) * P = l * P + 2 * P
  OBVIOUS
<1>2. k * P < (l + 2) * P /\ l * P < (k + 2) * P  BY <1>1
<1>3. k < l + 2
  <2>1. SUFFICES ASSUME k >= l + 2 PROVE FALSE  OBVIOUS
  <2>2. k * P >= (l + 2) * P  BY <2>1
  <2>3. (l + 2) * P \in Int  OBVIOUS
  <2>4. QED  BY <1>1, <1>2, <2>2, <2>3
<1>4. l < k + 2
  <2>1. SUFFICES ASSUME l >= k + 2 PROVE FALSE  OBVIOUS
  <2>2. l * P >= (k + 2) * P  BY <2>1
  <2>3. (k + 2) * P \in Int  OBVIOUS
  <2>4. QED  BY <1>1, <1>2, <2>2, <2>3
<1>5. QED  BY <1>3, <1>4

\* The fees that the module takes of a quantity, and that the tests do.
LEMMA FeesRead ==
  ASSUME SettingsInv, NEW action \in {"issue", "redeem"}, NEW x \in Nat
  PROVE  LET f == navIssuanceSettings.managerFees[action]
             d == protocolDirect[action]
             k == feesOf(action, x)
             l == preciseMul(x, f) + preciseMul(x, d)
         IN  /\ f \in 0 .. PRECISE_UNIT - 1 /\ d \in 0 .. PRECISE_UNIT
             /\ k \in Nat /\ l \in Nat
             /\ k * PRECISE_UNIT <= x * (f + d)
             /\ x * (f + d) < k * PRECISE_UNIT + 2 * PRECISE_UNIT
             /\ l * PRECISE_UNIT <= x * (f + d)
             /\ x * (f + d) < l * PRECISE_UNIT + 2 * PRECISE_UNIT
             /\ Expected!getExpectedPostFeeQuantity(x, f, d) = x - l
<1> DEFINE P == PRECISE_UNIT
           f == navIssuanceSettings.managerFees[action]
           d == protocolDirect[action]
           share == preciseMul(protocolShare[action], f)
           k == feesOf(action, x)
           l == preciseMul(x, f) + preciseMul(x, d)
           a1 == (share + d) * x
           b1 == (f - share) * x
           a2 == x * f
           b2 == x * d
<1>1. P \in Nat \ {0} /\ f \in 0 .. P - 1 /\ d \in 0 .. P /\ f \in Nat /\ d \in Nat
  BY PercentagesRead, PreciseUnitAssumption
<1>2. share \in Nat /\ share <= f  BY SharesRead
<1>3. /\ k = a1 \div P + b1 \div P
      /\ l = a2 \div P + b2 \div P
  BY DEF feesOf, protocolFeePercentage, managerFeePercentage, preciseMul
<1> HIDE DEF share
<1>4. Expected!getExpectedPostFeeQuantity(x, f, d) = x - l
  <2>1. /\ Expected!preciseMul(x, f) = preciseMul(x, f)
        /\ Expected!preciseMul(x, d) = preciseMul(x, d)
    BY <1>1, ExpectedReads
  <2>2. preciseMul(x, f) \in Nat /\ preciseMul(x, d) \in Nat
    BY <1>1, PreciseMulBound
  <2> HIDE DEF f, d
  <2>3. QED  BY <2>1, <2>2 DEF Expected!getExpectedPostFeeQuantity
<1> HIDE DEF f, d, k, l
<1>5. /\ a1 \in Nat /\ b1 \in Nat /\ a2 \in Nat /\ b2 \in Nat
      /\ a1 + b1 = x * (f + d) /\ a2 + b2 = x * (f + d)
  <2>1. f - share \in Nat  BY <1>1, <1>2
  <2>2. a1 + b1 = ((share + d) + (f - share)) * x  BY <1>1, <1>2, <2>1
  <2>3. (share + d) + (f - share) = f + d  BY <1>1, <1>2
  <2>4. QED  BY <1>1, <1>2, <2>1, <2>2, <2>3
<1> HIDE DEF a1, b1, a2, b2
<1>6. /\ k \in Nat /\ k * P <= a1 + b1 /\ a1 + b1 < k * P + 2 * P
      /\ l \in Nat /\ l * P <= a2 + b2 /\ a2 + b2 < l * P + 2 * P
  BY <1>3, <1>5, TwoFloors
<1>7. QED  BY <1>1, <1>4, <1>5, <1>6 DEF f, d, k, l, P

LEMMA IssueIsExpected ==
  ASSUME NavInv, NEW c \in Component, CanUse(c), NEW q \in Nat
  PROVE  issueAsExpected(c, q)
<1> DEFINE P == PRECISE_UNIT
           f == navIssuanceSettings.managerFees["issue"]
           d == protocolDirect["issue"]
           k == feesOf("issue", q)
           l == preciseMul(q, f) + preciseMul(q, d)
           net == netFlow("issue", q)
           expectedNet == Expected!getExpectedPostFeeQuantity(q, fee("issue"), d)
<1>1. fee("issue") = f  BY DEF fee
<1>2. /\ k \in Nat /\ l \in Nat
      /\ k * P <= q * (f + d) /\ q * (f + d) < k * P + 2 * P
      /\ l * P <= q * (f + d) /\ q * (f + d) < l * P + 2 * P
      /\ expectedNet = q - l /\ f \in Nat /\ d \in Nat
  <2>1. SettingsInv /\ "issue" \in {"issue", "redeem"}  BY DEF NavInv
  <2>2. /\ f \in 0 .. P - 1 /\ d \in 0 .. P
        /\ k \in Nat /\ l \in Nat
        /\ k * P <= q * (f + d) /\ q * (f + d) < k * P + 2 * P
        /\ l * P <= q * (f + d) /\ q * (f + d) < l * P + 2 * P
        /\ Expected!getExpectedPostFeeQuantity(q, f, d) = q - l
    BY <2>1, FeesRead
  <2>3. expectedNet = q - l  BY <1>1, <2>2
  <2>4. f \in Nat /\ d \in Nat  BY <2>2
  <2> HIDE DEF f, d, k, l, expectedNet
  <2>5. QED  BY <2>2, <2>3, <2>4
<1>3. net = q - k  BY DEF netFlow
<1> HIDE DEF k, l, f, d
<1>4. within(net, expectedNet, 1)
  <2>1. q * (f + d) \in Nat /\ P \in Nat \ {0}  BY <1>2, PreciseUnitAssumption
  <2> HIDE DEF P
  <2>2. k - l <= 1 /\ l - k <= 1  BY <1>2, <2>1, NearSums
  <2> HIDE DEF net, expectedNet
  <2>3. QED  BY <1>2, <1>3, <2>2 DEF within
<1> HIDE DEF expectedNet, net
<1>5. ASSUME net >= 0, net = expectedNet, mintDenominator(c, net) > 0
      PROVE  _getSetTokenMintQuantity(c, net)
               = Expected!getExpectedSetTokenIssueQuantity(
                   calculateSetTokenValuation(c), totalSupply, baseUnits[c], q,
                   fee("issue"), d, navIssuanceSettings.premiumPercentage)
  <2> DEFINE S == totalSupply
             b == baseUnits[c]
             V == calculateSetTokenValuation(c)
             D == mintDenominator(c, net)
             prem == navIssuanceSettings.premiumPercentage
             taken == preciseMul(net, prem)
             n == preciseDiv(net - taken, b)
  <2>1. net \in Nat  BY <1>2, <1>3, <1>5
  <2>2. /\ V \in Nat /\ D \in Nat \ {0} /\ n \in Nat
        /\ taken \in Nat /\ taken <= net
    BY <1>5, <2>1, MintedReads DEF CanUse
  <2>3. S \in Nat /\ b \in Nat \ {0} /\ prem \in Nat
    BY SetValuerAssumption, PercentagesRead, PreciseUnitAssumption
    DEF NavInv, VaultInv, VaultTypeOK
  <2>4. /\ D = preciseMul(S, V) + preciseDiv(net, b) - n
        /\ _getSetTokenMintQuantity(c, net) = preciseDiv(preciseMul(n, S), D)
    BY DEF mintDenominator, _getSetTokenMintQuantity
  <2> HIDE DEF D
  <2>5. Expected!preciseMul(net, prem) = taken
    BY <2>1, <2>3, ExpectedReads
  <2>6. net - taken \in Nat  BY <2>1, <2>2
  <2> HIDE DEF taken
  <2>7. /\ Expected!preciseDiv(net - taken, b) = n
        /\ Expected!preciseDiv(net, b) = preciseDiv(net, b)
        /\ Expected!preciseMul(S, V) = preciseMul(S, V)
    BY <2>1, <2>2, <2>3, <2>6, ExpectedReads
  <2> HIDE DEF n
  <2>8. preciseMul(n, S) \in Nat /\ Expected!preciseMul(n, S) = preciseMul(n, S)
    BY <2>2, <2>3, ExpectedReads, PreciseMulBound
  <2>9. Expected!preciseDiv(preciseMul(n, S), D) = preciseDiv(preciseMul(n, S), D)
    BY <2>2, <2>8, ExpectedReads
  <2>10. Expected!getExpectedSetTokenIssueQuantity(V, S, b, q, fee("issue"), d, prem)
           = Expected!preciseDiv(Expected!preciseMul(n, S), D)
    <3>1. Expected!getExpectedPostFeeQuantity(q, fee("issue"), d) = net
      BY <1>5 DEF expectedNet
    <3> HIDE DEF S, V, b, prem
    <3>2. QED
      BY <2>4, <2>5, <2>7, <3>1 DEF Expected!getExpectedSetTokenIssueQuantity
  <2>11. QED  BY <2>4, <2>8, <2>9, <2>10
<1>6. QED
  BY <1>4, <1>5 DEF issueAsExpected, expectedNet, net, d

\* Both sides of a bound, scaled.
LEMMA Scaled ==
  ASSUME NEW a \in Int, NEW b \in Int, NEW k \in Nat
  PROVE  /\ a <= b => a * k <= b * k
         /\ a < b /\ k # 0 => a * k < b * k
  OBVIOUS

\* The tests take the premium off the value, the module off the asset it is
\* worth: both stay close to the exact product W.
LEMMA PremiumReads ==
  ASSUME NEW P \in Nat \ {0}, NEW value \in Nat, NEW whole \in Nat, NEW z \in Nat,
         NEW v \in Nat, NEW b \in Nat \ {0}, NEW K \in Nat, b <= P, K <= P,
         whole * P <= value * b, value * b < whole * P + P,
         z * P <= whole * K, whole * K < z * P + P,
         v * P <= value * K, value * K < v * P + P
  PROVE  LET W == value * b * K
             Q == P * P
         IN  /\ z * Q <= W /\ W < z * Q + 2 * Q
             /\ (v * b) * P <= W /\ W < (v * b) * P + Q
<1> DEFINE W == value * b * K
           Q == P * P
           wP == whole * P
           vb == value * b
           zP == z * P
           wK == whole * K
           vP == v * P
           vK == value * K
<1>1. /\ wP \in Int /\ vb \in Int /\ zP \in Int /\ wK \in Int /\ vP \in Int /\ vK \in Int
      /\ wP <= vb /\ vb < wP + P /\ zP <= wK /\ wK < zP + P
      /\ vP <= vK /\ vK < vP + P
  OBVIOUS
<1>2. /\ wP * K = wK * P /\ vb * K = W /\ zP * P = z * Q
      /\ vP * b = (v * b) * P /\ vK * b = W
      /\ (wP + P) * K = wK * P + P * K /\ (zP + P) * P = z * Q + Q
      /\ (vP + P) * b = (v * b) * P + P * b
  OBVIOUS
<1>3. P * K <= Q /\ P * b <= Q  OBVIOUS
<1>4. W \in Int /\ Q \in Int /\ z * Q \in Int /\ (v * b) * P \in Int
      /\ P * K \in Int /\ P * b \in Int
  OBVIOUS
<1> HIDE DEF wP, vb, zP, wK, vP, vK, W, Q
<1>5. wP * K <= vb * K /\ vb * K <= (wP + P) * K  BY <1>1, Scaled
<1>6. zP * P <= wK * P /\ wK * P < (zP + P) * P  BY <1>1, Scaled
<1>7. vP * b <= vK * b /\ vK * b < (vP + P) * b  BY <1>1, Scaled
<1>8. wK * P \in Int  BY <1>1
<1>9. /\ z * Q <= W /\ W < z * Q + 2 * Q
  BY <1>2, <1>3, <1>4, <1>5, <1>6, <1>8
<1>10. (v * b) * P <= W /\ W < (v * b) * P + Q
  BY <1>2, <1>3, <1>4, <1>7
<1>11. QED  BY <1>9, <1>10 DEF W, Q

\* What is left after fees, of either, converted or not, is within three units.
LEMMA RedeemGap ==
  ASSUME NEW P \in Nat \ {0}, NEW W \in Nat, NEW z \in Nat, NEW v \in Nat,
         NEW b \in Nat \ {0}, b <= P, NEW k \in Int, k <= P, -P < k,
         NEW net \in Nat, NEW x \in Int, NEW expected \in Int,
         z * (P * P) <= W, W < z * (P * P) + 2 * (P * P),
         (v * b) * P <= W, W < (v * b) * P + P * P,
         z * k <= net * P, net * P < z * k + 2 * P,
         v * k <= x * P, x * P < v * k + 2 * P,
         x >= 0 => expected * P <= x * b /\ x * b < expected * P + P,
         x < 0 => expected <= 0 /\ x * b <= expected * P
  PROVE  net - expected <= 3 /\ expected - net <= 3
<1> DEFINE Q == P * P
           C == P * Q
           M == k * W
           N == net * C
           E == expected * C
           zk == z * k
           vk == v * k
           xb == x * b
           vb == v * b
           nP == net * P
           xP == x * P
           eP == expected * P
           kQ == k * Q
<1>1. /\ Q \in Nat \ {0} /\ C \in Nat \ {0} /\ M \in Int /\ N \in Int /\ E \in Int
      /\ zk \in Int /\ vk \in Int /\ xb \in Int /\ vb \in Nat
      /\ nP \in Int /\ xP \in Int /\ eP \in Int /\ kQ \in Int
  <2>1. Q \in Nat \ {0}  OBVIOUS
  <2>2. C \in Nat \ {0}  BY <2>1
  <2>3. QED  BY <2>1, <2>2
<1>2. /\ nP * Q = N /\ eP * Q = E /\ (zk + 2 * P) * Q = zk * Q + 2 * C
      /\ xP * (b * P) = xb * Q /\ (vk + 2 * P) * (b * P) = (vk * b) * P + 2 * (b * Q)
      /\ (eP + P) * Q = E + C /\ vk * (b * P) = (vk * b) * P
  OBVIOUS
<1>3. b * P \in Nat \ {0} /\ b * Q \in Nat /\ b * Q <= C
  <2>1. b * Q <= P * Q  BY <1>1, Scaled
  <2>2. QED  BY <1>1, <2>1
<1>4. zk * Q <= N /\ N < zk * Q + 2 * C /\ zk * Q \in Int
  <2>1. zk <= nP /\ nP < zk + 2 * P  OBVIOUS
  <2> HIDE DEF zk, nP, N, Q, C
  <2>2. zk * Q <= nP * Q /\ nP * Q < (zk + 2 * P) * Q
    BY <1>1, <2>1, Scaled
  <2>3. QED  BY <1>1, <1>2, <2>2
<1>5. (vk * b) * P <= xb * Q /\ xb * Q < (vk * b) * P + 2 * C
      /\ (vk * b) * P \in Int /\ xb * Q \in Int
  <2>1. vk <= xP /\ xP < vk + 2 * P  OBVIOUS
  <2> DEFINE r == b * P
  <2> HIDE DEF vk, xP, Q, C, xb
  <2>2. r \in Nat \ {0}  BY <1>3
  <2>3. vk * r <= xP * r /\ xP * r < (vk + 2 * P) * r
    <3> HIDE DEF r
    <3>1. vk + 2 * P \in Int  BY <1>1
    <3>2. QED  BY <1>1, <2>1, <2>2, <3>1, Scaled
  <2>4. (vk * b) * P \in Int /\ xb * Q \in Int  BY <1>1
  <2> DEFINE y == (vk * b) * P
  <2>5. y <= xb * Q /\ xb * Q < y + 2 * (b * Q)
    BY <1>2, <2>3
  <2> HIDE DEF y
  <2>6. QED  BY <1>1, <1>3, <2>4, <2>5 DEF y
<1>6. zk * Q = (z * Q) * k /\ (vk * b) * P = (vb * P) * k
  OBVIOUS
<1>7. /\ z * Q \in Int /\ vb * P \in Int /\ z * Q <= W /\ W < z * Q + 2 * Q
      /\ vb * P <= W /\ W < vb * P + Q /\ M = W * k
      /\ (z * Q + 2 * Q) * k = (z * Q) * k + 2 * kQ
      /\ (vb * P + Q) * k = (vb * P) * k + kQ
  OBVIOUS
<1>8. /\ xb \in Int /\ eP \in Int
      /\ x >= 0 => eP <= xb /\ xb < eP + P
      /\ x < 0 => expected <= 0 /\ xb <= eP
  OBVIOUS
<1>9. xb <= eP => xb * Q <= E
  BY <1>1, <1>2, Scaled
<1>10. CASE k >= 0
  <2>1. kQ <= C /\ kQ >= 0
    <3>1. k * Q <= P * Q  BY <1>1, <1>10, Scaled
    <3>2. k * Q >= 0  BY <1>1, <1>10
    <3>3. QED  BY <3>1, <3>2
  <2> DEFINE zQ == z * Q
             vQ == vb * P
  <2>2. zQ * k <= M /\ M <= zQ * k + 2 * kQ /\ zQ * k \in Int
    <3>1. zQ \in Int /\ zQ <= W /\ W <= zQ + 2 * Q /\ k \in Nat /\ zQ + 2 * Q \in Int
      BY <1>1, <1>7, <1>10
    <3> HIDE DEF zQ, M, kQ, Q
    <3>2. zQ * k <= W * k /\ W * k <= (zQ + 2 * Q) * k  BY <3>1, Scaled
    <3>3. QED  BY <1>7, <3>1, <3>2 DEF zQ
  <2>3. vQ * k <= M /\ M <= vQ * k + kQ /\ vQ * k \in Int
    <3>1. vQ \in Int /\ vQ <= W /\ W <= vQ + Q /\ k \in Nat /\ vQ + Q \in Int
      BY <1>1, <1>7, <1>10
    <3> HIDE DEF vQ, M, kQ, Q
    <3>2. vQ * k <= W * k /\ W * k <= (vQ + Q) * k  BY <3>1, Scaled
    <3>3. QED  BY <1>7, <3>1, <3>2 DEF vQ
  <2>4. x >= 0
    <3>1. vk >= 0  BY <1>10
    <3>2. xP >= 0  BY <1>1, <3>1
    <3>3. QED  BY <3>2
  <2>5. E <= xb * Q /\ xb * Q < E + C
    <3>1. eP <= xb /\ xb < eP + P /\ eP + P \in Int  BY <1>8, <2>4
    <3> HIDE DEF eP, xb, Q, E, C
    <3>2. eP * Q <= xb * Q /\ xb * Q < (eP + P) * Q  BY <1>1, <3>1, Scaled
    <3>3. QED  BY <1>2, <3>2
  <2> HIDE DEF zQ, vQ, M, N, E, C, kQ, Q, zk, vk, xb, vb
  <2>6. M - 2 * C <= N /\ N < M + 2 * C
    BY <1>1, <1>4, <1>6, <2>1, <2>2 DEF zQ
  <2>7. M - 2 * C < E /\ E < M + 2 * C
    BY <1>1, <1>5, <1>6, <2>1, <2>3, <2>5 DEF vQ
  <2>8. N < E + 4 * C /\ E < N + 4 * C  BY <1>1, <2>6, <2>7
  <2>9. net < expected + 4 /\ expected < net + 4
    <3>1. /\ N = net * C /\ E = expected * C
          /\ (expected + 4) * C = expected * C + 4 * C
          /\ (net + 4) * C = net * C + 4 * C
      BY <1>1 DEF N, E
    <3>2. net >= expected + 4 => net * C >= (expected + 4) * C
      BY <1>1, Scaled
    <3>3. expected >= net + 4 => expected * C >= (net + 4) * C
      BY <1>1, Scaled
    <3>4. QED  BY <1>1, <2>8, <3>1, <3>2, <3>3
  <2>10. QED  BY <2>9
<1>11. CASE k < 0
  <2>1. net < 2 /\ x < 2
    <3>1. zk <= 0 /\ vk <= 0  BY <1>11
    <3>2. nP < 2 * P /\ xP < 2 * P
      <4> HIDE DEF zk, vk, nP, xP
      <4>1. nP < zk + 2 * P /\ xP < vk + 2 * P  BY DEF zk, vk, nP, xP
      <4>2. QED  BY <1>1, <3>1, <4>1
    <3>3. QED  BY <3>2
  <2>2. CASE x >= 0
    <3>1. x = 0 \/ x = 1  BY <2>1, <2>2
    <3>2. xb >= 0 /\ xb <= P  BY <3>1
    <3>3. eP <= P /\ eP > -P  BY <1>8, <2>2, <3>2
    <3>4. expected <= 1 /\ expected >= 0  BY <3>3
    <3>5. QED  BY <2>1, <3>4
  <2>3. CASE x < 0
    <3>1. expected <= 0 /\ xb * Q <= E  BY <1>8, <1>9, <2>3
    <3> DEFINE zQ == z * Q
               vQ == vb * P
               l == -k
    <3>2. l \in Nat \ {0} /\ l <= P  BY <1>11
    <3>3. M <= vQ * k /\ vQ * k \in Int
      <4>1. vQ * l <= W * l  BY <1>1, <1>7, <3>2, Scaled
      <4>2. vQ * l = -(vQ * k) /\ W * l = -M /\ vQ * k \in Int  BY <1>1, <1>7
      <4> HIDE DEF vQ, M, l
      <4>3. QED  BY <1>1, <4>1, <4>2
    <3>4. zQ * k <= M + 2 * C /\ zQ * k \in Int
      <4>1. W * l <= (zQ + 2 * Q) * l  BY <1>1, <1>7, <3>2, Scaled
      <4>2. l * Q <= P * Q  BY <1>1, <3>2, Scaled
      <4>3. /\ (zQ + 2 * Q) * l = -(zQ * k) + 2 * (l * Q) /\ W * l = -M
            /\ zQ * k \in Int /\ l * Q \in Int
        BY <1>1, <1>7, <3>2
      <4> HIDE DEF zQ, M, l, Q
      <4>4. QED  BY <1>1, <4>1, <4>2, <4>3
    <3> HIDE DEF zQ, vQ, M, N, E, C, Q, zk, vk, xb, vb
    <3>5. N < E + 4 * C
      BY <1>1, <1>4, <1>5, <1>6, <3>1, <3>3, <3>4 DEF zQ, vQ
    <3>6. net < expected + 4
      <4>1. /\ N = net * C /\ E = expected * C
            /\ (expected + 4) * C = expected * C + 4 * C
        BY <1>1 DEF N, E
      <4>2. net >= expected + 4 => net * C >= (expected + 4) * C
        BY <1>1, Scaled
      <4>3. QED  BY <1>1, <3>5, <4>1, <4>2
    <3>7. QED  BY <3>1, <3>6
  <2>4. QED  BY <2>2, <2>3
<1>12. QED  BY <1>10, <1>11

\* The tests' product of any number with a natural one is rounded towards zero.
LEMMA ExpectedTruncates ==
  ASSUME NEW x \in Int, NEW b \in Nat
  PROVE  LET e == Expected!preciseMul(x, b)
             P == PRECISE_UNIT
         IN  /\ e \in Int
             /\ x >= 0 => e * P <= x * b /\ x * b < e * P + P
             /\ x < 0 => e <= 0 /\ x * b <= e * P
<1> DEFINE P == PRECISE_UNIT
           y == x * b
           e == Expected!preciseMul(x, b)
<1>1. P \in Nat \ {0} /\ y \in Int  BY PreciseUnitAssumption
<1>2. e = IF y >= 0 THEN y \div P ELSE -((-y) \div P)
  <2>1. e = Expected!div(y, P)  BY DEF Expected!preciseMul
  <2> HIDE DEF y, P, e
  <2>2. QED  BY <1>1, <2>1 DEF Expected!div, Expected!magnitude
<1>3. (x >= 0 => y >= 0) /\ (x < 0 => y <= 0)  OBVIOUS
<1> HIDE DEF y, P, e
<1>4. CASE y >= 0
  <2>1. y \div P \in Nat /\ (y \div P) * P <= y /\ y < (y \div P) * P + P
    BY <1>1, <1>4, NatDivBounds
  <2>2. e \in Int /\ e * P <= y /\ y < e * P + P  BY <1>2, <1>4, <2>1
  <2>3. y = 0 => e = 0  BY <1>1, <1>2
  <2>4. x < 0 => e <= 0 /\ y <= e * P  BY <1>1, <1>3, <1>4, <2>3
  <2>5. QED  BY <2>2, <2>4 DEF y, e, P
<1>5. CASE y < 0
  <2> DEFINE n == -y
             t == n \div P
  <2>1. n \in Nat  BY <1>1, <1>5
  <2> HIDE DEF n
  <2>2. t \in Nat /\ t * P <= n  BY <1>1, <2>1, NatDivBounds
  <2>3. e = -t  BY <1>1, <1>2, <1>5 DEF n
  <2> HIDE DEF t
  <2>4. e * P = -(t * P) /\ t * P \in Nat  BY <1>1, <2>2, <2>3
  <2>5. e \in Int /\ e <= 0 /\ y <= e * P  BY <1>1, <2>2, <2>3, <2>4 DEF n
  <2>6. QED  BY <1>3, <1>5, <2>5 DEF y, e, P
<1>6. QED  BY <1>1, <1>4, <1>5

\* What a redemption takes out, and what the tests convert for it, around the
\* exact product of the value and what the premium leaves of it.
LEMMA PaymentReads ==
  ASSUME NavInv, NEW c \in Component, isPriced(c), NEW q \in Nat,
         baseUnits[c] <= PRECISE_UNIT
  PROVE  LET P == PRECISE_UNIT
             b == baseUnits[c]
             V == calculateSetTokenValuation(c)
             premium == navIssuanceSettings.premiumPercentage
             z == _getRedeemReserveQuantity(c, q)
             v == Expected!redeemedValue(q, V, premium)
         IN  /\ z \in Nat /\ v \in Nat
             /\ \E W \in Nat :
                  /\ z * (P * P) <= W /\ W < z * (P * P) + 2 * (P * P)
                  /\ (v * b) * P <= W /\ W < (v * b) * P + P * P
<1> DEFINE P == PRECISE_UNIT
           b == baseUnits[c]
           V == calculateSetTokenValuation(c)
           premium == navIssuanceSettings.premiumPercentage
           K == P - premium
           value == preciseMul(q, V)
           whole == preciseMul(value, b)
           z == _getRedeemReserveQuantity(c, q)
           v == value - preciseMulCeil(value, premium)
<1>1. P \in Nat \ {0} /\ b \in Nat \ {0} /\ b <= P /\ premium \in 0 .. P - 1
  BY PreciseUnitAssumption, SetValuerAssumption, PercentagesRead DEF NavInv
<1>2. premium \in Nat /\ K \in Nat /\ K <= P  BY <1>1
<1>3. /\ V \in Nat /\ value \in Nat /\ whole \in Nat /\ z \in Nat
      /\ whole * P <= value * b /\ value * b < whole * P + P
      /\ z * P <= whole * K /\ whole * K < z * P + P
  BY <1>1, OutflowReads
<1> HIDE DEF z, whole
<1>4. v \in Nat /\ v * P <= value * K /\ value * K < v * P + P
  <2> DEFINE taken == preciseMulCeil(value, premium)
  <2>1. /\ taken \in Nat /\ taken <= value
        /\ taken * P >= value * premium /\ taken * P < value * premium + P
    <3>1. premium \in 0 .. PRECISE_UNIT  BY <1>1
    <3> HIDE DEF premium, value
    <3>2. QED  BY <1>3, <3>1, CeilShareBound
  <2>2. v = value - taken  OBVIOUS
  <2> HIDE DEF taken, value, v, premium, P
  <2>3. v \in Nat  BY <1>3, <2>1, <2>2
  <2>4. /\ v * P = value * P - taken * P
        /\ value * K = value * P - value * premium
        /\ value * P \in Nat /\ taken * P \in Nat /\ value * premium \in Nat
    BY <1>1, <1>2, <1>3, <2>1, <2>2
  <2>5. QED  BY <1>1, <2>1, <2>3, <2>4
<1>5. Expected!redeemedValue(q, V, premium) = v
  <2> HIDE DEF V, premium
  <2>1. Expected!preciseMul(V, q) = preciseMul(V, q) BY <1>3, ExpectedReads
  <2>2. V * q = q * V  BY <1>3
  <2>3. preciseMul(V, q) = value  BY <2>2 DEF preciseMul
  <2>4. Expected!preciseMulCeil(value, premium) = preciseMulCeil(value, premium)
    BY <1>2, <1>3, ExpectedReads
  <2> HIDE DEF value
  <2>5. QED  BY <2>1, <2>3, <2>4 DEF Expected!redeemedValue
<1> HIDE DEF v, value, premium, V, b, K
<1> DEFINE W == value * b * K
<1>6. W \in Nat  BY <1>1, <1>2, <1>3
<1>7. /\ z * (P * P) <= W /\ W < z * (P * P) + 2 * (P * P)
      /\ (v * b) * P <= W /\ W < (v * b) * P + P * P
  <2> HIDE DEF P
  <2>1. QED  BY <1>1, <1>2, <1>3, <1>4, PremiumReads
<1> HIDE DEF W
<1>8. QED  BY <1>3, <1>4, <1>5, <1>6, <1>7 DEF z, V, premium, b, P

LEMMA RedeemIsExpected ==
  ASSUME NavInv, NEW c \in Component, CanUse(c), NEW q \in Nat
  PROVE  redeemAsExpected(c, q)
<1> DEFINE P == PRECISE_UNIT
           b == baseUnits[c]
           V == calculateSetTokenValuation(c)
           premium == navIssuanceSettings.premiumPercentage
           z == _getRedeemReserveQuantity(c, q)
           v == Expected!redeemedValue(q, V, premium)
           f == navIssuanceSettings.managerFees["redeem"]
           d == protocolDirect["redeem"]
           k == P - (f + d)
           fees == feesOf("redeem", z)
           net == netFlow("redeem", z)
           l == preciseMul(v, f) + preciseMul(v, d)
           x == v - l
           answer == Expected!getExpectedReserveRedeemQuantity(
                       q, V, b, fee("redeem"), d, premium)
<1> SUFFICES ASSUME b <= P, net >= 0 PROVE within(net, answer, 3)
  BY DEF redeemAsExpected
<1>1. P \in Nat \ {0} /\ b \in Nat \ {0} /\ SettingsInv /\ isPriced(c)
  BY PreciseUnitAssumption, SetValuerAssumption DEF NavInv, CanUse
<1>2. /\ z \in Nat /\ v \in Nat
      /\ \E W \in Nat : /\ z * (P * P) <= W /\ W < z * (P * P) + 2 * (P * P)
                        /\ (v * b) * P <= W /\ W < (v * b) * P + P * P
  BY <1>1, PaymentReads
<1> HIDE DEF z, v, V, premium, b
<1>3. "redeem" \in {"issue", "redeem"}  OBVIOUS
<1>4. /\ f \in 0 .. P - 1 /\ d \in 0 .. P
      /\ fees \in Nat /\ fees * P <= z * (f + d) /\ z * (f + d) < fees * P + 2 * P
  BY <1>1, <1>2, <1>3, FeesRead
<1>5. /\ l \in Nat /\ l * P <= v * (f + d) /\ v * (f + d) < l * P + 2 * P
      /\ Expected!getExpectedPostFeeQuantity(v, f, d) = x
  BY <1>1, <1>2, <1>3, FeesRead
<1>6. net = z - fees  BY DEF netFlow
<1>7. answer = Expected!preciseMul(x, b)
  <2>1. fee("redeem") = f  BY DEF fee
  <2> HIDE DEF x, f, d
  <2>2. Expected!getExpectedPostFeeQuantity(
          Expected!redeemedValue(q, V, premium), f, d) = x
    BY <1>5 DEF v
  <2>3. QED  BY <2>1, <2>2 DEF Expected!getExpectedReserveRedeemQuantity
<1> HIDE DEF f, d, fees, net, l, answer, P
<1>8. k \in Int /\ k <= P /\ -P < k /\ f \in Nat /\ d \in Nat  BY <1>1, <1>4
<1>9. z * k <= net * P /\ net * P < z * k + 2 * P /\ net \in Nat
  <2>1. /\ net * P = z * P - fees * P /\ z * k = z * P - z * (f + d)
        /\ z * P \in Int /\ fees * P \in Int /\ z * (f + d) \in Int
    BY <1>1, <1>2, <1>4, <1>6, <1>8
  <2>2. net \in Nat  BY <1>2, <1>4, <1>6
  <2> HIDE DEF k
  <2>3. QED  BY <1>1, <1>4, <2>1, <2>2
<1>10. v * k <= x * P /\ x * P < v * k + 2 * P /\ x \in Int
  <2>1. /\ x * P = v * P - l * P /\ v * k = v * P - v * (f + d)
        /\ v * P \in Int /\ l * P \in Int /\ v * (f + d) \in Int
    BY <1>1, <1>2, <1>5, <1>8
  <2>2. x \in Int  BY <1>2, <1>5
  <2> HIDE DEF k, x
  <2>3. QED  BY <1>1, <1>5, <2>1, <2>2
<1> HIDE DEF k, x
<1>11. /\ answer \in Int
       /\ x >= 0 => answer * P <= x * b /\ x * b < answer * P + P
       /\ x < 0 => answer <= 0 /\ x * b <= answer * P
  <2>1. b \in Nat  BY <1>1
  <2>2. QED  BY <1>7, <1>10, <2>1, ExpectedTruncates DEF P
<1>12. net - answer <= 3 /\ answer - net <= 3
  BY <1>1, <1>2, <1>8, <1>9, <1>10, <1>11, RedeemGap
<1>13. QED  BY <1>12 DEF within

\* What the tests expect a call to mint or pay, it mints or pays up to their
\* gaps, under any settings and prices that calls lead to.
THEOREM QuantitiesCorrect == Spec => []QuantitiesAsExpected
<1>1. ASSUME NavInv PROVE QuantitiesAsExpected
  <2>1. ReserveQuantity \subseteq Nat /\ RedeemQuantity \subseteq Nat
    BY NavSetAssumption
  <2>2. QED
    BY <1>1, <2>1, IssueIsExpected, RedeemIsExpected DEF QuantitiesAsExpected
<1>2. QED  BY <1>1, NavInvariant, PTL

-----------------------------------------------------------------------------
(* What the tests expect of the positions after an issuance or redemption. *)

\* A number scaled and scaled back, rounded down twice.
LEMMA ScaledBack ==
  ASSUME NEW u \in Nat, NEW a \in Nat \ {0}, NEW b \in Nat \ {0}
  PROVE  LET s == (((u * a) \div b) * b) \div a
         IN  s \in Nat /\ s <= u /\ u <= s + b \div a + 1
<1> DEFINE x == u * a
           w == x \div b
           y == w * b
           s == y \div a
           g == b \div a
<1>1. x \in Nat  OBVIOUS
<1> HIDE DEF x
<1>2. w \in Nat /\ w * b <= x /\ x < w * b + b  BY <1>1, NatDivBounds
<1> HIDE DEF w
<1>3. y \in Nat /\ y <= x /\ x < y + b  BY <1>1, <1>2
<1> HIDE DEF y
<1>4. s \in Nat /\ s * a <= y /\ y < s * a + a  BY <1>3, NatDivBounds
<1>5. g \in Nat /\ b < g * a + a  BY NatDivBounds
<1> HIDE DEF s, g
<1>6. s * a \in Int /\ g * a \in Int /\ (s + g + 2) * a = s * a + g * a + 2 * a
  BY <1>4, <1>5
<1>7. s * a <= x /\ x < (s + g + 2) * a  BY <1>1, <1>3, <1>4, <1>5, <1>6
<1>8. s <= u
  <2>1. s > u => s * a > u * a  BY <1>4, Scaled
  <2>2. QED  BY <1>1, <1>4, <1>6, <1>7, <2>1 DEF x
<1>9. u < s + g + 2
  <2>1. u >= s + g + 2 => u * a >= (s + g + 2) * a  BY <1>4, <1>5, Scaled
  <2>2. (s + g + 2) * a \in Int  BY <1>4, <1>5
  <2>3. QED  BY <1>1, <1>4, <1>5, <1>7, <2>1, <2>2 DEF x
<1>10. s \in Nat /\ s <= u /\ u <= s + g + 1  BY <1>4, <1>5, <1>8, <1>9
<1>11. QED  BY <1>10 DEF s, g, y, w, x

\* A multiplier scaled by a ratio of supplies, and by that ratio rounded down.
LEMMA RatioGap ==
  ASSUME NEW m \in Nat, NEW S \in Nat, NEW S1 \in Nat \ {0}, NEW P \in Nat \ {0}
  PROVE  LET k == (S * P) \div S1
             e == (m * k) \div P
             n == (m * S) \div S1
         IN  k \in Nat /\ e \in Nat /\ e <= n /\ n <= e + m \div P + 1
<1> DEFINE SP == S * P
           k == SP \div S1
           mk == m * k
           e == mk \div P
           mS == m * S
           n == mS \div S1
           g == m \div P
<1>1. SP \in Nat /\ mS \in Nat  OBVIOUS
<1>2. mS * P = m * SP  OBVIOUS
<1> HIDE DEF SP, mS
<1>3. k \in Nat /\ k * S1 <= SP /\ SP < k * S1 + S1  BY <1>1, NatDivBounds
<1> HIDE DEF k
<1>4. mk \in Nat /\ mk * S1 = m * (k * S1)  BY <1>3
<1>5. m * (k * S1 + S1) = mk * S1 + m * S1  BY <1>3
<1> HIDE DEF mk
<1>6. e \in Nat /\ e * P <= mk /\ mk < e * P + P  BY <1>4, NatDivBounds
<1>7. n \in Nat /\ n * S1 <= mS /\ mS < n * S1 + S1  BY <1>1, NatDivBounds
<1>8. g \in Nat /\ m < g * P + P  BY NatDivBounds
<1> HIDE DEF e, n, g
<1> DEFINE T == S1 * P
<1>9. T \in Nat \ {0} /\ e * T \in Int /\ n * T \in Int /\ g * T \in Int
  <2>1. T \in Nat \ {0}  OBVIOUS
  <2>2. QED  BY <1>6, <1>7, <1>8, <2>1
<1>10. /\ (e * P) * S1 = e * T /\ (n * S1) * P = n * T
       /\ (e * P + P) * S1 = e * T + T /\ (n * S1 + S1) * P = n * T + T
       /\ (g * P + P) * S1 = g * T + T
  BY <1>6, <1>7, <1>8
<1> HIDE DEF T
<1>11. e * T <= mk * S1 /\ mk * S1 < e * T + T
  BY <1>4, <1>6, <1>10, Scaled
<1>12. n * T <= mS * P /\ mS * P < n * T + T
  BY <1>1, <1>7, <1>10, Scaled
<1>13. m * S1 < g * T + T  BY <1>8, <1>10, Scaled
<1>14. mk * S1 <= mS * P /\ mS * P <= mk * S1 + m * S1
  <2>1. k * S1 \in Nat /\ k * S1 + S1 \in Nat  BY <1>3
  <2>2. (k * S1) * m <= SP * m /\ SP * m <= (k * S1 + S1) * m
    BY <1>1, <1>3, <2>1, Scaled
  <2>3. /\ (k * S1) * m = m * (k * S1) /\ SP * m = m * SP
        /\ (k * S1 + S1) * m = m * (k * S1 + S1)
    BY <1>1, <2>1
  <2>4. QED  BY <1>2, <1>4, <1>5, <2>2, <2>3
<1>15. mk * S1 \in Int /\ mS * P \in Int /\ m * S1 \in Int  BY <1>1, <1>4
<1>16. e * T < (n + 1) * T /\ n * T < (e + g + 2) * T
  <2>1. (n + 1) * T = n * T + T /\ (e + g + 2) * T = e * T + g * T + 2 * T
    BY <1>6, <1>7, <1>8, <1>9
  <2>2. QED  BY <1>9, <1>11, <1>12, <1>13, <1>14, <1>15, <2>1
<1>17. e < n + 1
  <2>1. e >= n + 1 => e * T >= (n + 1) * T  BY <1>6, <1>7, <1>9, Scaled
  <2>2. (n + 1) * T \in Int  BY <1>7, <1>9
  <2>3. QED  BY <1>6, <1>7, <1>9, <1>16, <2>1, <2>2
<1>18. n < e + g + 2
  <2>1. n >= e + g + 2 => n * T >= (e + g + 2) * T
    BY <1>6, <1>7, <1>8, <1>9, Scaled
  <2>2. (e + g + 2) * T \in Int  BY <1>6, <1>8, <1>9
  <2>3. QED  BY <1>6, <1>7, <1>8, <1>9, <1>16, <2>1, <2>2
<1>19. k \in Nat /\ e \in Nat /\ e <= n /\ n <= e + g + 1
  BY <1>3, <1>6, <1>7, <1>8, <1>17, <1>18
<1>20. QED  BY <1>19 DEF k, e, n, g, mk, mS, SP

\* The tests' products and quotients of negative numbers are those of the
\* opposite numbers, negated.
LEMMA ExpectedNegates ==
  ASSUME NEW a \in Nat, NEW b \in Nat
  PROVE  /\ Expected!preciseMul(-a, b) = -preciseMul(a, b)
         /\ b # 0 => Expected!preciseDiv(-a, b) = -preciseDiv(a, b)
<1> DEFINE P == PRECISE_UNIT
<1>1. P \in Nat \ {0}  BY PreciseUnitAssumption
<1>2. ASSUME NEW x \in Nat, NEW y \in Nat \ {0}
      PROVE  Expected!div(-x, y) = -(x \div y)
  <2>1. CASE x = 0
    <3> DEFINE n == -x
               k == n \div y
               z == x \div y
    <3>1. n \in Nat /\ n >= 0 /\ n <= 0  BY <2>1
    <3>2. Expected!div(n, y) = k  BY <3>1 DEF Expected!div, Expected!magnitude
    <3> HIDE DEF n
    <3>3. k \in Nat /\ k * y <= 0 /\ z \in Nat /\ z * y <= 0
      BY <2>1, <3>1, NatDivBounds
    <3> HIDE DEF k, z
    <3>4. k <= 0 /\ z <= 0  BY <3>3
    <3>5. k = -z  BY <3>3, <3>4
    <3>6. QED  BY <3>2, <3>5 DEF n, z
  <2>2. CASE x # 0
    <3>1. ~(-x >= 0) /\ -(-x) = x  BY <2>2
    <3>2. QED  BY <3>1 DEF Expected!div, Expected!magnitude
  <2>3. QED  BY <2>1, <2>2
<1>3. a * b \in Nat /\ (-a) * b = -(a * b)  OBVIOUS
<1>4. a * P \in Nat /\ (-a) * P = -(a * P)  BY <1>1
<1>5. Expected!preciseMul(-a, b) = -preciseMul(a, b)
  <2> DEFINE x == a * b
  <2>1. Expected!preciseMul(-a, b) = Expected!div(-x, P)
    BY <1>3 DEF Expected!preciseMul
  <2>2. preciseMul(a, b) = x \div P  BY DEF preciseMul
  <2>3. x \in Nat  BY <1>3
  <2> HIDE DEF x, P
  <2>4. QED  BY <1>1, <1>2, <2>1, <2>2, <2>3
<1>6. ASSUME b # 0 PROVE Expected!preciseDiv(-a, b) = -preciseDiv(a, b)
  <2> DEFINE x == a * P
  <2>1. Expected!preciseDiv(-a, b) = Expected!div(-x, b)
    BY <1>4 DEF Expected!preciseDiv
  <2>2. preciseDiv(a, b) = x \div b  BY DEF preciseDiv
  <2>3. x \in Nat  BY <1>4
  <2> HIDE DEF x
  <2>4. QED  BY <1>2, <1>6, <2>1, <2>2, <2>3
<1>7. QED  BY <1>5, <1>6

\* The tests reach the ratio of the supplies over an inflation rounded up, or
\* a deflation rounded down.
LEMMA ExpectedMultiplier ==
  ASSUME NEW m \in Nat, NEW S \in Nat, NEW S1 \in Nat \ {0}
  PROVE  LET e == (m * ((S * PRECISE_UNIT) \div S1)) \div PRECISE_UNIT
         IN  /\ S1 >= S => Expected!getExpectedIssuePositionMultiplier(m, S, S1) = e
             /\ S1 < S => Expected!getExpectedRedeemPositionMultiplier(m, S, S1) = e
<1> DEFINE P == PRECISE_UNIT
           SP == S * P
           k == SP \div S1
           e == (m * k) \div P
<1>1. P \in Nat \ {0}  BY PreciseUnitAssumption
<1>2. SP \in Nat  BY <1>1
<1>3. k \in Nat
  <2> HIDE DEF SP
  <2>1. QED  BY <1>2, NatDivBounds
<1>4. Expected!preciseMul(m, k) = e
  <2> HIDE DEF k
  <2>1. Expected!preciseMul(m, k) = preciseMul(m, k)  BY <1>3, ExpectedReads
  <2>2. QED  BY <2>1 DEF preciseMul
<1>5. ASSUME S1 >= S
      PROVE  Expected!getExpectedIssuePositionMultiplier(m, S, S1) = e
  <2> DEFINE a == S1 - S
             aP == a * P
             c == Expected!preciseDivCeil(a, S1)
  <2>1. a \in Nat /\ aP \in Nat /\ aP = S1 * P - SP  BY <1>1, <1>5
  <2>2. c \in Nat /\ aP <= c * S1 /\ c * S1 < aP + S1
    <3>1. CASE a = 0
      <4>1. c = 0 /\ aP = 0  BY <1>1, <3>1 DEF Expected!preciseDivCeil
      <4> HIDE DEF c, aP
      <4>2. QED  BY <4>1
    <3>2. CASE a # 0
      <4> DEFINE x == aP - 1
                 y == x \div S1
      <4>1. x \in Nat
        <5>1. aP # 0  BY <1>1, <2>1, <3>2
        <5> HIDE DEF aP
        <5>2. QED  BY <2>1, <5>1
      <4>2. c = Expected!div(x, S1) + 1  BY <3>2 DEF Expected!preciseDivCeil
      <4> HIDE DEF x, c
      <4>3. Expected!div(x, S1) = y
        BY <4>1 DEF Expected!div, Expected!magnitude
      <4>4. y \in Nat /\ y * S1 <= x /\ x < y * S1 + S1  BY <4>1, NatDivBounds
      <4> HIDE DEF y
      <4>5. c = y + 1 /\ c * S1 = y * S1 + S1 /\ y * S1 \in Nat
        BY <4>2, <4>3, <4>4
      <4>6. aP = x + 1  BY <2>1 DEF x
      <4> HIDE DEF aP
      <4>7. QED  BY <2>1, <4>1, <4>4, <4>5, <4>6
    <3>3. QED  BY <3>1, <3>2
  <2>3. Expected!getExpectedIssuePositionMultiplier(m, S, S1)
          = Expected!preciseMul(m, P - c)
    BY DEF Expected!getExpectedIssuePositionMultiplier
  <2> HIDE DEF a, aP, c
  <2> DEFINE r == P - c
  <2>4. r \in Int /\ r * S1 = S1 * P - c * S1 /\ S1 * P \in Int /\ c * S1 \in Int
    BY <1>1, <2>2
  <2>5. r * S1 <= SP /\ SP < r * S1 + S1
    <3> HIDE DEF r, SP
    <3>1. r * S1 \in Int  BY <2>4
    <3>2. QED  BY <1>2, <2>1, <2>2, <2>4, <3>1
  <2> HIDE DEF r, SP
  <2>6. SP \div S1 = r
    <3> HIDE DEF k, e
    <3>1. SP \in Int /\ r \in Int /\ S1 \in Nat \ {0}  BY <1>2, <2>4
    <3>2. QED  BY <2>5, <3>1, DivUnique
  <2>7. QED  BY <1>4, <2>3, <2>6 DEF r
<1>6. ASSUME S1 < S
      PROVE  Expected!getExpectedRedeemPositionMultiplier(m, S, S1) = e
  <2> DEFINE a == S - S1
             aP == a * P
             y == aP \div S1
  <2>1. a \in Nat /\ aP \in Nat /\ aP = SP - S1 * P  BY <1>1, <1>6
  <2>2. Expected!preciseDiv(a, S1) = y
    <3> HIDE DEF a
    <3>1. Expected!preciseDiv(a, S1) = preciseDiv(a, S1)  BY <2>1, ExpectedReads
    <3>2. QED  BY <3>1 DEF preciseDiv
  <2>3. Expected!getExpectedRedeemPositionMultiplier(m, S, S1)
          = Expected!preciseMul(m, P + y)
    <3> HIDE DEF y
    <3>1. QED  BY <2>2 DEF Expected!getExpectedRedeemPositionMultiplier
  <2> HIDE DEF a, aP
  <2>4. y \in Nat /\ y * S1 <= aP /\ aP < y * S1 + S1  BY <2>1, NatDivBounds
  <2> HIDE DEF y
  <2> DEFINE r == P + y
  <2>5. r \in Int /\ r * S1 = S1 * P + y * S1 /\ S1 * P \in Int /\ y * S1 \in Int
    BY <1>1, <2>4
  <2>6. r * S1 <= SP /\ SP < r * S1 + S1
    <3> HIDE DEF r, SP
    <3>1. r * S1 \in Int  BY <2>5
    <3>2. QED  BY <1>2, <2>1, <2>4, <2>5, <3>1
  <2> HIDE DEF r, SP
  <2>7. SP \div S1 = r
    <3> HIDE DEF k, e, y
    <3>1. SP \in Int /\ r \in Int /\ S1 \in Nat \ {0}  BY <1>2, <2>5
    <3>2. QED  BY <2>6, <3>1, DivUnique
  <2>8. QED  BY <1>4, <2>3, <2>7 DEF r
<1>7. QED  BY <1>5, <1>6

\* The unit the tests round as stored: towards zero, by less than one step.
LEMMA RoundedUnitReads ==
  ASSUME NEW u \in Int, NEW m \in Nat \ {0}
  PROVE  LET t == Expected!roundedUnit(u, m)
         IN  /\ t \in Int
             /\ u >= 0 => t <= u /\ u <= t + PRECISE_UNIT \div m + 1
             /\ u < 0 => u <= t /\ t <= 0
<1> DEFINE P == PRECISE_UNIT
           t == Expected!roundedUnit(u, m)
           back(x) == preciseDiv(preciseMul(x, m), m)
<1>1. P \in Nat \ {0}  BY PreciseUnitAssumption
<1>2. ASSUME NEW x \in Nat
      PROVE  /\ preciseMul(x, m) \in Nat
             /\ back(x) \in Nat /\ back(x) <= x /\ x <= back(x) + P \div m + 1
  <2>1. back(x) = (((x * m) \div P) * P) \div m  BY DEF preciseDiv, preciseMul
  <2>2. preciseMul(x, m) \in Nat  BY PreciseMulBound
  <2> HIDE DEF back, P
  <2>3. QED  BY <1>1, <2>1, <2>2, ScaledBack
<1>3. CASE u >= 0
  <2>1. u \in Nat /\ preciseMul(u, m) \in Nat  BY <1>2, <1>3
  <2>2. t = back(u)
    <3>1. Expected!preciseMul(u, m) = preciseMul(u, m)  BY <2>1, ExpectedReads
    <3> DEFINE w == preciseMul(u, m)
    <3> HIDE DEF w
    <3>2. Expected!preciseDiv(w, m) = preciseDiv(w, m)
      BY <2>1, ExpectedReads DEF w
    <3>3. QED  BY <3>1, <3>2 DEF Expected!roundedUnit, w
  <2> HIDE DEF t, back
  <2>3. QED  BY <1>2, <1>3, <2>1, <2>2 DEF t
<1>4. CASE u < 0
  <2> DEFINE x == -u
  <2>1. x \in Nat /\ u = -x  BY <1>4
  <2> HIDE DEF x
  <2>2. preciseMul(x, m) \in Nat  BY <1>2, <2>1
  <2>3. t = -back(x)
    <3>1. Expected!preciseMul(-x, m) = -preciseMul(x, m)
      BY <2>1, ExpectedNegates
    <3> DEFINE w == preciseMul(x, m)
    <3> HIDE DEF w
    <3>2. Expected!preciseDiv(-w, m) = -preciseDiv(w, m)
      BY <2>2, ExpectedNegates DEF w
    <3>3. QED  BY <2>1, <3>1, <3>2 DEF Expected!roundedUnit, w
  <2> HIDE DEF t, back
  <2>4. back(x) \in Nat /\ back(x) <= x  BY <1>2, <2>1
  <2>5. QED  BY <1>4, <2>1, <2>3, <2>4 DEF t
<1>5. QED  BY <1>3, <1>4

\* A base unit more or less, spread over a supply.
LEMMA SpreadGap ==
  ASSUME NEW n \in Nat, NEW l \in Int, n - l <= 1, l - n <= 1, NEW S1 \in Nat \ {0}
  PROVE  LET u == preciseDiv(n, S1)
             e == Expected!preciseDiv(l, S1)
             spread == (2 * PRECISE_UNIT) \div S1 + 1
         IN  u \in Nat /\ e \in Int /\ u - e <= spread /\ e - u <= spread
<1> DEFINE P == PRECISE_UNIT
           D == 2 * P
           g == D \div S1
           nP == n * P
           u == nP \div S1
           e == Expected!preciseDiv(l, S1)
<1>1. P \in Nat \ {0} /\ D \in Nat /\ nP \in Nat  BY PreciseUnitAssumption
<1>2. preciseDiv(n, S1) = u  BY DEF preciseDiv
<1>3. D = P + P  BY <1>1
<1> HIDE DEF D
<1>4. g \in Nat /\ D < g * S1 + S1  BY <1>1, NatDivBounds
<1> HIDE DEF g
<1>5. nP = n * P  OBVIOUS
<1> HIDE DEF nP
<1>6. u \in Nat /\ u * S1 <= nP /\ nP < u * S1 + S1  BY <1>1, NatDivBounds
<1> HIDE DEF u
<1>7. CASE l >= 0
  <2> DEFINE lP == l * P
             w == lP \div S1
  <2>1. l \in Nat /\ lP \in Nat  BY <1>1, <1>7
  <2>2. e = w
    <3>1. e = preciseDiv(l, S1)  BY <2>1, ExpectedReads
    <3>2. QED  BY <3>1 DEF preciseDiv
  <2>3. lP <= nP + P /\ nP <= lP + P
    <3>1. /\ l <= n + 1 => l * P <= (n + 1) * P
          /\ n <= l + 1 => n * P <= (l + 1) * P
      BY <1>1, <2>1, Scaled
    <3>2. (n + 1) * P = n * P + P /\ (l + 1) * P = l * P + P
      BY <1>1, <2>1
    <3>3. QED  BY <1>5, <2>1, <3>1, <3>2
  <2> HIDE DEF lP
  <2>4. w \in Nat /\ w * S1 <= lP /\ lP < w * S1 + S1  BY <2>1, NatDivBounds
  <2> HIDE DEF w
  <2>5. /\ u * S1 \in Int /\ w * S1 \in Int /\ g * S1 \in Int
        /\ (u + g + 2) * S1 = u * S1 + g * S1 + 2 * S1
        /\ (w + g + 2) * S1 = w * S1 + g * S1 + 2 * S1
    BY <1>4, <1>6, <2>4
  <2>6. w * S1 < (u + g + 2) * S1 /\ u * S1 < (w + g + 2) * S1
    BY <1>1, <1>3, <1>4, <1>6, <2>1, <2>3, <2>4, <2>5
  <2>7. w < u + g + 2
    <3>1. w >= u + g + 2 => w * S1 >= (u + g + 2) * S1
      BY <1>4, <1>6, <2>4, Scaled
    <3>2. (u + g + 2) * S1 \in Int  BY <1>4, <1>6
    <3>3. QED  BY <1>4, <1>6, <2>4, <2>5, <2>6, <3>1, <3>2
  <2>8. u < w + g + 2
    <3>1. u >= w + g + 2 => u * S1 >= (w + g + 2) * S1
      BY <1>4, <1>6, <2>4, Scaled
    <3>2. (w + g + 2) * S1 \in Int  BY <1>4, <2>4
    <3>3. QED  BY <1>4, <1>6, <2>4, <2>5, <2>6, <3>1, <3>2
  <2>9. u \in Nat /\ e \in Int /\ u - e <= g + 1 /\ e - u <= g + 1
    BY <1>4, <1>6, <2>2, <2>4, <2>7, <2>8
  <2>10. QED  BY <1>2, <2>9 DEF g, D
<1>8. CASE l < 0
  <2> DEFINE w == P \div S1
  <2>1. l = -1 /\ n = 0  BY <1>8
  <2>2. w \in Nat /\ w * S1 <= P  BY <1>1, NatDivBounds
  <2>3. e = -w
    <3>1. 1 \in Nat /\ 1 * P = P  BY <1>1
    <3>2. e = -preciseDiv(1, S1)  BY <2>1, ExpectedNegates
    <3>3. QED  BY <3>1, <3>2 DEF preciseDiv
  <2> HIDE DEF w, e
  <2>4. w <= g
    <3>1. w * S1 < (g + 1) * S1
      <4>1. (g + 1) * S1 = g * S1 + S1 /\ g * S1 \in Int /\ w * S1 \in Int
        BY <1>4, <2>2
      <4>2. QED  BY <1>1, <1>3, <1>4, <2>2, <4>1
    <3>2. w >= g + 1 => w * S1 >= (g + 1) * S1  BY <1>4, <2>2, Scaled
    <3>3. (g + 1) * S1 \in Int /\ w * S1 \in Int  BY <1>4, <2>2
    <3>4. QED  BY <1>4, <2>2, <3>1, <3>2, <3>3
  <2>5. u <= 0
    <3>1. nP = 0  BY <1>1, <1>5, <2>1
    <3>2. u * S1 <= 0  BY <1>6, <3>1
    <3>3. QED  BY <1>6, <3>2
  <2>6. u \in Nat /\ e \in Int /\ u - e <= g + 1 /\ e - u <= g + 1
    BY <1>4, <1>6, <2>2, <2>3, <2>4, <2>5
  <2>7. QED  BY <1>2, <2>6 DEF g, D, e
<1>9. QED  BY <1>7, <1>8

\* What a reader can use of a step: the new multiplier, and the unit of the
\* reserve asset as it is stored and read.
LEMMA MovedReads ==
  ASSUME NavInv, NEW r \in Component, NEW d, NEW S1, Moved(r, d, S1)
  PROVE  LET m == positions.positionMultiplier
             n == positions'.positionMultiplier
             u == preciseDiv(totalReserve(r) + d, S1)
         IN  /\ m \in Nat /\ n \in Nat \ {0} /\ u \in Nat
             /\ n = (m * totalSupply) \div S1
             /\ realUnit(r)' = (((u * PRECISE_UNIT) \div n) * n) \div PRECISE_UNIT
<1> DEFINE m == positions.positionMultiplier
           n == positions'.positionMultiplier
           x == (totalReserve(r) + d) * PRECISE_UNIT
           u == x \div S1
<1>1. m \in Nat  BY DEF NavInv, VaultInv, PlainInv, PositionState
<1>2. x \in Nat /\ S1 \in Nat \ {0}
  BY PreciseUnitAssumption DEF Moved
<1>3. preciseDiv(totalReserve(r) + d, S1) = u  BY DEF preciseDiv
<1>4. /\ PlainInv(positions') /\ n > 0 /\ n = (m * totalSupply) \div S1
      /\ positions'.virtualUnit[r] = (u * PRECISE_UNIT) \div n
  BY DEF Moved, Updated
<1>5. n \in Nat \ {0}  BY <1>4 DEF PlainInv, PositionState
<1> HIDE DEF x
<1>6. u \in Nat  BY <1>2, NatDivBounds
<1> HIDE DEF u, n
<1>7. getDefaultPositionRealUnit(positions', r)
        = (((u * PRECISE_UNIT) \div n) * n) \div PRECISE_UNIT
  BY <1>4, RealUnitFloors DEF n
<1>8. realUnit(r)' = getDefaultPositionRealUnit(positions', r)  BY DEF realUnit
<1>9. QED  BY <1>1, <1>3, <1>4, <1>5, <1>6, <1>7, <1>8 DEF n

LEMMA MultiplierIsExpected ==
  ASSUME NavInv, NEW r \in Component, NEW d, NEW S1, Moved(r, d, S1)
  PROVE  multiplierAsExpected
<1> DEFINE m == positions.positionMultiplier
           S == totalSupply
           k == (S * PRECISE_UNIT) \div S1
           e == (m * k) \div PRECISE_UNIT
           n == positions'.positionMultiplier
<1>1. /\ m \in Nat /\ S \in Nat /\ S1 \in Nat \ {0} /\ totalSupply' = S1
      /\ n = (m * S) \div S1
  BY MovedReads DEF Moved
<1>2. /\ S1 >= S => Expected!getExpectedIssuePositionMultiplier(m, S, S1) = e
      /\ S1 < S => Expected!getExpectedRedeemPositionMultiplier(m, S, S1) = e
  BY <1>1, ExpectedMultiplier
<1>3. e <= n /\ n <= e + m \div PRECISE_UNIT + 1
  <2>1. PRECISE_UNIT \in Nat \ {0}  BY PreciseUnitAssumption
  <2> DEFINE l == (m * S) \div S1
  <2>2. e <= l /\ l <= e + m \div PRECISE_UNIT + 1
    <3> HIDE DEF m, S, n
    <3>1. QED  BY <1>1, <2>1, RatioGap
  <2>3. n = l  BY <1>1
  <2> HIDE DEF e, n, l
  <2>4. QED  BY <2>2, <2>3
<1>4. S1 >= S \/ S1 < S  BY <1>1
<1> HIDE DEF e, n, m, S
<1>5. QED  BY <1>1, <1>2, <1>3, <1>4 DEF multiplierAsExpected, n, m, S

LEMMA IssueUnitIsExpected ==
  ASSUME NavInv, NEW r \in Component, NEW d \in Nat, NEW S1, Moved(r, d, S1),
         S1 >= totalSupply
  PROVE  unitAsExpected(r)
<1> DEFINE P == PRECISE_UNIT
           S == totalSupply
           n == positions'.positionMultiplier
           R == totalReserve(r)
           u == preciseDiv(R + d, S1)
           g == n \div P
           h == P \div n
           new == realUnit(r)'
           t == Expected!roundedUnit(u, n)
           answer == Expected!getExpectedIssuePositionUnit(
                       realUnit(r), d, S, S1, n, 0, 0)
<1>1. /\ S \in Nat /\ S1 \in Nat \ {0} /\ totalSupply' = S1
      /\ R \in Nat /\ held'[r] - held[r] = d
  BY DEF Moved, NavInv, VaultInv, VaultTypeOK
<1>2. n \in Nat \ {0} /\ u \in Nat /\ new = (((u * P) \div n) * n) \div P
  BY MovedReads
<1>3. P \in Nat \ {0}  BY PreciseUnitAssumption
<1>4. realUnit(r) \in Nat  BY RealUnitFloors DEF NavInv, VaultInv, realUnit
<1>5. answer = t
  <2>1. Expected!preciseMul(S, realUnit(r)) = R
    <3> DEFINE x == realUnit(r)
    <3>1. preciseMul(x, S) = R  BY DEF totalReserve
    <3> HIDE DEF x
    <3>2. x * S = S * x  BY <1>1, <1>4 DEF x
    <3>3. preciseMul(S, x) = preciseMul(x, S)  BY <3>2 DEF preciseMul
    <3>4. Expected!preciseMul(S, x) = preciseMul(S, x)
      BY <1>1, <1>4, ExpectedReads DEF x
    <3>5. QED  BY <3>1, <3>3, <3>4 DEF x
  <2>2. Expected!getExpectedPostFeeQuantity(d, 0, 0) = d
    <3>1. preciseMul(d, 0) \in Nat /\ preciseMul(d, 0) * P <= d * 0
      BY PreciseMulBound
    <3>2. Expected!preciseMul(d, 0) = preciseMul(d, 0)  BY ExpectedReads
    <3> DEFINE y == preciseMul(d, 0)
    <3> HIDE DEF y, P
    <3>3. y <= 0 /\ y \in Nat
      <4>1. y * P <= 0 /\ y \in Nat  BY <3>1 DEF y
      <4>2. QED  BY <1>3, <4>1
    <3>4. d - y - y = d  BY <3>3
    <3>5. QED  BY <3>2, <3>4 DEF Expected!getExpectedPostFeeQuantity, y
  <2>3. Expected!preciseDiv(R + d, S1) = u  BY <1>1, ExpectedReads
  <2> HIDE DEF R, u, S, n
  <2>4. QED  BY <2>1, <2>2, <2>3 DEF Expected!getExpectedIssuePositionUnit
<1> HIDE DEF u, n, new, answer, t, P, R, S
<1>6. new \in Nat /\ new <= u /\ u <= new + g + 1
  BY <1>2, <1>3, ScaledBack
<1>7. t \in Int /\ t <= u /\ u <= t + h + 1
  <2>1. u \in Int /\ u >= 0  BY <1>2
  <2>2. QED  BY <1>2, <2>1, RoundedUnitReads DEF t, P
<1>8. g \in Nat /\ h \in Nat
  BY <1>2, <1>3, NatDivBounds
<1> HIDE DEF g, h
<1>9. within(new, t, g + h + 2)  BY <1>2, <1>6, <1>7, <1>8 DEF within
<1>10. QED  BY <1>1, <1>5, <1>9 DEF unitAsExpected, new, answer, g, h, n, P, S

LEMMA RedeemUnitIsExpected ==
  ASSUME NavInv, NEW r \in Component, isPriced(r), NEW q \in Nat \ {0}, NEW S1,
         Moved(r, -_getRedeemReserveQuantity(r, q), S1), S1 = totalSupply - q
  PROVE  unitAsExpected(r)
<1> DEFINE P == PRECISE_UNIT
           b == baseUnits[r]
           S == totalSupply
           V == calculateSetTokenValuation(r)
           premium == navIssuanceSettings.premiumPercentage
           z == _getRedeemReserveQuantity(r, q)
           v == Expected!redeemedValue(q, V, premium)
           y == Expected!preciseMul(v, b)
           n == positions'.positionMultiplier
           R == totalReserve(r)
           u == preciseDiv(R + (-z), S1)
           e == Expected!preciseDiv(R - y, S1)
           g == n \div P
           h == P \div n
           spread == (2 * P) \div S1 + 1
           new == realUnit(r)'
           t == Expected!roundedUnit(e, n)
           answer == Expected!getExpectedRedeemPositionUnit(
                       realUnit(r), q, V, b, S, S1, n, premium)
<1>1. /\ S \in Nat /\ S1 \in Nat \ {0} /\ totalSupply' = S1 /\ S1 < S
      /\ S - S1 = q /\ R \in Nat /\ R + (-z) >= 0
  BY DEF Moved
<1> SUFFICES ASSUME b <= P
             PROVE  within(new, answer, g + h + 2 + spread)
  <2> HIDE DEF S, new, answer, g, h, spread, b, n, P
  <2>1. ~(S1 >= S) /\ totalSupply - totalSupply' = q
    BY <1>1 DEF S
  <2>2. QED
    BY <1>1, <2>1
    DEF unitAsExpected, new, answer, g, h, spread, b, n, P, S, V, premium
<1>2. n \in Nat \ {0} /\ u \in Nat /\ new = (((u * P) \div n) * n) \div P
  BY MovedReads
<1>3. P \in Nat \ {0} /\ b \in Nat \ {0}
  BY PreciseUnitAssumption, SetValuerAssumption
<1>4. /\ z \in Nat /\ v \in Nat
      /\ \E W \in Nat : /\ z * (P * P) <= W /\ W < z * (P * P) + 2 * (P * P)
                        /\ (v * b) * P <= W /\ W < (v * b) * P + P * P
  BY PaymentReads
<1>5. realUnit(r) \in Nat  BY RealUnitFloors DEF NavInv, VaultInv, realUnit
<1>6. y \in Nat /\ y * P <= v * b /\ v * b < y * P + P
  <2>1. y = preciseMul(v, b)
    <3> HIDE DEF v, b
    <3>1. QED  BY <1>3, <1>4, ExpectedReads
  <2>2. v * b \in Nat  BY <1>3, <1>4
  <2> HIDE DEF v, b, P, y
  <2>3. QED  BY <1>3, <2>1, <2>2, NatDivBounds DEF preciseMul, P
<1>7. answer = t
  <2>1. Expected!preciseMul(S, realUnit(r)) = R
    <3> DEFINE x == realUnit(r)
    <3>1. preciseMul(x, S) = R  BY DEF totalReserve
    <3> HIDE DEF x
    <3>2. x * S = S * x  BY <1>1, <1>5 DEF x
    <3>3. preciseMul(S, x) = preciseMul(x, S)  BY <3>2 DEF preciseMul
    <3>4. Expected!preciseMul(S, x) = preciseMul(S, x)
      BY <1>1, <1>5, ExpectedReads DEF x
    <3>5. QED  BY <3>1, <3>3, <3>4 DEF x
  <2> HIDE DEF R, S, n, V, premium, b
  <2>2. QED  BY <2>1 DEF Expected!getExpectedRedeemPositionUnit
<1> HIDE DEF n, new, answer, t, P, R, S, z, v, b, y, V, premium
<1>8. z - y <= 1 /\ y - z <= 1
  <2> DEFINE Q == P * P
             x == v * b
             xP == x * P
  <2>1. Q \in Nat \ {0} /\ x \in Nat /\ xP \in Nat  BY <1>3, <1>4
  <2>2. PICK W \in Nat : /\ z * Q <= W /\ W < z * Q + 2 * Q
                         /\ xP <= W /\ W < xP + Q
    BY <1>4
  <2>3. y * Q <= xP /\ xP < y * Q + Q
    <3> DEFINE yP == y * P
    <3>1. yP \in Nat /\ yP <= x /\ x < yP + P  BY <1>3, <1>6
    <3>2. yP * P = y * Q /\ (yP + P) * P = y * Q + Q  BY <1>3, <1>6
    <3> HIDE DEF yP, x, Q
    <3>3. yP * P <= x * P /\ x * P < (yP + P) * P
      BY <1>3, <2>1, <3>1, Scaled
    <3>4. QED  BY <3>2, <3>3
  <2> HIDE DEF Q, x, xP
  <2>4. y * Q \in Int  BY <1>6, <2>1
  <2>5. y * Q <= W /\ W < y * Q + 2 * Q  BY <2>1, <2>2, <2>3, <2>4
  <2>6. QED  BY <1>4, <1>6, <2>1, <2>2, <2>5, NearSums
<1>9. u \in Nat /\ e \in Int /\ u - e <= spread /\ e - u <= spread
  <2> DEFINE l == R + (-z)
             k == R - y
  <2>1. l \in Nat /\ k \in Int /\ l - k <= 1 /\ k - l <= 1
    BY <1>1, <1>4, <1>6, <1>8
  <2> HIDE DEF l, k
  <2>2. QED  BY <1>1, <2>1, SpreadGap DEF l, k, P
<1> HIDE DEF u, e
<1>10. new \in Nat /\ new <= u /\ u <= new + g + 1
  BY <1>2, <1>3, ScaledBack
<1>11. /\ t \in Int
       /\ e >= 0 => t <= e /\ e <= t + h + 1
       /\ e < 0 => e <= t /\ t <= 0
  BY <1>2, <1>9, RoundedUnitReads DEF t, P
<1>12. g \in Nat /\ h \in Nat /\ spread \in Nat
  <2>1. 2 * P \in Nat  BY <1>3
  <2> DEFINE x == 2 * P
  <2> HIDE DEF x
  <2>2. x \div S1 \in Nat  BY <1>1, <2>1, NatDivBounds DEF x
  <2>3. QED  BY <1>2, <1>3, <2>2, NatDivBounds DEF x
<1> HIDE DEF g, h, spread
<1>13. within(new, t, g + h + 2 + spread)
  BY <1>9, <1>10, <1>11, <1>12 DEF within
<1>14. QED  BY <1>7, <1>13

\* The multiplier and the reserve unit that the tests expect are those an
\* issuance or redemption leaves, up to the roundings that the two sides apply
\* in different orders, at every scale.
THEOREM PositionsCorrect == Spec => PositionsAsExpected
<1>1. ASSUME NavInv, [Next]_vars, NEW c \in Component, NavStepIn(c)
      PROVE  multiplierAsExpected /\ unitAsExpected(c)
  <2>1. PICK a \in Account, q \in Nat : issue(a, c, q) \/ redeem(a, c, q)
    BY <1>1, NavStepReads
  <2>2. CASE issue(a, c, q)
    <3> DEFINE net == netFlow("issue", q)
               minted == _getSetTokenMintQuantity(c, net)
    <3>1. net \in Nat /\ minted \in Nat /\ Moved(c, net, totalSupply + minted)
      BY <1>1, <2>2, NavIssueMoves
    <3> HIDE DEF net, minted
    <3>2. totalSupply + minted >= totalSupply  BY <3>1 DEF Moved
    <3>3. QED  BY <1>1, <3>1, <3>2, MultiplierIsExpected, IssueUnitIsExpected
  <2>3. CASE redeem(a, c, q)
    <3>1. /\ q # 0 /\ isPriced(c)
          /\ Moved(c, -_getRedeemReserveQuantity(c, q), totalSupply - q)
      BY <1>1, <2>3, NavRedeemMoves
    <3>2. QED  BY <1>1, <3>1, MultiplierIsExpected, RedeemUnitIsExpected
  <2>4. QED  BY <2>1, <2>2, <2>3
<1>2. NavInv /\ [Next]_vars =>
        [\A c \in Component :
           NavStepIn(c) => multiplierAsExpected /\ unitAsExpected(c)]_vars
  BY <1>1
<1>3. QED
  BY <1>2, NavInvariant, PTL
  DEF Spec, PositionsAsExpected
==============================================================================
