------------------------- MODULE LeveragedSetProofs --------------------------
(***************************************************************************)
(* Theorems about the two modules of a leveraged SetToken, for any assets, *)
(* quantities and scale.  The invariant has three parts that are kept by   *)
(* different steps: who is registered with whom, which markets are         *)
(* entered, and the types of the amounts.                                  *)
(***************************************************************************)
EXTENDS LeveragedSet, LibraryProofs

RegistrationInv == IssuanceTypeOK /\ HooksMatchFlags /\ HooksKeepIssuance

\* Nothing stays enabled when the module is gone, so that it starts afresh.
ClearedWithModule ==
  moduleStates[CLM] # "INITIALIZED" => collateralEnabled \cup borrowEnabled = {}

MarketInv ==
  /\ collateralEnabled \in SUBSET Asset /\ borrowEnabled \in SUBSET Asset
  /\ entered \in SUBSET Asset
  /\ EnabledAreEntered /\ ClearedWithModule

\* Interest is due only on a debt.
AmountInv ==
  /\ supply \in Nat /\ debtUnit \in [Asset -> Nat]
  /\ debt \in [Asset -> Nat] /\ interest \in [Asset -> Nat]
  /\ \A a \in Asset : interest[a] > 0 => debt[a] > 0
  /\ defaultUnit \in [Asset -> Nat] /\ held \in [Asset -> Nat]

IInv == RegistrationInv /\ MarketInv /\ AmountInv

\* The invariants of the runs are parts of the inductive one.
LEMMA TypeFromInvariant ==
  IInv => TypeOK /\ HooksMatchFlags /\ HooksKeepIssuance /\ EnabledAreEntered
BY DEF IInv, RegistrationInv, MarketInv, AmountInv, TypeOK, LeverageTypeOK

-----------------------------------------------------------------------------

\* Accruing turns interest into debt: balances keep their type, and no interest
\* is left where none is owed.
LEMMA AccruedType ==
  ASSUME AmountInv, NEW S
  PROVE  /\ accrued(S) \in [Asset -> Nat]
         /\ \A a \in Asset : accrued(S)[a] <= owed(a)
         /\ \A a \in S \cap Asset : accrued(S)[a] = owed(a)
         /\ \A a \in Asset \ S : accrued(S)[a] = debt[a]
BY DEF AmountInv, accrued, owed

\* The units sync computes cover the balance of every asset it visits.
LEMMA SyncedCovers ==
  ASSUME AmountInv, NEW accrues \in BOOLEAN
  PROVE  /\ synced(accrues) \in [Asset -> Nat]
         /\ supply > 0 => \A a \in borrowEnabled \cap Asset :
              accrued(visited(accrues))[a] * PRECISE_UNIT <= synced(accrues)[a] * supply
<1> DEFINE balance == accrued(visited(accrues))
<1>1. balance \in [Asset -> Nat]  BY AccruedType
<1> HIDE DEF balance
<1>2. CASE supply > 0
  <2>1. \A a \in Asset : /\ borrowPosition(balance[a]) \in Nat
                         /\ borrowPosition(balance[a]) * supply >= balance[a] * PRECISE_UNIT
    BY <1>1, <1>2, PreciseDivCeilBound DEF AmountInv, borrowPosition
  <2>2. synced(accrues) = [a \in Asset |-> IF a \in borrowEnabled
                                           THEN borrowPosition(balance[a])
                                           ELSE debtUnit[a]]
    BY <1>2 DEF synced, balance
  <2>3. synced(accrues) \in [Asset -> Nat]
    BY <2>1, <2>2 DEF AmountInv
  <2>4. ASSUME NEW a \in borrowEnabled \cap Asset
        PROVE  balance[a] * PRECISE_UNIT <= synced(accrues)[a] * supply
    <3>1. synced(accrues)[a] = borrowPosition(balance[a])  BY <2>2
    <3>2. /\ borrowPosition(balance[a]) * supply \in Nat
          /\ balance[a] * PRECISE_UNIT \in Nat
      BY <1>1, <2>1, PreciseUnitAssumption DEF AmountInv
    <3>3. QED  BY <2>1, <3>1, <3>2
  <2>5. QED  BY <2>3, <2>4 DEF balance
<1>3. CASE ~(supply > 0)  BY <1>3 DEF AmountInv, synced
<1>4. QED  BY <1>2, <1>3

-----------------------------------------------------------------------------
(* The three parts of the invariant. *)

\* A new SetToken has no hooks, no flags and no markets.
LEMMA InitEstablishes == Init => IInv
<1> SUFFICES ASSUME Init PROVE IInv
  OBVIOUS
<1> USE DEF Init, IssuanceInit, LeverageInit
<1>1. RegistrationInv
  BY DEF RegistrationInv, IssuanceTypeOK, HooksMatchFlags, HooksKeepIssuance,
       IsInjective, ToSet, Modules
<1>2. MarketInv
  BY DEF MarketInv, EnabledAreEntered, managed, ClearedWithModule, Modules, CLM, DIM
<1>3. AmountInv  BY CompoundAssumption DEF AmountInv
<1>4. QED  BY <1>1, <1>2, <1>3 DEF IInv

\* Registration is kept: push of a module that has no flag.
LEMMA RegisterKeeps ==
  ASSUME NEW m \in Modules, NEW states, RegistrationInv,
         registerOk(m, states), registerToIssuanceModule(m)
  PROVE  hooks' \in Seq(Modules) /\ isModuleHook' \in SUBSET Modules /\ HooksMatchFlags'
<1>1. ~contains(hooks, m)
  BY ContainsIsMembership DEF RegistrationInv, HooksMatchFlags, registerOk
<1>2. QED
  BY <1>1, PushKeepsDistinct
     DEF RegistrationInv, IssuanceTypeOK, HooksMatchFlags, registerToIssuanceModule

\* Unregistration is kept: removal of a module that has a flag.
LEMMA UnregisterKeeps ==
  ASSUME NEW m \in Modules, RegistrationInv,
         unregisterOk(m), unregisterFromIssuanceModule(m)
  PROVE  hooks' \in Seq(Modules) /\ isModuleHook' \in SUBSET Modules /\ HooksMatchFlags'
<1>1. contains(hooks, m)
  BY ContainsIsMembership DEF RegistrationInv, HooksMatchFlags, unregisterOk
<1>2. QED
  BY <1>1, RemoveStorageKeepsDistinct
     DEF RegistrationInv, IssuanceTypeOK, HooksMatchFlags,
         unregisterFromIssuanceModule

\* Every step keeps the list of hooks, the flags and the state of the modules in
\* agreement: the hooks are cleared only where the issuance module is removed.
LEMMA RegistrationPreserved ==
  ASSUME RegistrationInv, [Next]_vars
  PROVE  RegistrationInv'
<1> USE DEF Modules, CLM, DIM
<1>1. CASE UNCHANGED <<authority, registration>>
  BY <1>1 DEF authority, registration, RegistrationInv, IssuanceTypeOK,
       HooksMatchFlags, HooksKeepIssuance
<1>2. CASE UNCHANGED vars
  BY <1>1, <1>2 DEF vars, authority, registration
<1>3. CASE GovernanceStep
  <2>1. CASE initializeIssuance
    <3>1. hooks = << >> /\ hooks' = << >> /\ isModuleHook' = isModuleHook
      BY <2>1 DEF RegistrationInv, HooksKeepIssuance, initializeIssuance
    <3>2. QED
      BY <2>1, <3>1 DEF initializeIssuance, RegistrationInv, IssuanceTypeOK,
           HooksMatchFlags, HooksKeepIssuance
  <2>2. CASE removeIssuance
    BY <2>2 DEF removeIssuance, RegistrationInv, IssuanceTypeOK, HooksMatchFlags,
         HooksKeepIssuance
  <2>3. CASE controllerRemoveSet
    BY <2>3 DEF controllerRemoveSet, registration, RegistrationInv, IssuanceTypeOK,
         HooksMatchFlags, HooksKeepIssuance
  <2>4. ASSUME NEW m \in Modules, addModule(m) \/ removePendingModule(m)
        PROVE  RegistrationInv'
    BY <2>4 DEF addModule, removePendingModule, registration, RegistrationInv,
         IssuanceTypeOK, HooksMatchFlags, HooksKeepIssuance
  <2>5. ASSUME NEW m \in Modules, controllerAddModule(m) \/ controllerRemoveModule(m)
        PROVE  RegistrationInv'
    BY <2>5 DEF controllerAddModule, controllerRemoveModule, registration,
         RegistrationInv, IssuanceTypeOK, HooksMatchFlags, HooksKeepIssuance
  <2>6. QED  BY <1>3, <2>1, <2>2, <2>3, <2>4, <2>5 DEF GovernanceStep
<1>4. ASSUME NEW collateral \in SUBSET Asset, NEW borrows \in SUBSET Asset,
             initializeLeverage(collateral, borrows)
      PROVE  RegistrationInv'
  <2>1. /\ moduleStates' = [moduleStates EXCEPT ![CLM] = "INITIALIZED"]
        /\ moduleStates[DIM] = "INITIALIZED" /\ UNCHANGED <<enabled, isSet>>
    BY <1>4 DEF initializeLeverage
  <2>2. hooks' \in Seq(Modules) /\ isModuleHook' \in SUBSET Modules /\ HooksMatchFlags'
    <3>1. CASE registerOk(CLM, moduleStates')
      BY <1>4, <3>1, RegisterKeeps DEF initializeLeverage
    <3>2. CASE ~registerOk(CLM, moduleStates')
      BY <1>4, <3>2 DEF initializeLeverage, registration, RegistrationInv,
           IssuanceTypeOK, HooksMatchFlags
    <3>3. QED  BY <3>1, <3>2
  <2>3. QED
    BY <2>1, <2>2 DEF RegistrationInv, IssuanceTypeOK, HooksKeepIssuance
<1>5. CASE removeLeverage
  <2>1. /\ moduleStates' = [moduleStates EXCEPT ![CLM] = "NONE"]
        /\ UNCHANGED <<enabled, isSet>>
    BY <1>5 DEF removeLeverage
  <2>2. /\ hooks' \in Seq(Modules) /\ isModuleHook' \in SUBSET Modules
        /\ HooksMatchFlags' /\ (hooks = << >> => hooks' = << >>)
    <3>1. CASE unregisterOk(CLM)
      <4>1. hooks # << >>
        BY <3>1 DEF RegistrationInv, HooksMatchFlags, unregisterOk, ToSet
      <4>2. QED  BY <1>5, <3>1, <4>1, UnregisterKeeps DEF removeLeverage
    <3>2. CASE ~unregisterOk(CLM)
      BY <1>5, <3>2 DEF removeLeverage, registration, RegistrationInv,
           IssuanceTypeOK, HooksMatchFlags
    <3>3. QED  BY <3>1, <3>2
  <2>3. QED
    BY <2>1, <2>2 DEF RegistrationInv, IssuanceTypeOK, HooksKeepIssuance
<1>6. CASE registerToModule
  <2>1. hooks' \in Seq(Modules) /\ isModuleHook' \in SUBSET Modules /\ HooksMatchFlags'
    BY <1>6, RegisterKeeps DEF registerToModule
  <2>2. moduleStates[DIM] = "INITIALIZED" /\ UNCHANGED authority
    BY <1>6 DEF registerToModule, registerOk
  <2>3. QED
    BY <2>1, <2>2 DEF authority, RegistrationInv, IssuanceTypeOK, HooksKeepIssuance
<1>7. QED  BY <1>1, <1>2, <1>3, <1>4, <1>5, <1>6 DEF Next

\* What every step of the module that is not about an amount does to markets.
LEMMA MarketPreserved ==
  ASSUME RegistrationInv, MarketInv, [Next]_vars
  PROVE  MarketInv'
<1> USE DEF MarketInv, EnabledAreEntered, managed, ClearedWithModule
<1>1. CASE UNCHANGED <<moduleStates, collateralEnabled, borrowEnabled, entered>>
  BY <1>1
<1>2. CASE UNCHANGED vars
  BY <1>1, <1>2 DEF vars
<1>3. CASE LeverageStep /\ UNCHANGED <<authority, registration>>
  <2>1. UNCHANGED moduleStates  BY <1>3 DEF authority
  <2>2. ASSUME NEW accrues \in BOOLEAN, sync(accrues) PROVE MarketInv'
    BY <1>1, <2>1, <2>2 DEF sync
  <2>3. ASSUME NEW q \in Quantity, issue(q) PROVE MarketInv'
    <3>1. issueVisits(q) \subseteq Asset
      BY DEF issueVisits, nonZero, equityHooked
    <3>2. entered' = entered \cup issueVisits(q)  BY <2>3 DEF issue, borrow
    <3>3. QED  BY <2>1, <2>3, <3>1, <3>2 DEF issue
  <2>4. ASSUME NEW q \in Quantity, redeem(q) PROVE MarketInv'
    BY <1>1, <2>1, <2>4 DEF redeem
  <2>5. ASSUME NEW a \in Asset, fallDue(a) \/ accrueInterest(a) \/ liquidate(a)
        PROVE  MarketInv'
    BY <1>1, <2>1, <2>5 DEF fallDue, accrueInterest, liquidate
  <2>6. ASSUME NEW a \in Asset, NEW q \in Borrowed, lever(a, q) PROVE MarketInv'
    BY <2>1, <2>6 DEF lever, borrow
  <2>7. ASSUME NEW a \in Asset, NEW q \in Borrowed, delever(a, q) PROVE MarketInv'
    BY <1>1, <2>1, <2>7 DEF delever
  <2>8. ASSUME NEW a \in Asset, addCollateralAsset(a) PROVE MarketInv'
    BY <2>1, <2>8 DEF addCollateralAsset, isSetValidAndInitialized
  <2>9. ASSUME NEW a \in Asset, removeCollateralAsset(a) PROVE MarketInv'
    BY <2>1, <2>9 DEF removeCollateralAsset
  <2>10. ASSUME NEW a \in Asset, addBorrowAsset(a) PROVE MarketInv'
    BY <2>1, <2>10 DEF addBorrowAsset, isSetValidAndInitialized
  <2>11. ASSUME NEW a \in Asset, removeBorrowAsset(a) PROVE MarketInv'
    BY <2>1, <2>11 DEF removeBorrowAsset
  <2>12. ASSUME NEW a \in Asset, NEW extra \in Surplus,
                deleverToZeroBorrowBalance(a, extra)
         PROVE  MarketInv'
    BY <1>1, <2>1, <2>12 DEF deleverToZeroBorrowBalance
  <2>13. QED
    BY <1>3, <2>2, <2>3, <2>4, <2>5, <2>6, <2>7, <2>8, <2>9, <2>10, <2>11, <2>12
       DEF LeverageStep
<1>4. CASE GovernanceStep /\ UNCHANGED <<supply, leverage>>
  <2>1. UNCHANGED <<collateralEnabled, borrowEnabled, entered>>
    BY <1>4 DEF leverage
  <2>2. moduleStates'[CLM] = "INITIALIZED" <=> moduleStates[CLM] = "INITIALIZED"
    BY <1>4 DEF GovernanceStep, initializeIssuance, removeIssuance,
         controllerRemoveSet, addModule, removePendingModule, controllerAddModule,
         controllerRemoveModule, RegistrationInv, IssuanceTypeOK, Modules, CLM, DIM
  <2>3. QED  BY <2>1, <2>2
<1>5. ASSUME NEW collateral \in SUBSET Asset, NEW borrows \in SUBSET Asset,
             initializeLeverage(collateral, borrows)
      PROVE  MarketInv'
  <2>1. moduleStates[CLM] = "PENDING" /\ moduleStates'[CLM] = "INITIALIZED"
    BY <1>5 DEF initializeLeverage, RegistrationInv, IssuanceTypeOK, Modules
  <2>2. QED  BY <1>5, <2>1 DEF initializeLeverage
<1>6. CASE removeLeverage
  <2>1. moduleStates'[CLM] = "NONE"
    BY <1>6 DEF removeLeverage, RegistrationInv, IssuanceTypeOK, Modules
  <2>2. QED  BY <1>6, <2>1 DEF removeLeverage
<1>7. CASE registerToModule
  BY <1>1, <1>7 DEF registerToModule, authority, leverage
<1>8. QED  BY <1>2, <1>3, <1>4, <1>5, <1>6, <1>7 DEF Next

\* The units after the hooks are natural numbers.
LEMMA AfterHooksType ==
  ASSUME AmountInv, NEW accrues \in BOOLEAN
  PROVE  unitsAfterHooks(accrues) \in [Asset -> Nat]
BY SyncedCovers DEF unitsAfterHooks, AmountInv

\* The debt of an issuance is a natural number, rounded down.
LEMMA IssuedDebtType ==
  ASSUME AmountInv, NEW q \in Quantity
  PROVE  /\ issuedDebt(q) \in [Asset -> Nat]
         /\ \A a \in Asset :
              issuedDebt(q)[a] * PRECISE_UNIT <= unitsAfterHooks(IssueAccrues)[a] * q
<1>1. q \in Nat  BY LeveragedSetAssumption
<1>2. \A a \in Asset : unitsAfterHooks(IssueAccrues)[a] \in Nat
  BY AfterHooksType DEF IssueAccrues
<1>3. QED  BY <1>1, <1>2, PreciseMulBound DEF issuedDebt

\* The debt of a redemption is a natural number, rounded up.
LEMMA RedeemedDebtType ==
  ASSUME AmountInv, NEW q \in Quantity
  PROVE  /\ redeemedDebt(q) \in [Asset -> Nat]
         /\ \A a \in Asset :
              redeemedDebt(q)[a] * PRECISE_UNIT >= unitsAfterHooks(RedeemAccrues)[a] * q
<1>1. q \in Nat  BY LeveragedSetAssumption
<1>2. \A a \in Asset : unitsAfterHooks(RedeemAccrues)[a] \in Nat
  BY AfterHooksType DEF RedeemAccrues
<1>3. QED  BY <1>1, <1>2, PreciseMulCeilBound DEF redeemedDebt

\* What an issuance and a redemption move besides: the equity, and the debt of
\* the assets whose hooks run for equity too.
LEMMA EquityTypes ==
  ASSUME AmountInv, NEW q \in Quantity
  PROVE  /\ issuedEquity(q) \in [Asset -> Nat] /\ redeemedEquity(q) \in [Asset -> Nat]
         /\ issuedAgain(q) \in [Asset -> Nat] /\ redeemedAgain(q) \in [Asset -> Nat]
         /\ borrowed(q) \in [Asset -> Nat] /\ repaid(q) \in [Asset -> Nat]
<1>1. q \in Nat  BY LeveragedSetAssumption
<1>2. \A a \in Asset : defaultUnit[a] \in Nat  BY DEF AmountInv
<1>3. issuedEquity(q) \in [Asset -> Nat] /\ redeemedEquity(q) \in [Asset -> Nat]
  BY <1>1, <1>2, PreciseMulBound, PreciseMulCeilBound DEF issuedEquity, redeemedEquity
<1>4. issuedDebt(q) \in [Asset -> Nat] /\ redeemedDebt(q) \in [Asset -> Nat]
  BY IssuedDebtType, RedeemedDebtType
<1>5. issuedAgain(q) \in [Asset -> Nat] /\ redeemedAgain(q) \in [Asset -> Nat]
  BY <1>4 DEF issuedAgain, redeemedAgain, again
<1>6. QED  BY <1>3, <1>4, <1>5 DEF borrowed, repaid

\* What sync assigns keeps the amounts.
LEMMA SynchroniseKeepsAmounts ==
  ASSUME AmountInv, NEW accrues \in BOOLEAN, synchronise(accrues),
         supply' = supply, UNCHANGED custody
  PROVE  AmountInv'
<1>1. debtUnit' \in [Asset -> Nat]  BY SyncedCovers DEF synchronise
<1>2. /\ debt' \in [Asset -> Nat] /\ interest' \in [Asset -> Nat]
      /\ \A a \in Asset : interest'[a] > 0 => debt'[a] > 0
  BY DEF synchronise, accrued, accrue, AmountInv
<1>3. QED  BY <1>1, <1>2 DEF AmountInv, custody

\* A borrow keeps the balances.
LEMMA BorrowKeepsBalances ==
  ASSUME AmountInv, NEW x \in [Asset -> Nat], NEW S, borrow(x, S)
  PROVE  /\ debt' \in [Asset -> Nat] /\ interest' \in [Asset -> Nat]
         /\ \A a \in Asset : interest'[a] > 0 => debt'[a] > 0
BY DEF borrow, accrued, accrue, AmountInv

\* A repayment keeps the balances: where it is made, the market has accrued.
LEMMA RepayKeepsBalances ==
  ASSUME AmountInv, NEW x \in [Asset -> Nat], NEW S, nonZero(x) \subseteq S,
         \A a \in Asset : x[a] <= accrued(S)[a],
         debt' = [a \in Asset |-> accrued(S)[a] - x[a]], accrue(S)
  PROVE  /\ debt' \in [Asset -> Nat] /\ interest' \in [Asset -> Nat]
         /\ \A a \in Asset : interest'[a] > 0 => debt'[a] > 0
BY DEF accrued, accrue, nonZero, AmountInv

\* The unit of the equity that closing a debt leaves is a natural number.
LEMMA DefaultUnitType ==
  ASSUME AmountInv, supply > 0, NEW a \in Asset, NEW extra \in Surplus
  PROVE  defaultUnitWith(a, extra) \in Nat /\ held[a] + extra \in Nat
<1>1. extra \in Nat  BY CompoundAssumption
<1>2. held[a] \in Nat /\ defaultUnit[a] \in Nat /\ supply \in Nat \ {0}
  BY DEF AmountInv
<1>3. tracked(a) \in Nat  BY <1>2, PreciseMulBound DEF tracked
<1> DEFINE x == (tracked(a) + extra) * PRECISE_UNIT
<1>4. x \in Nat  BY <1>1, <1>3, PreciseUnitAssumption
<1> HIDE DEF x
<1>5. x \div supply \in Nat  BY <1>2, <1>4, NatDivBounds
<1>6. defaultUnitWith(a, extra) \in {0, x \div supply}
  BY DEF defaultUnitWith, preciseDiv, x
<1>7. QED  BY <1>1, <1>2, <1>5, <1>6

\* Every step keeps supply, balances and debt units natural numbers.
LEMMA AmountPreserved ==
  ASSUME AmountInv, [Next]_vars
  PROVE  AmountInv'
<1>1. CASE UNCHANGED <<supply, debt, interest, debtUnit, custody>>
  BY <1>1 DEF AmountInv, custody
<1>2. CASE UNCHANGED vars
  BY <1>1, <1>2 DEF vars, custody
<1>3. CASE LeverageStep
  <2>1. ASSUME NEW accrues \in BOOLEAN, sync(accrues) PROVE AmountInv'
    BY <2>1, SynchroniseKeepsAmounts DEF sync
  <2>2. ASSUME NEW q \in Quantity, issue(q) PROVE AmountInv'
    <3>1. q \in Nat  BY LeveragedSetAssumption
    <3>2. debtUnit' \in [Asset -> Nat] /\ supply' \in Nat
      <4>1. unitsAfterHooks(IssueAccrues) \in [Asset -> Nat]
        BY AfterHooksType DEF IssueAccrues
      <4>2. QED  BY <2>2, <3>1, <4>1 DEF issue, AmountInv
    <3>3. borrowed(q) \in [Asset -> Nat] /\ borrow(borrowed(q), issueVisits(q))
      BY <2>2, EquityTypes DEF issue
    <3>4. /\ debt' \in [Asset -> Nat] /\ interest' \in [Asset -> Nat]
          /\ \A a \in Asset : interest'[a] > 0 => debt'[a] > 0
      BY <3>3, BorrowKeepsBalances
    <3>5. held' \in [Asset -> Nat] /\ UNCHANGED defaultUnit
      BY <2>2, EquityTypes DEF issue, AmountInv
    <3>6. QED  BY <3>2, <3>4, <3>5 DEF AmountInv
  <2>3. ASSUME NEW q \in Quantity, redeem(q) PROVE AmountInv'
    <3>1. q \in Nat  BY LeveragedSetAssumption
    <3>2. debtUnit' \in [Asset -> Nat] /\ supply' \in Nat
      <4>1. unitsAfterHooks(RedeemAccrues) \in [Asset -> Nat]
        BY AfterHooksType DEF RedeemAccrues
      <4>2. QED  BY <2>3, <3>1, <4>1 DEF redeem, AmountInv
    <3>3. nonZero(repaid(q)) \subseteq redeemVisits(q)
      BY RedeemedDebtType DEF redeemVisits, nonZero, repaid, redeemedAgain, again
    <3>4. repaid(q) \in [Asset -> Nat]  BY EquityTypes
    <3>5. /\ \A a \in Asset : repaid(q)[a] <= accrued(redeemVisits(q))[a]
          /\ debt' = [a \in Asset |-> accrued(redeemVisits(q))[a] - repaid(q)[a]]
          /\ accrue(redeemVisits(q))
      BY <2>3 DEF redeem, repayOk
    <3>6. /\ debt' \in [Asset -> Nat] /\ interest' \in [Asset -> Nat]
          /\ \A a \in Asset : interest'[a] > 0 => debt'[a] > 0
      BY <3>3, <3>4, <3>5, RepayKeepsBalances
    <3>7. taken(q) \in [Asset -> Nat]  BY EquityTypes DEF taken
    <3>8. held' \in [Asset -> Nat] /\ UNCHANGED defaultUnit
      <4>1. \A a \in Asset : taken(q)[a] <= held[a]  BY <2>3 DEF redeem
      <4>2. held' = [a \in Asset |-> held[a] - taken(q)[a]] /\ UNCHANGED defaultUnit
        BY <2>3 DEF redeem
      <4>3. QED  BY <3>7, <4>1, <4>2 DEF AmountInv
    <3>9. QED  BY <3>2, <3>6, <3>8 DEF AmountInv
  <2>4. ASSUME NEW a \in Asset, fallDue(a) \/ accrueInterest(a) \/ liquidate(a)
        PROVE  AmountInv'
    <3>1. CASE fallDue(a)  BY <3>1 DEF fallDue, AmountInv, custody
    <3>2. CASE accrueInterest(a)
      BY <3>2 DEF accrueInterest, accrued, accrue, AmountInv, custody
    <3>3. CASE liquidate(a)
      <4>1. accrued({a})[a] - 1 \in Nat
        BY <3>3, AccruedType DEF liquidate, AmountInv, owed
      <4>2. debt' \in [Asset -> Nat] /\ interest' \in [Asset -> Nat]
        BY <3>3, <4>1, AccruedType DEF liquidate, accrue, AmountInv
      <4>3. interest'[a] = 0 /\ \A b \in Asset \ {a} :
              interest'[b] = interest[b] /\ debt'[b] = debt[b]
        BY <3>3, AccruedType DEF liquidate, accrue
      <4>4. UNCHANGED <<supply, debtUnit, defaultUnit, held>>
        BY <3>3 DEF liquidate, custody
      <4>5. QED  BY <4>2, <4>3, <4>4 DEF AmountInv
    <3>4. QED  BY <2>4, <3>1, <3>2, <3>3
  <2>5. ASSUME NEW a \in Asset, NEW q \in Borrowed, lever(a, q) PROVE AmountInv'
    <3>1. q \in Nat  BY LeveragedSetAssumption
    <3>2. /\ debt' \in [Asset -> Nat] /\ interest' \in [Asset -> Nat]
          /\ \A b \in Asset : interest'[b] > 0 => debt'[b] > 0
      <4> DEFINE x == [b \in Asset |-> IF b = a THEN q ELSE 0]
      <4>1. x \in [Asset -> Nat] /\ borrow(x, {a})  BY <2>5, <3>1 DEF lever
      <4> HIDE DEF x
      <4>2. QED  BY <4>1, BorrowKeepsBalances
    <3>3. borrowPosition(debt'[a]) \in Nat
      <4>1. supply > 0  BY <2>5 DEF lever
      <4>2. supply \in Nat \ {0} /\ debt'[a] \in Nat
        BY <3>2, <4>1 DEF AmountInv
      <4>3. QED  BY <4>2, PreciseDivCeilBound DEF borrowPosition
    <3>4. QED  BY <2>5, <3>2, <3>3 DEF lever, AmountInv, custody
  <2>6. ASSUME NEW a \in Asset, NEW q \in Borrowed, delever(a, q) PROVE AmountInv'
    <3>1. q \in Nat  BY LeveragedSetAssumption
    <3>2. /\ debt' \in [Asset -> Nat] /\ interest' \in [Asset -> Nat]
          /\ \A b \in Asset : interest'[b] > 0 => debt'[b] > 0
      <4>1. accrued({a})[a] - q \in Nat
        BY <2>6, <3>1, AccruedType DEF delever, AmountInv, owed
      <4>2. debt' \in [Asset -> Nat] /\ interest' \in [Asset -> Nat]
        BY <2>6, <4>1, AccruedType DEF delever, accrue, AmountInv
      <4>3. interest'[a] = 0 /\ \A b \in Asset \ {a} :
              interest'[b] = interest[b] /\ debt'[b] = debt[b]
        BY <2>6, AccruedType DEF delever, accrue
      <4>4. QED  BY <4>2, <4>3 DEF AmountInv
    <3>3. borrowPosition(debt'[a]) \in Nat
      <4>1. supply \in Nat \ {0} /\ debt'[a] \in Nat
        BY <2>6, <3>2 DEF delever, AmountInv
      <4>2. QED  BY <4>1, PreciseDivCeilBound DEF borrowPosition
    <3>4. QED  BY <2>6, <3>2, <3>3 DEF delever, AmountInv, custody
  <2>7. ASSUME NEW a \in Asset, addCollateralAsset(a) \/ addBorrowAsset(a)
        PROVE  AmountInv'
    BY <1>1, <2>7 DEF addCollateralAsset, addBorrowAsset, balances
  <2>8. ASSUME NEW a \in Asset, removeCollateralAsset(a) \/ removeBorrowAsset(a)
        PROVE  AmountInv'
    BY <2>8, SynchroniseKeepsAmounts DEF removeCollateralAsset, removeBorrowAsset
  <2>9. ASSUME NEW a \in Asset, NEW extra \in Surplus,
               deleverToZeroBorrowBalance(a, extra)
        PROVE  AmountInv'
    <3>1. /\ debt' \in [Asset -> Nat] /\ interest' \in [Asset -> Nat]
          /\ \A b \in Asset : interest'[b] > 0 => debt'[b] > 0
      BY <2>9 DEF deleverToZeroBorrowBalance, accrue, AmountInv
    <3>2. defaultUnitWith(a, extra) \in Nat /\ held[a] + extra \in Nat
      BY <2>9, DefaultUnitType DEF deleverToZeroBorrowBalance
    <3>3. QED  BY <2>9, <3>1, <3>2 DEF deleverToZeroBorrowBalance, AmountInv
  <2>10. QED
    BY <1>3, <2>1, <2>2, <2>3, <2>4, <2>5, <2>6, <2>7, <2>8, <2>9 DEF LeverageStep
<1>4. CASE GovernanceStep /\ UNCHANGED <<supply, leverage>>
  BY <1>1, <1>4 DEF leverage, balances
<1>5. ASSUME NEW collateral \in SUBSET Asset, NEW borrows \in SUBSET Asset,
             initializeLeverage(collateral, borrows)
      PROVE  AmountInv'
  BY <1>1, <1>5 DEF initializeLeverage, balances
<1>6. CASE removeLeverage
  BY <1>6, SynchroniseKeepsAmounts DEF removeLeverage
<1>7. CASE registerToModule
  BY <1>1, <1>7 DEF registerToModule, leverage, balances
<1>8. QED  BY <1>2, <1>3, <1>4, <1>5, <1>6, <1>7 DEF Next

\* The invariant holds in every state.
THEOREM LeveragedInvariant == Spec => []IInv
<1>1. IInv /\ [Next]_vars => IInv'
  BY RegistrationPreserved, MarketPreserved, AmountPreserved DEF IInv
<1>2. QED  BY <1>1, InitEstablishes, PTL DEF Spec

-----------------------------------------------------------------------------

\* Balances, units and supply are natural numbers in every state: no
\* subtraction of a hook or a repayment goes below zero.
THEOREM TypeCorrect == Spec => []TypeOK
BY LeveragedInvariant, TypeFromInvariant, PTL

\* The list of hooks never disagrees with the mapping that registration and
\* unregistration look at.
THEOREM HooksMatchCorrect == Spec => []HooksMatchFlags
BY LeveragedInvariant, TypeFromInvariant, PTL

\* DebtIssuanceModule stays while a module is registered with it.
THEOREM HooksKeepCorrect == Spec => []HooksKeepIssuance
BY LeveragedInvariant, TypeFromInvariant, PTL

\* Every asset the module manages is in its market at Compound.
THEOREM EnteredCorrect == Spec => []EnabledAreEntered
BY LeveragedInvariant, TypeFromInvariant, PTL

\* Unregistration, tried on removal, fails for a disabled module only: the
\* issuance module is there, since the hook keeps it.
THEOREM RemovalCorrect == Spec => RemovalUnregisters
<1> DEFINE Unregisters ==
      moduleStates[CLM] = "INITIALIZED" /\ moduleStates'[CLM] = "NONE"
        /\ CLM \in enabled => CLM \notin ToSet(hooks')
<1>1. ASSUME IInv, IInv', [Next]_vars PROVE [Unregisters]_vars
  <2> SUFFICES ASSUME moduleStates[CLM] = "INITIALIZED", moduleStates'[CLM] = "NONE",
                      CLM \in enabled
               PROVE  CLM \notin ToSet(hooks')
    OBVIOUS
  <2>1. removeLeverage
    <3>1. ~(UNCHANGED vars)  BY DEF vars
    <3>2. ~(LeverageStep /\ UNCHANGED <<authority, registration>>)
      BY DEF authority
    <3>3. ~GovernanceStep
      BY <1>1 DEF GovernanceStep, initializeIssuance, removeIssuance,
           controllerRemoveSet, addModule, removePendingModule,
           controllerAddModule, controllerRemoveModule, IInv, RegistrationInv,
           IssuanceTypeOK, Modules, CLM, DIM
    <3>4. ASSUME NEW collateral \in SUBSET Asset, NEW borrows \in SUBSET Asset
          PROVE  ~initializeLeverage(collateral, borrows)
      BY DEF initializeLeverage
    <3>5. ~registerToModule  BY DEF registerToModule, authority
    <3>6. QED  BY <1>1, <3>1, <3>2, <3>3, <3>4, <3>5 DEF Next
  <2>2. HooksMatchFlags /\ HooksMatchFlags' /\ HooksKeepIssuance
    BY <1>1, TypeFromInvariant DEF IInv, RegistrationInv
  <2>3. CASE CLM \in isModuleHook
    <3>1. hooks # << >>  BY <2>2, <2>3 DEF HooksMatchFlags, ToSet
    <3>2. unregisterOk(CLM)
      BY <2>1, <2>2, <2>3, <3>1 DEF HooksKeepIssuance, removeLeverage, syncOk,
           isSetValidAndInitialized, onlyModule, unregisterOk
    <3>3. isModuleHook' = isModuleHook \ {CLM}
      BY <2>1, <3>2 DEF removeLeverage, unregisterFromIssuanceModule
    <3>4. QED  BY <2>2, <3>3 DEF HooksMatchFlags
  <2>4. CASE CLM \notin isModuleHook
    <3>1. ~unregisterOk(CLM)  BY <2>4 DEF unregisterOk
    <3>2. isModuleHook' = isModuleHook
      BY <2>1, <3>1 DEF removeLeverage, registration
    <3>3. QED  BY <2>2, <2>4, <3>2 DEF HooksMatchFlags
  <2>5. QED  BY <2>3, <2>4
<1>2. QED
  BY <1>1, LeveragedInvariant, PTL DEF Spec, RemovalUnregisters

\* A market that may be exited owes nothing, before and after it accrues.
LEMMA ExitedOwesNothing ==
  ASSUME AmountInv, NEW a \in Asset, debt[a] = 0
  PROVE  /\ owed(a) = 0
         /\ \A S : debt' = accrued(S) /\ accrue(S) => owed(a)' = 0
         /\ UNCHANGED balances => owed(a)' = 0
BY DEF AmountInv, owed, accrued, accrue, balances

\* No step gives up a market in which something is owed.
THEOREM NeverDroppedCorrect == Spec => DebtIsNeverDropped
<1> DEFINE Dropped(a) == managed(a) /\ ~managed(a)' => owed(a)' = 0
<1>1. ASSUME IInv, [Next]_vars PROVE [\A a \in Asset : Dropped(a)]_vars
  <2> SUFFICES ASSUME NEW a \in Asset, managed(a), ~managed(a)', Next
               PROVE  owed(a)' = 0
    BY <1>1 DEF vars, managed
  <2>1. CASE UNCHANGED <<moduleStates, collateralEnabled, borrowEnabled>>
    BY <2>1 DEF managed
  <2>2. CASE LeverageStep /\ UNCHANGED <<authority, registration>>
    <3>1. UNCHANGED moduleStates  BY <2>2 DEF authority
    <3>2. CASE \/ \E accrues \in BOOLEAN : sync(accrues)
               \/ \E q \in Quantity : issue(q) \/ redeem(q)
      BY <2>1, <3>1, <3>2 DEF sync, issue, redeem
    <3>3. ASSUME NEW b \in Asset,
                 \/ fallDue(b) \/ accrueInterest(b) \/ liquidate(b)
                 \/ \E q \in Borrowed : lever(b, q) \/ delever(b, q)
                 \/ \E extra \in Surplus : deleverToZeroBorrowBalance(b, extra)
          PROVE  owed(a)' = 0
      BY <2>1, <3>1, <3>3
         DEF fallDue, accrueInterest, liquidate, lever, delever,
             deleverToZeroBorrowBalance
    <3>4. ASSUME NEW b \in Asset, addCollateralAsset(b) \/ addBorrowAsset(b)
          PROVE  owed(a)' = 0
      BY <3>1, <3>4 DEF addCollateralAsset, addBorrowAsset, managed
    <3>5. ASSUME NEW b \in Asset, removeCollateralAsset(b) \/ removeBorrowAsset(b)
          PROVE  owed(a)' = 0
      <4>1. debt[a] = 0
        BY <3>1, <3>5 DEF removeCollateralAsset, removeBorrowAsset, exitOk, managed
      <4>2. synchronise(TRUE)  BY <3>5 DEF removeCollateralAsset, removeBorrowAsset
      <4>3. QED  BY <1>1, <4>1, <4>2, ExitedOwesNothing DEF IInv, synchronise
    <3>6. QED  BY <2>2, <3>2, <3>3, <3>4, <3>5 DEF LeverageStep
  <2>3. CASE GovernanceStep /\ UNCHANGED <<supply, leverage>>
    <3>1. UNCHANGED <<collateralEnabled, borrowEnabled>>  BY <2>3 DEF leverage
    <3>2. moduleStates'[CLM] = "INITIALIZED" <=> moduleStates[CLM] = "INITIALIZED"
      BY <1>1, <2>3 DEF GovernanceStep, initializeIssuance, removeIssuance,
           controllerRemoveSet, addModule, removePendingModule,
           controllerAddModule, controllerRemoveModule, IInv, RegistrationInv,
           IssuanceTypeOK, Modules, CLM, DIM
    <3>3. QED  BY <3>1, <3>2 DEF managed
  <2>4. ASSUME NEW collateral \in SUBSET Asset, NEW borrows \in SUBSET Asset,
               initializeLeverage(collateral, borrows)
        PROVE  owed(a)' = 0
    BY <2>4 DEF initializeLeverage, managed
  <2>5. CASE removeLeverage
    <3>1. debt[a] = 0 /\ synchronise(TRUE)
      BY <2>5 DEF removeLeverage, exitOk, marketsToExit, managed
    <3>2. QED  BY <1>1, <3>1, ExitedOwesNothing DEF IInv, synchronise
  <2>6. CASE registerToModule
    BY <2>1, <2>6 DEF registerToModule, authority, leverage
  <2>7. QED  BY <2>2, <2>3, <2>4, <2>5, <2>6 DEF Next
<1>2. QED
  BY <1>1, LeveragedInvariant, PTL DEF Spec, DebtIsNeverDropped

-----------------------------------------------------------------------------

\* Issuance adds no more debt than the positions of the new SetTokens show, i
\* being the interest that was due.
LEMMA IssuedCovered ==
  ASSUME NEW P \in Nat, NEW d \in Nat, NEW i \in Nat, NEW u \in Nat, NEW s \in Nat,
         NEW q \in Nat, NEW x \in Nat,
         d * P <= u * s, x * P <= u * q
  PROVE  (d + i + x) * P - u * (s + q) <= i * P
<1>1. /\ (d + i + x) * P = d * P + i * P + x * P
      /\ u * (s + q) = u * s + u * q
  OBVIOUS
<1>2. d * P \in Nat /\ i * P \in Nat /\ x * P \in Nat /\ u * s \in Nat /\ u * q \in Nat
  OBVIOUS
<1>3. QED  BY <1>1, <1>2

\* Redemption repays no less debt than the positions of the burned ones show.
LEMMA RedeemedCovered ==
  ASSUME NEW P \in Nat, NEW d \in Nat, NEW u \in Nat, NEW s \in Nat,
         NEW q \in Nat, NEW x \in Nat,
         d * P <= u * s, x * P >= u * q
  PROVE  (d - x) * P - u * (s - q) <= 0
<1>1. (d - x) * P = d * P - x * P /\ u * (s - q) = u * s - u * q  OBVIOUS
<1>2. d * P \in Nat /\ x * P \in Nat /\ u * s \in Nat /\ u * q \in Nat  OBVIOUS
<1>3. QED  BY <1>1, <1>2

\* Only issuance and redemption change the supply.
LEMMA SupplyChanges ==
  ASSUME [Next]_vars, supply' # supply
  PROVE  \E q \in Quantity : issue(q) \/ redeem(q)
<1>1. ~(UNCHANGED vars) /\ ~(GovernanceStep /\ UNCHANGED <<supply, leverage>>)
  BY DEF vars
<1>2. /\ ~removeLeverage /\ ~registerToModule
      /\ \A collateral, borrows \in SUBSET Asset :
           ~initializeLeverage(collateral, borrows)
  BY DEF removeLeverage, registerToModule, initializeLeverage
<1>3. LeverageStep  BY <1>1, <1>2 DEF Next
<1>4. QED
  BY <1>3 DEF LeverageStep, sync, fallDue, accrueInterest, liquidate, lever, delever,
     deleverToZeroBorrowBalance, addCollateralAsset, removeCollateralAsset, addBorrowAsset, removeBorrowAsset

\* With the hook registered, redemption leaves nothing owed that the positions
\* do not show, at any rounding.
THEOREM RedemptionSyncedCorrect == Spec => RedemptionIsSynced
<1> DEFINE Synced ==
      supply' < supply /\ CLM \in ToSet(hooks) =>
        \A a \in borrowEnabled : understated(a)' <= 0
<1>1. ASSUME IInv, [Next]_vars PROVE [Synced]_vars
  <2> SUFFICES ASSUME supply' < supply, CLM \in ToSet(hooks), NEW a \in borrowEnabled
               PROVE  owed(a)' * PRECISE_UNIT - debtUnit'[a] * supply' <= 0
    BY DEF understated
  <2> DEFINE u == unitsAfterHooks(RedeemAccrues)[a]
  <2>1. AmountInv /\ a \in Asset /\ supply \in Nat
    BY <1>1 DEF IInv, MarketInv, AmountInv
  <2>2. hooks # << >>  BY DEF ToSet
  <2>3. PICK q \in Quantity : redeem(q)
    <3>1. supply' # supply  BY <1>1, <2>1
    <3>2. PICK q \in Quantity : issue(q) \/ redeem(q)  BY <1>1, <3>1, SupplyChanges
    <3>3. ~issue(q)  BY <2>1, LeveragedSetAssumption DEF issue
    <3>4. QED  BY <3>2, <3>3
  <2>4. q \in Nat \ {0} /\ q <= supply  BY <2>3, LeveragedSetAssumption DEF redeem
  <2>5. visited(TRUE) = borrowEnabled  BY <2>1, <2>4 DEF visited
  <2>6. a \in redeemVisits(q)  BY <2>2, <2>5 DEF redeemVisits, RedeemAccrues
  <2>7. accrued(redeemVisits(q))[a] = owed(a) /\ owed(a) \in Nat
    BY <2>1, <2>6, AccruedType DEF owed, AmountInv
  <2>8. owed(a) * PRECISE_UNIT <= u * supply
    <3>1. accrued(visited(TRUE))[a] = owed(a)  BY <2>1, <2>5, AccruedType
    <3>2. u = synced(TRUE)[a]  BY <2>2 DEF unitsAfterHooks, RedeemAccrues
    <3>3. accrued(visited(TRUE))[a] * PRECISE_UNIT <= synced(TRUE)[a] * supply
      <4>1. supply > 0 /\ a \in borrowEnabled \cap Asset /\ AmountInv  BY <2>1, <2>4
      <4>2. TRUE \in BOOLEAN  OBVIOUS
      <4> HIDE DEF u
      <4>3. QED  BY <4>1, <4>2, SyncedCovers
    <3>4. QED  BY <3>1, <3>2, <3>3
  <2>9. /\ repaid(q)[a] \in Nat /\ repaid(q)[a] * PRECISE_UNIT >= u * q
    <3> DEFINE d == redeemedDebt(q)[a]
               second == redeemedAgain(q)[a]
    <3>1. /\ d \in Nat /\ d * PRECISE_UNIT >= u * q
          /\ second \in Nat /\ repaid(q)[a] = d + second
      BY <2>1, RedeemedDebtType, EquityTypes DEF repaid
    <3>2. u \in Nat /\ PRECISE_UNIT \in Nat
      BY <2>1, AfterHooksType, PreciseUnitAssumption DEF RedeemAccrues
    <3> HIDE DEF d, second, u
    <3>3. (d + second) * PRECISE_UNIT >= d * PRECISE_UNIT  BY <3>1, <3>2
    <3>4. /\ (d + second) * PRECISE_UNIT \in Nat /\ d * PRECISE_UNIT \in Nat
          /\ u * q \in Nat
      BY <2>4, <3>1, <3>2
    <3>5. QED  BY <3>1, <3>3, <3>4
  <2>10. /\ debtUnit'[a] = u /\ supply' = supply - q
         /\ owed(a)' = owed(a) - repaid(q)[a]
    BY <2>1, <2>3, <2>6, <2>7, <2>9 DEF redeem, accrue, owed
  <2>11. u \in Nat /\ PRECISE_UNIT \in Nat
    BY <2>1, AfterHooksType, PreciseUnitAssumption DEF RedeemAccrues
  <2> HIDE DEF u
  <2>12. QED
    BY <2>1, <2>4, <2>7, <2>8, <2>9, <2>10, <2>11, RedeemedCovered
<1>2. QED
  BY <1>1, LeveragedInvariant, PTL DEF Spec, RedemptionIsSynced

\* With the hook registered, what the positions of an asset without a default
\* position do not show after issuance is at most the interest that was due and
\* not accrued.
THEOREM IssuanceMissesCorrect == Spec => IssuanceMissesOnlyInterest
<1> DEFINE Bounded ==
      supply' > supply /\ supply > 0 /\ CLM \in ToSet(hooks) =>
        \A a \in borrowEnabled : defaultUnit[a] = 0 =>
          understated(a)' <= interest[a] * PRECISE_UNIT
<1>1. ASSUME IInv, [Next]_vars PROVE [Bounded]_vars
  <2> SUFFICES ASSUME supply' > supply, supply > 0, CLM \in ToSet(hooks),
                      NEW a \in borrowEnabled, defaultUnit[a] = 0
               PROVE  owed(a)' * PRECISE_UNIT - debtUnit'[a] * supply'
                        <= interest[a] * PRECISE_UNIT
    BY DEF understated
  <2> DEFINE u == unitsAfterHooks(IssueAccrues)[a]
  <2>1. AmountInv /\ a \in Asset /\ supply \in Nat
        /\ debt[a] \in Nat /\ interest[a] \in Nat
    BY <1>1 DEF IInv, MarketInv, AmountInv
  <2>2. hooks # << >>  BY DEF ToSet
  <2>3. PICK q \in Quantity : issue(q)
    <3>1. supply' # supply  BY <1>1, <2>1
    <3>2. PICK q \in Quantity : issue(q) \/ redeem(q)  BY <1>1, <3>1, SupplyChanges
    <3>3. ~redeem(q)  BY <2>1, LeveragedSetAssumption DEF redeem
    <3>4. QED  BY <3>2, <3>3
  <2>4. q \in Nat  BY LeveragedSetAssumption
  <2>5. debt[a] * PRECISE_UNIT <= u * supply
    <3>1. accrued(visited(FALSE))[a] = debt[a]  BY <2>1 DEF visited, accrued
    <3>2. u = synced(FALSE)[a]  BY <2>2 DEF unitsAfterHooks, IssueAccrues
    <3>3. QED  BY <2>1, <3>1, <3>2, SyncedCovers
  <2>6. /\ issuedDebt(q)[a] \in Nat
        /\ issuedDebt(q)[a] * PRECISE_UNIT <= u * q
    BY <2>1, IssuedDebtType
  <2>7. /\ debtUnit'[a] = u /\ supply' = supply + q
        /\ owed(a)' = debt[a] + interest[a] + issuedDebt(q)[a]
    <3>1. issuedEquity(q)[a] = 0
      BY <2>1, PreciseUnitAssumption DEF issuedEquity, preciseMulCeil
    <3>2. a \notin equityHooked(IssueAccrues, issuedEquity(q))
      BY <3>1 DEF equityHooked, nonZero
    <3>3. borrowed(q)[a] = issuedDebt(q)[a]
      BY <2>1, <2>6, <3>2 DEF borrowed, issuedAgain, again
    <3>4. a \in issueVisits(q) <=> issuedDebt(q)[a] > 0
      BY <2>1, <3>2 DEF issueVisits, nonZero
    <3>5. /\ debt'[a] = accrued(issueVisits(q))[a] + issuedDebt(q)[a]
          /\ interest'[a] = IF a \in issueVisits(q) THEN 0 ELSE interest[a]
      BY <2>1, <2>3, <3>3 DEF issue, borrow, accrue
    <3>6. owed(a)' = debt[a] + interest[a] + issuedDebt(q)[a]
      BY <2>1, <2>6, <3>5 DEF owed, accrued
    <3>7. QED  BY <2>1, <2>3, <3>6 DEF issue
  <2>8. u \in Nat /\ PRECISE_UNIT \in Nat
    BY <2>1, AfterHooksType, PreciseUnitAssumption DEF IssueAccrues
  <2> HIDE DEF u
  <2>9. QED
    BY <2>1, <2>4, <2>5, <2>6, <2>7, <2>8, IssuedCovered
<1>2. QED
  BY <1>1, LeveragedInvariant, PTL DEF Spec, IssuanceMissesOnlyInterest
==============================================================================
