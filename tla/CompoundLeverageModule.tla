----------------------- MODULE CompoundLeverageModule ------------------------
(***************************************************************************)
(* contracts/protocol/modules/CompoundLeverageModule.sol on one SetToken:  *)
(* which assets it has enabled, its external positions, and the account of *)
(* the SetToken at Compound.  An asset stands for its cToken as well.  The *)
(* amounts of collateral are left out: Compound may refuse any borrow, and *)
(* any exit that would leave too little behind a debt.  An asset may have  *)
(* a default position too, as a component of the SetToken or as what       *)
(* deleverToZeroBorrowBalance leaves; trades take what they are given.     *)
(***************************************************************************)
EXTENDS DebtIssuanceModule

CONSTANTS
  Asset,
  Defaulted,       \* bound: assets that may have default positions
  ComponentUnits,  \* their units at creation, zero for one left out
  MaxDebt,         \* bound: borrow balance of one asset with the interest due
  MaxHeld,         \* bound: tokens of one asset in the SetToken
  Surplus          \* bound: what a trade brings beyond the borrow balance

ASSUME CompoundAssumption ==
  /\ ComponentUnits \subseteq Nat /\ Surplus \subseteq Nat
  /\ 0 \in ComponentUnits /\ Defaulted \subseteq Asset
  /\ MaxDebt \in Nat /\ MaxHeld \in Nat

VARIABLES
  supply,             \* total supply of the SetToken
  collateralEnabled,  \* enabledAssets.collateralCTokens and its mapping
  borrowEnabled,      \* enabledAssets.borrowCTokens, borrowAssets, mapping
  debtUnit,           \* external positions of CLM; -debtUnit is the real unit
  entered,            \* Comptroller: markets the SetToken is in
  debt,               \* cToken.borrowBalanceStored of the SetToken
  interest,           \* due since the market last accrued: borrowBalanceCurrent
                      \* is debt + interest
  defaultUnit,        \* default position units of the assets themselves
  held                \* their balanceOf the SetToken

balances == <<debt, interest>>
custody == <<defaultUnit, held>>
leverage == <<collateralEnabled, borrowEnabled, debtUnit, entered, balances,
              custody>>

LeverageTypeOK ==
  /\ supply \in Nat
  /\ collateralEnabled \in SUBSET Asset /\ borrowEnabled \in SUBSET Asset
  /\ entered \in SUBSET Asset
  /\ debt \in [Asset -> Nat] /\ interest \in [Asset -> Nat]
  /\ debtUnit \in [Asset -> Nat]
  /\ defaultUnit \in [Asset -> Nat] /\ held \in [Asset -> Nat]

LeverageInit ==
  /\ supply = 0
  /\ collateralEnabled = {} /\ borrowEnabled = {} /\ entered = {}
  /\ debt = [a \in Asset |-> 0] /\ interest = [a \in Asset |-> 0]
  /\ debtUnit = [a \in Asset |-> 0]
  /\ defaultUnit \in [Asset -> ComponentUnits]
  /\ \A a \in Asset \ Defaulted : defaultUnit[a] = 0
  /\ held = [a \in Asset |-> 0]

-----------------------------------------------------------------------------
(* Compound, as the module meets it. *)

\* The balances after the markets in S have accrued.
accrued(S) == [a \in Asset |-> IF a \in S THEN debt[a] + interest[a] ELSE debt[a]]
accrue(S) == interest' = [a \in Asset |-> IF a \in S THEN 0 ELSE interest[a]]

\* Whether the collateral suffices is not modelled: Compound may refuse any
\* borrow, which the action not taken stands for.  A borrow, of nothing too,
\* accrues its market first.
borrowOk(borrowed, markets) ==
  \A a \in Asset : accrued(markets)[a] + borrowed[a] <= MaxDebt

\* A borrow enters its own market when the account is not in it.
borrow(borrowed, markets) ==
  /\ debt' = [a \in Asset |-> accrued(markets)[a] + borrowed[a]]
  /\ accrue(markets)
  /\ entered' = entered \cup markets

\* A market with a borrow balance is never exited; another one may be refused.
exitOk(S) == \A a \in S : debt[a] = 0

\* Time passes: interest is due on what is owed.
fallDue(a) ==
  /\ debt[a] > 0 /\ debt[a] + interest[a] < MaxDebt
  /\ interest' = [interest EXCEPT ![a] = @ + 1]
  /\ UNCHANGED <<supply, collateralEnabled, borrowEnabled, debtUnit, entered, debt,
                  custody>>

\* Any transaction of anybody in the market accrues it.
accrueInterest(a) ==
  /\ debt' = accrued({a}) /\ accrue({a})
  /\ UNCHANGED <<supply, collateralEnabled, borrowEnabled, debtUnit, entered, custody>>

\* Somebody else repays: a liquidator, or repayBorrowBehalf.
liquidate(a) ==
  /\ debt[a] > 0
  /\ debt' = [accrued({a}) EXCEPT ![a] = @ - 1] /\ accrue({a})
  /\ UNCHANGED <<supply, collateralEnabled, borrowEnabled, debtUnit, entered, custody>>

-----------------------------------------------------------------------------

\* Mutant of borrowPosition: rounded towards zero.
borrowPositionTruncated(notional) == preciseDiv(notional, supply)

\* _getBorrowPosition: rounded away from zero.
borrowPosition(notional) == preciseDivCeil(notional, supply)

\* The markets a sync accrues; it leaves everything when the supply is zero.
visited(_shouldAccrueInterest) ==
  IF _shouldAccrueInterest /\ supply > 0 THEN borrowEnabled ELSE {}

\* The positions after sync, by borrowBalanceCurrent or borrowBalanceStored.
synced(_shouldAccrueInterest) ==
  IF supply > 0
  THEN [a \in Asset |->
          IF a \in borrowEnabled
          THEN borrowPosition(accrued(visited(_shouldAccrueInterest))[a])
          ELSE debtUnit[a]]
  ELSE debtUnit

syncOk(_shouldAccrueInterest) ==
  /\ isSetValidAndInitialized(CLM)
  /\ synced(_shouldAccrueInterest) # debtUnit => CLM \in enabled

\* What sync assigns.
synchronise(_shouldAccrueInterest) ==
  /\ debtUnit' = synced(_shouldAccrueInterest)
  /\ debt' = accrued(visited(_shouldAccrueInterest))
  /\ accrue(visited(_shouldAccrueInterest))

sync(_shouldAccrueInterest) ==
  /\ syncOk(_shouldAccrueInterest)
  /\ synchronise(_shouldAccrueInterest)
  /\ UNCHANGED <<supply, collateralEnabled, borrowEnabled, entered, custody>>

\* lever, for the debt it takes on: all that is borrowed is traded, and the
\* collateral minted is a default position of its cToken.
lever(a, q) ==
  /\ isSetValidAndInitialized(CLM) /\ CLM \in enabled
  /\ supply > 0
  /\ a \in borrowEnabled /\ \E c \in collateralEnabled : c # a
  /\ borrowOk([b \in Asset |-> IF b = a THEN q ELSE 0], {a})
  /\ borrow([b \in Asset |-> IF b = a THEN q ELSE 0], {a})
  /\ debtUnit' = [debtUnit EXCEPT ![a] = borrowPosition(debt'[a])]
  /\ UNCHANGED <<supply, collateralEnabled, borrowEnabled, custody>>

\* delever: all that the trade brings is repaid.
delever(a, q) ==
  /\ isSetValidAndInitialized(CLM) /\ CLM \in enabled
  /\ supply > 0
  /\ a \in borrowEnabled /\ \E c \in collateralEnabled : c # a
  /\ q <= debt[a] + interest[a]
  /\ debt' = [accrued({a}) EXCEPT ![a] = @ - q] /\ accrue({a})
  /\ debtUnit' = [debtUnit EXCEPT ![a] = borrowPosition(debt'[a])]
  /\ UNCHANGED <<supply, collateralEnabled, borrowEnabled, entered, custody>>

\* What the default position of a accounts for, and its unit after the SetToken
\* received extra: tokens outside any position stay outside.
tracked(a) == preciseMul(supply, defaultUnit[a])
defaultUnitWith(a, extra) ==
  IF held[a] + extra > 0 THEN preciseDiv(tracked(a) + extra, supply) ELSE 0

\* The whole balance is repaid and the rest of the trade kept as equity.
deleverToZeroBorrowBalance(a, extra) ==
  /\ isSetValidAndInitialized(CLM) /\ CLM \in enabled
  /\ supply > 0
  /\ a \in borrowEnabled /\ \E c \in collateralEnabled : c # a
  /\ held[a] + extra <= IF a \in Defaulted THEN MaxHeld ELSE 0
  /\ held[a] + extra > 0 => tracked(a) <= held[a]
  /\ debt' = [debt EXCEPT ![a] = 0] /\ accrue({a})
  /\ debtUnit' = [debtUnit EXCEPT ![a] = 0]
  /\ held' = [held EXCEPT ![a] = @ + extra]
  /\ defaultUnit' = [defaultUnit EXCEPT ![a] = defaultUnitWith(a, extra)]
  /\ UNCHANGED <<supply, collateralEnabled, borrowEnabled, entered>>

\* Registration is attempted and its failure ignored.
initializeLeverage(collateral, borrows) ==
  /\ isSet /\ moduleStates[CLM] = "PENDING"
  /\ moduleStates[DIM] = "INITIALIZED"
  /\ moduleStates' = [moduleStates EXCEPT ![CLM] = "INITIALIZED"]
  /\ IF registerOk(CLM, moduleStates')
     THEN registerToIssuanceModule(CLM)
     ELSE UNCHANGED registration
  /\ collateral \cap collateralEnabled = {} /\ borrows \cap borrowEnabled = {}
  /\ collateral \cup borrows # {} => CLM \in enabled
  /\ collateralEnabled' = collateralEnabled \cup collateral
  /\ borrowEnabled' = borrowEnabled \cup borrows
  /\ entered' = entered \cup collateral \cup borrows
  /\ UNCHANGED <<enabled, isSet, supply, debtUnit, balances, custody>>

\* Mutant of marketsToExit: an asset used both ways is not exited.
collateralOnly == collateralEnabled \ borrowEnabled

\* Each market once, whether it is enabled as collateral, for borrowing or both.
marketsToExit == borrowEnabled \cup collateralEnabled

\* Positions are synced, every market is exited, the settings are deleted and
\* unregistration is attempted.
removeLeverage ==
  /\ moduleStates[CLM] = "INITIALIZED"
  /\ syncOk(TRUE)
  /\ marketsToExit # {} => CLM \in enabled
  /\ exitOk(marketsToExit)
  /\ synchronise(TRUE)
  /\ entered' = entered \ marketsToExit
  /\ collateralEnabled' = {} /\ borrowEnabled' = {}
  /\ IF unregisterOk(CLM)
     THEN unregisterFromIssuanceModule(CLM)
     ELSE UNCHANGED registration
  /\ moduleStates' = [moduleStates EXCEPT ![CLM] = "NONE"]
  /\ UNCHANGED <<enabled, isSet, supply, custody>>

registerToModule ==
  /\ isSetValidAndInitialized(CLM)
  /\ registerOk(CLM, moduleStates)
  /\ registerToIssuanceModule(CLM)
  /\ UNCHANGED <<authority, supply, leverage>>

addCollateralAsset(a) ==
  /\ isSetValidAndInitialized(CLM)
  /\ a \notin collateralEnabled
  /\ a \notin borrowEnabled => CLM \in enabled
  /\ collateralEnabled' = collateralEnabled \cup {a}
  /\ entered' = IF a \in borrowEnabled THEN entered ELSE entered \cup {a}
  /\ UNCHANGED <<supply, borrowEnabled, debtUnit, balances, custody>>

removeCollateralAsset(a) ==
  /\ syncOk(TRUE)
  /\ a \in collateralEnabled
  /\ a \notin borrowEnabled => CLM \in enabled /\ exitOk({a})
  /\ synchronise(TRUE)
  /\ collateralEnabled' = collateralEnabled \ {a}
  /\ entered' = IF a \in borrowEnabled THEN entered ELSE entered \ {a}
  /\ UNCHANGED <<supply, borrowEnabled, custody>>

addBorrowAsset(a) ==
  /\ isSetValidAndInitialized(CLM)
  /\ a \notin borrowEnabled
  /\ a \notin collateralEnabled => CLM \in enabled
  /\ borrowEnabled' = borrowEnabled \cup {a}
  /\ entered' = IF a \in collateralEnabled THEN entered ELSE entered \cup {a}
  /\ UNCHANGED <<supply, collateralEnabled, debtUnit, balances, custody>>

\* Mutant of removeBorrowAsset: the market is exited although it is collateral.
removeBorrowAndExit(a) ==
  /\ syncOk(TRUE)
  /\ a \in borrowEnabled
  /\ CLM \in enabled /\ exitOk({a})
  /\ synchronise(TRUE)
  /\ borrowEnabled' = borrowEnabled \ {a}
  /\ entered' = entered \ {a}
  /\ UNCHANGED <<supply, collateralEnabled, custody>>

\* The market is exited, and its debt looked at, unless it is also collateral.
removeBorrowAsset(a) ==
  /\ syncOk(TRUE)
  /\ a \in borrowEnabled
  /\ a \notin collateralEnabled => CLM \in enabled /\ exitOk({a})
  /\ synchronise(TRUE)
  /\ borrowEnabled' = borrowEnabled \ {a}
  /\ entered' = IF a \in collateralEnabled THEN entered ELSE entered \ {a}
  /\ UNCHANGED <<supply, collateralEnabled, custody>>
==============================================================================
