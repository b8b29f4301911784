---------------------------- MODULE LeveragedSet -----------------------------
(***************************************************************************)
(* A SetToken that DebtIssuanceModule issues and CompoundLeverageModule    *)
(* leverages: the two modules call each other on issuance, redemption,     *)
(* initialisation and removal, while the Controller's owner may disable    *)
(* either at any moment.  Issuance fees are left out; the manager's hook   *)
(* changes nothing here.                                                   *)
(***************************************************************************)
EXTENDS CompoundLeverageModule

CONSTANTS
  Quantity,     \* bound: SetTokens issued or redeemed at once
  Borrowed,     \* bound: notional borrowed or repaid at once
  MaxSupply     \* bound: total supply

ASSUME LeveragedSetAssumption ==
  /\ Quantity \subseteq Nat \ {0} /\ Borrowed \subseteq Nat \ {0}
  /\ MaxSupply \in Nat

vars == <<moduleStates, enabled, isSet, hooks, isModuleHook, supply,
          collateralEnabled, borrowEnabled, debtUnit, entered, debt, interest,
          defaultUnit, held>>

\* The module hooks, the enabled assets and the account at Compound keep their types:
\* no balance, supply or unit is ever negative.
TypeOK == IssuanceTypeOK /\ LeverageTypeOK

Init == IssuanceInit /\ LeverageInit

\* Mutant of RedeemAccrues: the hooks are alike.
RedeemAccruesNothing == FALSE

\* moduleIssueHook syncs with stored balances, moduleRedeemHook with current ones.
IssueAccrues == FALSE
RedeemAccrues == TRUE

\* _callModulePreIssueHooks and _callModulePreRedeemHooks: DIM calls each hook.
hooksOk(accrues) == \A m \in ToSet(hooks) : onlyModule(DIM) /\ syncOk(accrues)

unitsAfterHooks(accrues) == IF hooks = << >> THEN debtUnit ELSE synced(accrues)

\* What the caller receives for the debt taken on, and brings of each asset that
\* is a default position: debt is rounded down, equity up.
nonZero(amount) == {a \in Asset : amount[a] > 0}
issuedDebt(quantity) ==
  [a \in Asset |-> preciseMul(unitsAfterHooks(IssueAccrues)[a], quantity)]
issuedEquity(quantity) ==
  [a \in Asset |-> preciseMulCeil(defaultUnit[a], quantity)]

\* What the caller must bring to repay, and receives of default positions.
redeemedDebt(quantity) ==
  [a \in Asset |-> preciseMulCeil(unitsAfterHooks(RedeemAccrues)[a], quantity)]
redeemedEquity(quantity) ==
  [a \in Asset |-> preciseMul(defaultUnit[a], quantity)]

\* _executeExternalPositionHooks calls CLM on every component it has a position
\* in, for equity as for debt, and CLM looks at no _isEquity: where there is
\* equity to resolve too the debt is borrowed or repaid another time.
equityHooked(accrues, equity) ==
  {a \in nonZero(equity) : unitsAfterHooks(accrues)[a] > 0}
again(debts, S) == [a \in Asset |-> IF a \in S THEN debts[a] ELSE 0]
issuedAgain(quantity) ==
  again(issuedDebt(quantity), equityHooked(IssueAccrues, issuedEquity(quantity)))
redeemedAgain(quantity) ==
  again(redeemedDebt(quantity), equityHooked(RedeemAccrues, redeemedEquity(quantity)))

\* All that an issuance borrows and a redemption repays.
borrowed(quantity) ==
  [a \in Asset |-> issuedDebt(quantity)[a] + issuedAgain(quantity)[a]]
repaid(quantity) ==
  [a \in Asset |-> redeemedDebt(quantity)[a] + redeemedAgain(quantity)[a]]

\* The markets the component hooks borrow from, and those that have accrued when
\* the debt is repaid: by sync or repayment.
issueVisits(quantity) ==
  nonZero(issuedDebt(quantity))
    \cup equityHooked(IssueAccrues, issuedEquity(quantity))
redeemVisits(quantity) ==
  nonZero(redeemedDebt(quantity))
    \cup (IF hooks = << >> THEN {} ELSE visited(RedeemAccrues))

\* The component hooks borrow and repay through CLM's right to invoke.
componentHooksOk(markets) == markets # {} => onlyModule(DIM) /\ onlyModule(CLM)

\* Equity is brought first and its hooks borrow; then the debt is borrowed and
\* handed to the caller, who gets nothing of what the first hooks borrowed.
issue(quantity) ==
  /\ isSetValidAndInitialized(DIM) /\ onlyModule(DIM)
  /\ supply + quantity <= MaxSupply
  /\ hooksOk(IssueAccrues)
  /\ componentHooksOk(issueVisits(quantity))
  /\ borrowOk(borrowed(quantity), issueVisits(quantity))
  /\ borrow(borrowed(quantity), issueVisits(quantity))
  /\ held' = [a \in Asset |->
                held[a] + issuedEquity(quantity)[a] + issuedAgain(quantity)[a]]
  /\ \A a \in Asset : held'[a] <= MaxHeld
  /\ debtUnit' = unitsAfterHooks(IssueAccrues)
  /\ supply' = supply + quantity
  /\ UNCHANGED <<collateralEnabled, borrowEnabled, defaultUnit>>

\* Compound refuses a repayment above the borrow balance.
repayOk(quantity) ==
  \A a \in Asset : repaid(quantity)[a] <= accrued(redeemVisits(quantity))[a]

\* What a redemption takes from the SetToken: the equity, and what the hooks of
\* equity repay, for which the caller has brought nothing.
taken(quantity) ==
  [a \in Asset |-> redeemedEquity(quantity)[a] + redeemedAgain(quantity)[a]]

redeem(quantity) ==
  /\ isSetValidAndInitialized(DIM) /\ onlyModule(DIM)
  /\ quantity <= supply
  /\ hooksOk(RedeemAccrues)
  /\ componentHooksOk(nonZero(redeemedDebt(quantity)))
  /\ repayOk(quantity)
  /\ \A a \in Asset : taken(quantity)[a] <= held[a]
  /\ debt' = [a \in Asset |-> accrued(redeemVisits(quantity))[a] - repaid(quantity)[a]]
  /\ accrue(redeemVisits(quantity))
  /\ held' = [a \in Asset |-> held[a] - taken(quantity)[a]]
  /\ debtUnit' = unitsAfterHooks(RedeemAccrues)
  /\ supply' = supply - quantity
  /\ UNCHANGED <<collateralEnabled, borrowEnabled, entered, defaultUnit>>

LeverageStep ==
  \/ \E accrues \in BOOLEAN : sync(accrues)
  \/ \E q \in Quantity : issue(q) \/ redeem(q)
  \/ \E a \in Asset :
       \/ fallDue(a) \/ accrueInterest(a) \/ liquidate(a)
       \/ \E q \in Borrowed : lever(a, q) \/ delever(a, q)
       \/ \E extra \in Surplus : deleverToZeroBorrowBalance(a, extra)
       \/ addCollateralAsset(a) \/ removeCollateralAsset(a)
       \/ addBorrowAsset(a) \/ removeBorrowAsset(a)

GovernanceStep ==
  \/ initializeIssuance \/ removeIssuance \/ controllerRemoveSet
  \/ \E m \in Modules : \/ addModule(m) \/ removePendingModule(m)
                        \/ controllerAddModule(m) \/ controllerRemoveModule(m)

Next ==
  \/ LeverageStep /\ UNCHANGED <<authority, registration>>
  \/ GovernanceStep /\ UNCHANGED <<supply, leverage>>
  \/ \E collateral, borrows \in SUBSET Asset :
       initializeLeverage(collateral, borrows)
  \/ removeLeverage
  \/ registerToModule

Spec == Init /\ [][Next]_vars

-----------------------------------------------------------------------------

\* borrowBalanceCurrent of a.
owed(a) == debt[a] + interest[a]

\* How much of what is owed of a the external position does not show, in units
\* of 1/PRECISE_UNIT.
understated(a) == owed(a) * PRECISE_UNIT - debtUnit[a] * supply

\* The list of hooks and the mapping beside it agree, although deleting the
\* settings of a SetToken clears only the list.
HooksMatchFlags == IsInjective(hooks) /\ ToSet(hooks) = isModuleHook

\* While a module is registered the issuance module cannot leave: the hooks
\* are the settings of a module that is still there to run them.
HooksKeepIssuance == hooks # << >> => moduleStates[DIM] = "INITIALIZED"

\* Removing CompoundLeverageModule takes its hook away, so that issuance does
\* not call a module that refuses; only a module the Controller has disabled
\* cannot unregister.
RemovalUnregisters ==
  [][moduleStates[CLM] = "INITIALIZED" /\ moduleStates'[CLM] = "NONE"
       /\ CLM \in enabled => CLM \notin ToSet(hooks')]_vars

\* The module manages the market of a.
managed(a) ==
  moduleStates[CLM] = "INITIALIZED" /\ a \in collateralEnabled \cup borrowEnabled

\* Compound counts what the module has enabled: no sequence of enabling and
\* disabling an asset as collateral, for borrowing or both exits its market.
EnabledAreEntered == \A a \in Asset : managed(a) => a \in entered

\* A market with a borrow balance is never given up, by removing an asset from
\* one list or the other nor by removing the module with all of them.
DebtIsNeverDropped ==
  [][\A a \in Asset : managed(a) /\ ~managed(a)' => owed(a)' = 0]_vars

\* The reason for hooks: with the module registered, whoever redeems repays
\* what is owed to the last block, and the positions of the SetTokens that stay
\* show all that is still owed.
RedemptionIsSynced ==
  [][supply' < supply /\ CLM \in ToSet(hooks) =>
       \A a \in borrowEnabled : understated(a)' <= 0]_vars

\* Issuance reads stored balances, although its borrow accrues the market
\* after that: for an asset that is borrowed only, what the positions then miss
\* is the interest that was due, and nothing from earlier accruals, other
\* issuances or rounding.  An asset that is a default position too is borrowed
\* twice: IssuanceReturnsDebt.
IssuanceMissesOnlyInterest ==
  [][supply' > supply /\ supply > 0 /\ CLM \in ToSet(hooks) =>
       \A a \in borrowEnabled : defaultUnit[a] = 0 =>
         understated(a)' <= interest[a] * PRECISE_UNIT]_vars

\* "The resulting debt is then returned to the calling address"
\* (DebtIssuanceModule.sol): what an issuance borrows is what the caller gets.
IssuanceReturnsDebt ==
  [][supply' > supply => \A a \in borrowEnabled :
       owed(a)' - owed(a) <= preciseMul(debtUnit'[a], supply' - supply)]_vars

\* "SetToken calls removeModule on module itself to confirm it is not needed
\* to manage any remaining positions" (SetToken.sol): no external position of
\* the module is left when it is gone.
NoPositionOutlivesModule ==
  moduleStates[CLM] # "INITIALIZED" => \A a \in Asset : debtUnit[a] = 0

\* "If there is a borrow balance, borrow asset cannot be removed"
\* (CompoundLeverageModule.sol): a borrow asset that is owed stays enabled for
\* borrowing, and so in the assets that sync visits.
OwedBorrowAssetsStay ==
  [][\A a \in borrowEnabled \ borrowEnabled' : owed(a)' = 0]_vars
==============================================================================
