-------------------------- MODULE NAVIssuanceModule --------------------------
(***************************************************************************)
(* contracts/protocol/modules/NAVIssuanceModule.sol: SetTokens issued and  *)
(* redeemed for one reserve asset at the net asset value, by repricing all *)
(* positions and then storing a new unit of the reserve asset.             *)
(*                                                                         *)
(* Fees leave in the reserve asset; the tokens of users and fee recipients *)
(* are not tracked.  The ether variants do the same with wrapped ether as  *)
(* reserve asset, and the manager's hooks can only revert.  The caller's   *)
(* least quantity is zero: a larger one only reverts more often.           *)
(***************************************************************************)
EXTENDS SetValuer

CONSTANTS
  protocolShare,    \* [issue, redeem]: share of the manager's fee
  protocolDirect,   \* [issue, redeem]: fee of the protocol itself
  MaxMultiplier     \* bound: multiplier reached by redemptions

\* Both are fees of the Controller, which sets them no limit; above 100% the
\* calls that take them revert.
ASSUME NAVAssumption ==
  /\ protocolShare \in [{"issue", "redeem"} -> 0 .. PRECISE_UNIT]
  /\ protocolDirect \in [{"issue", "redeem"} -> 0 .. PRECISE_UNIT]

VARIABLES navState, navIssuanceSettings, isReserveAsset

navVars == <<navState, navIssuanceSettings, isReserveAsset>>

Percentage == 0 .. PRECISE_UNIT - 1

NAVIssuanceSettings ==
  [managerFees          : [{"issue", "redeem"} -> Percentage],
   maxManagerFee        : Percentage,
   premiumPercentage    : Percentage,
   maxPremiumPercentage : Percentage,
   minSetTokenSupply    : Nat,
   reserveAssets        : Seq(Component)]

NoSettings == [managerFees          |-> [a \in {"issue", "redeem"} |-> 0],
               maxManagerFee        |-> 0, premiumPercentage |-> 0,
               maxPremiumPercentage |-> 0, minSetTokenSupply |-> 0,
               reserveAssets        |-> << >>]

NavTypeOK ==
  /\ navState \in {"NONE", "PENDING", "INITIALIZED"}
  /\ navIssuanceSettings \in NAVIssuanceSettings
  /\ isReserveAsset \in [Component -> BOOLEAN]

NavInit ==
  /\ navState = "PENDING"
  /\ navIssuanceSettings = NoSettings
  /\ isReserveAsset = [c \in Component |-> FALSE]

-----------------------------------------------------------------------------
(* Fees: the protocol's own, and its share of the manager's. *)

protocolFeePercentage(action) ==
  preciseMul(protocolShare[action], navIssuanceSettings.managerFees[action])
    + protocolDirect[action]

managerFeePercentage(action) ==
  navIssuanceSettings.managerFees[action]
    - preciseMul(protocolShare[action], navIssuanceSettings.managerFees[action])

\* What leaves as fees, of a quantity of the reserve asset.
feesOf(action, quantity) ==
  preciseMul(protocolFeePercentage(action), quantity)
    + preciseMul(managerFeePercentage(action), quantity)

netFlow(action, quantity) == quantity - feesOf(action, quantity)

-----------------------------------------------------------------------------
(* Quantities. *)

\* Mutant of _getSetTokenMintQuantity: the premium is taken off the SetTokens
\* minted but not left in the denominator.
mintedWithoutPremium(reserve, net) ==
  LET n == preciseDiv(net, baseUnits[reserve])
  IN  preciseDiv(preciseMul(n, totalSupply),
        preciseMul(totalSupply, calculateSetTokenValuation(reserve)))

mintDenominator(reserve, net) ==
  LET premium == preciseMul(net, navIssuanceSettings.premiumPercentage)
  IN  preciseMul(totalSupply, calculateSetTokenValuation(reserve))
        + preciseDiv(net, baseUnits[reserve])
        - preciseDiv(net - premium, baseUnits[reserve])

_getSetTokenMintQuantity(reserve, net) ==
  LET premium == preciseMul(net, navIssuanceSettings.premiumPercentage)
      normalized == preciseDiv(net - premium, baseUnits[reserve])
  IN  preciseDiv(preciseMul(normalized, totalSupply), mintDenominator(reserve, net))

_getRedeemReserveQuantity(reserve, quantity) ==
  LET value == preciseMul(quantity, calculateSetTokenValuation(reserve))
      beforePremium == preciseMul(value, baseUnits[reserve])
  IN  beforePremium
        - preciseMulCeil(beforePremium, navIssuanceSettings.premiumPercentage)

\* Mutant of positionMultiplierFor: rounded up.
positionMultiplierRoundedUp(newSupply) ==
  (positions.positionMultiplier * totalSupply + newSupply - 1) \div newSupply

positionMultiplierFor(newSupply) ==
  sdiv(positions.positionMultiplier * totalSupply, newSupply)

totalReserve(reserve) == preciseMul(realUnit(reserve), totalSupply)

_getIssuePositionUnit(reserve, net, newSupply) ==
  preciseDiv(totalReserve(reserve) + net, newSupply)

_getRedeemPositionUnit(reserve, outflow, newSupply) ==
  preciseDiv(totalReserve(reserve) - outflow, newSupply)

-----------------------------------------------------------------------------

_validateCommon(reserve, quantity) ==
  /\ navState = "INITIALIZED"
  /\ quantity > 0
  /\ isReserveAsset[reserve]
  /\ isPriced(reserve)
  /\ realUnit(reserve) >= 0

\* Repricing comes first, so that the reserve unit is stored under the new
\* multiplier.
_handleStateUpdates(reserve, newMultiplier, newUnit) ==
  LET repriced == editPositionMultiplier(positions, newMultiplier)
  IN  /\ newMultiplier <= MaxMultiplier
      /\ _validateNewMultiplier(positions, newMultiplier)
      /\ editDefaultPositionOk(repriced, reserve, newUnit)
      /\ positions' = editDefaultPosition(repriced, reserve, newUnit)

issue(to, reserve, quantity) ==
  LET net       == netFlow("issue", quantity)
      minted    == _getSetTokenMintQuantity(reserve, net)
      newSupply == totalSupply + minted
  IN  /\ _validateCommon(reserve, quantity)
      /\ totalSupply >= navIssuanceSettings.minSetTokenSupply
      /\ net >= 0
      /\ mintDenominator(reserve, net) > 0
      /\ held[reserve] + net <= MaxHeld
      /\ held' = [held EXCEPT ![reserve] = @ + net]
      /\ _handleStateUpdates(reserve, positionMultiplierFor(newSupply),
                             _getIssuePositionUnit(reserve, net, newSupply))
      /\ _mint(to, minted)
      /\ UNCHANGED <<oracles, navVars>>

redeem(from, reserve, quantity) ==
  LET outflow   == _getRedeemReserveQuantity(reserve, quantity)
      newSupply == totalSupply - quantity
  IN  /\ _validateCommon(reserve, quantity)
      /\ newSupply >= navIssuanceSettings.minSetTokenSupply
      /\ netFlow("redeem", outflow) >= 0
      /\ totalReserve(reserve) >= outflow
      /\ _burn(from, quantity)
      /\ held[reserve] >= outflow
      /\ held' = [held EXCEPT ![reserve] = @ - outflow]
      /\ _handleStateUpdates(reserve, positionMultiplierFor(newSupply),
                             _getRedeemPositionUnit(reserve, outflow, newSupply))
      /\ UNCHANGED <<oracles, navVars>>

\* Mutant of isRedeemValid: the unit of the reserve stands for its total.
isRedeemValidPerUnit(reserve, quantity) ==
  /\ quantity # 0
  /\ isReserveAsset[reserve]
  /\ totalSupply >= navIssuanceSettings.minSetTokenSupply + quantity
  /\ realUnit(reserve)
       >= netFlow("redeem", _getRedeemReserveQuantity(reserve, quantity))

\* What the view answers: the quantity after fees is compared with the
\* reserve, not the quantity that leaves.
isRedeemValid(reserve, quantity) ==
  /\ quantity # 0
  /\ isReserveAsset[reserve]
  /\ totalSupply >= navIssuanceSettings.minSetTokenSupply + quantity
  /\ totalReserve(reserve)
       >= netFlow("redeem", _getRedeemReserveQuantity(reserve, quantity))

-----------------------------------------------------------------------------
(* The manager's settings. *)

ManagerOnly ==
  /\ navState = "INITIALIZED"
  /\ UNCHANGED <<vault, oracles, navState>>

addReserveAsset(c) ==
  /\ ManagerOnly
  /\ ~isReserveAsset[c]
  /\ navIssuanceSettings' =
       [navIssuanceSettings EXCEPT !.reserveAssets = Append(@, c)]
  /\ isReserveAsset' = [isReserveAsset EXCEPT ![c] = TRUE]

removeReserveAsset(c) ==
  /\ ManagerOnly
  /\ isReserveAsset[c]
  /\ navIssuanceSettings' =
       [navIssuanceSettings EXCEPT !.reserveAssets = remove(@, c)]
  /\ isReserveAsset' = [isReserveAsset EXCEPT ![c] = FALSE]

editPremium(premium) ==
  /\ ManagerOnly
  /\ premium <= navIssuanceSettings.maxPremiumPercentage
  /\ navIssuanceSettings' = [navIssuanceSettings EXCEPT !.premiumPercentage = premium]
  /\ UNCHANGED isReserveAsset

editManagerFee(fee, action) ==
  /\ ManagerOnly
  /\ fee <= navIssuanceSettings.maxManagerFee
  /\ navIssuanceSettings' = [navIssuanceSettings EXCEPT !.managerFees[action] = fee]
  /\ UNCHANGED isReserveAsset

initialize(settings) ==
  /\ navState = "PENDING"
  /\ settings.reserveAssets # << >>
  /\ settings.maxManagerFee < PRECISE_UNIT
  /\ settings.maxPremiumPercentage < PRECISE_UNIT
  /\ \A action \in {"issue", "redeem"} :
       settings.managerFees[action] <= settings.maxManagerFee
  /\ settings.premiumPercentage <= settings.maxPremiumPercentage
  /\ settings.minSetTokenSupply > 0
  /\ ~hasDuplicate(settings.reserveAssets)
  /\ \A c \in ToSet(settings.reserveAssets) : ~isReserveAsset[c]
  /\ isReserveAsset' = [c \in Component |->
                          isReserveAsset[c] \/ contains(settings.reserveAssets, c)]
  /\ navIssuanceSettings' = settings
  /\ navState' = "INITIALIZED"
  /\ UNCHANGED <<vault, oracles>>

\* Mutant of removeModule: the mapping is forgotten.
removeModuleKeepingMapping ==
  /\ navState = "INITIALIZED"
  /\ navState' = "NONE"
  /\ navIssuanceSettings' = NoSettings
  /\ UNCHANGED <<vault, oracles, isReserveAsset>>

\* The mapping is cleared for the assets that are listed.
removeModule ==
  /\ navState = "INITIALIZED"
  /\ navState' = "NONE"
  /\ isReserveAsset' = [c \in Component |->
       isReserveAsset[c] /\ ~contains(navIssuanceSettings.reserveAssets, c)]
  /\ navIssuanceSettings' = NoSettings
  /\ UNCHANGED <<vault, oracles>>

addModule ==
  /\ navState = "NONE"
  /\ navState' = "PENDING"
  /\ UNCHANGED <<vault, oracles, navIssuanceSettings, isReserveAsset>>
==============================================================================
