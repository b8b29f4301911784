---------------------------- MODULE StakingModule ----------------------------
(***************************************************************************)
(* contracts/protocol/modules/StakingModule.sol on one SetToken: default   *)
(* units of a component become external units staked on outside contracts, *)
(* and the two issuance hooks repeat that for the SetTokens issued or      *)
(* redeemed.  A staking contract takes and returns the amount it is asked  *)
(* for, as the adapter's calls do; adapters stay registered.               *)
(***************************************************************************)
EXTENDS SetVault

CONSTANT StakingContract

STK == "StakingModule"

\* An address has 160 bits.
ASSUME StakingAssumption == STK \in PositionModule /\ IsFiniteSet(StakingContract)

VARIABLES
  stakingState,            \* moduleStates of this module on the SetToken
  stakingContracts,        \* per component, the list of contracts
  componentPositionUnits,  \* per component, the mapping of positions
  staked                   \* balance of the SetToken at each contract

stakingVars == <<stakingState, stakingContracts, componentPositionUnits, staked>>

PerContract == [Component -> [StakingContract -> Nat]]

StakingTypeOK ==
  /\ stakingState \in {"NONE", "PENDING", "INITIALIZED"}
  /\ stakingContracts \in [Component -> Seq(StakingContract)]
  /\ componentPositionUnits \in PerContract
  /\ staked \in PerContract

StakingInit ==
  /\ stakingState = "PENDING"
  /\ stakingContracts = [c \in Component |-> << >>]
  /\ componentPositionUnits = [c \in Component |-> [s \in StakingContract |-> 0]]
  /\ staked = [c \in Component |-> [s \in StakingContract |-> 0]]

hasStakingPosition(c, s) == contains(stakingContracts[c], s)

\* Sum over the contracts of a component.
overContracts(f) == MapThenSumSet(LAMBDA s : f[s], StakingContract)

-----------------------------------------------------------------------------
(* The manager stakes and unstakes. *)

\* Positions once unit more of c (less, when negative) is staked.
shiftedOk(c, unit) ==
  LET default  == getDefaultPositionRealUnit(positions, c) - unit
      external == getExternalPositionRealUnit(positions, c, STK) + unit
  IN  /\ default >= 0
      /\ editDefaultPositionOk(positions, c, default)
      /\ editExternalPositionOk(editDefaultPosition(positions, c, default),
                                c, STK, external, FALSE)

shifted(c, unit) ==
  LET default  == getDefaultPositionRealUnit(positions, c) - unit
      external == getExternalPositionRealUnit(positions, c, STK) + unit
  IN  editExternalPosition(editDefaultPosition(positions, c, default),
                           c, STK, external, FALSE)

\* Mutant of recordStake: an open position is not looked for.
recordStakeAgain(c, s, unit) ==
  /\ stakingContracts' = [stakingContracts EXCEPT ![c] = Append(@, s)]
  /\ componentPositionUnits' = [componentPositionUnits EXCEPT ![c][s] = @ + unit]

recordStake(c, s, unit) ==
  /\ stakingContracts' =
       [stakingContracts EXCEPT ![c] = IF hasStakingPosition(c, s) THEN @ ELSE Append(@, s)]
  /\ componentPositionUnits' =
       [componentPositionUnits EXCEPT ![c][s] =
          IF hasStakingPosition(c, s) THEN @ + unit ELSE unit]

stake(c, s, unit) ==
  LET notional == getDefaultTotalNotional(totalSupply, unit)
  IN  /\ stakingState = "INITIALIZED"
      /\ hasSufficientDefaultUnits(positions, c, unit)
      /\ notional <= held[c]
      /\ shiftedOk(c, unit)
      /\ positions' = shifted(c, unit)
      /\ held' = [held EXCEPT ![c] = @ - notional]
      /\ staked' = [staked EXCEPT ![c][s] = @ + notional]
      /\ recordStake(c, s, unit)
      /\ UNCHANGED <<totalSupply, balances, stakingState>>

\* Mutant of recordUnstake: a position of one unit counts as closed.
recordUnstakeEarly(c, s, unit) ==
  LET remaining == componentPositionUnits[c][s] - unit
  IN  /\ remaining <= 1 => hasStakingPosition(c, s)
      /\ stakingContracts' =
           [stakingContracts EXCEPT ![c] = IF remaining > 1 THEN @ ELSE remove(@, s)]
      /\ componentPositionUnits' = [componentPositionUnits EXCEPT ![c][s] = remaining]

\* A position brought to zero leaves the list, which must contain it.
recordUnstake(c, s, unit) ==
  LET remaining == componentPositionUnits[c][s] - unit
  IN  /\ remaining = 0 => hasStakingPosition(c, s)
      /\ stakingContracts' =
           [stakingContracts EXCEPT ![c] = IF remaining > 0 THEN @ ELSE remove(@, s)]
      /\ componentPositionUnits' = [componentPositionUnits EXCEPT ![c][s] = remaining]

\* The external unit may have been lowered by a fee since: it goes negative.
unstake(c, s, unit) ==
  LET notional == getDefaultTotalNotional(totalSupply, unit)
  IN  /\ stakingState = "INITIALIZED"
      /\ componentPositionUnits[c][s] >= unit
      /\ staked[c][s] >= notional
      /\ held[c] + notional <= MaxHeld
      /\ shiftedOk(c, -unit)
      /\ positions' = shifted(c, -unit)
      /\ held' = [held EXCEPT ![c] = @ + notional]
      /\ staked' = [staked EXCEPT ![c][s] = @ - notional]
      /\ recordUnstake(c, s, unit)
      /\ UNCHANGED <<totalSupply, balances, stakingState>>

-----------------------------------------------------------------------------
(* The hooks, called for a component in which the module has a position. *)

\* Mutant of hookNotional: the loop returns after the first contract.
hookNotionalOfFirst(c, quantity) ==
  [s \in StakingContract |-> IF hasStakingPosition(c, s) /\ Head(stakingContracts[c]) = s
                             THEN preciseMul(quantity, componentPositionUnits[c][s])
                             ELSE 0]

\* What the hooks move for a quantity of SetTokens, by contract.
hookNotional(c, quantity) ==
  [s \in StakingContract |->
     IF hasStakingPosition(c, s)
     THEN getDefaultTotalNotional(quantity, componentPositionUnits[c][s])
     ELSE 0]

\* Nothing is invoked for an empty list; else the SetToken must know the module.
hookAllowed(c) == stakingContracts[c] # << >> => stakingState = "INITIALIZED"

\* Available is what the SetToken holds when the hook is called.
componentIssueHookOk(c, quantity, available) ==
  /\ hookAllowed(c)
  /\ overContracts(hookNotional(c, quantity)) <= available

componentRedeemHookOk(c, quantity) ==
  /\ hookAllowed(c)
  /\ \A s \in StakingContract : hookNotional(c, quantity)[s] <= staked[c][s]

-----------------------------------------------------------------------------
(* The module on the SetToken. *)

initialize ==
  /\ stakingState = "PENDING"
  /\ stakingState' = "INITIALIZED"
  /\ UNCHANGED <<vault, stakingContracts, componentPositionUnits, staked>>

\* Mutant of removeModule: open positions do not matter.
removeModuleAlways ==
  /\ stakingState = "INITIALIZED"
  /\ stakingState' = "NONE"
  /\ UNCHANGED <<vault, stakingContracts, componentPositionUnits, staked>>

\* Only the components the SetToken lists are looked at.
removeModule ==
  /\ stakingState = "INITIALIZED"
  /\ \A c \in components : stakingContracts[c] = << >>
  /\ stakingState' = "NONE"
  /\ UNCHANGED <<vault, stakingContracts, componentPositionUnits, staked>>

addModule ==
  /\ stakingState = "NONE"
  /\ stakingState' = "PENDING"
  /\ UNCHANGED <<vault, stakingContracts, componentPositionUnits, staked>>
==============================================================================
