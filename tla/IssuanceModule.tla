---------------------------- MODULE IssuanceModule ---------------------------
(***************************************************************************)
(* contracts/protocol/modules/IssuanceModule.sol: exchange of a SetToken   *)
(* for components of which a part is held outside, by calling the hooks of *)
(* the modules with external positions.  Here that module is               *)
(* StakingModule.  The module cannot be removed, so it is simply there;    *)
(* the manager's pre-issue hook changes nothing of this state.             *)
(***************************************************************************)
EXTENDS StakingModule

\* Modules whose hook is called for c.
hookModules(c) == ToSet(positions.externalPositionModules[c])

\* Negative and zero external units make every issuance and redemption revert.
unitsSupported ==
  \A c \in components :
    /\ \A m \in hookModules(c) : getExternalPositionRealUnit(positions, c, m) > 0
    /\ getTotalComponentRealUnits(positions, c) >= 0

\* Mutant of requiredForIssue: the default position alone.
requiredDefaultOnly(c, quantity) == preciseMulCeil(realUnit(c), quantity)

requiredForIssue(c, quantity) ==
  IF c \in components
  THEN preciseMulCeil(getTotalComponentRealUnits(positions, c), quantity) ELSE 0

paidOnRedeem(c, quantity) ==
  IF c \in components
  THEN preciseMul(getTotalComponentRealUnits(positions, c), quantity) ELSE 0

\* What the hooks stake or unstake of c, by contract.
moved(c, quantity) ==
  IF c \in components /\ STK \in hookModules(c)
  THEN hookNotional(c, quantity) ELSE [s \in StakingContract |-> 0]

issue(to, quantity) ==
  /\ quantity > 0
  /\ unitsSupported
  /\ \A c \in components : STK \in hookModules(c) =>
       componentIssueHookOk(c, quantity, held[c] + requiredForIssue(c, quantity))
  /\ held' = [c \in Component |-> held[c] + requiredForIssue(c, quantity)
                                    - overContracts(moved(c, quantity))]
  /\ \A c \in Component : held'[c] <= MaxHeld
  /\ staked' = [c \in Component |->
                  [s \in StakingContract |-> staked[c][s] + moved(c, quantity)[s]]]
  /\ _mint(to, quantity)
  /\ UNCHANGED <<positions, stakingState, stakingContracts, componentPositionUnits>>

\* Every hook finds its tokens and every transfer leaves with its amount.
canRedeem(quantity) ==
  /\ unitsSupported
  /\ \A c \in components :
       /\ STK \in hookModules(c) => componentRedeemHookOk(c, quantity)
       /\ paidOnRedeem(c, quantity) <= held[c] + overContracts(moved(c, quantity))

redeem(from, quantity) ==
  /\ quantity > 0
  /\ _burn(from, quantity)
  /\ canRedeem(quantity)
  /\ held' = [c \in Component |-> held[c] + overContracts(moved(c, quantity))
                                    - paidOnRedeem(c, quantity)]
  /\ staked' = [c \in Component |->
                  [s \in StakingContract |-> staked[c][s] - moved(c, quantity)[s]]]
  /\ UNCHANGED <<positions, stakingState, stakingContracts, componentPositionUnits>>
==============================================================================
