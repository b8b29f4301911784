------------------------------ MODULE StakingSet -----------------------------
(***************************************************************************)
(* A SetToken whose components are partly staked: IssuanceModule calls     *)
(* StakingModule, while a streaming fee lowers the position multiplier and *)
(* trades may bring a component's default position to zero.                *)
(*                                                                         *)
(* roundings counts the steps that stake a rounded amount, stakes and      *)
(* issuances, which are bounded.                                           *)
(***************************************************************************)
EXTENDS IssuanceModule

CONSTANTS
  ONE_YEAR_IN_SECONDS, protocolFee, protocolRecipient, MaxTime, \* of StreamingFeeModule
  tradeFee,         \* of TradeModule
  InitialUnits,     \* units of the components given to SetTokenCreator
  Quantity,         \* bound: SetTokens issued or redeemed
  StakedUnits,      \* bound: units staked or unstaked at once
  FeePercentages,   \* bound: yearly streaming fees
  Exchanged,        \* bound: ordered pairs of components traded
  TradeQuantity,    \* bound: units sold and tokens received
  MaxRoundings      \* bound: stakes and issuances

\* SetTokenCreator refuses units of zero; what StreamingFeeModule and TradeModule
\* assume of their constants is assumed here of the two instances.
ASSUME StakingSetAssumption ==
  /\ IsFiniteSet(DOMAIN InitialUnits) /\ DOMAIN InitialUnits \subseteq Component
  /\ \A c \in DOMAIN InitialUnits : InitialUnits[c] \in Nat \ {0}
  /\ Quantity \subseteq Nat /\ StakedUnits \subseteq Nat
  /\ TradeQuantity \subseteq Nat /\ FeePercentages \subseteq Nat
  /\ Exchanged \subseteq Component \X Component
  /\ MaxRoundings \in Nat
  /\ ONE_YEAR_IN_SECONDS \in Nat \ {0} /\ MaxTime \in Nat
  /\ protocolFee \in 0 .. PRECISE_UNIT /\ protocolRecipient \in Account
  /\ tradeFee \in 0 .. PRECISE_UNIT

VARIABLES moduleState, feeStates, blockTimestamp, roundings

Fee == INSTANCE StreamingFeeModule
Trade == INSTANCE TradeModule

feeVars == <<moduleState, feeStates, blockTimestamp>>
vars == <<vault, stakingVars, feeVars, roundings>>

\* The vault, the staking records and the fee keep their types: neither the
\* SetToken's balance nor that at a staking contract is ever negative.
TypeOK ==
  /\ VaultTypeOK /\ StakingTypeOK /\ Fee!FeeTypeOK
  /\ roundings \in 0 .. MaxRoundings

Init ==
  /\ LET s == SetToSeq(DOMAIN InitialUnits)
     IN  VaultInit(s, [i \in DOMAIN s |-> InitialUnits[s[i]]])
  /\ StakingInit
  /\ Fee!FeeInit
  /\ roundings = 0

RoundingStep ==
  \/ \E a \in Account, q \in Quantity : issue(a, q)
  \/ \E c \in Component, s \in StakingContract, u \in StakedUnits : stake(c, s, u)

StakingStep ==
  \/ \E a \in Account, q \in Quantity : redeem(a, q)
  \/ \E c \in Component, s \in StakingContract, u \in StakedUnits : unstake(c, s, u)
  \/ initialize \/ removeModule \/ addModule

TradeStep ==
  \E x \in Exchanged, unit, received \in TradeQuantity :
    Trade!trade(x[1], x[2], unit, 0, received)

FeeStep ==
  \/ Fee!tick
  \/ Fee!accrueFee
  \/ \E a \in Account, f \in FeePercentages : Fee!initialize(a, f, f)

Next ==
  \/ /\ RoundingStep
     /\ roundings < MaxRoundings /\ roundings' = roundings + 1
     /\ UNCHANGED feeVars
  \/ StakingStep /\ UNCHANGED <<feeVars, roundings>>
  \/ TradeStep /\ UNCHANGED <<stakingVars, feeVars, roundings>>
  \/ FeeStep /\ UNCHANGED <<stakingVars, roundings>>

Spec == Init /\ [][Next]_vars

-----------------------------------------------------------------------------

externalUnit(c) == getExternalPositionRealUnit(positions, c, STK)

\* No fee has lowered the multiplier, so that units are still what was stored.
unscaled == positions.positionMultiplier = PRECISE_UNIT

\* The list the hooks walk and the mapping of positions agree: no contract is
\* called twice for one issuance and none with a position is left out.
StakingContractsMatchRecords ==
  \A c \in Component :
    /\ ~hasDuplicate(stakingContracts[c])
    /\ \A s \in StakingContract :
         componentPositionUnits[c][s] > 0 => hasStakingPosition(c, s)

\* The SetToken never shows more units staked than the module has on record,
\* over the contracts of a component, and exactly those while no fee was taken.
ExternalUnitMatchesRecords ==
  \A c \in Component :
    /\ externalUnit(c) <= overContracts(componentPositionUnits[c])
    /\ unscaled => externalUnit(c) = overContracts(componentPositionUnits[c])

\* What both positions of a component promise beyond what is held or staked, in
\* units of 1/PRECISE_UNIT token.
totalDeficit(c) ==
  totalSupply * (realUnit(c) + externalUnit(c))
    - (held[c] + overContracts(staked[c])) * PRECISE_UNIT

\* Staking, unstaking, issuing, redeeming and trading never take a component
\* further from its backing, held and staked tokens together: of all steps only
\* a fee accrual may.
StakingNeverDilutes ==
  [][positions'.positionMultiplier = positions.positionMultiplier =>
       \A c \in Component :
         totalDeficit(c)' <= IF totalDeficit(c) > 0 THEN totalDeficit(c) ELSE 0]_vars

\* While no fee was taken a contract holds what its position calls for, short by
\* less than one token for every stake or issuance, which round down.
StakedShortByDust ==
  unscaled =>
    \A c \in Component, s \in StakingContract :
      totalSupply * componentPositionUnits[c][s] - staked[c][s] * PRECISE_UNIT
        <= roundings * (PRECISE_UNIT - 1)

\* "If an outstanding staking position remains using this module then it cannot
\* be removed" (StakingModule.sol): although removeModule looks only at listed
\* components, while no fee was taken a SetToken without the module has no unit on
\* record and no external position left in any component.  (The list of a token
\* that is no component may keep a contract on which zero units were staked.)
RemovalLeavesNoPosition ==
  unscaled /\ stakingState # "INITIALIZED" =>
    \A c \in Component :
      /\ \A s \in StakingContract : componentPositionUnits[c][s] = 0
      /\ positions.externalPositionModules[c] = << >>

\* "Users should always have a way to redeem their Sets" (IssuanceModule.sol): a
\* holder can redeem some part of a balance.
UsersCanRedeem ==
  \A a \in Account :
    balances[a] > 0 => \E q \in 1 .. balances[a] : canRedeem(q)
==============================================================================
