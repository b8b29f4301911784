----------------------------- MODULE Collateral ------------------------------
(***************************************************************************)
(* One SetToken with the modules that decide whether its positions are     *)
(* backed: issuance and redemption by anyone, streaming fee, trades of the *)
(* manager, airdrops.  All of them read and write the same positions,      *)
(* supply and balances, in any order.                                      *)
(*                                                                         *)
(* owed and charged are history variables: the streaming fee percentage    *)
(* that has built up while the module was initialised, and the part of it  *)
(* that accruals have taken.                                               *)
(***************************************************************************)
EXTENDS BasicIssuanceModule, StreamingFeeModule, TradeModule

CONSTANTS
  InitialUnits,     \* units of the components given to SetTokenCreator
  Quantity,         \* bound: SetTokens issued, redeemed or transferred
  FeePercentages,   \* bound: yearly streaming fees
  TradeQuantity,    \* bound: units traded, tokens received or airdropped
  Exchanged         \* bound: ordered pairs of components traded

\* SetTokenCreator refuses units of zero.
ASSUME CollateralAssumption ==
  /\ IsFiniteSet(DOMAIN InitialUnits) /\ DOMAIN InitialUnits \subseteq Component
  /\ \A c \in DOMAIN InitialUnits : InitialUnits[c] \in Nat \ {0}
  /\ Quantity \subseteq Nat /\ TradeQuantity \subseteq Nat
  /\ FeePercentages \subseteq Nat
  /\ Exchanged \subseteq Component \X Component

VARIABLES owed, charged

Expected == INSTANCE FeeExpectations

vars == <<positions, totalSupply, balances, held, moduleState, feeStates,
          blockTimestamp, owed, charged>>

\* The vault, the fee state and the two meters of fees keep their types: no balance is
\* ever negative.
TypeOK == VaultTypeOK /\ FeeTypeOK /\ owed \in Nat /\ charged \in Nat

Init ==
  /\ \E _components \in {s \in SetToSeqs(DOMAIN InitialUnits) : s # << >>} :
       VaultInit(_components, [i \in DOMAIN _components |->
                                 InitialUnits[_components[i]]])
  /\ FeeInit
  /\ owed = 0 /\ charged = 0

UseVault ==
  \/ \E a \in Account, q \in Quantity : issue(a, q) \/ redeem(a, q)
  \/ \E a, b \in Account, q \in Quantity : transfer(a, b, q)
  \/ \E c \in Component, q \in TradeQuantity : airdrop(c, q)
  \/ \E x \in Exchanged, s \in TradeQuantity, r \in TradeQuantity :
       \E least \in {0, s} : trade(x[1], x[2], s, least, r)

UseFee ==
  \/ accrueFee
  \/ \E f \in FeePercentages : updateStreamingFee(f)

ManageFee ==
  \/ \E a \in Account : updateFeeRecipient(a)
  \/ \E a \in Account, max, f \in FeePercentages : initialize(a, max, f)
  \/ addModule

Next ==
  \/ UseVault /\ UNCHANGED <<moduleState, feeStates, blockTimestamp, owed, charged>>
  \/ /\ UseFee
     /\ charged' = charged + _calculateStreamingFee
     /\ UNCHANGED owed
  \/ ManageFee /\ UNCHANGED <<owed, charged>>
  \/ removeModule /\ UNCHANGED <<owed, charged>>
  \/ /\ tick
     /\ owed' = owed + feeStates.streamingFeePercentage
     /\ UNCHANGED charged

Spec == Init /\ [][Next]_vars

-----------------------------------------------------------------------------

repriced ==
  positions'.positionMultiplier # positions.positionMultiplier

\* Issuing, redeeming, trading, transferring and receiving tokens never move
\* value away from the holders: none of them leaves a component further short
\* of its backing than it was, at any rounding.
\* A fee accrual may, by less than one unit per whole SetToken: lowering the
\* multiplier pays for the minted SetTokens up to the rounding of the real unit.
OnlyFeesDilute ==
  [][\A c \in Component :
       deficit(c)' <= IF repriced THEN deficit(c) + totalSupply
                      ELSE IF deficit(c) > 0 THEN deficit(c) ELSE 0]_vars

\* The SetTokens minted by an accrual are at most the fee's share of the
\* supply after it.
InflationWithinFee ==
  [][repriced =>
       (totalSupply' - totalSupply) * PRECISE_UNIT
         <= _calculateStreamingFee * totalSupply']_vars

\* An accrual mints exactly what the tests' own formula expects, and leaves every
\* unit within one of the formula's, plus one for each whole unit of the virtual
\* unit, since the tests scale the real unit and the code the multiplier.
AccrualAsExpected ==
  [][repriced =>
       LET fee == Expected!getStreamingFee(feeStates.lastStreamingFeeTimestamp,
                    blockTimestamp, feeStates.streamingFeePercentage)
       IN  /\ totalSupply' - totalSupply
                = Expected!getStreamingFeeInflationAmount(fee, totalSupply)
           /\ \A c \in components :
                LET expected == Expected!getPostFeePositionUnit(realUnit(c), fee)
                IN  /\ realUnit(c)' <= expected + 1
                    /\ expected <= realUnit(c)' + 1
                         + positions.virtualUnit[c] \div PRECISE_UNIT]_vars

\* No period is charged twice and none at a rate set later: what was accrued
\* and what is still pending never exceed what has built up over time, across
\* rate changes, removal and another initialisation.
NoFeeChargedTwice ==
  (charged + _calculateStreamingFee) * ONE_YEAR_IN_SECONDS <= owed

\* Until a fee is taken the SetToken holds what its positions promise: no chain
\* of issuances, redemptions, trades, transfers and airdrops, each rounded on its
\* own, leaves a component short, whatever rates are set and whatever is pending.
\* From the first fee on OnlyFeesDilute bounds what is missing.
FullyBacked == charged = 0 => \A c \in Component : deficit(c) <= 0

\* Until a fee is taken nobody is locked in: every holder can redeem a whole
\* balance at once, however small the units and however they were traded.
HoldersCanExit == charged = 0 => \A a \in Account : canPay(balances[a])
==============================================================================
