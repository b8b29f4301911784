-------------------------- MODULE BasicIssuanceModule ------------------------
(***************************************************************************)
(* contracts/protocol/modules/BasicIssuanceModule.sol: exchange of a       *)
(* SetToken for its components, rounding in favour of the SetToken both    *)
(* ways.                                                                   *)
(***************************************************************************)
EXTENDS SetVault

\* Mutant of requiredForIssue: rounded down.
requiredRoundedDown(c, quantity) == preciseMul(realUnit(c), quantity)

requiredForIssue(c, quantity) == preciseMulCeil(realUnit(c), quantity)

\* Mutant of paidOnRedeem: rounded up.
paidRoundedUp(c, quantity) == preciseMulCeil(quantity, realUnit(c))

paidOnRedeem(c, quantity) == preciseMul(quantity, realUnit(c))

onlyDefaultPositions ==
  \A c \in components : ~hasExternalPosition(positions, c) /\ realUnit(c) >= 0

issue(to, quantity) ==
  /\ quantity > 0
  /\ onlyDefaultPositions
  /\ held' = [c \in Component |->
                IF c \in components THEN held[c] + requiredForIssue(c, quantity)
                                    ELSE held[c]]
  /\ \A c \in Component : held'[c] <= MaxHeld
  /\ _mint(to, quantity)
  /\ UNCHANGED positions

\* Every transfer must leave with the amount computed, or all is reverted.
canPay(quantity) ==
  \A c \in components : paidOnRedeem(c, quantity) <= held[c]

redeem(from, quantity) ==
  /\ quantity > 0
  /\ _burn(from, quantity)
  /\ onlyDefaultPositions
  /\ canPay(quantity)
  /\ held' = [c \in Component |->
                IF c \in components THEN held[c] - paidOnRedeem(c, quantity)
                                    ELSE held[c]]
  /\ UNCHANGED positions
==============================================================================
