------------------------------ MODULE SetVault -------------------------------
(***************************************************************************)
(* A SetToken seen as a vault, for the modules that move value: its        *)
(* positions, its ERC20 supply and balances, and the component tokens it   *)
(* holds.  Component tokens move exactly the amount asked for, which the   *)
(* code enforces on every path here (ExplicitERC20.transferFrom on the way *)
(* in, Invoke.strictInvokeTransfer on the way out).  A user is assumed to  *)
(* have the tokens a deposit asks for; without them it reverts.            *)
(***************************************************************************)
EXTENDS PositionLibrary

CONSTANTS
  Account,
  MaxSupply,    \* bound: SetTokens in circulation
  MaxHeld       \* bound: tokens of a component held by the SetToken

\* An address has 160 bits.
ASSUME SetVaultAssumption ==
  IsFiniteSet(Account) /\ MaxSupply \in Nat /\ MaxHeld \in Nat

VARIABLES
  positions,    \* storage of the SetToken
  totalSupply, balances,
  held          \* balanceOf(SetToken) of every component

vault == <<positions, totalSupply, balances, held>>

VaultTypeOK ==
  /\ positions \in PositionState
  /\ totalSupply \in Nat
  /\ balances \in [Account -> Nat]
  /\ held \in [Component -> Nat]

VaultInit(_components, _units) ==
  /\ positions = newPositions(_components, _units)
  /\ totalSupply = 0 /\ balances = [a \in Account |-> 0]
  /\ held = [c \in Component |-> 0]

realUnit(c) == getDefaultPositionRealUnit(positions, c)

components == ToSet(positions.components)

\* What the positions promise for one component beyond what backs it, in
\* units of 1/PRECISE_UNIT token: positive when the SetToken is short of it.
deficitOf(p, supply, tokens, c) ==
  supply * getDefaultPositionRealUnit(p, c) - tokens * PRECISE_UNIT

deficit(c) == deficitOf(positions, totalSupply, held[c], c)

-----------------------------------------------------------------------------
(* ERC20 of the SetToken. *)

_mint(to, q) ==
  /\ totalSupply + q <= MaxSupply
  /\ totalSupply' = totalSupply + q
  /\ balances' = [balances EXCEPT ![to] = @ + q]

\* Mutant of _burn: the balance is not checked.
burnUnchecked(from, q) ==
  /\ totalSupply' = totalSupply - q
  /\ balances' = [balances EXCEPT ![from] = @ - q]

_burn(from, q) ==
  /\ balances[from] >= q /\ totalSupply >= q
  /\ totalSupply' = totalSupply - q
  /\ balances' = [balances EXCEPT ![from] = @ - q]

transfer(from, to, q) ==
  /\ balances[from] >= q /\ from # to
  /\ balances' = [balances EXCEPT ![from] = @ - q, ![to] = @ + q]
  /\ UNCHANGED <<positions, totalSupply, held>>

\* Anyone may send component tokens to the SetToken, outside every module.
airdrop(c, q) ==
  /\ held[c] + q <= MaxHeld
  /\ held' = [held EXCEPT ![c] = @ + q]
  /\ UNCHANGED <<positions, totalSupply, balances>>
==============================================================================
