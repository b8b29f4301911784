-------------------------- MODULE StreamingFeeModule -------------------------
(***************************************************************************)
(* contracts/protocol/modules/StreamingFeeModule.sol: a fee that accrues   *)
(* with time, is paid by minting SetTokens and is balanced by lowering the *)
(* position multiplier.  The module's registration on the SetToken is      *)
(* moduleState; feeStates is the entry of this SetToken.                   *)
(***************************************************************************)
EXTENDS SetVault

CONSTANTS
  ONE_YEAR_IN_SECONDS,
  protocolFee,        \* controller.getModuleFee of this module
  protocolRecipient,  \* controller.feeRecipient
  MaxTime             \* bound: block timestamps

ASSUME StreamingFeeAssumption ==
  /\ ONE_YEAR_IN_SECONDS \in Nat \ {0}
  /\ protocolFee \in 0 .. PRECISE_UNIT
  /\ protocolRecipient \in Account
  /\ MaxTime \in Nat

VARIABLES moduleState, feeStates, blockTimestamp

feeVars == <<moduleState, feeStates, blockTimestamp>>

FeeState == [feeRecipient               : Account,
             maxStreamingFeePercentage  : 0 .. PRECISE_UNIT - 1,
             streamingFeePercentage     : Nat,
             lastStreamingFeeTimestamp  : Nat]

\* An entry that was never written, or was deleted, reads as zero.
NoFeeState(anyone) == [feeRecipient              |-> anyone,
                       maxStreamingFeePercentage |-> 0,
                       streamingFeePercentage    |-> 0,
                       lastStreamingFeeTimestamp |-> 0]

FeeTypeOK ==
  /\ moduleState \in {"NONE", "PENDING", "INITIALIZED"}
  /\ feeStates \in FeeState
  /\ blockTimestamp \in Nat

FeeInit ==
  /\ moduleState = "PENDING"
  /\ feeStates = NoFeeState(protocolRecipient)
  /\ blockTimestamp = 0

\* Time since the last accrual times the yearly percentage.
_calculateStreamingFee ==
  ((blockTimestamp - feeStates.lastStreamingFeeTimestamp)
     * feeStates.streamingFeePercentage) \div ONE_YEAR_IN_SECONDS

\* Mutant of _calculateStreamingFeeInflation: rounded up.
inflationRoundedUp(fee) ==
  (fee * totalSupply + PRECISE_UNIT - fee - 1) \div (PRECISE_UNIT - fee)

\* The supply to mint so that it is the given share of the new supply.
_calculateStreamingFeeInflation(fee) ==
  (fee * totalSupply) \div (PRECISE_UNIT - fee)

_mintManagerAndProtocolFee(feeQuantity) ==
  LET protocolFeeAmount == preciseMul(feeQuantity, protocolFee)
      managerFeeAmount  == feeQuantity - protocolFeeAmount
      paid == [balances EXCEPT ![feeStates.feeRecipient] = @ + managerFeeAmount]
  IN  /\ totalSupply + feeQuantity <= MaxSupply
      /\ totalSupply' = totalSupply + feeQuantity
      /\ balances' = [paid EXCEPT ![protocolRecipient] = @ + protocolFeeAmount]

\* Mutant of newMultiplier: the sign of the inflation is wrong.
raisedMultiplier(fee) ==
  preciseMulSigned(positions.positionMultiplier, PRECISE_UNIT + fee)

newMultiplier(fee) ==
  preciseMulSigned(positions.positionMultiplier, PRECISE_UNIT - fee)

\* A fee of 100% or more makes the inflation's divisor zero or underflow.
_accrue ==
  IF feeStates.streamingFeePercentage > 0
  THEN LET fee == _calculateStreamingFee
       IN  /\ fee < PRECISE_UNIT
           /\ _mintManagerAndProtocolFee(_calculateStreamingFeeInflation(fee))
           /\ _validateNewMultiplier(positions, newMultiplier(fee))
           /\ positions' = editPositionMultiplier(positions, newMultiplier(fee))
  ELSE UNCHANGED <<positions, totalSupply, balances>>

\* Mutant of accrueFee: the timestamp is not moved.
accrueWithoutTimestamp ==
  /\ moduleState = "INITIALIZED"
  /\ _accrue
  /\ UNCHANGED <<held, moduleState, feeStates, blockTimestamp>>

accrueFee ==
  /\ moduleState = "INITIALIZED"
  /\ _accrue
  /\ feeStates' = [feeStates EXCEPT !.lastStreamingFeeTimestamp = blockTimestamp]
  /\ UNCHANGED <<held, moduleState, blockTimestamp>>

updateStreamingFee(newFee) ==
  /\ moduleState = "INITIALIZED"
  /\ newFee < feeStates.maxStreamingFeePercentage
  /\ _accrue
  /\ feeStates' = [feeStates EXCEPT !.lastStreamingFeeTimestamp = blockTimestamp,
                                    !.streamingFeePercentage = newFee]
  /\ UNCHANGED <<held, moduleState, blockTimestamp>>

updateFeeRecipient(newFeeRecipient) ==
  /\ moduleState = "INITIALIZED"
  /\ feeStates' = [feeStates EXCEPT !.feeRecipient = newFeeRecipient]
  /\ UNCHANGED <<vault, moduleState, blockTimestamp>>

initialize(feeRecipient, maxFee, fee) ==
  /\ moduleState = "PENDING"
  /\ maxFee < PRECISE_UNIT /\ fee <= maxFee
  /\ feeStates' = [feeRecipient              |-> feeRecipient,
                   maxStreamingFeePercentage |-> maxFee,
                   streamingFeePercentage    |-> fee,
                   lastStreamingFeeTimestamp |-> blockTimestamp]
  /\ moduleState' = "INITIALIZED"
  /\ UNCHANGED <<vault, blockTimestamp>>

\* The manager removes the module: what has not been accrued is forgiven.
removeModule ==
  /\ moduleState = "INITIALIZED"
  /\ moduleState' = "NONE"
  /\ feeStates' = NoFeeState(protocolRecipient)
  /\ UNCHANGED <<vault, blockTimestamp>>

addModule ==
  /\ moduleState = "NONE"
  /\ moduleState' = "PENDING"
  /\ UNCHANGED <<vault, feeStates, blockTimestamp>>

tick ==
  /\ blockTimestamp < MaxTime
  /\ blockTimestamp' = blockTimestamp + 1
  /\ UNCHANGED <<vault, moduleState, feeStates>>
==============================================================================
