----------------------------- MODULE TradeModule -----------------------------
(***************************************************************************)
(* contracts/protocol/modules/TradeModule.sol: exchange of one component   *)
(* for another at an outside exchange, followed by the recalculation of    *)
(* both positions from the balances.                                       *)
(***************************************************************************)
EXTENDS SetVault

CONSTANT tradeFee   \* protocol fee on the tokens received

ASSUME TradeAssumption == tradeFee \in 0 .. PRECISE_UNIT

\* The positions after both recalculations, the send token first.
updatedPositions(send, receive, postSend, postReceive) ==
  calculateAndEditDefaultPosition(
    calculateAndEditDefaultPosition(positions, send, totalSupply, held[send],
                                    postSend),
    receive, totalSupply, held[receive], postReceive)

_updateSetTokenPositionsOk(send, receive, postSend, postReceive) ==
  LET sold == calculateAndEditDefaultPosition(positions, send, totalSupply,
                                              held[send], postSend)
  IN  /\ calculateAndEditDefaultPositionOk(positions, send, totalSupply,
                                           held[send], postSend)
      /\ calculateAndEditDefaultPositionOk(sold, receive, totalSupply,
                                           held[receive], postReceive)

\* What the SetToken holds after the exchange, before the protocol fee.
exchanged(send, receive, totalSend, received) ==
  [held EXCEPT ![send] = @ - totalSend, ![receive] = @ + received]

\* The exchange takes what was approved and returns received tokens.  The gain
\* in receive tokens is measured on the balance and its fee leaves at once.
\* The amounts reported at the end are SafeMath subtractions: a send balance
\* that grew or a receive balance that fell reverts.
trade(send, receive, sendQuantity, minReceiveQuantity, received) ==
  LET totalSend  == getDefaultTotalNotional(totalSupply, sendQuantity)
      minReceive == getDefaultTotalNotional(totalSupply, minReceiveQuantity)
      traded     == exchanged(send, receive, totalSend, received)
      gain       == traded[receive] - held[receive]
      after      == [traded EXCEPT ![receive] = @ - preciseMul(gain, tradeFee)]
  IN  /\ totalSend > 0
      /\ hasSufficientDefaultUnits(positions, send, sendQuantity)
      /\ totalSend <= held[send]
      /\ gain >= 0 /\ gain >= minReceive
      /\ after[receive] <= MaxHeld
      /\ _updateSetTokenPositionsOk(send, receive, after[send], after[receive])
      /\ after[send] <= held[send] /\ after[receive] >= held[receive]
      /\ positions' = updatedPositions(send, receive, after[send], after[receive])
      /\ held' = after
      /\ UNCHANGED <<totalSupply, balances>>
==============================================================================
