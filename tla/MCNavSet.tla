------------------------------ MODULE MCNavSet -------------------------------
(* Instances of NavSet for TLC; PRECISE_UNIT wei are one whole SetToken. *)
EXTENDS NavSet, TLC

CONSTANTS c1, c2, usd

Units == c1 :> 9 @@ c2 :> 26
Decimals == c1 :> 8 @@ c2 :> 20

QuotesOverUsd == {<<c1, usd, 20>>, <<c1, usd, 27>>, <<usd, c2, 16>>}

Share == [issue |-> 7, redeem |-> 7]
Direct == [issue |-> 3, redeem |-> 1]

Choice(issueFee, redeemFee, premium, reserves) ==
  [managerFees          |-> [issue |-> issueFee, redeem |-> redeemFee],
   maxManagerFee        |-> 4,
   premiumPercentage    |-> premium,
   maxPremiumPercentage |-> 5,
   minSetTokenSupply    |-> 11,
   reserveAssets        |-> reserves]

TwoChoices == {Choice(0, 2, 0, <<c1>>), Choice(3, 2, 4, <<c2, c1>>)}
==============================================================================
