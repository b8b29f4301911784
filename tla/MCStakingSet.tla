---------------------------- MODULE MCStakingSet -----------------------------
(* Instances of StakingSet for TLC; PRECISE_UNIT wei are one whole SetToken. *)
EXTENDS StakingSet

CONSTANTS c1, c2

OneComponent == c1 :> 3
FourUnits == c1 :> 4
ForSale == {<<c1, c2>>}
NotForSale == {}
==============================================================================
