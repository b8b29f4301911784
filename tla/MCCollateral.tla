---------------------------- MODULE MCCollateral -----------------------------
(* Instance of Collateral for TLC; PRECISE_UNIT wei are one whole SetToken. *)
EXTENDS Collateral

CONSTANTS c1, c2

\* Only the first component can be sold: the second is bought and kept.
Units == c1 :> 3 @@ c2 :> 5
ForSale == {<<c1, c2>>, <<c1, c1>>}
==============================================================================
