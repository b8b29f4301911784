----------------------------- MODULE MCSetToken ------------------------------
(* Instances of SetToken for TLC. *)
EXTENDS SetToken

CONSTANTS m1, m2, m3, alice, bob

Modules == {m1, m2, m3}
Accounts == {alice, bob}

\* One module keeps the lock it takes when it is removed; the others are told
\* apart by their state only, accounts by being the manager.
Retaining == {m3}
Symmetry == Permutations({m1, m2}) \cup Permutations(Accounts)

\* Unit 4 stands for 10^18.  Real 2 has virtual unit 2, then 3/4 of it rounds
\* to 1; 1/4 of it rounds to 0 and 0 is no multiplier: both must be refused.
\* The negative unit is a debt, whose rounding goes the other way.
PositionUnits == {-2, 2}
PositionMultipliers == {0, 1, 3, 4}
==============================================================================
