---------------------------- MODULE MCController -----------------------------
(* Instances of Controller for TLC. *)
EXTENDS Controller

CONSTANTS s1, s2, f1, f2, m1, m2, r1, r2

Modules == {m1, m2, ZeroAddress}
Resources == {r1, r2, ZeroAddress}

\* Lists as a careful owner gives them; the reversed list tells order apart.
DistinctLists == {<< >>, <<f1>>, <<m1>>, <<m1, m2>>, <<r1>>, <<r2, r1>>}
==============================================================================
