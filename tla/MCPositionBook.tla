--------------------------- MODULE MCPositionBook ----------------------------
(* Instances of PositionBook for TLC; 4 stands for 10^18. *)
EXTENDS PositionBook

CONSTANTS c1, c2, x1, x2

\* Two modules have positions on one component; the other is held only.
Acting == c1 :> {x1, x2} @@ c2 :> {}

\* Units of two or more: a whole unit is left after any one rounding.
CoarseDefault == {0, 2, 3}
CoarseExternal == {-2, 0, 2}

Fees == {1}
Supplies == {2, 3, 4}
==============================================================================
