------------------------------ MODULE MCCheckExpr ------------------------------
(* Texts of which one contains another, and amounts around a bound.        *)
EXTENDS CheckExpr

CONSTANTS x, xy, z

MCText == {x, xy, z}
MCInside == {<<t, t>> : t \in MCText} \cup {<<xy, x>>}
MCNumber == 1..2
==============================================================================
