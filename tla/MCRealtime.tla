----------------------------- MODULE MCRealtime -----------------------------
(* Values of the constants of Realtime for TLC: a small instance of every component. *)
EXTENDS Realtime, TLC

CONSTANTS x1, x2, y1, y2, z   \* model values; the components share them

MCSymmetry == Permutations({x1, x2}) \union Permutations({y1, y2})
=============================================================================
