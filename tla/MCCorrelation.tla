--------------------------- MODULE MCCorrelation ----------------------------
(***************************************************************************)
(* A small instance of Correlation: two entities with both labels, windows *)
(* of three returns, of which two are history enough but too short for a   *)
(* correlation, and one caller.                                            *)
(***************************************************************************)
EXTENDS Correlation, TLC

BothLabels == {<<"crude", "rate">>}

Symmetry == Permutations(Entity)

=============================================================================
