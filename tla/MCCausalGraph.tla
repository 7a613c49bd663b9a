--------------------------- MODULE MCCausalGraph ----------------------------
(***************************************************************************)
(* Small instances of CausalGraph.  Two samples are history enough and the *)
(* window holds two, so that it rolls.                                     *)
(***************************************************************************)
EXTENDS CausalGraph, TLC

\* An ingestor gives both labels or one
SomeLists == {<<"x", "y">>, <<"y">>}

Symmetry == Permutations(Entity) \cup Permutations(Caller)

=============================================================================
