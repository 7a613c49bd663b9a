----------------------- MODULE MCSpreadingActivation ------------------------
(***************************************************************************)
(* Every graph of a few labels and entities, searched for two hops as the  *)
(* ReasoningAgent does.  Four labels and four entities make a chain that   *)
(* is one entity too long for that.                                        *)
(***************************************************************************)
EXTENDS SpreadingActivation, TLC

Symmetry == Permutations(Entity) \cup Permutations(Label \ {start_label})

=============================================================================
