----------------------------- MODULE MCOffload ------------------------------
(***************************************************************************)
(* A small instance of Offload: two threads of one process.                *)
(***************************************************************************)
EXTENDS Offload, TLC

OneProcess == [c \in Caller |-> "p"]

Symmetry == Permutations(AgentState)

=============================================================================
