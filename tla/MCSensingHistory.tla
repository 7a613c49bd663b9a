-------------------------- MODULE MCSensingHistory -------------------------
(***************************************************************************)
(* Small instances of SensingHistory.  With alpha = beta = 1/2 and         *)
(* surprises 0 and 3, weights move among 0..2 from the initial 2, and the  *)
(* state space is finite without any counter.                              *)
(***************************************************************************)
EXTENDS SensingHistory

TwoShards == [e \in Entity |-> ((e - 1) % 2) + 1]

OneShard == [e \in Entity |-> 1]

=============================================================================
