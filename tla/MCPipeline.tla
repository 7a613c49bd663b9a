----------------------------- MODULE MCPipeline -----------------------------
(***************************************************************************)
(* A small instance of Pipeline: two entities that share both labels, of   *)
(* which the feed draws one; one shard; a channel of one signal; two       *)
(* samples are history enough.  Weights are 0 and 1.                       *)
(***************************************************************************)
EXTENDS Pipeline

OneShard == [e \in Entity |-> 1]

BothLabels == [e \in Entity |-> IF e = 1 THEN <<"crude", "rate">>
                                         ELSE <<"rate", "crude">>]

=============================================================================
