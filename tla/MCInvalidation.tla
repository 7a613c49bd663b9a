--------------------------- MODULE MCInvalidation ---------------------------
(***************************************************************************)
(* Small instances of Invalidation: two entities in a shard each; a        *)
(* trigger for one, a spike of the other, and a sentinel on the channel;   *)
(* an update of a label entries are filed under, and one of another label. *)
(***************************************************************************)
EXTENDS Invalidation

TwoShards == [e \in Entity |-> e]

Signals == {[event |-> "CausalTrigger", entity_id |-> 1],
            [event |-> "WeightSpike", entity_id |-> 2],
            [event |-> "CausalTrigger", entity_id |-> Sentinel]}

TwoUpdates == {<<1, {"rate"}>>, <<2, {"macro"}>>}

=============================================================================
