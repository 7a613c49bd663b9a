--------------------------- MODULE SensingHistory --------------------------
(***************************************************************************)
(* Sensing with history variables that remember what the feeds did and     *)
(* what became of it.  They change with the steps of Sensing and never     *)
(* restrict them.                                                          *)
(***************************************************************************)
EXTENDS Sensing

VARIABLES credit,    \* raises that set the bit, less CausalTriggers offered
          seen       \* every weight the entity ever had

history == <<credit, seen>>
hvars == <<vars, history>>

HInit == /\ Init
         /\ credit = [e \in Entity |-> 0]
         /\ seen = [e \in Entity |-> {}]

RegisterH(e) == /\ Register(e)
                /\ seen' = [seen EXCEPT ![e] = @ \cup {store'[e].weight}]
                /\ UNCHANGED credit

TickPriceH(e) == TickPrice(e) /\ UNCHANGED history

UpdateWeightH(e) ==
  /\ UpdateWeight(e)
  /\ seen' = IF Contains(store, e)
               THEN [seen EXCEPT ![e] = @ \cup {store'[e].weight}] ELSE seen
  /\ UNCHANGED credit

RaiseTriggerH(e) ==
  /\ RaiseTrigger(e)
  /\ credit' = IF Contains(store, e) /\ ~store[e].trigger
                 THEN [credit EXCEPT ![e] = @ + 1] ELSE credit
  /\ UNCHANGED seen

FeedH == \E e \in Entity : \/ RegisterH(e)
                           \/ TickPriceH(e)
                           \/ UpdateWeightH(e)
                           \/ RaiseTriggerH(e)

SendCausalTriggerH ==
  /\ SendCausalTrigger
  /\ credit' = [credit EXCEPT ![current] = @ - 1]
  /\ UNCHANGED seen

SweepH == /\ \/ SnapshotShard \/ NextEntity \/ ResetTrigger
             \/ CheckSpike \/ EndSweep \/ Wake
          /\ UNCHANGED history

AgentH == SendCausalTriggerH \/ SweepH

ConsumerH == Consumer /\ UNCHANGED history

HNext == FeedH \/ AgentH \/ ConsumerH

HSpec == HInit /\ [][HNext]_hvars /\ WF_hvars(AgentH)

-----------------------------------------------------------------------------
BitLatch(e) == IF Contains(store, e) /\ store[e].trigger THEN 1 ELSE 0
InFlight(e) == IF pc = "send" /\ current = e THEN 1 ELSE 0

(* Between the feeds and the agent no raise is lost and none is counted    *)
(* twice: every raise no event was offered for yet is the bit in the store *)
(* or the event the agent is about to offer.  It holds because run() resets*)
(* the bit before it offers the event; in the other order the reset would  *)
(* wipe a raise that lands in between.                                     *)
RaisesAccounted == \A e \in Entity : credit[e] = BitLatch(e) + InFlight(e)

Path == INSTANCE TriggerPath WITH latch <- credit

(* The sweep implements TriggerPath: every raise of a causal trigger       *)
(* becomes exactly one offer of a CausalTrigger event, in spite of feeds   *)
(* that raise it again while it is handled, and in the end it does.        *)
ImplementsTriggerPath == Path!Spec

(* A WeightSpike tells of a move the entity really made: it had the new    *)
(* weight, and it had another weight delta_w away from it.                 *)
SpikesAreRealMoves ==
  \A i \in DOMAIN channel :
    LET s == channel[i] IN
      s.event = "WeightSpike" =>
        /\ s.new_weight \in seen[s.entity_id]
        /\ {s.new_weight - s.delta_w, s.new_weight + s.delta_w}
             \cap seen[s.entity_id] # {}

-----------------------------------------------------------------------------
(* What the documentation says and the code does not do.                   *)

(* "If causal_trigger_bit == true, it must immediately dispatch a          *)
(* SignalEvent to the Reasoning Agent" (instructions.md:68): a trigger     *)
(* leaves the Hot Tier by way of the channel.  run() resets the bit first  *)
(* and ignores the result of try_send, so a full channel (or a dropped     *)
(* receiver) loses it.                                                     *)
TriggerDispatched ==
  [][\A e \in Entity : BitLatch(e)' + InFlight(e)' < BitLatch(e) + InFlight(e)
        => channel' = Append(channel, CausalTrigger(e))]_vars

=============================================================================
