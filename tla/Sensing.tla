------------------------------ MODULE Sensing ------------------------------
(***************************************************************************)
(* The Hot Tier at work (crates/hot-tier/src/lib.rs): feed threads write   *)
(* the HotStore, the SensingAgent thread sweeps it and offers SignalEvents *)
(* to a bounded crossbeam channel, a consumer takes them.                  *)
(*                                                                         *)
(* A sweep copies the store shard by shard (DashMap's iterator holds one   *)
(* shard's lock at a time, so a shard is copied atomically but the whole   *)
(* store is not), then handles one copied entity after another: the        *)
(* trigger bit first, then the weight.  Between any two of these steps the *)
(* feeds may write, so the agent always works on copies that may be stale. *)
(***************************************************************************)
EXTENDS HotStore, Sequences

CONSTANTS Surprise,        \* surprise factors a feed can pass to update_weight
          NumShards,       \* shards of the DashMap
          ShardOf,         \* the shard that holds an id
          SpikeThreshold,  \* SensingConfig.spike_threshold
          Capacity,        \* SensingConfig.channel_capacity
          Unseen,          \* marks an id prev_weights has no entry for
          Nobody           \* no entity is being handled

ASSUME SensingConstants ==
  /\ NumShards \in Nat \ {0}
  /\ ShardOf \in [Entity -> 1..NumShards]
  /\ SpikeThreshold \in Int
  /\ Capacity \in Nat \ {0}
  /\ Surprise \subseteq Int
  /\ Unseen \notin Int
  /\ Nobody \notin Entity

VARIABLES store,         \* the DashMap behind HotStore
          channel,       \* signals sent and not yet received, oldest first
          connected,     \* the channel's Receiver has not been dropped
          pc,            \* where the agent thread stands
          shard,         \* next shard the sweep copies
          snapshots,     \* the sweep's copies still to be handled
          current,       \* the id being handled
          prev_weights,  \* last weight the agent saw, per id
          idle           \* nothing was detected in this sweep so far

hotVars == <<store, channel, connected>>
agentVars == <<pc, shard, snapshots, current, prev_weights, idle>>
vars == <<hotVars, agentVars>>

CausalTrigger(e) == [event |-> "CausalTrigger", entity_id |-> e]
WeightSpike(e, delta, w) ==
  [event |-> "WeightSpike", entity_id |-> e, delta_w |-> delta, new_weight |-> w]

SignalEvent == {CausalTrigger(e) : e \in Entity}
                 \cup [event : {"WeightSpike"}, entity_id : Entity,
                       delta_w : Int, new_weight : Int]

\* Sender::try_send never blocks: a full or disconnected channel loses the event
Accepts == connected /\ Len(channel) < Capacity
\* Mutant: the queue is not bounded
TrySendUnbounded(s) == channel' = IF connected THEN Append(channel, s) ELSE channel
TrySend(s) == channel' = IF Accepts THEN Append(channel, s) ELSE channel

Distance(w1, w2) == IF w1 >= w2 THEN w1 - w2 ELSE w2 - w1

-----------------------------------------------------------------------------
Init == /\ store = EmptyStore
        /\ channel = <<>>
        /\ connected = TRUE
        /\ pc = "snapshot"
        /\ shard = 1
        /\ snapshots = EmptyStore
        /\ current = Nobody
        /\ prev_weights = [e \in Entity |-> Unseen]
        /\ idle = TRUE

-----------------------------------------------------------------------------
(* The feeds.  Every caller in the code registers an id once, before it    *)
(* ticks it: the seeding loops do, the Binance adapter checks contains().  *)

\* Mutant: the contains() check before the insert is missing
RegisterAgain(e) == /\ \E p \in Price : store' = Inserted(store, e, NewEntity(p))
                    /\ UNCHANGED <<channel, connected, agentVars>>

Register(e) == /\ ~Contains(store, e)
               /\ \E p \in Price : store' = Inserted(store, e, NewEntity(p))
               /\ UNCHANGED <<channel, connected, agentVars>>

TickPrice(e) == /\ \E p \in Price : store' = PriceTicked(store, e, p)
                /\ UNCHANGED <<channel, connected, agentVars>>

UpdateWeight(e) == /\ \E s \in Surprise : store' = WeightUpdated(store, e, s)
                   /\ UNCHANGED <<channel, connected, agentVars>>

RaiseTrigger(e) == /\ store' = CausalTriggerSet(store, e, TRUE)
                   /\ UNCHANGED <<channel, connected, agentVars>>

Feed == \E e \in Entity : \/ Register(e)
                          \/ TickPrice(e)
                          \/ UpdateWeight(e)
                          \/ RaiseTrigger(e)

-----------------------------------------------------------------------------
(* SensingAgent::run, one action per access to what it shares.             *)

\* Copy one shard; entities come out of the iterator in shard order
SnapshotShard ==
  /\ pc = "snapshot"
  /\ snapshots' = [e \in Entity |-> IF ShardOf[e] = shard THEN store[e]
                                                          ELSE snapshots[e]]
  /\ IF shard < NumShards THEN /\ shard' = shard + 1
                               /\ pc' = pc
                          ELSE /\ pc' = "next"
                               /\ shard' = shard
  /\ UNCHANGED <<hotVars, current, prev_weights, idle>>

Copied == {e \in Entity : Contains(snapshots, e)}

\* What is done first with a copied entity
FirstCheck(e) == IF snapshots[e].trigger THEN "reset" ELSE "spike"

NextEntity ==
  /\ pc = "next"
  /\ \E e \in Copied :
       /\ \A f \in Copied : ShardOf[e] <= ShardOf[f]
       /\ current' = e
       /\ pc' = FirstCheck(e)
  /\ UNCHANGED <<hotVars, shard, snapshots, prev_weights, idle>>

\* set_causal_trigger(id, false), before the event is offered
ResetTrigger ==
  /\ pc = "reset"
  /\ store' = CausalTriggerSet(store, current, FALSE)
  /\ pc' = "send"
  /\ UNCHANGED <<channel, connected, shard, snapshots, current, prev_weights, idle>>

SendCausalTrigger ==
  /\ pc = "send"
  /\ TrySend(CausalTrigger(current))
  /\ idle' = FALSE
  /\ pc' = "spike"
  /\ UNCHANGED <<store, connected, shard, snapshots, current, prev_weights>>

\* Mutant: unwrap_or(0.0)
BaselineZero(e) == IF prev_weights[e] = Unseen THEN 0 ELSE prev_weights[e]
\* prev_weights.get(&id).copied().unwrap_or(entity.importance_weight)
Baseline(e) == IF prev_weights[e] = Unseen THEN snapshots[e].weight
                                           ELSE prev_weights[e]
Spikes(e) == Distance(snapshots[e].weight, Baseline(e)) >= SpikeThreshold

\* Mutant: only a weight that spiked is remembered
RememberedOnSpike(e) ==
  IF Spikes(e) THEN [prev_weights EXCEPT ![e] = snapshots[e].weight]
               ELSE prev_weights
Remembered(e) == [prev_weights EXCEPT ![e] = snapshots[e].weight]

CheckSpike ==
  /\ pc = "spike"
  /\ LET w == snapshots[current].weight IN
       IF Spikes(current)
         THEN /\ TrySend(WeightSpike(current, Distance(w, Baseline(current)), w))
              /\ idle' = FALSE
         ELSE UNCHANGED <<channel, idle>>
  /\ prev_weights' = Remembered(current)
  /\ snapshots' = [snapshots EXCEPT ![current] = Absent]
  /\ current' = Nobody
  /\ pc' = "next"
  /\ UNCHANGED <<store, connected, shard>>

\* Mutant: the next sweep does not start at the first shard again
EndSweepNoRewind ==
  /\ pc = "next"
  /\ Copied = {}
  /\ pc' = IF idle THEN "sleep" ELSE "snapshot"
  /\ idle' = TRUE
  /\ UNCHANGED <<hotVars, shard, snapshots, current, prev_weights>>

\* Only a sweep that detected nothing is followed by a sleep
EndSweep ==
  /\ pc = "next"
  /\ Copied = {}
  /\ pc' = IF idle THEN "sleep" ELSE "snapshot"
  /\ shard' = 1
  /\ idle' = TRUE
  /\ UNCHANGED <<hotVars, snapshots, current, prev_weights>>

Wake == /\ pc = "sleep"
        /\ pc' = "snapshot"
        /\ UNCHANGED <<hotVars, shard, snapshots, current, prev_weights, idle>>

Agent == \/ SnapshotShard
         \/ NextEntity
         \/ ResetTrigger
         \/ SendCausalTrigger
         \/ CheckSpike
         \/ EndSweep
         \/ Wake

-----------------------------------------------------------------------------
(* The consumer's end of the channel.                                      *)

Receive == /\ channel # <<>>
           /\ channel' = Tail(channel)
           /\ UNCHANGED <<store, connected, agentVars>>

\* Dropping the Receiver disconnects the channel and discards what it held
DropReceiver == /\ connected
                /\ connected' = FALSE
                /\ channel' = <<>>
                /\ UNCHANGED <<store, agentVars>>

Consumer == Receive \/ DropReceiver

Next == Feed \/ Agent \/ Consumer

(* The agent is a thread of its own that never waits for the channel and   *)
(* waits for a shard's lock only while one call of a feed holds it.        *)
Spec == Init /\ [][Next]_vars /\ WF_vars(Agent)

-----------------------------------------------------------------------------
TypeOK == /\ store \in Stores
          /\ channel \in Seq(SignalEvent)
          /\ Len(channel) <= Capacity
          /\ connected \in BOOLEAN
          /\ pc \in {"snapshot", "next", "reset", "send", "spike", "sleep"}
          /\ shard \in 1..NumShards
          /\ snapshots \in Stores
          /\ current \in Entity \cup {Nobody}
          /\ prev_weights \in [Entity -> Int \cup {Unseen}]
          /\ idle \in BOOLEAN

(* A copy that says "triggered" is never out of date when the agent acts   *)
(* on it: whatever the feeds write after the shard was copied, the bit is  *)
(* still set in the store when the agent comes to reset it.  (If it could  *)
(* be clear, the agent would announce a trigger nobody raised.)            *)
TriggerCopiesAreCurrent ==
  \A e \in Entity :
    (Contains(snapshots, e) /\ snapshots[e].trigger
       /\ ~(current = e /\ pc \in {"send", "spike"}))
      => Contains(store, e) /\ store[e].trigger

(* When the weights stop changing, the agent's prev_weights catch up with  *)
(* the store and stay there, so that the next spike is measured from the   *)
(* true weight.                                                            *)
BaselinesConverge ==
  <>[][\A e \in Entity :
         Contains(store, e) => store'[e].weight = store[e].weight]_store
    => \A e \in Entity :
         <>[](Contains(store, e) => prev_weights[e] = store[e].weight)

=============================================================================
