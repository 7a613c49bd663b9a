----------------------------- MODULE Reasoning ------------------------------
(***************************************************************************)
(* The ReasoningAgent thread (crates/intelligence/src/agent.rs): it takes  *)
(* signals from the channel one by one, looks their entities up in the     *)
(* PrefixCache (cache.rs), has the graph activated and its links           *)
(* materialised, asks an LLM and fills the cache.  It works until the      *)
(* channel is closed.                                                      *)
(*                                                                         *)
(* Abstracted: what a spreading activation returns, and the time a cache   *)
(* entry was inserted, are how often the graph was updated by then; every  *)
(* entry has the same label_set.  The insight's wording, and whether the   *)
(* LLM answers or not, change nothing.  Of a signal only the event and the *)
(* entity are used.                                                        *)
(***************************************************************************)
EXTENDS Integers, FiniteSets, Sequences

CONSTANTS Entity,
          Sentinel,      \* u64::MAX, which run() skips
          SignalEvent,   \* what the sender may offer
          Capacity,      \* SensingConfig.channel_capacity
          NoEntry,       \* no cache entry
          NoSignal,      \* no signal in hand
          NoContent,     \* unwrap_or_default(): no related entities
          MaxUpdates     \* bound: updates of the graph

ASSUME ReasoningConstants ==
  /\ Sentinel \notin Entity
  /\ NoSignal \notin SignalEvent
  /\ \A s \in SignalEvent : /\ s.event \in {"CausalTrigger", "WeightSpike"}
                            /\ s.entity_id \in Entity \cup {Sentinel}
  /\ Capacity \in Nat \ {0}
  /\ MaxUpdates \in Nat

VARIABLES channel,     \* signals sent and not yet received, oldest first
          connected,   \* the channel's Receiver has not been dropped
          sending,     \* nor its Sender
          entries,     \* the cache
          graph,       \* how often the graph was updated
          pc,          \* where the agent stands
          signal,      \* the signal in hand
          cache_hit,   \* what contains() said of it
          related      \* what the lookup or the activation brought

channelVars == <<channel, connected, sending>>
agentVars == <<pc, signal, cache_hit, related>>
vars == <<channelVars, entries, graph, agentVars>>

Version == 0..MaxUpdates

CachedReasoning ==
  [related_entities : Version \cup {NoContent}, inserted_ns : Version, dirty : BOOLEAN]

ASSUME NoEntryIsNone == NoEntry \notin CachedReasoning

Present(k) == entries[k] # NoEntry
\* contains(): a clean entry exists
Clean(k) == Present(k) /\ ~entries[k].dirty

Init == /\ channel = <<>> /\ connected = TRUE /\ sending = TRUE
        /\ entries = [k \in Entity |-> NoEntry]
        /\ graph = 0
        /\ pc = "recv" /\ signal = NoSignal
        /\ cache_hit = FALSE /\ related = NoContent

-----------------------------------------------------------------------------
(* The other end of the channel: try_send, and the end of the sender.      *)

Offer == /\ sending /\ connected /\ Len(channel) < Capacity
         /\ \E s \in SignalEvent : channel' = Append(channel, s)
         /\ UNCHANGED <<connected, sending, entries, graph, agentVars>>

DropSender == /\ sending
              /\ sending' = FALSE
              /\ UNCHANGED <<channel, connected, entries, graph, agentVars>>

-----------------------------------------------------------------------------
(* ReasoningAgent::run                                                     *)

\* Mutant: a signal for an entity with a clean entry is passed over too
ReceiveUncached ==
  /\ pc = "recv"
  /\ channel # <<>>
  /\ channel' = Tail(channel)
  /\ IF Head(channel).entity_id \in {Sentinel} \cup {k \in Entity : Clean(k)}
       THEN UNCHANGED <<pc, signal>>
       ELSE pc' = "contains" /\ signal' = Head(channel)
  /\ UNCHANGED <<connected, sending, entries, graph, cache_hit, related>>

\* for signal in &self.signal_rx; a heartbeat sentinel is passed over
Receive == /\ pc = "recv"
           /\ channel # <<>>
           /\ channel' = Tail(channel)
           /\ IF Head(channel).entity_id = Sentinel
                THEN UNCHANGED <<pc, signal>>
                ELSE pc' = "contains" /\ signal' = Head(channel)
           /\ UNCHANGED <<connected, sending, entries, graph, cache_hit,
                          related>>

CheckCache == /\ pc = "contains"
              /\ cache_hit' = Clean(signal.entity_id)
              /\ pc' = IF cache_hit' THEN "get" ELSE "activate"
              /\ UNCHANGED <<channelVars, entries, graph, signal, related>>

\* Mutant: links are materialised for every signal
AlwaysLinks == "links"
\* A weight spike has its links materialised first
AfterLookup == IF signal.event = "WeightSpike" THEN "links" ELSE "insight"

GetRelated == /\ pc = "get"
              /\ related' = IF Clean(signal.entity_id)
                              THEN entries[signal.entity_id].related_entities
                              ELSE NoContent
              /\ pc' = AfterLookup
              /\ UNCHANGED <<channelVars, entries, graph, signal, cache_hit>>

Activate == /\ pc = "activate"
            /\ related' = graph
            /\ pc' = AfterLookup
            /\ UNCHANGED <<channelVars, entries, graph, signal, cache_hit>>

\* What materialize_temporal_link does to the graph is CausalGraph's matter
Materialize == /\ pc = "links"
               /\ pc' = "insight"
               /\ UNCHANGED <<channelVars, entries, graph, signal, cache_hit,
                              related>>

\* The receiver goes with the agent, and with it what the channel held
ReceiverGone == connected' = FALSE /\ channel' = <<>>

\* TemporalLink::new panics, in a debug build, if p as an f32 is not below 0.05
Panic == /\ pc = "links"
         /\ pc' = "dead"
         /\ ReceiverGone
         /\ UNCHANGED <<sending, entries, graph, signal, cache_hit, related>>

EndCycle == /\ pc' = "recv"
            /\ signal' = NoSignal /\ cache_hit' = FALSE /\ related' = NoContent

\* The LLM answers or does not; a hit ends the cycle, a miss is cached
ProduceInsight == /\ pc = "insight"
                  /\ IF cache_hit THEN EndCycle
                       ELSE pc' = "insert" /\ UNCHANGED <<signal, cache_hit, related>>
                  /\ UNCHANGED <<channelVars, entries, graph>>

InsertEntry ==
  /\ pc = "insert"
  /\ entries' = [entries EXCEPT ![signal.entity_id] =
                   [related_entities |-> related, inserted_ns |-> graph,
                    dirty |-> FALSE]]
  /\ EndCycle
  /\ UNCHANGED <<channelVars, graph>>

\* Mutant: the loop ends as soon as the sender is gone
ShutDownAtOnce == /\ pc = "recv"
                  /\ ~sending
                  /\ pc' = "done"
                  /\ connected' = FALSE
                  /\ UNCHANGED <<channel, sending, entries, graph, signal,
                                 cache_hit, related>>

\* The channel is closed and empty: the loop ends
ShutDown == /\ pc = "recv"
            /\ ~sending /\ channel = <<>>
            /\ pc' = "done"
            /\ ReceiverGone
            /\ UNCHANGED <<sending, entries, graph, signal, cache_hit,
                           related>>

Cycle == \/ CheckCache
         \/ GetRelated
         \/ Activate
         \/ Materialize
         \/ Panic
         \/ ProduceInsight
         \/ InsertEntry

Agent == Receive \/ Cycle \/ ShutDown

-----------------------------------------------------------------------------
Next == Offer \/ DropSender \/ Agent

\* The agent is a thread that runs on (the LLM's client has a timeout); signals
\* come as they come
Spec == Init /\ [][Next]_vars /\ WF_vars(Agent)

-----------------------------------------------------------------------------
TypeOK == /\ channel \in Seq(SignalEvent) /\ Len(channel) <= Capacity
          /\ connected \in BOOLEAN /\ sending \in BOOLEAN
          /\ entries \in [Entity -> CachedReasoning \cup {NoEntry}]
          /\ graph \in Version
          /\ pc \in {"recv", "contains", "get", "activate", "links", "insight",
                     "insert", "done", "dead"}
          /\ signal \in SignalEvent \cup {NoSignal}
          /\ cache_hit \in BOOLEAN /\ related \in Version \cup {NoContent}

(* Once the sender is gone the agent works off what the channel holds and  *)
(* ends ("signal channel closed - shutting down", agent.rs:122), unless it *)
(* panics: no accepted signal is left behind, and it does not hang.        *)
DrainsAndEnds == ~sending ~> \/ pc = "dead"
                             \/ pc = "done" /\ channel = <<>>

=============================================================================
