------------------------------ MODULE Pipeline ------------------------------
(***************************************************************************)
(* The three tiers as main (src/main.rs) and Orchestrator::start           *)
(* (crates/intelligence/src/orchestrator.rs) put them together: the store  *)
(* and the graph are seeded; then the SensingAgent sweeps the store, which *)
(* a feed writes, and sends signals to the ReasoningAgent over a channel   *)
(* they share; and the ReasoningAgent activates and extends the graph and  *)
(* fills the cache.                                                        *)
(*                                                                         *)
(* The steps are those of Sensing, Reasoning and CausalGraph.  The state   *)
(* of Sensing goes by its own names.  Nobody updates the graph's tags, and *)
(* nobody invalidates or evicts, once the agents run; the SensingAgent     *)
(* owns a clone of the store and its Sender and never ends.  When main     *)
(* returns, every thread simply stops.                                     *)
(***************************************************************************)
EXTENDS Sensing

CONSTANTS Label, NoEntry, NoSignal, NoContent,
          NoEntity, NoLink, Window, MinHistory, MaxTags, MaxFacts,
          SeedLabels,   \* labels an entity is seeded with
          SeedReturns,  \* return samples an entity is seeded with (32)
          Live,         \* bound: ids the feed draws
          Weight        \* the weights there can be

ASSUME PipelineConstants ==
  /\ Entity \subseteq Nat
  /\ SeedLabels \in [Entity -> Seq(Label) \ {<<>>}]
  /\ MinHistory \in Nat /\ SeedReturns \in Nat /\ Window \in Nat
  /\ 0 < MinHistory /\ MinHistory <= SeedReturns /\ SeedReturns <= Window
  /\ Live \subseteq Entity
  /\ NewWeight \in Weight
  /\ \A w \in Weight, s \in Surprise : RecalculatedWeight(w, s) \in Weight
  /\ NoEntity \notin Entity /\ NoLink \notin Entity \X Entity
  /\ MaxTags \in Nat /\ MaxFacts \in Nat

VARIABLES sending,  \* the SensingAgent's Sender, which it never drops
          entries, rpc, signal, cache_hit, related,   \* the ReasoningAgent
          entity_labels, label_entities, label_store, temporal_links,
          return_samples, fact_count, hallucination_count,
          gpc, src, src_labels, candidates, new_links, new_facts, \* its call of the graph
          spiked   \* history: ids a WeightSpike was offered for

reasonerVars == <<sending, entries, rpc, signal, cache_hit, related>>
causalVars == <<entity_labels, label_entities, label_store, temporal_links,
                return_samples, fact_count, hallucination_count,
                gpc, src, src_labels, candidates, new_links, new_facts>>
pvars == <<vars, reasonerVars, causalVars, spiked>>

Reasoner == "reasoning-agent"

\* The signals there can be
Signals == {CausalTrigger(e) : e \in Entity}
             \cup {WeightSpike(e, Distance(v, w), w) :
                     e \in Entity, v \in Weight, w \in Weight}

R == INSTANCE Reasoning WITH
       pc <- rpc, graph <- 0, MaxUpdates <- 0,
       Sentinel <- Nobody, SignalEvent <- Signals

G == INSTANCE CausalGraph WITH
       pc <- gpc, Caller <- {Reasoner}, TagLists <- {SeedLabels[e] : e \in Entity},
       MaxHallucinations <- 0

PInit == Init /\ R!Init /\ G!Init /\ spiked = {}

-----------------------------------------------------------------------------
(* main seeds the store, then the graph, id by id.                         *)

StoreSeeded == \A e \in Entity : Contains(store, e)
GraphSeeded(e) == entity_labels[e] # <<>> /\ return_samples[e] >= SeedReturns
Started == StoreSeeded /\ \A e \in Entity : GraphSeeded(e)

SeedStore(e) == /\ \A f \in Entity : f < e => Contains(store, f)
                /\ Register(e)
                /\ UNCHANGED <<reasonerVars, causalVars, spiked>>

SeedGraph(e) == /\ StoreSeeded
                /\ \A f \in Entity : f < e => GraphSeeded(f)
                /\ \/ entity_labels[e] = <<>> /\ G!TagEntity(e, SeedLabels[e])
                   \/ /\ entity_labels[e] # <<>>
                      /\ return_samples[e] < SeedReturns
                      /\ G!RecordReturn(e)
                /\ UNCHANGED <<vars, reasonerVars, spiked>>

Seed == \E e \in Entity : SeedStore(e) \/ SeedGraph(e)

-----------------------------------------------------------------------------
(* The feed and the SensingAgent.                                          *)

Ticks == /\ Started
         /\ \E e \in Live : TickPrice(e) \/ UpdateWeight(e) \/ RaiseTrigger(e)
         /\ UNCHANGED <<reasonerVars, causalVars, spiked>>

\* Mutant: send() instead of try_send(), which waits for room in the channel
SensesBlocking == /\ Started
                  /\ pc \in {"send", "spike"} => Accepts
                  /\ Agent
                  /\ spiked' = IF pc = "spike" /\ Spikes(current)
                                  THEN spiked \cup {current} ELSE spiked
                  /\ UNCHANGED <<reasonerVars, causalVars>>

Senses == /\ Started
          /\ Agent
          /\ spiked' = IF pc = "spike" /\ Spikes(current) THEN spiked \cup {current}
                                                          ELSE spiked
          /\ UNCHANGED <<reasonerVars, causalVars>>

-----------------------------------------------------------------------------
(* The ReasoningAgent.                                                     *)

Reasons == /\ R!Receive \/ R!CheckCache \/ R!GetRelated \/ R!Activate
                        \/ R!ProduceInsight \/ R!InsertEntry
           /\ UNCHANGED <<store, agentVars, causalVars, spiked>>

\* materialize_temporal_link returns at once for an unknown entity or a short
\* history, and, by the bound, when there are facts enough
ReturnsAtOnce(e) == \/ entity_labels[e] = <<>>
                    \/ return_samples[e] < MinHistory
                    \/ fact_count >= MaxFacts

CallsGraph ==
  /\ rpc = "links" /\ gpc[Reasoner] = "idle"
  /\ IF ReturnsAtOnce(signal.entity_id)
       THEN R!Materialize /\ UNCHANGED causalVars
       ELSE G!ReadSource(Reasoner, signal.entity_id) /\ UNCHANGED reasonerVars
  /\ UNCHANGED <<vars, spiked>>

Correlates == /\ rpc = "links"
              /\ \E e \in Entity : G!ReadCandidate(Reasoner, e)
              /\ UNCHANGED <<vars, reasonerVars, spiked>>

\* Mutant: a call that found nothing is tried again
LinksOrTriesAgain == /\ \/ G!WriteLinks(Reasoner) /\ R!Materialize
                        \/ G!FindNothing(Reasoner) /\ UNCHANGED reasonerVars
                     /\ UNCHANGED <<vars, spiked>>

\* The call returns and the cycle goes on
Links == /\ G!WriteLinks(Reasoner) \/ G!FindNothing(Reasoner)
         /\ R!Materialize
         /\ UNCHANGED <<vars, spiked>>

\* The thread dies in the midst of the call
Panics == /\ gpc[Reasoner] = "correlate"
          /\ R!Panic
          /\ UNCHANGED <<store, agentVars, causalVars, spiked>>

ReasoningAgent == Reasons \/ CallsGraph \/ Correlates \/ Links \/ Panics

PNext == Seed \/ Ticks \/ Senses \/ ReasoningAgent

\* main seeds in the end, and both agents are threads that run on
PSpec == PInit /\ [][PNext]_pvars /\ WF_pvars(Seed) /\ WF_pvars(Senses)
               /\ WF_pvars(ReasoningAgent)

-----------------------------------------------------------------------------
(* For the SensingAgent, the program is the world Sensing describes: its   *)
(* signals are consumed, or the receiver is dropped, and it sweeps on      *)
(* whatever becomes of the ReasoningAgent.                                 *)
SensingGoesOn == Spec

(* For the ReasoningAgent, the program is a sender as Reasoning describes: *)
(* bounded, in order, never closing; every cycle ends, the one that waits  *)
(* for the graph too.                                                      *)
ReasoningGoesOn == R!Spec

HasTrigger(e) == Contains(store, e) /\ store[e].trigger
Sending(e) == pc = "send" /\ current = e
Queued(e) == \E i \in DOMAIN channel : channel[i] = CausalTrigger(e)

\* From the bit in the store through the SensingAgent's hands to the channel
OnItsWay(e) == HasTrigger(e) \/ Sending(e) \/ Queued(e)

(* From the bit in the store to the agent's hands: a trigger that was      *)
(* raised is worked on in the end.  It gets lost in two places only: the   *)
(* channel refuses it, being full because a cycle takes long, or gone; or  *)
(* the ReasoningAgent dies with the channel it was waiting in.             *)
TriggerIsWorkedOn ==
  \A e \in Entity :
    OnItsWay(e) ~> \/ signal = CausalTrigger(e)
                   \/ Sending(e) /\ ~Accepts
                   \/ rpc = "dead"

(* A trigger on its way stays on it, whatever feeds, agents and the graph  *)
(* do in between, or arrives in the ReasoningAgent's hands: it vanishes    *)
(* nowhere but where the channel refuses it or dies with its receiver.     *)
TriggersVanishNowhereElse ==
  [][\A e \in Entity : OnItsWay(e) =>
       \/ OnItsWay(e)'
       \/ signal' = CausalTrigger(e)
       \/ Sending(e) /\ ~Accepts
       \/ rpc' = "dead"]_pvars

(* A TEMPORAL_LINK is materialised for an entity whose weight spiked       *)
(* (instructions.md:81): never for a trigger, never for an entity the      *)
(* correlation only brought in.                                            *)
LinksFollowSpikes ==
  \A k \in G!TemporalLinksSnapshot : temporal_links[k][1] \in spiked

=============================================================================
