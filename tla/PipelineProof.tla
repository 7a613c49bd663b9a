--------------------------- MODULE PipelineProof ----------------------------
(***************************************************************************)
(* Proofs about Pipeline: for any entities, labels, weights and capacities,*)
(* the steps of the whole program are steps that Sensing, Reasoning and    *)
(* CausalGraph allow, so that what is proved of the store's copies and of  *)
(* the graph holds of the program's; links start at entities that spiked,  *)
(* and triggers vanish in known places only.                               *)
(***************************************************************************)
EXTENDS Pipeline, SensingProof

(* The weights the sensing tier holds are among those there can be.        *)
Weights ==
  /\ \A e \in Entity : Contains(store, e) => store[e].weight \in Weight
  /\ \A e \in Entity : Contains(snapshots, e) => snapshots[e].weight \in Weight
  /\ \A e \in Entity : prev_weights[e] \in Weight \cup {Unseen}

(* A signal somebody may send; and if it tells of a spike, there was one.  *)
Founded(s, ids) == /\ s \in Signals
                   /\ s.event = "WeightSpike" => s.entity_id \in ids

QueueFounded == /\ channel \in Seq(Signals)
                /\ \A i \in DOMAIN channel : Founded(channel[i], spiked)

Busy == {"contains", "get", "activate", "links", "insight", "insert"}

(* Every signal on its way or in hand is founded.  The SensingAgent never  *)
(* drops its end of the channel, the ReasoningAgent only when it dies.     *)
SignalsFounded ==
  /\ QueueFounded
  /\ rpc \in Busy => Founded(signal, spiked)
  /\ rpc = "links" => signal.event = "WeightSpike"
  /\ rpc \in Busy \cup {"recv", "dead"}
  /\ rpc # "dead" => connected
  /\ sending = TRUE

LinkFollows(link) == link # NoLink => link[1] \in spiked

(* A call is for an entity that spiked, and so are the links it found.     *)
CallsFounded ==
  /\ DOMAIN gpc = {Reasoner}
  /\ DOMAIN src = {Reasoner}
  /\ DOMAIN new_links = {Reasoner}
  /\ gpc[Reasoner] = "correlate" => src[Reasoner] \in spiked
  /\ \A k \in Label \X Label : LinkFollows(new_links[Reasoner][k])
  /\ \A k \in Label \X Label : LinkFollows(temporal_links[k])

SensingInv == TypeOK /\ Control /\ Weights
PipelineInv == SensingInv /\ SignalsFounded /\ CallsFounded

-----------------------------------------------------------------------------
(* For the SensingAgent, the program is the world Sensing describes.       *)

LEMMA SensingStep == SignalsFounded /\ [PNext]_pvars => [Next]_vars
<1> SUFFICES ASSUME SignalsFounded, [PNext]_pvars PROVE [Next]_vars
  OBVIOUS
<1>1. CASE Seed
  BY <1>1 DEF Seed, SeedStore, SeedGraph, Next, Feed
<1>2. CASE Ticks
  BY <1>2, PipelineConstants DEF Ticks, Next, Feed
<1>3. CASE Senses
  BY <1>3 DEF Senses, Next
<1>4. CASE Reasons
  <2>1. CASE R!Receive
    BY <1>4, <2>1 DEF Reasons, R!Receive, Next, Consumer, Receive
  <2>2. CASE ~ R!Receive
    BY <1>4, <2>2
    DEF Reasons, R!CheckCache, R!GetRelated, R!Activate, R!ProduceInsight,
        R!InsertEntry, R!channelVars, vars, hotVars
  <2>3. QED
    BY <2>1, <2>2
<1>5. CASE CallsGraph \/ Correlates \/ Links
  BY <1>5 DEF CallsGraph, Correlates, Links
<1>6. CASE Panics
  BY <1>6 DEF Panics, R!Panic, R!ReceiverGone, SignalsFounded, Next, Consumer,
              DropReceiver
<1>7. CASE UNCHANGED pvars
  BY <1>7 DEF pvars
<1>8. QED
  BY <1>1, <1>2, <1>3, <1>4, <1>5, <1>6, <1>7 DEF PNext, ReasoningAgent

LEMMA PipelineInit == PInit => PipelineInv
<1> SUFFICES ASSUME PInit PROVE PipelineInv
  OBVIOUS
<1>1. TypeOK /\ Control
  BY SensingConstants DEF PInit, Init, TypeOK, Control, Stores, EmptyStore
<1>2. Weights
  BY DEF PInit, Init, Weights, EmptyStore, Contains
<1>3. SignalsFounded
  BY DEF PInit, Init, R!Init, SignalsFounded, QueueFounded, Busy
<1>4. CallsFounded
  BY DEF PInit, G!Init, G!NoLinks, CallsFounded, LinkFollows
<1>5. QED
  BY <1>1, <1>2, <1>3, <1>4 DEF PipelineInv, SensingInv

LEMMA WeightsStep == SensingInv /\ [PNext]_pvars => Weights'
<1> SUFFICES ASSUME SensingInv, [PNext]_pvars PROVE Weights'
  OBVIOUS
<1> USE DEF SensingInv
<1>a. /\ store \in Stores /\ snapshots \in Stores
      /\ prev_weights \in [Entity -> Int \cup {Unseen}]
  BY DEF TypeOK
<1>1. ASSUME NEW e \in Entity, Register(e) PROVE Weights'
  BY <1>1, <1>a, PipelineConstants
  DEF Register, Weights, Inserted, NewEntity, Contains, agentVars, Stores
<1>2. ASSUME NEW e \in Entity, TickPrice(e) \/ RaiseTrigger(e) PROVE Weights'
  BY <1>2, <1>a
  DEF TickPrice, RaiseTrigger, PriceTicked, CausalTriggerSet, Weights, Contains,
      agentVars, Stores, WeightedEntity
<1>3. ASSUME NEW e \in Entity, UpdateWeight(e) PROVE Weights'
  BY <1>3, <1>a, PipelineConstants
  DEF UpdateWeight, WeightUpdated, Weights, Contains, agentVars, Stores,
      WeightedEntity
<1>4. CASE SnapshotShard
  BY <1>4, <1>a DEF SnapshotShard, Weights, Contains, hotVars
<1>5. CASE ResetTrigger
  BY <1>5, <1>a
  DEF ResetTrigger, CausalTriggerSet, Weights, Contains, Stores, WeightedEntity,
      Control
<1>6. CASE CheckSpike
  BY <1>6, <1>a DEF CheckSpike, Remembered, Weights, Contains, Stores, Control
<1>7. CASE NextEntity \/ SendCausalTrigger \/ EndSweep \/ Wake
  BY <1>7 DEF NextEntity, SendCausalTrigger, EndSweep, Wake, Weights, Contains,
              hotVars
<1>8. CASE UNCHANGED <<store, agentVars>>
  BY <1>8 DEF Weights, Contains, agentVars
<1>9. CASE Seed
  BY <1>1, <1>8, <1>9 DEF Seed, SeedStore, SeedGraph, vars, hotVars
<1>10. CASE Ticks
  BY <1>2, <1>3, <1>10, PipelineConstants DEF Ticks
<1>11. CASE Senses
  BY <1>4, <1>5, <1>6, <1>7, <1>11 DEF Senses, Agent
<1>12. CASE ReasoningAgent
  BY <1>8, <1>12 DEF ReasoningAgent, Reasons, CallsGraph, Correlates, Links,
                     Panics, vars, hotVars
<1>13. CASE UNCHANGED pvars
  BY <1>8, <1>13 DEF pvars, vars, hotVars
<1>14. QED
  BY <1>9, <1>10, <1>11, <1>12, <1>13 DEF PNext

-----------------------------------------------------------------------------
(* What the SensingAgent sends.                                            *)

(* A sensing step sends at most one signal, a founded one, while there is  *)
(* room; and an id is remembered as spiked for good.                       *)
Sends ==
  /\ spiked \subseteq spiked'
  /\ UNCHANGED connected
  /\ \/ UNCHANGED channel
     \/ /\ Accepts
        /\ \E s \in Signals : /\ Founded(s, spiked')
                              /\ channel' = Append(channel, s)

LEMMA SensesSends == SensingInv /\ Senses => Sends
<1> SUFFICES ASSUME SensingInv, Senses PROVE Sends
  OBVIOUS
<1> USE DEF SensingInv
<1>1. spiked \subseteq spiked' /\ UNCHANGED connected
  BY DEF Senses, Agent, SnapshotShard, NextEntity, ResetTrigger,
         SendCausalTrigger, CheckSpike, EndSweep, Wake, hotVars
<1>2. CASE SendCausalTrigger
  <2>1. CausalTrigger(current) \in Signals
    BY <1>2 DEF SendCausalTrigger, Control, Signals
  <2>2. Founded(CausalTrigger(current), spiked')
    BY <2>1 DEF Founded, CausalTrigger, Signals, WeightSpike, Distance
  <2>3. QED
    BY <1>1, <1>2, <2>1, <2>2 DEF SendCausalTrigger, TrySend, Sends
<1>3. CASE CheckSpike /\ Spikes(current)
  <2> DEFINE w == snapshots[current].weight
             b == Baseline(current)
             s == WeightSpike(current, Distance(w, b), w)
  <2>1. pc = "spike" /\ current \in Entity /\ Contains(snapshots, current)
    BY <1>3 DEF CheckSpike, Control
  <2>2. w \in Int /\ b \in Int
    BY <2>1 DEF TypeOK, Stores, WeightedEntity, Contains, Baseline
  <2>3. w \in Weight /\ b \in Weight
    BY <2>1 DEF Weights, Baseline
  <2>4. Distance(w, b) = Distance(b, w)
    BY <2>2 DEF Distance
  <2>5. s \in Signals
    BY <2>1, <2>3, <2>4 DEF Signals
  <2>6. current \in spiked'
    BY <1>3, <2>1 DEF Senses
  <2>7. s.entity_id = current
    BY DEF WeightSpike
  <2>8. channel' = IF Accepts THEN Append(channel, s) ELSE channel
    BY <1>3 DEF CheckSpike, TrySend
  <2> HIDE DEF s
  <2>9. s \in Signals /\ Founded(s, spiked')
    BY <2>5, <2>6, <2>7 DEF Founded, Signals, CausalTrigger, WeightSpike, Distance
  <2>10. QED
    BY <1>1, <2>8, <2>9 DEF Sends
<1>4. CASE ~ SendCausalTrigger /\ ~ (CheckSpike /\ Spikes(current))
  <2>1. UNCHANGED channel
    BY <1>4 DEF Senses, Agent, SnapshotShard, NextEntity, ResetTrigger,
                CheckSpike, EndSweep, Wake, hotVars
  <2>2. QED
    BY <1>1, <2>1 DEF Sends
<1>5. QED
  BY <1>2, <1>3, <1>4

LEMMA FoundedAfterSend ==
  ASSUME QueueFounded, Sends
  PROVE  QueueFounded'
<1>1. \A s : Founded(s, spiked) => Founded(s, spiked')
  BY DEF Sends, Founded
<1>2. CASE UNCHANGED channel
  BY <1>1, <1>2 DEF QueueFounded
<1>3. ASSUME NEW s \in Signals, Founded(s, spiked'), channel' = Append(channel, s)
      PROVE  QueueFounded'
  <2>1. /\ channel' \in Seq(Signals)
        /\ DOMAIN channel' = 1..(Len(channel) + 1)
        /\ channel'[Len(channel) + 1] = s
        /\ \A i \in 1..Len(channel) : channel'[i] = channel[i]
        /\ DOMAIN channel = 1..Len(channel)
        /\ Len(channel) \in Nat
    BY <1>3 DEF QueueFounded
  <2>2. ASSUME NEW i \in DOMAIN channel' PROVE Founded(channel'[i], spiked')
    <3>1. CASE i \in 1..Len(channel)
      BY <3>1, <1>1, <2>1 DEF QueueFounded
    <3>2. CASE i = Len(channel) + 1
      BY <3>2, <1>3, <2>1
    <3>3. QED
      BY <3>1, <3>2, <2>1
  <2>3. QED
    BY <2>1, <2>2 DEF QueueFounded
<1>4. QED
  BY <1>2, <1>3 DEF Sends

-----------------------------------------------------------------------------
(* For the ReasoningAgent, the program is a sender as Reasoning describes. *)

LEMMA SignalFacts ==
  ASSUME NEW s \in Signals
  PROVE  s.entity_id \in Entity /\ s.event \in {"CausalTrigger", "WeightSpike"}
  BY DEF Signals, CausalTrigger, WeightSpike

LEMMA ReceivedFounded ==
  ASSUME QueueFounded, channel # <<>>, channel' = Tail(channel), UNCHANGED spiked
  PROVE  QueueFounded' /\ Founded(Head(channel), spiked)
<1>1. /\ channel \in Seq(Signals) /\ Len(channel) \in Nat /\ Len(channel) > 0
      /\ DOMAIN channel = 1..Len(channel)
  BY DEF QueueFounded
<1>2. Head(channel) = channel[1] /\ 1 \in DOMAIN channel
  BY <1>1
<1>3. /\ channel' \in Seq(Signals)
      /\ DOMAIN channel' = 1..(Len(channel) - 1)
      /\ \A i \in 1..(Len(channel) - 1) : channel'[i] = channel[i + 1]
  BY <1>1
<1>4. ASSUME NEW i \in DOMAIN channel' PROVE Founded(channel'[i], spiked')
  <2>1. i + 1 \in DOMAIN channel /\ channel'[i] = channel[i + 1]
    BY <1>1, <1>3
  <2>2. QED
    BY <2>1 DEF QueueFounded
<1>5. QED
  BY <1>2, <1>3, <1>4 DEF QueueFounded

LEMMA SignalsStay ==
  ASSUME SignalsFounded, UNCHANGED <<channel, connected, reasonerVars, spiked>>
  PROVE  SignalsFounded'
  BY DEF SignalsFounded, QueueFounded, reasonerVars

(* The agent goes on with the signal in hand.                              *)
LEMMA SignalsGoOn ==
  ASSUME SignalsFounded, UNCHANGED <<channel, connected, sending, signal, spiked>>,
         rpc \in Busy, rpc' \in Busy,
         rpc' = "links" => signal.event = "WeightSpike"
  PROVE  SignalsFounded'
  BY DEF SignalsFounded, QueueFounded, Busy

LEMMA SignalsStep == SensingInv /\ SignalsFounded /\ [PNext]_pvars => SignalsFounded'
<1> SUFFICES ASSUME SensingInv, SignalsFounded, [PNext]_pvars
             PROVE  SignalsFounded'
  OBVIOUS
<1>1. CASE Seed
  BY <1>1, SignalsStay DEF Seed, SeedStore, SeedGraph, Register, vars, hotVars
<1>2. CASE Ticks
  BY <1>2, SignalsStay DEF Ticks, TickPrice, UpdateWeight, RaiseTrigger
<1>3. CASE Senses
  <2>1. Sends /\ UNCHANGED reasonerVars
    BY <1>3, SensesSends DEF Senses
  <2>2. QueueFounded'
    BY <2>1, FoundedAfterSend DEF SignalsFounded
  <2>3. rpc \in Busy => Founded(signal, spiked')
    BY <2>1 DEF SignalsFounded, Founded, Sends
  <2>4. QED
    BY <2>1, <2>2, <2>3 DEF SignalsFounded, reasonerVars, Sends
<1>4. CASE Reasons
  <2>0. UNCHANGED spiked
    BY <1>4 DEF Reasons
  <2>1. CASE R!Receive
    <3>1. QueueFounded' /\ Founded(Head(channel), spiked)
      BY <2>0, <2>1, ReceivedFounded DEF R!Receive, SignalsFounded
    <3>2. Head(channel).entity_id # Nobody
      BY <3>1, SignalFacts, SensingConstants DEF Founded
    <3>3. rpc' = "contains" /\ signal' = Head(channel)
      BY <2>1, <3>2 DEF R!Receive
    <3>4. UNCHANGED <<connected, sending>> /\ rpc # "dead"
      BY <2>1 DEF R!Receive
    <3>5. QED
      BY <2>0, <3>1, <3>3, <3>4 DEF SignalsFounded, Busy
  <2>2. CASE R!CheckCache
    <3>1. /\ UNCHANGED <<channel, connected, sending, signal>>
          /\ rpc = "contains" /\ rpc' \in {"get", "activate"}
      BY <2>2 DEF R!CheckCache, R!channelVars
    <3>2. QED
      BY <2>0, <3>1, SignalsGoOn DEF Busy
  <2>3. CASE R!GetRelated \/ R!Activate
    <3>1. /\ UNCHANGED <<channel, connected, sending, signal>>
          /\ rpc \in {"get", "activate"}
          /\ rpc' = IF signal.event = "WeightSpike" THEN "links" ELSE "insight"
      BY <2>3 DEF R!GetRelated, R!Activate, R!AfterLookup, R!channelVars
    <3>2. QED
      BY <2>0, <3>1, SignalsGoOn DEF Busy
  <2>4. CASE R!ProduceInsight /\ ~ cache_hit
    <3>1. /\ UNCHANGED <<channel, connected, sending, signal>>
          /\ rpc = "insight" /\ rpc' = "insert"
      BY <2>4 DEF R!ProduceInsight, R!channelVars
    <3>2. QED
      BY <2>0, <3>1, SignalsGoOn DEF Busy
  <2>5. CASE (R!ProduceInsight /\ cache_hit) \/ R!InsertEntry
    <3>1. /\ UNCHANGED <<channel, connected, sending>>
          /\ rpc \in {"insight", "insert"} /\ rpc' = "recv"
      BY <2>5 DEF R!ProduceInsight, R!InsertEntry, R!EndCycle, R!channelVars
    <3>2. QED
      BY <2>0, <3>1 DEF SignalsFounded, QueueFounded, Busy
  <2>6. QED
    BY <1>4, <2>1, <2>2, <2>3, <2>4, <2>5 DEF Reasons
<1>5. ASSUME R!Materialize, UNCHANGED <<vars, spiked>> PROVE SignalsFounded'
  <2>1. /\ UNCHANGED <<channel, connected, sending, signal, spiked>>
        /\ rpc = "links" /\ rpc' = "insight"
    BY <1>5 DEF R!Materialize, R!channelVars, vars, hotVars
  <2>2. QED
    BY <2>1, SignalsGoOn DEF Busy
<1>6. CASE CallsGraph \/ Correlates \/ Links
  BY <1>5, <1>6, SignalsStay DEF CallsGraph, Correlates, Links, vars, hotVars
<1>7. CASE Panics
  <2>1. /\ channel' = <<>> /\ rpc' = "dead" /\ UNCHANGED <<sending, spiked>>
    BY <1>7 DEF Panics, R!Panic, R!ReceiverGone
  <2>2. QueueFounded'
    BY <2>1 DEF QueueFounded
  <2>3. QED
    BY <2>1, <2>2 DEF SignalsFounded, Busy
<1>8. CASE UNCHANGED pvars
  BY <1>8, SignalsStay DEF pvars, vars, hotVars
<1>9. QED
  BY <1>1, <1>2, <1>3, <1>4, <1>6, <1>7, <1>8 DEF PNext, ReasoningAgent

LEMMA ReasoningStep ==
  SensingInv /\ SignalsFounded /\ [PNext]_pvars => [R!Next]_(R!vars)
<1> SUFFICES ASSUME SensingInv, SignalsFounded, [PNext]_pvars
             PROVE  [R!Next]_(R!vars)
  OBVIOUS
<1>1. UNCHANGED <<channel, connected, reasonerVars>> => UNCHANGED R!vars
  BY DEF reasonerVars, R!vars, R!channelVars, R!agentVars
<1>2. CASE Seed
  BY <1>1, <1>2 DEF Seed, SeedStore, SeedGraph, Register, vars, hotVars
<1>3. CASE Ticks
  BY <1>1, <1>3 DEF Ticks, TickPrice, UpdateWeight, RaiseTrigger
<1>4. CASE Senses
  <2>1. Sends /\ UNCHANGED reasonerVars
    BY <1>4, SensesSends DEF Senses
  <2>2. CASE UNCHANGED channel
    BY <1>1, <2>1, <2>2 DEF Sends
  <2>3. CASE ~ UNCHANGED channel
    <3>1. R!Offer
      BY <2>1, <2>3 DEF Sends, Accepts, SignalsFounded, reasonerVars, R!Offer,
                        R!agentVars
    <3>2. QED
      BY <3>1 DEF R!Next
  <2>4. QED
    BY <2>2, <2>3
<1>5. CASE Reasons
  BY <1>5 DEF Reasons, R!Next, R!Agent, R!Cycle
<1>6. CASE CallsGraph \/ Correlates \/ Links
  BY <1>1, <1>6 DEF CallsGraph, Correlates, Links, vars, hotVars, R!Next, R!Agent,
                    R!Cycle
<1>7. CASE Panics
  BY <1>7 DEF Panics, R!Next, R!Agent, R!Cycle
<1>8. CASE UNCHANGED pvars
  BY <1>1, <1>8 DEF pvars, vars, hotVars
<1>9. QED
  BY <1>2, <1>3, <1>4, <1>5, <1>6, <1>7, <1>8 DEF PNext, ReasoningAgent

-----------------------------------------------------------------------------
(* For the graph, the ReasoningAgent is a caller as CausalGraph describes. *)

(* The signal it calls for is of an entity.                                *)
LEMMA CalledForEntity ==
  ASSUME SignalsFounded, rpc = "links"
  PROVE  /\ signal.entity_id \in Entity
         /\ signal.entity_id \in spiked
  BY SignalFacts DEF SignalsFounded, Founded, Busy

LEMMA GraphStep == SignalsFounded /\ [PNext]_pvars => [G!Next]_(G!vars)
<1> SUFFICES ASSUME SignalsFounded, [PNext]_pvars
             PROVE  [G!Next]_(G!vars)
  OBVIOUS
<1>1. UNCHANGED causalVars => UNCHANGED G!vars
  BY DEF causalVars, G!vars, G!graphVars, G!callVars
<1>2. CASE Seed
  <2>1. CASE \E e \in Entity : SeedStore(e)
    BY <1>1, <2>1 DEF SeedStore
  <2>2. CASE \E e \in Entity : SeedGraph(e)
    BY <2>2 DEF SeedGraph, G!Next
  <2>3. QED
    BY <1>2, <2>1, <2>2 DEF Seed
<1>3. CASE Ticks \/ Senses \/ Reasons \/ Panics
  BY <1>1, <1>3 DEF Ticks, Senses, Reasons, Panics
<1>4. CASE CallsGraph
  BY <1>1, <1>4, CalledForEntity DEF CallsGraph, G!Next, G!Materialize
<1>5. CASE Correlates
  BY <1>5 DEF Correlates, G!Next, G!Materialize
<1>6. CASE Links
  BY <1>6 DEF Links, G!Next, G!Materialize
<1>7. CASE UNCHANGED pvars
  BY <1>1, <1>7 DEF pvars
<1>8. QED
  BY <1>2, <1>3, <1>4, <1>5, <1>6, <1>7 DEF PNext, ReasoningAgent

(* The links of a call do not change, and an id that spiked has spiked.    *)
LEMMA CallsStay ==
  ASSUME CallsFounded, UNCHANGED <<gpc, src, new_links, temporal_links>>,
         spiked \subseteq spiked'
  PROVE  CallsFounded'
  BY DEF CallsFounded, LinkFollows

(* Writing links that follow spikes over links that do.                    *)
LEMMA WrittenFollow ==
  ASSUME NEW links, NEW new,
         \A k \in Label \X Label : LinkFollows(links[k]),
         \A k \in Label \X Label : LinkFollows(new[k])
  PROVE  \A k \in Label \X Label : LinkFollows(G!Written(links, new)[k])
  BY DEF G!Written

LEMMA CallsStep == SensingInv /\ SignalsFounded /\ CallsFounded /\ [PNext]_pvars
                     => CallsFounded'
<1> SUFFICES ASSUME SensingInv, SignalsFounded, CallsFounded, [PNext]_pvars
             PROVE  CallsFounded'
  OBVIOUS
<1>0. /\ DOMAIN gpc = {Reasoner} /\ DOMAIN src = {Reasoner}
      /\ DOMAIN new_links = {Reasoner}
  BY DEF CallsFounded
<1>1. CASE Seed
  <2>1. UNCHANGED <<gpc, src, new_links, temporal_links, spiked>>
    BY <1>1 DEF Seed, SeedStore, SeedGraph, causalVars, G!TagEntity,
                G!RecordReturn, G!callVars
  <2>2. QED
    BY <2>1, CallsStay
<1>2. CASE Ticks \/ Reasons \/ Panics
  BY <1>2, CallsStay DEF Ticks, Reasons, Panics, causalVars
<1>3. CASE Senses
  <2>1. spiked \subseteq spiked' /\ UNCHANGED causalVars
    BY <1>3, SensesSends DEF Senses, Sends
  <2>2. QED
    BY <2>1, CallsStay DEF causalVars
<1>4. CASE CallsGraph
  <2>1. CASE UNCHANGED causalVars
    BY <1>4, <2>1, CallsStay DEF CallsGraph, causalVars
  <2>2. CASE G!ReadSource(Reasoner, signal.entity_id)
    <3>1. /\ gpc' = [gpc EXCEPT ![Reasoner] = "correlate"]
          /\ src' = [src EXCEPT ![Reasoner] = signal.entity_id]
          /\ UNCHANGED <<new_links, temporal_links>>
      BY <2>2 DEF G!ReadSource, G!graphVars
    <3>2. rpc = "links" /\ UNCHANGED spiked
      BY <1>4 DEF CallsGraph
    <3>3. signal.entity_id \in spiked
      BY <3>2, CalledForEntity
    <3>4. QED
      BY <1>0, <3>1, <3>2, <3>3 DEF CallsFounded, LinkFollows
  <2>3. QED
    BY <1>4, <2>1, <2>2 DEF CallsGraph
<1>5. CASE Correlates
  <2>0. UNCHANGED spiked
    BY <1>5 DEF Correlates
  <2>1. PICK b \in Entity : G!ReadCandidate(Reasoner, b)
    BY <1>5 DEF Correlates
  <2>2. CASE G!SkipCandidate(Reasoner, b)
    BY <2>0, <2>2, CallsStay DEF G!SkipCandidate, G!graphVars
  <2>3. CASE G!LinkCandidate(Reasoner, b)
    <3> DEFINE found == G!LinksBetween(src[Reasoner], src_labels[Reasoner], b,
                                       entity_labels[b])
    <3>1. /\ gpc[Reasoner] = "correlate"
          /\ new_links' = [new_links EXCEPT ![Reasoner] = G!Written(@, found)]
          /\ UNCHANGED <<gpc, src, temporal_links>>
      BY <2>3 DEF G!LinkCandidate, G!graphVars
    <3>2. src[Reasoner] \in spiked
      BY <3>1 DEF CallsFounded
    <3>3. \A k \in Label \X Label : LinkFollows(found[k])
      BY <3>2 DEF G!LinksBetween, LinkFollows
    <3> HIDE DEF found
    <3>4. \A k \in Label \X Label : LinkFollows(new_links[Reasoner][k])
      BY DEF CallsFounded
    <3>5. \A k \in Label \X Label :
             LinkFollows(G!Written(new_links[Reasoner], found)[k])
      BY <3>3, <3>4, WrittenFollow
    <3>6. /\ new_links'[Reasoner] = G!Written(new_links[Reasoner], found)
          /\ DOMAIN new_links' = {Reasoner}
      BY <1>0, <3>1
    <3>7. QED
      BY <2>0, <3>1, <3>5, <3>6 DEF CallsFounded, LinkFollows
  <2>4. QED
    BY <2>1, <2>2, <2>3 DEF G!ReadCandidate
<1>6. CASE Links
  <2>1. UNCHANGED spiked
    BY <1>6 DEF Links
  <2>2. /\ gpc' = [gpc EXCEPT ![Reasoner] = "idle"]
        /\ src' = [src EXCEPT ![Reasoner] = NoEntity]
        /\ new_links' = [new_links EXCEPT ![Reasoner] = G!NoLinks]
        /\ \/ temporal_links' = G!Written(temporal_links, new_links[Reasoner])
           \/ UNCHANGED temporal_links
    BY <1>6 DEF Links, G!WriteLinks, G!FindNothing, G!Idle, G!graphVars
  <2>3. /\ gpc'[Reasoner] = "idle"
        /\ \A k \in Label \X Label : LinkFollows(new_links'[Reasoner][k])
        /\ DOMAIN gpc' = {Reasoner} /\ DOMAIN src' = {Reasoner}
        /\ DOMAIN new_links' = {Reasoner}
    BY <1>0, <2>2 DEF LinkFollows, G!NoLinks
  <2>4. \A k \in Label \X Label : LinkFollows(temporal_links'[k])
    BY <2>2, WrittenFollow DEF CallsFounded
  <2>5. QED
    BY <2>1, <2>3, <2>4 DEF CallsFounded, LinkFollows
<1>7. CASE UNCHANGED pvars
  BY <1>7, CallsStay DEF pvars, causalVars
<1>8. QED
  BY <1>1, <1>2, <1>3, <1>4, <1>5, <1>6, <1>7 DEF PNext, ReasoningAgent

-----------------------------------------------------------------------------
LEMMA PipelineStep == PipelineInv /\ [PNext]_pvars => PipelineInv'
<1>1. PipelineInv /\ [PNext]_pvars => TypeOK' /\ Control'
  BY SensingStep, TypeStep DEF PipelineInv, SensingInv
<1>2. QED
  BY <1>1, WeightsStep, SignalsStep, CallsStep DEF PipelineInv, SensingInv

LEMMA PipelineInvariant == PSpec => []PipelineInv
  BY PipelineInit, PipelineStep, PTL DEF PSpec

(* The program as main and Orchestrator wire it does to the store and the  *)
(* channel nothing that Sensing does not let feeds, agent and consumer do, *)
(* so that every safety property proved of Sensing is one of the program:  *)
(* the receiver is dropped once, by the agent that dies.                   *)
THEOREM ProgramKeepsToSensing == PSpec => Init /\ [][Next]_vars
<1>1. PInit => Init
  BY DEF PInit
<1>2. PipelineInv => SignalsFounded
  BY DEF PipelineInv
<1>3. QED
  BY <1>1, <1>2, SensingStep, PipelineInvariant, PTL DEF PSpec

(* The ReasoningAgent sees a sender that offers well-formed signals within *)
(* the capacity and never closes, and works its cycles in turn, whatever   *)
(* the graph does in them.                                                 *)
THEOREM ProgramKeepsToReasoning == PSpec => R!Init /\ [][R!Next]_(R!vars)
<1>1. PInit => R!Init
  BY DEF PInit
<1>2. PipelineInv => SensingInv /\ SignalsFounded
  BY DEF PipelineInv
<1>3. QED
  BY <1>1, <1>2, ReasoningStep, PipelineInvariant, PTL DEF PSpec

(* The graph is seeded and called as CausalGraph describes: for entities,  *)
(* one call at a time.                                                     *)
LEMMA ProgramKeepsToGraph == PSpec => G!Spec
<1>1. PInit => G!Init
  BY DEF PInit
<1>2. PipelineInv => SignalsFounded
  BY DEF PipelineInv
<1>3. QED
  BY <1>1, <1>2, GraphStep, PipelineInvariant, PTL
  DEF PSpec, G!Spec

(* Every TEMPORAL_LINK starts at an entity whose weight spiked: from the   *)
(* signal that was sent, through the channel and the agent's hands, to the *)
(* links a call found and those it wrote.                                  *)
THEOREM LinksAlwaysFollowSpikes == PSpec => []LinksFollowSpikes
<1>1. PipelineInv => LinksFollowSpikes
  BY DEF PipelineInv, CallsFounded, LinkFollows, LinksFollowSpikes,
         G!TemporalLinksSnapshot
<1>2. QED
  BY <1>1, PipelineInvariant, PTL

-----------------------------------------------------------------------------
(* Where a trigger on its way can go.                                      *)

LEMMA HasTriggerIsTriggered ==
  ASSUME NEW e \in Entity
  PROVE  HasTrigger(e) <=> e \in Triggered(store)
  BY DEF HasTrigger, Triggered

\* What TriggersVanishNowhereElse says of one entity in one step
Goes(e) == OnItsWay(e) =>
             \/ OnItsWay(e)'
             \/ signal' = CausalTrigger(e)
             \/ Sending(e) /\ ~Accepts
             \/ rpc' = "dead"

(* While the bit, the agent's hands and the queue keep it, it stays.       *)
LEMMA GoesOn ==
  ASSUME NEW e \in Entity,
         HasTrigger(e) => OnItsWay(e)',
         Sending(e) => OnItsWay(e)' \/ ~Accepts,
         Queued(e) => Queued(e)'
  PROVE  Goes(e)
  BY DEF Goes, OnItsWay

LEMMA FeedsKeepTriggers ==
  ASSUME store \in Stores, UNCHANGED <<channel, pc, current>>,
         Triggered(store) \subseteq Triggered(store)', NEW e \in Entity
  PROVE  Goes(e)
<1>1. HasTrigger(e) => HasTrigger(e)'
  BY DEF HasTrigger, Triggered
<1>2. Sending(e) => Sending(e)'
  BY DEF Sending
<1>3. Queued(e) => Queued(e)'
  BY DEF Queued
<1>4. QED
  BY <1>1, <1>2, <1>3, GoesOn DEF OnItsWay

LEMMA QueueKeepsTriggers ==
  ASSUME SignalsFounded, Sends, NEW e \in Entity
  PROVE  Queued(e) => Queued(e)'
<1>1. CASE UNCHANGED channel
  BY <1>1 DEF Queued
<1>2. ASSUME NEW s \in Signals, channel' = Append(channel, s), Queued(e)
      PROVE  Queued(e)'
  <2>1. PICK i \in DOMAIN channel : channel[i] = CausalTrigger(e)
    BY <1>2 DEF Queued
  <2>2. channel \in Seq(Signals)
    BY DEF SignalsFounded, QueueFounded
  <2>3. i \in DOMAIN channel' /\ channel'[i] = channel[i]
    BY <1>2, <2>1, <2>2
  <2>4. QED
    BY <2>1, <2>3 DEF Queued
<1>3. QED
  BY <1>1, <1>2 DEF Sends

LEMMA SensesKeepTriggers ==
  ASSUME SensingInv, SignalsFounded, Senses, NEW e \in Entity
  PROVE  Goes(e)
<1> USE DEF SensingInv
<1>1. Queued(e) => Queued(e)'
  BY SensesSends, QueueKeepsTriggers
<1>2. CASE ResetTrigger
  <2>1. /\ Triggered(store') = Triggered(store) \ {current}
        /\ pc = "reset" /\ pc' = "send" /\ current' = current
    BY <1>2, TriggerSetFacts DEF ResetTrigger, TypeOK, Control
  <2>2. HasTrigger(e) => HasTrigger(e)' \/ Sending(e)'
    BY <2>1 DEF HasTrigger, Triggered, Sending
  <2>3. ~ Sending(e)
    BY <2>1 DEF Sending
  <2>4. QED
    BY <1>1, <2>2, <2>3, GoesOn DEF OnItsWay
<1>3. CASE SendCausalTrigger
  <2>1. HasTrigger(e) => HasTrigger(e)'
    BY <1>3 DEF SendCausalTrigger, HasTrigger
  <2>2. ASSUME Sending(e), Accepts PROVE Queued(e)'
    <3>1. channel' = Append(channel, CausalTrigger(e)) /\ channel \in Seq(Signals)
      BY <1>3, <2>2
      DEF SendCausalTrigger, TrySend, Sending, SignalsFounded, QueueFounded
    <3>2. /\ Len(channel) + 1 \in DOMAIN channel'
          /\ channel'[Len(channel) + 1] = CausalTrigger(e)
      BY <3>1
    <3>3. QED
      BY <3>2 DEF Queued
  <2>3. QED
    BY <1>1, <2>1, <2>2, GoesOn DEF OnItsWay
<1>4. CASE Agent /\ ~ ResetTrigger /\ ~ SendCausalTrigger
  <2>1. UNCHANGED store /\ pc # "send"
    BY <1>4 DEF Agent, SnapshotShard, NextEntity, CheckSpike, EndSweep, Wake, hotVars
  <2>2. (HasTrigger(e) => HasTrigger(e)') /\ ~ Sending(e)
    BY <2>1 DEF HasTrigger, Sending
  <2>3. QED
    BY <1>1, <2>2, GoesOn DEF OnItsWay
<1>5. QED
  BY <1>2, <1>3, <1>4 DEF Senses

LEMMA ReasonsTakeTriggers ==
  ASSUME SensingInv, SignalsFounded, Reasons, NEW e \in Entity
  PROVE  Goes(e)
<1>1. UNCHANGED <<store, pc, current>>
  BY DEF Reasons, agentVars
<1>2. (HasTrigger(e) => HasTrigger(e)') /\ (Sending(e) => Sending(e)')
  BY <1>1 DEF HasTrigger, Sending
<1>3. CASE R!Receive
  <2>1. channel \in Seq(Signals) /\ channel # <<>> /\ channel' = Tail(channel)
    BY <1>3 DEF R!Receive, SignalsFounded, QueueFounded
  <2>2. Head(channel) = channel[1] /\ 1 \in DOMAIN channel
    BY <2>1
  <2>3. Head(channel).entity_id \in Entity
    BY <2>1, <2>2, SignalFacts DEF SignalsFounded, QueueFounded
  <2>4. signal' = Head(channel)
    BY <1>3, <2>3, SensingConstants DEF R!Receive
  <2>5. ASSUME Queued(e) PROVE Queued(e)' \/ signal' = CausalTrigger(e)
    <3>1. PICK i \in DOMAIN channel : channel[i] = CausalTrigger(e)
      BY <2>5 DEF Queued
    <3>2. CASE i = 1
      BY <2>2, <2>4, <3>1, <3>2
    <3>3. CASE i # 1
      <4>1. i - 1 \in DOMAIN channel' /\ channel'[i - 1] = channel[i]
        BY <2>1, <3>1, <3>3
      <4>2. QED
        BY <3>1, <4>1 DEF Queued
    <3>4. QED
      BY <3>2, <3>3
  <2>6. QED
    BY <1>2, <2>5 DEF Goes, OnItsWay
<1>4. CASE ~ R!Receive
  <2>1. UNCHANGED channel
    BY <1>4 DEF Reasons, R!CheckCache, R!GetRelated, R!Activate, R!ProduceInsight,
                R!InsertEntry, R!channelVars
  <2>2. Queued(e) => Queued(e)'
    BY <2>1 DEF Queued
  <2>3. QED
    BY <1>2, <2>2, GoesOn DEF OnItsWay
<1>5. QED
  BY <1>3, <1>4

(* A trigger that is on its way - raised in the store, in the hands of the *)
(* SensingAgent or queued - stays on its way or is handed to the           *)
(* ReasoningAgent: no feed, sweep, cycle or call of the graph loses it.    *)
(* Only the full or closed channel does, and the agent's death.            *)
THEOREM TriggersVanishHere == PSpec => TriggersVanishNowhereElse
<1>1. PipelineInv /\ [PNext]_pvars => [\A e \in Entity : Goes(e)]_pvars
  <2> SUFFICES ASSUME PipelineInv, PNext, NEW e \in Entity
               PROVE  Goes(e)
    OBVIOUS
  <2>0. SensingInv /\ SignalsFounded /\ store \in Stores
    BY DEF PipelineInv, SensingInv, TypeOK
  <2>1. CASE Seed
    <3>1. CASE \E f \in Entity : SeedStore(f)
      <4>1. /\ Triggered(store') = Triggered(store)
            /\ UNCHANGED <<channel, pc, current>>
        BY <2>0, <3>1, InsertedFacts DEF SeedStore, Register, agentVars
      <4>2. QED
        BY <2>0, <4>1, FeedsKeepTriggers DEF Triggered
    <3>2. CASE \E f \in Entity : SeedGraph(f)
      <4>1. UNCHANGED <<store, channel, pc, current>>
        BY <3>2 DEF SeedGraph, vars, hotVars, agentVars
      <4>2. QED
        BY <2>0, <4>1, FeedsKeepTriggers DEF Triggered
    <3>3. QED
      BY <2>1, <3>1, <3>2 DEF Seed
  <2>2. CASE Ticks
    <3>1. UNCHANGED <<channel, pc, current>>
      BY <2>2 DEF Ticks, TickPrice, UpdateWeight, RaiseTrigger, agentVars
    <3>2. Triggered(store) \subseteq Triggered(store')
      <4>1. PICK f \in Entity : TickPrice(f) \/ UpdateWeight(f) \/ RaiseTrigger(f)
        BY <2>2, PipelineConstants DEF Ticks
      <4>2. CASE TickPrice(f)
        BY <2>0, <4>2, PriceTickedFacts DEF TickPrice
      <4>3. CASE UpdateWeight(f)
        BY <2>0, <4>3, WeightUpdatedFacts, SensingConstants DEF UpdateWeight
      <4>4. CASE RaiseTrigger(f)
        BY <2>0, <4>4, TriggerSetFacts DEF RaiseTrigger
      <4>5. QED
        BY <4>1, <4>2, <4>3, <4>4
    <3>3. QED
      BY <2>0, <3>1, <3>2, FeedsKeepTriggers DEF Triggered
  <2>3. CASE Senses
    BY <2>0, <2>3, SensesKeepTriggers
  <2>4. CASE Reasons
    BY <2>0, <2>4, ReasonsTakeTriggers
  <2>5. CASE CallsGraph \/ Correlates \/ Links
    <3>1. UNCHANGED <<store, channel, pc, current>>
      BY <2>5 DEF CallsGraph, Correlates, Links, vars, hotVars, agentVars
    <3>2. QED
      BY <2>0, <3>1, FeedsKeepTriggers DEF Triggered
  <2>6. CASE Panics
    BY <2>6 DEF Panics, R!Panic, Goes
  <2>7. QED
    BY <2>1, <2>2, <2>3, <2>4, <2>5, <2>6 DEF PNext, ReasoningAgent
<1>2. [\A e \in Entity : Goes(e)]_pvars
        => [\A e \in Entity : OnItsWay(e) =>
              \/ OnItsWay(e)'
              \/ signal' = CausalTrigger(e)
              \/ Sending(e) /\ ~Accepts
              \/ rpc' = "dead"]_pvars
  BY DEF Goes
<1>3. QED
  BY <1>1, <1>2, PipelineInvariant, PTL DEF PSpec, TriggersVanishNowhereElse

(* In the program as wired, too, the copy that makes the SensingAgent      *)
(* announce a trigger is never out of date.                                *)
THEOREM ProgramCopiesCorrect == PSpec => []TriggerCopiesAreCurrent
<1>1. PInit => TriggerCopiesAreCurrent
  BY DEF PInit, Init, TriggerCopiesAreCurrent, EmptyStore, Contains
<1>2. PipelineInv => TypeOK /\ Control /\ SignalsFounded
  BY DEF PipelineInv, SensingInv
<1>3. QED
  BY <1>1, <1>2, SensingStep, CurrentStep, PipelineInvariant, PTL DEF PSpec

-----------------------------------------------------------------------------
(* What is proved of CausalGraph for every caller, label list and bound    *)
(* holds of the program's graph, which the ReasoningAgent alone calls.     *)
Graph == INSTANCE CausalGraphProof WITH
           pc <- gpc, Caller <- {Reasoner},
           TagLists <- {SeedLabels[e] : e \in Entity}, MaxHallucinations <- 0

LEMMA GraphAssumptions == Graph!GraphConstants
  BY PipelineConstants DEF Graph!GraphConstants

(* The program's G and the proofs' Graph are one module under two names.   *)
LEMMA SameOperators ==
  /\ \A S : G!Cardinality(S) = Graph!Cardinality(S)
  /\ \A s : G!Elements(s) = Graph!Elements(s)
  /\ \A l, s : G!Times(l, s) = Graph!Times(l, s)
  /\ \A s, x, n : G!Extended(s, x, n) = Graph!Extended(s, x, n)
  /\ \A s, l, e : G!InsertedInStore(s, l, e) = Graph!InsertedInStore(s, l, e)
  /\ \A e, s : G!EntityLabelsTagged(e, s) = Graph!EntityLabelsTagged(e, s)
<1>1. \A S : G!Cardinality(S) = Graph!Cardinality(S)
  BY DEF G!Cardinality, Graph!Cardinality
<1>2. \A s : G!Elements(s) = Graph!Elements(s)
  BY DEF G!Elements, Graph!Elements
<1>3. \A l, s : G!Times(l, s) = Graph!Times(l, s)
  BY <1>1 DEF G!Times, Graph!Times
<1>4. \A s, x, n : G!Extended(s, x, n) = Graph!Extended(s, x, n)
  BY DEF G!Extended, Graph!Extended
<1>5. \A s, l, e : G!InsertedInStore(s, l, e) = Graph!InsertedInStore(s, l, e)
  BY Zenon DEF G!InsertLabel, Graph!InsertLabel, G!Nil, Graph!Nil,
               G!InsertedInStore, Graph!InsertedInStore
<1>6. \A e, s : G!EntityLabelsTagged(e, s) = Graph!EntityLabelsTagged(e, s)
  BY DEF G!EntityLabelsTagged, Graph!EntityLabelsTagged
<1>7. QED
  BY <1>1, <1>2, <1>3, <1>4, <1>5, <1>6

LEMMA SameLinks ==
  /\ G!NoLinks = Graph!NoLinks
  /\ \A s, x : G!Written(s, x) = Graph!Written(s, x)
  /\ \A a, s, b, t : G!LinksBetween(a, s, b, t) = Graph!LinksBetween(a, s, b, t)
  /\ \A s, t : G!DifferentPairs(s, t) = Graph!DifferentPairs(s, t)
  /\ \A e : G!Sharing(e) = Graph!Sharing(e)
  BY SameOperators
  DEF G!NoLinks, Graph!NoLinks, G!Written, Graph!Written, G!LinksBetween,
      Graph!LinksBetween, G!DifferentPairs, Graph!DifferentPairs, G!Sharing,
      Graph!Sharing

LEMMA SameTagging ==
  ASSUME NEW e \in Entity, NEW s
  PROVE  G!TagEntity(e, s) => Graph!TagEntity(e, s)
  BY SameOperators DEF G!TagEntity, Graph!TagEntity, G!callVars, Graph!callVars

LEMMA SameRecording ==
  ASSUME NEW e \in Entity
  PROVE  G!RecordReturn(e) => Graph!RecordReturn(e)
  BY DEF G!RecordReturn, Graph!RecordReturn, G!Rolled, Graph!Rolled, G!tagVars,
         Graph!tagVars, G!callVars, Graph!callVars

LEMMA SameCall ==
  ASSUME NEW c, G!Materialize(c)
  PROVE  Graph!Materialize(c)
<1>1. ASSUME NEW e \in Entity, G!ReadSource(c, e) PROVE Graph!ReadSource(c, e)
  BY <1>1, SameLinks DEF G!ReadSource, Graph!ReadSource, G!graphVars, Graph!graphVars
<1>2. ASSUME NEW e \in Entity, G!ReadCandidate(c, e) PROVE Graph!ReadCandidate(c, e)
  BY <1>2, SameLinks, SameOperators
  DEF G!ReadCandidate, Graph!ReadCandidate, G!SkipCandidate, Graph!SkipCandidate,
      G!LinkCandidate, Graph!LinkCandidate, G!graphVars, Graph!graphVars
<1>3. G!Idle(c) => Graph!Idle(c)
  BY SameLinks DEF G!Idle, Graph!Idle
<1>4. G!WriteLinks(c) => Graph!WriteLinks(c)
  BY <1>3, SameLinks
  DEF G!WriteLinks, Graph!WriteLinks, G!FactsCounted, Graph!FactsCounted,
      G!tagVars, Graph!tagVars
<1>5. G!FindNothing(c) => Graph!FindNothing(c)
  BY <1>3 DEF G!FindNothing, Graph!FindNothing, G!graphVars, Graph!graphVars
<1>6. QED
  BY <1>1, <1>2, <1>4, <1>5 DEF G!Materialize, Graph!Materialize

LEMMA SameSpec == G!Spec => Graph!Spec
<1>1. G!Init => Graph!Init
  BY SameLinks DEF G!Init, Graph!Init, G!EmptyLabelStore, Graph!EmptyLabelStore,
                   G!Nil, Graph!Nil
<1>2. [G!Next]_(G!vars) => [Graph!Next]_(Graph!vars)
  <2>1. G!RecordHallucination => Graph!RecordHallucination
    BY DEF G!RecordHallucination, Graph!RecordHallucination, G!tagVars,
           Graph!tagVars, G!callVars, Graph!callVars
  <2>2. G!Next => Graph!Next
    BY <2>1, SameTagging, SameRecording, SameCall DEF G!Next, Graph!Next
  <2>3. UNCHANGED G!vars => UNCHANGED Graph!vars
    BY DEF G!vars, Graph!vars, G!graphVars, Graph!graphVars, G!callVars, Graph!callVars
  <2>4. QED
    BY <2>2, <2>3
<1>3. QED
  BY <1>1, <1>2, PTL DEF G!Spec, Graph!Spec

LEMMA SameLists ==
  /\ Graph!ListMeetsEveryLabel => G!ListMeetsEveryLabel
  /\ Graph!IndexesAgree => G!IndexesAgree
<1>1. \A s : Graph!TraverseAll(s) = G!TraverseAll(s)
  BY Zenon DEF G!TraverseAll, Graph!TraverseAll, G!Nil, Graph!Nil
<1>2. \A s : /\ Graph!WellLinked(s) <=> G!WellLinked(s)
             /\ Graph!LabelCount(s) = G!LabelCount(s)
  BY SameOperators
  DEF G!WellLinked, Graph!WellLinked, G!LabelCount, Graph!LabelCount, G!Nil, Graph!Nil
<1>3. \A s, l : Graph!EntitiesForLabel(s, l) = G!EntitiesForLabel(s, l)
  BY DEF G!EntitiesForLabel, Graph!EntitiesForLabel, G!Nil, Graph!Nil
<1>4. QED
  BY <1>1, <1>2, <1>3, SameOperators
  DEF G!IndexesAgree, Graph!IndexesAgree, G!ListMeetsEveryLabel,
      Graph!ListMeetsEveryLabel

LEMMA SameGrounds ==
  /\ Graph!LinksGrounded => G!LinksGrounded
  /\ Graph!FactsCoverLinks => G!FactsCoverLinks
<1>1. Graph!TemporalLinksSnapshot = G!TemporalLinksSnapshot
  BY DEF G!TemporalLinksSnapshot, Graph!TemporalLinksSnapshot
<1>2. \A a, b, s, d : Graph!Grounds(a, b, s, d) <=> G!Grounds(a, b, s, d)
  BY SameOperators DEF G!Grounds, Graph!Grounds
<1>3. QED
  BY <1>1, <1>2, SameOperators
  DEF G!LinksGrounded, Graph!LinksGrounded, G!FactsCoverLinks,
      Graph!FactsCoverLinks, G!TemporalLinkCount, Graph!TemporalLinkCount

(* In the program as main and Orchestrator wire it, from seeding on and    *)
(* over a panic in the midst of a call, every link of the graph is         *)
(* grounded and counted, and the three records of its tags agree.          *)
THEOREM ProgramGraphIsSound ==
  PSpec => [](G!LinksGrounded /\ G!FactsCoverLinks
                /\ G!IndexesAgree /\ G!ListMeetsEveryLabel)
<1>1. PSpec => Graph!Spec
  BY ProgramKeepsToGraph, SameSpec
<1>2. /\ Graph!Spec => []Graph!LinksGrounded
      /\ Graph!Spec => []Graph!FactsCoverLinks
      /\ Graph!Spec => []Graph!IndexesAgree
      /\ Graph!Spec => []Graph!ListMeetsEveryLabel
  BY GraphAssumptions, Graph!EveryLinkIsGrounded, Graph!FactsAlwaysCover,
     Graph!IndexesAlwaysAgree, Graph!ListAlwaysMeetsEveryLabel
<1>3. QED
  BY <1>1, <1>2, SameLists, SameGrounds, PTL

=============================================================================
