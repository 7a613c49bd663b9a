------------------------- MODULE InvalidationProof --------------------------
(***************************************************************************)
(* Proofs about Invalidation: for any entities, labels, shards of the      *)
(* cache, signals and concurrent invalidations, none misses an entry it is *)
(* meant for.                                                              *)
(***************************************************************************)
EXTENDS Invalidation, TLAPS

(* Where the agent is in a cycle it has a signal for an entity in hand.    *)
InHand == pc \in {"contains", "get", "activate", "links", "insight", "insert"}
            => signal \in SignalEvent /\ signal.entity_id \in Entity

CacheInv == CacheTypeOK /\ InHand /\ InvalidationReaches

(* The entries an update concerns are those its invalidation affects.      *)
LEMMA ConcernedIsAffected ==
  ASSUME NEW e, NEW labels, NEW shard, NEW k
  PROVE  Concerns(e, labels, k)
           <=> Affected([entity |-> e, labels |-> labels, shard |-> shard], k)
BY DEF Concerns, Affected

(* Dirtying entries leaves every entry one, and what it says and when it   *)
(* was inserted.                                                           *)
LEMMA DirtiedFacts ==
  ASSUME entries \in [Entity -> CachedReasoning \cup {NoEntry}], NEW call
  PROVE  /\ Dirtied(call) \in [Entity -> CachedReasoning \cup {NoEntry}]
         /\ \A k \in Entity :
              /\ Dirtied(call)[k] = NoEntry <=> entries[k] = NoEntry
              /\ Dirtied(call)[k] # NoEntry /\ ~Dirtied(call)[k].dirty
                   => /\ Dirtied(call)[k] = entries[k]
                      /\ ~(ShardOf[k] = call.shard /\ Affected(call, k))
<1> SUFFICES ASSUME NEW k \in Entity
             PROVE  /\ Dirtied(call)[k] \in CachedReasoning \cup {NoEntry}
                    /\ Dirtied(call)[k] = NoEntry <=> entries[k] = NoEntry
                    /\ Dirtied(call)[k] # NoEntry /\ ~Dirtied(call)[k].dirty
                         => /\ Dirtied(call)[k] = entries[k]
                            /\ ~(ShardOf[k] = call.shard /\ Affected(call, k))
  BY DEF Dirtied
<1>1. CASE ShardOf[k] = call.shard /\ Present(k) /\ Affected(call, k)
  <2> DEFINE d == [entries[k] EXCEPT !.dirty = TRUE]
  <2>1. Dirtied(call)[k] = d
    BY <1>1 DEF Dirtied
  <2>2. entries[k] \in CachedReasoning
    BY <1>1 DEF Present
  <2>3. d \in CachedReasoning /\ d.dirty = TRUE
    BY <2>2 DEF CachedReasoning
  <2>4. d # NoEntry
    BY <2>3, NoEntryIsNone
  <2>5. QED
    BY <1>1, <2>1, <2>3, <2>4 DEF Present
<1>2. CASE ~(ShardOf[k] = call.shard /\ Present(k) /\ Affected(call, k))
  BY <1>2 DEF Dirtied, Present
<1>3. QED
  BY <1>1, <1>2

(* A call goes from shard to shard up to the last.                         *)
LEMMA NextShardFacts ==
  ASSUME NEW call \in Call
  PROVE  /\ NextShard(call) \in Call \cup {NoCall}
         /\ \A k \in Entity : ShardOf[k] > call.shard =>
              /\ NextShard(call) # NoCall
              /\ NextShard(call).shard = call.shard + 1
              /\ Affected(NextShard(call), k) <=> Affected(call, k)
<1> USE InvalidationConstants DEF Call
<1>1. CASE call.shard < NumShards
  <2> DEFINE n == [call EXCEPT !.shard = @ + 1]
  <2>1. n \in Call /\ n.shard = call.shard + 1 /\ n.entity = call.entity
        /\ n.labels = call.labels
    BY <1>1
  <2>2. NextShard(call) = n
    BY <1>1 DEF NextShard
  <2> HIDE DEF n
  <2>3. QED
    BY <2>1, <2>2 DEF Affected
<1>2. CASE ~(call.shard < NumShards)
  BY <1>2 DEF NextShard
<1>3. QED
  BY <1>1, <1>2

LEMMA SweptFacts ==
  ASSUME entries \in [Entity -> CachedReasoning \cup {NoEntry}]
  PROVE  /\ Swept \in [Entity -> CachedReasoning \cup {NoEntry}]
         /\ \A k \in Entity : Swept[k] # NoEntry => Swept[k] = entries[k]
BY DEF Swept

LEMMA CacheInit == CInit => CacheInv
<1> SUFFICES ASSUME CInit PROVE CacheInv
  OBVIOUS
<1> USE ReasoningConstants, InvalidationConstants DEF CInit, Init
<1>1. TypeOK
  <2>1. channel \in Seq(SignalEvent) /\ Len(channel) <= Capacity
    OBVIOUS
  <2>2. entries \in [Entity -> CachedReasoning \cup {NoEntry}]
    OBVIOUS
  <2>3. graph \in Version
    BY DEF Version
  <2>4. connected \in BOOLEAN /\ sending \in BOOLEAN /\ cache_hit \in BOOLEAN
    OBVIOUS
  <2>5. QED
    BY <2>1, <2>2, <2>3, <2>4 DEF TypeOK
<1>2. CacheTypeOK
  BY <1>1 DEF CacheTypeOK
<1>3. InHand /\ InvalidationReaches
  BY DEF InHand, InvalidationReaches, Clean, Present
<1>4. QED
  BY <1>2, <1>3 DEF CacheInv

-----------------------------------------------------------------------------
(* The steps of the channel and the agent.                                 *)

LEMMA AgentTypeStep ==
  ASSUME TypeOK, InHand, Next
  PROVE  TypeOK' /\ InHand'
<1> USE ReasoningConstants DEF TypeOK, InHand
<1>1. CASE Offer
  BY <1>1 DEF Offer, agentVars
<1>2. CASE DropSender
  BY <1>2 DEF DropSender, agentVars
<1>3. CASE Receive
  <2>1. Head(channel) \in SignalEvent /\ channel' \in Seq(SignalEvent)
        /\ Len(channel') <= Capacity
    BY <1>3 DEF Receive
  <2>2. CASE Head(channel).entity_id = Sentinel
    BY <1>3, <2>1, <2>2 DEF Receive
  <2>3. CASE Head(channel).entity_id # Sentinel
    <3>1. Head(channel).entity_id \in Entity
      BY <2>1, <2>3
    <3>2. QED
      BY <1>3, <2>1, <2>3, <3>1 DEF Receive
  <2>4. QED
    BY <2>2, <2>3
<1>4. CASE CheckCache
  <2>1. cache_hit' \in BOOLEAN
    BY <1>4 DEF CheckCache, Clean
  <2>2. QED
    BY <1>4, <2>1 DEF CheckCache, channelVars
<1>5. CASE GetRelated
  <2>1. signal.entity_id \in Entity
    BY <1>5 DEF GetRelated
  <2>2. related' \in Version \cup {NoContent}
    BY <1>5, <2>1 DEF GetRelated, Clean, Present, CachedReasoning
  <2>3. QED
    BY <1>5, <2>2 DEF GetRelated, AfterLookup, channelVars
<1>6. CASE Activate
  BY <1>6 DEF Activate, AfterLookup, channelVars
<1>7. CASE Materialize
  BY <1>7 DEF Materialize, channelVars
<1>8. CASE Panic
  <2>1. <<>> \in Seq(SignalEvent) /\ Len(<<>>) <= Capacity
    BY ReasoningConstants
  <2>2. channel' = <<>> /\ connected' = FALSE
    BY <1>8 DEF Panic, ReceiverGone
  <2>3. QED
    BY <1>8, <2>1, <2>2 DEF Panic
<1>9. CASE ProduceInsight
  BY <1>9 DEF ProduceInsight, EndCycle, channelVars
<1>10. CASE InsertEntry
  <2> DEFINE x == [related_entities |-> related, inserted_ns |-> graph,
                   dirty |-> FALSE]
  <2>1. x \in CachedReasoning
    BY DEF CachedReasoning
  <2>2. entries' = [entries EXCEPT ![signal.entity_id] = x]
    BY <1>10 DEF InsertEntry
  <2> HIDE DEF x
  <2>3. entries' \in [Entity -> CachedReasoning \cup {NoEntry}]
    BY <2>1, <2>2
  <2>4. QED
    BY <1>10, <2>3 DEF InsertEntry, EndCycle, channelVars
<1>11. CASE ShutDown
  BY <1>11 DEF ShutDown, ReceiverGone
<1>12. QED
  BY <1>1, <1>2, <1>3, <1>4, <1>5, <1>6, <1>7, <1>8, <1>9, <1>10, <1>11
  DEF Next, Agent, Cycle

(* Of these steps only the fill touches the cache, and none the graph.     *)
LEMMA AgentFills ==
  ASSUME TypeOK, Next
  PROVE  /\ graph' = graph
         /\ \/ entries' = entries
            \/ \E x \in CachedReasoning :
                 /\ x.inserted_ns = graph /\ ~x.dirty
                 /\ entries' = [entries EXCEPT ![signal.entity_id] = x]
<1>1. CASE InsertEntry
  <2> DEFINE x == [related_entities |-> related, inserted_ns |-> graph,
                   dirty |-> FALSE]
  <2>1. x \in CachedReasoning /\ x.inserted_ns = graph /\ ~x.dirty
    BY DEF CachedReasoning, TypeOK
  <2>2. entries' = [entries EXCEPT ![signal.entity_id] = x]
    BY <1>1 DEF InsertEntry
  <2> HIDE DEF x
  <2>3. QED
    BY <1>1, <2>1, <2>2 DEF InsertEntry
<1>2. CASE ~InsertEntry
  BY <1>2
  DEF Next, Agent, Cycle, Offer, DropSender, Receive, CheckCache, GetRelated,
      Activate, Materialize, Panic, ProduceInsight, ShutDown
<1>3. QED
  BY <1>1, <1>2

-----------------------------------------------------------------------------
LEMMA CacheStep == CacheInv /\ [CNext]_cvars => CacheInv'
<1> SUFFICES ASSUME CacheInv, [CNext]_cvars
             PROVE  CacheInv'
  OBVIOUS
<1> USE ReasoningConstants, InvalidationConstants
<1>t. TypeOK /\ InHand /\ InvalidationReaches /\ CacheTypeOK
  BY DEF CacheInv, CacheTypeOK
<1>g. graph \in Nat /\ entries \in [Entity -> CachedReasoning \cup {NoEntry}]
      /\ touched \in [Entity -> 0..graph] /\ calls \in [Ingestor -> Call \cup {NoCall}]
  BY <1>t DEF TypeOK, Version, CacheTypeOK
<1>1. CASE Next /\ UNCHANGED <<invalidatorVars, evictorVars>>
  <2>1. TypeOK' /\ InHand'
    BY <1>1, <1>t, AgentTypeStep
  <2>2. graph' = graph
    BY <1>1, <1>t, AgentFills
  <2>3. CacheTypeOK'
    BY <1>1, <1>t, <2>1, <2>2 DEF CacheTypeOK, invalidatorVars, evictorVars
  <2>4. ASSUME NEW k \in Entity, Clean(k)', entries'[k].inserted_ns < touched'[k]
        PROVE  Awaited(k)'
    <3>1. touched' = touched /\ calls' = calls
      BY <1>1 DEF invalidatorVars
    <3>2. touched[k] <= graph
      BY <1>g
    <3>3. entries'[k] = entries[k]
      BY <1>1, <1>t, <1>g, <2>4, <3>1, <3>2, AgentFills
    <3>4. Clean(k) /\ entries[k].inserted_ns < touched[k]
      BY <2>4, <3>1, <3>3 DEF Clean, Present
    <3>5. QED
      BY <1>t, <3>1, <3>4 DEF InvalidationReaches, Awaited, Awaits
  <2>5. QED
    BY <2>1, <2>3, <2>4 DEF CacheInv, InvalidationReaches
<1>2. ASSUME NEW i \in Ingestor, NEW e \in Entity, NEW labels \in SUBSET Label,
             UpdateNode(i, e, labels)
      PROVE  CacheInv'
  <2> DEFINE call == [entity |-> e, labels |-> labels, shard |-> 1]
  <2>1. graph' = graph + 1 /\ entries' = entries /\ calls[i] = NoCall
        /\ calls' = [calls EXCEPT ![i] = call]
        /\ touched' = [k \in Entity |-> IF Concerns(e, labels, k) THEN graph'
                                                                  ELSE touched[k]]
    BY <1>2 DEF UpdateNode
  <2>2. graph' \in Version
    BY <1>2, <1>g, <2>1 DEF UpdateNode, Version
  <2>3. TypeOK' /\ InHand'
    BY <1>2, <1>t, <2>2 DEF UpdateNode, TypeOK, InHand, channelVars, agentVars
  <2>4. touched' \in [Entity -> 0..graph']
    BY <1>g, <2>1
  <2>5. call \in Call
    BY DEF Call
  <2>a. call.shard = 1 /\ \A k \in Entity : Concerns(e, labels, k) <=> Affected(call, k)
    BY ConcernedIsAffected
  <2> HIDE DEF call
  <2>6. calls' \in [Ingestor -> Call \cup {NoCall}]
    BY <1>g, <2>1, <2>5
  <2>7. CacheTypeOK'
    BY <1>2, <1>t, <2>3, <2>4, <2>6 DEF UpdateNode, CacheTypeOK, evictorVars
  <2>8. ASSUME NEW k \in Entity, Clean(k)', entries'[k].inserted_ns < touched'[k]
        PROVE  Awaited(k)'
    <3>1. Clean(k) /\ entries'[k] = entries[k]
      BY <2>1, <2>8 DEF Clean, Present
    <3>2. CASE Concerns(e, labels, k)
      <4>1. calls'[i] = call /\ call # NoCall
        BY <1>g, <2>1, <2>5
      <4>2. Affected(call, k) /\ call.shard <= ShardOf[k]
        BY <2>a, <3>2
      <4>3. Awaits(i, k)'
        BY <4>1, <4>2 DEF Awaits
      <4>4. QED
        BY <4>3 DEF Awaited
    <3>3. CASE ~Concerns(e, labels, k)
      <4>1. entries[k].inserted_ns < touched[k]
        BY <2>1, <2>8, <3>1, <3>3
      <4>2. PICK j \in Ingestor : Awaits(j, k)
        BY <1>t, <3>1, <4>1 DEF InvalidationReaches, Awaited
      <4>3. calls'[j] = calls[j]
        BY <1>g, <2>1, <4>2 DEF Awaits
      <4>4. Awaits(j, k)'
        BY <4>2, <4>3 DEF Awaits
      <4>5. QED
        BY <4>4 DEF Awaited
    <3>4. QED
      BY <3>2, <3>3
  <2>9. QED
    BY <2>3, <2>7, <2>8 DEF CacheInv, InvalidationReaches
<1>3. ASSUME NEW i \in Ingestor, InvalidateShard(i)
      PROVE  CacheInv'
  <2>1. entries' = Dirtied(calls[i]) /\ touched' = touched /\ graph' = graph
        /\ calls[i] \in Call /\ calls' = [calls EXCEPT ![i] = NextShard(calls[i])]
    BY <1>3, <1>g DEF InvalidateShard
  <2>2. TypeOK' /\ InHand'
    BY <1>3, <1>t, <1>g, <2>1, DirtiedFacts
    DEF InvalidateShard, TypeOK, InHand, channelVars, agentVars
  <2>3. calls' \in [Ingestor -> Call \cup {NoCall}]
    BY <1>g, <2>1, NextShardFacts
  <2>4. CacheTypeOK'
    BY <1>3, <1>t, <2>1, <2>2, <2>3 DEF InvalidateShard, CacheTypeOK, evictorVars
  <2>5. ASSUME NEW k \in Entity, Clean(k)', entries'[k].inserted_ns < touched'[k]
        PROVE  Awaited(k)'
    <3>1. entries'[k] = entries[k]
          /\ ~(ShardOf[k] = calls[i].shard /\ Affected(calls[i], k))
      BY <1>g, <2>1, <2>5, DirtiedFacts DEF Clean, Present
    <3>2. Clean(k) /\ entries[k].inserted_ns < touched[k]
      BY <2>1, <2>5, <3>1 DEF Clean, Present
    <3>3. PICK j \in Ingestor : Awaits(j, k)
      BY <1>t, <3>2 DEF InvalidationReaches, Awaited
    <3>4. CASE j # i
      <4>1. calls'[j] = calls[j]
        BY <1>g, <2>1, <3>4
      <4>2. Awaits(j, k)'
        BY <3>3, <4>1 DEF Awaits
      <4>3. QED
        BY <4>2 DEF Awaited
    <3>5. CASE j = i
      <4>1. Affected(calls[i], k) /\ calls[i].shard <= ShardOf[k]
        BY <3>3, <3>5 DEF Awaits
      <4>2. calls[i].shard \in Nat /\ ShardOf[k] \in Nat
        BY <2>1 DEF Call
      <4>3. ShardOf[k] > calls[i].shard
        BY <3>1, <4>1, <4>2
      <4>4. /\ NextShard(calls[i]) # NoCall
            /\ NextShard(calls[i]).shard <= ShardOf[k]
            /\ Affected(NextShard(calls[i]), k)
        BY <2>1, <4>1, <4>2, <4>3, NextShardFacts
      <4>5. calls'[i] = NextShard(calls[i])
        BY <1>g, <2>1
      <4>6. Awaits(i, k)'
        BY <4>4, <4>5 DEF Awaits
      <4>7. QED
        BY <4>6 DEF Awaited
    <3>6. QED
      BY <3>4, <3>5
  <2>6. QED
    BY <2>2, <2>4, <2>5 DEF CacheInv, InvalidationReaches
<1>4. CASE BeginEvict \/ EvictShard
  <2>1. touched' = touched /\ graph' = graph /\ calls' = calls
    BY <1>4 DEF BeginEvict, EvictShard, invalidatorVars, vars
  <2>2. entries' = entries \/ entries' = Swept
    BY <1>4 DEF BeginEvict, EvictShard, vars
  <2>3. TypeOK' /\ InHand'
    BY <1>4, <1>t, <1>g, <2>1, <2>2, SweptFacts
    DEF BeginEvict, EvictShard, vars, TypeOK, InHand, channelVars, agentVars
  <2>4. CacheTypeOK'
    BY <1>4, <1>t, <2>1, <2>3 DEF BeginEvict, EvictShard, CacheTypeOK
  <2>5. ASSUME NEW k \in Entity, Clean(k)', entries'[k].inserted_ns < touched'[k]
        PROVE  Awaited(k)'
    <3>1. entries'[k] = entries[k]
      BY <1>g, <2>2, <2>5, SweptFacts DEF Clean, Present
    <3>2. Clean(k) /\ entries[k].inserted_ns < touched[k]
      BY <2>1, <2>5, <3>1 DEF Clean, Present
    <3>3. QED
      BY <1>t, <2>1, <3>2 DEF InvalidationReaches, Awaited, Awaits
  <2>6. QED
    BY <2>3, <2>4, <2>5 DEF CacheInv, InvalidationReaches
<1>5. CASE UNCHANGED cvars
  BY <1>5, <1>t
  DEF cvars, vars, channelVars, agentVars, invalidatorVars, evictorVars, CacheInv,
      CacheTypeOK, TypeOK, InHand, InvalidationReaches, Clean, Present, Awaited, Awaits
<1>6. QED
  BY <1>1, <1>2, <1>3, <1>4, <1>5 DEF CNext, Callers

(* The cache, the agent and the callers' calls have the shapes they are    *)
(* meant to have.                                                          *)
THEOREM CacheTypeCorrect == CSpec => []CacheTypeOK
<1>1. CacheInv => CacheTypeOK
  BY DEF CacheInv
<1>2. QED
  BY <1>1, CacheInit, CacheStep, PTL DEF CSpec

(* invalidate_dirty reaches every entry it is meant for, whatever is       *)
(* filled, evicted and invalidated while it goes from shard to shard.      *)
THEOREM EveryEntryIsReached == CSpec => []InvalidationReaches
<1>1. CacheInv => InvalidationReaches
  BY DEF CacheInv
<1>2. QED
  BY <1>1, CacheInit, CacheStep, PTL DEF CSpec

=============================================================================
