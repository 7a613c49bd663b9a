---------------------------- MODULE Invalidation ----------------------------
(***************************************************************************)
(* The PrefixCache under all its users (crates/intelligence/src/cache.rs): *)
(* the ReasoningAgent of Reasoning, ingestors that call                    *)
(* invalidate_dirty, and a thread that calls evict_dirty.  The cache is a  *)
(* DashMap: get and insert lock one shard, iter_mut and retain go through  *)
(* the shards one lock after another, so lookups and fills happen in the   *)
(* middle of an invalidation or an eviction.                               *)
(***************************************************************************)
EXTENDS Reasoning

CONSTANTS Label,
          Contributing,  \* {L_CRUDE_SHOCK, L_RATE_HIKE}, as in produce_insight
          Ingestor,      \* threads that call invalidate_dirty
          Updates,       \* the nodes they update: an entity and labels
          NumShards,     \* shards of the cache's DashMap
          ShardOf,       \* the shard of an entity
          NoCall         \* no invalidation under way

\* An invalidate_dirty under way, and the next shard it comes to
Call == [entity : Entity, labels : SUBSET Label, shard : 1..NumShards]

ASSUME InvalidationConstants ==
  /\ Contributing \subseteq Label
  /\ Updates \subseteq Entity \X SUBSET Label
  /\ NumShards \in Nat \ {0}
  /\ ShardOf \in [Entity -> 1..NumShards]
  /\ NoCall \notin Call

VARIABLES touched,      \* history: the last update that concerns an entity's entry
          calls,        \* per ingestor, its invalidate_dirty under way
          epc, eshard   \* an evict_dirty under way

invalidatorVars == <<touched, calls>>
evictorVars == <<epc, eshard>>
cvars == <<vars, invalidatorVars, evictorVars>>

CInit == /\ Init
         /\ touched = [k \in Entity |-> 0]
         /\ calls = [i \in Ingestor |-> NoCall]
         /\ epc = "idle" /\ eshard = 1

-----------------------------------------------------------------------------
(* An ingestor updates a node of the graph and calls invalidate_dirty for  *)
(* it, as README.md:76 has it; several may do so at once.  In this         *)
(* repository only tests call invalidate_dirty and evict_dirty; the        *)
(* program leaves both out.                                                *)

\* The reasoning path of k depends on the node
Concerns(e, labels, k) == k = e \/ Contributing \cap labels # {}

UpdateNode(i, e, labels) ==
  /\ calls[i] = NoCall
  /\ graph < MaxUpdates
  /\ graph' = graph + 1
  /\ touched' = [k \in Entity |-> IF Concerns(e, labels, k) THEN graph' ELSE touched[k]]
  /\ calls' = [calls EXCEPT ![i] = [entity |-> e, labels |-> labels, shard |-> 1]]
  /\ UNCHANGED <<channelVars, entries, agentVars, evictorVars>>

\* Mutant: only an entry with all of its labels updated is affected
AffectedWholly(call, k) == k = call.entity \/ Contributing \subseteq call.labels
Affected(call, k) == k = call.entity \/ Contributing \cap call.labels # {}

Dirtied(call) == [k \in Entity |->
                    IF ShardOf[k] = call.shard /\ Present(k) /\ Affected(call, k)
                      THEN [entries[k] EXCEPT !.dirty = TRUE] ELSE entries[k]]

\* Mutant: the call ends after its first shard
NoNextShard(call) == NoCall
\* iter_mut goes on to the next shard, or the call returns
NextShard(call) == IF call.shard < NumShards THEN [call EXCEPT !.shard = @ + 1]
                                             ELSE NoCall

InvalidateShard(i) ==
  /\ calls[i] # NoCall
  /\ entries' = Dirtied(calls[i])
  /\ calls' = [calls EXCEPT ![i] = NextShard(@)]
  /\ UNCHANGED <<channelVars, graph, agentVars, touched, evictorVars>>

BeginEvict == /\ epc = "idle"
              /\ epc' = "evict"
              /\ UNCHANGED <<vars, invalidatorVars, eshard>>

\* retain(|_, v| !v.dirty)
Retained(k) == Present(k) /\ ~entries[k].dirty

Swept == [k \in Entity |-> IF ShardOf[k] = eshard /\ ~Retained(k) THEN NoEntry
                                                                  ELSE entries[k]]

\* Mutant: the shards are counted past the last
EvictShardRunOn ==
  /\ epc = "evict"
  /\ entries' = Swept
  /\ eshard' = eshard + 1
  /\ epc' = IF eshard < NumShards THEN epc ELSE "idle"
  /\ UNCHANGED <<channelVars, graph, agentVars, invalidatorVars>>

EvictShard ==
  /\ epc = "evict"
  /\ entries' = Swept
  /\ IF eshard < NumShards THEN eshard' = eshard + 1 /\ epc' = epc
                           ELSE eshard' = 1 /\ epc' = "idle"
  /\ UNCHANGED <<channelVars, graph, agentVars, invalidatorVars>>

Callers == \/ \E i \in Ingestor :
                \/ \E u \in Updates : UpdateNode(i, u[1], u[2])
                \/ InvalidateShard(i)
           \/ BeginEvict
           \/ EvictShard

CNext == \/ Next /\ UNCHANGED <<invalidatorVars, evictorVars>>
         \/ Callers

\* Threads run on; signals, updates and evictions come as they come
CSpec == CInit /\ [][CNext]_cvars /\ WF_cvars(Agent /\ UNCHANGED <<invalidatorVars, evictorVars>>)
               /\ \A i \in Ingestor : WF_cvars(InvalidateShard(i))

-----------------------------------------------------------------------------
CacheTypeOK == /\ TypeOK
               /\ touched \in [Entity -> 0..graph]
               /\ calls \in [Ingestor -> Call \cup {NoCall}]
               /\ epc \in {"idle", "evict"} /\ eshard \in 1..NumShards

\* An invalidation that affects k is under way and has not come to its shard yet
Awaits(i, k) ==
  calls[i] # NoCall /\ Affected(calls[i], k) /\ calls[i].shard <= ShardOf[k]
Awaited(k) == \E i \in Ingestor : Awaits(i, k)

(* invalidate_dirty reaches every entry it is meant for, whatever fills,   *)
(* evictions and other invalidations run while it goes from shard to       *)
(* shard: an entry that was in the cache when an update that concerns it   *)
(* was made is clean only as long as a call that affects it has still to   *)
(* come to its shard.                                                      *)
InvalidationReaches ==
  \A k \in Entity :
    Clean(k) /\ entries[k].inserted_ns < touched[k] => Awaited(k)

(* Whenever an update concerns an entry, it does not stay clean for good:  *)
(* it gets dirty, goes, or is filled again.                                *)
OutdatedIsCleared ==
  \A k \in Entity :
    LET Outdated == Clean(k) /\ entries[k].inserted_ns < touched[k]
    IN  Outdated ~> ~Outdated

-----------------------------------------------------------------------------
(* What the documentation says and the code does not do.                   *)

(* The related entities of a reasoning cycle are the "entities reached via *)
(* spreading activation from the trigger entity" (agent.rs:19).  contains()*)
(* and get_related() are two calls; an entry invalidated or evicted between*)
(* them makes the cycle a hit with no related entities at all.             *)
HitHasContent == pc = "insight" => related # NoContent

(* "When a Warm Tier graph node updates, the system calculates set         *)
(* intersections and flags only the specific dependent reasoning paths as  *)
(* `dirty = true`" (README.md:76): a clean entry is not of an older graph  *)
(* than the last update that concerns it.  The agent reads the graph       *)
(* before the LLM call and inserts after it; an update and its whole       *)
(* invalidation in between leave the entry clean.                          *)
CleanIsCurrent ==
  \A k \in Entity :
    Clean(k) /\ entries[k].related_entities < touched[k] => Awaited(k)

=============================================================================
