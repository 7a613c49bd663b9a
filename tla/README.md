# A TLA+ model of Atlas HPC

This directory specifies the concurrent core of the repository: the Hot Tier
store and its sensing agent, the feeds that write the store, the Warm Tier's
causal graph with its statistics and its search, the reasoning agent with its
prefix cache, the offload adapter, and the three tiers as `main` wires them.
`PROJECT.json` maps every definition to the lines it translates, and lists the
runs, the mutants that show each property can fail, the findings, the hazards
and the theorems. Paths below are relative to the repository.

To check: `tlc -config X.cfg M` for each run of `PROJECT.json`, and `tlapm` on
each `*Proof.tla`.

## 1. The system

| Part | State | Operations | Talks to |
|---|---|---|---|
| `HotStore` (`crates/hot-tier/src/lib.rs`, entity in `crates/atlas-types`) | a DashMap from ids to `WeightedEntity` | insert, get, tick_price, update_weight, set_causal_trigger, contains, len | written by feeds, swept by the sensing agent, read by the HTTP API |
| `SensingAgent` (same file) | the copies of the sweep, `prev_weights`, idle flag | endless sweep: copy all, then per entity trigger check and spike check | reads and resets bits in the store; `try_send` on a bounded channel |
| Signal channel (crossbeam) | at most `channel_capacity` events | try_send, recv, disconnect | sensing to reasoning |
| Feeds: seeding loop and synthetic feed (`src/main.rs`), `BinanceFeedAdapter` (`crates/hot-tier/src/binance.rs`) | position in a batch | contains, insert, tick, update, trigger as separate calls | the store |
| `CausalGraph` (`crates/warm-tier/src/lib.rs`) with `LabelStore` | labels per entity, entities per label, arena/list of labels, links, sample windows, two counters, under one RwLock | tag_entity, record_return, spreading_activation, materialize_temporal_link (with `pearson_with_pvalue`), record_hallucination | called by ingestors and the reasoning agent |
| `PrefixCache` (`crates/intelligence/src/cache.rs`) | a DashMap of cached reasonings with a dirty bit | contains, get_related, insert, invalidate_dirty, evict_dirty | reasoning agent, ingestors |
| `ReasoningAgent` (`agent.rs`) | one signal in hand | lookup, activation, link materialisation, LLM call, fill | channel, graph, cache, a local LLM |
| `SoftwareNvmeAdapter` (`offload.rs`) | next slot; files of a directory | offload, restore, drop_offload | the file system, other processes |
| `Orchestrator`, `main`, HTTP API, TEE guard, benches | - | wiring, start, one read per request, seal/unseal | all of the above |

What is hard: the agent works on copies that feeds overwrite; checks and the
actions they justify are separate calls on sharded maps; the graph's lock is
dropped twice in one call; iteration over a DashMap locks one shard after
another; the channel is lossy; file writes are not atomic and slot numbers start
again after a restart. `hazards` in `PROJECT.json` lists each at its line.

## 2. The modules

```
TriggerPath  <---- refined by ----  SensingHistory -- extends --> Sensing --> HotStore
                                                                  ^     ^
                                       Feeds -- extends, refines -'     |
                                                                        |
Pipeline -- extends, refines -------------------------------------------'
   |-- instantiates, refines --> Reasoning   <-- extends -- Invalidation
   '-- instantiates, refines --> CausalGraph <-- extends -- Correlation
                                     '-- extends --> LabelStore
SpreadingActivation        Offload
```

An `MC` module beside a component instantiates it for TLC; a `Proof` module
holds what is proved about it (`HotTierProof`: about SensingHistory and Feeds;
`CausalGraphProof`: about LabelStore too).

**HotStore** gives the store as a value (a function from ids to records or
`Absent`) and one operator for each call. DashMap holds a shard's lock for the
length of one call, so each call is one atomic step of its caller. Weights are
integers; `Alpha / Scale` and `Beta / Scale` stand for the two float constants.
Left out: `volatility_score` (never written) and `last_updated_ns` (never
compared).

**Sensing** has the store, the channel and the agent thread. `pc` is where
`run()` stands: `SnapshotShard` copies one shard (line 231), `NextEntity` starts
with a copied entity (239), `ResetTrigger` and `SendCausalTrigger` are lines 245
and 246, `CheckSpike` 254-269, `EndSweep` and `Wake` 272-275. Feeds may do
anything the store's API lets them between two such steps, except register an id
twice. `try_send` to a full or disconnected channel loses the event. No code
outside the tests clears a trigger bit but the agent, so no feed does so here.

**SensingHistory** adds history variables (raises not yet turned into an event,
weights an entity had) that never restrict a step, and states what relates the
past to the present.

**TriggerPath** is the abstract promise: a latch per entity, raised by feeds and
fired by the agent, each firing taking one from the latch and offering one event.

**Feeds** has the real writers call by call. (`main` seeds the store and starts
the synthetic feed; the `BinanceFeedAdapter` is complete but nothing starts it, and
the model runs both at once.) The synthetic feed draws one number and takes both
the id and the chance of a trigger from it, as `main` does. Feeds justifies the
one assumption of Sensing about feeds, and is shown to implement Sensing.

**LabelStore** and **CausalGraph** have the graph with its redundant records.
`materialize_temporal_link` is `ReadSource` (first read lock, 257-284),
`ReadCandidate` for each candidate in any order (293-326) and `WriteLinks`
(329-335), and several callers interleave with ingestors and one another. Only
the number of samples is kept; a correlation may come out either way. A link's
value is the pair of entities that justified it. The list of links a call has
found is kept as what inserting it will do, the last link of each key
(`new_links`), and its length (`new_facts`).

**Correlation** extends CausalGraph by the samples themselves, numbered, the
copies a call makes of them, and `pearson_with_pvalue`, computed exactly in
integers; each step is a step of CausalGraph with the choice of linking made.

**SpreadingActivation** is the breadth-first search, one label a step, with a
reference definition of reachability beside it. It runs under one read lock, so
the graph stands still. The clock may run out at any label. The reference
follows the code in what it takes for the last hop, which is one more than the
documentation says (section 5).

**Reasoning** is the reasoning agent's thread: a bounded channel, the loop over
it with lookup, activation, link materialisation, LLM call and fill, its end
when the sender goes, and the panic of `TemporalLink::new`. What an activation
returned is abstracted to how often the graph had been updated.

**Invalidation** puts the other users of the cache beside it. `iter_mut` and
`retain` are one step per shard. Nothing in the program calls `invalidate_dirty`
or `evict_dirty` (only tests do); the model has ingestors that call
`invalidate_dirty` after each update, as README.md:76 describes, any number of
them at once, and a thread that evicts. What `retain` frees is a definition
(`Swept`), not a property: it matters to what an eviction leaves of a fill, an
invalidation and a lookup.

**Pipeline** composes the steps of Sensing, Reasoning and CausalGraph the way
`main` and `Orchestrator::start` do: seeding of the store, seeding of the graph,
then a feed, the sensing agent and the reasoning agent on one channel, where a
cycle that wants links waits for its call of the graph, candidate by candidate.
Its properties say that each agent finds the others to be what its own module
assumes of them, and what becomes of a trigger and of a spike on the way
through all three.

**Offload** has adapters, one per process, over one directory. `fs::write` is
two steps (truncate, fill) that may each fail; a process may be killed and run
again at any point; a removed file that is still open is filled without a name.

## 3. The runs

| Run | Shows | Bounds |
|---|---|---|
| `sensing` | The agent never acts on a copied trigger bit that is no longer set; every raise becomes exactly one offered event, and does in the end (`ImplementsTriggerPath`, with its liveness); spikes tell of weights the entity had, though both sides of the difference are stale copies; baselines converge when weights settle | 2 ids in 2 shards, 2 surprises, channel of 1 |
| `trigger_lost` (violation) | A full channel or a dropped receiver loses a trigger whose bit is reset already | 1 id |
| `feeds_keep` | No insert overwrites an entity, no tick misses, every quoted symbol is sensed, although check and insert are two calls | 2 ids, one seeded, one discovered; 2 symbols; messages of 1 and 2 items |
| `trigger_chance` (violation) | Ids whose numbers never give a chance are ticked for ever without a trigger | 2 ids, 2 numbers |
| `graph_links` | The three records of tags agree, the list meets every label, every link and every half-done call is grounded in the graph as it is, facts cover links | 3 entities, 2 labels, 2 callers, window 2, history 2 |
| `correlation` | Windows hold the latest returns in order; how far the paired series can get out of step; the test of significance against a definition by moves | 2 entities, returns 0, 1, 2, window 3, history 2, 4 returns each |
| `activation` | The search returns only what is in reach, and all of it unless cut short | every graph of 4 entities and 4 labels, 2 hops |
| `cache` | Invalidations, two at once, from shard to shard miss nothing they are for, whatever is filled and evicted meanwhile, and no outdated entry stays clean for good; when the sender goes the agent works off the channel and ends | 2 ids in 2 shards, 2 ingestors, 3 labels, 2 updates (one of either kind), channel of 1 |
| `cache_hit` (violation) | A hit with no related entities: the entry goes between `contains()` and `get_related()` | 1 update |
| `stale_fill` (violation) | An update and its whole invalidation between the agent's read and its insert leave a clean entry of the old graph | 1 update |
| `offload` | Everyone restores the state he offloaded, over failures, restarts and reused slots | 1 process, 2 threads, 3 slots, 2 states |
| `pipeline` | The program as wired keeps to Sensing and Reasoning; a trigger gets from the store to the reasoning agent or is lost in one of two known places, and no single step loses it elsewhere; links start at entities that spiked | 2 ids, 1 of them ticked after seeding, 2 labels, channel of 1 |

Why the bounds are enough. Two ids in two shards make the sweep's copies of
different ages, which is all that ids can do to one another: the code treats
them independently but for the order of copying and the shared channel. A
channel of 1 is full half of the time. With alpha = beta = 1/2 the weights stay
in a range of three, or of two in `pipeline`, so no counter has to be cut off. In
`graph_links` the sample window equals the history needed, so that it rolls at
the critical size; in `correlation` it is one longer, so that a series can be
cut to the shorter, and four returns make it roll under a call. Three samples
are the fewest that have a p-value. Four entities and four labels make a chain
longer than the two hops of the agent. Two updates let an entry be invalidated,
filled again and invalidated once more, and two ingestors overtake one another
between the shards. In `pipeline` the second id is the
candidate, so it need not be ticked.

Bounds that are not the code's are the constants `MaxTags`, `MaxFacts`,
`MaxHallucinations`, `MaxReturns`, `MaxUpdates`, `MaxSlot` and `Live`. The first
four stop the runs of the graph, so `graph_links` and `correlation` do not check
deadlock; `activation` does not either, as the call returns.

Symmetry is used for safety only (`graph_links`, `correlation`, `activation`,
`offload`).

Fairness. The sensing agent (`WF_vars(Agent)`) is a thread that never waits for
the channel, and waits for a shard's lock only during one call of a feed. Feeds
and consumer have none in Sensing. In Feeds the threads run on, but when a
message arrives is not forced; `DrawsSpec` adds that each number is drawn again
and again (strong fairness of each draw), because the xorshift generator with
these shifts runs through all numbers. The reasoning agent goes on with a signal
it has (the LLM call returns or fails in the end; the client's own timeout sees
to it), and every `invalidate_dirty` that was begun goes on; updates, evictions and
signals come as they come. In Pipeline seeding ends and both agents run on; the
feed need not tick at all.

## 4. What is proved

Every safety property of the passing runs is a theorem (of a property with a
fairness part, its safety part):

| Module | Theorem | States |
|---|---|---|
| `SensingProof` | `TypeCorrect` | `Spec => [](TypeOK /\ Control)` |
| | `CopiesCorrect` | `Spec => []TriggerCopiesAreCurrent` |
| `HotTierProof` | `AllRaisesAccounted` | `HSpec => []RaisesAccounted` |
| | `PathSafety` | `HSpec => Path!Init /\ [][Path!Next]_Path!vars` |
| | `SpikesAreReal` | `HSpec => []SpikesAreRealMoves` |
| | `FeedsImplementSensing` | `FSpec => FeedsKeepToSensing` |
| | `EveryTickLands` | `FSpec => []TicksLand` |
| | `FeedTypeCorrect` | `FSpec => []FeedTypeOK` |
| `CausalGraphProof` | `EveryLinkIsGrounded` | `Spec => []LinksGrounded` |
| | `EveryCallIsGrounded` | `Spec => []CallsGrounded` |
| | `FactsAlwaysCover` | `Spec => []FactsCoverLinks` |
| | `GraphTypeCorrect` | `Spec => []GraphTypeOK` |
| | `IndexesAlwaysAgree` | `Spec => []IndexesAgree` |
| | `ListAlwaysMeetsEveryLabel` | `Spec => []ListMeetsEveryLabel` |
| `CorrelationProof` | `StatisticsImplementGraph` | `RSpec => Spec` |
| | `SamplesAreLatest` | `RSpec => []WindowIsLatest` |
| | `PairsStayInStep` | `RSpec => []PairsInStep` |
| | `SignificanceIsByMoves` | `RSpec => []SignificanceByMoves` |
| `SpreadingActivationProof` | `SearchTypeCorrect` | `Spec => []TypeOK` |
| | `SearchIsSound` | `Spec => []Sound` |
| | `SearchIsComplete` | `Spec => []Complete` |
| | `SearchIsInOrder` | `Spec => []QueueInOrder` |
| `InvalidationProof` | `CacheTypeCorrect` | `CSpec => []CacheTypeOK` |
| | `EveryEntryIsReached` | `CSpec => []InvalidationReaches` |
| `OffloadProof` | `OffloadTypeCorrect` | `Spec => []TypeOK`, if all callers share an adapter |
| | `EveryoneRestoresHisOwn` | `Spec => []RoundTrip`, likewise |
| | `EveryHandleLeadsToItsState` | `Spec => []HeldIsStored`, likewise |
| `PipelineProof` | `ProgramKeepsToSensing` | `PSpec => Init /\ [][Next]_vars` |
| | `ProgramKeepsToReasoning` | `PSpec => R!Init /\ [][R!Next]_(R!vars)` |
| | `LinksAlwaysFollowSpikes` | `PSpec => []LinksFollowSpikes` |
| | `TriggersVanishHere` | `PSpec => TriggersVanishNowhereElse` |
| | `ProgramCopiesCorrect` | `PSpec => []TriggerCopiesAreCurrent` |
| | `ProgramGraphIsSound` | `PSpec => []` of LinksGrounded, FactsCoverLinks, IndexesAgree, ListMeetsEveryLabel of its graph |

All hold for any sets of ids, prices, surprises, labels and symbols, any number
of shards and callers, any capacity, window and hop bound. They assume what the
modules' named ASSUMEs say (`WeightConstants`, `SensingConstants`,
`FeedConstants`, `GraphConstants`, `CallArguments`, `ReasoningConstants`,
`InvalidationConstants`, `OffloadConstants`, `CorrelationConstants`,
`PipelineConstants`, and that the markers are not values); TLC evaluates each of
them in a run.

*Sensing.* `TypeOK` is inductive with `Control`: the agent handles an entity
exactly when `pc` is one of reset, send, spike; that entity was copied, and its
copy has the bit set when `pc` is reset. The argument of
`TriggerCopiesAreCurrent` is that a bit, once set, is cleared by nobody but
the agent itself, at the entity it has in hand, and that no insert overwrites.

*SensingHistory.* `RaisesAccounted` is inductive given the above: the step that
resets the bit is the step from which the event is in flight, so the count
`BitLatch + InFlight` changes only where the history's credit does. That needs
`TriggerCopiesAreCurrent`: the reset must find a bit to reset. The refinement
then follows action by action: a raise of a clear bit is `Raise`, of a set bit a
stutter; `SendCausalTrigger` is `Fire`; a `WeightSpike` is `SendOther`. For the
spikes the strengthening is `SeenInv`: not only the store's weights but those of
every copy and every baseline are ones the entity had, and what was seen stays
seen.

*Feeds.* The strengthening is that all ids the seeding loop has passed are
present, that the adapter is at `insert` only while its id is absent, and that
ids present stay present (no call removes one). It makes every insert a
`Register` of Sensing.

*CausalGraph.* Tags are added and never taken away, and a window, once long
enough, stays so, because it rolls instead of emptying; so what a call read
under one lock is still true under a later one (`GroundsStays`). With that, and
with the reverse map pointing only at entities that have the label
(`ReverseIsTrue`), `LinksGrounded` and `CallsGrounded` are inductive together.
`FactsCoverLinks` needs that a call counts at least as many facts as it has
keys, a fact about finite sets.

*LabelStore.* `InsertLabel` keeps `WellLinked` (the list is the arena walked
from its last node to its first, the index points each label at its node), and
adds one entity to one label. A tag list is inserted label by label, and
`traverse_all` walks node by node: both are recursive functions, and what they
compute is proved by induction (`UpTo`, from the well-foundedness of `<`) over
the prefix inserted and the part walked.

*Correlation.* Samples are numbered as they are recorded. `IsWindow(s, n)` says
that s holds the last of n returns; push and remove(0) take a window of n to one
of n + 1 (`KeptIsWindow`), and what a call copied is still the window of the time
it began (`Copies`). Two windows laid side by side from their oldest samples are
then apart by as many returns as one has rolled beyond the other. `Sum` is a
recursive function; that it adds one more element at a time is an induction over
its prefixes (`SumOfOneMore`), and from it come, by induction over the length,
the sum of products of shifted values (`SumOfShifted`), and with it that
`Covariance` is n times, and `MovesTogether` exactly,
`n * sum(xy) - sum(x) * sum(y)` (`CovarianceIsJoint`, `MovesAreJoint`); and
Cauchy and Schwarz's inequality for the exact deviations (`CorrelationIsBounded`). The
test compares cov^2 with its share of var, so the common factor n^2 drops out,
and a variance of zero, which the code tests for, makes both sides zero by that
inequality (`FactorIsDropped`).

*SpreadingActivation.* The invariant has the usual parts of a breadth-first
search. What waits is in reach within its hops; a label that was seen and waits
no more has had its entities collected; all labels within the hops of the next
one were seen (`LevelIsSeen`), which makes the distance of a new label exact;
and the labels of collected entities were seen, until the last hop, at which
all labels in reach were. When the queue is empty, the labels seen are closed
under the step of the reference definition, and by induction on hops contain all
in reach.

*Invalidation.* The strengthening says of a clean entry older than an update
that concerns it not only that an invalidation has still to come to its shard
but that it will affect it (`Awaited`), which is so because the cache's
condition for an entry and the update's concern for it are the same; and that
the agent has a signal for an entity in hand wherever it may fill (`InHand`).

*Offload.* The strengthening: busy callers have different slots, all below
`next_slot`; a caller that has opened its file still has it by name, and empty;
a caller with a handle finds its state there.

*Pipeline.* The steps are those of the three modules, so what has to be shown is
that each finds its assumptions kept by the others. The reasoning agent drops the
receiver once, since it lives while `connected` (`SignalsFounded`); a signal the
sensing agent offers is one of the finitely many `Signals`, since copies and
baselines are weights the store had (`Weights`); and the graph is called for an
entity, since the signal in hand came through the channel. The same invariant
follows a spike from `spiked` over the channel (`QueueFounded`), the signal in
hand and the source of a call to the links (`CallsFounded`), across all three
modules. A trigger is followed step by step through the set of entities whose bit
is set (`Triggered`), `pc` and the queue: the reset puts it in the agent's hands,
the send in the queue, and the receiver takes it from the queue's head. The
safety theorems of Sensing and CausalGraph become theorems about the program by
the simulations (for the graph `ProgramKeepsToGraph`, which holds by the way
Pipeline is composed and is only a lemma): `Graph` instantiates
`CausalGraphProof` with the program's constants, of which `GraphConstants` is proved (`GraphAssumptions`), and
the `Same...` lemmas say that `Graph` and the `G` of Pipeline are the same
operators under two names.

Only model-checked: all liveness (`ImplementsTriggerPath` in full,
`BaselinesConverge`, `QuotedIsSensed`, `OutdatedIsCleared`, `DrainsAndEnds`,
`TriggerIsWorkedOn`, and the fairness in `SensingGoesOn` and `ReasoningGoesOn`),
which is out of the prover's reach.

## 5. What the runs found

Each violation run quotes a line of the repository that the code does not keep;
see `findings`.

- `trigger_lost`: the bit is reset before `try_send`, whose result is ignored.
  Send before the reset, or set the bit again when it fails.
- `cache_hit`: two lookups where one is meant; an entry that goes in between
  leaves a hit with an empty list. As `main` wires the program nobody takes one;
  the first caller of `invalidate_dirty` will.
- `stale_fill`: an entry is stamped clean at the end of a cycle that read the
  graph at its start.
- `trigger_chance`: the "1% chance" of a trigger is a certainty for one id in a
  hundred and nothing for the others, since 100 divides 10 000.

Divergences that are plain without a run:

- `max_hops` is the number of times the search goes on from entities to their
  labels; counted in label-to-entity hops, as `crates/warm-tier/src/lib.rs:202`
  does, it goes one further, and `max_hops` = 0 returns entities already.
- Every activation starts at `L_CRUDE_SHOCK`
  (`crates/intelligence/src/agent.rs:93`), not at the trigger entity (line 19):
  the related entities may have no connection with it.
- p is compared with 0.05 as an f64 (`crates/warm-tier/src/lib.rs:308`) and
  stored as an f32: one within about 1e-9 below 0.05 becomes 0.05, at which
  `TemporalLink::new` panics in a debug build (`crates/atlas-types/src/lib.rs:230`).
- `update_weight` never flips the trigger bit (README.md:61), and the agent polls
  (`crates/hot-tier/src/lib.rs:258`): a breach that is undone before the next
  sweep, or made before the first, is not seen.

And more of the kind: ids are hashes modulo the number of entities, start at the
reserved 0 and collide (`crates/atlas-types/src/lib.rs:28`, `:87`); the "sets" of labels and
entities hold duplicates (`crates/warm-tier/src/lib.rs:124`, `:126`); a constant
series may get a tiny variance and a perfect correlation, as the mean is rounded
(`crates/warm-tier/src/lib.rs:412`); entries are filed under two fixed labels
(`crates/intelligence/src/agent.rs:148`), not those the activation went through
(`cache.rs:23`); `invalidate_dirty` also clears the updated entity's own entry
(`cache.rs:79-80`), and nothing in the program calls it; two processes with one
offload directory would overwrite one another's slots (`src/main.rs:103`).

## 6. Not modelled

Floating-point rounding (weights are integers, sums exact; a p that rounds up to
0.05 is a panic that may happen at any candidate of a call in Pipeline; r, which
is stored unclamped from `crates/warm-tier/src/lib.rs:428`, might come out a
little above 1, of which exact integers say nothing); the TEE guard (stateless calls of a library); the HTTP API (one atomic read); JSON, the
LLM's text and logging; the wording of label names and displays;
`SoftwareFeedAdapter` (a stub nothing starts) and the value encoding for a
leapfrog map nothing uses (`crates/atlas-types/src/lib.rs:87-111`); the end of
`main`, which stops every thread wherever it stands and leaves nothing in memory
to observe; benchmarks.

## 7. Plan

Done: every part of section 1 that keeps state, alone and composed, and proofs
of the safety of each. What is left:

1. Which of two concurrent results for a link stays, which needs the values of r
   and p in the links.
