------------------------------- MODULE Feeds --------------------------------
(***************************************************************************)
(* The writers of the HotStore, step by step: the seeding loop and the     *)
(* synthetic feed of src/main.rs and the BinanceFeedAdapter of             *)
(* crates/hot-tier/src/binance.rs.  Sensing lets the feeds write what they *)
(* like, but assumes that nobody registers an id twice; here an id is      *)
(* checked in one call and inserted in another, while the other feed, the  *)
(* agent and the consumer run in between.                                  *)
(*                                                                         *)
(* One adapter, one synthetic feed.  Items of a message without a symbol   *)
(* or a parsable price are skipped by the code and left out of batches;    *)
(* the connection, pings and errors only end or pass over messages.        *)
(***************************************************************************)
EXTENDS Sensing

CONSTANTS Symbol,       \* ticker symbols
          Hash,         \* DefaultHasher's value for a symbol
          MaxEntities,  \* BinanceFeedAdapter.max_entities
          Seeded,       \* ids 0 .. Seeded - 1 are seeded before anything starts
          Batches,      \* messages: sequences of symbols
          Rng,          \* states of the synthetic feed's xorshift generator
          OneIn         \* a trigger is raised if rng_state % OneIn < 1 (100)

ASSUME FeedConstants ==
  /\ MaxEntities \in Nat \ {0}
  /\ Entity = 0..(MaxEntities - 1)
  /\ Seeded \in 1..MaxEntities
  /\ Hash \in [Symbol -> Nat]
  /\ Batches \subseteq Seq(Symbol)
  /\ Rng \subseteq Nat
  /\ OneIn \in Nat \ {0}

VARIABLES seeded,   \* how many ids the seeding loop has inserted
          bpc,      \* where the Binance adapter stands
          batch,    \* symbols of the message still to be processed
          spc,      \* where the synthetic feed stands
          rng_state \* the number it drew last

feedVars == <<seeded, bpc, batch, spc, rng_state>>
fvars == <<vars, feedVars>>

\* hasher.finish() % self.max_entities
EntityId(sym) == Hash[sym] % MaxEntities

FInit == /\ Init
         /\ seeded = 0
         /\ bpc = "idle"
         /\ batch = <<>>
         /\ spc = "draw"
         /\ rng_state \in Rng

-----------------------------------------------------------------------------
(* main: seed the store, and only then start the agent and the feeds.      *)

Seed == /\ seeded < Seeded
        /\ \E p \in Price : store' = Inserted(store, seeded, NewEntity(p))
        /\ seeded' = seeded + 1
        /\ UNCHANGED <<channel, connected, agentVars>>
        /\ UNCHANGED <<bpc, batch, spc, rng_state>>

Started == seeded = Seeded

-----------------------------------------------------------------------------
(* BinanceFeedAdapter::process_batch                                       *)

CurrentId == EntityId(Head(batch))

Message == /\ Started /\ bpc = "idle"
           /\ batch' \in Batches
           /\ batch' # <<>>
           /\ bpc' = "contains"
           /\ UNCHANGED <<vars, seeded, spc, rng_state>>

\* Mutant: the id is always inserted
CheckNothing == /\ bpc = "contains"
                /\ bpc' = "insert"
                /\ UNCHANGED <<vars, seeded, batch, spc, rng_state>>

CheckContains == /\ bpc = "contains"
                 /\ bpc' = IF Contains(store, CurrentId) THEN "tick" ELSE "insert"
                 /\ UNCHANGED <<vars, seeded, batch, spc, rng_state>>

InsertMissing ==
  /\ bpc = "insert"
  /\ \E p \in Price : store' = Inserted(store, CurrentId, NewEntity(p))
  /\ bpc' = "tick"
  /\ UNCHANGED <<channel, connected, agentVars>>
  /\ UNCHANGED <<seeded, batch, spc, rng_state>>

BinanceTick ==
  /\ bpc = "tick"
  /\ TickPrice(CurrentId)
  /\ bpc' = "update"
  /\ UNCHANGED <<seeded, batch, spc, rng_state>>

BinanceUpdate == /\ bpc = "update"
                 /\ UpdateWeight(CurrentId)
                 /\ bpc' = "trigger"
                 /\ UNCHANGED <<seeded, batch, spc, rng_state>>

\* Mutant: the end of the message is not noticed
BinanceTriggerRunOn ==
  /\ bpc = "trigger"
  /\ RaiseTrigger(CurrentId) \/ UNCHANGED vars
  /\ batch' = Tail(batch)
  /\ bpc' = "contains"
  /\ UNCHANGED <<seeded, spc, rng_state>>

\* Raised for a random 15% of the ticks
BinanceTrigger ==
  /\ bpc = "trigger"
  /\ RaiseTrigger(CurrentId) \/ UNCHANGED vars
  /\ batch' = Tail(batch)
  /\ bpc' = IF batch' = <<>> THEN "idle" ELSE "contains"
  /\ UNCHANGED <<seeded, spc, rng_state>>

Binance == \/ Message
           \/ CheckContains
           \/ InsertMissing
           \/ BinanceTick
           \/ BinanceUpdate
           \/ BinanceTrigger

-----------------------------------------------------------------------------
(* The synthetic feed of main: ticks the seeded ids for ever.  One number  *)
(* decides both which entity is ticked and whether its trigger is raised.  *)

\* Mutant: ids beyond the seeded ones come up too
AnyId == rng_state % MaxEntities
SyntheticId == rng_state % Seeded

Draw(r) == /\ Started /\ spc = "draw"
           /\ rng_state' = r
           /\ spc' = "tick"
           /\ UNCHANGED <<vars, seeded, bpc, batch>>

SyntheticTick == /\ spc = "tick"
                 /\ TickPrice(SyntheticId)
                 /\ spc' = "update"
                 /\ UNCHANGED <<seeded, bpc, batch, rng_state>>

SyntheticUpdate == /\ spc = "update"
                   /\ UpdateWeight(SyntheticId)
                   /\ spc' = "trigger"
                   /\ UNCHANGED <<seeded, bpc, batch, rng_state>>

SyntheticTrigger == /\ spc = "trigger"
                    /\ IF rng_state % OneIn < 1 THEN RaiseTrigger(SyntheticId)
                                               ELSE UNCHANGED vars
                    /\ spc' = "draw"
                    /\ UNCHANGED <<seeded, bpc, batch, rng_state>>

Synthetic == (\E r \in Rng : Draw(r)) \/ SyntheticTick \/ SyntheticUpdate \/ SyntheticTrigger

-----------------------------------------------------------------------------
Others == Started /\ (Agent \/ Consumer) /\ UNCHANGED feedVars

FNext == Seed \/ Binance \/ Synthetic \/ Others

\* Each thread runs on; when messages arrive is the exchange's choice
FSpec == /\ FInit /\ [][FNext]_fvars
         /\ WF_fvars(Seed)
         /\ WF_fvars(Binance /\ ~Message)
         /\ WF_fvars(Synthetic)
         /\ WF_fvars(Started /\ Agent /\ UNCHANGED feedVars)

\* The generator (shifts 13, 7, 17 on 64 bits) has full period: no number is
\* left out for good
DrawsSpec == FSpec /\ \A r \in Rng : SF_fvars(Draw(r))

-----------------------------------------------------------------------------
FeedTypeOK == /\ TypeOK
              /\ seeded \in 0..Seeded
              /\ bpc \in {"idle", "contains", "insert", "tick", "update", "trigger"}
              /\ batch \in Seq(Symbol)
              /\ bpc = "idle" <=> batch = <<>>
              /\ spc \in {"draw", "tick", "update", "trigger"}
              /\ rng_state \in Rng

(* Whatever the feeds do, between a check and its insert or between the    *)
(* ticks of the two feeds, is something Sensing allows for: in particular  *)
(* an insert never overwrites an entity, with its price, its weight and a  *)
(* trigger that may be raised, and every tick of a symbol concerns an      *)
(* entity the store can hold.                                              *)
FeedsKeepToSensing == Init /\ [][Next]_vars

(* tick_price and update_weight silently do nothing when the id is not in  *)
(* the store.  That never happens: by the time a feed ticks, the seeding   *)
(* loop or the adapter's own insert has put the entity there.              *)
TicksLand ==
  /\ bpc \in {"tick", "update", "trigger"} => Contains(store, CurrentId)
  /\ spc \in {"tick", "update", "trigger"} => Contains(store, SyntheticId)

(* The sensing agent comes to see every symbol that is quoted: the entity  *)
(* ends up among those it has a baseline for.                              *)
QuotedIsSensed ==
  \A sym \in Symbol :
    (\E i \in DOMAIN batch : batch[i] = sym)
      ~> prev_weights[EntityId(sym)] # Unseen

-----------------------------------------------------------------------------
(* What a comment says and the code does not do: every tick has a "1%      *)
(* chance to explicitly flip the causal trigger bit" (main.rs:136), so an  *)
(* entity the synthetic feed ticks again and again has its trigger raised  *)
(* in the end.  The id and the chance are remainders of one number by      *)
(* 10 000 and by 100: one id in a hundred has it raised on every tick, the *)
(* others never.                                                           *)
EveryIdHasAChance ==
  \A e \in 0..(Seeded - 1) :
    []<>(spc = "trigger" /\ SyntheticId = e)
      => <>(Contains(store, e) /\ store[e].trigger)

=============================================================================
