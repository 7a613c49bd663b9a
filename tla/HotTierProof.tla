---------------------------- MODULE HotTierProof ----------------------------
(***************************************************************************)
(* Proofs about what is built on Sensing in the hot tier.                  *)
(*                                                                         *)
(* SensingHistory: every raise of a causal trigger is accounted for, the   *)
(* sweep implements the safety part of TriggerPath, and spikes tell of     *)
(* weights the entities had.                                               *)
(*                                                                         *)
(* Feeds: the seeding loop, the Binance adapter and the synthetic feed are *)
(* feeds as Sensing describes them.                                        *)
(***************************************************************************)
EXTENDS SensingHistory, Feeds, SensingProof

-----------------------------------------------------------------------------
(* SensingHistory.                                                         *)

(* The history variables only watch: each of their steps is one of Sensing.*)
LEMMA HistoryOnlyWatches == [HNext]_hvars => [Next]_vars
<1> SUFFICES ASSUME [HNext]_hvars
             PROVE  [Next]_vars
  OBVIOUS
<1>1. CASE FeedH
  BY <1>1 DEF FeedH, RegisterH, TickPriceH, UpdateWeightH, RaiseTriggerH,
              Next, Feed
<1>2. CASE AgentH
  BY <1>2 DEF AgentH, SendCausalTriggerH, SweepH, Next, Agent
<1>3. CASE ConsumerH
  BY <1>3 DEF ConsumerH, Next
<1>4. CASE UNCHANGED hvars
  BY <1>4 DEF hvars
<1>5. QED
  BY <1>1, <1>2, <1>3, <1>4 DEF HNext

(* The invariants of Sensing hold of its history too.                      *)
LEMMA HistoryTypes == HSpec => [](TypeOK /\ Control /\ TriggerCopiesAreCurrent)
<1>1. HInit => TypeOK /\ Control /\ TriggerCopiesAreCurrent
  BY SensingConstants
  DEF HInit, Init, TypeOK, Control, Stores, EmptyStore, Contains,
      TriggerCopiesAreCurrent
<1>2. QED
  BY <1>1, TypeStep, CurrentStep, HistoryOnlyWatches, PTL DEF HSpec

CreditType == credit \in [Entity -> Int]

(* A bit counts for one, an event on its way for another.                  *)
LEMMA LatchFacts ==
  ASSUME NEW e \in Entity
  PROVE  /\ BitLatch(e) \in {0, 1}
         /\ InFlight(e) \in {0, 1}
         /\ BitLatch(e) = 1 <=> e \in Triggered(store)
  BY DEF BitLatch, InFlight, Triggered

(* A step that leaves the trigger bits alone, and stands neither before    *)
(* nor after it between a reset and its event, changes neither count.      *)
LEMMA LatchKept ==
  ASSUME Triggered(store') = Triggered(store),
         (pc' = pc /\ current' = current) \/ (pc # "send" /\ pc' # "send"),
         NEW e \in Entity
  PROVE  BitLatch(e)' = BitLatch(e) /\ InFlight(e)' = InFlight(e)
<1>1. BitLatch(e)' = BitLatch(e)
  BY DEF BitLatch, Triggered
<1>2. InFlight(e)' = InFlight(e)
  BY DEF InFlight
<1>3. QED
  BY <1>1, <1>2

(* Every step keeps the account, and is a step of TriggerPath or changes   *)
(* nothing TriggerPath sees: resetting a bit only moves one raise from the *)
(* store to the agent.                                                     *)
Accounted == CreditType' /\ RaisesAccounted' /\ [Path!Next]_Path!vars

LEMMA AccountStep ==
  TypeOK /\ Control /\ TriggerCopiesAreCurrent
    /\ CreditType /\ RaisesAccounted /\ [HNext]_hvars
  => Accounted
<1> SUFFICES ASSUME TypeOK, Control, TriggerCopiesAreCurrent,
                    CreditType, RaisesAccounted, [HNext]_hvars
             PROVE  Accounted
  OBVIOUS
\* Steps that change no account: whatever happens on the channel is the path's
<1>a. ASSUME UNCHANGED credit,
             \A f \in Entity : (BitLatch(f) + InFlight(f))'
                                 = BitLatch(f) + InFlight(f)
      PROVE  CreditType' /\ RaisesAccounted'
  BY <1>a DEF CreditType, RaisesAccounted
<1>b. ASSUME UNCHANGED <<credit, channel>>,
             \A f \in Entity : (BitLatch(f) + InFlight(f))'
                                 = BitLatch(f) + InFlight(f)
      PROVE  Accounted
  BY <1>a, <1>b DEF Accounted, Path!vars
<1>c. ASSUME UNCHANGED <<credit, channel>>,
             Triggered(store') = Triggered(store),
             (pc' = pc /\ current' = current) \/ (pc # "send" /\ pc' # "send")
      PROVE  Accounted
  BY <1>b, <1>c, LatchKept
<1>1. ASSUME NEW e \in Entity, RegisterH(e)
      PROVE  Accounted
  BY <1>1, <1>c, InsertedFacts DEF RegisterH, Register, agentVars, TypeOK
<1>2. ASSUME NEW e \in Entity, TickPriceH(e)
      PROVE  Accounted
  BY <1>2, <1>c, PriceTickedFacts
  DEF TickPriceH, TickPrice, agentVars, history, TypeOK
<1>3. ASSUME NEW e \in Entity, UpdateWeightH(e)
      PROVE  Accounted
  BY <1>3, <1>c, WeightUpdatedFacts, SensingConstants
  DEF UpdateWeightH, UpdateWeight, agentVars, TypeOK
<1>4. ASSUME NEW e \in Entity, RaiseTriggerH(e)
      PROVE  Accounted
  <2>1. Triggered(store') = IF Contains(store, e)
                              THEN Triggered(store) \cup {e}
                              ELSE Triggered(store)
    BY <1>4, TriggerSetFacts DEF RaiseTriggerH, RaiseTrigger, TypeOK
  <2>2. UNCHANGED channel /\ pc' = pc /\ current' = current
    BY <1>4 DEF RaiseTriggerH, RaiseTrigger, agentVars
  <2>3. CASE Contains(store, e) /\ ~store[e].trigger
    <3>1. Triggered(store') = Triggered(store) \cup {e} /\ e \notin Triggered(store)
      BY <2>1, <2>3 DEF Triggered
    <3>2. credit' = [credit EXCEPT ![e] = @ + 1]
      BY <1>4, <2>3 DEF RaiseTriggerH
    <3>3. \A f \in Entity : InFlight(f)' = InFlight(f)
      BY <2>2 DEF InFlight
    <3>4. \A f \in Entity :
            BitLatch(f)' = IF f = e THEN BitLatch(f) + 1 ELSE BitLatch(f)
      BY <3>1 DEF BitLatch, Triggered
    <3>5. CreditType' /\ RaisesAccounted'
      <4>1. CreditType'
        BY <3>2 DEF CreditType
      <4>2. ASSUME NEW f \in Entity
            PROVE  credit'[f] = BitLatch(f)' + InFlight(f)'
        BY <3>2, <3>3, <3>4, LatchFacts DEF CreditType, RaisesAccounted
      <4>3. QED
        BY <4>1, <4>2 DEF RaisesAccounted
    <3>6. credit[e] < 2
      BY <3>1, LatchFacts DEF RaisesAccounted
    <3>7. Path!Raise(e)
      BY <2>2, <3>2, <3>6 DEF Path!Raise
    <3>8. QED
      BY <3>5, <3>7 DEF Accounted, Path!Next
  <2>4. CASE ~(Contains(store, e) /\ ~store[e].trigger)
    <3>1. Triggered(store') = Triggered(store)
      BY <2>1, <2>4 DEF Triggered
    <3>2. credit' = credit
      BY <1>4, <2>4 DEF RaiseTriggerH
    <3>3. QED
      BY <2>2, <3>1, <3>2, <1>c
  <2>5. QED
    BY <2>3, <2>4
<1>5. CASE SendCausalTriggerH
  <2>1. current \in Entity /\ InFlight(current) = 1
    BY <1>5 DEF SendCausalTriggerH, SendCausalTrigger, Control, InFlight
  <2>2. credit' = [credit EXCEPT ![current] = @ - 1]
    BY <1>5 DEF SendCausalTriggerH
  <2>3. \A f \in Entity : BitLatch(f)' = BitLatch(f)
    BY <1>5 DEF SendCausalTriggerH, SendCausalTrigger, BitLatch, Contains
  <2>4. \A f \in Entity :
          InFlight(f)' = IF f = current THEN InFlight(f) - 1 ELSE InFlight(f)
    BY <1>5 DEF SendCausalTriggerH, SendCausalTrigger, InFlight
  <2>5. CreditType' /\ RaisesAccounted'
    <3>1. CreditType'
      BY <2>1, <2>2 DEF CreditType
    <3>2. ASSUME NEW f \in Entity
          PROVE  credit'[f] = BitLatch(f)' + InFlight(f)'
      BY <2>2, <2>3, <2>4, LatchFacts DEF CreditType, RaisesAccounted
    <3>3. QED
      BY <3>1, <3>2 DEF RaisesAccounted
  <2>6. credit[current] > 0
    BY <2>1, LatchFacts DEF RaisesAccounted
  <2>7. channel' \in {channel, Append(channel, CausalTrigger(current))}
    BY <1>5 DEF SendCausalTriggerH, SendCausalTrigger, TrySend
  <2>8. Path!Fire(current)
    BY <2>2, <2>6, <2>7 DEF Path!Fire
  <2>9. QED
    BY <2>1, <2>5, <2>8 DEF Accounted, Path!Next
<1>6. ASSUME CheckSpike, UNCHANGED history
      PROVE  Accounted
  <2>1. \A f \in Entity : (BitLatch(f) + InFlight(f))' = BitLatch(f) + InFlight(f)
    BY <1>6, LatchKept DEF CheckSpike
  <2>2. UNCHANGED credit
    BY <1>6 DEF history
  <2>3. CASE channel' = channel
    BY <2>1, <2>2, <2>3, <1>b
  <2>4. CASE channel' # channel
    <3> DEFINE w == snapshots[current].weight
               s == WeightSpike(current, Distance(w, Baseline(current)), w)
    <3>1. channel' = Append(channel, s)
      BY <1>6, <2>4 DEF CheckSpike, TrySend
    <3>2. \A e \in Entity : s # CausalTrigger(e)
      BY DEF WeightSpike, CausalTrigger
    <3> HIDE DEF s
    <3>3. channel' # <<>> /\ channel'[Len(channel')] = s
      BY <3>1 DEF TypeOK
    <3>4. Path!SendOther
      BY <2>2, <3>1, <3>2, <3>3 DEF Path!SendOther
    <3>5. QED
      BY <1>a, <2>1, <2>2, <3>4 DEF Accounted, Path!Next
  <2>5. QED
    BY <2>3, <2>4
<1>7. ASSUME ResetTrigger, UNCHANGED history
      PROVE  Accounted
  <2>1. /\ Triggered(store') = Triggered(store) \ {current}
        /\ current \in Entity
    BY <1>7, TriggerSetFacts DEF ResetTrigger, TypeOK, Control
  <2>2. current \in Triggered(store)
    BY <1>7 DEF ResetTrigger, TriggerCopiesAreCurrent, Control, Triggered
  <2>3. ASSUME NEW f \in Entity
        PROVE  (BitLatch(f) + InFlight(f))' = BitLatch(f) + InFlight(f)
    <3>1. CASE f = current
      <4>1. BitLatch(f) = 1 /\ InFlight(f) = 0
        BY <1>7, <2>2, <3>1 DEF ResetTrigger, InFlight, BitLatch, Triggered
      <4>2. BitLatch(f)' = 0 /\ InFlight(f)' = 1
        BY <1>7, <2>1, <3>1 DEF ResetTrigger, InFlight, BitLatch, Triggered
      <4>3. QED
        BY <4>1, <4>2
    <3>2. CASE f # current
      BY <1>7, <2>1, <3>2 DEF ResetTrigger, InFlight, BitLatch, Triggered
    <3>3. QED
      BY <3>1, <3>2
  <2>4. QED
    BY <1>7, <1>b, <2>3 DEF ResetTrigger, history
<1>8. ASSUME SnapshotShard \/ EndSweep \/ Wake, UNCHANGED history
      PROVE  Accounted
  BY <1>8, <1>c DEF SnapshotShard, EndSweep, Wake, hotVars, history
<1>9. ASSUME NextEntity, UNCHANGED history
      PROVE  Accounted
  <2>1. pc # "send" /\ pc' # "send"
    BY <1>9 DEF NextEntity, FirstCheck
  <2>2. QED
    BY <1>9, <1>c, <2>1 DEF NextEntity, hotVars, history
<1>10. CASE ConsumerH
  <2>1. UNCHANGED <<credit, store, pc, current>>
    BY <1>10 DEF ConsumerH, Consumer, Receive, DropReceiver, history, agentVars
  <2>2. \A f \in Entity : (BitLatch(f) + InFlight(f))' = BitLatch(f) + InFlight(f)
    BY <2>1, LatchKept
  <2>3. CASE channel = <<>>
    BY <1>10, <1>b, <2>1, <2>2, <2>3
    DEF ConsumerH, Consumer, Receive, DropReceiver
  <2>4. CASE channel # <<>>
    <3>1. Path!Consume
      BY <1>10, <2>1, <2>4
      DEF Path!Consume, ConsumerH, Consumer, Receive, DropReceiver
    <3>2. QED
      BY <1>a, <2>1, <2>2, <3>1 DEF Accounted, Path!Next
  <2>5. QED
    BY <2>3, <2>4
<1>11. CASE UNCHANGED hvars
  BY <1>11, <1>c DEF hvars, vars, hotVars, agentVars, history
<1>12. QED
  BY <1>1, <1>2, <1>3, <1>4, <1>5, <1>6, <1>7, <1>8, <1>9, <1>10, <1>11
  DEF HNext, FeedH, AgentH, SweepH

(* No raise is lost between the feeds and the agent and none is announced  *)
(* twice, for any number of entities, shards and any channel capacity.     *)
THEOREM AllRaisesAccounted == HSpec => []RaisesAccounted
<1>1. HInit => CreditType /\ RaisesAccounted
  BY DEF HInit, Init, CreditType, RaisesAccounted, BitLatch, InFlight,
         EmptyStore, Contains
<1>2. HSpec => [](CreditType /\ RaisesAccounted)
  BY <1>1, AccountStep, HistoryTypes, PTL DEF HSpec, Accounted
<1>3. QED
  BY <1>2, PTL

(* The hot tier implements the safety part of TriggerPath: one offer of a  *)
(* CausalTrigger for each raise, and none without one.                     *)
THEOREM PathSafety == HSpec => Path!Init /\ [][Path!Next]_Path!vars
<1>1. HInit => Path!Init /\ CreditType /\ RaisesAccounted
  BY DEF HInit, Init, Path!Init, CreditType, RaisesAccounted, BitLatch,
         InFlight, EmptyStore, Contains
<1>2. QED
  BY <1>1, AccountStep, HistoryTypes, PTL DEF HSpec, Accounted

-----------------------------------------------------------------------------
(* Spikes.  Whatever weight is in the store, in a copy or in the agent's   *)
(* memory is one the entity had.                                           *)

WeightsSeen(s) == \A e \in Entity : Contains(s, e) => s[e].weight \in seen[e]

RealMove(s) ==
  s.event = "WeightSpike" =>
    /\ s.new_weight \in seen[s.entity_id]
    /\ {s.new_weight - s.delta_w, s.new_weight + s.delta_w} \cap seen[s.entity_id] # {}

AllReal == \A i \in DOMAIN channel : RealMove(channel[i])

SeenInv == /\ seen \in [Entity -> SUBSET Int]
           /\ WeightsSeen(store) /\ WeightsSeen(snapshots)
           /\ \A e \in Entity : prev_weights[e] \in seen[e] \cup {Unseen}
           /\ AllReal

\* What was seen stays seen
SeenGrows == seen' \in [Entity -> SUBSET Int] /\ \A e \in Entity : seen[e] \subseteq seen'[e]

(* Writing in place changes at most the weight of one entity.              *)
LEMMA WrittenWeights ==
  ASSUME NEW s \in Stores, NEW e \in Entity, NEW p, NEW b
  PROVE  \A f \in Entity :
           /\ Contains(PriceTicked(s, e, p), f) =>
                Contains(s, f) /\ PriceTicked(s, e, p)[f].weight = s[f].weight
           /\ Contains(CausalTriggerSet(s, e, b), f) =>
                Contains(s, f) /\ CausalTriggerSet(s, e, b)[f].weight = s[f].weight
  BY DEF Stores, WeightedEntity, Contains, PriceTicked, CausalTriggerSet

(* A feed that only adds to what was seen leaves the rest as true as it    *)
(* was.                                                                    *)
LEMMA SeenByFeed ==
  ASSUME TypeOK, SeenInv, SeenGrows, WeightsSeen(store)', UNCHANGED <<channel, agentVars>>
  PROVE  SeenInv'
<1>1. WeightsSeen(snapshots)'
  BY DEF SeenInv, SeenGrows, WeightsSeen, agentVars, Contains
<1>2. \A e \in Entity : prev_weights'[e] \in seen'[e] \cup {Unseen}
  BY DEF SeenInv, SeenGrows, agentVars
<1>3. ASSUME NEW i \in DOMAIN channel PROVE RealMove(channel[i])'
  <2>1. channel[i] \in SignalEvent /\ RealMove(channel[i]) /\ channel' = channel
    BY DEF TypeOK, SeenInv, AllReal
  <2>2. channel[i].entity_id \in Entity
    BY <2>1 DEF SignalEvent, CausalTrigger
  <2>3. seen[channel[i].entity_id] \subseteq seen'[channel[i].entity_id]
    BY <2>2 DEF SeenGrows
  <2>4. QED
    BY <2>1, <2>3 DEF RealMove
<1>4. QED
  BY <1>1, <1>2, <1>3 DEF SeenInv, SeenGrows, AllReal

(* Offering a true event, or taking one, leaves true ones.                 *)
LEMMA OfferedIsReal ==
  ASSUME TypeOK, SeenInv, UNCHANGED seen, NEW s \in SignalEvent, RealMove(s), TrySend(s)
  PROVE  AllReal'
<1>1. channel \in Seq(SignalEvent) /\ \A i \in DOMAIN channel : RealMove(channel[i])
  BY DEF TypeOK, SeenInv, AllReal
<1>2. channel' = channel \/ channel' = Append(channel, s)
  BY DEF TrySend
<1>3. \A i \in DOMAIN channel' : \/ channel'[i] = s
                                 \/ i \in DOMAIN channel /\ channel'[i] = channel[i]
  BY <1>1, <1>2
<1>4. \A i \in DOMAIN channel' : RealMove(channel'[i])
  BY <1>1, <1>3
<1>5. QED
  BY <1>4 DEF AllReal, RealMove

LEMMA SeenStep ==
  TypeOK /\ Control /\ SeenInv /\ [HNext]_hvars => SeenInv'
<1> SUFFICES ASSUME TypeOK, Control, SeenInv, [HNext]_hvars
             PROVE  SeenInv'
  OBVIOUS
<1>1. ASSUME NEW e \in Entity, RegisterH(e) PROVE SeenInv'
  <2>1. PICK p \in Price : store' = Inserted(store, e, NewEntity(p))
    BY <1>1 DEF RegisterH, Register
  <2>2. store' = [store EXCEPT ![e] = NewEntity(p)] /\ store \in Stores
    BY <2>1 DEF Inserted, TypeOK
  <2>3. store'[e] = NewEntity(p) /\ \A f \in Entity : f # e => store'[f] = store[f]
    BY <2>2 DEF Stores
  <2>4. store'[e].weight = NewWeight /\ NewWeight \in Int
    BY <2>3, WeightConstants DEF NewEntity
  <2>5. seen' = [seen EXCEPT ![e] = @ \cup {NewWeight}]
    BY <1>1, <2>4 DEF RegisterH
  <2>6. SeenGrows /\ NewWeight \in seen'[e]
    BY <2>4, <2>5 DEF SeenInv, SeenGrows
  <2>7. WeightsSeen(store)'
    BY <2>3, <2>4, <2>6 DEF SeenInv, SeenGrows, WeightsSeen, Contains
  <2>8. QED
    BY <1>1, <2>6, <2>7, SeenByFeed DEF RegisterH, Register
<1>2. ASSUME NEW e \in Entity, TickPriceH(e) PROVE SeenInv'
  <2>1. PICK p \in Price : store' = PriceTicked(store, e, p)
    BY <1>2 DEF TickPriceH, TickPrice
  <2>2. \A f \in Entity : Contains(store', f) => Contains(store, f) /\ store'[f].weight = store[f].weight
    BY <2>1, WrittenWeights DEF TypeOK
  <2>3. SeenGrows /\ UNCHANGED seen
    BY <1>2 DEF TickPriceH, history, SeenInv, SeenGrows
  <2>4. WeightsSeen(store)'
    BY <2>2, <2>3 DEF SeenInv, WeightsSeen, Contains
  <2>5. QED
    BY <1>2, <2>3, <2>4, SeenByFeed DEF TickPriceH, TickPrice
<1>3. ASSUME NEW e \in Entity, UpdateWeightH(e) PROVE SeenInv'
  <2>1. PICK surprise \in Surprise : store' = WeightUpdated(store, e, surprise)
    BY <1>3 DEF UpdateWeightH, UpdateWeight
  <2>2. store \in Stores /\ store' \in Stores
    BY <2>1, WeightUpdatedFacts, SensingConstants DEF TypeOK
  <2>3. CASE ~Contains(store, e)
    <3>1. store' = store /\ UNCHANGED seen
      BY <1>3, <2>1, <2>3 DEF WeightUpdated, UpdateWeightH
    <3>2. SeenGrows /\ WeightsSeen(store)'
      BY <3>1 DEF SeenInv, SeenGrows, WeightsSeen, Contains
    <3>3. QED
      BY <1>3, <3>2, SeenByFeed DEF UpdateWeightH, UpdateWeight
  <2>4. CASE Contains(store, e)
    <3> DEFINE w == RecalculatedWeight(store[e].weight, surprise)
    <3>1. store' = [store EXCEPT ![e].weight = w]
      BY <2>1, <2>4 DEF WeightUpdated
    <3> HIDE DEF w
    <3>2. Contains(store', e)
      <4>1. store[e] \in WeightedEntity
        BY <2>2, <2>4 DEF Contains, Stores
      <4>2. store'[e] = [store[e] EXCEPT !.weight = w]
        BY <2>2, <3>1 DEF Stores
      <4>3. RecalculatedWeight(store[e].weight, surprise) \in Int
        <5>1. store[e].weight \in Int /\ surprise \in Int
          BY <4>1, <2>1, SensingConstants DEF WeightedEntity
        <5>2. QED
          BY <5>1, RecalculatedWeightType
      <4>4. store'[e] \in WeightedEntity
        BY <4>1, <4>2, <4>3 DEF WeightedEntity, w
      <4>5. QED
        BY <4>4, AbsentIsNoEntity DEF Contains
    <3>3. store'[e].weight \in Int /\ \A f \in Entity : f # e => store'[f] = store[f]
      BY <2>2, <3>1, <3>2 DEF Contains, Stores, WeightedEntity
    <3>4. seen' = [seen EXCEPT ![e] = @ \cup {store'[e].weight}]
      BY <1>3, <2>4 DEF UpdateWeightH
    <3>5. SeenGrows /\ store'[e].weight \in seen'[e]
      BY <3>3, <3>4 DEF SeenInv, SeenGrows
    <3>6. WeightsSeen(store)'
      BY <3>3, <3>5 DEF SeenInv, SeenGrows, WeightsSeen, Contains
    <3>7. QED
      BY <1>3, <3>5, <3>6, SeenByFeed DEF UpdateWeightH, UpdateWeight
  <2>5. QED
    BY <2>3, <2>4
<1>4. ASSUME NEW e \in Entity, RaiseTriggerH(e) PROVE SeenInv'
  <2>1. store' = CausalTriggerSet(store, e, TRUE)
    BY <1>4 DEF RaiseTriggerH, RaiseTrigger
  <2>2. \A f \in Entity : Contains(store', f) => Contains(store, f) /\ store'[f].weight = store[f].weight
    BY <2>1, WrittenWeights DEF TypeOK
  <2>3. SeenGrows /\ UNCHANGED seen
    BY <1>4 DEF RaiseTriggerH, SeenInv, SeenGrows
  <2>4. WeightsSeen(store)'
    BY <2>2, <2>3 DEF SeenInv, WeightsSeen, Contains
  <2>5. QED
    BY <1>4, <2>3, <2>4, SeenByFeed DEF RaiseTriggerH, RaiseTrigger
<1>5. CASE SendCausalTriggerH
  <2> DEFINE s == CausalTrigger(current)
  <2>1. /\ pc = "send" /\ TrySend(s) /\ UNCHANGED <<store, snapshots, prev_weights, seen>>
        /\ s \in SignalEvent /\ s.event # "WeightSpike"
    BY <1>5 DEF SendCausalTriggerH, SendCausalTrigger, Control, SignalEvent, CausalTrigger
  <2> HIDE DEF s
  <2>2. RealMove(s)
    BY <2>1 DEF RealMove
  <2>3. AllReal'
    BY <2>1, <2>2, OfferedIsReal
  <2>4. WeightsSeen(store)' /\ WeightsSeen(snapshots)'
    BY <2>1 DEF SeenInv, WeightsSeen, Contains
  <2>5. QED
    BY <2>1, <2>3, <2>4 DEF SeenInv
<1>6. CASE SweepH /\ CheckSpike
  <2> DEFINE e == current
             w == snapshots[current].weight
             b == Baseline(current)
             s == WeightSpike(current, Distance(w, b), w)
  <2>1. /\ e \in Entity /\ Contains(snapshots, e) /\ UNCHANGED <<store, seen>>
        /\ snapshots' = [snapshots EXCEPT ![e] = Absent]
        /\ prev_weights' = [prev_weights EXCEPT ![e] = w]
    BY <1>6 DEF SweepH, CheckSpike, Control, history, Remembered
  <2>2. TrySend(s) \/ UNCHANGED channel
    BY <1>6 DEF CheckSpike
  <2>3. w \in seen[e] /\ b \in seen[e] /\ w \in Int /\ b \in Int
    BY <2>1 DEF SeenInv, WeightsSeen, Baseline
  <2>4. /\ s.event = "WeightSpike" /\ s.entity_id = e /\ s.new_weight = w
        /\ s.delta_w = Distance(w, b) /\ s \in SignalEvent
    BY <2>1, <2>3 DEF WeightSpike, SignalEvent, Distance
  <2>5. b = w - Distance(w, b) \/ b = w + Distance(w, b)
    BY <2>3 DEF Distance
  <2> HIDE DEF s, w, b, e
  <2>6. RealMove(s)
    BY <2>3, <2>4, <2>5 DEF RealMove
  <2>7. AllReal'
    <3>1. CASE TrySend(s)
      BY <2>1, <2>4, <2>6, <3>1, OfferedIsReal
    <3>2. CASE UNCHANGED channel
      BY <2>1, <3>2 DEF SeenInv, AllReal, RealMove
    <3>3. QED
      BY <2>2, <3>1, <3>2
  <2>8. WeightsSeen(store)' /\ WeightsSeen(snapshots)'
    BY <2>1 DEF SeenInv, WeightsSeen, Contains, TypeOK, Stores
  <2>9. \A f \in Entity : prev_weights'[f] \in seen'[f] \cup {Unseen}
    BY <2>1, <2>3 DEF SeenInv, TypeOK
  <2>10. QED
    BY <2>1, <2>7, <2>8, <2>9 DEF SeenInv
<1>7. CASE SweepH /\ SnapshotShard
  <2>1. UNCHANGED <<store, channel, prev_weights, seen>>
    BY <1>7 DEF SweepH, SnapshotShard, hotVars, history
  <2>2. \A f \in Entity : snapshots'[f] = store[f] \/ snapshots'[f] = snapshots[f]
    BY <1>7 DEF SnapshotShard
  <2>3. WeightsSeen(store)' /\ WeightsSeen(snapshots)'
    BY <2>1, <2>2 DEF SeenInv, WeightsSeen, Contains
  <2>4. QED
    BY <2>1, <2>3 DEF SeenInv, AllReal, RealMove
<1>8. CASE SweepH /\ ResetTrigger
  <2>1. /\ UNCHANGED <<channel, snapshots, prev_weights, seen>> /\ current \in Entity
        /\ store' = CausalTriggerSet(store, current, FALSE)
    BY <1>8 DEF SweepH, ResetTrigger, history, Control
  <2>2. \A f \in Entity : Contains(store', f) => Contains(store, f) /\ store'[f].weight = store[f].weight
    BY <2>1, WrittenWeights DEF TypeOK
  <2>3. WeightsSeen(store)' /\ WeightsSeen(snapshots)'
    BY <2>1, <2>2 DEF SeenInv, WeightsSeen, Contains
  <2>4. QED
    BY <2>1, <2>3 DEF SeenInv, AllReal, RealMove
<1>9. CASE SweepH /\ (NextEntity \/ EndSweep \/ Wake)
  <2>1. UNCHANGED <<store, channel, snapshots, prev_weights, seen>>
    BY <1>9 DEF SweepH, NextEntity, EndSweep, Wake, hotVars, history
  <2>2. QED
    BY <2>1 DEF SeenInv, WeightsSeen, Contains, AllReal, RealMove
<1>10. CASE ConsumerH
  <2>1. UNCHANGED <<store, snapshots, prev_weights, seen>>
    BY <1>10 DEF ConsumerH, Consumer, Receive, DropReceiver, agentVars, history
  <2>2. channel \in Seq(SignalEvent)
    BY DEF TypeOK
  <2>3. \A i \in DOMAIN channel' : \E j \in DOMAIN channel : channel'[i] = channel[j]
    <3>1. CASE channel' = <<>>
      BY <3>1
    <3>2. CASE channel # <<>> /\ channel' = Tail(channel)
      <4>1. \A i \in DOMAIN channel' : i + 1 \in DOMAIN channel /\ channel'[i] = channel[i + 1]
        BY <2>2, <3>2
      <4>2. QED
        BY <4>1
    <3>3. QED
      BY <1>10, <3>1, <3>2 DEF ConsumerH, Consumer, Receive, DropReceiver
  <2>4. AllReal'
    BY <2>1, <2>3 DEF SeenInv, AllReal, RealMove
  <2>5. QED
    BY <2>1, <2>4 DEF SeenInv, WeightsSeen, Contains
<1>11. CASE UNCHANGED hvars
  BY <1>11 DEF hvars, vars, hotVars, agentVars, history, SeenInv, WeightsSeen, Contains, AllReal, RealMove
<1>12. QED
  BY <1>1, <1>2, <1>3, <1>4, <1>5, <1>6, <1>7, <1>8, <1>9, <1>10, <1>11
  DEF HNext, FeedH, AgentH, SweepH

LEMMA SeenAlways == HSpec => []SeenInv
<1>1. HInit => SeenInv
  BY DEF HInit, Init, SeenInv, WeightsSeen, AllReal, EmptyStore, Contains
<1>2. QED
  BY <1>1, SeenStep, HistoryTypes, PTL DEF HSpec

(* A WeightSpike in the channel tells of a move the entity made, although  *)
(* it is computed from copies and a remembered weight that feeds have      *)
(* overtaken.                                                              *)
THEOREM SpikesAreReal == HSpec => []SpikesAreRealMoves
<1>1. SeenInv => SpikesAreRealMoves
  BY DEF SeenInv, AllReal, RealMove, SpikesAreRealMoves
<1>2. QED
  BY <1>1, SeenAlways, PTL

-----------------------------------------------------------------------------
(* Feeds.                                                                  *)

Tracked(s) == {e \in Entity : Contains(s, e)}

(* Where the feeds stand, what they hold and what the store tracks.        *)
Positions ==
  /\ seeded \in 0..Seeded
  /\ bpc \in {"idle", "contains", "insert", "tick", "update", "trigger"}
  /\ batch \in Seq(Symbol)
  /\ bpc = "idle" <=> batch = <<>>
  /\ spc \in {"draw", "tick", "update", "trigger"}
  /\ rng_state \in Rng

Population ==
  /\ 0..(seeded - 1) \subseteq Tracked(store)
  /\ seeded < Seeded => /\ Tracked(store) = 0..(seeded - 1)
                        /\ bpc = "idle"
                        /\ spc = "draw"
  /\ bpc = "insert" => CurrentId \notin Tracked(store)
  /\ bpc \in {"tick", "update", "trigger"} => CurrentId \in Tracked(store)

(* The hash modulo max_entities is an entity id.                           *)
LEMMA EntityIdType ==
  ASSUME NEW sym \in Symbol
  PROVE  EntityId(sym) \in Entity
<1>1. Hash[sym] \in Nat /\ MaxEntities \in Nat \ {0}
  BY FeedConstants
<1>2. Hash[sym] % MaxEntities \in 0..(MaxEntities - 1)
  BY <1>1
<1>3. QED
  BY <1>2, FeedConstants DEF EntityId

(* The symbol in hand has an id.                                           *)
LEMMA CurrentIdType ==
  ASSUME batch \in Seq(Symbol), batch # <<>>
  PROVE  CurrentId \in Entity
<1>1. Head(batch) \in Symbol
  OBVIOUS
<1>2. QED
  BY <1>1, EntityIdType DEF CurrentId

(* The number drawn modulo the entity count is a seeded id.                *)
LEMMA SyntheticIdType ==
  ASSUME rng_state \in Rng
  PROVE  SyntheticId \in 0..(Seeded - 1) /\ SyntheticId \in Entity
<1>1. rng_state \in Nat /\ Seeded \in Nat \ {0} /\ Seeded <= MaxEntities
  BY FeedConstants
<1>2. rng_state % Seeded \in 0..(Seeded - 1)
  BY <1>1
<1>3. QED
  BY <1>1, <1>2, FeedConstants DEF SyntheticId

(* Entities come and never go: writing in place tracks what was tracked,   *)
(* registering tracks one more.                                            *)
LEMMA InsertedTracked ==
  ASSUME NEW s \in Stores, NEW e \in Entity, NEW p \in Price
  PROVE  Tracked(Inserted(s, e, NewEntity(p))) = Tracked(s) \cup {e}
<1>1. NewEntity(p) \in WeightedEntity
  BY WeightConstants DEF NewEntity, WeightedEntity
<1>2. NewEntity(p) # Absent
  BY <1>1, AbsentIsNoEntity
<1>3. QED
  BY <1>2 DEF Tracked, Contains, Inserted, Stores

LEMMA PriceTickedTracked ==
  ASSUME NEW s \in Stores, NEW e \in Entity, NEW p \in Price
  PROVE  Tracked(PriceTicked(s, e, p)) = Tracked(s)
<1>1. PriceTicked(s, e, p) \in Stores
  BY PriceTickedFacts
<1>2. QED
  BY <1>1, AbsentIsNoEntity
  DEF Tracked, Contains, PriceTicked, Stores, WeightedEntity

LEMMA WeightUpdatedTracked ==
  ASSUME NEW s \in Stores, NEW e \in Entity, NEW surprise \in Int
  PROVE  Tracked(WeightUpdated(s, e, surprise)) = Tracked(s)
<1> DEFINE x == [s[e] EXCEPT !.weight = RecalculatedWeight(@, surprise)]
<1>1. CASE ~Contains(s, e)
  BY <1>1 DEF WeightUpdated
<1>2. CASE Contains(s, e)
  <2>1. s[e] \in WeightedEntity
    BY <1>2 DEF Contains, Stores
  <2>2. RecalculatedWeight(s[e].weight, surprise) \in Int
    BY <2>1, RecalculatedWeightType DEF WeightedEntity
  <2>3. x \in WeightedEntity
    BY <2>1, <2>2 DEF WeightedEntity
  <2>4. x # Absent
    BY <2>3, AbsentIsNoEntity
  <2>5. WeightUpdated(s, e, surprise) = [s EXCEPT ![e] = x]
    BY <1>2 DEF WeightUpdated
  <2> HIDE DEF x
  <2>6. QED
    BY <1>2, <2>4, <2>5 DEF Tracked, Contains, Stores
<1>3. QED
  BY <1>1, <1>2

LEMMA TriggerSetTracked ==
  ASSUME NEW s \in Stores, NEW e \in Entity, NEW b \in BOOLEAN
  PROVE  Tracked(CausalTriggerSet(s, e, b)) = Tracked(s)
<1>1. CausalTriggerSet(s, e, b) \in Stores
  BY TriggerSetFacts
<1>2. QED
  BY <1>1, AbsentIsNoEntity
  DEF Tracked, Contains, CausalTriggerSet, Stores, WeightedEntity

(* The three writes in place as actions of Sensing.                        *)
LEMMA WritesInPlace ==
  ASSUME store \in Stores, NEW e \in Entity,
         TickPrice(e) \/ UpdateWeight(e) \/ RaiseTrigger(e)
  PROVE  Tracked(store') = Tracked(store) /\ Next
<1>1. CASE TickPrice(e)
  BY <1>1, PriceTickedTracked DEF TickPrice, Next, Feed
<1>2. CASE UpdateWeight(e)
  BY <1>2, WeightUpdatedTracked, SensingConstants DEF UpdateWeight, Next, Feed
<1>3. CASE RaiseTrigger(e)
  BY <1>3, TriggerSetTracked DEF RaiseTrigger, Next, Feed
<1>4. QED
  BY <1>1, <1>2, <1>3

(* Every step of the feeds keeps where they stand in line with the store,  *)
(* and is a step Sensing allows for or one that touches nothing of it.     *)
FeedGoal == Positions' /\ Population' /\ [Next]_vars

LEMMA FeedStep ==
  TypeOK /\ Control /\ Positions /\ Population /\ [FNext]_fvars => FeedGoal
<1> SUFFICES ASSUME TypeOK, Control, Positions, Population, [FNext]_fvars
             PROVE  FeedGoal
  OBVIOUS
<1> USE FeedConstants DEF FeedGoal, Positions, Population
<1>a. store \in Stores
  BY DEF TypeOK
<1>b. bpc # "idle" => CurrentId \in Entity
  BY CurrentIdType
<1>c. spc # "draw" => SyntheticId \in Entity /\ SyntheticId \in Tracked(store)
  BY SyntheticIdType
<1>1. CASE Seed
  <2>1. PICK p \in Price : store' = Inserted(store, seeded, NewEntity(p))
    BY <1>1 DEF Seed
  <2>2. seeded \in Entity /\ seeded < Seeded /\ seeded' = seeded + 1
    BY <1>1 DEF Seed
  <2>3. Tracked(store') = Tracked(store) \cup {seeded}
    BY <1>a, <2>1, <2>2, InsertedTracked
  <2>4. Tracked(store') = 0..(seeded' - 1)
    BY <2>2, <2>3
  <2>5. Register(seeded)
    BY <1>1, <2>2 DEF Seed, Register, Tracked
  <2>6. /\ bpc' = "idle" /\ spc' = "draw" /\ batch' = batch
        /\ rng_state' = rng_state
    BY <1>1 DEF Seed
  <2>7. Positions' /\ Population'
    BY <2>2, <2>4, <2>6
  <2>8. QED
    BY <2>2, <2>5, <2>7 DEF Next, Feed
<1>2. CASE Message
  BY <1>2 DEF Message, Started, vars, hotVars, Tracked, Contains
<1>3. CASE CheckContains
  <2>1. CurrentId' = CurrentId /\ Tracked(store') = Tracked(store)
    BY <1>3 DEF CheckContains, CurrentId, vars, hotVars
  <2>2. CurrentId \in Tracked(store) <=> Contains(store, CurrentId)
    BY <1>3, <1>b DEF CheckContains, Tracked
  <2>3. QED
    BY <1>3, <2>1, <2>2 DEF CheckContains, vars, hotVars
<1>4. CASE InsertMissing
  <2>1. PICK p \in Price : store' = Inserted(store, CurrentId, NewEntity(p))
    BY <1>4 DEF InsertMissing
  <2>2. CurrentId \in Entity /\ CurrentId \notin Tracked(store)
    BY <1>4, <1>b DEF InsertMissing
  <2>3. Tracked(store') = Tracked(store) \cup {CurrentId}
    BY <1>a, <2>1, <2>2, InsertedTracked
  <2>4. Register(CurrentId)
    BY <1>4, <2>2 DEF InsertMissing, Register, Tracked
  <2>5. CurrentId' = CurrentId
    BY <1>4 DEF InsertMissing, CurrentId
  <2>6. Positions' /\ Population'
    BY <1>4, <2>3, <2>5 DEF InsertMissing
  <2>7. QED
    BY <2>2, <2>4, <2>6 DEF Next, Feed
<1>5. CASE BinanceTick
  <2>1. Tracked(store') = Tracked(store) /\ Next
    BY <1>5, <1>a, <1>b, WritesInPlace DEF BinanceTick
  <2>2. CurrentId' = CurrentId
    BY <1>5 DEF BinanceTick, CurrentId
  <2>3. QED
    BY <1>5, <2>1, <2>2 DEF BinanceTick
<1>6. CASE BinanceUpdate
  <2>1. Tracked(store') = Tracked(store) /\ Next
    BY <1>6, <1>a, <1>b, WritesInPlace DEF BinanceUpdate
  <2>2. CurrentId' = CurrentId
    BY <1>6 DEF BinanceUpdate, CurrentId
  <2>3. QED
    BY <1>6, <2>1, <2>2 DEF BinanceUpdate
<1>7. CASE BinanceTrigger
  <2>1. Tracked(store') = Tracked(store) /\ [Next]_vars
    BY <1>7, <1>a, <1>b, WritesInPlace DEF BinanceTrigger, vars, hotVars
  <2>2. batch' \in Seq(Symbol)
    BY <1>7 DEF BinanceTrigger
  <2>3. QED
    BY <1>7, <2>1, <2>2 DEF BinanceTrigger
<1>8. CASE \E r \in Rng : Draw(r)
  <2>1. CurrentId' = CurrentId /\ Tracked(store') = Tracked(store)
    BY <1>8 DEF Draw, CurrentId, vars, hotVars
  <2>2. QED
    BY <1>8, <2>1 DEF Draw, Started
<1>9. CASE SyntheticTick \/ SyntheticUpdate
  <2>1. Tracked(store') = Tracked(store) /\ Next
    BY <1>9, <1>a, <1>c, WritesInPlace DEF SyntheticTick, SyntheticUpdate
  <2>2. CurrentId' = CurrentId
    BY <1>9 DEF SyntheticTick, SyntheticUpdate, CurrentId
  <2>3. QED
    BY <1>9, <2>1, <2>2 DEF SyntheticTick, SyntheticUpdate
<1>10. CASE SyntheticTrigger
  <2>1. Tracked(store') = Tracked(store) /\ [Next]_vars
    BY <1>10, <1>a, <1>c, WritesInPlace DEF SyntheticTrigger, vars, hotVars
  <2>2. CurrentId' = CurrentId
    BY <1>10 DEF SyntheticTrigger, CurrentId
  <2>3. QED
    BY <1>10, <2>1, <2>2 DEF SyntheticTrigger
<1>11. CASE Others
  <2>1. Tracked(store') = Tracked(store)
    <3>1. CASE ResetTrigger
      BY <3>1, <1>a, TriggerSetTracked DEF ResetTrigger, Control
    <3>2. CASE ~ResetTrigger
      BY <1>11, <3>2
      DEF Others, Agent, Consumer, SnapshotShard, NextEntity,
          SendCausalTrigger, CheckSpike, EndSweep, Wake, Receive,
          DropReceiver, hotVars
    <3>3. QED
      BY <3>1, <3>2
  <2>2. CurrentId' = CurrentId
    BY <1>11 DEF Others, feedVars, CurrentId
  <2>3. QED
    BY <1>11, <2>1, <2>2 DEF Others, feedVars, Next
<1>12. CASE UNCHANGED fvars
  <2>1. CurrentId' = CurrentId /\ Tracked(store') = Tracked(store)
    BY <1>12 DEF fvars, feedVars, vars, hotVars, CurrentId
  <2>2. QED
    BY <1>12, <2>1 DEF fvars, feedVars
<1>13. QED
  BY <1>1, <1>2, <1>3, <1>4, <1>5, <1>6, <1>7, <1>8, <1>9, <1>10, <1>11, <1>12
  DEF FNext, Binance, Synthetic

LEMMA FeedInit == FInit => TypeOK /\ Control /\ Positions /\ Population
<1>1. FInit => TypeOK /\ Control
  BY SensingConstants
  DEF FInit, Init, TypeOK, Control, Stores, EmptyStore
<1>2. FInit => Positions /\ Population
  BY FeedConstants
  DEF FInit, Init, Positions, Population, Tracked, EmptyStore, Contains
<1>3. QED
  BY <1>1, <1>2

LEMMA FeedInvariants == FSpec => [](TypeOK /\ Control /\ Positions /\ Population)
<1>1. TypeOK /\ Control /\ Positions /\ Population /\ [FNext]_fvars
        => (TypeOK /\ Control /\ Positions /\ Population)'
  BY FeedStep, TypeStep DEF FeedGoal
<1>2. QED
  BY <1>1, FeedInit, PTL DEF FSpec

(* What the seeding loop, the adapter and the synthetic feed do is what    *)
(* Sensing lets its feeds do, so all that is proved of Sensing holds here: *)
(* no insert ever overwrites an entity.                                    *)
THEOREM FeedsImplementSensing == FSpec => FeedsKeepToSensing
<1>1. FInit => Init
  BY DEF FInit
<1>2. QED
  BY <1>1, FeedStep, FeedInvariants, PTL DEF FSpec, FeedsKeepToSensing, FeedGoal

(* No tick is dropped because its entity is missing.                       *)
THEOREM EveryTickLands == FSpec => []TicksLand
<1>1. Positions /\ Population => TicksLand
  BY FeedConstants, SyntheticIdType
  DEF Positions, Population, Tracked, TicksLand
<1>2. QED
  BY <1>1, FeedInvariants, PTL

(* The feeds' own state is of its types: in particular a batch is in hand  *)
(* exactly while the adapter works on one.                                 *)
THEOREM FeedTypeCorrect == FSpec => []FeedTypeOK
<1>1. TypeOK /\ Positions => FeedTypeOK
  BY DEF Positions, FeedTypeOK
<1>2. QED
  BY <1>1, FeedInvariants, PTL

=============================================================================
