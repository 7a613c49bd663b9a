---------------------------- MODULE SensingProof ---------------------------
(***************************************************************************)
(* Proofs about Sensing, for every set of entities, every distribution of  *)
(* them over shards, every capacity and threshold.                         *)
(***************************************************************************)
EXTENDS Sensing, TLAPS

-----------------------------------------------------------------------------
(* What the operators of HotStore keep and change.                         *)

(* A recalculated weight is a weight, whatever the surprise factor.        *)
LEMMA RecalculatedWeightType ==
  ASSUME NEW w \in Int, NEW s \in Int
  PROVE  RecalculatedWeight(w, s) \in Int
<1>1. w * Alpha + s * Beta \in Int
  BY WeightConstants
<1>2. QED
  BY <1>1, WeightConstants DEF RecalculatedWeight

(* Triggered(s) is the part of a store the trigger protocol looks at.      *)
Triggered(s) == {e \in Entity : Contains(s, e) /\ s[e].trigger}

(* Registering an entity leaves a well-formed store and no new trigger.    *)
LEMMA InsertedFacts ==
  ASSUME NEW s \in Stores, NEW e \in Entity, NEW p \in Price
  PROVE  /\ Inserted(s, e, NewEntity(p)) \in Stores
         /\ ~Contains(s, e) =>
              Triggered(Inserted(s, e, NewEntity(p))) = Triggered(s)
  BY WeightConstants, AbsentIsNoEntity
  DEF Stores, WeightedEntity, Contains, Inserted, NewEntity, Triggered

(* Ticking a price leaves a well-formed store and every trigger as it was. *)
LEMMA PriceTickedFacts ==
  ASSUME NEW s \in Stores, NEW e \in Entity, NEW p \in Price
  PROVE  /\ PriceTicked(s, e, p) \in Stores
         /\ Triggered(PriceTicked(s, e, p)) = Triggered(s)
  BY AbsentIsNoEntity
  DEF Stores, WeightedEntity, Contains, PriceTicked, Triggered

(* So does updating a weight.                                              *)
LEMMA WeightUpdatedFacts ==
  ASSUME NEW s \in Stores, NEW e \in Entity, NEW surprise \in Int
  PROVE  /\ WeightUpdated(s, e, surprise) \in Stores
         /\ Triggered(WeightUpdated(s, e, surprise)) = Triggered(s)
<1>1. CASE s[e] = Absent
  BY <1>1 DEF WeightUpdated, Contains
<1>2. CASE s[e] # Absent
  <2>1. s[e].weight \in Int
    BY <1>2 DEF Stores, WeightedEntity
  <2> DEFINE w == RecalculatedWeight(s[e].weight, surprise)
  <2>2. w \in Int
    BY <2>1, RecalculatedWeightType
  <2>3. WeightUpdated(s, e, surprise) = [s EXCEPT ![e].weight = w]
    BY <1>2 DEF WeightUpdated, Contains
  <2> HIDE DEF w
  <2>4. QED
    BY <1>2, <2>2, <2>3, AbsentIsNoEntity
    DEF Stores, WeightedEntity, Contains, Triggered
<1>3. QED
  BY <1>1, <1>2

(* set_causal_trigger changes the bit of one tracked entity.               *)
LEMMA TriggerSetFacts ==
  ASSUME NEW s \in Stores, NEW e \in Entity, NEW b \in BOOLEAN
  PROVE  /\ CausalTriggerSet(s, e, b) \in Stores
         /\ Triggered(CausalTriggerSet(s, e, b)) =
              IF b THEN IF Contains(s, e) THEN Triggered(s) \cup {e}
                                          ELSE Triggered(s)
                   ELSE Triggered(s) \ {e}
  BY AbsentIsNoEntity
  DEF Stores, WeightedEntity, Contains, CausalTriggerSet, Triggered

-----------------------------------------------------------------------------
(* Every variable keeps its type; in particular the channel never holds    *)
(* more than its capacity, and prev_weights only ever holds weights the    *)
(* sweep copied.                                                           *)

(* How the agent's position, the entity in hand and the copies relate.     *)
Control ==
  /\ pc \in {"reset", "send", "spike"} =>
       current \in Entity /\ Contains(snapshots, current)
  /\ pc = "reset" => snapshots[current].trigger
  /\ pc \in {"snapshot", "next", "sleep"} => current = Nobody

(* Offering an event keeps the channel well-formed and within capacity.    *)
LEMMA TrySendType ==
  ASSUME NEW s \in SignalEvent,
         channel \in Seq(SignalEvent), Len(channel) <= Capacity, TrySend(s)
  PROVE  channel' \in Seq(SignalEvent) /\ Len(channel') <= Capacity
  BY SensingConstants DEF TrySend, Accepts

(* The types and the agent's control state are inductive together: the     *)
(* agent handles only entities it has copied.                              *)
LEMMA TypeStep == TypeOK /\ Control /\ [Next]_vars => TypeOK' /\ Control'
<1> SUFFICES ASSUME TypeOK, Control, [Next]_vars
             PROVE  TypeOK' /\ Control'
  OBVIOUS
<1> USE SensingConstants DEF TypeOK, Control
<1>1. ASSUME NEW e \in Entity, Register(e)
      PROVE  TypeOK' /\ Control'
  <2>1. store' \in Stores
    BY <1>1, InsertedFacts DEF Register
  <2>2. QED
    BY <1>1, <2>1 DEF Register, agentVars, Contains
<1>2. ASSUME NEW e \in Entity, TickPrice(e)
      PROVE  TypeOK' /\ Control'
  <2>1. store' \in Stores
    BY <1>2, PriceTickedFacts DEF TickPrice
  <2>2. QED
    BY <1>2, <2>1 DEF TickPrice, agentVars, Contains
<1>3. ASSUME NEW e \in Entity, UpdateWeight(e)
      PROVE  TypeOK' /\ Control'
  <2>1. store' \in Stores
    BY <1>3, WeightUpdatedFacts DEF UpdateWeight
  <2>2. QED
    BY <1>3, <2>1 DEF UpdateWeight, agentVars, Contains
<1>4. ASSUME NEW e \in Entity, RaiseTrigger(e)
      PROVE  TypeOK' /\ Control'
  <2>1. store' \in Stores
    BY <1>4, TriggerSetFacts DEF RaiseTrigger
  <2>2. QED
    BY <1>4, <2>1 DEF RaiseTrigger, agentVars, Contains
<1>5. CASE SnapshotShard
  <2>1. snapshots' \in Stores
    BY <1>5 DEF SnapshotShard, Stores
  <2>2. QED
    BY <1>5, <2>1 DEF SnapshotShard, hotVars
<1>6. CASE NextEntity
  BY <1>6 DEF NextEntity, FirstCheck, Copied, hotVars, Contains
<1>7. CASE ResetTrigger
  <2>1. store' \in Stores
    BY <1>7, TriggerSetFacts DEF ResetTrigger
  <2>2. QED
    BY <1>7, <2>1 DEF ResetTrigger, Contains
<1>8. CASE SendCausalTrigger
  <2>1. CausalTrigger(current) \in SignalEvent
    BY <1>8 DEF SendCausalTrigger, SignalEvent
  <2>2. channel' \in Seq(SignalEvent) /\ Len(channel') <= Capacity
    BY <1>8, <2>1, TrySendType DEF SendCausalTrigger
  <2>3. QED
    BY <1>8, <2>2 DEF SendCausalTrigger, Contains
<1>9. CASE CheckSpike
  <2> DEFINE w == snapshots[current].weight
             signal == WeightSpike(current, Distance(w, Baseline(current)), w)
  <2>1. current \in Entity /\ snapshots[current] \in WeightedEntity
    BY <1>9 DEF CheckSpike, Stores, Contains
  <2>2. w \in Int
    BY <2>1 DEF WeightedEntity
  <2>3. Baseline(current) \in Int
    BY <2>1, <2>2 DEF Baseline
  <2>4. signal \in SignalEvent
    BY <2>1, <2>2, <2>3 DEF SignalEvent, WeightSpike, Distance
  <2>5. channel' \in Seq(SignalEvent) /\ Len(channel') <= Capacity
    BY <1>9, <2>4, TrySendType DEF CheckSpike
  <2>6. prev_weights' \in [Entity -> Int \cup {Unseen}]
    BY <1>9, <2>2 DEF CheckSpike, Remembered
  <2>7. snapshots' \in Stores
    BY <1>9 DEF CheckSpike, Stores
  <2>8. idle' \in BOOLEAN /\ UNCHANGED <<store, connected, shard>>
    BY <1>9 DEF CheckSpike
  <2>9. current' = Nobody /\ pc' = "next"
    BY <1>9 DEF CheckSpike
  <2>10. QED
    BY <2>5, <2>6, <2>7, <2>8, <2>9
<1>10. CASE EndSweep
  BY <1>10 DEF EndSweep, hotVars
<1>11. CASE Wake
  BY <1>11 DEF Wake, hotVars
<1>12. CASE Receive
  BY <1>12 DEF Receive, agentVars, Contains
<1>13. CASE DropReceiver
  <2>1. <<>> \in Seq(SignalEvent) /\ Len(<<>>) <= Capacity
    OBVIOUS
  <2>2. channel' \in Seq(SignalEvent) /\ Len(channel') <= Capacity
    BY <1>13, <2>1 DEF DropReceiver
  <2>3. QED
    BY <1>13, <2>2 DEF DropReceiver, agentVars, Contains
<1>14. CASE UNCHANGED vars
  BY <1>14 DEF vars, hotVars, agentVars, Contains
<1>15. QED
  BY <1>1, <1>2, <1>3, <1>4, <1>5, <1>6, <1>7, <1>8, <1>9, <1>10, <1>11,
     <1>12, <1>13, <1>14 DEF Next, Feed, Agent, Consumer

(* Every variable of the hot tier keeps its type for ever; the channel     *)
(* never outgrows channel_capacity.                                        *)
THEOREM TypeCorrect == Spec => [](TypeOK /\ Control)
<1>1. Init => TypeOK /\ Control
  BY SensingConstants DEF Init, TypeOK, Control, Stores, EmptyStore
<1>2. QED
  BY <1>1, TypeStep, PTL DEF Spec

-----------------------------------------------------------------------------
(* A copied trigger bit is current.  Only the agent clears bits, it clears *)
(* the bit of the entity in hand, and from that step on the copy of that   *)
(* entity is excused.                                                      *)
LEMMA CurrentStep ==
  TypeOK /\ Control /\ TriggerCopiesAreCurrent /\ [Next]_vars
    => TriggerCopiesAreCurrent'
<1> SUFFICES ASSUME TypeOK, Control, TriggerCopiesAreCurrent, [Next]_vars
             PROVE  TriggerCopiesAreCurrent'
  OBVIOUS
<1> DEFINE Excused(f) == current = f /\ pc \in {"send", "spike"}
\* The invariant as an inclusion of sets of entities
<1>a. {f \in Triggered(snapshots) : ~Excused(f)} \subseteq Triggered(store)
  BY DEF TriggerCopiesAreCurrent, Triggered
<1>b. ASSUME {f \in Triggered(snapshots)' : ~Excused(f)'} \subseteq Triggered(store)'
      PROVE  TriggerCopiesAreCurrent'
  BY <1>b DEF TriggerCopiesAreCurrent, Triggered
<1>c. ASSUME UNCHANGED agentVars, Triggered(store) \subseteq Triggered(store')
      PROVE  TriggerCopiesAreCurrent'
  BY <1>a, <1>b, <1>c DEF agentVars, Triggered, Contains
<1>1. ASSUME NEW e \in Entity, Register(e)
      PROVE  TriggerCopiesAreCurrent'
  BY <1>1, <1>c, InsertedFacts DEF Register, TypeOK
<1>2. ASSUME NEW e \in Entity, TickPrice(e)
      PROVE  TriggerCopiesAreCurrent'
  BY <1>2, <1>c, PriceTickedFacts DEF TickPrice, TypeOK
<1>3. ASSUME NEW e \in Entity, UpdateWeight(e)
      PROVE  TriggerCopiesAreCurrent'
  BY <1>3, <1>c, WeightUpdatedFacts, SensingConstants DEF UpdateWeight, TypeOK
<1>4. ASSUME NEW e \in Entity, RaiseTrigger(e)
      PROVE  TriggerCopiesAreCurrent'
  BY <1>4, <1>c, TriggerSetFacts DEF RaiseTrigger, TypeOK
<1>5. CASE SnapshotShard
  BY <1>5 DEF SnapshotShard, TriggerCopiesAreCurrent, Contains, hotVars
<1>6. CASE NextEntity
  BY <1>6 DEF NextEntity, FirstCheck, TriggerCopiesAreCurrent, Control, hotVars, Contains
<1>7. CASE ResetTrigger
  <2>1. Triggered(store') = Triggered(store) \ {current}
    BY <1>7, TriggerSetFacts DEF ResetTrigger, TypeOK, Control
  <2>2. QED
    BY <1>7, <2>1, <1>a, <1>b
    DEF ResetTrigger, Triggered, Contains
<1>8. CASE SendCausalTrigger
  BY <1>8 DEF SendCausalTrigger, TriggerCopiesAreCurrent, Contains
<1>9. CASE CheckSpike
  <2>1. \A f \in Entity : Contains(snapshots, f)' =>
          /\ f # current
          /\ Contains(snapshots, f)
          /\ snapshots'[f] = snapshots[f]
    BY <1>9 DEF CheckSpike, TypeOK, Stores, Contains
  <2>2. QED
    BY <1>9, <2>1 DEF CheckSpike, TriggerCopiesAreCurrent, Contains
<1>10. CASE EndSweep
  BY <1>10 DEF EndSweep, TriggerCopiesAreCurrent, Contains, hotVars
<1>11. CASE Wake
  BY <1>11 DEF Wake, TriggerCopiesAreCurrent, Contains, hotVars
<1>12. CASE Consumer
  BY <1>12, <1>c DEF Consumer, Receive, DropReceiver, Triggered, Contains
<1>13. CASE UNCHANGED vars
  BY <1>13, <1>c DEF vars, hotVars, Triggered, Contains
<1>14. QED
  BY <1>1, <1>2, <1>3, <1>4, <1>5, <1>6, <1>7, <1>8, <1>9, <1>10, <1>11,
     <1>12, <1>13 DEF Next, Feed, Agent

(* A trigger the agent is about to handle is still set in the store: it    *)
(* never announces a trigger that nobody raised.                           *)
THEOREM CopiesCorrect == Spec => []TriggerCopiesAreCurrent
<1>1. Init => TriggerCopiesAreCurrent
  BY DEF Init, TriggerCopiesAreCurrent, EmptyStore, Contains
<1>2. QED
  BY <1>1, CurrentStep, TypeCorrect, PTL DEF Spec

=============================================================================
