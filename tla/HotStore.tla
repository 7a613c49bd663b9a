------------------------------ MODULE HotStore ------------------------------
(***************************************************************************)
(* The Hot Tier's key-value store (crates/hot-tier/src/lib.rs) as a value: *)
(* a function from entity ids to WeightedEntity records, Absent where the  *)
(* id is not tracked.  DashMap guards a shard with a lock for the length   *)
(* of one call, so each operator is one atomic step of the thread that     *)
(* calls it; the operators return the store the call leaves behind.        *)
(*                                                                         *)
(* Abstracted: volatility_score (never written), last_updated_ns (a        *)
(* wall-clock stamp nothing in the code compares) and the padding.         *)
(* Floating-point weights are integers in units of the MC's choice, with   *)
(* Alpha / Scale and Beta / Scale for the decay and sensitivity constants. *)
(***************************************************************************)
EXTENDS Integers, FiniteSets

CONSTANTS Entity,     \* entity ids
          Price,      \* prices a feed can report
          Absent,     \* marks an id the store does not hold
          NewWeight,  \* importance_weight of WeightedEntity::new (0.5)
          Alpha,      \* decay constant, in units of 1 / Scale
          Beta,       \* surprise sensitivity, in units of 1 / Scale
          Scale       \* units per 1.0 in Alpha and Beta

ASSUME WeightConstants ==
  /\ NewWeight \in Int
  /\ Alpha \in Int
  /\ Beta \in Int
  /\ Scale \in Nat \ {0}

WeightedEntity == [price : Price, weight : Int, trigger : BOOLEAN]

ASSUME AbsentIsNoEntity == Absent \notin WeightedEntity

Stores == [Entity -> WeightedEntity \cup {Absent}]

EmptyStore == [e \in Entity |-> Absent]

\* WeightedEntity::new
NewEntity(p) == [price |-> p, weight |-> NewWeight, trigger |-> FALSE]

\* W_new = W_old * alpha + S * beta
RecalculatedWeight(w, surprise) == (w * Alpha + surprise * Beta) \div Scale

Contains(s, e) == s[e] # Absent

\* insert: insert or overwrite
Inserted(s, e, entity) == [s EXCEPT ![e] = entity]

\* tick_price, update_weight and set_causal_trigger do nothing to an absent id
PriceTicked(s, e, p) ==
  IF Contains(s, e) THEN [s EXCEPT ![e].price = p] ELSE s

WeightUpdated(s, e, surprise) ==
  IF Contains(s, e)
    THEN [s EXCEPT ![e].weight = RecalculatedWeight(@, surprise)]
    ELSE s

\* Mutant: the value is ignored
CausalTriggerRaised(s, e, value) ==
  IF Contains(s, e) THEN [s EXCEPT ![e].trigger = TRUE] ELSE s

CausalTriggerSet(s, e, value) ==
  IF Contains(s, e) THEN [s EXCEPT ![e].trigger = value] ELSE s

=============================================================================
