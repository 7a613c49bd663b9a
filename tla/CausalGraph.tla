---------------------------- MODULE CausalGraph -----------------------------
(***************************************************************************)
(* CausalGraph of crates/warm-tier/src/lib.rs: GraphInner behind one       *)
(* RwLock.  A method that takes the lock once is one step; and             *)
(* materialize_temporal_link is many: it reads the source entity under one *)
(* lock, each candidate under another, and writes its links under a third, *)
(* while other threads tag entities, record returns and write links.       *)
(*                                                                         *)
(* Abstracted: the samples themselves (only how many there are is kept,    *)
(* and a correlation may come out either way; Correlation adds both), and  *)
(* r, p and the time in a link.                                            *)
(***************************************************************************)
EXTENDS LabelStore

CONSTANTS Caller,      \* threads that call materialize_temporal_link
          TagLists,    \* label lists an ingestor passes to tag_entity
          Window,      \* samples kept per entity (256)
          MinHistory,  \* samples needed on both sides (10)
          NoEntity,    \* no source entity
          NoLink,      \* no TEMPORAL_LINK for a pair of labels
          MaxTags,     \* bound: labels per entity
          MaxFacts,    \* bound: no link is sought once there are this many facts
          MaxHallucinations  \* bound on record_hallucination

ASSUME GraphConstants ==
  /\ Window \in Nat /\ MinHistory \in Nat
  /\ 0 < MinHistory /\ MinHistory <= Window
  /\ TagLists \subseteq Seq(Label)
  /\ NoEntity \notin Entity
  /\ NoLink \notin Entity \X Entity
  /\ MaxTags \in Nat /\ MaxFacts \in Nat /\ MaxHallucinations \in Nat

VARIABLES entity_labels,        \* per entity, the labels it was given
          label_entities,       \* per label, the entities that were given it
          label_store,
          temporal_links,       \* per pair of labels, the entities that
                                \* justify its link, or NoLink
          return_samples,       \* how many samples each entity has
          fact_count,
          hallucination_count,
          pc,                   \* per caller, where it stands
          src,                  \* per caller, the entity that spiked,
          src_labels,           \*   its labels when the call began,
          candidates,           \*   the entities left to correlate with it,
          new_links,            \*   the links found so far, by their labels
          new_facts             \*   and how many they are

graphVars == <<entity_labels, label_entities, label_store, temporal_links,
               return_samples, fact_count, hallucination_count>>
tagVars == <<entity_labels, label_entities, label_store>>
callVars == <<pc, src, src_labels, candidates, new_links, new_facts>>
vars == <<graphVars, callVars>>

Elements(seq) == {seq[i] : i \in DOMAIN seq}

Links == [Label \X Label -> (Entity \X Entity) \cup {NoLink}]
NoLinks == [k \in Label \X Label |-> NoLink]

Init == /\ entity_labels = [e \in Entity |-> <<>>]
        /\ label_entities = [l \in Label |-> <<>>]
        /\ label_store = EmptyLabelStore
        /\ temporal_links = NoLinks
        /\ return_samples = [e \in Entity |-> 0]
        /\ fact_count = 0
        /\ hallucination_count = 0
        /\ pc = [c \in Caller |-> "idle"]
        /\ src = [c \in Caller |-> NoEntity]
        /\ src_labels = [c \in Caller |-> <<>>]
        /\ candidates = [c \in Caller |-> {}]
        /\ new_links = [c \in Caller |-> NoLinks]
        /\ new_facts = [c \in Caller |-> 0]

-----------------------------------------------------------------------------
(* The ingestors.                                                          *)

\* How often a label occurs in a list
Times(l, labels) == Cardinality({i \in DOMAIN labels : labels[i] = l})

\* n more of the same at the end of a sequence
Extended(seq, x, n) == seq \o [i \in 1..n |-> x]

InsertedInStore(s, labels, e) ==
  LET after[n \in 0..Len(labels)] ==
        IF n = 0 THEN s ELSE InsertLabel(after[n - 1], labels[n], e)
  IN  after[Len(labels)]

\* Mutant: labels the entity has already are not added to its own list again
EntityLabelsTaggedOnce(e, labels) ==
  [entity_labels EXCEPT ![e] =
     @ \o SelectSeq(labels, LAMBDA l : l \notin Elements(entity_labels[e]))]
EntityLabelsTagged(e, labels) == [entity_labels EXCEPT ![e] = @ \o labels]

TagEntity(e, labels) ==
  /\ Len(entity_labels[e]) + Len(labels) <= MaxTags
  /\ label_entities' = [l \in Label |->
                          Extended(label_entities[l], e, Times(l, labels))]
  /\ label_store' = InsertedInStore(label_store, labels, e)
  /\ entity_labels' = EntityLabelsTagged(e, labels)
  /\ UNCHANGED <<temporal_links, return_samples, fact_count,
                 hallucination_count, callVars>>

\* Mutant: the window is not trimmed
RolledNot(n) == n + 1
\* Mutant: a full window is emptied instead of rolled
RolledToNothing(n) == IF n + 1 > Window THEN 0 ELSE n + 1
\* How many samples there are after one more: push, and drop the oldest of 257
Rolled(n) == IF n + 1 > Window THEN Window ELSE n + 1

RecordReturn(e) ==
  /\ return_samples' = [return_samples EXCEPT ![e] = Rolled(@)]
  /\ UNCHANGED <<tagVars, temporal_links, fact_count, hallucination_count, callVars>>

RecordHallucination ==
  /\ hallucination_count < MaxHallucinations
  /\ hallucination_count' = hallucination_count + 1
  /\ UNCHANGED <<tagVars, temporal_links, return_samples, fact_count, callVars>>

-----------------------------------------------------------------------------
(* materialize_temporal_link                                               *)

Idle(c) == /\ pc' = [pc EXCEPT ![c] = "idle"]
           /\ src' = [src EXCEPT ![c] = NoEntity]
           /\ src_labels' = [src_labels EXCEPT ![c] = <<>>]
           /\ candidates' = [candidates EXCEPT ![c] = {}]
           /\ new_links' = [new_links EXCEPT ![c] = NoLinks]
           /\ new_facts' = [new_facts EXCEPT ![c] = 0]

\* Mutant: the entity is its own candidate
SharingSelf(e) ==
  UNION {Elements(label_entities[l]) : l \in Elements(entity_labels[e])}
\* Entities that share a label with e, by the reverse map
Sharing(e) ==
  (UNION {Elements(label_entities[l]) : l \in Elements(entity_labels[e])}) \ {e}

\* First read lock.  An unknown entity or a short history ends the call.
ReadSource(c, e) ==
  /\ pc[c] = "idle"
  /\ fact_count < MaxFacts
  /\ entity_labels[e] # <<>>
  /\ return_samples[e] >= MinHistory
  /\ pc' = [pc EXCEPT ![c] = "correlate"]
  /\ src' = [src EXCEPT ![c] = e]
  /\ src_labels' = [src_labels EXCEPT ![c] = entity_labels[e]]
  /\ candidates' = [candidates EXCEPT ![c] = Sharing(e)]
  /\ UNCHANGED <<graphVars, new_links, new_facts>>

\* A directed link for each pair of different labels
LinksBetween(a, a_labels, b, b_labels) ==
  [k \in Label \X Label |->
     IF /\ k[1] # k[2]
        /\ k[1] \in Elements(a_labels) /\ k[2] \in Elements(b_labels)
       THEN <<a, b>> ELSE NoLink]

\* The list of them has one for each pair of occurrences
DifferentPairs(a_labels, b_labels) ==
  {p \in (DOMAIN a_labels) \X (DOMAIN b_labels) : a_labels[p[1]] # b_labels[p[2]]}

\* insert(), one by one: a new link replaces an older one with its key
Written(links, new) ==
  [k \in Label \X Label |-> IF new[k] = NoLink THEN links[k] ELSE new[k]]

\* Second read lock, one candidate: too few samples, or p >= 0.05
SkipCandidate(c, b) ==
  /\ pc[c] = "correlate"
  /\ b \in candidates[c]
  /\ candidates' = [candidates EXCEPT ![c] = @ \ {b}]
  /\ UNCHANGED <<graphVars, pc, src, src_labels, new_links, new_facts>>

LinkCandidate(c, b) ==
  /\ pc[c] = "correlate"
  /\ b \in candidates[c]
  /\ return_samples[b] >= MinHistory
  /\ candidates' = [candidates EXCEPT ![c] = @ \ {b}]
  /\ new_links' = [new_links EXCEPT ![c] =
       Written(@, LinksBetween(src[c], src_labels[c], b, entity_labels[b]))]
  /\ new_facts' = [new_facts EXCEPT ![c] =
       @ + Cardinality(DifferentPairs(src_labels[c], entity_labels[b]))]
  /\ UNCHANGED <<graphVars, pc, src, src_labels>>

ReadCandidate(c, b) == SkipCandidate(c, b) \/ LinkCandidate(c, b)

\* Mutant: one fact per call
FactsCountedOnce(n, new) == n + 1
FactsCounted(n, new) == n + new

\* Write lock
WriteLinks(c) ==
  /\ pc[c] = "correlate"
  /\ candidates[c] = {}
  /\ new_facts[c] # 0
  /\ temporal_links' = Written(temporal_links, new_links[c])
  /\ fact_count' = FactsCounted(fact_count, new_facts[c])
  /\ Idle(c)
  /\ UNCHANGED <<tagVars, return_samples, hallucination_count>>

FindNothing(c) ==
  /\ pc[c] = "correlate"
  /\ candidates[c] = {}
  /\ new_facts[c] = 0
  /\ Idle(c)
  /\ UNCHANGED graphVars

Materialize(c) == \/ \E e \in Entity : ReadSource(c, e) \/ ReadCandidate(c, e)
                  \/ WriteLinks(c)
                  \/ FindNothing(c)

\* temporal_links_snapshot and temporal_link_count
TemporalLinksSnapshot == {k \in Label \X Label : temporal_links[k] # NoLink}
TemporalLinkCount == Cardinality(TemporalLinksSnapshot)

Next == \/ \E e \in Entity : \/ \E labels \in TagLists : TagEntity(e, labels)
                             \/ RecordReturn(e)
        \/ RecordHallucination
        \/ \E c \in Caller : Materialize(c)

Spec == Init /\ [][Next]_vars

-----------------------------------------------------------------------------
GraphTypeOK ==
  /\ entity_labels \in [Entity -> Seq(Label)]
  /\ label_entities \in [Label -> Seq(Entity)]
  /\ label_store \in LabelStores
  /\ temporal_links \in Links
  /\ return_samples \in [Entity -> 0..Window]
  /\ fact_count \in Nat
  /\ hallucination_count \in Nat
  /\ pc \in [Caller -> {"idle", "correlate"}]
  /\ src \in [Caller -> Entity \cup {NoEntity}]
  /\ src_labels \in [Caller -> Seq(Label)]
  /\ candidates \in [Caller -> SUBSET Entity]
  /\ new_links \in [Caller -> Links]
  /\ new_facts \in [Caller -> Nat]

(* The three records tag_entity keeps of one fact agree: an entity stands  *)
(* in a label's list, in the reverse map and in the LabelStore, exactly as *)
(* often as the label stands in the entity's list.                         *)
IndexesAgree ==
  \A l \in Label :
    /\ EntitiesForLabel(label_store, l) = label_entities[l]
    /\ \A e \in Entity : Times(e, label_entities[l]) = Times(l, entity_labels[e])

(* The linked list runs through all of the arena, so that walking it comes *)
(* to an end, and meets every label in use once, with the right number of  *)
(* entities.                                                               *)
ListMeetsEveryLabel ==
  LET all == TraverseAll(label_store) IN
    /\ WellLinked(label_store)
    /\ Len(all) = LabelCount(label_store)
    /\ Elements(all) = {<<l, Len(label_entities[l])>> :
                          l \in {m \in Label : label_entities[m] # <<>>}}

\* a and b may be linked as s -> d
Grounds(a, b, s, d) ==
  /\ a # b /\ s # d
  /\ s \in Elements(entity_labels[a])
  /\ d \in Elements(entity_labels[b])
  /\ Elements(entity_labels[a]) \cap Elements(entity_labels[b]) # {}
  /\ return_samples[a] >= MinHistory
  /\ return_samples[b] >= MinHistory

(* Every materialised link, although it was found in several reads of a    *)
(* graph that kept changing, is grounded in the graph as it is: two        *)
(* entities that share a label, carry the two ends of the link and have    *)
(* the history a correlation needs.                                        *)
LinksGrounded ==
  \A k \in TemporalLinksSnapshot :
    Grounds(temporal_links[k][1], temporal_links[k][2], k[1], k[2])

(* The same of what a call carries from one lock to the next.              *)
CallsGrounded ==
  \A c \in Caller :
    /\ \A k \in Label \X Label : new_links[c][k] # NoLink =>
         Grounds(new_links[c][k][1], new_links[c][k][2], k[1], k[2])
    /\ pc[c] = "correlate" =>
         /\ return_samples[src[c]] >= MinHistory
         /\ Elements(src_labels[c]) \subseteq Elements(entity_labels[src[c]])
         /\ \A b \in candidates[c] :
              /\ b # src[c]
              /\ Elements(entity_labels[src[c]]) \cap Elements(entity_labels[b]) # {}

(* fact_count, the grounding ratio's numerator, never falls behind the     *)
(* links it stands for, whoever writes them and however often.             *)
FactsCoverLinks == fact_count >= TemporalLinkCount

=============================================================================
