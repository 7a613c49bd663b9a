-------------------------- MODULE CausalGraphProof --------------------------
(***************************************************************************)
(* Proofs about CausalGraph: for any entities, labels, callers, window and *)
(* history, what a call of materialize_temporal_link has read under one    *)
(* lock is still true when it writes under another, so that every link is  *)
(* grounded; fact_count covers the links; and for any lists of labels, the *)
(* LabelStore, the reverse map and the entities' own lists say the same,   *)
(* and the LabelStore's list, arena and index describe one another.        *)
(***************************************************************************)
EXTENDS CausalGraph, FiniteSetTheorems, WellFoundedInduction, TLAPS

Tagged == /\ entity_labels \in [Entity -> Seq(Label)]
          /\ label_entities \in [Label -> Seq(Entity)]

Counted == /\ return_samples \in [Entity -> 0..Window]
           /\ fact_count \in Nat
           /\ hallucination_count \in Nat

Called == /\ temporal_links \in Links
          /\ pc \in [Caller -> {"idle", "correlate"}]
          /\ src \in [Caller -> Entity \cup {NoEntity}]
          /\ src_labels \in [Caller -> Seq(Label)]
          /\ candidates \in [Caller -> SUBSET Entity]
          /\ new_links \in [Caller -> Links]
          /\ new_facts \in [Caller -> Nat]
          /\ \A c \in Caller : pc[c] = "correlate" => src[c] \in Entity

(* The part of GraphTypeOK that does not speak of the LabelStore, which no *)
(* other state depends on.                                                 *)
TypesKept == Tagged /\ Counted /\ Called

(* The reverse map lists an entity under its own labels only.              *)
ReverseIsTrue ==
  \A l \in Label : \A e \in Elements(label_entities[l]) :
    e \in Entity /\ l \in Elements(entity_labels[e])

GroundInv == TypesKept /\ ReverseIsTrue /\ LinksGrounded /\ CallsGrounded

-----------------------------------------------------------------------------
(* Sequences and their elements.                                           *)

LEMMA ElementsOfConcatenation ==
  ASSUME NEW S, NEW s \in Seq(S), NEW t \in Seq(S)
  PROVE  /\ s \o t \in Seq(S)
         /\ Elements(s \o t) = Elements(s) \cup Elements(t)
<1>1. /\ s \o t \in Seq(S)
      /\ Len(s \o t) = Len(s) + Len(t)
      /\ \A i \in 1..Len(s) + Len(t) :
           (s \o t)[i] = IF i <= Len(s) THEN s[i] ELSE t[i - Len(s)]
  OBVIOUS
<1>2. Len(s) \in Nat /\ Len(t) \in Nat
  OBVIOUS
<1>3. ASSUME NEW x \in Elements(s \o t) PROVE x \in Elements(s) \cup Elements(t)
  <2>1. PICK i \in 1..Len(s) + Len(t) : x = (s \o t)[i]
    BY <1>1, <1>3 DEF Elements
  <2>2. CASE i <= Len(s)
    BY <1>1, <1>2, <2>1, <2>2 DEF Elements
  <2>3. CASE ~(i <= Len(s))
    <3>1. i - Len(s) \in 1..Len(t)
      BY <1>2, <2>3
    <3>2. QED
      BY <1>1, <2>1, <2>3, <3>1 DEF Elements
  <2>4. QED
    BY <2>2, <2>3
<1>4. ASSUME NEW x \in Elements(s) PROVE x \in Elements(s \o t)
  <2>1. PICK i \in 1..Len(s) : x = s[i]
    BY <1>4 DEF Elements
  <2>2. i \in 1..Len(s) + Len(t) /\ i <= Len(s)
    BY <1>2
  <2>3. QED
    BY <1>1, <2>1, <2>2 DEF Elements
<1>5. ASSUME NEW x \in Elements(t) PROVE x \in Elements(s \o t)
  <2>1. PICK i \in 1..Len(t) : x = t[i]
    BY <1>5 DEF Elements
  <2>2. /\ i + Len(s) \in 1..Len(s) + Len(t)
        /\ ~(i + Len(s) <= Len(s))
        /\ (i + Len(s)) - Len(s) = i
    BY <1>2
  <2>3. QED
    BY <1>1, <2>1, <2>2 DEF Elements
<1>6. QED
  BY <1>1, <1>3, <1>4, <1>5

LEMMA ElementsType ==
  ASSUME NEW S, NEW s \in Seq(S)
  PROVE  Elements(s) \subseteq S
BY DEF Elements

(* How often a label occurs is a number, and more than 0 if it occurs.     *)
LEMMA TimesFacts ==
  ASSUME NEW l \in Label, NEW labels \in Seq(Label)
  PROVE  /\ Times(l, labels) \in Nat
         /\ Times(l, labels) # 0 => l \in Elements(labels)
<1> DEFINE at == {i \in DOMAIN labels : labels[i] = l}
<1>1. Len(labels) \in Nat /\ DOMAIN labels = 1..Len(labels)
  OBVIOUS
<1>2. IsFiniteSet(1..Len(labels))
  BY <1>1, FS_Interval
<1>3. IsFiniteSet(at)
  BY <1>1, <1>2, FS_Subset
<1>4. Cardinality(at) \in Nat
  BY <1>3, FS_CardinalityType
<1>5. Cardinality(at) # 0 => at # {}
  BY FS_EmptySet
<1>6. QED
  BY <1>4, <1>5 DEF Times, Elements

(* There are finitely many pairs of occurrences of different labels.       *)
LEMMA DifferentPairsFinite ==
  ASSUME NEW s \in Seq(Label), NEW t \in Seq(Label)
  PROVE  IsFiniteSet(DifferentPairs(s, t))
<1>1. /\ DOMAIN s = 1..Len(s) /\ DOMAIN t = 1..Len(t)
      /\ Len(s) \in Nat /\ Len(t) \in Nat
  OBVIOUS
<1>2. IsFiniteSet(1..Len(s)) /\ IsFiniteSet(1..Len(t))
  BY <1>1, FS_Interval
<1>3. IsFiniteSet((DOMAIN s) \X (DOMAIN t))
  BY <1>1, <1>2, FS_Product
<1>4. DifferentPairs(s, t) \in SUBSET ((DOMAIN s) \X (DOMAIN t))
  BY DEF DifferentPairs
<1>5. QED
  BY <1>3, <1>4, FS_Subset

(* Adding an entity some times to a list makes it one of it, at most.      *)
LEMMA ExtendedFacts ==
  ASSUME NEW s \in Seq(Entity), NEW e \in Entity, NEW n \in Nat
  PROVE  /\ Extended(s, e, n) \in Seq(Entity)
         /\ Elements(Extended(s, e, n)) \subseteq Elements(s) \cup {e}
         /\ n = 0 => Elements(Extended(s, e, n)) \subseteq Elements(s)
<1> DEFINE t == [i \in 1..n |-> e]
<1>1. t \in Seq(Entity) /\ DOMAIN t = 1..n
  OBVIOUS
<1>2. Elements(t) \subseteq {e}
  BY <1>1 DEF Elements
<1>3. n = 0 => Elements(t) = {}
  BY <1>1 DEF Elements
<1>4. /\ s \o t \in Seq(Entity)
      /\ Elements(s \o t) = Elements(s) \cup Elements(t)
  BY <1>1, ElementsOfConcatenation
<1>5. Extended(s, e, n) = s \o t
  BY DEF Extended
<1>6. QED
  BY <1>2, <1>3, <1>4, <1>5

-----------------------------------------------------------------------------
(* The graph only grows: what grounds a link once grounds it for good.     *)

Grows == /\ \A e \in Entity :
              /\ Elements(entity_labels[e]) \subseteq Elements(entity_labels'[e])
              /\ return_samples[e] >= MinHistory => return_samples'[e] >= MinHistory

LEMMA GroundsStays ==
  ASSUME Grows, NEW a \in Entity, NEW b \in Entity, NEW s, NEW d,
         Grounds(a, b, s, d)
  PROVE  Grounds(a, b, s, d)'
BY DEF Grows, Grounds

LEMMA LinksStayGrounded ==
  ASSUME TypesKept, LinksGrounded, Grows, UNCHANGED temporal_links
  PROVE  LinksGrounded'
<1> SUFFICES ASSUME NEW k \in Label \X Label, temporal_links[k] # NoLink
             PROVE  Grounds(temporal_links[k][1], temporal_links[k][2], k[1], k[2])'
  BY DEF LinksGrounded, TemporalLinksSnapshot
<1>1. Grounds(temporal_links[k][1], temporal_links[k][2], k[1], k[2])
  BY DEF LinksGrounded, TemporalLinksSnapshot
<1>2. temporal_links[k] \in Entity \X Entity
  BY DEF TypesKept, Called, Links
<1>3. temporal_links[k][1] \in Entity /\ temporal_links[k][2] \in Entity
  BY <1>2
<1>4. QED
  BY <1>1, <1>3, GroundsStays

(* A call that has read what is still there is as well grounded.           *)
LEMMA CallsStayGrounded ==
  ASSUME TypesKept, CallsGrounded, Grows, UNCHANGED callVars
  PROVE  CallsGrounded'
<1> USE DEF callVars
<1>1. ASSUME NEW c \in Caller, NEW k \in Label \X Label, new_links[c][k] # NoLink
      PROVE  Grounds(new_links[c][k][1], new_links[c][k][2], k[1], k[2])'
  <2>1. Grounds(new_links[c][k][1], new_links[c][k][2], k[1], k[2])
    BY <1>1 DEF CallsGrounded
  <2>2. new_links[c][k] \in Entity \X Entity
    BY <1>1 DEF TypesKept, Called, Links
  <2>3. new_links[c][k][1] \in Entity /\ new_links[c][k][2] \in Entity
    BY <2>2
  <2>4. QED
    BY <2>1, <2>3, GroundsStays
<1>2. ASSUME NEW c \in Caller, pc[c] = "correlate"
      PROVE  /\ return_samples'[src[c]] >= MinHistory
             /\ Elements(src_labels[c]) \subseteq Elements(entity_labels'[src[c]])
             /\ \A b \in candidates[c] :
                  /\ b # src[c]
                  /\ Elements(entity_labels'[src[c]]) \cap Elements(entity_labels'[b]) # {}
  <2>1. src[c] \in Entity /\ candidates[c] \subseteq Entity
    BY <1>2 DEF TypesKept, Called
  <2>2. /\ return_samples[src[c]] >= MinHistory
        /\ Elements(src_labels[c]) \subseteq Elements(entity_labels[src[c]])
        /\ \A b \in candidates[c] :
             /\ b # src[c]
             /\ Elements(entity_labels[src[c]]) \cap Elements(entity_labels[b]) # {}
    BY <1>2 DEF CallsGrounded
  <2>3. QED
    BY <2>1, <2>2 DEF Grows
<1>3. QED
  BY <1>1, <1>2 DEF CallsGrounded

-----------------------------------------------------------------------------
(* The ingestors.                                                          *)

LEMMA TagKeeps ==
  ASSUME GroundInv, NEW e \in Entity, NEW labels \in TagLists, TagEntity(e, labels)
  PROVE  GroundInv'
<1> USE GraphConstants
<1>1. labels \in Seq(Label)
  OBVIOUS
<1>2. entity_labels' = [entity_labels EXCEPT ![e] = @ \o labels]
  BY DEF TagEntity, EntityLabelsTagged
<1>3. \A f \in Entity : entity_labels[f] \in Seq(Label)
  BY DEF GroundInv, TypesKept, Tagged
<1>4. /\ entity_labels[e] \o labels \in Seq(Label)
      /\ Elements(entity_labels[e] \o labels)
           = Elements(entity_labels[e]) \cup Elements(labels)
  BY <1>1, <1>3, ElementsOfConcatenation
<1>5. /\ entity_labels' \in [Entity -> Seq(Label)]
      /\ Elements(entity_labels'[e]) = Elements(entity_labels[e]) \cup Elements(labels)
      /\ \A f \in Entity \ {e} : entity_labels'[f] = entity_labels[f]
  BY <1>2, <1>4 DEF GroundInv, TypesKept, Tagged
<1>6. ASSUME NEW l \in Label
      PROVE  /\ label_entities'[l] \in Seq(Entity)
             /\ \A f \in Elements(label_entities'[l]) :
                  f \in Entity /\ l \in Elements(entity_labels'[f])
  <2> DEFINE n == Times(l, labels)
  <2>1. label_entities'[l] = Extended(label_entities[l], e, n)
    BY DEF TagEntity
  <2>2. n \in Nat /\ (n # 0 => l \in Elements(labels))
    BY <1>1, TimesFacts
  <2>3. label_entities[l] \in Seq(Entity)
    BY DEF GroundInv, TypesKept, Tagged
  <2>4. /\ label_entities'[l] \in Seq(Entity)
        /\ Elements(label_entities'[l]) \subseteq Elements(label_entities[l]) \cup {e}
        /\ n = 0 => Elements(label_entities'[l]) \subseteq Elements(label_entities[l])
    <3> HIDE DEF n
    <3>1. /\ Extended(label_entities[l], e, n) \in Seq(Entity)
          /\ Elements(Extended(label_entities[l], e, n))
               \subseteq Elements(label_entities[l]) \cup {e}
          /\ n = 0 => Elements(Extended(label_entities[l], e, n))
                        \subseteq Elements(label_entities[l])
      BY <2>2, <2>3, ExtendedFacts
    <3>2. QED
      BY <2>1, <3>1
  <2>5. \A f \in Elements(label_entities[l]) :
          f \in Entity /\ l \in Elements(entity_labels'[f])
    BY <1>5 DEF GroundInv, ReverseIsTrue
  <2>6. n # 0 => l \in Elements(entity_labels'[e])
    BY <1>5, <2>2
  <2>7. QED
    BY <2>4, <2>5, <2>6
<1>7. label_entities' \in [Label -> Seq(Entity)] /\ ReverseIsTrue'
  <2>1. label_entities' = [l \in Label |-> Extended(label_entities[l], e, Times(l, labels))]
    BY DEF TagEntity
  <2>2. QED
    BY <1>6, <2>1 DEF ReverseIsTrue
<1>8. Grows
  BY <1>5 DEF Grows, TagEntity
<1>9. TypesKept'
  BY <1>5, <1>7 DEF GroundInv, TypesKept, Tagged, Counted, Called, TagEntity, callVars
<1>10. UNCHANGED temporal_links /\ UNCHANGED callVars
  BY DEF TagEntity
<1>11. QED
  BY <1>7, <1>8, <1>9, <1>10, LinksStayGrounded, CallsStayGrounded DEF GroundInv

LEMMA RecordKeeps ==
  ASSUME GroundInv, NEW e \in Entity, RecordReturn(e)
  PROVE  GroundInv'
<1> USE GraphConstants
<1>1. return_samples' = [return_samples EXCEPT ![e] = Rolled(@)]
  BY DEF RecordReturn
<1>2. return_samples \in [Entity -> 0..Window]
  BY DEF GroundInv, TypesKept, Counted
<1>3. \A n \in 0..Window : /\ Rolled(n) \in 0..Window
                           /\ n >= MinHistory => Rolled(n) >= MinHistory
  BY DEF Rolled
<1>4. return_samples' \in [Entity -> 0..Window]
  BY <1>1, <1>2, <1>3
<1>5. UNCHANGED <<tagVars, temporal_links, fact_count, hallucination_count, callVars>>
  BY DEF RecordReturn
<1>6. Grows
  BY <1>1, <1>2, <1>3, <1>5 DEF Grows, tagVars
<1>7. TypesKept'
  BY <1>4, <1>5 DEF GroundInv, TypesKept, Tagged, Counted, Called, tagVars, callVars
<1>8. ReverseIsTrue'
  BY <1>5 DEF GroundInv, ReverseIsTrue, tagVars
<1>9. QED
  BY <1>5, <1>6, <1>7, <1>8, LinksStayGrounded, CallsStayGrounded DEF GroundInv

LEMMA HallucinationKeeps ==
  ASSUME GroundInv, RecordHallucination
  PROVE  GroundInv'
<1>1. UNCHANGED <<tagVars, temporal_links, return_samples, fact_count, callVars>>
  BY DEF RecordHallucination
<1>2. Grows
  BY <1>1 DEF Grows, tagVars
<1>3. hallucination_count' \in Nat
  BY DEF RecordHallucination, GroundInv, TypesKept, Counted
<1>4. TypesKept'
  BY <1>1, <1>3 DEF GroundInv, TypesKept, Tagged, Counted, Called, tagVars, callVars
<1>5. ReverseIsTrue'
  BY <1>1 DEF GroundInv, ReverseIsTrue, tagVars
<1>6. QED
  BY <1>1, <1>2, <1>4, <1>5, LinksStayGrounded, CallsStayGrounded DEF GroundInv

-----------------------------------------------------------------------------
(* materialize_temporal_link.                                              *)

\* The two parts of CallsGrounded for one caller
FoundAreGrounded(c) ==
  \A k \in Label \X Label : new_links[c][k] # NoLink =>
    Grounds(new_links[c][k][1], new_links[c][k][2], k[1], k[2])

ReadIsTrue(c) ==
  pc[c] = "correlate" =>
    /\ return_samples[src[c]] >= MinHistory
    /\ Elements(src_labels[c]) \subseteq Elements(entity_labels[src[c]])
    /\ \A b \in candidates[c] :
         /\ b # src[c]
         /\ Elements(entity_labels[src[c]]) \cap Elements(entity_labels[b]) # {}

LEMMA CallByCall ==
  CallsGrounded <=> \A c \in Caller : FoundAreGrounded(c) /\ ReadIsTrue(c)
BY DEF CallsGrounded, FoundAreGrounded, ReadIsTrue

(* What another caller holds does not change.                              *)
LEMMA OthersStayGrounded ==
  ASSUME GroundInv, NEW c \in Caller, NEW d \in Caller, d # c,
         UNCHANGED <<entity_labels, return_samples>>,
         pc'[d] = pc[d], src'[d] = src[d], src_labels'[d] = src_labels[d],
         candidates'[d] = candidates[d], new_links'[d] = new_links[d]
  PROVE  FoundAreGrounded(d)' /\ ReadIsTrue(d)'
<1>1. FoundAreGrounded(d) /\ ReadIsTrue(d)
  BY CallByCall DEF GroundInv
<1>2. FoundAreGrounded(d)'
  BY <1>1 DEF FoundAreGrounded, Grounds
<1>3. ReadIsTrue(d)'
  BY <1>1 DEF ReadIsTrue
<1>4. QED
  BY <1>2, <1>3

LEMMA ReadSourceKeeps ==
  ASSUME GroundInv, NEW c \in Caller, NEW e \in Entity, ReadSource(c, e)
  PROVE  GroundInv'
<1> USE GraphConstants
<1>1. /\ pc' = [pc EXCEPT ![c] = "correlate"]
      /\ src' = [src EXCEPT ![c] = e]
      /\ src_labels' = [src_labels EXCEPT ![c] = entity_labels[e]]
      /\ candidates' = [candidates EXCEPT ![c] = Sharing(e)]
      /\ UNCHANGED <<graphVars, new_links, new_facts>>
      /\ return_samples[e] >= MinHistory
  BY DEF ReadSource
<1>2. \A b \in Sharing(e) :
        /\ b \in Entity /\ b # e
        /\ Elements(entity_labels[e]) \cap Elements(entity_labels[b]) # {}
  <2> SUFFICES ASSUME NEW b \in Sharing(e)
               PROVE  /\ b \in Entity /\ b # e
                      /\ Elements(entity_labels[e]) \cap Elements(entity_labels[b]) # {}
    OBVIOUS
  <2>1. PICK l \in Elements(entity_labels[e]) : b \in Elements(label_entities[l])
    BY DEF Sharing
  <2>2. l \in Label
    BY ElementsType DEF GroundInv, TypesKept, Tagged
  <2>3. b \in Entity /\ l \in Elements(entity_labels[b])
    BY <2>1, <2>2 DEF GroundInv, ReverseIsTrue
  <2>4. b # e
    BY DEF Sharing
  <2>5. QED
    BY <2>1, <2>3, <2>4
<1>3. TypesKept'
  <2>1. Tagged' /\ Counted'
    BY <1>1 DEF GroundInv, TypesKept, Tagged, Counted, graphVars
  <2>2. Called'
    BY <1>1, <1>2 DEF GroundInv, TypesKept, Tagged, Called, graphVars
  <2>3. QED
    BY <2>1, <2>2 DEF TypesKept
<1>4. ReverseIsTrue' /\ LinksGrounded'
  BY <1>1 DEF GroundInv, ReverseIsTrue, LinksGrounded, TemporalLinksSnapshot, Grounds,
              graphVars
<1>5. ASSUME NEW d \in Caller PROVE FoundAreGrounded(d)' /\ ReadIsTrue(d)'
  <2>1. CASE d = c
    <3>1. FoundAreGrounded(c)'
      BY <1>1, CallByCall DEF GroundInv, FoundAreGrounded, Grounds, graphVars
    <3>2. /\ src'[c] = e /\ src_labels'[c] = entity_labels[e]
          /\ candidates'[c] = Sharing(e)
          /\ UNCHANGED <<entity_labels, return_samples>>
      BY <1>1 DEF GroundInv, TypesKept, Called, graphVars
    <3>3. ReadIsTrue(c)'
      BY <1>1, <1>2, <3>2 DEF ReadIsTrue
    <3>4. QED
      BY <2>1, <3>1, <3>3
  <2>2. CASE d # c
    BY <1>1, <2>2, OthersStayGrounded DEF GroundInv, TypesKept, Called, graphVars
  <2>3. QED
    BY <2>1, <2>2
<1>6. CallsGrounded'
  BY <1>5 DEF CallsGrounded, FoundAreGrounded, ReadIsTrue
<1>7. QED
  BY <1>3, <1>4, <1>6 DEF GroundInv

LEMMA SkipKeeps ==
  ASSUME GroundInv, NEW c \in Caller, NEW b \in Entity, SkipCandidate(c, b)
  PROVE  GroundInv'
<1>1. /\ candidates' = [candidates EXCEPT ![c] = @ \ {b}]
      /\ UNCHANGED <<graphVars, pc, src, src_labels, new_links, new_facts>>
  BY DEF SkipCandidate
<1>2. TypesKept'
  <2>1. Tagged' /\ Counted'
    BY <1>1 DEF GroundInv, TypesKept, Tagged, Counted, graphVars
  <2>2. Called'
    BY <1>1 DEF GroundInv, TypesKept, Called, graphVars
  <2>3. QED
    BY <2>1, <2>2 DEF TypesKept
<1>3. ReverseIsTrue' /\ LinksGrounded'
  BY <1>1 DEF GroundInv, ReverseIsTrue, LinksGrounded, TemporalLinksSnapshot, Grounds,
              graphVars
<1>4. ASSUME NEW d \in Caller PROVE FoundAreGrounded(d)' /\ ReadIsTrue(d)'
  <2>1. FoundAreGrounded(d) /\ ReadIsTrue(d)
    BY CallByCall DEF GroundInv
  <2>2. candidates'[d] \subseteq candidates[d]
    BY <1>1 DEF GroundInv, TypesKept, Called
  <2>3. QED
    BY <1>1, <2>1, <2>2 DEF FoundAreGrounded, ReadIsTrue, Grounds, graphVars
<1>5. CallsGrounded'
  BY <1>4 DEF CallsGrounded, FoundAreGrounded, ReadIsTrue
<1>6. QED
  BY <1>2, <1>3, <1>5 DEF GroundInv

(* A link found between the labels a call read and those of a candidate is *)
(* grounded.                                                               *)
LEMMA FoundLinkIsGrounded ==
  ASSUME GroundInv, NEW c \in Caller, NEW b \in Entity, LinkCandidate(c, b),
         NEW k \in Label \X Label,
         LinksBetween(src[c], src_labels[c], b, entity_labels[b])[k] # NoLink
  PROVE  /\ LinksBetween(src[c], src_labels[c], b, entity_labels[b])[k] = <<src[c], b>>
         /\ Grounds(src[c], b, k[1], k[2])
<1>1. ReadIsTrue(c)
  BY CallByCall DEF GroundInv
<1>2. /\ pc[c] = "correlate" /\ b \in candidates[c]
      /\ return_samples[b] >= MinHistory
  BY DEF LinkCandidate
<1>3. /\ k[1] # k[2]
      /\ k[1] \in Elements(src_labels[c]) /\ k[2] \in Elements(entity_labels[b])
      /\ LinksBetween(src[c], src_labels[c], b, entity_labels[b])[k] = <<src[c], b>>
  BY DEF LinksBetween
<1>4. QED
  BY <1>1, <1>2, <1>3 DEF ReadIsTrue, Grounds

LEMMA LinkKeeps ==
  ASSUME GroundInv, NEW c \in Caller, NEW b \in Entity, LinkCandidate(c, b)
  PROVE  GroundInv'
<1> DEFINE found == LinksBetween(src[c], src_labels[c], b, entity_labels[b])
           pairs == DifferentPairs(src_labels[c], entity_labels[b])
<1>1. /\ candidates' = [candidates EXCEPT ![c] = @ \ {b}]
      /\ new_links' = [new_links EXCEPT ![c] = Written(@, found)]
      /\ new_facts' = [new_facts EXCEPT ![c] = @ + Cardinality(pairs)]
      /\ UNCHANGED <<graphVars, pc, src, src_labels>>
  BY DEF LinkCandidate
<1>2. src[c] \in Entity /\ src_labels[c] \in Seq(Label) /\ entity_labels[b] \in Seq(Label)
  BY DEF LinkCandidate, GroundInv, TypesKept, Called, Tagged
<1>3. found \in Links
  BY <1>2 DEF LinksBetween, Links
<1>4. Cardinality(pairs) \in Nat
  BY <1>2, DifferentPairsFinite, FS_CardinalityType
<1>5. new_links[c] \in Links
  BY DEF GroundInv, TypesKept, Called
<1>6. Written(new_links[c], found) \in Links
  BY <1>3, <1>5 DEF Written, Links
<1>7. TypesKept'
  <2>1. Tagged' /\ Counted'
    BY <1>1 DEF GroundInv, TypesKept, Tagged, Counted, graphVars
  <2>2. new_links' \in [Caller -> Links]
    BY <1>1, <1>6 DEF GroundInv, TypesKept, Called
  <2>3. new_facts' \in [Caller -> Nat]
    <3> HIDE DEF pairs
    <3>1. QED
      BY <1>1, <1>4 DEF GroundInv, TypesKept, Called
  <2>4. Called'
    BY <1>1, <2>2, <2>3 DEF GroundInv, TypesKept, Called, graphVars
  <2>5. QED
    BY <2>1, <2>4 DEF TypesKept
<1>8. ReverseIsTrue' /\ LinksGrounded'
  BY <1>1 DEF GroundInv, ReverseIsTrue, LinksGrounded, TemporalLinksSnapshot, Grounds,
              graphVars
<1>9. ASSUME NEW d \in Caller PROVE FoundAreGrounded(d)' /\ ReadIsTrue(d)'
  <2>1. FoundAreGrounded(d) /\ ReadIsTrue(d)
    BY CallByCall DEF GroundInv
  <2>2. candidates'[d] \subseteq candidates[d]
    BY <1>1 DEF GroundInv, TypesKept, Called
  <2>3. ReadIsTrue(d)'
    BY <1>1, <2>1, <2>2 DEF ReadIsTrue, graphVars
  <2>4. FoundAreGrounded(d)'
    <3>1. CASE d # c
      BY <1>1, <2>1, <3>1 DEF FoundAreGrounded, Grounds, graphVars,
                              GroundInv, TypesKept, Called
    <3>2. CASE d = c
      <4> SUFFICES ASSUME NEW k \in Label \X Label, new_links'[c][k] # NoLink
                   PROVE  Grounds(new_links[c][k][1], new_links[c][k][2], k[1], k[2])'
        BY <3>2 DEF FoundAreGrounded
      <4>1. new_links'[c][k] = IF found[k] = NoLink THEN new_links[c][k] ELSE found[k]
        BY <1>1 DEF Written, GroundInv, TypesKept, Called
      <4>2. CASE found[k] = NoLink
        BY <1>1, <2>1, <3>2, <4>1, <4>2 DEF FoundAreGrounded, Grounds, graphVars
      <4>3. CASE found[k] # NoLink
        <5>1. found[k] = <<src[c], b>> /\ Grounds(src[c], b, k[1], k[2])
          BY <4>3, FoundLinkIsGrounded
        <5>2. new_links'[c][k][1] = src[c] /\ new_links'[c][k][2] = b
          BY <4>1, <4>3, <5>1
        <5>3. QED
          BY <1>1, <5>1, <5>2 DEF Grounds, graphVars
      <4>4. QED
        BY <4>2, <4>3
    <3>3. QED
      BY <3>1, <3>2
  <2>5. QED
    BY <2>3, <2>4
<1>10. CallsGrounded'
  BY <1>9 DEF CallsGrounded, FoundAreGrounded, ReadIsTrue
<1>11. QED
  BY <1>7, <1>8, <1>10 DEF GroundInv

LEMMA IdleCallIsTrue ==
  ASSUME NEW c \in Caller, TypesKept, Idle(c)
  PROVE  /\ FoundAreGrounded(c)'
         /\ ReadIsTrue(c)'
         /\ temporal_links' \in Links => Called'
<1>1. /\ pc' = [pc EXCEPT ![c] = "idle"]
      /\ src' = [src EXCEPT ![c] = NoEntity]
      /\ src_labels' = [src_labels EXCEPT ![c] = <<>>]
      /\ candidates' = [candidates EXCEPT ![c] = {}]
      /\ new_links' = [new_links EXCEPT ![c] = NoLinks]
      /\ new_facts' = [new_facts EXCEPT ![c] = 0]
  BY DEF Idle
<1>2. NoLinks \in Links /\ \A k \in Label \X Label : NoLinks[k] = NoLink
  BY DEF NoLinks, Links
<1>3. <<>> \in Seq(Label)
  OBVIOUS
<1>4. FoundAreGrounded(c)'
  BY <1>1, <1>2 DEF FoundAreGrounded, TypesKept, Called
<1>5. ReadIsTrue(c)'
  BY <1>1 DEF ReadIsTrue, TypesKept, Called
<1>6. temporal_links' \in Links => Called'
  BY <1>1, <1>2, <1>3 DEF TypesKept, Called
<1>7. QED
  BY <1>4, <1>5, <1>6

LEMMA OthersAfterIdle ==
  ASSUME NEW c \in Caller, NEW d \in Caller, d # c, TypesKept, Idle(c)
  PROVE  /\ pc'[d] = pc[d] /\ src'[d] = src[d] /\ src_labels'[d] = src_labels[d]
         /\ candidates'[d] = candidates[d] /\ new_links'[d] = new_links[d]
BY DEF Idle, TypesKept, Called

LEMMA WriteKeeps ==
  ASSUME GroundInv, NEW c \in Caller, WriteLinks(c)
  PROVE  GroundInv'
<1>1. /\ temporal_links' = Written(temporal_links, new_links[c])
      /\ fact_count' = fact_count + new_facts[c]
      /\ Idle(c)
      /\ UNCHANGED <<tagVars, return_samples, hallucination_count>>
  BY DEF WriteLinks, FactsCounted
<1>2. new_links[c] \in Links /\ temporal_links \in Links /\ new_facts[c] \in Nat
  BY DEF GroundInv, TypesKept, Called
<1>3. temporal_links' \in Links
  BY <1>1, <1>2 DEF Written, Links
<1>4. TypesKept'
  <2>1. Tagged' /\ Counted'
    BY <1>1, <1>2 DEF GroundInv, TypesKept, Tagged, Counted, tagVars
  <2>2. Called'
    BY <1>1, <1>3, <2>1, IdleCallIsTrue DEF GroundInv
  <2>3. QED
    BY <2>1, <2>2 DEF TypesKept
<1>5. ReverseIsTrue'
  BY <1>1 DEF GroundInv, ReverseIsTrue, tagVars
<1>6. LinksGrounded'
  <2> SUFFICES ASSUME NEW k \in Label \X Label, temporal_links'[k] # NoLink
               PROVE  Grounds(temporal_links[k][1], temporal_links[k][2], k[1], k[2])'
    BY DEF LinksGrounded, TemporalLinksSnapshot
  <2>1. temporal_links'[k] = IF new_links[c][k] = NoLink THEN temporal_links[k]
                                                        ELSE new_links[c][k]
    BY <1>1 DEF Written
  <2>2. FoundAreGrounded(c)
    BY CallByCall DEF GroundInv
  <2>3. CASE new_links[c][k] = NoLink
    <3>1. Grounds(temporal_links[k][1], temporal_links[k][2], k[1], k[2])
      BY <2>1, <2>3 DEF GroundInv, LinksGrounded, TemporalLinksSnapshot
    <3>2. QED
      BY <1>1, <2>1, <2>3, <3>1 DEF Grounds, tagVars
  <2>4. CASE new_links[c][k] # NoLink
    <3>1. Grounds(new_links[c][k][1], new_links[c][k][2], k[1], k[2])
      BY <2>2, <2>4 DEF FoundAreGrounded
    <3>2. QED
      BY <1>1, <2>1, <2>4, <3>1 DEF Grounds, tagVars
  <2>5. QED
    BY <2>3, <2>4
<1>7. ASSUME NEW d \in Caller PROVE FoundAreGrounded(d)' /\ ReadIsTrue(d)'
  <2>1. CASE d = c
    BY <1>1, <2>1, IdleCallIsTrue DEF GroundInv
  <2>2. CASE d # c
    BY <1>1, <2>2, OthersAfterIdle, OthersStayGrounded DEF GroundInv, tagVars
  <2>3. QED
    BY <2>1, <2>2
<1>8. CallsGrounded'
  BY <1>7 DEF CallsGrounded, FoundAreGrounded, ReadIsTrue
<1>9. QED
  BY <1>4, <1>5, <1>6, <1>8 DEF GroundInv

LEMMA FindNothingKeeps ==
  ASSUME GroundInv, NEW c \in Caller, FindNothing(c)
  PROVE  GroundInv'
<1>1. Idle(c) /\ UNCHANGED graphVars
  BY DEF FindNothing
<1>2. TypesKept'
  <2>1. Tagged' /\ Counted' /\ temporal_links' \in Links
    BY <1>1 DEF GroundInv, TypesKept, Tagged, Counted, Called, graphVars
  <2>2. Called'
    BY <1>1, <2>1, IdleCallIsTrue DEF GroundInv
  <2>3. QED
    BY <2>1, <2>2 DEF TypesKept
<1>3. ReverseIsTrue' /\ LinksGrounded'
  BY <1>1 DEF GroundInv, ReverseIsTrue, LinksGrounded, TemporalLinksSnapshot, Grounds,
              graphVars
<1>4. ASSUME NEW d \in Caller PROVE FoundAreGrounded(d)' /\ ReadIsTrue(d)'
  <2>1. CASE d = c
    BY <1>1, <2>1, IdleCallIsTrue DEF GroundInv
  <2>2. CASE d # c
    BY <1>1, <2>2, OthersAfterIdle, OthersStayGrounded DEF GroundInv, graphVars
  <2>3. QED
    BY <2>1, <2>2
<1>5. CallsGrounded'
  BY <1>4 DEF CallsGrounded, FoundAreGrounded, ReadIsTrue
<1>6. QED
  BY <1>2, <1>3, <1>5 DEF GroundInv

-----------------------------------------------------------------------------
LEMMA GroundInit == Init => GroundInv
<1> SUFFICES ASSUME Init PROVE GroundInv
  OBVIOUS
<1> USE GraphConstants DEF Init
<1>1. NoLinks \in Links /\ \A k \in Label \X Label : NoLinks[k] = NoLink
  BY DEF NoLinks, Links
<1>2. TypesKept
  <2>1. Tagged /\ Counted
    BY DEF Tagged, Counted
  <2>2. Called
    BY <1>1 DEF Called
  <2>3. QED
    BY <2>1, <2>2 DEF TypesKept
<1>3. ReverseIsTrue
  BY DEF ReverseIsTrue, Elements
<1>4. LinksGrounded
  BY <1>1 DEF LinksGrounded, TemporalLinksSnapshot
<1>5. CallsGrounded
  BY <1>1 DEF CallsGrounded
<1>6. QED
  BY <1>2, <1>3, <1>4, <1>5 DEF GroundInv

LEMMA GroundStutter == GroundInv /\ UNCHANGED vars => GroundInv'
<1> SUFFICES ASSUME GroundInv, UNCHANGED vars PROVE GroundInv'
  OBVIOUS
<1> USE DEF vars, graphVars
<1>1. TypesKept' /\ ReverseIsTrue'
  BY DEF GroundInv, TypesKept, Tagged, Counted, Called, ReverseIsTrue, callVars
<1>2. Grows
  BY DEF Grows
<1>3. QED
  BY <1>1, <1>2, LinksStayGrounded, CallsStayGrounded DEF GroundInv

LEMMA GroundStep == GroundInv /\ [Next]_vars => GroundInv'
<1> SUFFICES ASSUME GroundInv, [Next]_vars PROVE GroundInv'
  OBVIOUS
<1>1. CASE \E e \in Entity : \E labels \in TagLists : TagEntity(e, labels)
  BY <1>1, TagKeeps
<1>2. CASE \E e \in Entity : RecordReturn(e)
  BY <1>2, RecordKeeps
<1>3. CASE RecordHallucination
  BY <1>3, HallucinationKeeps
<1>4. CASE \E c \in Caller : Materialize(c)
  BY <1>4, ReadSourceKeeps, SkipKeeps, LinkKeeps, WriteKeeps, FindNothingKeeps
     DEF Materialize, ReadCandidate
<1>5. CASE UNCHANGED vars
  BY <1>5, GroundStutter
<1>6. QED
  BY <1>1, <1>2, <1>3, <1>4, <1>5 DEF Next

(* Every TEMPORAL_LINK of the graph is between two entities that share a   *)
(* label, carry its ends and have the history a correlation needs, however *)
(* many callers and ingestors run between the locks of                     *)
(* materialize_temporal_link.                                              *)
THEOREM EveryLinkIsGrounded == Spec => []LinksGrounded
<1>1. GroundInv => LinksGrounded
  BY DEF GroundInv
<1>2. QED
  BY <1>1, GroundInit, GroundStep, PTL DEF Spec

(* What a call carries from one of its locks to the next stays true of the *)
(* graph others write meanwhile: the links it found and has not written    *)
(* are grounded, the labels it copied are still the source's, and every    *)
(* candidate left shares one of them.                                      *)
THEOREM EveryCallIsGrounded == Spec => []CallsGrounded
<1>1. GroundInv => CallsGrounded
  BY DEF GroundInv
<1>2. QED
  BY <1>1, GroundInit, GroundStep, PTL DEF Spec

-----------------------------------------------------------------------------
(* fact_count.                                                             *)

Keys(links) == {k \in Label \X Label : links[k] # NoLink}

Covers(n, links) == IsFiniteSet(Keys(links)) /\ n >= Cardinality(Keys(links))

CountInv == /\ GroundInv
            /\ Covers(fact_count, temporal_links)
            /\ \A c \in Caller : Covers(new_facts[c], new_links[c])

LEMMA NoLinksCovered == Covers(0, NoLinks)
<1>1. Keys(NoLinks) = {}
  BY DEF Keys, NoLinks
<1>2. QED
  BY <1>1, FS_EmptySet DEF Covers

(* Links written over one another are covered by the sum of their counts.  *)
LEMMA WrittenCovered ==
  ASSUME NEW n \in Nat, NEW m \in Nat, NEW links \in Links, NEW new \in Links,
         Covers(n, links), Covers(m, new)
  PROVE  Covers(n + m, Written(links, new))
<1> DEFINE A == Keys(links)
           B == Keys(new)
<1>1. Keys(Written(links, new)) = A \cup B
  BY DEF Keys, Written
<1>2. IsFiniteSet(A) /\ IsFiniteSet(B)
  BY DEF Covers
<1> HIDE DEF A, B
<1>3. /\ IsFiniteSet(A \cup B)
      /\ Cardinality(A \cup B) = Cardinality(A) + Cardinality(B) - Cardinality(A \cap B)
  BY <1>2, FS_Union
<1>4. IsFiniteSet(A \cap B)
  BY <1>2, FS_Intersection
<1>5. Cardinality(A) \in Nat /\ Cardinality(B) \in Nat /\ Cardinality(A \cap B) \in Nat
  BY <1>2, <1>4, FS_CardinalityType
<1>6. n >= Cardinality(A) /\ m >= Cardinality(B)
  BY DEF Covers, A, B
<1>7. n + m >= Cardinality(A \cup B)
  BY <1>3, <1>5, <1>6
<1>8. QED
  BY <1>1, <1>3, <1>7 DEF Covers

(* A candidate's links are no more than the pairs of labels found.         *)
LEMMA FoundCovered ==
  ASSUME NEW a \in Entity, NEW b \in Entity,
         NEW s \in Seq(Label), NEW t \in Seq(Label)
  PROVE  Covers(Cardinality(DifferentPairs(s, t)), LinksBetween(a, s, b, t))
<1> DEFINE P == DifferentPairs(s, t)
           K == Keys(LinksBetween(a, s, b, t))
           f == [p \in P |-> <<s[p[1]], t[p[2]]>>]
<1>1. <<a, b>> # NoLink
  BY GraphConstants
<1>2. K = {k \in Label \X Label :
             k[1] # k[2] /\ k[1] \in Elements(s) /\ k[2] \in Elements(t)}
  BY <1>1 DEF Keys, LinksBetween
<1>3. \A i \in DOMAIN s : s[i] \in Label
  OBVIOUS
<1>4. \A i \in DOMAIN t : t[i] \in Label
  OBVIOUS
<1>5. ASSUME NEW p \in P PROVE f[p] \in K
  <2>1. /\ p[1] \in DOMAIN s /\ p[2] \in DOMAIN t
        /\ s[p[1]] # t[p[2]]
    BY DEF DifferentPairs
  <2>2. QED
    BY <1>2, <1>3, <1>4, <2>1 DEF Elements
<1>6. ASSUME NEW k \in K PROVE \E p \in P : f[p] = k
  <2>1. PICK i \in DOMAIN s, j \in DOMAIN t : k[1] = s[i] /\ k[2] = t[j]
    BY <1>2 DEF Elements
  <2>2. k = <<k[1], k[2]>> /\ k[1] # k[2]
    BY <1>2
  <2>3. <<i, j>> \in P
    BY <2>1, <2>2 DEF DifferentPairs
  <2>4. f[<<i, j>>] = k
    BY <2>1, <2>2, <2>3
  <2>5. QED
    BY <2>3, <2>4
<1>7. IsFiniteSet(P)
  BY DifferentPairsFinite
<1>8. DOMAIN f = P
  OBVIOUS
<1>9. f \in [P -> K]
  BY <1>5
<1> HIDE DEF P, K, f
<1>10. f \in Surjection(P, K)
  BY <1>6, <1>9 DEF Surjection
<1>11. IsFiniteSet(K) /\ Cardinality(K) <= Cardinality(P)
  BY <1>7, <1>10, FS_Surjection
<1>12. Cardinality(K) \in Nat /\ Cardinality(P) \in Nat
  BY <1>7, <1>11, FS_CardinalityType
<1>13. Cardinality(P) >= Cardinality(K)
  BY <1>11, <1>12
<1>14. QED
  BY <1>11, <1>13 DEF Covers, P, K

LEMMA CountInit == Init => CountInv
<1> SUFFICES ASSUME Init PROVE CountInv
  OBVIOUS
<1>1. \A c \in Caller : new_links[c] = NoLinks /\ new_facts[c] = 0
  BY DEF Init
<1>2. QED
  BY <1>1, GroundInit, NoLinksCovered DEF CountInv, Init

LEMMA CountStep == CountInv /\ [Next]_vars => CountInv'
<1> SUFFICES ASSUME CountInv, [Next]_vars PROVE CountInv'
  OBVIOUS
<1>1. GroundInv /\ GroundInv'
  BY GroundStep DEF CountInv
<1>2. /\ temporal_links \in Links /\ fact_count \in Nat
      /\ \A c \in Caller : new_links[c] \in Links /\ new_facts[c] \in Nat
  BY <1>1 DEF GroundInv, TypesKept, Counted, Called
<1>3. ASSUME UNCHANGED <<temporal_links, fact_count, new_links, new_facts>>
      PROVE  CountInv'
  BY <1>1, <1>3 DEF CountInv, Covers, Keys
<1>4. ASSUME NEW c \in Caller, NEW b \in Entity, LinkCandidate(c, b) PROVE CountInv'
  <2> DEFINE found == LinksBetween(src[c], src_labels[c], b, entity_labels[b])
             n == Cardinality(DifferentPairs(src_labels[c], entity_labels[b]))
  <2>1. /\ new_links' = [new_links EXCEPT ![c] = Written(@, found)]
        /\ new_facts' = [new_facts EXCEPT ![c] = @ + n]
        /\ UNCHANGED <<temporal_links, fact_count>>
    BY <1>4 DEF LinkCandidate, graphVars
  <2>2. src[c] \in Entity /\ src_labels[c] \in Seq(Label) /\ entity_labels[b] \in Seq(Label)
    BY <1>1, <1>4 DEF LinkCandidate, GroundInv, TypesKept, Called, Tagged
  <2>3. Covers(n, found)
    BY <2>2, FoundCovered
  <2>4. found \in Links
    BY <2>2 DEF LinksBetween, Links
  <2>5. n \in Nat
    BY <2>2, DifferentPairsFinite, FS_CardinalityType
  <2> HIDE DEF found, n
  <2>6. Covers(new_facts[c] + n, Written(new_links[c], found))
    BY <1>2, <2>3, <2>4, <2>5, WrittenCovered DEF CountInv
  <2>7. ASSUME NEW d \in Caller PROVE Covers(new_facts'[d], new_links'[d])
    <3>1. CASE d = c
      <4>1. /\ new_facts'[c] = new_facts[c] + n
            /\ new_links'[c] = Written(new_links[c], found)
        BY <1>1, <2>1 DEF GroundInv, TypesKept, Called
      <4>2. QED
        BY <2>6, <3>1, <4>1
    <3>2. CASE d # c
      <4>1. new_facts'[d] = new_facts[d] /\ new_links'[d] = new_links[d]
        BY <1>1, <2>1, <3>2 DEF GroundInv, TypesKept, Called
      <4>2. QED
        BY <4>1 DEF CountInv
    <3>3. QED
      BY <3>1, <3>2
  <2>8. QED
    BY <1>1, <2>1, <2>7 DEF CountInv, Covers, Keys
<1>5. ASSUME NEW c \in Caller, Idle(c), NEW d \in Caller
      PROVE  Covers(new_facts'[d], new_links'[d])
  <2>1. CASE d = c
    <3>1. new_facts'[c] = 0 /\ new_links'[c] = NoLinks
      BY <1>1, <1>5 DEF Idle, GroundInv, TypesKept, Called
    <3>2. QED
      BY <2>1, <3>1, NoLinksCovered
  <2>2. CASE d # c
    <3>1. new_facts'[d] = new_facts[d] /\ new_links'[d] = new_links[d]
      BY <1>1, <1>5, <2>2 DEF Idle, GroundInv, TypesKept, Called
    <3>2. QED
      BY <3>1 DEF CountInv
  <2>3. QED
    BY <2>1, <2>2
<1>6. ASSUME NEW c \in Caller, WriteLinks(c) PROVE CountInv'
  <2>1. /\ temporal_links' = Written(temporal_links, new_links[c])
        /\ fact_count' = fact_count + new_facts[c]
        /\ Idle(c)
    BY <1>6 DEF WriteLinks, FactsCounted
  <2>2. Covers(fact_count, temporal_links)'
    <3>1. Covers(fact_count + new_facts[c], Written(temporal_links, new_links[c]))
      BY <1>2, WrittenCovered DEF CountInv
    <3>2. QED
      BY <2>1, <3>1 DEF Covers, Keys
  <2>3. QED
    BY <1>1, <1>5, <2>1, <2>2 DEF CountInv, Covers, Keys
<1>7. ASSUME NEW c \in Caller, FindNothing(c) PROVE CountInv'
  <2>1. Idle(c) /\ UNCHANGED <<temporal_links, fact_count>>
    BY <1>7 DEF FindNothing, graphVars
  <2>2. QED
    BY <1>1, <1>5, <2>1 DEF CountInv, Covers, Keys
<1>8. CASE \E e \in Entity : (\E labels \in TagLists : TagEntity(e, labels)) \/ RecordReturn(e)
  BY <1>3, <1>8 DEF TagEntity, RecordReturn, callVars
<1>9. CASE RecordHallucination
  BY <1>3, <1>9 DEF RecordHallucination, callVars
<1>10. CASE \E c \in Caller : Materialize(c)
  <2>1. ASSUME NEW c \in Caller, NEW e \in Entity, ReadSource(c, e) \/ SkipCandidate(c, e)
        PROVE  CountInv'
    BY <1>3, <2>1 DEF ReadSource, SkipCandidate, graphVars
  <2>2. QED
    BY <1>4, <1>6, <1>7, <1>10, <2>1 DEF Materialize, ReadCandidate
<1>11. CASE UNCHANGED vars
  BY <1>3, <1>11 DEF vars, graphVars, callVars
<1>12. QED
  BY <1>8, <1>9, <1>10, <1>11 DEF Next

(* fact_count never falls behind the number of links in the graph, though  *)
(* it counts what is written by number and the links are kept by key.      *)
THEOREM FactsAlwaysCover == Spec => []FactsCoverLinks
<1>1. CountInv => FactsCoverLinks
  BY DEF CountInv, Covers, Keys, FactsCoverLinks, TemporalLinkCount, TemporalLinksSnapshot
<1>2. QED
  BY <1>1, CountInit, CountStep, PTL DEF Spec

-----------------------------------------------------------------------------
(* The records tag_entity keeps.  It inserts label by label, which the     *)
(* model writes as a function recursive in the position: what it computes  *)
(* is proved by induction on the position, from the fact that < on Nat is  *)
(* well-founded.                                                           *)

(* Induction up to N, for a set of numbers.                                *)
LEMMA UpTo ==
  ASSUME NEW A, NEW N \in Nat, 0 \in A, \A n \in 0..(N - 1) : n \in A => n + 1 \in A
  PROVE  \A n \in 0..N : n \in A
<1> DEFINE T == {n \in 0..N : n \notin A}
           R == OpToRel(<, Nat)
<1>1. SUFFICES ASSUME T # {} PROVE FALSE
  OBVIOUS
<1>2. IsWellFoundedOn(R, Nat)
  BY NatLessThanWellFounded
<1>3. T \subseteq Nat
  OBVIOUS
<1>4. \A x, y \in Nat : x < y => <<x, y>> \in R
  BY DEF OpToRel
<1> HIDE DEF R
<1>5. PICK x \in T : \A y \in T : ~ (<<y, x>> \in R)
  <2> HIDE DEF T
  <2>1. QED
    BY <1>1, <1>2, <1>3, WFMin
<1>6. x \in Nat /\ x # 0 /\ x <= N /\ x \notin A
  OBVIOUS
<1>7. /\ x - 1 \in 0..(N - 1) /\ x - 1 \in Nat /\ x - 1 \in 0..N
      /\ x - 1 < x /\ (x - 1) + 1 = x
  BY <1>6
<1>8. <<x - 1, x>> \in R
  BY <1>4, <1>6, <1>7
<1>9. x - 1 \in A
  <2>1. x - 1 \notin T
    BY <1>5, <1>8
  <2>2. QED
    BY <1>7, <2>1
<1>10. x \in A
  BY <1>7, <1>9
<1>11. QED
  BY <1>6, <1>10

-----------------------------------------------------------------------------
(* One insertion.                                                          *)

LEMMA InsertFacts ==
  ASSUME NEW s \in LabelStores, WellLinked(s), NEW l \in Label, NEW e \in Entity
  PROVE  /\ InsertLabel(s, l, e) \in LabelStores
         /\ WellLinked(InsertLabel(s, l, e))
         /\ EntitiesForLabel(InsertLabel(s, l, e), l) = Append(EntitiesForLabel(s, l), e)
         /\ \A m \in Label \ {l} :
              EntitiesForLabel(InsertLabel(s, l, e), m) = EntitiesForLabel(s, m)
<1> DEFINE t == InsertLabel(s, l, e)
           n == Len(s.arena)
<1>1. /\ s.arena \in Seq(LabelNode) /\ s.index \in [Label -> Nat] /\ s.head \in Nat
      /\ n \in Nat /\ DOMAIN s.arena = 1..n
      /\ \A i \in 1..n : s.arena[i] \in LabelNode
  BY DEF LabelStores
<1>2. /\ s.head = n
      /\ \A i \in 1..n : /\ s.arena[i].next = i - 1 /\ s.index[s.arena[i].label_id] = i
                         /\ s.arena[i].entity_ids # <<>>
      /\ \A m \in Label : s.index[m] # 0 =>
           s.index[m] \in 1..n /\ s.arena[s.index[m]].label_id = m
  BY DEF WellLinked, Nil
<1>3. CASE s.index[l] # 0
  <2> DEFINE i == s.index[l]
             node == [s.arena[i] EXCEPT !.entity_ids = Append(@, e)]
             arena == [s.arena EXCEPT ![i] = node]
  <2>1. i \in 1..n /\ s.arena[i].label_id = l
    BY <1>2, <1>3
  <2>2. /\ node \in LabelNode
        /\ node.label_id = l /\ node.next = s.arena[i].next
        /\ node.entity_ids = Append(s.arena[i].entity_ids, e)
    <3> DEFINE x == s.arena[i]
    <3>1. x \in LabelNode
      BY <1>1, <2>1
    <3> HIDE DEF x
    <3>2. Append(x.entity_ids, e) \in Seq(Entity)
      BY <3>1 DEF LabelNode
    <3>3. [x EXCEPT !.entity_ids = Append(@, e)]
            = [x EXCEPT !.entity_ids = Append(x.entity_ids, e)]
      OBVIOUS
    <3>4. /\ [x EXCEPT !.entity_ids = Append(x.entity_ids, e)] \in LabelNode
          /\ [x EXCEPT !.entity_ids = Append(x.entity_ids, e)].label_id = x.label_id
          /\ [x EXCEPT !.entity_ids = Append(x.entity_ids, e)].next = x.next
          /\ [x EXCEPT !.entity_ids = Append(x.entity_ids, e)].entity_ids
               = Append(x.entity_ids, e)
      BY <3>1, <3>2 DEF LabelNode
    <3>5. QED
      BY <2>1, <3>3, <3>4 DEF x
  <2>3. t = [s EXCEPT !.arena = arena]
    BY <1>3 DEF InsertLabel, Nil, LabelStores
  <2>4. t.arena = arena /\ t.index = s.index /\ t.head = s.head
    BY <2>3 DEF LabelStores
  <2> HIDE DEF node, t
  <2>5. /\ arena \in Seq(LabelNode) /\ Len(arena) = n
        /\ arena[i] = node
        /\ \A j \in 1..n : j # i => arena[j] = s.arena[j]
    BY <1>1, <2>1, <2>2
  <2> HIDE DEF arena
  <2>6. t \in LabelStores
    BY <1>1, <2>3, <2>5 DEF LabelStores
  <2>7. WellLinked(t)
    <3>1. t.head = Len(t.arena) /\ Len(t.arena) = n
      BY <1>2, <2>4, <2>5
    <3>2. \A j \in 1..n : /\ t.arena[j].next = s.arena[j].next
                          /\ t.arena[j].label_id = s.arena[j].label_id
      BY <2>1, <2>2, <2>4, <2>5
    <3>3. \A j \in 1..n : /\ t.arena[j].next = j - 1
                          /\ t.index[t.arena[j].label_id] = j
      BY <1>2, <2>4, <3>2
    <3>4. \A m \in Label : t.index[m] # 0 =>
            t.index[m] \in 1..n /\ t.arena[t.index[m]].label_id = m
      BY <1>2, <2>4, <3>2
    <3>5. ASSUME NEW j \in 1..n PROVE t.arena[j].entity_ids # <<>>
      <4>1. CASE j = i
        <5>1. s.arena[i].entity_ids \in Seq(Entity)
          BY <1>1, <2>1 DEF LabelNode
        <5>2. \A ids \in Seq(Entity) : Append(ids, e) # <<>>
          OBVIOUS
        <5>3. Append(s.arena[i].entity_ids, e) # <<>>
          BY <5>1, <5>2
        <5>4. QED
          BY <2>2, <2>4, <2>5, <4>1, <5>3
      <4>2. CASE j # i
        BY <1>2, <2>4, <2>5, <4>2
      <4>3. QED
        BY <4>1, <4>2
    <3>6. QED
      BY <3>1, <3>3, <3>4, <3>5 DEF WellLinked, Nil
  <2>8. EntitiesForLabel(t, l) = Append(EntitiesForLabel(s, l), e)
    BY <1>3, <2>2, <2>4, <2>5 DEF EntitiesForLabel, Nil
  <2>9. ASSUME NEW m \in Label \ {l} PROVE EntitiesForLabel(t, m) = EntitiesForLabel(s, m)
    <3>1. CASE s.index[m] = 0
      BY <2>4, <3>1 DEF EntitiesForLabel, Nil
    <3>2. CASE s.index[m] # 0
      <4>1. s.index[m] \in 1..n /\ s.index[m] # i
        BY <1>2, <2>1, <3>2
      <4>2. QED
        BY <2>4, <2>5, <3>2, <4>1 DEF EntitiesForLabel, Nil
    <3>3. QED
      BY <3>1, <3>2
  <2>10. QED
    BY <2>6, <2>7, <2>8, <2>9 DEF t
<1>4. CASE s.index[l] = 0
  <2> DEFINE node == [label_id |-> l, next |-> s.head, entity_ids |-> <<e>>]
             arena == Append(s.arena, node)
             index == [s.index EXCEPT ![l] = n + 1]
  <2>1. t = [arena |-> arena, index |-> index, head |-> n + 1]
    BY <1>4 DEF InsertLabel, Nil
  <2>2. t.arena = arena /\ t.index = index /\ t.head = n + 1
    BY <2>1
  <2>3. <<e>> \in Seq(Entity) /\ <<e>> # <<>>
    OBVIOUS
  <2>4. /\ node \in LabelNode
        /\ node.label_id = l /\ node.next = n /\ node.entity_ids = <<e>>
    BY <1>1, <1>2, <2>3 DEF LabelNode
  <2> HIDE DEF node, t
  <2>5. /\ arena \in Seq(LabelNode) /\ Len(arena) = n + 1
        /\ arena[n + 1] = node
        /\ \A j \in 1..n : arena[j] = s.arena[j]
    BY <1>1, <2>4
  <2>6. /\ index \in [Label -> Nat] /\ index[l] = n + 1
        /\ \A m \in Label : m # l => index[m] = s.index[m]
    BY <1>1
  <2> HIDE DEF arena, index
  <2>7. t \in LabelStores
    BY <1>1, <2>1, <2>5, <2>6 DEF LabelStores
  <2>8. \A j \in 1..n : s.arena[j].label_id # l /\ s.arena[j].label_id \in Label
    <3> SUFFICES ASSUME NEW j \in 1..n
                 PROVE  s.arena[j].label_id # l /\ s.arena[j].label_id \in Label
      OBVIOUS
    <3>1. s.arena[j].label_id \in Label
      BY <1>1 DEF LabelNode
    <3>2. s.index[s.arena[j].label_id] = j /\ j # 0
      BY <1>2
    <3>3. QED
      BY <1>4, <3>1, <3>2
  <2>9. WellLinked(t)
    <3>1. t.head = Len(t.arena) /\ Len(t.arena) = n + 1
      BY <2>2, <2>5
    <3>2. ASSUME NEW j \in 1..(n + 1)
          PROVE  /\ t.arena[j].next = j - 1 /\ t.index[t.arena[j].label_id] = j
                 /\ t.arena[j].entity_ids # <<>>
      <4>1. CASE j = n + 1
        <5>1. t.arena[j] = node /\ t.index[l] = n + 1
          BY <2>2, <2>5, <2>6, <4>1
        <5>2. node.next = j - 1
          BY <1>1, <2>4, <4>1
        <5>3. node.entity_ids # <<>>
          BY <2>3, <2>4
        <5>4. t.index[node.label_id] = j
          BY <2>4, <4>1, <5>1
        <5>5. QED
          BY <5>1, <5>2, <5>3, <5>4
      <4>2. CASE j # n + 1
        <5>1. j \in 1..n
          BY <1>1, <4>2
        <5>2. t.arena[j] = s.arena[j]
          BY <2>2, <2>5, <5>1
        <5>3. t.index[s.arena[j].label_id] = s.index[s.arena[j].label_id]
          BY <2>2, <2>6, <2>8, <5>1
        <5>4. QED
          BY <1>2, <5>1, <5>2, <5>3
      <4>3. QED
        BY <4>1, <4>2
    <3>3. ASSUME NEW m \in Label, t.index[m] # 0
          PROVE  t.index[m] \in 1..(n + 1) /\ t.arena[t.index[m]].label_id = m
      <4>1. CASE m = l
        BY <1>1, <2>2, <2>4, <2>5, <2>6, <4>1
      <4>2. CASE m # l
        <5>1. t.index[m] = s.index[m]
          BY <2>2, <2>6, <4>2
        <5>2. s.index[m] \in 1..n /\ s.arena[s.index[m]].label_id = m
          BY <1>2, <3>3, <5>1
        <5>3. QED
          BY <1>1, <2>2, <2>5, <5>1, <5>2
      <4>3. QED
        BY <4>1, <4>2
    <3>4. QED
      BY <3>1, <3>2, <3>3 DEF WellLinked, Nil
  <2>10. EntitiesForLabel(t, l) = Append(EntitiesForLabel(s, l), e)
    <3>1. EntitiesForLabel(s, l) = <<>>
      BY <1>4 DEF EntitiesForLabel, Nil
    <3>2. EntitiesForLabel(t, l) = <<e>>
      BY <1>1, <2>2, <2>4, <2>5, <2>6 DEF EntitiesForLabel, Nil
    <3>3. QED
      BY <3>1, <3>2
  <2>11. ASSUME NEW m \in Label \ {l} PROVE EntitiesForLabel(t, m) = EntitiesForLabel(s, m)
    <3>1. t.index[m] = s.index[m]
      BY <2>2, <2>6
    <3>2. s.index[m] # 0 => t.arena[s.index[m]] = s.arena[s.index[m]]
      BY <1>2, <2>2, <2>5
    <3>3. QED
      BY <3>1, <3>2 DEF EntitiesForLabel, Nil
  <2>12. QED
    BY <2>7, <2>9, <2>10, <2>11 DEF t
<1>5. QED
  BY <1>3, <1>4

-----------------------------------------------------------------------------
(* How often something stands among the first n of a sequence.             *)

TimesUpTo(x, s, n) == Cardinality({i \in 1..n : s[i] = x})

LEMMA TimesUpToFacts ==
  ASSUME NEW x, NEW s, NEW n \in Nat
  PROVE  /\ TimesUpTo(x, s, n) \in Nat
         /\ TimesUpTo(x, s, 0) = 0
         /\ s[n + 1] = x => TimesUpTo(x, s, n + 1) = TimesUpTo(x, s, n) + 1
         /\ s[n + 1] # x => TimesUpTo(x, s, n + 1) = TimesUpTo(x, s, n)
<1> DEFINE A(m) == {i \in 1..m : s[i] = x}
<1>1. IsFiniteSet(1..n)
  BY FS_Interval
<1>2. IsFiniteSet(A(n))
  BY <1>1, FS_Subset
<1>3. Cardinality(A(n)) \in Nat
  BY <1>2, FS_CardinalityType
<1>4. A(0) = {}
  OBVIOUS
<1>5. n + 1 \notin A(n)
  OBVIOUS
<1>6. A(n + 1) = IF s[n + 1] = x THEN A(n) \cup {n + 1} ELSE A(n)
  OBVIOUS
<1>7. Cardinality(A(n) \cup {n + 1}) = Cardinality(A(n)) + 1
  BY <1>2, <1>5, FS_AddElement
<1>8. Cardinality(A(0)) = 0
  BY <1>4, FS_EmptySet
<1>9. Cardinality(A(n + 1)) = IF s[n + 1] = x THEN Cardinality(A(n)) + 1
                                              ELSE Cardinality(A(n))
  BY <1>6, <1>7
<1>10. QED
  BY <1>3, <1>8, <1>9 DEF TimesUpTo

LEMMA TimesIsUpToTheEnd ==
  ASSUME NEW S, NEW s \in Seq(S), NEW x
  PROVE  Times(x, s) = TimesUpTo(x, s, Len(s)) /\ Times(x, s) \in Nat
<1>1. Len(s) \in Nat /\ DOMAIN s = 1..Len(s)
  OBVIOUS
<1>2. Times(x, s) = TimesUpTo(x, s, Len(s))
  BY <1>1 DEF Times, TimesUpTo
<1>3. QED
  BY <1>1, <1>2, TimesUpToFacts

LEMMA TimesOfConcatenation ==
  ASSUME NEW S, NEW s \in Seq(S), NEW t \in Seq(S), NEW x
  PROVE  Times(x, s \o t) = Times(x, s) + Times(x, t)
<1> DEFINE u == s \o t
           k == Len(s)
           A == {n \in 0..Len(t) : TimesUpTo(x, u, k + n)
                                     = TimesUpTo(x, s, k) + TimesUpTo(x, t, n)}
<1>1. /\ u \in Seq(S) /\ Len(u) = k + Len(t)
      /\ \A i \in 1..(k + Len(t)) : u[i] = IF i <= k THEN s[i] ELSE t[i - k]
      /\ k \in Nat /\ Len(t) \in Nat
  OBVIOUS
<1> HIDE DEF u, k
<1>2. 0 \in A
  <2>1. {i \in 1..(k + 0) : u[i] = x} = {i \in 1..k : s[i] = x}
    BY <1>1
  <2>2. TimesUpTo(x, u, k + 0) = TimesUpTo(x, s, k)
    BY <2>1 DEF TimesUpTo
  <2>3. TimesUpTo(x, t, 0) = 0 /\ TimesUpTo(x, s, k) \in Nat
    BY <1>1, TimesUpToFacts
  <2>4. QED
    BY <1>1, <2>2, <2>3
<1>3. ASSUME NEW n \in 0..(Len(t) - 1), n \in A PROVE n + 1 \in A
  <2>1. /\ n \in Nat /\ k + n \in Nat /\ n + 1 \in 0..Len(t) /\ (k + n) + 1 = k + (n + 1)
        /\ k + (n + 1) \in 1..(k + Len(t)) /\ ~(k + (n + 1) <= k)
        /\ (k + (n + 1)) - k = n + 1
    BY <1>1
  <2>2. u[k + (n + 1)] = t[n + 1]
    BY <1>1, <2>1
  <2>3. TimesUpTo(x, u, k + n) = TimesUpTo(x, s, k) + TimesUpTo(x, t, n)
    BY <1>3
  <2>4. /\ u[(k + n) + 1] = x => TimesUpTo(x, u, (k + n) + 1) = TimesUpTo(x, u, k + n) + 1
        /\ u[(k + n) + 1] # x => TimesUpTo(x, u, (k + n) + 1) = TimesUpTo(x, u, k + n)
    <3> DEFINE m == k + n
    <3>1. m \in Nat
      BY <2>1
    <3> HIDE DEF m
    <3>2. /\ u[m + 1] = x => TimesUpTo(x, u, m + 1) = TimesUpTo(x, u, m) + 1
          /\ u[m + 1] # x => TimesUpTo(x, u, m + 1) = TimesUpTo(x, u, m)
      BY Zenon, <3>1, TimesUpToFacts
    <3>3. QED
      BY <3>2 DEF m
  <2>5. /\ t[n + 1] = x => TimesUpTo(x, t, n + 1) = TimesUpTo(x, t, n) + 1
        /\ t[n + 1] # x => TimesUpTo(x, t, n + 1) = TimesUpTo(x, t, n)
    <3>1. n \in Nat
      BY <2>1
    <3>2. QED
      BY Zenon, <3>1, TimesUpToFacts
  <2>6. TimesUpTo(x, s, k) \in Nat /\ TimesUpTo(x, t, n) \in Nat
    BY <1>1, <2>1, TimesUpToFacts
  <2>7. TimesUpTo(x, u, k + (n + 1)) = TimesUpTo(x, s, k) + TimesUpTo(x, t, n + 1)
    BY <2>1, <2>2, <2>3, <2>4, <2>5, <2>6
  <2>8. QED
    BY <2>1, <2>7
<1>4. Len(t) \in A
  <2> HIDE DEF A
  <2>1. \A n \in 0..Len(t) : n \in A
    BY <1>1, <1>2, <1>3, UpTo
  <2>2. QED
    BY <1>1, <2>1
<1>5. TimesUpTo(x, u, Len(u)) = TimesUpTo(x, s, Len(s)) + TimesUpTo(x, t, Len(t))
  BY <1>1, <1>4 DEF k
<1>6. QED
  BY <1>1, <1>5, TimesIsUpToTheEnd DEF u

LEMMA TimesOfExtended ==
  ASSUME NEW s \in Seq(Entity), NEW e \in Entity, NEW n \in Nat, NEW x \in Entity
  PROVE  Times(x, Extended(s, e, n)) = IF x = e THEN Times(x, s) + n ELSE Times(x, s)
<1> DEFINE t == [i \in 1..n |-> e]
<1>1. t \in Seq(Entity) /\ DOMAIN t = 1..n /\ \A i \in 1..n : t[i] = e
  OBVIOUS
<1>2. Times(x, s \o t) = Times(x, s) + Times(x, t)
  BY <1>1, TimesOfConcatenation
<1>3. Times(x, s) \in Nat
  BY TimesIsUpToTheEnd
<1> HIDE DEF t
<1>4. CASE x = e
  <2>1. {i \in DOMAIN t : t[i] = x} = 1..n
    BY <1>1, <1>4
  <2>2. Cardinality(1..n) = n
    BY FS_Interval
  <2>3. Times(x, t) = n
    BY <2>1, <2>2 DEF Times
  <2>4. QED
    BY <1>2, <1>4, <2>3 DEF Extended, t
<1>5. CASE x # e
  <2>1. {i \in DOMAIN t : t[i] = x} = {}
    BY <1>1, <1>5
  <2>2. Times(x, t) = 0
    BY <2>1, FS_EmptySet DEF Times
  <2>3. Times(x, s \o t) = Times(x, s)
    BY <1>2, <1>3, <2>2
  <2>4. QED
    BY <1>5, <2>3 DEF Extended, t
<1>6. QED
  BY <1>4, <1>5

LEMMA ExtendedByOne ==
  ASSUME NEW s \in Seq(Entity), NEW e \in Entity, NEW n \in Nat
  PROVE  /\ Extended(s, e, 0) = s
         /\ Append(Extended(s, e, n), e) = Extended(s, e, n + 1)
<1>1. Extended(s, e, 0) = s
  <2>1. [i \in 1..0 |-> e] = <<>>
    OBVIOUS
  <2>2. QED
    BY <2>1 DEF Extended
<1>2. Append(Extended(s, e, n), e) = Extended(s, e, n + 1)
  <2> DEFINE t == [i \in 1..n |-> e]
             u == [i \in 1..(n + 1) |-> e]
  <2>1. t \in Seq(Entity) /\ Len(t) = n /\ u \in Seq(Entity) /\ Len(u) = n + 1
    OBVIOUS
  <2>2. u = Append(t, e)
    OBVIOUS
  <2> HIDE DEF t, u
  <2>3. Append(s \o t, e) = s \o Append(t, e)
    BY <2>1
  <2>4. QED
    BY <2>2, <2>3 DEF Extended, t, u
<1>3. QED
  BY <1>1, <1>2

-----------------------------------------------------------------------------
(* All insertions of a tag_entity.                                         *)

\* f gives the store after each number of labels
Inserts(f, s, labels, e, N) ==
  f = [n \in 0..N |-> IF n = 0 THEN s ELSE InsertLabel(f[n - 1], labels[n], e)]

LEMMA InsertsExist ==
  ASSUME NEW s, NEW labels, NEW e, NEW N \in Nat
  PROVE  \E f : Inserts(f, s, labels, e, N)
<1> DEFINE A == {m \in Nat : \E f : Inserts(f, s, labels, e, m)}
<1>1. 0 \in A
  <2> DEFINE f == [n \in 0..0 |-> s]
  <2>1. f = [n \in 0..0 |-> IF n = 0 THEN s ELSE InsertLabel(f[n - 1], labels[n], e)]
    OBVIOUS
  <2>2. Inserts(f, s, labels, e, 0)
    BY <2>1 DEF Inserts
  <2>3. QED
    BY <2>2
<1>2. ASSUME NEW m \in 0..(N - 1), m \in A PROVE m + 1 \in A
  <2>1. PICK f : Inserts(f, s, labels, e, m)
    BY <1>2
  <2>2. f = [n \in 0..m |-> IF n = 0 THEN s ELSE InsertLabel(f[n - 1], labels[n], e)]
    BY <2>1 DEF Inserts
  <2> DEFINE g == [n \in 0..(m + 1) |->
                     IF n = m + 1 THEN InsertLabel(f[m], labels[m + 1], e) ELSE f[n]]
  <2>3. ASSUME NEW n \in 0..(m + 1)
        PROVE  g[n] = IF n = 0 THEN s ELSE InsertLabel(g[n - 1], labels[n], e)
    <3>1. CASE n = 0
      <4>1. n \in 0..m /\ n # m + 1
        BY <3>1
      <4>2. QED
        BY <2>2, <3>1, <4>1
    <3>2. CASE n = m + 1
      <4>1. n - 1 = m /\ m \in 0..(m + 1) /\ m # m + 1 /\ n # 0
        BY <3>2
      <4>2. g[n - 1] = f[m] /\ g[n] = InsertLabel(f[m], labels[n], e)
        BY <3>2, <4>1
      <4>3. QED
        BY <4>1, <4>2
    <3>3. CASE n # 0 /\ n # m + 1
      <4>1. n \in 0..m /\ n - 1 \in 0..m /\ n - 1 \in 0..(m + 1) /\ n - 1 # m + 1
        BY <3>3
      <4>2. g[n] = f[n] /\ g[n - 1] = f[n - 1]
        BY <3>3, <4>1
      <4>3. f[n] = InsertLabel(f[n - 1], labels[n], e)
        BY <2>2, <3>3, <4>1
      <4>4. QED
        BY <3>3, <4>2, <4>3
    <3>4. QED
      BY <3>1, <3>2, <3>3
  <2>4. g = [n \in 0..(m + 1) |-> g[n]]
    OBVIOUS
  <2> HIDE DEF g
  <2>5. g = [n \in 0..(m + 1) |-> IF n = 0 THEN s ELSE InsertLabel(g[n - 1], labels[n], e)]
    BY <2>3, <2>4
  <2>6. Inserts(g, s, labels, e, m + 1)
    BY <2>5 DEF Inserts
  <2>7. QED
    BY <2>6
<1>3. N \in A
  <2> HIDE DEF A
  <2>1. \A n \in 0..N : n \in A
    BY <1>1, <1>2, UpTo
  <2>2. QED
    BY <2>1
<1>4. QED
  BY <1>3

LEMMA InsertedIsLast ==
  ASSUME NEW s, NEW labels, NEW e, Len(labels) \in Nat
  PROVE  \E f : Inserts(f, s, labels, e, Len(labels))
                /\ InsertedInStore(s, labels, e) = f[Len(labels)]
<1> DEFINE last == CHOOSE f : f = [n \in 0..Len(labels) |->
                      IF n = 0 THEN s ELSE InsertLabel(f[n - 1], labels[n], e)]
<1>1. \E f : f = [n \in 0..Len(labels) |->
                    IF n = 0 THEN s ELSE InsertLabel(f[n - 1], labels[n], e)]
  <2>1. \E f : Inserts(f, s, labels, e, Len(labels))
    BY InsertsExist
  <2>2. QED
    BY Zenon, <2>1 DEF Inserts
<1>2. last = [n \in 0..Len(labels) |->
                IF n = 0 THEN s ELSE InsertLabel(last[n - 1], labels[n], e)]
  BY Zenon, <1>1
<1>3. InsertedInStore(s, labels, e) = last[Len(labels)]
  BY Zenon DEF InsertedInStore
<1> HIDE DEF last
<1>4. Inserts(last, s, labels, e, Len(labels))
  BY Zenon, <1>2 DEF Inserts
<1>5. QED
  BY <1>3, <1>4

LEMMA InsertedFacts ==
  ASSUME NEW s \in LabelStores, WellLinked(s), NEW labels \in Seq(Label), NEW e \in Entity,
         \A l \in Label : EntitiesForLabel(s, l) \in Seq(Entity)
  PROVE  /\ InsertedInStore(s, labels, e) \in LabelStores
         /\ WellLinked(InsertedInStore(s, labels, e))
         /\ \A l \in Label : EntitiesForLabel(InsertedInStore(s, labels, e), l)
                              = Extended(EntitiesForLabel(s, l), e, Times(l, labels))
<1> DEFINE N == Len(labels)
<1>1. N \in Nat /\ \A n \in 1..N : labels[n] \in Label
  OBVIOUS
<1>2. PICK f : Inserts(f, s, labels, e, N) /\ InsertedInStore(s, labels, e) = f[N]
  BY <1>1, InsertedIsLast
<1> DEFINE A == {n \in 0..N :
                   /\ f[n] \in LabelStores
                   /\ WellLinked(f[n])
                   /\ \A l \in Label : EntitiesForLabel(f[n], l)
                        = Extended(EntitiesForLabel(s, l), e, TimesUpTo(l, labels, n))}
<1> HIDE DEF N
<1>3. 0 \in A
  <2>1. f[0] = s
    BY <1>1, <1>2 DEF Inserts
  <2>2. \A l \in Label : TimesUpTo(l, labels, 0) = 0
    BY TimesUpToFacts
  <2>3. \A l \in Label : EntitiesForLabel(s, l) = Extended(EntitiesForLabel(s, l), e, 0)
    BY ExtendedByOne
  <2>4. QED
    BY <1>1, <2>1, <2>2, <2>3
<1>4. ASSUME NEW n \in 0..(N - 1), n \in A PROVE n + 1 \in A
  <2>1. n \in Nat /\ n + 1 \in 0..N /\ n + 1 \in 1..N /\ n + 1 # 0 /\ (n + 1) - 1 = n
    BY <1>1
  <2> DEFINE t == f[n]
             l == labels[n + 1]
  <2>2. f[n + 1] = InsertLabel(t, l, e)
    BY <1>2, <2>1 DEF Inserts
  <2>3. l \in Label
    BY <1>1, <2>1
  <2>4. /\ t \in LabelStores /\ WellLinked(t)
        /\ \A m \in Label : EntitiesForLabel(t, m)
             = Extended(EntitiesForLabel(s, m), e, TimesUpTo(m, labels, n))
    BY <1>4
  <2> DEFINE u == f[n + 1]
  <2>5. /\ InsertLabel(t, l, e) \in LabelStores /\ WellLinked(InsertLabel(t, l, e))
        /\ EntitiesForLabel(InsertLabel(t, l, e), l) = Append(EntitiesForLabel(t, l), e)
        /\ \A m \in Label \ {l} :
             EntitiesForLabel(InsertLabel(t, l, e), m) = EntitiesForLabel(t, m)
    <3> HIDE DEF t, l
    <3>1. QED
      BY <2>3, <2>4, InsertFacts
  <2>6. /\ u \in LabelStores /\ WellLinked(u)
        /\ EntitiesForLabel(u, l) = Append(EntitiesForLabel(t, l), e)
        /\ \A m \in Label \ {l} : EntitiesForLabel(u, m) = EntitiesForLabel(t, m)
    BY Zenon, <2>2, <2>5
  <2>7. ASSUME NEW m \in Label
        PROVE  EntitiesForLabel(u, m)
                 = Extended(EntitiesForLabel(s, m), e, TimesUpTo(m, labels, n + 1))
    <3>1. TimesUpTo(m, labels, n) \in Nat
      BY <2>1, TimesUpToFacts
    <3>2. CASE m = l
      <4>1. TimesUpTo(m, labels, n + 1) = TimesUpTo(m, labels, n) + 1
        <5>1. labels[n + 1] = m
          BY <3>2
        <5>2. QED
          BY Zenon, <2>1, <5>1, TimesUpToFacts
      <4>2. Append(Extended(EntitiesForLabel(s, m), e, TimesUpTo(m, labels, n)), e)
              = Extended(EntitiesForLabel(s, m), e, TimesUpTo(m, labels, n) + 1)
        BY <3>1, ExtendedByOne
      <4>3. EntitiesForLabel(u, m)
              = Append(Extended(EntitiesForLabel(s, m), e, TimesUpTo(m, labels, n)), e)
        <5> HIDE DEF u, l, t
        <5>1. QED
          BY <2>4, <2>6, <3>2
      <4>4. QED
        BY Zenon, <4>1, <4>2, <4>3
    <3>3. CASE m # l
      <4>1. TimesUpTo(m, labels, n + 1) = TimesUpTo(m, labels, n)
        <5>1. labels[n + 1] # m
          BY <3>3
        <5>2. QED
          BY Zenon, <2>1, <5>1, TimesUpToFacts
      <4>2. EntitiesForLabel(u, m)
              = Extended(EntitiesForLabel(s, m), e, TimesUpTo(m, labels, n))
        <5> HIDE DEF u, l, t
        <5>1. QED
          BY <2>4, <2>6, <3>3
      <4>3. QED
        BY Zenon, <4>1, <4>2
    <3>4. QED
      BY <3>2, <3>3
  <2>8. QED
    BY <2>1, <2>6, <2>7
<1>5. N \in A
  <2> HIDE DEF A
  <2>1. \A n \in 0..N : n \in A
    BY <1>1, <1>3, <1>4, UpTo
  <2>2. QED
    BY <1>1, <2>1
<1>6. \A l \in Label : TimesUpTo(l, labels, N) = Times(l, labels)
  BY TimesIsUpToTheEnd DEF N
<1>7. QED
  BY <1>2, <1>5, <1>6

-----------------------------------------------------------------------------
(* The state.                                                              *)

IndexInv ==
  /\ CountInv
  /\ label_store \in LabelStores
  /\ WellLinked(label_store)
  /\ \A l \in Label : EntitiesForLabel(label_store, l) = label_entities[l]
  /\ \A l \in Label, e \in Entity :
       Times(e, label_entities[l]) = Times(l, entity_labels[e])

LEMMA IndexInit == Init => IndexInv
<1> SUFFICES ASSUME Init PROVE IndexInv
  OBVIOUS
<1>1. label_store = EmptyLabelStore
  BY DEF Init
<1>2. /\ label_store.arena = <<>> /\ label_store.head = 0
      /\ label_store.index = [l \in Label |-> 0]
  BY <1>1 DEF EmptyLabelStore, Nil
<1>3. label_store \in LabelStores
  <2>1. <<>> \in Seq(LabelNode) /\ [l \in Label |-> 0] \in [Label -> Nat]
    OBVIOUS
  <2>2. QED
    BY <1>1, <2>1 DEF EmptyLabelStore, LabelStores, Nil
<1>4. WellLinked(label_store)
  <2>1. Len(label_store.arena) = 0
    BY <1>2
  <2>2. \A i \in 1..0 : FALSE
    OBVIOUS
  <2>3. QED
    BY <1>2, <2>1, <2>2 DEF WellLinked, Nil
<1>5. \A l \in Label : EntitiesForLabel(label_store, l) = label_entities[l]
  BY <1>2 DEF EntitiesForLabel, Nil, Init
<1>6. ASSUME NEW l \in Label, NEW e \in Entity
      PROVE  Times(e, label_entities[l]) = Times(l, entity_labels[e])
  <2>1. label_entities[l] = <<>> /\ entity_labels[e] = <<>>
    BY DEF Init
  <2>2. Len(<<>>) = 0
    OBVIOUS
  <2>3. \A x : TimesUpTo(x, <<>>, 0) = 0
    BY TimesUpToFacts
  <2>4. <<>> \in Seq(Entity) /\ <<>> \in Seq(Label)
    OBVIOUS
  <2>5. Times(e, <<>>) = 0 /\ Times(l, <<>>) = 0
    BY <2>2, <2>3, <2>4, TimesIsUpToTheEnd
  <2>6. QED
    BY <2>1, <2>5
<1>7. QED
  BY <1>3, <1>4, <1>5, <1>6, CountInit DEF IndexInv

LEMMA TagKeepsIndexes ==
  ASSUME IndexInv, CountInv', NEW e \in Entity, NEW labels \in TagLists,
         TagEntity(e, labels)
  PROVE  IndexInv'
<1>1. labels \in Seq(Label)
  BY GraphConstants
<1>2. /\ label_entities' = [l \in Label |->
                             Extended(label_entities[l], e, Times(l, labels))]
      /\ label_store' = InsertedInStore(label_store, labels, e)
      /\ entity_labels' = [entity_labels EXCEPT ![e] = @ \o labels]
  BY DEF TagEntity, EntityLabelsTagged
<1>3. /\ entity_labels \in [Entity -> Seq(Label)]
      /\ label_entities \in [Label -> Seq(Entity)]
  BY DEF IndexInv, CountInv, GroundInv, TypesKept, Tagged
<1>4. \A l \in Label : EntitiesForLabel(label_store, l) \in Seq(Entity)
  BY <1>3 DEF IndexInv
<1>5. /\ label_store' \in LabelStores
      /\ WellLinked(label_store')
      /\ \A l \in Label : EntitiesForLabel(label_store', l)
                           = Extended(EntitiesForLabel(label_store, l), e, Times(l, labels))
  BY <1>1, <1>2, <1>4, InsertedFacts DEF IndexInv
<1>6. \A l \in Label : EntitiesForLabel(label_store', l) = label_entities'[l]
  BY <1>2, <1>5 DEF IndexInv
<1>7. ASSUME NEW l \in Label, NEW f \in Entity
      PROVE  Times(f, label_entities'[l]) = Times(l, entity_labels'[f])
  <2>1. Times(f, label_entities[l]) = Times(l, entity_labels[f])
    BY DEF IndexInv
  <2>2. Times(l, labels) \in Nat
    BY <1>1, TimesFacts
  <2>3. label_entities'[l] = Extended(label_entities[l], e, Times(l, labels))
    BY <1>2
  <2>4. label_entities[l] \in Seq(Entity) /\ entity_labels[f] \in Seq(Label)
    BY <1>3
  <2>5. Times(f, label_entities'[l])
          = IF f = e THEN Times(f, label_entities[l]) + Times(l, labels)
                     ELSE Times(f, label_entities[l])
    BY <2>2, <2>3, <2>4, TimesOfExtended
  <2>6. CASE f = e
    <3>1. entity_labels'[f] = entity_labels[f] \o labels
      BY <1>2, <1>3, <2>6
    <3>2. Times(l, entity_labels[f] \o labels) = Times(l, entity_labels[f]) + Times(l, labels)
      BY <1>1, <2>4, TimesOfConcatenation
    <3>3. QED
      BY <2>1, <2>5, <2>6, <3>1, <3>2
  <2>7. CASE f # e
    <3>1. entity_labels'[f] = entity_labels[f]
      BY <1>2, <1>3, <2>7
    <3>2. QED
      BY <2>1, <2>5, <2>7, <3>1
  <2>8. QED
    BY <2>6, <2>7
<1>8. QED
  BY <1>5, <1>6, <1>7 DEF IndexInv, WellLinked, EntitiesForLabel

LEMMA IndexStep == IndexInv /\ [Next]_vars => IndexInv'
<1> SUFFICES ASSUME IndexInv, [Next]_vars PROVE IndexInv'
  OBVIOUS
<1>1. CountInv'
  BY CountStep DEF IndexInv
<1>2. CASE \E e \in Entity : \E labels \in TagLists : TagEntity(e, labels)
  BY <1>1, <1>2, TagKeepsIndexes
<1>3. ASSUME UNCHANGED tagVars PROVE IndexInv'
  BY <1>1, <1>3 DEF IndexInv, tagVars, WellLinked, EntitiesForLabel, Times
<1>4. CASE \E e \in Entity : RecordReturn(e)
  BY <1>3, <1>4 DEF RecordReturn
<1>5. CASE RecordHallucination
  BY <1>3, <1>5 DEF RecordHallucination
<1>6. CASE \E c \in Caller : Materialize(c)
  BY <1>3, <1>6 DEF Materialize, ReadSource, ReadCandidate, SkipCandidate, LinkCandidate,
                    WriteLinks, FindNothing, graphVars, tagVars
<1>7. CASE UNCHANGED vars
  BY <1>3, <1>7 DEF vars, graphVars, tagVars
<1>8. QED
  BY <1>2, <1>4, <1>5, <1>6, <1>7 DEF Next

(* Type correctness of CausalGraph, the LabelStore's records included.     *)
THEOREM GraphTypeCorrect == Spec => []GraphTypeOK
<1>1. IndexInv => GraphTypeOK
  BY DEF IndexInv, CountInv, GroundInv, TypesKept, Tagged, Counted, Called, GraphTypeOK
<1>2. QED
  BY <1>1, IndexInit, IndexStep, PTL DEF Spec

(* However labels are given and repeated, an entity stands in the          *)
(* LabelStore, in the reverse map and in its own list equally often.       *)
THEOREM IndexesAlwaysAgree == Spec => []IndexesAgree
<1>1. IndexInv => IndexesAgree
  BY DEF IndexInv, IndexesAgree
<1>2. QED
  BY <1>1, IndexInit, IndexStep, PTL DEF Spec

-----------------------------------------------------------------------------
(* Walking the list.                                                       *)

Entry(s, n) == <<s.arena[n].label_id, Len(s.arena[n].entity_ids)>>

\* f gives what the walk meets from each node on
Walks(f, s, N) ==
  f = [n \in 0..N |-> IF n = 0 THEN <<>> ELSE <<Entry(s, n)>> \o f[s.arena[n].next]]

LEMMA WalksExist ==
  ASSUME NEW s, NEW N \in Nat, \A n \in 1..N : s.arena[n].next = n - 1
  PROVE  \E f : Walks(f, s, N)
<1> DEFINE A == {m \in Nat : \E f : Walks(f, s, m)}
<1>1. 0 \in A
  <2> DEFINE f == [n \in 0..0 |-> <<>>]
  <2>1. f = [n \in 0..0 |-> IF n = 0 THEN <<>> ELSE <<Entry(s, n)>> \o f[s.arena[n].next]]
    OBVIOUS
  <2>2. Walks(f, s, 0)
    BY <2>1 DEF Walks
  <2>3. QED
    BY <2>2
<1>2. ASSUME NEW m \in 0..(N - 1), m \in A PROVE m + 1 \in A
  <2>1. PICK f : Walks(f, s, m)
    BY <1>2
  <2>2. f = [n \in 0..m |-> IF n = 0 THEN <<>> ELSE <<Entry(s, n)>> \o f[s.arena[n].next]]
    BY <2>1 DEF Walks
  <2> DEFINE g == [n \in 0..(m + 1) |->
                     IF n = m + 1 THEN <<Entry(s, m + 1)>> \o f[m] ELSE f[n]]
  <2>3. ASSUME NEW n \in 0..(m + 1)
        PROVE  g[n] = IF n = 0 THEN <<>> ELSE <<Entry(s, n)>> \o g[s.arena[n].next]
    <3>1. CASE n = 0
      <4>1. n \in 0..m /\ n # m + 1
        BY <3>1
      <4>2. QED
        BY <2>2, <3>1, <4>1
    <3>2. CASE n = m + 1
      <4>1. n \in 1..N /\ n - 1 = m /\ m \in 0..(m + 1) /\ m # m + 1 /\ n # 0
        BY <3>2
      <4>2. s.arena[n].next = m
        BY <4>1
      <4>3. g[m] = f[m] /\ g[n] = <<Entry(s, n)>> \o f[m]
        BY <3>2, <4>1
      <4>4. QED
        BY <4>1, <4>2, <4>3
    <3>3. CASE n # 0 /\ n # m + 1
      <4>1. /\ n \in 0..m /\ n \in 1..N
            /\ n - 1 \in 0..(m + 1) /\ n - 1 # m + 1
        BY <3>3
      <4>2. s.arena[n].next = n - 1
        BY <4>1
      <4>3. g[n] = f[n] /\ g[n - 1] = f[n - 1]
        BY <3>3, <4>1
      <4>4. f[n] = <<Entry(s, n)>> \o f[s.arena[n].next]
        BY <2>2, <3>3, <4>1
      <4>5. QED
        BY <3>3, <4>2, <4>3, <4>4
    <3>4. QED
      BY <3>1, <3>2, <3>3
  <2>4. g = [n \in 0..(m + 1) |-> g[n]]
    OBVIOUS
  <2> HIDE DEF g
  <2>5. g = [n \in 0..(m + 1) |->
               IF n = 0 THEN <<>> ELSE <<Entry(s, n)>> \o g[s.arena[n].next]]
    BY <2>3, <2>4
  <2>6. Walks(g, s, m + 1)
    BY <2>5 DEF Walks
  <2>7. QED
    BY <2>6
<1>3. N \in A
  <2> HIDE DEF A
  <2>1. \A n \in 0..N : n \in A
    BY <1>1, <1>2, UpTo
  <2>2. QED
    BY <2>1
<1>4. QED
  BY <1>3

LEMMA TraversalIsWalk ==
  ASSUME NEW s, Len(s.arena) \in Nat, \A n \in 1..Len(s.arena) : s.arena[n].next = n - 1
  PROVE  \E f : Walks(f, s, Len(s.arena)) /\ TraverseAll(s) = f[s.head]
<1> DEFINE walk == CHOOSE f : f = [n \in 0..Len(s.arena) |->
                      IF n = 0 THEN <<>>
                      ELSE <<<<s.arena[n].label_id, Len(s.arena[n].entity_ids)>>>>
                             \o f[s.arena[n].next]]
<1>1. \E f : f = [n \in 0..Len(s.arena) |->
                    IF n = 0 THEN <<>>
                    ELSE <<<<s.arena[n].label_id, Len(s.arena[n].entity_ids)>>>>
                           \o f[s.arena[n].next]]
  <2>1. \E f : Walks(f, s, Len(s.arena))
    BY WalksExist
  <2>2. QED
    BY Zenon, <2>1 DEF Walks, Entry
<1>2. walk = [n \in 0..Len(s.arena) |->
                IF n = 0 THEN <<>>
                ELSE <<<<s.arena[n].label_id, Len(s.arena[n].entity_ids)>>>>
                       \o walk[s.arena[n].next]]
  BY Zenon, <1>1
<1>3. TraverseAll(s) = walk[s.head]
  BY Zenon DEF TraverseAll, Nil
<1> HIDE DEF walk
<1>4. Walks(walk, s, Len(s.arena))
  BY Zenon, <1>2 DEF Walks, Entry
<1>5. QED
  BY <1>3, <1>4

LEMMA TraversalFacts ==
  ASSUME NEW s \in LabelStores, WellLinked(s)
  PROVE  /\ Len(TraverseAll(s)) = Len(s.arena)
         /\ Elements(TraverseAll(s)) = {Entry(s, i) : i \in 1..Len(s.arena)}
<1> DEFINE N == Len(s.arena)
           E == Label \X Nat
<1>1. /\ N \in Nat
      /\ \A n \in 1..N : s.arena[n] \in LabelNode
      /\ s.head = N /\ \A n \in 1..N : s.arena[n].next = n - 1
  <2>1. s.arena \in Seq(LabelNode)
    BY DEF LabelStores
  <2>2. N \in Nat /\ \A n \in 1..N : s.arena[n] \in LabelNode
    BY <2>1
  <2>3. QED
    BY <2>2 DEF WellLinked
<1>2. PICK f : Walks(f, s, N) /\ TraverseAll(s) = f[N]
  BY <1>1, TraversalIsWalk
<1>3. f = [n \in 0..N |-> IF n = 0 THEN <<>> ELSE <<Entry(s, n)>> \o f[s.arena[n].next]]
  BY <1>2 DEF Walks
<1>4. ASSUME NEW n \in 1..N PROVE Entry(s, n) \in E
  <2>1. s.arena[n].label_id \in Label /\ s.arena[n].entity_ids \in Seq(Entity)
    BY <1>1 DEF LabelNode
  <2>2. Len(s.arena[n].entity_ids) \in Nat
    BY <2>1
  <2>3. QED
    BY <2>1, <2>2 DEF Entry
<1> DEFINE A == {n \in 0..N : /\ f[n] \in Seq(E) /\ Len(f[n]) = n
                              /\ Elements(f[n]) = {Entry(s, i) : i \in 1..n}}
<1> HIDE DEF N, E
<1>5. 0 \in A
  <2>1. f[0] = <<>>
    BY <1>1, <1>3
  <2>2. <<>> \in Seq(E) /\ Len(<<>>) = 0
    OBVIOUS
  <2>3. Elements(<<>>) = {} /\ {Entry(s, i) : i \in 1..0} = {}
    BY DEF Elements
  <2>4. /\ f[0] \in Seq(E) /\ Len(f[0]) = 0
        /\ Elements(f[0]) = {Entry(s, i) : i \in 1..0}
    BY Zenon, <2>1, <2>2, <2>3
  <2>5. QED
    BY <1>1, <2>4
<1>6. ASSUME NEW n \in 0..(N - 1), n \in A PROVE n + 1 \in A
  <2>1. n \in Nat /\ n + 1 \in 0..N /\ n + 1 \in 1..N /\ n + 1 # 0 /\ (n + 1) - 1 = n
    BY <1>1
  <2>2. s.arena[n + 1].next = n
    BY <1>1, <2>1
  <2>3. f[n + 1] = <<Entry(s, n + 1)>> \o f[n]
    BY <1>3, <2>1, <2>2
  <2> DEFINE x == Entry(s, n + 1)
             t == f[n]
  <2>4. x \in E
    BY <1>4, <2>1
  <2>5. t \in Seq(E) /\ Len(t) = n /\ Elements(t) = {Entry(s, i) : i \in 1..n}
    BY <1>6
  <2> HIDE DEF x, t
  <2>6. <<x>> \in Seq(E) /\ Len(<<x>>) = 1 /\ Elements(<<x>>) = {x}
    BY <2>4 DEF Elements
  <2>7. /\ <<x>> \o t \in Seq(E)
        /\ Elements(<<x>> \o t) = {x} \cup Elements(t)
    <3> DEFINE u == <<x>>
    <3>1. u \in Seq(E) /\ Elements(u) = {x}
      BY <2>6
    <3> HIDE DEF u
    <3>2. u \o t \in Seq(E) /\ Elements(u \o t) = Elements(u) \cup Elements(t)
      BY <2>5, <3>1, ElementsOfConcatenation
    <3>3. QED
      BY <3>1, <3>2 DEF u
  <2>8. Len(<<x>> \o t) = n + 1
    BY <2>1, <2>5, <2>6
  <2>9. {Entry(s, i) : i \in 1..(n + 1)} = {x} \cup {Entry(s, i) : i \in 1..n}
    <3>1. 1..(n + 1) = 1..n \cup {n + 1}
      BY <2>1
    <3>2. QED
      BY <3>1 DEF x
  <2>10. f[n + 1] = <<x>> \o t
    BY <2>3 DEF x, t
  <2>11. QED
    BY <2>1, <2>5, <2>7, <2>8, <2>9, <2>10
<1>7. N \in A
  <2> HIDE DEF A
  <2>1. \A n \in 0..N : n \in A
    BY <1>1, <1>5, <1>6, UpTo
  <2>2. QED
    BY <1>1, <2>1
<1>8. QED
  BY <1>2, <1>7 DEF N

(* Each node of the arena is the one node of its label.                    *)
LEMMA LabelCountIsArena ==
  ASSUME NEW s \in LabelStores, WellLinked(s)
  PROVE  LabelCount(s) = Len(s.arena)
<1> DEFINE N == Len(s.arena)
           T == {l \in Label : s.index[l] # 0}
           f == [i \in 1..N |-> s.arena[i].label_id]
<1>1. N \in Nat /\ \A i \in 1..N : s.arena[i].label_id \in Label
  <2>1. s.arena \in Seq(LabelNode)
    BY DEF LabelStores
  <2>2. N \in Nat /\ \A i \in 1..N : s.arena[i] \in LabelNode
    BY <2>1
  <2>3. QED
    BY <2>2 DEF LabelNode
<1>2. /\ \A i \in 1..N : s.index[s.arena[i].label_id] = i
      /\ \A l \in T : s.index[l] \in 1..N /\ s.arena[s.index[l]].label_id = l
  BY DEF WellLinked, Nil
<1> HIDE DEF N
<1>3. f \in [1..N -> T]
  BY <1>1, <1>2
<1>4. \A l \in T : \E i \in 1..N : f[i] = l
  BY <1>2
<1>5. \A i, j \in 1..N : f[i] = f[j] => i = j
  BY <1>2
<1> HIDE DEF T, f
<1>6. f \in Surjection(1..N, T) /\ f \in Injection(1..N, T)
  BY <1>3, <1>4, <1>5 DEF Surjection, Injection, IsInjective
<1>7. IsFiniteSet(1..N) /\ Cardinality(1..N) = N
  BY <1>1, FS_Interval
<1>8. Cardinality(T) = Cardinality(1..N)
  BY <1>6, <1>7, FS_Surjection
<1>9. QED
  BY <1>7, <1>8 DEF LabelCount, Nil, T, N

(* Walking the LabelStore's list ends, and meets every label that was      *)
(* given once, with as many entities as the reverse map has for it.        *)
THEOREM ListAlwaysMeetsEveryLabel == Spec => []ListMeetsEveryLabel
<1>1. ASSUME IndexInv PROVE ListMeetsEveryLabel
  <2> DEFINE s == label_store
             N == Len(label_store.arena)
  <2>1. s \in LabelStores /\ WellLinked(s)
    BY <1>1 DEF IndexInv
  <2>2. Len(TraverseAll(s)) = N /\ Elements(TraverseAll(s)) = {Entry(s, i) : i \in 1..N}
    BY <2>1, TraversalFacts
  <2>3. LabelCount(s) = N
    BY <2>1, LabelCountIsArena
  <2>4. /\ \A i \in 1..N : /\ s.index[s.arena[i].label_id] = i
                            /\ s.arena[i].entity_ids # <<>>
                            /\ s.arena[i].label_id \in Label
        /\ \A l \in Label : s.index[l] # 0 =>
             s.index[l] \in 1..N /\ s.arena[s.index[l]].label_id = l
    <3>1. s.arena \in Seq(LabelNode)
      BY <2>1 DEF LabelStores
    <3>2. \A i \in 1..N : s.arena[i] \in LabelNode
      BY <3>1
    <3>3. \A i \in 1..N : s.arena[i].label_id \in Label
      BY <3>2 DEF LabelNode
    <3>4. QED
      BY <2>1, <3>3 DEF WellLinked, Nil
  <2>5. \A l \in Label : label_entities[l] = IF s.index[l] = 0 THEN <<>>
                                             ELSE s.arena[s.index[l]].entity_ids
    BY <1>1 DEF IndexInv, EntitiesForLabel, Nil
  <2> DEFINE T == {<<l, Len(label_entities[l])>> :
                     l \in {m \in Label : label_entities[m] # <<>>}}
  <2>6. ASSUME NEW i \in 1..N PROVE Entry(s, i) \in T
    <3> DEFINE l == s.arena[i].label_id
    <3>1. l \in Label /\ s.index[l] = i /\ i # 0
      BY <2>4
    <3>2. label_entities[l] = s.arena[i].entity_ids /\ label_entities[l] # <<>>
      BY <2>4, <2>5, <3>1
    <3>3. Entry(s, i) = <<l, Len(label_entities[l])>>
      BY <3>2 DEF Entry
    <3>4. QED
      BY <3>1, <3>2, <3>3
  <2>7. ASSUME NEW l \in Label, label_entities[l] # <<>>
        PROVE  \E i \in 1..N : <<l, Len(label_entities[l])>> = Entry(s, i)
    <3>1. s.index[l] # 0
      BY <2>5, <2>7
    <3>2. s.index[l] \in 1..N /\ s.arena[s.index[l]].label_id = l
      BY <2>4, <3>1
    <3>3. <<l, Len(label_entities[l])>> = Entry(s, s.index[l])
      BY <2>5, <3>1, <3>2 DEF Entry
    <3>4. QED
      BY <3>2, <3>3
  <2> HIDE DEF N, s
  <2>8. Elements(TraverseAll(s)) = T
    BY <2>2, <2>6, <2>7
  <2>9. QED
    BY <2>1, <2>2, <2>3, <2>8 DEF ListMeetsEveryLabel, s
<1>2. QED
  BY <1>1, IndexInit, IndexStep, PTL DEF Spec

=============================================================================
