---------------------- MODULE SpreadingActivationProof ----------------------
(***************************************************************************)
(* Proofs about SpreadingActivation: for every graph of finitely many      *)
(* labels, every start and every number of hops, the search returns only   *)
(* what is in reach, and all of it unless the clock cut it short.          *)
(***************************************************************************)
EXTENDS SpreadingActivation, FiniteSetTheorems, WellFoundedInduction, TLAPS

(* Induction up to N, for a set of numbers.                                *)
LEMMA UpTo ==
  ASSUME NEW A, NEW N \in Nat, 0 \in A, \A n \in 0..(N - 1) : n \in A => n + 1 \in A
  PROVE  \A n \in 0..N : n \in A
<1> DEFINE T == {n \in 0..N : n \notin A}
           R == OpToRel(<, Nat)
<1>1. SUFFICES ASSUME T # {} PROVE FALSE
  OBVIOUS
<1>2. IsWellFoundedOn(R, Nat)
  BY NatLessThanWellFounded
<1>3. T \subseteq Nat
  OBVIOUS
<1>4. \A x, y \in Nat : x < y => <<x, y>> \in R
  BY DEF OpToRel
<1> HIDE DEF R
<1>5. PICK x \in T : \A y \in T : ~ (<<y, x>> \in R)
  <2> HIDE DEF T
  <2>1. QED
    BY <1>1, <1>2, <1>3, WFMin
<1>6. x \in Nat /\ x # 0 /\ x <= N /\ x \notin A
  OBVIOUS
<1>7. /\ x - 1 \in 0..(N - 1) /\ x - 1 \in Nat /\ x - 1 \in 0..N
      /\ x - 1 < x /\ (x - 1) + 1 = x
  BY <1>6
<1>8. <<x - 1, x>> \in R
  BY <1>4, <1>6, <1>7
<1>9. x - 1 \in A
  <2>1. x - 1 \notin T
    BY <1>5, <1>8
  <2>2. QED
    BY <1>7, <2>1
<1>10. x \in A
  BY <1>7, <1>9
<1>11. QED
  BY <1>6, <1>10

-----------------------------------------------------------------------------
(* The reference definition.                                               *)

\* f gives the labels within each number of hops
Spreads(f, graph, N) ==
  f = [n \in 0..N |-> IF n = 0 THEN {start_label}
                               ELSE f[n - 1] \cup Around(graph, f[n - 1])]

LEMMA SpreadsExist ==
  ASSUME NEW graph, NEW N \in Nat
  PROVE  \E f : Spreads(f, graph, N)
<1> DEFINE A == {m \in Nat : \E f : Spreads(f, graph, m)}
<1>1. 0 \in A
  <2> DEFINE f == [n \in 0..0 |-> {start_label}]
  <2>1. f = [n \in 0..0 |-> IF n = 0 THEN {start_label}
                                     ELSE f[n - 1] \cup Around(graph, f[n - 1])]
    OBVIOUS
  <2>2. Spreads(f, graph, 0)
    BY <2>1 DEF Spreads
  <2>3. QED
    BY <2>2
<1>2. ASSUME NEW m \in 0..(N - 1), m \in A PROVE m + 1 \in A
  <2>1. PICK f : Spreads(f, graph, m)
    BY <1>2
  <2>2. f = [n \in 0..m |-> IF n = 0 THEN {start_label}
                                     ELSE f[n - 1] \cup Around(graph, f[n - 1])]
    BY <2>1 DEF Spreads
  <2> DEFINE g == [n \in 0..(m + 1) |->
                     IF n = m + 1 THEN f[m] \cup Around(graph, f[m]) ELSE f[n]]
  <2>3. ASSUME NEW n \in 0..(m + 1)
        PROVE  g[n] = IF n = 0 THEN {start_label}
                               ELSE g[n - 1] \cup Around(graph, g[n - 1])
    <3>1. CASE n = 0
      <4>1. n \in 0..m /\ n # m + 1
        BY <3>1
      <4>2. QED
        BY <2>2, <3>1, <4>1
    <3>2. CASE n = m + 1
      <4>1. n - 1 = m /\ m \in 0..(m + 1) /\ m # m + 1 /\ n # 0
        BY <3>2
      <4>2. g[n - 1] = f[m] /\ g[n] = f[m] \cup Around(graph, f[m])
        BY <3>2, <4>1
      <4>3. QED
        BY <4>1, <4>2
    <3>3. CASE n # 0 /\ n # m + 1
      <4>1. n \in 0..m /\ n - 1 \in 0..(m + 1) /\ n - 1 # m + 1
        BY <3>3
      <4>2. g[n] = f[n] /\ g[n - 1] = f[n - 1]
        BY <3>3, <4>1
      <4>3. f[n] = f[n - 1] \cup Around(graph, f[n - 1])
        BY <2>2, <3>3, <4>1
      <4>4. QED
        BY <3>3, <4>2, <4>3
    <3>4. QED
      BY <3>1, <3>2, <3>3
  <2>4. g = [n \in 0..(m + 1) |-> g[n]]
    OBVIOUS
  <2> HIDE DEF g
  <2>5. g = [n \in 0..(m + 1) |-> IF n = 0 THEN {start_label}
                                  ELSE g[n - 1] \cup Around(graph, g[n - 1])]
    BY <2>3, <2>4
  <2>6. Spreads(g, graph, m + 1)
    BY <2>5 DEF Spreads
  <2>7. QED
    BY <2>6
<1>3. N \in A
  <2> HIDE DEF A
  <2>1. \A n \in 0..N : n \in A
    BY <1>1, <1>2, UpTo
  <2>2. QED
    BY <2>1
<1>4. QED
  BY <1>3

(* The labels within n + 1 hops are those within n and those around them.  *)
LEMMA WithinFacts ==
  ASSUME NEW graph
  PROVE  /\ LabelsWithin(graph)[0] = {start_label}
         /\ \A n \in 0..(max_hops - 1) :
              LabelsWithin(graph)[n + 1]
                = LabelsWithin(graph)[n] \cup Around(graph, LabelsWithin(graph)[n])
<1> DEFINE W == CHOOSE f : f = [n \in 0..max_hops |->
                    IF n = 0 THEN {start_label}
                             ELSE f[n - 1] \cup Around(graph, f[n - 1])]
<1>1. \E f : f = [n \in 0..max_hops |->
                    IF n = 0 THEN {start_label}
                             ELSE f[n - 1] \cup Around(graph, f[n - 1])]
  <2>1. \E f : Spreads(f, graph, max_hops)
    BY SpreadsExist, CallArguments
  <2>2. QED
    BY Zenon, <2>1 DEF Spreads
<1>2. W = [n \in 0..max_hops |-> IF n = 0 THEN {start_label}
                                 ELSE W[n - 1] \cup Around(graph, W[n - 1])]
  BY Zenon, <1>1
<1>3. LabelsWithin(graph) = W
  BY Zenon DEF LabelsWithin
<1> HIDE DEF W
<1>4. W[0] = {start_label}
  <2>1. 0 \in 0..max_hops
    BY CallArguments
  <2>2. QED
    BY <1>2, <2>1
<1>5. ASSUME NEW n \in 0..(max_hops - 1)
      PROVE  W[n + 1] = W[n] \cup Around(graph, W[n])
  <2>1. n + 1 \in 0..max_hops /\ n + 1 # 0 /\ (n + 1) - 1 = n
    BY CallArguments
  <2>2. QED
    BY <1>2, <2>1
<1>6. QED
  BY Zenon, <1>3, <1>4, <1>5

LEMMA WithinGrows ==
  ASSUME NEW graph, NEW n \in 0..max_hops
  PROVE  LabelsWithin(graph)[n] \subseteq LabelsWithin(graph)[max_hops]
<1> DEFINE W == LabelsWithin(graph)
           A == {m \in 0..(max_hops - n) : W[n] \subseteq W[n + m]}
<1>1. \A m \in 0..(max_hops - 1) : W[m] \subseteq W[m + 1]
  BY WithinFacts
<1> HIDE DEF W
<1>2. max_hops \in Nat /\ n \in Nat /\ max_hops - n \in Nat
  BY CallArguments
<1>3. 0 \in A
  BY <1>2
<1>4. ASSUME NEW m \in 0..((max_hops - n) - 1), m \in A PROVE m + 1 \in A
  <2>1. n + m \in 0..(max_hops - 1) /\ (n + m) + 1 = n + (m + 1) /\ m + 1 \in 0..(max_hops - n)
    BY <1>2
  <2>2. W[n + m] \subseteq W[(n + m) + 1]
    BY <1>1, <2>1
  <2>3. QED
    BY <1>4, <2>1, <2>2
<1>5. max_hops - n \in A
  <2> HIDE DEF A
  <2>1. \A m \in 0..(max_hops - n) : m \in A
    BY <1>2, <1>3, <1>4, UpTo
  <2>2. QED
    BY <1>2, <2>1
<1>6. n + (max_hops - n) = max_hops
  BY <1>2
<1>7. QED
  BY <1>5, <1>6 DEF W

-----------------------------------------------------------------------------
(* The invariant.                                                          *)

Queued == {queue[i][1] : i \in DOMAIN queue}

\* What waits is in reach within its hops
QueueIsReached ==
  \A i \in DOMAIN queue : queue[i][1] \in LabelsWithin(entity_labels)[queue[i][2]]

\* A label that was seen and no longer waits has had its entities collected
SeenIsCollected ==
  \A l \in visited_labels : l \in Queued \/ Carrying(l) \subseteq result_entities

\* All labels within the hops of the next one were seen; and what waits with
\* more hops than that needs them
LevelIsSeen ==
  queue # <<>> =>
    /\ LabelsWithin(entity_labels)[queue[1][2]] \subseteq visited_labels
    /\ \A i \in DOMAIN queue : queue[i][2] > queue[1][2] =>
         queue[i][1] \notin LabelsWithin(entity_labels)[queue[1][2]]

\* The labels of collected entities were seen
Followed == \A e \in result_entities : entity_labels[e] \subseteq visited_labels

\* Or the search is at the last hop, from which entities are not followed
AtLastHop ==
  /\ LabelsWithin(entity_labels)[max_hops] \subseteq visited_labels
  /\ \A i \in DOMAIN queue : queue[i][2] = max_hops

SearchInv ==
  /\ TypeOK /\ QueueInOrder /\ QueueIsReached /\ Sound /\ Complete
  /\ status = "running" => /\ start_label \in visited_labels
                           /\ SeenIsCollected
                           /\ LevelIsSeen
                           /\ Followed \/ AtLastHop

(* The definition by hops, spelled out at the bound the code keeps to.     *)
LEMMA ReachableFacts ==
  Reachable = {e \in Entity :
                 entity_labels[e] \cap LabelsWithin(entity_labels)[max_hops] # {}}
<1>1. max_hops + 1 # 0 /\ (max_hops + 1) - 1 = max_hops
  BY CallArguments
<1>2. QED
  BY <1>1 DEF Reachable, ReachableIn

LEMMA SearchInit == Init => SearchInv
<1> SUFFICES ASSUME Init PROVE SearchInv
  OBVIOUS
<1> USE CallArguments
<1>1. /\ queue = <<<<start_label, 0>>>> /\ visited_labels = {start_label}
      /\ result_entities = {} /\ status = "running"
      /\ entity_labels \in [Entity -> SUBSET Label]
  BY DEF Init
<1>2. DOMAIN queue = {1} /\ queue[1] = <<start_label, 0>> /\ queue # <<>>
  BY <1>1
<1>3. TypeOK
  <2>1. <<start_label, 0>> \in visited_labels \X (0..max_hops)
    BY <1>1
  <2>2. queue \in Seq(visited_labels \X (0..max_hops))
    BY <1>1, <2>1
  <2>3. QED
    BY <1>1, <2>2 DEF TypeOK
<1>4. QueueInOrder
  BY <1>2 DEF QueueInOrder
<1>5. LabelsWithin(entity_labels)[0] = {start_label}
  BY WithinFacts
<1>6. QueueIsReached /\ LevelIsSeen
  BY <1>1, <1>2, <1>5 DEF QueueIsReached, LevelIsSeen
<1>7. SeenIsCollected
  BY <1>1, <1>2 DEF SeenIsCollected, Queued
<1>8. Sound /\ Complete /\ Followed
  BY <1>1 DEF Sound, Complete, Followed
<1>9. QED
  BY <1>1, <1>3, <1>4, <1>6, <1>7, <1>8 DEF SearchInv

LEMMA Concatenation ==
  ASSUME NEW S, NEW s \in Seq(S), NEW t \in Seq(S)
  PROVE  /\ Len(s \o t) = Len(s) + Len(t)
         /\ DOMAIN (s \o t) = 1..(Len(s) + Len(t))
         /\ \A i \in 1..(Len(s) + Len(t)) :
              (s \o t)[i] = IF i <= Len(s) THEN s[i] ELSE t[i - Len(s)]
OBVIOUS

\* The queue after its first label was taken and the m labels of order, which
\* are those of new, were put at its end with hop h
Advanced(order, new, h, m) ==
  LET k == Len(queue) - 1
  IN  /\ DOMAIN order = 1..m
      /\ Len(queue') = k + m
      /\ DOMAIN queue' = 1..(k + m)
      /\ \A i \in 1..k : queue'[i] = queue[i + 1]
      /\ \A i \in 1..m : queue'[k + i] = <<order[i], h>>
      /\ \A i \in 1..m : order[i] \in new
      /\ \A x \in new : \E i \in 1..m : order[i] = x
      /\ \A i, j \in 1..m : order[i] = order[j] => i = j

(* What taking the first label does to the queue.                          *)
LEMMA QueueStep ==
  ASSUME TypeOK, queue # <<>>, NEW new \in SUBSET Label, NEW order \in Orders(new), NEW h,
         queue' = Tail(queue) \o [i \in DOMAIN order |-> <<order[i], h>>]
  PROVE  \E m \in Nat : Advanced(order, new, h, m)
<1> DEFINE S == (visited_labels \X (0..max_hops))
           k == Len(queue) - 1
           m == Cardinality(new)
           t == Tail(queue)
           u == [i \in DOMAIN order |-> <<order[i], h>>]
<1>1. queue \in Seq(S)
  BY DEF TypeOK
<1> HIDE DEF S
<1>2. Len(queue) \in Nat /\ Len(queue) >= 1
  BY <1>1
<1>3. /\ t \in Seq(S) /\ Len(t) = k
      /\ \A i \in 1..k : t[i] = queue[i + 1]
  BY <1>1, <1>2
<1>4. IsFiniteSet(new)
  BY CallArguments, FS_Subset
<1>5. m \in Nat
  BY <1>4, FS_CardinalityType
<1>6. /\ order \in [1..m -> new]
      /\ \A x \in new : \E i \in 1..m : order[i] = x
  BY DEF Orders
<1> HIDE DEF m
<1>7. order \in Surjection(1..m, new)
  BY <1>6 DEF Surjection
<1>8. IsFiniteSet(1..m) /\ Cardinality(1..m) = m
  BY <1>5, FS_Interval
<1>9. Cardinality(new) = Cardinality(1..m)
  BY <1>8 DEF m
<1>10. order \in Injection(1..m, new)
  BY <1>7, <1>8, <1>9, FS_SurjSameCardinalityImpliesInj
<1>11. \A i, j \in 1..m : order[i] = order[j] => i = j
  BY <1>6, <1>10 DEF Injection, IsInjective
<1>12. DOMAIN order = 1..m
  BY <1>6
<1>13. /\ u \in Seq(new \X {h}) /\ Len(u) = m
       /\ \A i \in 1..m : u[i] = <<order[i], h>>
  BY <1>5, <1>6
<1> HIDE DEF t, u, k
<1>14. k \in Nat
  BY <1>2 DEF k
<1>15. t \in Seq(S \cup (new \X {h})) /\ u \in Seq(S \cup (new \X {h}))
  BY <1>3, <1>13
<1>16. /\ Len(t \o u) = k + m /\ DOMAIN (t \o u) = 1..(k + m)
       /\ \A i \in 1..k : (t \o u)[i] = t[i]
       /\ \A i \in 1..m : (t \o u)[k + i] = u[i]
  <2>1. /\ Len(t \o u) = k + m /\ DOMAIN (t \o u) = 1..(k + m)
        /\ \A i \in 1..(k + m) : (t \o u)[i] = IF i <= k THEN t[i] ELSE u[i - k]
    <3> DEFINE U == S \cup (new \X {h})
    <3>1. t \in Seq(U) /\ u \in Seq(U)
      BY <1>15
    <3> HIDE DEF U
    <3>2. /\ Len(t \o u) = Len(t) + Len(u)
          /\ DOMAIN (t \o u) = 1..(Len(t) + Len(u))
          /\ \A i \in 1..(Len(t) + Len(u)) :
               (t \o u)[i] = IF i <= Len(t) THEN t[i] ELSE u[i - Len(t)]
      BY Zenon, <3>1, Concatenation
    <3>3. QED
      BY Zenon, <1>3, <1>13, <3>2
  <2>2. ASSUME NEW i \in 1..k PROVE (t \o u)[i] = t[i]
    BY <1>5, <1>14, <2>1
  <2>3. ASSUME NEW i \in 1..m PROVE (t \o u)[k + i] = u[i]
    <3>1. k + i \in 1..(k + m) /\ ~(k + i <= k) /\ (k + i) - k = i
      BY <1>5, <1>14
    <3>2. QED
      BY <2>1, <3>1
  <2>4. QED
    BY <2>1, <2>2, <2>3
<1>17. queue' = t \o u
  BY DEF t, u
<1>18. /\ DOMAIN order = 1..m
       /\ Len(queue') = k + m
       /\ DOMAIN queue' = 1..(k + m)
       /\ \A i \in 1..k : queue'[i] = queue[i + 1]
       /\ \A i \in 1..m : queue'[k + i] = <<order[i], h>>
       /\ \A i \in 1..m : order[i] \in new
       /\ \A x \in new : \E i \in 1..m : order[i] = x
       /\ \A i, j \in 1..m : order[i] = order[j] => i = j
  <2>1. DOMAIN order = 1..m /\ \A i \in 1..m : order[i] \in new
    BY <1>6
  <2>2. Len(queue') = k + m /\ DOMAIN queue' = 1..(k + m)
    BY <1>16, <1>17
  <2>3. \A i \in 1..k : queue'[i] = queue[i + 1]
    BY <1>3, <1>16, <1>17
  <2>4. \A i \in 1..m : queue'[k + i] = <<order[i], h>>
    BY <1>13, <1>16, <1>17
  <2>5. QED
    BY <1>6, <1>11, <2>1, <2>2, <2>3, <2>4
<1>19. QED
  BY Zenon, <1>5, <1>18 DEF k, Advanced

LEMMA VisitKeeps ==
  ASSUME SearchInv, Visit
  PROVE  SearchInv'
<1> USE CallArguments
<1> DEFINE W == LabelsWithin(entity_labels)
           l0 == queue[1][1]
           c == queue[1][2]
           found == Carrying(l0) \ result_entities
           new == IF c < max_hops THEN NewLabels(found) ELSE {}
           k == Len(queue) - 1
<1>0. Head(queue) = queue[1]
  <2>1. queue \in Seq(visited_labels \X (0..max_hops)) /\ queue # <<>>
    BY DEF SearchInv, TypeOK, Visit
  <2>2. QED
    BY <2>1
<1>1. /\ status = "running" /\ queue # <<>> /\ c <= max_hops
      /\ result_entities' = result_entities \cup found
      /\ visited_labels' = visited_labels \cup new
      /\ UNCHANGED <<entity_labels, status>>
  BY Zenon, <1>0 DEF Visit, GoesOn
<1>2. PICK order \in Orders(new) :
        queue' = Tail(queue) \o [i \in DOMAIN order |-> <<order[i], c + 1>>]
  BY Zenon, <1>0 DEF Visit, GoesOn, Enqueued, NextHop
<1>3. /\ TypeOK /\ QueueInOrder /\ QueueIsReached /\ Sound
      /\ start_label \in visited_labels /\ SeenIsCollected /\ LevelIsSeen
      /\ Followed \/ AtLastHop
  BY <1>1 DEF SearchInv
<1>4. /\ entity_labels \in [Entity -> SUBSET Label]
      /\ visited_labels \in SUBSET Label /\ result_entities \in SUBSET Entity
      /\ Len(queue) \in Nat /\ k \in Nat /\ 1 \in DOMAIN queue
      /\ DOMAIN queue = 1..(k + 1)
  <2>1. queue \in Seq(visited_labels \X (0..max_hops))
    BY <1>3 DEF TypeOK
  <2>2. Len(queue) \in Nat /\ DOMAIN queue = 1..Len(queue) /\ Len(queue) >= 1
    BY <1>1, <2>1
  <2>3. QED
    BY <1>3, <2>2 DEF TypeOK
<1>5. \A i \in 1..(k + 1) : /\ queue[i] = <<queue[i][1], queue[i][2]>>
                            /\ queue[i][1] \in visited_labels
                            /\ queue[i][2] \in 0..max_hops
                            /\ queue[i][2] \in {c, c + 1}
  <2>1. queue \in Seq(visited_labels \X (0..max_hops))
    BY <1>3 DEF TypeOK
  <2>2. \A i \in 1..(k + 1) : queue[i] \in visited_labels \X (0..max_hops)
    BY <1>4, <2>1
  <2>3. ASSUME NEW i \in 1..(k + 1)
        PROVE  /\ queue[i] = <<queue[i][1], queue[i][2]>>
               /\ queue[i][1] \in visited_labels /\ queue[i][2] \in 0..max_hops
    BY <2>2
  <2>4. ASSUME NEW i \in 1..(k + 1) PROVE queue[i][2] \in {c, c + 1}
    <3>1. i = 1 \/ (1 < i /\ i \in DOMAIN queue)
      BY <1>4
    <3>2. 1 < i /\ i \in DOMAIN queue => c <= queue[i][2] /\ queue[i][2] <= c + 1
      BY <1>3, <1>4 DEF QueueInOrder
    <3>3. c \in Nat /\ queue[i][2] \in Nat
      BY <1>4, <2>3
    <3>4. QED
      BY <3>1, <3>2, <3>3
  <2>5. QED
    BY <2>3, <2>4
<1>6. c \in 0..max_hops /\ l0 \in visited_labels /\ l0 \in W[c]
  BY <1>3, <1>4, <1>5 DEF QueueIsReached
<1> HIDE DEF W, l0, c, found, new, k
<1>7. new \in SUBSET Label /\ new \cap visited_labels = {}
  <2>1. found \subseteq Entity
    BY DEF found, Carrying
  <2>2. (UNION {entity_labels[e] : e \in found}) \in SUBSET Label
    BY <1>4, <2>1
  <2>3. NewLabels(found) \in SUBSET Label /\ NewLabels(found) \cap visited_labels = {}
    BY <2>2 DEF NewLabels
  <2>4. QED
    BY <2>3 DEF new
<1>8. PICK m \in Nat :
        /\ DOMAIN queue' = 1..(k + m) /\ Len(queue') = k + m
        /\ \A i \in 1..k : queue'[i] = queue[i + 1]
        /\ \A i \in 1..m : queue'[k + i] = <<order[i], c + 1>>
        /\ \A i \in 1..m : order[i] \in new
        /\ \A x \in new : \E i \in 1..m : order[i] = x
        /\ \A i, j \in 1..m : order[i] = order[j] => i = j
  <2> DEFINE h == c + 1
  <2>1. /\ TypeOK /\ queue # <<>> /\ new \in SUBSET Label /\ order \in Orders(new)
        /\ queue' = Tail(queue) \o [i \in DOMAIN order |-> <<order[i], h>>]
    BY <1>1, <1>2, <1>3, <1>7
  <2> HIDE DEF h
  <2>2. \E m \in Nat : Advanced(order, new, h, m)
    BY Zenon, <2>1, QueueStep
  <2>3. QED
    BY Zenon, <2>2 DEF k, h, Advanced
<1>9. m > 0 => c < max_hops
  <2>1. m > 0 => new # {}
    BY <1>8
  <2>2. QED
    BY <2>1 DEF new
<1>10. ASSUME NEW i \in 1..(k + m)
       PROVE  \/ /\ i \in 1..k /\ i + 1 \in 1..(k + 1) /\ queue'[i] = queue[i + 1]
              \/ /\ i \notin 1..k /\ i - k \in 1..m
                 /\ queue'[i] = <<order[i - k], c + 1>> /\ order[i - k] \in new
  <2>1. CASE i <= k
    BY <1>4, <1>8, <2>1
  <2>2. CASE ~(i <= k)
    <3>1. i - k \in 1..m /\ k + (i - k) = i /\ i \notin 1..k
      BY <1>4, <2>2
    <3>2. queue'[k + (i - k)] = <<order[i - k], c + 1>> /\ order[i - k] \in new
      BY <1>8, <3>1
    <3>3. QED
      BY <3>1, <3>2
  <2>3. QED
    BY <2>1, <2>2
<1>11. ASSUME NEW i \in 1..(k + m)
       PROVE  /\ queue'[i][1] \in visited_labels' /\ queue'[i][2] \in 0..max_hops
              /\ queue'[i][2] \in {c, c + 1}
              /\ queue'[i] = <<queue'[i][1], queue'[i][2]>>
  <2>1. CASE i \in 1..k
    BY <1>1, <1>5, <1>10, <2>1
  <2>2. CASE i \notin 1..k
    <3>1. m > 0
      BY <1>10, <2>2
    <3>2. c + 1 \in 0..max_hops
      BY <1>6, <1>9, <3>1
    <3>3. queue'[i] = <<order[i - k], c + 1>> /\ order[i - k] \in new
      BY <1>10, <2>2
    <3>4. QED
      BY <1>1, <3>2, <3>3
  <2>3. QED
    BY <2>1, <2>2
<1>12. \A e \in found : e \in Entity /\ l0 \in entity_labels[e]
  BY DEF found, Carrying
<1>13. TypeOK'
  <2>1. Len(queue') \in Nat
    BY <1>4, <1>8
  <2>2. queue' \in Seq(visited_labels' \X (0..max_hops))
    <3>1. ASSUME NEW i \in 1..(k + m)
          PROVE  queue'[i] \in visited_labels' \X (0..max_hops)
      <4>1. PICK x, y : x = queue'[i][1] /\ y = queue'[i][2]
        OBVIOUS
      <4>2. queue'[i] = <<x, y>> /\ x \in visited_labels' /\ y \in 0..max_hops
        BY <1>11, <4>1
      <4>3. QED
        BY <4>2
    <3>2. queue' = [i \in 1..(k + m) |-> queue'[i]]
      <4> DEFINE t == Tail(queue)
                 u == [i \in DOMAIN order |-> <<order[i], c + 1>>]
      <4>1. queue' = t \o u
        BY <1>2
      <4>2. t \o u = [i \in DOMAIN (t \o u) |-> (t \o u)[i]]
        OBVIOUS
      <4>3. QED
        BY Zenon, <1>8, <4>1, <4>2
    <3>3. k + m \in Nat
      BY <1>4
    <3>4. QED
      BY <3>1, <3>2, <3>3
  <2>3. visited_labels' \in SUBSET Label /\ result_entities' \in SUBSET Entity
    BY <1>1, <1>4, <1>7, <1>12
  <2>4. QED
    BY <1>1, <1>3, <2>2, <2>3 DEF TypeOK
<1>14. QueueInOrder'
  <2> SUFFICES ASSUME NEW i \in 1..(k + m), NEW j \in 1..(k + m), i < j
               PROVE  /\ queue'[i][2] <= queue'[j][2]
                      /\ queue'[i][1] # queue'[j][1]
                      /\ queue'[j][2] <= queue'[i][2] + 1
    BY <1>8 DEF QueueInOrder
  <2>1. CASE i \in 1..k /\ j \in 1..k
    <3>1. i + 1 \in DOMAIN queue /\ j + 1 \in DOMAIN queue /\ i + 1 < j + 1
      BY <1>4, <2>1
    <3>2. queue'[i] = queue[i + 1] /\ queue'[j] = queue[j + 1]
      BY <1>10, <2>1
    <3>3. QED
      BY <1>3, <3>1, <3>2 DEF QueueInOrder
  <2>2. CASE i \in 1..k /\ j \notin 1..k
    <3>1. /\ queue'[i] = queue[i + 1] /\ i + 1 \in 1..(k + 1)
          /\ queue'[j] = <<order[j - k], c + 1>> /\ order[j - k] \in new
      BY <1>10, <2>2
    <3>2. queue'[i][1] \in visited_labels /\ queue'[j][1] \in new
      BY <1>5, <3>1
    <3>3. queue'[i][2] \in {c, c + 1} /\ queue'[j][2] = c + 1
      BY <1>5, <3>1
    <3>4. QED
      BY <1>6, <1>7, <3>2, <3>3
  <2>3. CASE i \notin 1..k /\ j \notin 1..k
    <3>1. /\ queue'[i] = <<order[i - k], c + 1>> /\ i - k \in 1..m
          /\ queue'[j] = <<order[j - k], c + 1>> /\ j - k \in 1..m
      BY <1>10, <2>3
    <3>2. i - k # j - k
      BY <1>4
    <3>3. order[i - k] # order[j - k]
      BY <1>8, <3>1, <3>2
    <3>4. QED
      BY <1>6, <3>1, <3>3
  <2>4. CASE i \notin 1..k /\ j \in 1..k
    BY <1>4, <2>4
  <2>5. QED
    BY <2>1, <2>2, <2>3, <2>4
<1>15. LabelsWithin(entity_labels') = W
  BY <1>1 DEF W
<1>16. c < max_hops => W[c + 1] = W[c] \cup Around(entity_labels, W[c])
  <2>1. c < max_hops => c \in 0..(max_hops - 1)
    BY <1>6
  <2>2. QED
    BY <2>1, WithinFacts DEF W
<1>17. QueueIsReached'
  <2> SUFFICES ASSUME NEW i \in 1..(k + m) PROVE queue'[i][1] \in W[queue'[i][2]]
    BY <1>8, <1>15 DEF QueueIsReached
  <2>1. CASE i \in 1..k
    BY <1>3, <1>4, <1>10, <2>1 DEF QueueIsReached, W
  <2>2. CASE i \notin 1..k
    <3> DEFINE x == order[i - k]
    <3>1. queue'[i] = <<x, c + 1>> /\ x \in new /\ i - k \in 1..m
      BY <1>10, <2>2
    <3>2. c < max_hops
      BY <1>9, <3>1
    <3>3. PICK e \in found : x \in entity_labels[e]
      BY <3>1, <3>2 DEF new, NewLabels
    <3>4. e \in Entity /\ entity_labels[e] \cap W[c] # {}
      BY <1>6, <1>12
    <3>5. x \in Around(entity_labels, W[c])
      BY <3>3, <3>4 DEF Around
    <3>6. QED
      BY <1>16, <3>1, <3>2, <3>5
  <2>3. QED
    BY <2>1, <2>2
<1>18. Sound'
  <2>1. W[c] \subseteq W[max_hops]
    BY <1>6, WithinGrows DEF W
  <2>2. \A e \in found : entity_labels[e] \cap W[max_hops] # {}
    BY <1>6, <1>12, <2>1
  <2>3. QED
    BY <1>1, <1>3, <1>12, <1>15, <2>2, ReachableFacts, CallArguments DEF Sound, Reachable, ReachableIn, W
<1>19. SeenIsCollected'
  <2> SUFFICES ASSUME NEW l \in visited_labels'
               PROVE  (\E i \in 1..(k + m) : queue'[i][1] = l) \/ Carrying(l)' \subseteq result_entities'
    BY <1>8 DEF SeenIsCollected, Queued
  <2>1. Carrying(l)' = Carrying(l)
    BY <1>1 DEF Carrying
  <2>2. CASE l \in new
    <3>1. PICK i \in 1..m : order[i] = l
      BY <1>8, <2>2
    <3>2. k + i \in 1..(k + m) /\ queue'[k + i] = <<l, c + 1>>
      BY <1>4, <1>8, <3>1
    <3>3. QED
      BY <3>2
  <2>3. CASE l \notin new
    <3>1. l \in visited_labels
      BY <1>1, <2>3
    <3>2. CASE l = l0
      BY <1>1, <2>1, <3>2 DEF found
    <3>3. CASE \E i \in DOMAIN queue : queue[i][1] = l /\ l # l0
      <4>1. PICK i \in 1..(k + 1) : queue[i][1] = l /\ l # l0
        BY <1>4, <3>3
      <4>2. i # 1
        BY <4>1 DEF l0
      <4>3. i - 1 \in 1..k /\ (i - 1) + 1 = i /\ i - 1 \in 1..(k + m)
        BY <1>4, <4>2
      <4>4. queue'[i - 1] = queue[i]
        BY <1>8, <4>3
      <4>5. QED
        BY <4>1, <4>3, <4>4
    <3>4. CASE Carrying(l) \subseteq result_entities
      BY <1>1, <2>1, <3>4
    <3>5. QED
      BY <1>3, <3>1, <3>2, <3>3, <3>4 DEF SeenIsCollected, Queued
  <2>4. QED
    BY <2>2, <2>3
<1>20. c < max_hops => Followed'
  <2> SUFFICES ASSUME c < max_hops, NEW e \in result_entities'
               PROVE  entity_labels[e] \subseteq visited_labels'
    BY <1>1 DEF Followed
  <2>1. Followed
    <3>1. ~AtLastHop
      BY <1>4, <1>6 DEF AtLastHop, c
    <3>2. QED
      BY <1>3, <3>1
  <2>2. CASE e \in result_entities
    BY <1>1, <2>1, <2>2 DEF Followed
  <2>3. CASE e \in found
    BY <1>1, <2>3 DEF new, NewLabels
  <2>4. QED
    BY <1>1, <2>2, <2>3
<1>21. W[c] \subseteq visited_labels
       /\ \A i \in 1..(k + 1) : queue[i][2] > c => queue[i][1] \notin W[c]
  BY <1>1, <1>3, <1>4 DEF LevelIsSeen, W, c
<1>22. ASSUME NEW i \in 1..(k + m), queue'[i][2] = c + 1 PROVE queue'[i][1] \notin W[c]
  <2>1. CASE i \in 1..k
    <3>1. queue'[i] = queue[i + 1] /\ i + 1 \in 1..(k + 1)
      BY <1>10, <2>1
    <3>2. queue[i + 1][2] > c
      BY <1>6, <1>22, <3>1
    <3>3. QED
      BY <1>21, <3>1, <3>2
  <2>2. CASE i \notin 1..k
    <3>1. queue'[i][1] \in new
      BY <1>10, <2>2
    <3>2. QED
      BY <1>7, <1>21, <3>1
  <2>3. QED
    BY <2>1, <2>2
<1>23. LevelIsSeen'
  <2> SUFFICES ASSUME queue' # <<>>
               PROVE  /\ W[queue'[1][2]] \subseteq visited_labels'
                      /\ \A i \in 1..(k + m) : queue'[i][2] > queue'[1][2] =>
                           queue'[i][1] \notin W[queue'[1][2]]
    BY <1>8, <1>15 DEF LevelIsSeen
  <2>1. 1 \in 1..(k + m)
    <3>1. queue' \in Seq(visited_labels' \X (0..max_hops))
      BY <1>13 DEF TypeOK
    <3>2. Len(queue') # 0
      BY <3>1
    <3>3. QED
      BY <1>4, <1>8, <3>2
  <2>2. CASE queue'[1][2] = c
    <3>1. \A i \in 1..(k + m) : queue'[i][2] > c => queue'[i][2] = c + 1
      BY <1>6, <1>11
    <3>2. QED
      BY <1>1, <1>21, <1>22, <2>2, <3>1
  <2>3. CASE queue'[1][2] = c + 1
    <3>1. c < max_hops
      BY <1>6, <1>11, <2>1, <2>3
    <3>2. \A i \in 1..(k + m) : queue'[i][2] = c + 1
      <4> SUFFICES ASSUME NEW i \in 1..(k + m) PROVE queue'[i][2] = c + 1
        OBVIOUS
      <4>1. CASE i = 1
        BY <2>3, <4>1
      <4>2. CASE i # 1
        <5>1. 1 < i /\ 1 \in DOMAIN queue' /\ i \in DOMAIN queue'
          BY <1>8, <2>1, <4>2
        <5>2. queue'[1][2] <= queue'[i][2]
          BY <1>14, <5>1 DEF QueueInOrder
        <5>3. QED
          BY <1>6, <1>11, <2>3, <5>2
      <4>3. QED
        BY <4>1, <4>2
    <3>3. ASSUME NEW x \in W[c] PROVE Carrying(x) \subseteq result_entities'
      <4>1. x \in visited_labels'
        BY <1>1, <1>21
      <4>2. ~ \E i \in 1..(k + m) : queue'[i][1] = x
        BY <1>22, <3>2
      <4>3. Carrying(x)' = Carrying(x)
        BY <1>1 DEF Carrying
      <4>4. QED
        BY <1>8, <1>19, <4>1, <4>2, <4>3 DEF SeenIsCollected, Queued
    <3>4. Around(entity_labels, W[c]) \subseteq visited_labels'
      <4> SUFFICES ASSUME NEW y \in Around(entity_labels, W[c]) PROVE y \in visited_labels'
        OBVIOUS
      <4>1. PICK e \in Entity : entity_labels[e] \cap W[c] # {} /\ y \in entity_labels[e]
        BY DEF Around
      <4>2. PICK x \in W[c] : x \in entity_labels[e]
        BY <4>1
      <4>3. e \in result_entities'
        BY <3>3, <4>2 DEF Carrying
      <4>4. QED
        BY <1>1, <1>20, <3>1, <4>1, <4>3 DEF Followed
    <3>5. W[c + 1] \subseteq visited_labels'
      BY <1>1, <1>16, <1>21, <3>1, <3>4
    <3>6. ASSUME NEW i \in 1..(k + m) PROVE ~(queue'[i][2] > queue'[1][2])
      BY <1>6, <2>3, <3>2
    <3>7. QED
      BY <2>3, <3>5, <3>6
  <2>4. QED
    BY <1>11, <2>1, <2>2, <2>3
<1>24. c = max_hops => AtLastHop'
  <2> SUFFICES ASSUME c = max_hops PROVE AtLastHop'
    OBVIOUS
  <2>1. W[max_hops] \subseteq visited_labels'
    BY <1>1, <1>21
  <2>2. \A i \in 1..(k + m) : queue'[i][2] = max_hops
    BY <1>6, <1>11
  <2>3. QED
    BY <1>8, <1>15, <2>1, <2>2 DEF AtLastHop
<1>25. Followed' \/ AtLastHop'
  BY <1>6, <1>20, <1>24
<1>26. Complete'
  BY <1>1 DEF Complete
<1>27. QED
  BY <1>1, <1>3, <1>13, <1>14, <1>17, <1>18, <1>19, <1>23, <1>25, <1>26 DEF SearchInv

(* When nothing waits any more and the labels of collected entities were   *)
(* seen, every label in reach was seen: by induction over the hops.        *)
LEMMA AllSeen ==
  ASSUME SeenIsCollected, Followed, Queued = {}, start_label \in visited_labels
  PROVE  LabelsWithin(entity_labels)[max_hops] \subseteq visited_labels
<1> DEFINE W == LabelsWithin(entity_labels)
           A == {n \in 0..max_hops : W[n] \subseteq visited_labels}
<1>1. /\ W[0] = {start_label}
      /\ \A n \in 0..(max_hops - 1) : W[n + 1] = W[n] \cup Around(entity_labels, W[n])
  BY Zenon, WithinFacts
<1> HIDE DEF W
<1>2. 0 \in A
  BY <1>1, CallArguments
<1>3. ASSUME NEW n \in 0..(max_hops - 1), n \in A PROVE n + 1 \in A
  <2>1. Around(entity_labels, W[n]) \subseteq visited_labels
    <3> SUFFICES ASSUME NEW y \in Around(entity_labels, W[n]) PROVE y \in visited_labels
      OBVIOUS
    <3>1. PICK e \in Entity : entity_labels[e] \cap W[n] # {} /\ y \in entity_labels[e]
      BY DEF Around
    <3>2. PICK x \in W[n] : x \in entity_labels[e]
      BY <3>1
    <3>3. Carrying(x) \subseteq result_entities
      BY <1>3 DEF SeenIsCollected
    <3>4. e \in result_entities
      BY <3>2, <3>3 DEF Carrying
    <3>5. QED
      BY <3>1, <3>4 DEF Followed
  <2>2. n + 1 \in 0..max_hops
    BY CallArguments
  <2>3. QED
    BY <1>1, <1>3, <2>1, <2>2
<1>4. max_hops \in A
  <2> HIDE DEF A
  <2>1. \A n \in 0..max_hops : n \in A
    BY <1>2, <1>3, CallArguments, UpTo
  <2>2. QED
    BY <2>1, CallArguments
<1>5. QED
  BY <1>4 DEF W

LEMMA FinishKeeps ==
  ASSUME SearchInv, Finish
  PROVE  SearchInv'
<1>1. /\ TypeOK /\ QueueInOrder /\ QueueIsReached /\ Sound
      /\ start_label \in visited_labels /\ SeenIsCollected
      /\ Followed \/ AtLastHop
  BY DEF SearchInv, Finish
<1>2. queue = <<>>
  <2> SUFFICES ASSUME queue # <<>> PROVE FALSE
    OBVIOUS
  <2>1. queue \in Seq(visited_labels \X (0..max_hops))
    BY <1>1 DEF TypeOK
  <2>2. Head(queue) \in visited_labels \X (0..max_hops)
    BY <2>1
  <2>3. Head(queue)[2] \in 0..max_hops
    BY <2>2
  <2>4. Head(queue)[2] > max_hops
    BY DEF Finish
  <2>5. QED
    BY <2>3, <2>4, CallArguments
<1>3. /\ queue' = <<>> /\ status' = "done"
      /\ UNCHANGED <<entity_labels, visited_labels, result_entities>>
  BY <1>2 DEF Finish
<1>4. Queued = {}
  BY <1>2 DEF Queued
<1>5. LabelsWithin(entity_labels)[max_hops] \subseteq visited_labels
  BY <1>1, <1>4, AllSeen DEF AtLastHop
<1>6. Reachable \subseteq result_entities
  <2> SUFFICES ASSUME NEW e \in Reachable PROVE e \in result_entities
    OBVIOUS
  <2>1. e \in Entity /\ entity_labels[e] \cap LabelsWithin(entity_labels)[max_hops] # {}
    BY ReachableFacts
  <2>2. PICK x \in LabelsWithin(entity_labels)[max_hops] : x \in entity_labels[e]
    BY <2>1
  <2>3. Carrying(x) \subseteq result_entities
    BY <1>1, <1>4, <1>5 DEF SeenIsCollected
  <2>4. QED
    BY <2>1, <2>2, <2>3 DEF Carrying
<1>7. Reachable' = Reachable
  BY <1>3 DEF Reachable, ReachableIn
<1>8. Sound' /\ Complete'
  BY <1>1, <1>3, <1>6, <1>7 DEF Sound, Complete
<1>9. TypeOK' /\ QueueInOrder' /\ QueueIsReached'
  BY <1>1, <1>2, <1>3 DEF TypeOK, QueueInOrder, QueueIsReached
<1>10. QED
  BY <1>3, <1>8, <1>9 DEF SearchInv

LEMMA TimeOutKeeps ==
  ASSUME SearchInv, TimeOut
  PROVE  SearchInv'
<1>1. /\ TypeOK /\ QueueInOrder /\ QueueIsReached /\ Sound
      /\ queue # <<>> /\ queue' = Tail(queue) /\ status' = "timed_out"
      /\ UNCHANGED <<entity_labels, visited_labels, result_entities>>
  BY DEF SearchInv, TimeOut
<1>2. queue \in Seq(visited_labels \X (0..max_hops))
  BY <1>1 DEF TypeOK
<1>3. queue' \in Seq(visited_labels' \X (0..max_hops))
  BY <1>1, <1>2
<1>4. \A i \in DOMAIN queue' : /\ i + 1 \in DOMAIN queue /\ i \in Nat
                               /\ queue'[i] = queue[i + 1]
  <2>1. /\ Len(queue) \in Nat /\ DOMAIN queue = 1..Len(queue)
        /\ DOMAIN queue' = 1..(Len(queue) - 1)
        /\ \A i \in 1..(Len(queue) - 1) : queue'[i] = queue[i + 1]
    BY <1>1, <1>2
  <2>2. QED
    BY <2>1
<1>5. TypeOK'
  BY <1>1, <1>3 DEF TypeOK
<1>6. QueueIsReached'
  BY <1>1, <1>4 DEF QueueIsReached
<1>7. QueueInOrder'
  <2> SUFFICES ASSUME NEW i \in DOMAIN queue', NEW j \in DOMAIN queue', i < j
               PROVE  /\ queue'[i][2] <= queue'[j][2]
                      /\ queue'[i][1] # queue'[j][1]
                      /\ queue'[j][2] <= queue'[i][2] + 1
    BY DEF QueueInOrder
  <2>1. i + 1 < j + 1
    BY <1>4
  <2>2. QED
    BY <1>1, <1>4, <2>1 DEF QueueInOrder
<1>8. Reachable' = Reachable
  BY <1>1 DEF Reachable, ReachableIn
<1>9. Sound' /\ Complete'
  BY <1>1, <1>8 DEF Sound, Complete
<1>10. QED
  BY <1>1, <1>5, <1>6, <1>7, <1>9 DEF SearchInv

LEMMA StutterKeeps ==
  ASSUME SearchInv, UNCHANGED vars
  PROVE  SearchInv'
<1>1. UNCHANGED <<entity_labels, visited_labels, result_entities, queue, status>>
  BY DEF vars
<1>2. UNCHANGED <<TypeOK, QueueInOrder, QueueIsReached, Sound, Complete>>
  BY <1>1 DEF TypeOK, QueueInOrder, QueueIsReached, Sound, Complete, Reachable, ReachableIn
<1>3. UNCHANGED <<SeenIsCollected, LevelIsSeen, Followed, AtLastHop>>
  BY <1>1 DEF SeenIsCollected, Queued, Carrying, LevelIsSeen, Followed, AtLastHop
<1>4. QED
  BY <1>1, <1>2, <1>3 DEF SearchInv

LEMMA SearchAlways == Spec => []SearchInv
<1>1. SearchInv /\ [Next]_vars => SearchInv'
  BY VisitKeeps, FinishKeeps, TimeOutKeeps, StutterKeeps DEF Next
<1>2. QED
  BY SearchInit, <1>1, PTL DEF Spec

(* The state of a search is of its types: what waits was seen, and no hop  *)
(* in the queue is beyond the last.                                        *)
THEOREM SearchTypeCorrect == Spec => []TypeOK
<1>1. SearchInv => TypeOK
  BY DEF SearchInv
<1>2. QED
  BY SearchAlways, <1>1, PTL

(* spreading_activation returns only entities in reach, whenever it stops. *)
THEOREM SearchIsSound == Spec => []Sound
<1>1. SearchInv => Sound
  BY DEF SearchInv
<1>2. QED
  BY SearchAlways, <1>1, PTL

(* And all that are, unless its deadline cut it short: to mark labels and  *)
(* entities as seen never hides a shorter way.                             *)
THEOREM SearchIsComplete == Spec => []Complete
<1>1. SearchInv => Complete
  BY DEF SearchInv
<1>2. QED
  BY SearchAlways, <1>1, PTL

(* The queue is in order of hops, spans two, and repeats no label.         *)
THEOREM SearchIsInOrder == Spec => []QueueInOrder
<1>1. SearchInv => QueueInOrder
  BY DEF SearchInv
<1>2. QED
  BY SearchAlways, <1>1, PTL

=============================================================================
