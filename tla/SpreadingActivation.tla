------------------------ MODULE SpreadingActivation -------------------------
(***************************************************************************)
(* spreading_activation of crates/warm-tier/src/lib.rs: a breadth-first    *)
(* search over labels and the entities that carry them, under one read     *)
(* lock, so that the graph stands still while it runs; one step per label  *)
(* taken from the queue.  The clock is read before each, and may have run  *)
(* out at any of them.                                                     *)
(***************************************************************************)
EXTENDS Integers, Sequences, FiniteSets

CONSTANTS Entity, Label,
          start_label, max_hops   \* the call's arguments

ASSUME CallArguments ==
  /\ IsFiniteSet(Label)
  /\ start_label \in Label /\ max_hops \in Nat

VARIABLES entity_labels,    \* per entity, its labels; label_entities is its
                            \* inverse (CausalGraph!IndexesAgree)
          visited_labels, result_entities,
          queue,            \* pairs of a label and its hop
          status            \* "running", "done" or "timed_out"

vars == <<entity_labels, visited_labels, result_entities, queue, status>>

Init == /\ entity_labels \in [Entity -> SUBSET Label]
        /\ visited_labels = {start_label}
        /\ result_entities = {}
        /\ queue = <<<<start_label, 0>>>>
        /\ status = "running"

Carrying(l) == {e \in Entity : l \in entity_labels[e]}

\* The order in which a step meets labels is that of its vectors: any order
Orders(S) == {s \in [1..Cardinality(S) -> S] : \A x \in S : \E i \in DOMAIN s : s[i] = x}

\* Labels first met on newly discovered entities
NewLabels(found) == (UNION {entity_labels[e] : e \in found}) \ visited_labels

\* Mutant: one hop too many
GoesOnTooFar(hop) == hop <= max_hops
\* Mutant: one hop too few
GoesOnTooShort(hop) == hop + 1 < max_hops
\* Entities of the last hop are collected and not followed
GoesOn(hop) == hop < max_hops

\* Mutant: the hop is not counted
SameHop(hop) == hop
NextHop(hop) == hop + 1

\* Mutant: a stack
Stacked(rest, labels) == labels \o rest
\* push_back
Enqueued(rest, labels) == rest \o labels

Visit ==
  /\ status = "running"
  /\ queue # <<>>
  /\ LET label == Head(queue)[1]
         hop   == Head(queue)[2]
         found == Carrying(label) \ result_entities
         new   == IF GoesOn(hop) THEN NewLabels(found) ELSE {}
     IN  /\ hop <= max_hops
         /\ result_entities' = result_entities \cup found
         /\ visited_labels' = visited_labels \cup new
         /\ \E order \in Orders(new) :
              queue' = Enqueued(Tail(queue),
                         [i \in DOMAIN order |-> <<order[i], NextHop(hop)>>])
  /\ UNCHANGED <<entity_labels, status>>

\* The queue is empty, or holds a hop beyond the last
Finish == /\ status = "running"
          /\ IF queue = <<>> THEN TRUE ELSE Head(queue)[2] > max_hops
          /\ queue' = IF queue = <<>> THEN queue ELSE Tail(queue)
          /\ status' = "done"
          /\ UNCHANGED <<entity_labels, visited_labels, result_entities>>

\* Instant::now() >= deadline
TimeOut == /\ status = "running"
           /\ queue # <<>>
           /\ queue' = Tail(queue)
           /\ status' = "timed_out"
           /\ UNCHANGED <<entity_labels, visited_labels, result_entities>>

Next == Visit \/ Finish \/ TimeOut

Spec == Init /\ [][Next]_vars

-----------------------------------------------------------------------------
(* The reference: labels within n steps of the start, where one step leads *)
(* from a label over an entity that carries it to that entity's labels.    *)
Around(graph, labels) ==
  UNION {graph[e] : e \in {f \in Entity : graph[f] \cap labels # {}}}

LabelsWithin(graph) ==
  LET within[n \in 0..max_hops] ==
        IF n = 0 THEN {start_label}
                 ELSE within[n - 1] \cup Around(graph, within[n - 1])
  IN  within

\* Entities within n hops, each from a label to an entity that carries it
ReachableIn(n) ==
  IF n = 0 THEN {}
           ELSE {e \in Entity :
                   entity_labels[e] \cap LabelsWithin(entity_labels)[n - 1] # {}}

(* What the code has in reach is not what its documentation says, "all     *)
(* entity IDs reachable within `max_hops` label-to-entity hops"            *)
(* (crates/warm-tier/src/lib.rs:202).  It counts the hops of labels, from  *)
(* 0 for the start, and collects the entities of those at max_hops too,    *)
(* which are max_hops + 1 label-to-entity hops away: max_hops = 0 returns  *)
(* the entities that carry the start label.                                *)
Reachable == ReachableIn(max_hops + 1)

TypeOK == /\ entity_labels \in [Entity -> SUBSET Label]
          /\ visited_labels \in SUBSET Label
          /\ result_entities \in SUBSET Entity
          /\ queue \in Seq(visited_labels \X (0..max_hops))
          /\ status \in {"running", "done", "timed_out"}

(* Nothing is returned that is out of reach, even by a search cut short by *)
(* the clock.  What is in reach is one hop more than the documentation has *)
(* it: see Reachable.                                                      *)
Sound == result_entities \subseteq Reachable

(* A search that was not cut short returns all there is in reach: marking  *)
(* labels and entities as seen never hides a shorter way.                  *)
Complete == status = "done" => result_entities = Reachable

(* Breadth first: the queue is in order of hops and spans at most two, and *)
(* no label waits in it twice.                                             *)
QueueInOrder ==
  \A i, j \in DOMAIN queue : i < j => /\ queue[i][2] <= queue[j][2]
                                      /\ queue[i][1] # queue[j][1]
                                      /\ queue[j][2] <= queue[i][2] + 1

=============================================================================
