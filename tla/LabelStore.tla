----------------------------- MODULE LabelStore -----------------------------
(***************************************************************************)
(* LabelStore of crates/warm-tier/src/lib.rs as a value: an arena of nodes *)
(* that doubles as a linked list (each node names the next by its position *)
(* in the arena) and an index from labels to positions.  Positions start   *)
(* at 1; Nil (0) stands for usize::MAX.                                    *)
(***************************************************************************)
EXTENDS Integers, Sequences, FiniteSets

CONSTANTS Entity, Label

Nil == 0

LabelNode == [label_id : Label, next : Nat, entity_ids : Seq(Entity)]

LabelStores == [arena : Seq(LabelNode), index : [Label -> Nat], head : Nat]

EmptyLabelStore ==
  [arena |-> <<>>, index |-> [l \in Label |-> Nil], head |-> Nil]

\* Mutant: the list's head stays where it was
InsertLabelHeadless(s, l, e) ==
  IF s.index[l] # Nil
    THEN [s EXCEPT !.arena[s.index[l]].entity_ids = Append(@, e)]
    ELSE LET node == [label_id |-> l, next |-> s.head, entity_ids |-> <<e>>]
         IN  [arena |-> Append(s.arena, node),
              index |-> [s.index EXCEPT ![l] = Len(s.arena) + 1],
              head  |-> IF s.head = Nil THEN 1 ELSE s.head]

\* insert: append to the label's node, or put a new node at the list's head
InsertLabel(s, l, e) ==
  IF s.index[l] # Nil
    THEN [s EXCEPT !.arena[s.index[l]].entity_ids = Append(@, e)]
    ELSE LET node == [label_id |-> l, next |-> s.head, entity_ids |-> <<e>>]
         IN  [arena |-> Append(s.arena, node),
              index |-> [s.index EXCEPT ![l] = Len(s.arena) + 1],
              head  |-> Len(s.arena) + 1]

\* entities_for_label; the code's None is the empty sequence
EntitiesForLabel(s, l) ==
  IF s.index[l] = Nil THEN <<>> ELSE s.arena[s.index[l]].entity_ids

\* traverse_all: follow next from the head; a list that loops has no value
TraverseAll(s) ==
  LET from[n \in 0..Len(s.arena)] ==
        IF n = Nil THEN <<>>
        ELSE <<<<s.arena[n].label_id, Len(s.arena[n].entity_ids)>>>>
               \o from[s.arena[n].next]
  IN  from[s.head]

\* label_count: distinct labels
LabelCount(s) == Cardinality({l \in Label : s.index[l] # Nil})

-----------------------------------------------------------------------------
(* The arena, the list and the index describe one another: the list runs   *)
(* from the youngest node to the oldest through all of the arena, and the  *)
(* index finds each label's one node, which has an entity.                 *)
WellLinked(s) ==
  /\ s.head = Len(s.arena)
  /\ \A i \in 1..Len(s.arena) : /\ s.arena[i].next = i - 1
                                /\ s.index[s.arena[i].label_id] = i
                                /\ s.arena[i].entity_ids # <<>>
  /\ \A l \in Label : s.index[l] # Nil =>
       /\ s.index[l] \in 1..Len(s.arena)
       /\ s.arena[s.index[l]].label_id = l

=============================================================================
