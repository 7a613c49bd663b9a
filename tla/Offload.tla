------------------------------ MODULE Offload -------------------------------
(***************************************************************************)
(* SoftwareNvmeAdapter of crates/intelligence/src/offload.rs: agent states *)
(* kept in files of one directory, named after slot numbers that every     *)
(* adapter hands out on its own, from 1.  An adapter is one process's;     *)
(* main gives every process the same directory.  A process may be killed   *)
(* at any point and run again; its files stay.                             *)
(*                                                                         *)
(* fs::write opens and truncates the file in one step and fills it in      *)
(* another, and either may fail.  A file that is removed in between is     *)
(* filled all the same, and no longer has a name.  Abstracted: the JSON    *)
(* of a state (it reads back as the state it was written from), and I/O    *)
(* errors of a read.                                                       *)
(***************************************************************************)
EXTENDS Integers, FiniteSets

CONSTANTS Adapter, Caller,
          AdapterOf,   \* the adapter a calling thread uses
          AgentState,
          Missing,     \* there is no such file
          Empty,       \* a file that was truncated and not yet filled
          Garbage,     \* a file that does not parse
          NoState,     \* nothing was offloaded, or restored
          Failed,      \* restore returned an OffloadError
          MaxSlot      \* bound: slots an adapter hands out in one life

ASSUME OffloadConstants ==
  /\ AdapterOf \in [Caller -> Adapter]
  /\ MaxSlot \in Nat \ {0}
  /\ {Missing, Empty, Garbage, NoState, Failed} \cap AgentState = {}
  /\ Cardinality({Missing, Empty, Garbage}) = 3
  /\ NoState # Failed

VARIABLES files,      \* the directory: the content of each slot's file
          next_slot,  \* per adapter
          pc,         \* per caller, where it stands
          slot,       \* per caller, the slot_id of its handle
          state,      \* per caller, what it offloads
          named,      \* per caller, the file it opened still has its name
          restored    \* per caller, what its last restore returned

callVars == <<pc, slot, state, named, restored>>
vars == <<files, next_slot, callVars>>

Slot == 0..MaxSlot

Init == /\ files = [s \in Slot |-> Missing]
        /\ next_slot = [a \in Adapter |-> 1]
        /\ pc = [c \in Caller |-> "idle"]
        /\ slot = [c \in Caller |-> 0]
        /\ state = [c \in Caller |-> NoState]
        /\ named = [c \in Caller |-> FALSE]
        /\ restored = [c \in Caller |-> NoState]

-----------------------------------------------------------------------------
(* offload                                                                 *)

\* Mutant: the number is read and the increment forgotten
TakeSlotAgain(c) ==
  LET n == next_slot[AdapterOf[c]] IN
  /\ pc[c] = "idle" /\ n <= MaxSlot
  /\ slot' = [slot EXCEPT ![c] = n]
  /\ state' \in {[state EXCEPT ![c] = s] : s \in AgentState}
  /\ pc' = [pc EXCEPT ![c] = "open"]
  /\ UNCHANGED <<files, next_slot, named, restored>>

\* next_slot.fetch_add(1)
TakeSlot(c) ==
  LET n == next_slot[AdapterOf[c]] IN
  /\ pc[c] = "idle" /\ n <= MaxSlot
  /\ slot' = [slot EXCEPT ![c] = n]
  /\ next_slot' = [next_slot EXCEPT ![AdapterOf[c]] = n + 1]
  /\ state' \in {[state EXCEPT ![c] = s] : s \in AgentState}
  /\ pc' = [pc EXCEPT ![c] = "open"]
  /\ UNCHANGED <<files, named, restored>>

OpenFile(c) == /\ pc[c] = "open"
               /\ files' = [files EXCEPT ![slot[c]] = Empty]
               /\ named' = [named EXCEPT ![c] = TRUE]
               /\ pc' = [pc EXCEPT ![c] = "write"]
               /\ UNCHANGED <<next_slot, slot, state, restored>>

\* What filling a file makes of it; two writers may leave the tail of the
\* longer text behind the shorter
Filled(content, s) == IF content = Empty THEN {s} ELSE {s, Garbage}

WriteFile(c) ==
  /\ pc[c] = "write"
  /\ IF named[c] THEN files' \in {[files EXCEPT ![slot[c]] = f] :
                                    f \in Filled(files[slot[c]], state[c])}
                 ELSE UNCHANGED files
  /\ pc' = [pc EXCEPT ![c] = "held"]
  /\ UNCHANGED <<next_slot, slot, state, named, restored>>

\* The call is over, and the caller has no handle (any more)
Forget(C) == /\ pc' = [c \in Caller |-> IF c \in C THEN "idle" ELSE pc[c]]
             /\ slot' = [c \in Caller |-> IF c \in C THEN 0 ELSE slot[c]]
             /\ state' = [c \in Caller |-> IF c \in C THEN NoState ELSE state[c]]
             /\ restored' = [c \in Caller |-> IF c \in C THEN NoState ELSE restored[c]]

\* OffloadError::Io: the file was not opened, or filled only in part
OffloadFails(c) ==
  /\ \/ pc[c] = "open" /\ UNCHANGED files
     \/ /\ pc[c] = "write"
        /\ files' \in {files, [files EXCEPT ![slot[c]] = IF named[c] THEN Garbage ELSE @]}
  /\ Forget({c})
  /\ named' = [named EXCEPT ![c] = FALSE]
  /\ UNCHANGED next_slot

-----------------------------------------------------------------------------
\* restore; the caller keeps its handle
Restore(c) ==
  /\ pc[c] = "held"
  /\ restored' = [restored EXCEPT ![c] =
                    IF files[slot[c]] \in AgentState THEN files[slot[c]] ELSE Failed]
  /\ UNCHANGED <<files, next_slot, pc, slot, state, named>>

\* Mutant: the slot before is removed
DropOffloadOther(c) ==
  /\ pc[c] = "held"
  /\ files' = [files EXCEPT ![slot[c] - 1] = Missing]
  /\ named' = [d \in Caller |-> named[d] /\ d # c /\ slot[d] # slot[c] - 1]
  /\ Forget({c})
  /\ UNCHANGED next_slot

\* drop_offload; it fails, and removes nothing, when there is no file
DropOffload(c) ==
  /\ pc[c] = "held"
  /\ files' = [files EXCEPT ![slot[c]] = Missing]
  /\ named' = [d \in Caller |-> named[d] /\ slot[d] # slot[c]]
  /\ Forget({c})
  /\ UNCHANGED next_slot

\* Mutant: the new adapter counts on from 0
RestartAtZero(a) ==
  LET mine == {c \in Caller : AdapterOf[c] = a} IN
  /\ next_slot' = [next_slot EXCEPT ![a] = 0]
  /\ Forget(mine)
  /\ named' = [c \in Caller |-> named[c] /\ c \notin mine]
  /\ UNCHANGED files

\* The process is killed, handles and all, and main makes a new adapter
Restart(a) ==
  LET mine == {c \in Caller : AdapterOf[c] = a} IN
  /\ next_slot' = [next_slot EXCEPT ![a] = 1]
  /\ Forget(mine)
  /\ named' = [c \in Caller |-> named[c] /\ c \notin mine]
  /\ UNCHANGED files

Next == \/ \E c \in Caller : \/ TakeSlot(c)
                             \/ OpenFile(c)
                             \/ WriteFile(c)
                             \/ OffloadFails(c)
                             \/ Restore(c)
                             \/ DropOffload(c)
        \/ \E a \in Adapter : Restart(a)

Spec == Init /\ [][Next]_vars

-----------------------------------------------------------------------------
TypeOK == /\ files \in [Slot -> AgentState \cup {Missing, Empty, Garbage}]
          /\ next_slot \in [Adapter -> 1..(MaxSlot + 1)]
          /\ pc \in [Caller -> {"idle", "open", "write", "held"}]
          /\ slot \in [Caller -> Slot]
          /\ state \in [Caller -> AgentState \cup {NoState}]
          /\ named \in [Caller -> BOOLEAN]
          /\ restored \in [Caller -> AgentState \cup {NoState, Failed}]

(* "Read back a previously offloaded state" (offload.rs:37): whoever       *)
(* offloaded a state and restores it gets that state, while others offload *)
(* and drop theirs, and although slot numbers and left-over files are      *)
(* taken up again after a restart.  It needs that no other adapter uses    *)
(* the directory, of which the code makes no provision.                    *)
RoundTrip == \A c \in Caller : restored[c] \in {NoState, state[c]}

(* A handle that is given out leads to its state until it is dropped: no   *)
(* writer still under way, no failed write and no drop of another handle   *)
(* touches the file.                                                       *)
HeldIsStored == \A c \in Caller : pc[c] = "held" => files[slot[c]] = state[c]

=============================================================================
