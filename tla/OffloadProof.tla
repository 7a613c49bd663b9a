---------------------------- MODULE OffloadProof ----------------------------
(***************************************************************************)
(* Proofs about Offload: if all callers use one adapter, everyone restores *)
(* the state he offloaded, for any number of callers, slots and states.    *)
(***************************************************************************)
EXTENDS Offload, TLAPS

(* One process has the directory for itself.                               *)
OneAdapter == \A c, d \in Caller : AdapterOf[c] = AdapterOf[d]

Busy(c) == pc[c] # "idle"

(* What a caller's position in offload says of its slot and its file.      *)
Placed(c) ==
  /\ Busy(c) => /\ slot[c] \in 1..MaxSlot
                /\ slot[c] < next_slot[AdapterOf[c]]
                /\ state[c] \in AgentState
  /\ pc[c] = "write" => named[c] /\ files[slot[c]] = Empty
  /\ pc[c] = "held" => files[slot[c]] = state[c]
  /\ restored[c] # NoState => pc[c] = "held" /\ restored[c] = state[c]

(* No slot is in use twice.                                                *)
Separate == \A c, d \in Caller : Busy(c) /\ Busy(d) /\ c # d => slot[c] # slot[d]

Inv == TypeOK /\ (\A c \in Caller : Placed(c)) /\ Separate

(* It holds of a directory without files and adapters that were just made. *)
LEMMA InitInv == Init => Inv
<1> SUFFICES ASSUME Init
             PROVE  Inv
  OBVIOUS
<1> USE DEF Init
<1>1. TypeOK
  BY OffloadConstants DEF TypeOK, Slot
<1>2. \A c \in Caller : Placed(c)
  BY DEF Placed, Busy
<1>3. Separate
  BY DEF Separate, Busy
<1>4. QED
  BY <1>1, <1>2, <1>3 DEF Inv

(* The slot an adapter hands out next is in use by nobody.                 *)
LEMMA TakeSlotInv ==
  ASSUME OneAdapter, Inv, NEW c \in Caller, TakeSlot(c)
  PROVE  Inv'
<1> DEFINE a == AdapterOf[c]
           n == next_slot[a]
<1> USE DEF Inv
<1>1. a \in Adapter /\ n \in 1..MaxSlot
  <2>1. a \in Adapter
    BY OffloadConstants
  <2>2. n \in 1..(MaxSlot + 1)
    BY <2>1 DEF TypeOK
  <2>3. n <= MaxSlot
    BY DEF TakeSlot
  <2>4. QED
    BY <2>1, <2>2, <2>3, OffloadConstants
<1>2. PICK s \in AgentState : state' = [state EXCEPT ![c] = s]
  BY DEF TakeSlot
<1>3. TypeOK'
  <2>1. next_slot' \in [Adapter -> 1..(MaxSlot + 1)]
    BY <1>1, OffloadConstants DEF TakeSlot, TypeOK
  <2>2. slot' \in [Caller -> Slot]
    BY <1>1, OffloadConstants DEF TakeSlot, TypeOK, Slot
  <2>3. QED
    BY <1>2, <2>1, <2>2 DEF TakeSlot, TypeOK
<1>4. ASSUME NEW d \in Caller
      PROVE  Placed(d)'
  <2>1. AdapterOf[d] = a /\ next_slot'[a] = n + 1
    BY <1>1 DEF OneAdapter, TakeSlot, TypeOK
  <2>2. CASE d = c
    BY <1>1, <1>2, <2>1, <2>2 DEF Placed, Busy, TakeSlot, TypeOK
  <2>3. CASE d # c
    BY <1>1, <1>2, <2>1, <2>3 DEF Placed, Busy, TakeSlot, TypeOK
  <2>4. QED
    BY <2>2, <2>3
<1>5. Separate'
  <2>1. \A d \in Caller : Busy(d) => slot[d] < n
    BY DEF Placed, OneAdapter
  <2>2. slot' = [slot EXCEPT ![c] = n] /\ pc' = [pc EXCEPT ![c] = "open"]
    BY DEF TakeSlot
  <2>3. QED
    BY <1>1, <2>1, <2>2 DEF Separate, Busy, TypeOK, Slot
<1>6. QED
  BY <1>3, <1>4, <1>5

(* Steps of a caller inside offload change its own file only.              *)
LEMMA OpenFileInv ==
  ASSUME Inv, NEW c \in Caller, OpenFile(c)
  PROVE  Inv'
<1> USE DEF Inv
<1>1. slot[c] \in Slot
  BY DEF TypeOK
<1>2. TypeOK'
  BY DEF TypeOK, OpenFile
<1>3. ASSUME NEW d \in Caller
      PROVE  Placed(d)'
  <2>1. CASE d = c
    BY <1>1, <2>1 DEF Placed, Busy, OpenFile, TypeOK
  <2>2. CASE d # c
    BY <1>1, <2>2 DEF Placed, Separate, Busy, OpenFile, TypeOK
  <2>3. QED
    BY <2>1, <2>2
<1>4. Separate'
  BY DEF Separate, Busy, OpenFile, TypeOK
<1>5. QED
  BY <1>2, <1>3, <1>4

LEMMA WriteFileInv ==
  ASSUME Inv, NEW c \in Caller, WriteFile(c)
  PROVE  Inv'
<1> USE DEF Inv
<1>1. slot[c] \in Slot /\ state[c] \in AgentState
  BY DEF TypeOK, Placed, Busy, WriteFile
<1>2. files' = [files EXCEPT ![slot[c]] = state[c]]
  BY DEF WriteFile, Placed, Filled
<1>3. TypeOK'
  BY <1>1, <1>2 DEF TypeOK, WriteFile
<1>4. ASSUME NEW d \in Caller
      PROVE  Placed(d)'
  <2>1. CASE d = c
    BY <1>1, <1>2, <2>1 DEF Placed, Busy, WriteFile, TypeOK
  <2>2. CASE d # c
    BY <1>1, <1>2, <2>2 DEF Placed, Separate, Busy, WriteFile, TypeOK
  <2>3. QED
    BY <2>1, <2>2
<1>5. Separate'
  BY DEF Separate, Busy, WriteFile, TypeOK
<1>6. QED
  BY <1>3, <1>4, <1>5

(* Whoever loses its handle gives up its slot, and what then happens to    *)
(* that slot's file concerns nobody else.                                  *)
LEMMA ForgetInv ==
  ASSUME Inv, NEW c \in Caller, Busy(c), Forget({c}), UNCHANGED next_slot,
         NEW f \in AgentState \cup {Missing, Empty, Garbage},
         files' = [files EXCEPT ![slot[c]] = f],
         named' \in [Caller -> BOOLEAN],
         \A d \in Caller : d # c /\ pc[d] = "write" => named'[d] = named[d]
  PROVE  Inv'
<1> USE DEF Inv
<1>1. slot[c] \in Slot
  BY DEF TypeOK
<1>2. TypeOK'
  BY OffloadConstants DEF TypeOK, Forget, Slot
<1>3. ASSUME NEW d \in Caller
      PROVE  Placed(d)'
  <2>1. CASE d = c
    BY <2>1 DEF Placed, Busy, Forget
  <2>2. CASE d # c
    BY <1>1, <2>2 DEF Placed, Separate, Busy, Forget, TypeOK
  <2>3. QED
    BY <2>1, <2>2
<1>4. Separate'
  BY DEF Separate, Busy, Forget
<1>5. QED
  BY <1>2, <1>3, <1>4

LEMMA OffloadFailsInv ==
  ASSUME Inv, NEW c \in Caller, OffloadFails(c)
  PROVE  Inv'
<1>1. slot[c] \in Slot /\ files \in [Slot -> AgentState \cup {Missing, Empty, Garbage}]
  BY DEF Inv, TypeOK
<1>2. PICK f \in AgentState \cup {Missing, Empty, Garbage} :
        files' = [files EXCEPT ![slot[c]] = f]
  <2>1. files = [files EXCEPT ![slot[c]] = files[slot[c]]]
    BY <1>1
  <2>2. CASE files' = files
    BY <1>1, <2>1, <2>2
  <2>3. CASE files' = [files EXCEPT ![slot[c]] = IF named[c] THEN Garbage ELSE @]
    BY <1>1, <2>3
  <2>4. QED
    BY <2>2, <2>3 DEF OffloadFails
<1>3. Busy(c) /\ Forget({c}) /\ UNCHANGED next_slot
  BY DEF OffloadFails, Busy
<1>4. /\ named' \in [Caller -> BOOLEAN]
      /\ \A d \in Caller : d # c /\ pc[d] = "write" => named'[d] = named[d]
  BY DEF OffloadFails, Inv, TypeOK
<1>5. QED
  BY <1>2, <1>3, <1>4, ForgetInv

LEMMA DropOffloadInv ==
  ASSUME Inv, NEW c \in Caller, DropOffload(c)
  PROVE  Inv'
<1>1. Busy(c) /\ Forget({c}) /\ UNCHANGED next_slot
  BY DEF DropOffload, Busy
<1>2. named' \in [Caller -> BOOLEAN]
  BY DEF DropOffload, Inv, TypeOK
<1>3. \A d \in Caller : d # c /\ pc[d] = "write" => named'[d] = named[d]
  BY DEF DropOffload, Inv, Separate, Busy, TypeOK
<1>4. files' = [files EXCEPT ![slot[c]] = Missing]
  BY DEF DropOffload
<1>5. QED
  BY <1>1, <1>2, <1>3, <1>4, ForgetInv

(* A restore reads the caller's own state.                                 *)
LEMMA RestoreInv ==
  ASSUME Inv, NEW c \in Caller, Restore(c)
  PROVE  Inv'
<1> USE DEF Inv
<1>1. restored' = [restored EXCEPT ![c] = state[c]] /\ state[c] \in AgentState
  BY DEF Restore, Placed, Busy
<1>2. TypeOK'
  BY <1>1 DEF TypeOK, Restore
<1>3. ASSUME NEW d \in Caller
      PROVE  Placed(d)'
  BY <1>1 DEF Placed, Busy, Restore, TypeOK
<1>4. Separate'
  BY DEF Separate, Busy, Restore
<1>5. QED
  BY <1>2, <1>3, <1>4

(* A restart leaves nobody with a slot, or concerns nobody.                *)
LEMMA RestartInv ==
  ASSUME OneAdapter, Inv, NEW a \in Adapter, Restart(a)
  PROVE  Inv'
<1> DEFINE mine == {c \in Caller : AdapterOf[c] = a}
<1> USE DEF Inv
<1>1. TypeOK'
  BY OffloadConstants DEF TypeOK, Restart, Forget, Slot
<1>2. CASE mine = {}
  <2>1. \A c \in Caller : AdapterOf[c] # a
    BY <1>2
  <2>2. \A c \in Caller : next_slot'[AdapterOf[c]] = next_slot[AdapterOf[c]]
    BY <2>1, OffloadConstants DEF Restart, TypeOK
  <2>3. pc' = pc /\ slot' = slot /\ state' = state /\ restored' = restored
          /\ named' = named /\ files' = files
    BY <1>2 DEF Restart, Forget, TypeOK
  <2>4. QED
    BY <1>1, <2>2, <2>3 DEF Placed, Separate, Busy
<1>3. CASE mine # {}
  <2>1. \A c \in Caller : c \in mine
    BY <1>3 DEF OneAdapter
  <2>2. \A c \in Caller : pc'[c] = "idle" /\ restored'[c] = NoState
    BY <2>1 DEF Restart, Forget
  <2>3. QED
    BY <1>1, <2>2 DEF Placed, Separate, Busy
<1>4. QED
  BY <1>2, <1>3

LEMMA NextInv ==
  ASSUME OneAdapter, Inv, [Next]_vars
  PROVE  Inv'
<1>1. CASE UNCHANGED vars
  BY <1>1 DEF Inv, TypeOK, Placed, Separate, Busy, vars, callVars
<1>2. ASSUME NEW c \in Caller,
             TakeSlot(c) \/ OpenFile(c) \/ WriteFile(c)
               \/ OffloadFails(c) \/ Restore(c) \/ DropOffload(c)
      PROVE  Inv'
  BY <1>2, TakeSlotInv, OpenFileInv, WriteFileInv, OffloadFailsInv,
     RestoreInv, DropOffloadInv
<1>3. ASSUME NEW a \in Adapter, Restart(a)
      PROVE  Inv'
  BY <1>3, RestartInv
<1>4. QED
  BY <1>1, <1>2, <1>3 DEF Next

LEMMA OffloadInvariant == ASSUME OneAdapter PROVE Spec => []Inv
<1>1. Init => Inv
  BY InitInv
<1>2. Inv /\ [Next]_vars => Inv'
  BY NextInv
<1>3. QED
  BY <1>1, <1>2, PTL DEF Spec

(* Slots, files and handles are of their types: no slot number runs past   *)
(* those of one life, and no handle is to a slot that was not handed out.  *)
THEOREM OffloadTypeCorrect == ASSUME OneAdapter PROVE Spec => []TypeOK
<1>1. Inv => TypeOK
  BY DEF Inv
<1>2. QED
  BY <1>1, OffloadInvariant, PTL

(* If one adapter has the directory, whoever restores gets back the state  *)
(* he offloaded: over concurrent calls, failed writes, drops and restarts  *)
(* that number from 1.                                                     *)
THEOREM EveryoneRestoresHisOwn == ASSUME OneAdapter PROVE Spec => []RoundTrip
<1>1. Inv => RoundTrip
  BY DEF Inv, Placed, RoundTrip
<1>2. QED
  BY <1>1, OffloadInvariant, PTL

(* And every handle given out leads to its state until it is dropped.      *)
THEOREM EveryHandleLeadsToItsState == ASSUME OneAdapter PROVE Spec => []HeldIsStored
<1>1. Inv => HeldIsStored
  BY DEF Inv, Placed, HeldIsStored
<1>2. QED
  BY <1>1, OffloadInvariant, PTL

=============================================================================
