---------------------------- MODULE TriggerPath -----------------------------
(***************************************************************************)
(* What the Hot Tier promises about causal triggers, with no store, sweep  *)
(* or thread in sight.  Each entity has a latch.  Raising a trigger adds   *)
(* to the latch; the sensing agent fires, which takes exactly one from the *)
(* latch and offers one CausalTrigger event to the signal channel.  So an  *)
(* event is never sent twice for one raise ("resets the trigger bit to     *)
(* avoid duplicate signals", crates/hot-tier/src/lib.rs:183-184), a raise  *)
(* is never forgotten, and a latched trigger is fired in the end.          *)
(*                                                                         *)
(* A latch never needs to exceed 2: one raise being served and one that    *)
(* came after it; a raise that finds the bit set adds nothing.             *)
(*                                                                         *)
(* What the channel does with an offer is left open (it may refuse one):   *)
(* the code calls try_send and ignores its result.                         *)
(***************************************************************************)
EXTENDS Integers, Sequences

CONSTANTS Entity,
          CausalTrigger(_)   \* the event for an entity

VARIABLES latch,    \* raises not yet turned into an event, per entity
          channel   \* the signal channel, oldest event first

vars == <<latch, channel>>

Init == /\ latch = [e \in Entity |-> 0]
        /\ channel = <<>>

Raise(e) == /\ latch[e] < 2
            /\ latch' = [latch EXCEPT ![e] = @ + 1]
            /\ UNCHANGED channel

Fire(e) == /\ latch[e] > 0
           /\ latch' = [latch EXCEPT ![e] = @ - 1]
           /\ channel' \in {channel, Append(channel, CausalTrigger(e))}

\* Traffic that has nothing to do with triggers
SendOther == /\ channel' # <<>>
             /\ LET s == channel'[Len(channel')]
                IN  /\ \A e \in Entity : s # CausalTrigger(e)
                    /\ channel' = Append(channel, s)
             /\ UNCHANGED latch

Consume == /\ channel # <<>>
           /\ channel' \in {Tail(channel), <<>>}
           /\ UNCHANGED latch

Next == \/ \E e \in Entity : Raise(e) \/ Fire(e)
        \/ SendOther
        \/ Consume

\* Every latched trigger is fired; raising and consuming are the others' choice
Spec == Init /\ [][Next]_vars /\ \A e \in Entity : WF_vars(Fire(e))

=============================================================================
