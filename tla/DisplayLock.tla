---------------------------- MODULE DisplayLock ----------------------------
(***************************************************************************)
(* Box86's history of win32u's display_lock and its reader                 *)
(* (harness/display_lock_history.py).                                      *)
(*                                                                         *)
(* my_pthread_mutex_lock records an ATTEMPT before and an ACQUIRED after   *)
(* the lock, my_pthread_mutex_unlock a RELEASED after the unlock, in a     *)
(* ring that threads write without a lock: a ticket is drawn, the slot's   *)
(* sequence is zeroed, the fields are written, the sequence is published.  *)
(* Each record names the acquisition its thread still holds, so that a     *)
(* thread asking again for the lock it has is told from one that waits for *)
(* another.  The mutex is not recursive: asking again blocks for ever.     *)
(***************************************************************************)
EXTENDS Naturals, Sequences, FiniteSets

CONSTANTS Threads,
          Capacity,     \* slots of the ring (256)
          MaxTickets,   \* records written in a behaviour
          Tries         \* attempts of the reader to see the ring unchanged (8)

DisplayLockAssumption ==
    /\ Capacity \in Nat \ {0} /\ MaxTickets \in Nat /\ Tries \in Nat \ {0}

NoThread == "none"
Events == {"ATTEMPT", "ACQUIRED", "RELEASED"}
Empty == [seq |-> 0, tid |-> NoThread, event |-> "ATTEMPT", owner |-> NoThread,
          held |-> 0]
Slots == 0..(Capacity - 1)

VARIABLES
    owner,     \* the thread that has display_lock
    target,    \* target_mutex is set: the call site has been reached
    pc,        \* per thread: what it does, or the record it writes
    seen,      \* per thread: this call of lock saw the target
    ticket,    \* per thread: its ticket
    heldSeq,   \* per thread: mgs2_display_lock_held_seq
    writes,    \* write_count
    ring,
    at,        \* the reader: <<pass, slot>>, or <<0, 0>> away, <<3, 0>> done
    copy,      \* the pass under way
    first,     \* the first pass
    tries,
    frozen     \* ghost: no thread could run when the reader began

game == <<owner, target, pc, seen, ticket, heldSeq, writes, ring>>
reader == <<at, copy, first, tries, frozen>>
vars == <<game, reader>>

Blank == [s \in Slots |-> Empty]

Init ==
    /\ owner = NoThread /\ target = FALSE
    /\ pc = [t \in Threads |-> <<"run", 0>>] /\ seen = [t \in Threads |-> FALSE]
    /\ ticket = [t \in Threads |-> 0] /\ heldSeq = [t \in Threads |-> 0]
    /\ writes = 0 /\ ring = Blank
    /\ at = <<0, 0>> /\ copy = Blank /\ first = Blank /\ tries = 0
    /\ frozen = FALSE

-----------------------------------------------------------------------------
(* The game.  A record is written in four steps; pc is <<event, step>>.    *)

Goto(t, p) == pc' = [pc EXCEPT ![t] = p]

(* my_pthread_mutex_lock, from the call site of lock_display_devices or    *)
(* from another one: only the former makes the mutex the target.           *)
CallLock(t, display) ==
    /\ pc[t] = <<"run", 0>> /\ writes < MaxTickets
    /\ target' = (target \/ display)
    /\ seen' = [seen EXCEPT ![t] = target']
    /\ Goto(t, IF target' THEN <<"ATTEMPT", 1>> ELSE <<"locking", 0>>)
    /\ UNCHANGED <<owner, ticket, heldSeq, writes, ring, reader>>

Lock(t) ==
    /\ pc[t] = <<"locking", 0>> /\ owner = NoThread
    /\ owner' = t
    /\ Goto(t, IF seen[t] THEN <<"ACQUIRED", 1>> ELSE <<"run", 0>>)
    /\ UNCHANGED <<target, seen, ticket, heldSeq, writes, ring, reader>>

(* my_pthread_mutex_unlock: the target is read before the unlock, the      *)
(* record is written after it.                                             *)
Unlock(t) ==
    /\ pc[t] = <<"run", 0>> /\ owner = t
    /\ owner' = NoThread
    /\ Goto(t, IF target THEN <<"RELEASED", 1>> ELSE <<"run", 0>>)
    /\ UNCHANGED <<target, seen, ticket, heldSeq, writes, ring, reader>>

Slot(t) == ticket[t] % Capacity

Draw(t, e) ==
    /\ pc[t] = <<e, 1>> /\ writes < MaxTickets
    /\ ticket' = [ticket EXCEPT ![t] = writes]
    /\ writes' = writes + 1
    /\ Goto(t, <<e, 2>>)
    /\ UNCHANGED <<owner, target, seen, heldSeq, ring, reader>>

Withdraw(t, e) ==
    /\ pc[t] = <<e, 2>>
    /\ ring' = [ring EXCEPT ![Slot(t)].seq = 0]
    /\ Goto(t, <<e, 3>>)
    /\ UNCHANGED <<owner, target, seen, ticket, heldSeq, writes, reader>>

(* The fields: who and what first, then what the mutex and the thread's    *)
(* own memory say.                                                         *)
FillEvent(t, e) ==
    /\ pc[t] = <<e, 3>>
    /\ ring' = [ring EXCEPT ![Slot(t)].tid = t, ![Slot(t)].event = e,
                            ![Slot(t)].owner = owner]
    /\ Goto(t, <<e, 4>>)
    /\ UNCHANGED <<owner, target, seen, ticket, heldSeq, writes, reader>>

FillHeld(t, e) ==
    /\ pc[t] = <<e, 4>>
    /\ ring' = [ring EXCEPT ![Slot(t)].held = heldSeq[t]]
    /\ Goto(t, <<e, 5>>)
    /\ UNCHANGED <<owner, target, seen, ticket, heldSeq, writes, reader>>

\* Mutant: the ticket, not the sequence, of the acquisition is remembered
PublishTicket(t, e) ==
    /\ pc[t] = <<e, 5>>
    /\ ring' = [ring EXCEPT ![Slot(t)].seq = ticket[t] + 1]
    /\ heldSeq' = [heldSeq EXCEPT ![t] = CASE e = "ACQUIRED" -> ticket[t]
                                           [] e = "RELEASED" -> 0
                                           [] OTHER -> @]
    /\ Goto(t, IF e = "ATTEMPT" THEN <<"locking", 0>> ELSE <<"run", 0>>)
    /\ UNCHANGED <<owner, target, seen, ticket, writes, reader>>

Publish(t, e) ==
    /\ pc[t] = <<e, 5>>
    /\ ring' = [ring EXCEPT ![Slot(t)].seq = ticket[t] + 1]
    /\ heldSeq' = [heldSeq EXCEPT ![t] = CASE e = "ACQUIRED" -> ticket[t] + 1
                                           [] e = "RELEASED" -> 0
                                           [] OTHER -> @]
    /\ Goto(t, IF e = "ATTEMPT" THEN <<"locking", 0>> ELSE <<"run", 0>>)
    /\ UNCHANGED <<owner, target, seen, ticket, writes, reader>>

Game ==
    \E t \in Threads :
        \/ \E display \in BOOLEAN : CallLock(t, display)
        \/ Lock(t) \/ Unlock(t)
        \/ \E e \in Events : \/ Draw(t, e) \/ Withdraw(t, e) \/ FillEvent(t, e)
                             \/ FillHeld(t, e) \/ Publish(t, e)

SelfBlocked(t) == pc[t] = <<"locking", 0>> /\ owner = t
Frozen == \A t \in Threads : pc[t] = <<"locking", 0>> /\ owner # NoThread

-----------------------------------------------------------------------------
(* The reader: the ring is read twice, slot by slot, until both passes     *)
(* agree.                                                                  *)

Begin ==
    /\ at = <<0, 0>>
    /\ at' = <<1, 0>> /\ frozen' = Frozen
    /\ UNCHANGED <<game, copy, first, tries>>

ReadSlot ==
    LET p == at[1]  s == at[2] IN
    /\ p \in {1, 2} /\ s \in Slots
    /\ copy' = [copy EXCEPT ![s] = ring[s]]
    /\ at' = <<p, s + 1>>
    /\ UNCHANGED <<game, first, tries, frozen>>

EndPass ==
    /\ at[2] = Capacity
    /\ \/ /\ at[1] = 1
          /\ first' = copy /\ at' = <<2, 0>> /\ UNCHANGED tries
       \/ /\ at[1] = 2 /\ copy = first
          /\ at' = <<3, 0>> /\ UNCHANGED <<first, tries>>
       \/ /\ at[1] = 2 /\ copy # first
          /\ tries' = tries + 1
          /\ at' = IF tries + 1 < Tries THEN <<1, 0>> ELSE <<4, 0>>
          /\ UNCHANGED first
    /\ UNCHANGED <<game, copy, frozen>>

Next == Game \/ Begin \/ ReadSlot \/ EndPass

Spec == Init /\ [][Next]_vars

(* What the reader prints: the records with a sequence, those it calls     *)
(* RECURSIVE, and the acquisition each of these stands on.                 *)
Reported == at = <<3, 0>>
Records == {copy[s] : s \in {u \in Slots : copy[u].seq # 0}}
Recursive == {r \in Records : r.event = "ATTEMPT" /\ r.held # 0}
Standing(r) == {h \in Records : h.seq = r.held}

-----------------------------------------------------------------------------
(* At most one thread has the lock, tickets are drawn once, and a slot     *)
(* with a sequence holds a record of a ticket of that slot.                *)
TypeOK ==
    /\ owner \in Threads \union {NoThread}
    /\ \A s \in Slots : ring[s].seq # 0 => (ring[s].seq - 1) % Capacity = s
    /\ \A s \in Slots : ring[s].seq <= writes
    /\ \A t, u \in Threads :
          t # u /\ pc[t] \in Events \X (2..5) /\ pc[u] \in Events \X (2..5)
              => ticket[t] # ticket[u]
    /\ tries \in 0..Tries

(* "The thread is asking for a lock it is recorded as still holding": a    *)
(* record is called RECURSIVE only when its thread really blocks itself.   *)
RecursiveIsReal ==
    Reported => \A r \in Recursive :
        owner = r.tid /\ pc[r.tid] = <<"locking", 0>>

(* The pair is right: the record an attempt stands on, when it is still in *)
(* the ring, is an acquisition by the same thread.                         *)
PairIsAcquisition ==
    Reported => \A r \in Recursive : \A h \in Standing(r) :
        h.event = "ACQUIRED" /\ h.tid = r.tid

(* A game that froze because a thread blocked itself is told from one that *)
(* merely contends: read after the freeze, the ring names that thread (its *)
(* acquisition is recorded once the call site has made the mutex known).   *)
FreezeIsNamed ==
    Reported /\ frozen =>
        \A t \in Threads :
            /\ SelfBlocked(t)
            /\ \E h \in Records : h.event = "ACQUIRED" /\ h.tid = t
            => \E r \in Recursive : r.tid = t
=============================================================================
