--------------------------- MODULE MemmoveCensus ----------------------------
(***************************************************************************)
(* The memmove census of Box86 (patch 02) and its reader                   *)
(* (box86_memmove_stats.py).  Emulation threads count their calls by       *)
(* (caller, size) in an open-addressed table of published slots; the       *)
(* reader copies the table twice, from outside and while they go on, and   *)
(* reports the difference.                                                 *)
(***************************************************************************)
EXTENDS Integers, FiniteSetsExt

CONSTANTS
    Threads,  \* emulation threads
    Keys,     \* the (caller, size) pairs
    NoKey,    \* what an empty slot holds
    Home,     \* [Keys -> Slots]: where the hash sends a key
    Slots,    \* 0 .. MGS2_MEMMOVE_STATS_CAPACITY - 1
    MaxCalls  \* bound on the calls of each key

TableAssumption == Slots = 0 .. Cardinality(Slots) - 1 /\ Slots # {}
NoKeyAssumption == NoKey \notin Keys
HomeAssumption == Home \in [Keys -> Slots]
BoundAssumption == MaxCalls \in Nat

VARIABLES
    table,    \* mgs2_memmove_stats: state, key and count of each slot
    overflow, \* mgs2_memmove_stats_overflow
    thread,   \* each thread: its place, key, slot and how many it has tried
    begun,    \* calls of each key begun
    counted,  \* calls of each key that have left the census
    reader,   \* the reader: which copy it makes, the slots it has copied
    copy,     \* copy[n]: what copy n shows: entries and overflow
    span      \* span[n]: calls counted as copy n began, begun as it ended

vars == <<table, overflow, thread, begun, counted, reader, copy, span>>

None == [k \in Keys |-> 0]

Init ==
    /\ table = [s \in Slots |-> [state |-> 0, key |-> NoKey, count |-> 0]]
    /\ overflow = FALSE
    /\ thread = [t \in Threads |-> [at |-> "guest", key |-> NoKey, slot |-> 0, tried |-> 0]]
    /\ begun = None /\ counted = None
    /\ reader = [copying |-> 0, done |-> {}]
    /\ copy = [n \in {1, 2} |-> [entries |-> None, overflow |-> FALSE]]
    /\ span = [n \in {1, 2} |-> [counted |-> None, begun |-> None]]

-----------------------------------------------------------------------------
(* mgs2_memmove_stats_record()                                             *)

Call(t) ==
    /\ thread[t].at = "guest"
    /\ \E k \in Keys :
          /\ begun[k] < MaxCalls
          /\ begun' = [begun EXCEPT ![k] = @ + 1]
          /\ thread' = [thread EXCEPT ![t] = [at |-> "probe", key |-> k, slot |-> Home[k], tried |-> 0]]
    /\ UNCHANGED <<table, overflow, counted, reader, copy, span>>

Leave(t) ==
    /\ thread' = [thread EXCEPT ![t] = [at |-> "guest", key |-> NoKey, slot |-> 0, tried |-> 0]]
    /\ counted' = [counted EXCEPT ![thread[t].key] = @ + 1]

\* Mutant: any published slot is taken for this key's.
MineAnyKey(t) == table[thread[t].slot].state = 2

Mine(t) == LET e == table[thread[t].slot] IN e.state = 2 /\ e.key = thread[t].key

\* A slot published for this key is counted up.
Count(t) ==
    /\ thread[t].at = "probe" /\ Mine(t)
    /\ table' = [table EXCEPT ![thread[t].slot].count = @ + 1]
    /\ Leave(t)
    /\ UNCHANGED <<overflow, begun, reader, copy, span>>

\* The state was read as empty: try to claim the slot.
SeeEmpty(t) ==
    /\ thread[t].at = "probe" /\ table[thread[t].slot].state = 0
    /\ thread' = [thread EXCEPT ![t].at = "claim"]
    /\ UNCHANGED <<table, overflow, begun, counted, reader, copy, span>>

Claim(t) ==
    /\ thread[t].at = "claim" /\ table[thread[t].slot].state = 0
    /\ table' = [table EXCEPT ![thread[t].slot].state = 1]
    /\ thread' = [thread EXCEPT ![t].at = "fill"]
    /\ UNCHANGED <<overflow, begun, counted, reader, copy, span>>

\* A slot being filled, of another key, or lost to another thread: the next.
Pass(t) ==
    /\ \/ thread[t].at = "probe" /\ ~Mine(t) /\ table[thread[t].slot].state # 0
       \/ thread[t].at = "claim" /\ table[thread[t].slot].state # 0
    /\ thread[t].tried + 1 < Cardinality(Slots)
    /\ thread' = [thread EXCEPT ![t] = [@ EXCEPT !.at = "probe", !.tried = @ + 1,
                                            !.slot = (@ + 1) % Cardinality(Slots)]]
    /\ UNCHANGED <<table, overflow, begun, counted, reader, copy, span>>

Overflow(t) ==
    /\ \/ thread[t].at = "probe" /\ ~Mine(t) /\ table[thread[t].slot].state # 0
       \/ thread[t].at = "claim" /\ table[thread[t].slot].state # 0
    /\ thread[t].tried + 1 = Cardinality(Slots)
    /\ overflow' = TRUE
    /\ Leave(t)
    /\ UNCHANGED <<table, begun, reader, copy, span>>

\* caller, size and count are stored in any order before the state
Fill(t) ==
    /\ thread[t].at = "fill"
    /\ table' = [table EXCEPT ![thread[t].slot].key = thread[t].key, ![thread[t].slot].count = 1]
    /\ thread' = [thread EXCEPT ![t].at = "publish"]
    /\ UNCHANGED <<overflow, begun, counted, reader, copy, span>>

Publish(t) ==
    /\ thread[t].at = "publish"
    /\ table' = [table EXCEPT ![thread[t].slot].state = 2]
    /\ Leave(t)
    /\ UNCHANGED <<overflow, begun, reader, copy, span>>

-----------------------------------------------------------------------------
(* snapshot(), twice: the overflow flag, then the slots in order.          *)

StartCopy ==
    /\ reader.copying = 0 \/ (reader.copying = 1 /\ reader.done = Slots)
    /\ reader' = [copying |-> reader.copying + 1, done |-> {}]
    /\ copy' = [copy EXCEPT ![reader.copying + 1].overflow = overflow]
    /\ span' = [span EXCEPT ![reader.copying + 1].counted = counted]
    /\ UNCHANGED <<table, overflow, thread, begun, counted>>

\* A later slot of the same key takes the place of an earlier one.
CopySlot ==
    /\ reader.copying \in {1, 2} /\ reader.done # Slots
    /\ LET n == reader.copying
           s == Cardinality(reader.done)
           e == table[s] IN
       /\ copy' = IF e.state = 2 /\ e.key \in Keys /\ e.count > 0
                  THEN [copy EXCEPT ![n].entries[e.key] = e.count] ELSE copy
       /\ reader' = [reader EXCEPT !.done = @ \union {s}]
       /\ span' = [span EXCEPT ![n].begun = begun]
    /\ UNCHANGED <<table, overflow, thread, begun, counted>>

Word == 256  \* for the 2^32 of a count

\* render(): what a key is reported to have been called between the copies
Delta(k) == (copy[2].entries[k] - copy[1].entries[k]) % Word

-----------------------------------------------------------------------------

Step(t) ==
    Call(t) \/ Count(t) \/ SeeEmpty(t) \/ Claim(t) \/ Pass(t) \/ Overflow(t) \/ Fill(t) \/ Publish(t)

Next == (\E t \in Threads : Step(t)) \/ StartCopy \/ CopySlot

Spec == Init /\ [][Next]_vars

-----------------------------------------------------------------------------

Finished == reader.copying = 2 /\ reader.done = Slots

SlotsOf(k) == {s \in Slots : table[s].state = 2 /\ table[s].key = k}

TypeOK ==
    /\ table \in [Slots -> [state : 0 .. 2, key : Keys \union {NoKey}, count : 0 .. MaxCalls]]
    /\ overflow \in BOOLEAN
    /\ \A t \in Threads : thread[t].slot \in Slots /\ thread[t].tried \in 0 .. Cardinality(Slots) - 1
    /\ begun \in [Keys -> 0 .. MaxCalls] /\ counted \in [Keys -> 0 .. MaxCalls]
    /\ reader \in [copying : 0 .. 2, done : SUBSET Slots]

\* No call is counted for another key, or twice: whatever the slots of a key
\* hold together is the calls of that key that have been through the census,
\* less those it had no room for, which the overflow flag admits.
EveryCallIsCounted ==
    \A k \in Keys :
        LET held == MapThenSumSet(LAMBDA s : table[s].count, SlotsOf(k)) IN
        /\ held <= begun[k]
        /\ held < counted[k] => overflow

\* The difference of two copies taken while the game runs, of a key that has
\* one slot: no fewer than the calls that lie between the copies, no more
\* than those that touch them.  Nothing of the start-up is in it.
DifferenceIsOfTheInterval ==
    Finished /\ ~overflow =>
        \A k \in Keys : Cardinality(SlotsOf(k)) = 1 =>
            /\ Delta(k) >= span[2].counted[k] - span[1].begun[k]
            /\ Delta(k) <= span[2].begun[k] - span[1].counted[k]

=============================================================================
