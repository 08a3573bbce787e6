----------------------------- MODULE CsDeadlock -----------------------------
(***************************************************************************)
(* The verdict of harness/cs_deadlock_census.py about a frozen game, taken *)
(* while the two threads it judges keep running.                           *)
(*                                                                         *)
(* Patch 52 counts the synchronisation events of wined3d's command stream: *)
(* a producer publishes a command by advancing a queue's head and alerts   *)
(* the consumer when it had announced that it is about to sleep; the       *)
(* consumer announces the sleep, looks at both queues again, and sleeps.   *)
(* The tool reads the counters and the queue fields a few times, one word  *)
(* at a time, and only then asks the kernel whether the consumer sleeps.   *)
(*                                                                         *)
(* A handshake takes microseconds and the interval between two samples is  *)
(* 200 ms: a thread is never inside the same handshake twice (Rested).     *)
(* The ring's write index is a plain ++ of two threads: a load, a store.   *)
(***************************************************************************)
EXTENDS Naturals, Sequences

CONSTANTS MaxCommands,     \* commands published in a behaviour
          MaxSleeps,       \* waits of the consumer in a behaviour
          Samples,         \* --samples
          Racy,            \* do notes of the two threads overlap?
          Weak             \* may an interlocked read on the alert path be stale?

DeadlockAssumption ==
    /\ MaxCommands \in Nat /\ MaxSleeps \in Nat
    /\ Samples \in Nat \ {0, 1} /\ Racy \in BOOLEAN /\ Weak \in BOOLEAN

Queues == {"default", "map"}
Threads == {"producer", "consumer"}
BlockedIn == {"blocked_" \o q : q \in Queues}

(* What sample() reads, in its order: one pread of the header, then a word *)
(* at a time through the published pointer.                                *)
Fields == <<"header", "dh", "dt", "mh", "mt", "wfe">>

VARIABLES
    head, tail,   \* per queue: commands published, commands executed
    wfe,          \* cs->waiting_for_event
    alerted,      \* an alert the consumer has not consumed
    pc,           \* per thread: where it is
    held,         \* per thread: the ring index its note has loaded
    executes, ring,
    sleeps,       \* waits so far (bounds the behaviour)
    rested,       \* threads that left their handshake since the last sample
    at,           \* the tool: <<sample, field>> it reads next, or its end
    last,         \* the latest value read of each field
    steady,       \* no field changed from one sample to the next
    cpu,          \* a tick was charged inside the window
    lost,         \* an announced sleep was missed by a producer
    named,        \* the consumer is called wined3d_cs
    truth,        \* what held when the last sample began
    verdict

game == <<head, tail, wfe, alerted, pc, held, executes, ring, sleeps, named,
          lost>>
tool == <<at, last, steady, truth, verdict>>
vars == <<game, tool, rested, cpu>>

Verdicts == {"none", "indeterminate", "A", "B", "C"}

Sampling == at[1] \in 1..Samples
Pausing == at[1] \in 2..Samples /\ at[2] = 1
Done == at = <<Samples + 2, 1>>

Init ==
    /\ head = [q \in Queues |-> 0] /\ tail = [q \in Queues |-> 0]
    /\ wfe = FALSE /\ alerted = FALSE
    /\ pc = [t \in Threads |-> IF t = "producer" THEN "idle" ELSE "poll"]
    /\ held = [t \in Threads |-> 0]
    /\ executes = 0 /\ ring = 0 /\ sleeps = 0
    /\ rested = {} /\ cpu = FALSE
    /\ named \in BOOLEAN /\ lost = FALSE
    /\ at = <<0, 1>>
    /\ last = [f \in 1..Len(Fields) |-> IF f = 1 THEN <<0, 0>> ELSE 0]
    /\ steady = TRUE /\ truth = "none" /\ verdict = "none"

-----------------------------------------------------------------------------
(* The game.                                                               *)

Work(q) == head[q] # tail[q]
SomeWork == \E q \in Queues : Work(q)

(* Work that takes long is charged processor time, a short step is below   *)
(* the resolution of the clock.                                            *)
Ticks(long) ==
    /\ cpu' = (cpu \/ (long /\ Sampling))
    /\ UNCHANGED <<tool, named>>

(* Where a thread is outside a handshake.                                  *)
Outside == {"idle", "poll", "asleep"} \union Queues \union BlockedIn

Moves(t, long) ==
    /\ rested' = IF Pausing /\ pc'[t] \in Outside
                 THEN rested \union {t} ELSE rested
    /\ Ticks(long)

(* mgs2_p52_note increments ring_write without a lock: a load and a store  *)
(* of each thread, or, where no other note falls between, one step.        *)
Note(t, from, mid, to) ==
    /\ \/ /\ Racy /\ pc[t] = from
          /\ held' = [held EXCEPT ![t] = ring]
          /\ pc' = [pc EXCEPT ![t] = mid]
          /\ ring' = ring
       \/ /\ Racy /\ pc[t] = mid
          /\ ring' = held[t] + 1
          /\ held' = [held EXCEPT ![t] = 0]
          /\ pc' = [pc EXCEPT ![t] = to]
       \/ /\ ~Racy /\ pc[t] = from
          /\ ring' = ring + 1
          /\ pc' = [pc EXCEPT ![t] = to]
          /\ held' = held
    /\ Moves(t, FALSE)
    /\ UNCHANGED <<head, tail, wfe, alerted, executes, sleeps, lost>>

(* wined3d_cs_queue_submit: the packet becomes visible.                    *)
Publish(q) ==
    /\ pc["producer"] = "idle"
    /\ head["default"] + head["map"] < MaxCommands
    /\ head' = [head EXCEPT ![q] = @ + 1]
    /\ pc' = [pc EXCEPT !["producer"] = "submitting"]
    /\ Moves("producer", FALSE)
    /\ UNCHANGED <<tail, wfe, alerted, held, executes, ring, sleeps, lost>>

(* The compare-exchange after it: an announced sleep is taken back and the *)
(* consumer will be alerted.                                               *)
TakeBack ==
    /\ pc["producer"] = "submitted"
    /\ pc' = [pc EXCEPT !["producer"] = IF wfe THEN "alerting" ELSE "idle"]
    /\ wfe' = FALSE
    /\ Moves("producer", FALSE)
    /\ UNCHANGED <<head, tail, alerted, held, executes, ring, sleeps, lost>>

(* Fault A: the exchange misses the announcement.                          *)
MissAnnouncement ==
    /\ Weak /\ wfe
    /\ pc["producer"] = "submitted"
    /\ pc' = [pc EXCEPT !["producer"] = "idle"]
    /\ lost' = TRUE
    /\ Moves("producer", FALSE)
    /\ UNCHANGED <<head, tail, wfe, alerted, held, executes, ring, sleeps>>

Alert ==
    /\ pc["producer"] = "alert"
    /\ alerted' = TRUE
    /\ pc' = [pc EXCEPT !["producer"] = "idle"]
    /\ Moves("producer", FALSE)
    /\ UNCHANGED <<head, tail, wfe, held, executes, ring, sleeps, lost>>

Produce ==
    \/ \E q \in Queues : Publish(q)
    \/ Note("producer", "submitting", "submit_store", "submitted")
    \/ TakeBack \/ MissAnnouncement
    \/ Note("producer", "alerting", "alert_store", "alert")
    \/ Alert

(* wined3d_cs_run: with both queues empty it spins, and after the spins it *)
(* prepares to wait; otherwise it counts an execute and runs the command.  *)
Spin ==
    /\ pc["consumer"] = "poll" /\ ~SomeWork
    /\ pc' = pc
    /\ Moves("consumer", TRUE)
    /\ UNCHANGED <<head, tail, wfe, alerted, held, executes, ring, sleeps, lost>>

PrepareWait ==
    /\ pc["consumer"] = "poll" /\ ~SomeWork
    /\ sleeps < MaxSleeps
    /\ sleeps' = sleeps + 1
    /\ wfe' = TRUE
    /\ pc' = [pc EXCEPT !["consumer"] = "preparing"]
    /\ Moves("consumer", FALSE)
    /\ UNCHANGED <<head, tail, alerted, held, executes, ring, lost>>

(* The second look at the queues: work found, and the announcement taken   *)
(* back before a producer did.                                             *)
Recheck ==
    /\ pc["consumer"] = "prepared"
    /\ pc' = [pc EXCEPT !["consumer"] =
                 IF SomeWork /\ wfe THEN "aborting" ELSE "entering"]
    /\ wfe' = IF SomeWork THEN FALSE ELSE wfe
    /\ Moves("consumer", FALSE)
    /\ UNCHANGED <<head, tail, alerted, held, executes, ring, sleeps, lost>>

(* The wait ends by an alert, or by its timeout when queries are polled;   *)
(* a timeout leaves waiting_for_event set.                                 *)
Wake ==
    /\ pc["consumer"] = "asleep" /\ alerted
    /\ alerted' = FALSE
    /\ pc' = [pc EXCEPT !["consumer"] = "returning"]
    /\ Moves("consumer", FALSE)
    /\ UNCHANGED <<head, tail, wfe, held, executes, ring, sleeps, lost>>

TimeOut ==
    /\ pc["consumer"] = "asleep" /\ ~alerted
    /\ pc' = [pc EXCEPT !["consumer"] = "returning"]
    /\ Moves("consumer", FALSE)
    /\ UNCHANGED <<head, tail, wfe, alerted, held, executes, ring, sleeps, lost>>

Execute(q) ==
    /\ pc["consumer"] = "poll" /\ Work(q)
    /\ executes' = executes + 1
    /\ pc' = [pc EXCEPT !["consumer"] = q]
    /\ Moves("consumer", FALSE)
    /\ UNCHANGED <<head, tail, wfe, alerted, held, ring, sleeps, lost>>

(* A command runs for as long as it likes, may block on a lock and go on,  *)
(* and moves the tail when it is done.                                     *)
Compute ==
    /\ pc["consumer"] \in Queues
    /\ pc' = pc
    /\ Moves("consumer", TRUE)
    /\ UNCHANGED <<head, tail, wfe, alerted, held, executes, ring, sleeps, lost>>

Block(q) ==
    /\ pc["consumer"] = q
    /\ pc' = [pc EXCEPT !["consumer"] = "blocked_" \o q]
    /\ Moves("consumer", FALSE)
    /\ UNCHANGED <<head, tail, wfe, alerted, held, executes, ring, sleeps, lost>>

Unblock(q) ==
    /\ pc["consumer"] = "blocked_" \o q
    /\ pc' = [pc EXCEPT !["consumer"] = q]
    /\ Moves("consumer", FALSE)
    /\ UNCHANGED <<head, tail, wfe, alerted, held, executes, ring, sleeps, lost>>

Finish(q) ==
    /\ pc["consumer"] = q
    /\ tail' = [tail EXCEPT ![q] = @ + 1]
    /\ pc' = [pc EXCEPT !["consumer"] = "poll"]
    /\ Moves("consumer", FALSE)
    /\ UNCHANGED <<head, wfe, alerted, held, executes, ring, sleeps, lost>>

Consume ==
    \/ Spin \/ PrepareWait \/ Recheck \/ Wake \/ TimeOut \/ Compute
    \/ \E q \in Queues : Execute(q) \/ Block(q) \/ Unblock(q) \/ Finish(q)
    \/ Note("consumer", "preparing", "prepare_store", "prepared")
    \/ Note("consumer", "aborting", "abort_store", "poll")
    \/ Note("consumer", "entering", "enter_store", "asleep")
    \/ Note("consumer", "returning", "return_store", "poll")

InFutex == pc["consumer"] \in {"asleep"} \union BlockedIn
InCommand == pc["consumer"] \in Queues \union BlockedIn

-----------------------------------------------------------------------------
(* The tool.                                                               *)

(* process_cpu before the window, then the first sample.                   *)
Attach ==
    /\ at = <<0, 1>>
    /\ at' = <<1, 1>>
    /\ UNCHANGED <<rested, cpu>>
    /\ UNCHANGED <<game, last, steady, truth, verdict>>

Runnable(t) ==
    IF t = "producer" THEN pc[t] # "idle"
    ELSE ~InFutex \/ (pc[t] = "asleep" /\ alerted)

(* Between two samples 200 ms pass: a thread that can run has left the     *)
(* handshake it was in.                                                    *)
Rested == \A t \in Threads : Runnable(t) => t \in rested

Live(f) ==
    CASE Fields[f] = "header" -> <<executes, ring>>
      [] Fields[f] = "dh" -> head["default"]
      [] Fields[f] = "dt" -> tail["default"]
      [] Fields[f] = "mh" -> head["map"]
      [] Fields[f] = "mt" -> tail["map"]
      [] Fields[f] = "wfe" -> IF wfe THEN 1 ELSE 0

Truth ==
    IF InCommand THEN "command"
    ELSE IF ~SomeWork THEN "drained" ELSE "running"

(* One read of a sample: the header, then each word of the live object.    *)
(* Once something rested the verdict is settled: what follows is left out.  *)
ReadField ==
    LET i == at[1]  f == at[2] IN
    /\ Sampling /\ steady
    /\ f = 1 /\ i > 1 => Rested
    /\ at' = IF f < Len(Fields) THEN <<i, f + 1>> ELSE <<i + 1, 1>>
    /\ last' = [last EXCEPT ![f] = Live(f)]
    /\ steady' = (steady /\ (i > 1 => last[f] = Live(f)))
    /\ rested' = IF f = Len(Fields) THEN {} ELSE rested
    /\ truth' = IF f = 1 /\ i = Samples THEN Truth ELSE truth
    /\ UNCHANGED <<game, cpu, verdict>>

(* Field numbers of Fields.                                                *)
Dh == 2
Dt == 3
Mh == 4
Mt == 5
Wfe == 6

(* Either the named thread is parked in a futex or, without a name, no     *)
(* task consumed a tick; and nothing that was sampled rested.               *)
Frozen(asleep) ==
    /\ asleep \/ (~named /\ ~cpu)
    /\ steady

Nonempty == last[Dh] # last[Dt] \/ last[Mh] # last[Mt]

\* Mutant: waiting_for_event is not part of the verdict
VerdictIgnoresWait(asleep) ==
    CASE ~Frozen(asleep) -> "indeterminate"
      [] Frozen(asleep) /\ Nonempty -> "A"
      [] OTHER -> "B"

VerdictOf(asleep) ==
    CASE ~Frozen(asleep) -> "indeterminate"
      [] Frozen(asleep) /\ last[Wfe] = 0 /\ Nonempty -> "C"
      [] Frozen(asleep) /\ last[Wfe] = 0 /\ ~Nonempty -> "indeterminate"
      [] Frozen(asleep) /\ last[Wfe] = 1 /\ Nonempty -> "A"
      [] OTHER -> "B"

(* cs_thread, after the window: the wchan of the thread with the name, if  *)
(* there is one and its files can still be read; then the verdict.         *)
Judge ==
    /\ ~Done /\ (at = <<Samples + 1, 1>> \/ ~steady)
    /\ \E asleep \in IF named THEN {InFutex, FALSE} ELSE {FALSE} :
          verdict' = VerdictOf(asleep)
    /\ at' = <<Samples + 2, 1>>
    /\ UNCHANGED <<game, last, steady, truth, rested, cpu>>

Next == \/ (~Done /\ steady /\ (Produce \/ Consume)) \/ Attach \/ ReadField \/ Judge

Spec == Init /\ [][Next]_vars

-----------------------------------------------------------------------------
(* Every variable keeps to its range, the ring index included although     *)
(* two threads write it without a lock.                                    *)
TypeOK ==
    /\ \A q \in Queues : tail[q] <= head[q] /\ head[q] <= MaxCommands
    /\ wfe \in BOOLEAN /\ alerted \in BOOLEAN /\ named \in BOOLEAN
    /\ sleeps <= MaxSleeps
    /\ executes = tail["default"] + tail["map"] + IF InCommand THEN 1 ELSE 0
    /\ ring <= 2 * MaxCommands + 3 * MaxSleeps
    /\ rested \subseteq Threads
    /\ at[1] \in 0..(Samples + 2) /\ at[2] \in 1..Len(Fields)
    /\ verdict \in Verdicts

(* Verdict A blames the handshake: "Work is published and not being run".  *)
(* It is given only in a game in which a producer did miss an announced    *)
(* sleep, never in a healthy one whose queue merely holds work.            *)
BlamesRealMiss == verdict = "A" => lost

(* Verdict B clears the command stream: "NOT a missed publication".  When  *)
(* it is given no queue held work as the last sample began.                *)
ClearsDrained == verdict = "B" => truth = "drained"

(* Verdict C says the consumer "stopped somewhere inside command           *)
(* execution".  When it is given the consumer was executing a command as   *)
(* the last sample began: never a sleeper with a missed publication.       *)
BlamesCommand == verdict = "C" => truth = "command"

(* Without a thread called wined3d_cs the tool falls back on the processor *)
(* time: it then never judges a process in which a task was charged time.  *)
FallbackNeedsNoCpu ==
    ~named /\ verdict \in {"A", "B", "C"} => ~cpu

=============================================================================
