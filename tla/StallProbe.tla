----------------------------- MODULE StallProbe -----------------------------
(***************************************************************************)
(* stall_probe.py: it waits for the game, then writes a P row of the       *)
(* process every Period, a T row of each thread every ThreadPeriod, and    *)
(* with a T row, every StackPeriod, a K row with the stack of a thread     *)
(* that sleeps; it ends with its time, or when the process is gone.        *)
(*                                                                         *)
(* One thread stands for all.  The rows of an iteration take no time; an   *)
(* iteration lasts up to Late longer than its period, because the work or  *)
(* the sleep did.                                                          *)
(***************************************************************************)
EXTENDS Integers

CONSTANTS Period, ThreadPeriod, StackPeriod,
          Late,
          Wait,       \* how long it waits for the game
          Duration    \* how long it samples

ProbeAssumption ==
  /\ {Period, ThreadPeriod, StackPeriod, Late, Wait, Duration} \subseteq Nat
  /\ Period > 0

VARIABLES time,
          game,         \* not yet, there, gone
          thread,       \* of the thread: runs, sleeps, ended
          asleepSince,  \* since when it sleeps
          phase,        \* where the probe is
          t0, end,      \* start of this iteration, end of the sampling
          nextThread, nextStack, wantStack,
          p, t, k,      \* when the last row of each kind was taken
          gapP, gapT    \* longest time between two rows

world == <<game, thread, asleepSince>>
plan == <<t0, end, nextThread, nextStack, wantStack>>
output == <<p, t, k, gapP, gapT>>
vars == <<time, world, phase, plan, output>>

None == -1

Greater(a, b) == IF a > b THEN a ELSE b

----------------------------------------------------------------------------
(* The game *)

Pass ==
  /\ \/ phase = "find"
     \/ phase = "sleep" /\ time < t0 + Period + Late
  /\ phase = "find" => time <= Wait
  /\ time' = time + 1
  /\ UNCHANGED <<world, phase, plan, output>>

Start ==
  /\ game = "not yet" /\ phase = "find"
  /\ game' = "there"
  /\ UNCHANGED <<time, thread, asleepSince, phase, plan, output>>

Exit ==
  /\ game = "there" /\ phase \in {"sleep", "threads"}
  /\ game' = "gone" /\ thread' = "ended"
  /\ UNCHANGED <<time, asleepSince, phase, plan, output>>

Turn ==
  /\ game = "there" /\ phase = "sleep"
  /\ \/ thread = "runs" /\ thread' \in {"sleeps", "ended"}
     \/ thread = "sleeps" /\ thread' = "runs"
  /\ asleepSince' = IF thread' = "sleeps" THEN time ELSE None
  /\ UNCHANGED <<time, game, phase, plan, output>>

----------------------------------------------------------------------------
(* The probe *)

Find ==
  /\ phase = "find"
  /\ \/ game = "there" /\ phase' = "process"
     \/ game = "not yet" /\ time > Wait /\ phase' = "no process"
  /\ end' = time + Duration
  /\ t0' = time
  /\ UNCHANGED <<time, world, nextThread, nextStack, wantStack, output>>

Over == phase' = "over" /\ UNCHANGED <<time, world, plan, output>>

(* The P row.  A process that is gone ends the probe. *)

\* Mutant: the row is written when T rows are due.
ProcessRowSparse ==
  /\ phase = "process" /\ game = "there"
  /\ phase' = "threads"
  /\ IF t0 >= nextThread
     THEN /\ p' = time
          /\ gapP' = IF p = None THEN gapP ELSE Greater(gapP, time - p)
     ELSE UNCHANGED <<p, gapP>>
  /\ UNCHANGED <<time, world, plan, t, k, gapT>>

ProcessRow ==
  /\ phase = "process" /\ game = "there"
  /\ phase' = "threads"
  /\ p' = time
  /\ gapP' = IF p = None THEN gapP ELSE Greater(gapP, time - p)
  /\ UNCHANGED <<time, world, plan, t, k, gapT>>

(* Nothing is left to be read of it, whatever the error was. *)
Gone ==
  /\ phase \in {"process", "threads"} /\ game = "gone"
  /\ Over

ThreadDue == t0 + ThreadPeriod

(* The T rows, and with them the K rows.  A stack that is due is noted as  *)
(* taken whether T rows are due or not.                                    *)
ThreadRows ==
  /\ phase = "threads" /\ game = "there"
  /\ phase' = "sleep"
  /\ wantStack' = (t0 >= nextStack)
  /\ nextStack' = IF wantStack' THEN t0 + StackPeriod ELSE nextStack
  /\ IF t0 >= nextThread
     THEN /\ nextThread' = ThreadDue
          /\ t' = time
          /\ gapT' = IF t = None THEN gapT ELSE Greater(gapT, time - t)
          /\ k' = IF wantStack' /\ thread = "sleeps" THEN time ELSE k
     ELSE UNCHANGED <<nextThread, t, gapT, k>>
  /\ UNCHANGED <<time, world, t0, end, p, gapP>>

(* The slack is slept; the next iteration begins unless the time is up. *)
Wake ==
  /\ phase = "sleep" /\ time >= t0 + Period
  /\ IF time < end
     THEN phase' = "process" /\ t0' = time
     ELSE phase' = "over" /\ t0' = t0
  /\ UNCHANGED <<time, world, end, nextThread, nextStack, wantStack, output>>

Init ==
  /\ time = 0 /\ game = "not yet"
  /\ thread = "runs" /\ asleepSince = None
  /\ phase = "find"
  /\ t0 = 0 /\ end = 0 /\ nextThread = 0 /\ nextStack = 0 /\ wantStack = FALSE
  /\ p = None /\ t = None /\ k = None /\ gapP = 0 /\ gapT = 0

Next == Pass \/ Start \/ Exit \/ Turn \/ Find \/ ProcessRow \/ Gone \/ ThreadRows \/ Wake

Fairness ==
  /\ WF_vars(Pass) /\ WF_vars(Find) /\ WF_vars(ProcessRow) /\ WF_vars(Gone)
  /\ WF_vars(ThreadRows) /\ WF_vars(Wake)

Spec == Init /\ [][Next]_vars /\ Fairness

----------------------------------------------------------------------------
(* Type correctness: the times of the rows lie in the run. *)
TypeOK ==
  /\ game \in {"not yet", "there", "gone"}
  /\ thread \in {"runs", "sleeps", "ended"}
  /\ phase \in {"find", "process", "threads", "sleep", "over", "no process"}
  /\ \A row \in {p, t, k} : row = None \/ row \in 0 .. time
  /\ k /= None => t /= None /\ k <= t
  /\ t /= None => p /= None /\ t <= p
  /\ wantStack \in BOOLEAN

(* Rows of the process are never further apart than a late iteration.      *)
ProcessRowsAreRegular == gapP <= Period + Late

(* Rows of a thread are never further apart than its period and an         *)
(* iteration that had just missed it.                                      *)
ThreadRowsAreRegular == gapT <= ThreadPeriod + Period + Late - 1

(* The probe ends: with its time, with the game, or with its wait.         *)
ProbeOver == phase \in {"over", "no process"}

=============================================================================
