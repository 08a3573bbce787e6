----------------------------- MODULE FrameLimit -----------------------------
(***************************************************************************)
(* frame_limit_probe.py: what limits the frame.  Once a second the probe   *)
(* reads the cap of the CPU and the time used by a few threads, chosen     *)
(* once by the CPU they had used so far; before and after it reads how     *)
(* long the GPU has been at each frequency.  Then it decides between CPU,  *)
(* GPU and neither, and whether the cap fell.                              *)
(*                                                                         *)
(* A second is Period units; a sleep lasts up to Late longer.  The reads   *)
(* of one row take no time.  Rounding, temperatures and the frame rate are *)
(* left out; the rows are kept as the sums and counts that are taken of    *)
(* them.                                                                   *)
(***************************************************************************)
EXTENDS Naturals, FiniteSets

CONSTANTS Threads,   \* of the game
          TRACKED,   \* how many are followed
          Period, Late,
          Seconds,   \* how long the probe samples, in units
          HaveGpu    \* does the device tell the time at each GPU frequency?

LimitAssumption ==
  /\ IsFiniteSet(Threads)
  /\ {TRACKED, Period, Late, Seconds} \subseteq Nat /\ Period > 0
  /\ HaveGpu \in BOOLEAN

VARIABLES alive,      \* threads that have not ended
          ticks,      \* per thread: CPU used
          gpu,        \* time the GPU spent at each frequency
          cap,        \* the CPU's cap: high or low
          lowFor, longestLow,  \* how long the cap has been low, and was
          phase, time,
          seed,       \* per thread: CPU used when the threads were chosen
          tracked, prev,
          prevWall,   \* when the last row was taken
          startTrans, endTrans,
          sum, count, \* per tracked thread: of its rows
          capMin,     \* lowest cap of the rows
          verdicts

game == <<alive, ticks, gpu, cap, lowFor, longestLow>>
rows == <<sum, count, capMin>>
probe == <<phase, time, seed, tracked, prev, prevWall, startTrans, endTrans,
           rows, verdicts>>
vars == <<game, probe>>

Frequencies == {"lower", "max"}
NoTime == [f \in Frequencies |-> 0]
Gone == 1000      \* thread_cpu's None
Scale == 6        \* a whole core; Period and Period + Late divide it

Greater(a, b) == IF a > b THEN a ELSE b

----------------------------------------------------------------------------
(* The game and the machine *)

(* A unit passes: threads run or not, the GPU is at one frequency, the cap *)
(* is moved or left.                                                       *)
Pass ==
  /\ phase = "sleep" /\ time < prevWall + Period + Late
  /\ time' = time + 1
  /\ \E running \in SUBSET alive :
       ticks' = [t \in Threads |-> IF t \in running THEN ticks[t] + 1 ELSE ticks[t]]
  /\ \E f \in Frequencies : gpu' = [gpu EXCEPT ![f] = gpu[f] + 1]
  /\ cap' \in {"high", "low"}
  /\ lowFor' = IF cap' = "low" THEN lowFor + 1 ELSE 0
  /\ longestLow' = Greater(longestLow, lowFor')
  /\ UNCHANGED <<alive, phase, seed, tracked, prev, prevWall, startTrans,
                 endTrans, rows, verdicts>>

End(t) ==
  /\ t \in alive /\ phase = "sleep"
  /\ alive' = alive \ {t}
  /\ UNCHANGED <<ticks, gpu, cap, lowFor, longestLow, probe>>

----------------------------------------------------------------------------
(* The probe *)

ThreadCpu(t) == IF t \in alive THEN ticks[t] ELSE Gone
GpuTransStat == IF HaveGpu THEN gpu ELSE NoTime

(* The threads that have used most so far, with the first reading of each. *)
Most(chosen) ==
  \A t \in chosen, u \in alive \ chosen : ticks[t] >= ticks[u]

\* Mutant: one thread more than TRACKED is followed.
ChosenMore == {c \in SUBSET alive : Most(c) /\ Cardinality(c) =
  IF TRACKED + 1 < Cardinality(alive) THEN TRACKED + 1 ELSE Cardinality(alive)}

Chosen == {c \in SUBSET alive : Most(c) /\ Cardinality(c) =
  IF TRACKED < Cardinality(alive) THEN TRACKED ELSE Cardinality(alive)}

Choose ==
  /\ phase = "start"
  /\ tracked' \in Chosen
  /\ seed' = ticks
  /\ prev' = [t \in Threads |-> ThreadCpu(t)]
  /\ startTrans' = GpuTransStat
  /\ phase' = "sleep"
  /\ UNCHANGED <<game, time, prevWall, endTrans, rows, verdicts>>

\* Mutant: every row is taken from the first reading.
KeepFirst == UNCHANGED prev
Keep == prev' = [t \in Threads |-> IF t \in tracked THEN ThreadCpu(t) ELSE prev[t]]

(* A thread has a figure in a row if it was there now and the row before.  *)
Measured(t) == t \in tracked /\ t \in alive /\ prev[t] /= Gone

CapSeen == IF cap = "low" \/ capMin = "low" THEN "low" ELSE "high"

(* The sleep is over: one row.  The probe stops when its seconds are over. *)
Sample ==
  /\ phase = "sleep" /\ time >= prevWall + Period
  /\ prevWall' = time
  /\ sum' = [t \in Threads |->
       IF Measured(t) THEN sum[t] + (((ticks[t] - prev[t]) * Scale) \div (time - prevWall))
       ELSE sum[t]]
  /\ count' = [t \in Threads |-> IF Measured(t) THEN count[t] + 1 ELSE count[t]]
  /\ capMin' = CapSeen
  /\ Keep
  /\ phase' = IF time < Seconds THEN "sleep" ELSE "decide"
  /\ endTrans' = IF time < Seconds THEN endTrans ELSE GpuTransStat
  /\ UNCHANGED <<game, time, seed, tracked, startTrans, verdicts>>

(* Mean occupancy against a share of a core, in hundredths. *)
Known == {t \in tracked : count[t] > 0}
SomeAtLeast(share) == \E t \in Known : 100 * sum[t] >= share * Scale * count[t]
NoneAbove(share) == \A t \in Known : 100 * sum[t] <= share * Scale * count[t]

Residency(f) == endTrans[f] - startTrans[f]

GpuAtMax == 2 * Residency("max") > Residency("max") + Residency("lower")

(* The decision rule. *)
Decide ==
  /\ phase = "decide"
  /\ verdicts' =
       (IF capMin = "low" THEN {"THERMAL"} ELSE {}) \cup
       (CASE SomeAtLeast(90) -> {"CPU-BOUND"}
          [] NoneAbove(75) /\ GpuAtMax -> {"GPU-BOUND"}
          [] NoneAbove(75) /\ ~GpuAtMax -> {"NEITHER"}
          [] OTHER -> {})
  /\ phase' = "decided"
  /\ UNCHANGED <<game, time, seed, tracked, prev, prevWall, startTrans,
                 endTrans, rows>>

Init ==
  /\ alive = Threads
  /\ \E t \in Threads : ticks = [u \in Threads |-> IF u = t THEN 1 ELSE 0]
  /\ gpu \in {[NoTime EXCEPT !["max"] = n] : n \in {0, 2 * Period}}
  /\ cap = "high" /\ lowFor = 0 /\ longestLow = 0
  /\ phase = "start" /\ time = 0 /\ prevWall = 0
  /\ seed = [t \in Threads |-> 0] /\ tracked = {}
  /\ prev = [t \in Threads |-> Gone]
  /\ startTrans = NoTime /\ endTrans = NoTime
  /\ sum = [t \in Threads |-> 0] /\ count = [t \in Threads |-> 0]
  /\ capMin = "high"
  /\ verdicts = {}

Next == Pass \/ (\E t \in Threads : End(t)) \/ Choose \/ Sample \/ Decide

Spec == Init /\ [][Next]_vars

----------------------------------------------------------------------------
(* Type correctness: the probe follows TRACKED threads at most, and knows  *)
(* of each no more rows than there were.                                   *)
TypeOK ==
  /\ alive \subseteq Threads /\ tracked \subseteq Threads
  /\ Cardinality(tracked) <= TRACKED
  /\ phase \in {"start", "sleep", "decide", "decided"}
  /\ time \in 0 .. Seconds + Period + Late /\ prevWall \in 0 .. time
  /\ {cap, capMin} \subseteq {"high", "low"}
  /\ \A t \in Threads : count[t] * Period <= time /\ sum[t] <= count[t] * Scale
  /\ verdicts \subseteq {"THERMAL", "CPU-BOUND", "GPU-BOUND", "NEITHER"}

Used(t) == ticks[t] - seed[t]

(* CPU-BOUND is of a thread that really ran nine tenths of the seconds it  *)
(* was measured for; without it, a thread measured to the end ran at most  *)
(* that part of them, sleeps included.                                     *)
CpuVerdictIsTrue ==
  phase = "decided" =>
    /\ "CPU-BOUND" \in verdicts =>
         \E t \in tracked : count[t] > 0 /\ 10 * Used(t) >= 9 * Period * count[t]
    /\ "CPU-BOUND" \notin verdicts =>
         \A t \in tracked \cap alive : count[t] > 0 =>
           10 * Used(t) <= 9 * (Period + Late) * count[t]

Spent(f) == gpu[f] - startTrans[f]

(* GPU-BOUND and NEITHER are told apart by what the GPU really did while   *)
(* the probe sampled: at its maximum for more than half of the time, or    *)
(* not.                                                                    *)
GpuVerdictIsTrue ==
  phase = "decided" =>
    /\ "GPU-BOUND" \in verdicts => Spent("max") > Spent("lower")
    /\ "NEITHER" \in verdicts => Spent("max") <= Spent("lower")

(* A cap that was low for as long as a late row lasts is told, however     *)
(* briefly it was high before and after; one that was never low is not.    *)
CapFallIsTold ==
  phase = "decided" =>
    /\ longestLow >= Period + Late => "THERMAL" \in verdicts
    /\ "THERMAL" \in verdicts => longestLow > 0

=============================================================================
