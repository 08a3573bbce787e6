-------------------------- MODULE PressureSampler --------------------------
(***************************************************************************)
(* device_pressure_count.py: a row of differences for every interval, kept *)
(* in memory and printed at the end.  A snapshot reads the system's        *)
(* counters, the process's stat, status and io files and the disk's        *)
(* counters one after the other, while they move and while the process may *)
(* end.  The system's and the disk's counters are one each here and move   *)
(* with the clock; those of stat and of io are one, too.                   *)
(***************************************************************************)
EXTENDS Integers, Sequences, SequencesExt

CONSTANTS Interval,   \* between two deadlines
          Slow,       \* bound: how long a snapshot takes
          Late,       \* bound: how much longer a sleep lasts
          Windows,    \* rows asked for
          HaveIo,     \* does the kernel have /proc/PID/io?
          ReadsRace   \* may the process end between open and read?

SamplerAssumption ==
  /\ {Interval, Slow, Late, Windows} \subseteq Nat
  /\ Slow <= Interval /\ Interval > 0
  /\ {HaveIo, ReadsRace} \subseteq BOOLEAN

VARIABLES time,       \* the clock, and the system's counter
          process,    \* the process's counter
          alive,      \* is the process there?
          stop,       \* has TERM or INT come?
          phase,      \* what the sampler does
          took,       \* time the snapshot has taken
          current, previous,  \* readings
          now, previousTime, deadline, startTime,
          rows,
          sinceStop,  \* rows made since the signal
          base        \* the first snapshot

world == <<time, process, alive, stop>>
readings == <<took, current, previous>>
clocks == <<now, previousTime, deadline, startTime>>
vars == <<world, phase, readings, clocks, rows, sinceStop, base>>

Snapping == phase \in {"system", "stat", "status", "io", "disk"}
NoReading == [system |-> 0, process |-> 0, io |-> 0, disk |-> 0]

----------------------------------------------------------------------------
(* The machine *)

Pass ==
  /\ \/ Snapping /\ took < Slow /\ took' = took + 1
     \/ phase = "sleep" /\ time < deadline + Late /\ UNCHANGED took
  /\ time' = time + 1
  /\ \E p \in 0 .. 1 :
       /\ p = 1 => alive
       /\ process' = process + p
  /\ UNCHANGED <<alive, stop, phase, current, previous, clocks, rows, sinceStop, base>>

Exit ==
  /\ alive /\ startTime >= 0 /\ alive' = FALSE
  /\ UNCHANGED <<time, process, stop, phase, readings, clocks, rows, sinceStop, base>>

Signal ==
  /\ ~stop /\ startTime >= 0 /\ stop' = TRUE
  /\ UNCHANGED <<time, process, alive, phase, readings, clocks, rows, sinceStop, base>>

----------------------------------------------------------------------------
(* snapshot *)

Reads(at, next, reading) ==
  /\ phase = at
  /\ phase' = next
  /\ current' = reading
  /\ UNCHANGED <<world, took, previous, clocks, rows, sinceStop, base>>

ReadSystem == Reads("system", "stat", [current EXCEPT !.system = time])

(* A file that is not there ends the reader's loop; one whose process ends  *)
(* after it was opened fails with another error, that nothing catches.      *)
ReadStat ==
  \/ alive /\ Reads("stat", "status", [current EXCEPT !.process = process])
  \/ ~alive /\ Reads("stat", "print", current)
  \/ ~alive /\ ReadsRace /\ Reads("stat", "crashed", current)

ReadStatus ==
  \/ alive /\ Reads("status", "io", current)
  \/ ~alive /\ Reads("status", "print", current)
  \/ ~alive /\ ReadsRace /\ Reads("status", "crashed", current)

(* A missing io file is read as zero. *)
ReadIo ==
  \/ HaveIo /\ alive /\ Reads("io", "disk", [current EXCEPT !.io = process])
  \/ ~(HaveIo /\ alive) /\ Reads("io", "disk", [current EXCEPT !.io = 0])
  \/ HaveIo /\ ~alive /\ ReadsRace /\ Reads("io", "crashed", current)

ReadDisk == Reads("disk", IF startTime < 0 THEN "first" ELSE "row",
                  [current EXCEPT !.disk = time])

Snapshot == ReadSystem \/ ReadStat \/ ReadStatus \/ ReadIo \/ ReadDisk

----------------------------------------------------------------------------
(* The loop *)

\* Mutant: the next deadline is an interval from now.
NextDeadlineDrifts == deadline' = time + Interval
NextDeadline == deadline' = deadline + Interval

(* A window begins with its deadline, unless the reader was told to stop.  *)
Window ==
  IF stop \/ Len(rows') = Windows
  THEN phase' = "print" /\ UNCHANGED deadline
  ELSE phase' = "sleep" /\ NextDeadline

First ==
  /\ phase = "first"
  /\ previous' = current
  /\ previousTime' = time /\ startTime' = time
  /\ deadline' = time + Interval
  /\ phase' = "sleep"
  /\ base' = current
  /\ UNCHANGED <<world, took, current, now, rows, sinceStop>>

(* A deadline already past is not slept for; a signal does not cut the     *)
(* sleep short.                                                            *)
Wake ==
  /\ phase = "sleep" /\ time >= deadline
  /\ phase' = "system"
  /\ now' = time
  /\ took' = 0
  /\ UNCHANGED <<world, current, previous, previousTime, deadline, startTime, rows, sinceStop, base>>

Difference(key) == current[key] - previous[key]

\* Mutant: the differences are always to the first snapshot.
KeepFirst == previous' = previous /\ previousTime' = now
Keep == previous' = current /\ previousTime' = now

Row ==
  /\ phase = "row"
  /\ rows' = Append(rows,
       [at |-> now, elapsed |-> now - previousTime,
        system |-> Difference("system"), process |-> Difference("process"),
        io |-> Difference("io"), disk |-> Difference("disk")])
  /\ sinceStop' = IF stop THEN sinceStop + 1 ELSE sinceStop
  /\ Keep
  /\ Window
  /\ UNCHANGED <<world, took, current, now, startTime, base>>

Finish ==
  /\ phase = "print"
  /\ phase' = "printed"
  /\ UNCHANGED <<world, readings, clocks, rows, sinceStop, base>>

Init ==
  /\ time = 0 /\ process = 0 /\ alive = TRUE /\ stop = FALSE
  /\ phase = "system" /\ took = 0
  /\ current = NoReading /\ previous = NoReading
  /\ now = 0 /\ previousTime = 0 /\ deadline = 0 /\ startTime = -1
  /\ rows = <<>> /\ sinceStop = 0 /\ base = NoReading

Next == Pass \/ Exit \/ Signal \/ Snapshot \/ First \/ Wake \/ Row \/ Finish

Spec == Init /\ [][Next]_vars

----------------------------------------------------------------------------
Keys == {"system", "process", "io", "disk"}

\* The sampler's phases, and readings that the counters have passed.
TypeOK ==
  /\ phase \in {"system", "stat", "status", "io", "disk", "first", "sleep",
                "row", "print", "printed", "crashed"}
  /\ Len(rows) <= Windows
  /\ \A k \in Keys : current[k] >= 0 /\ previous[k] >= 0
  /\ took <= Slow

SumOf(key) == FoldSeq(LAMBDA r, sum : r[key] + sum, 0, rows)

\* Nothing falls between two rows and nothing is counted in two: the rows of
\* a column add up to what the counter gained from the first reading to the
\* last, and their durations to the time between them.
RowsTile ==
  startTime >= 0 =>
    /\ SumOf("elapsed") = previousTime - startTime
    /\ rows /= <<>> => previousTime = Last(rows).at
    /\ \A k \in Keys : SumOf(k) = previous[k] - base[k]

\* A counter that only grows gives no row below zero.
NoRowIsNegative == \A i \in 1 .. Len(rows) : \A k \in Keys : rows[i][k] >= 0

\* A late sample does not put off the ones after it: row n is taken between
\* its own deadline, n intervals after the start, and Late later.
RowsDoNotDrift ==
  \A n \in 1 .. Len(rows) :
    /\ rows[n].at >= startTime + (n * Interval)
    /\ rows[n].at <= startTime + (n * Interval) + Late

\* After TERM or INT the reader makes at most the row it is in.
StopIsHonoured == sinceStop <= 1

=============================================================================
