---------------------------- MODULE PresentGaps ----------------------------
(***************************************************************************)
(* Times without a present, and the waits in them.  dxvk_present_count.py  *)
(* reads the counter of presents every Interval; dxvk_present_trace_       *)
(* analyze.py joins its empty windows to gaps; dxvk_wait_gap_analyze.py    *)
(* sums the rows of the wait census that fall in each gap.                 *)
(*                                                                         *)
(* Time is in half milliseconds, because the rows have their time in whole *)
(* milliseconds, cut off, and their length to the microsecond.  One thread *)
(* waits, at one site.  The counter's wrap, markers and the ranking of     *)
(* gaps are left out.                                                      *)
(***************************************************************************)
EXTENDS Integers, Sequences, SequencesExt, FiniteSets, FiniteSetsExt

CONSTANTS Interval,      \* of the present reader
          Windows,       \* how many rows it writes
          Late,          \* it wakes up to Late after its deadline
          ReadDelay,     \* and reads the counter up to ReadDelay after the clock
          MaxPresents,   \* bound: presents
          WaitInterval,  \* of the census reader
          MaxCalls       \* bound: waits

GapAssumption ==
  /\ {Interval, WaitInterval, Windows} \subseteq Nat \ {0}
  /\ {Late, ReadDelay, MaxPresents, MaxCalls} \subseteq Nat

VARIABLES time,
          presents,            \* when the game presented
          calls,               \* its waits: from when, until when
          phase, deadline,     \* of the present reader
          clock, counted,      \* the time and the count it last took
          before,              \* the clock of the row before
          rows,                \* its output
          start,               \* the clock of its first line
          waitDeadline, waitClock, waitCounted, waitRows  \* the same of the census reader

game == <<presents, calls>>
reader == <<phase, deadline, clock, counted, before, rows, start>>
census == <<waitDeadline, waitClock, waitCounted, waitRows>>
vars == <<time, game, reader, census>>

Open == -1

Done == phase = "done"

----------------------------------------------------------------------------
(* The game *)

Pass ==
  /\ phase = "start" => time < 1
  /\ phase = "sleep" => time < deadline + Late
  /\ phase \in {"first", "read"} => time < clock + ReadDelay
  /\ ~Done
  /\ time < waitDeadline
  /\ time' = time + 1
  /\ UNCHANGED <<game, reader, census>>

Present ==
  /\ time \notin presents /\ Cardinality(presents) < MaxPresents /\ ~Done
  /\ presents' = presents \cup {time}
  /\ UNCHANGED <<time, calls, reader, census>>

Waiting == calls # <<>> /\ Last(calls).until = Open

BeginWait ==
  /\ ~Waiting /\ Len(calls) < MaxCalls /\ ~Done
  /\ calls' = Append(calls, [from |-> time, until |-> Open])
  /\ UNCHANGED <<time, presents, reader, census>>

EndWait ==
  /\ Waiting /\ ~Done
  /\ calls' = [calls EXCEPT ![Len(calls)].until = time]
  /\ UNCHANGED <<time, presents, reader, census>>

----------------------------------------------------------------------------
(* dxvk_present_count.py *)

Tick(t) == t \div 2

(* First the count, and then the clock. *)
FirstCount ==
  /\ phase = "start"
  /\ counted' = Cardinality(presents)
  /\ clock' = time
  /\ phase' = "first"
  /\ UNCHANGED <<time, game, deadline, before, rows, start, census>>

FirstClock ==
  /\ phase = "first"
  /\ clock' = time /\ before' = time /\ start' = time
  /\ deadline' = time + Interval
  /\ phase' = "sleep"
  /\ UNCHANGED <<time, game, counted, rows, census>>

(* From here on first the clock, and then the count. *)
Wake ==
  /\ phase = "sleep" /\ time >= deadline
  /\ clock' = time
  /\ phase' = "read"
  /\ UNCHANGED <<time, game, deadline, counted, before, rows, start, census>>

Read ==
  /\ phase = "read"
  /\ rows' = Append(rows, [tick |-> Tick(clock), frames |-> Cardinality(presents) - counted,
                           elapsed |-> clock - before])
  /\ counted' = Cardinality(presents)
  /\ before' = clock
  /\ deadline' = deadline + Interval
  /\ phase' = IF Len(rows') = Windows THEN "done" ELSE "sleep"
  /\ UNCHANGED <<time, game, clock, start, census>>

----------------------------------------------------------------------------
(* wait_census_read.py: a row when calls began or one is active. *)

ReadWaits ==
  /\ time >= waitDeadline /\ ~Done
  /\ LET new == Len(calls) - waitCounted
     IN waitRows' = IF new > 0 \/ Waiting
                    THEN Append(waitRows, [tick |-> Tick(time), elapsed |-> time - waitClock,
                                           calls |-> new, active |-> Waiting])
                    ELSE waitRows
  /\ waitCounted' = Len(calls)
  /\ waitClock' = time
  /\ waitDeadline' = waitDeadline + WaitInterval
  /\ UNCHANGED <<time, game, reader>>

----------------------------------------------------------------------------
(* dxvk_present_trace_analyze.py *)

(* round(elapsed_ms): a half goes to the even side. *)
Rounded(e) ==
  LET whole == e \div 2
  IN IF e % 2 = 0 \/ whole % 2 = 0 THEN whole ELSE whole + 1

NoStart == -1000

Begin(row) == row.tick - Rounded(row.elapsed)

Empty == [start |-> NoStart, duration |-> 0, windows |-> 0]

\* Mutant: the next gap goes on with the duration of the last.
AfterGapKept(run) == [run EXCEPT !.start = NoStart]

AfterGap(run) == Empty

GapOf(run, row) == [start |-> run.start, end |-> row.tick, duration |-> run.duration]

Joined(run, row) ==
  [start |-> IF run.start = NoStart THEN Begin(row) ELSE run.start,
   duration |-> run.duration + row.elapsed,
   windows |-> run.windows + 1]

Scan(acc, row) ==
  CASE row.frames = 0 -> [acc EXCEPT !.run = Joined(@, row)]
    [] row.frames > 0 /\ acc.run.start # NoStart ->
         [gaps |-> Append(acc.gaps, GapOf(acc.run, row)), run |-> AfterGap(acc.run)]
    [] OTHER -> acc

(* find_gaps *)
Gaps ==
  LET end == FoldLeft(Scan, [gaps |-> <<>>, run |-> Empty], rows)
  IN IF end.run.start # NoStart
     THEN Append(end.gaps, [start |-> end.run.start, end |-> Last(rows).tick, duration |-> end.run.duration])
     ELSE end.gaps

----------------------------------------------------------------------------
(* dxvk_wait_gap_analyze.py *)

Selected(g) == SelectSeq(waitRows, LAMBDA r : g.start < r.tick /\ r.tick <= g.end)

CallsIn(g) == FoldLeft(LAMBDA sum, r : sum + r.calls, 0, Selected(g))

ActiveIn(g) == FoldLeft(LAMBDA sum, r : IF r.active THEN sum + r.elapsed ELSE sum, 0, Selected(g))

----------------------------------------------------------------------------
Init ==
  /\ time = 0
  /\ presents = {} /\ calls = <<>>
  /\ phase = "start" /\ deadline = 0 /\ clock = 0 /\ counted = 0 /\ before = 0 /\ start = 0
  /\ rows = <<>>
  /\ waitDeadline \in 0..WaitInterval - 1 /\ waitClock = 0 /\ waitCounted = 0
  /\ waitRows = <<>>

Next ==
  \/ Pass \/ Present \/ BeginWait \/ EndWait
  \/ FirstCount \/ FirstClock \/ Wake \/ Read
  \/ ReadWaits

Spec == Init /\ [][Next]_vars

----------------------------------------------------------------------------
(* Rows have their windows, in order. *)
TypeOK ==
  /\ phase \in {"start", "first", "sleep", "read", "done"}
  /\ Len(rows) <= Windows /\ (Done <=> Len(rows) = Windows)
  /\ \A i \in 1..Len(rows) : rows[i].elapsed > 0 /\ rows[i].frames \in Nat
  /\ \A g \in ToSet(Gaps) : g.start < g.end /\ g.duration > 0

(* What was silent: from a present, or from the beginning, to the next     *)
(* one, or to now.                                                         *)
Silences ==
  LET ends == presents \cup {time}
  IN {<<p, q>> \in (presents \cup {0}) \X ends :
        p < q /\ \A x \in presents : ~(p < x /\ x < q)}

Widest == Interval + Late + ReadDelay

Overlaps(s, g) == s[1] <= 2 * g.end + 1 /\ s[2] >= 2 * g.start

(* A reported gap is a lower bound: there was a silence as long as it      *)
(* says, but for the time that passed between the clock and the count.     *)
LowerBound ==
  Done => \A g \in ToSet(Gaps) :
    \E s \in Silences : Overlaps(s, g) /\ s[2] - s[1] >= g.duration - ReadDelay

(* A silence of two windows is reported, and at most two windows of it are *)
(* missing.                                                                *)
LongSilenceIsReported ==
  Done => \A s \in Silences :
    LET from == IF s[1] < start THEN start ELSE s[1]
        to == IF s[2] > clock THEN clock ELSE s[2]
    IN to - from > 2 * Widest =>
         \E g \in ToSet(Gaps) : Overlaps(s, g) /\ g.duration >= to - from - 2 * Widest

(* Two gaps are apart, but for the rounding of a millisecond, and together *)
(* they are not longer than the recording.                                 *)
GapsAreApart ==
  Done =>
    /\ \A i \in 1..Len(Gaps) - 1 : Gaps[i].end <= Gaps[i + 1].start + 1
    /\ FoldLeft(LAMBDA sum, g : sum + g.duration, 0, Gaps) <= clock - start

(* The present that ended a gap came before the end that is reported, and  *)
(* at most a window before it.                                             *)
GapEndsWithPresent ==
  Done => \A g \in ToSet(Gaps) :
    \/ g.end = Last(rows).tick
    \/ \E x \in presents : x <= 2 * g.end + 1 + ReadDelay /\ x >= 2 * g.end - Widest

Begun(from, to) == Cardinality({i \in 1..Len(calls) : from < calls[i].from /\ calls[i].from <= to})

(* A wait that is counted in a gap began in it, or in the window of the    *)
(* census before it; one that only went on is not counted.                 *)
CallsAreNear ==
  Done => \A g \in ToSet(Gaps) : CallsIn(g) <= Begun(2 * g.start - WaitInterval - 1, 2 * g.end + 1)

(* A wait that went on in a gap shows in its active time, but for a window *)
(* of the census at either end.                                            *)
ActiveWaitIsSeen ==
  Done => \A g \in ToSet(Gaps) : \A i \in 1..Len(calls) :
    LET until == IF calls[i].until = Open THEN time ELSE calls[i].until
        from == Max({calls[i].from, 2 * g.start})
        to == Min({until, 2 * g.end, waitClock})
    IN ActiveIn(g) >= to - from - 2 * WaitInterval - 2
=============================================================================
