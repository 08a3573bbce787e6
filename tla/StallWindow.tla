---------------------------- MODULE StallWindow ----------------------------
(***************************************************************************)
(* stall_watch3.py: every poll takes one sample of the CPU the game and    *)
(* wineserver have used, keeps the last few, and reads the new lines of    *)
(* the game's log.  A line that tells of a stall is reported with the      *)
(* window of samples; so is a silence of the batcher, whose lines come     *)
(* once a second, once it has lasted Gap.                                  *)
(*                                                                         *)
(* A poll takes no time; the sleep after it may last Late longer.  Disk,   *)
(* temperatures and the cap are differences like the others.               *)
(***************************************************************************)
EXTENDS Integers, Sequences

CONSTANTS Poll, Late,   \* time between two polls, and how much more
          Gap,          \* silence of the batcher that is reported
          HistorySize,  \* samples kept
          Duration      \* how long it watches

WindowAssumption ==
  /\ {Poll, Late, Gap, HistorySize, Duration} \subseteq Nat
  /\ Poll > 0 /\ HistorySize > 0

VARIABLES time,
          ticks,          \* CPU used by the game
          batch, stalls,  \* lines of the log not read yet
          lastLine,       \* when the batcher wrote last
          ended,          \* longest silence that ended since the last poll
          missed,         \* longest silence that ended unreported
          lastTold,       \* when a silence was last reported
          phase, polled,
          history,        \* the samples kept: time and ticks
          lastBatch,      \* when a batch line was last read
          gapReported,
          told,           \* reports: of what, and their window
          stallsTold, stallsRead

world == <<time, ticks, batch, stalls, lastLine, ended, missed, lastTold>>
watch == <<phase, polled, history, lastBatch, gapReported, told, stallsTold, stallsRead>>
vars == <<world, watch>>

None == -1
NoReport == [of |-> "nothing", from |-> 0, to |-> 0, used |-> 0, gap |-> 0]

Greater(a, b) == IF a > b THEN a ELSE b

----------------------------------------------------------------------------
(* The game *)

(* A unit passes; the game may use CPU in it, and the batcher may write.   *)
(* The counter takes the time of its last move as its value.               *)
Pass ==
  /\ phase = "sleep" /\ time < polled + Poll + Late
  /\ time' = time + 1
  /\ ticks' \in {ticks, time + 1}
  /\ \/ UNCHANGED <<batch, lastLine, ended>>
     \/ /\ batch' = TRUE
        /\ lastLine' = time + 1
        /\ ended' = IF lastLine = None THEN ended
                    ELSE Greater(ended, time + 1 - lastLine)
  /\ UNCHANGED <<stalls, missed, lastTold, watch>>

(* The presenter tells of one stall. *)
Stall ==
  /\ phase \in {"start", "sleep"} /\ stalls = 0 /\ stallsRead = 0
  /\ stalls' = 1
  /\ UNCHANGED <<time, ticks, batch, lastLine, ended, missed, lastTold, watch>>

----------------------------------------------------------------------------
(* The watcher *)

Remember(h) ==
  LET all == Append(h, [time |-> time, ticks |-> ticks])
  IN  IF Len(all) > HistorySize THEN Tail(all) ELSE all

(* report: a window of fewer than two samples is not reported.             *)

Report(h, of, gap) ==
  IF Len(h) < 2 THEN NoReport
  ELSE [of |-> of, from |-> h[1].time, to |-> h[Len(h)].time,
        used |-> h[Len(h)].ticks - h[1].ticks, gap |-> gap]

(* A batch line ends the silence and lets the next one be reported. *)
\* Mutant: only the first silence is reported.
RearmedNever == gapReported
Rearmed == IF batch THEN FALSE ELSE gapReported

Heard == IF batch THEN time ELSE lastBatch

ToldNow == TRUE

(* One poll: sample, lines, silence. *)
PollOnce ==
  /\ phase = "poll"
  /\ LET h == Remember(history)
         silent == Heard /= None /\ ~Rearmed /\ time - Heard >= Gap
     IN  /\ history' = h
         /\ lastBatch' = Heard
         /\ stallsRead' = stallsRead + stalls
         /\ stallsTold' = IF stalls > 0 /\ Report(h, "stall", 0) /= NoReport
                          THEN stallsTold + stalls ELSE stallsTold
         /\ lastTold' = IF silent THEN time ELSE lastTold
         /\ gapReported' = IF silent THEN ToldNow ELSE Rearmed
         /\ told' = IF silent THEN Report(h, "gap", time - Heard)
                    ELSE IF stalls > 0 THEN Report(h, "stall", 0) ELSE NoReport
  /\ batch' = FALSE /\ stalls' = 0 /\ ended' = 0
  /\ missed' = IF lastTold > lastBatch THEN missed ELSE Greater(missed, ended)
  /\ phase' = "sleep" /\ polled' = time
  /\ UNCHANGED <<time, ticks, lastLine>>

Start ==
  /\ phase = "start"
  /\ phase' = "poll"
  /\ UNCHANGED <<world, polled, history, lastBatch, gapReported, told,
                 stallsTold, stallsRead>>

Wake ==
  /\ phase = "sleep" /\ time >= polled + Poll
  /\ phase' = IF time < Duration THEN "poll" ELSE "over"
  /\ told' = NoReport
  /\ UNCHANGED <<world, polled, history, lastBatch, gapReported, stallsTold,
                 stallsRead>>

Init ==
  /\ time = 0 /\ ticks = 0 /\ batch = FALSE /\ stalls = 0
  /\ lastLine = None /\ ended = 0 /\ missed = 0 /\ lastTold = None
  /\ phase = "start" /\ polled = 0
  /\ history = <<>> /\ lastBatch = None /\ gapReported = FALSE
  /\ told = NoReport /\ stallsTold = 0 /\ stallsRead = 0

Next == Pass \/ Stall \/ Start \/ PollOnce \/ Wake

Spec == Init /\ [][Next]_vars

----------------------------------------------------------------------------
(* Type correctness: a bounded history, in the order of time. *)
TypeOK ==
  /\ phase \in {"start", "poll", "sleep", "over"}
  /\ time \in 0 .. Duration + Poll + Late /\ ticks \in 0 .. time
  /\ Len(history) <= HistorySize
  /\ \A i \in 1 .. Len(history) - 1 : history[i].time < history[i + 1].time
  /\ lastBatch \in -1 .. time /\ stalls \in 0 .. 1
  /\ stallsTold <= stallsRead

Reported == told /= NoReport /\ phase = "sleep" /\ time = polled

(* A report is of the window that precedes it: its last sample is this     *)
(* poll's, its first one as old as the history is long, and the CPU it     *)
(* tells is what was used between the two.                                 *)
ReportIsOfTheWindow ==
  Reported =>
    /\ told.to = polled
    /\ told.from <= polled - (Poll * (Len(history) - 1))
    /\ told.from = history[1].time
    /\ told.used = history[Len(history)].ticks - history[1].ticks

(* A silence that is reported really was one: the batcher wrote nothing    *)
(* since the poll that read its last line, and that is at least Gap ago.   *)
GapIsSilence ==
  Reported /\ told.of = "gap" => told.gap >= Gap /\ lastLine + told.gap <= polled

(* The silences that end unreported are shorter than Gap and two polls     *)
(* more, less one unit.                                                    *)
LongGapIsReported == missed < Gap + (2 * (Poll + Late)) - 1

=============================================================================
