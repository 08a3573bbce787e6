----------------------------- MODULE StallWatch -----------------------------
(***************************************************************************)
(* stall_watch4.py: waits for the game and its command thread, then reads  *)
(* the game's CPU ticks and, if told to, a log's stamp every interval, and *)
(* takes one capture when either has stood still for its threshold.        *)
(*                                                                         *)
(* Time moves in units; in each the main thread, the other threads and the *)
(* log may move or not; a counter that moves takes the new time for value. *)
(* A sample takes the time first and reads the ticks and the stamp          *)
(* afterwards, and may come late.                                          *)
(***************************************************************************)
EXTENDS Naturals

CONSTANTS Interval,         \* time slept before a sample
          Late,             \* bound: how much longer the sleep may last
          Trigger,          \* standstill of the ticks that is captured
          ProgressTrigger,  \* standstill of the log that is captured
          Progress,         \* is a log watched?
          RequireCs,        \* is the command thread waited for?
          Polls,            \* bound: polls until a wait gives up
          Duration          \* how long it watches

WatchAssumption ==
  /\ {Interval, Late, Trigger, ProgressTrigger, Polls, Duration} \subseteq Nat
  /\ Interval > 0
  /\ {Progress, RequireCs} \subseteq BOOLEAN

VARIABLES time,          \* since the watch began
          game, cs,      \* does the process, the command thread exist?
          mainTicks, ticks, log,  \* of the main thread, the process, the log
          logMoved,      \* has the log grown since it was first read?
          phase,         \* what the watcher does
          polls,
          now,           \* the time taken by this sample
          slept,         \* when the last sample ended
          last,          \* last ticks and stamp seen, and when
          bursts,        \* snapshots of the capture
          reason         \* why it was taken

world == <<time, game, cs, mainTicks, ticks, log, logMoved>>
watcher == <<phase, polls, now, slept, last, bursts, reason>>
vars == <<world, watcher>>

----------------------------------------------------------------------------
(* The game *)

Counted(counter, moves) == IF moves THEN time + 1 ELSE counter

Watching == phase \in {"sleep", "read"}

(* One unit of time passes.  A sleeping watcher is woken within Late of    *)
(* its interval, a reading one within the unit.                            *)
Pass ==
  /\ Watching
  /\ phase = "sleep" => time < slept + Interval + Late
  /\ phase = "read" => time = now
  /\ time' = time + 1
  /\ \E main, other, grows \in BOOLEAN :
       /\ main \/ other \/ grows => game
       /\ grows => Progress
       /\ mainTicks' = Counted(mainTicks, main)
       /\ ticks' = Counted(ticks, main \/ other)
       /\ log' = Counted(log, grows)
       /\ logMoved' = (logMoved \/ grows)
  /\ UNCHANGED <<game, cs, watcher>>

Start ==
  /\ phase = "find game" /\ ~game
  /\ game' = TRUE
  /\ UNCHANGED <<time, cs, mainTicks, ticks, log, logMoved, watcher>>

StartCs ==
  /\ game /\ ~cs /\ phase \in {"find game", "find cs"}
  /\ cs' = TRUE
  /\ UNCHANGED <<time, game, mainTicks, ticks, log, logMoved, watcher>>

Exit ==
  /\ game /\ phase \in {"find cs", "sleep", "read"}
  /\ game' = FALSE /\ cs' = FALSE
  /\ UNCHANGED <<time, mainTicks, ticks, log, logMoved, watcher>>

----------------------------------------------------------------------------
(* Finding the game *)

Give(up) == phase' = up /\ UNCHANGED <<now, slept, last, bursts, reason>>

PollGame ==
  /\ phase = "find game"
  /\ \/ game /\ polls' = 0 /\ Give("find cs")
     \/ ~game /\ polls < Polls /\ polls' = polls + 1 /\ Give("find game")
     \/ ~game /\ polls = Polls /\ polls' = polls /\ Give("game not running")
  /\ UNCHANGED world

\* Mutant: the wait for the thread is not counted.
PollCsForever ==
  /\ phase = "find cs"
  /\ RequireCs /\ game /\ ~cs
  /\ polls' = polls /\ Give("find cs")
  /\ UNCHANGED world

(* The thread is looked for once, and waited for only if it is required.   *)
PollCs ==
  /\ phase = "find cs"
  /\ RequireCs /\ game /\ ~cs
  /\ \/ polls < Polls /\ polls' = polls + 1 /\ Give("find cs")
     \/ polls = Polls /\ polls' = polls /\ Give("no command thread")
  /\ UNCHANGED world

LoseGame ==
  /\ phase = "find cs" /\ ~game
  /\ polls' = polls /\ Give("game exited")
  /\ UNCHANGED world

Seen(at) == [ticks |-> ticks, moved |-> at, log |-> log, logMoved |-> at,
             armed |-> FALSE]

(* The first ticks and the first stamp. *)
Arm ==
  /\ phase = "find cs" /\ game
  /\ RequireCs => cs
  /\ phase' = "sleep"
  /\ slept' = time
  /\ last' = Seen(time)
  /\ UNCHANGED <<world, polls, now, bursts, reason>>

----------------------------------------------------------------------------
(* Watching *)

(* The sleep is over: the time is taken. *)
Wake ==
  /\ phase = "sleep"
  /\ time >= slept + Interval
  /\ IF slept >= Duration
     THEN Give("no stall") /\ polls' = polls
     ELSE /\ phase' = "read" /\ now' = time
          /\ UNCHANGED <<polls, slept, last, bursts, reason>>
  /\ UNCHANGED world

Capture(why) ==
  /\ phase' = "capture"
  /\ reason' = why
  /\ UNCHANGED <<polls, now, slept, last, bursts>>

Sleep(seen) ==
  /\ phase' = "sleep"
  /\ slept' = time
  /\ last' = seen
  /\ UNCHANGED <<polls, now, bursts, reason>>

(* What a change of the log makes of it: the log is watched from its first *)
(* change on.                                                              *)

LogSeen ==
  IF Progress /\ log /= last.log
  THEN [last EXCEPT !.log = log, !.logMoved = now, !.armed = TRUE]
  ELSE last

LogStands ==
  /\ Progress /\ log = last.log /\ last.armed
  /\ now - last.logMoved >= ProgressTrigger

(* The log is judged first; ticks that moved end the sample.               *)

\* Mutant: the last ticks are not kept.
JudgeTicksForgotten ==
  LET seen == LogSeen
  IN  IF ticks /= seen.ticks THEN Sleep([seen EXCEPT !.moved = now])
      ELSE IF now - seen.moved >= Trigger THEN Capture("main-cpu-no-progress")
      ELSE Sleep(seen)

JudgeTicks ==
  LET seen == LogSeen
  IN  IF ticks /= seen.ticks THEN Sleep([seen EXCEPT !.ticks = ticks, !.moved = now])
      ELSE IF now - seen.moved >= Trigger THEN Capture("main-cpu-no-progress")
      ELSE Sleep(seen)

Sample ==
  /\ phase = "read" /\ game
  /\ IF LogStands THEN Capture("render-log-no-progress") ELSE JudgeTicks
  /\ UNCHANGED world

Vanish ==
  /\ phase = "read" /\ ~game
  /\ polls' = polls /\ Give("game exited")
  /\ UNCHANGED world

\* Mutant: one snapshot too many.
BurstFour ==
  /\ phase = "capture"
  /\ bursts' = bursts + 1
  /\ phase' = IF bursts = 3 THEN "captured" ELSE "capture"
  /\ UNCHANGED <<world, polls, now, slept, last, reason>>

(* Three snapshots, and the watcher is done. *)
Burst ==
  /\ phase = "capture"
  /\ bursts' = bursts + 1
  /\ phase' = IF bursts = 2 THEN "captured" ELSE "capture"
  /\ UNCHANGED <<world, polls, now, slept, last, reason>>

Init ==
  /\ time = 0 /\ game = FALSE /\ cs = FALSE /\ mainTicks = 0 /\ ticks = 0
  /\ log = 0 /\ logMoved = FALSE
  /\ phase = "find game" /\ polls = 0 /\ now = 0 /\ slept = 0
  /\ last = Seen(0)
  /\ bursts = 0 /\ reason = "none"

Next == \/ Pass \/ Start \/ StartCs \/ Exit
        \/ PollGame \/ PollCs \/ LoseGame \/ Arm
        \/ Wake \/ Sample \/ Vanish \/ Burst

Fairness ==
  /\ WF_vars(PollGame) /\ WF_vars(PollCs) /\ WF_vars(LoseGame) /\ WF_vars(Arm)
  /\ WF_vars(Pass) /\ WF_vars(Wake) /\ WF_vars(Sample) /\ WF_vars(Vanish)
  /\ WF_vars(Burst)

Spec == Init /\ [][Next]_vars /\ Fairness

----------------------------------------------------------------------------
Ended == phase \in {"captured", "no stall", "game exited", "game not running",
                    "no command thread"}

\* The watcher's own state.
TypeOK ==
  /\ phase \in {"find game", "find cs", "sleep", "read", "capture", "captured",
                "no stall", "game exited", "game not running", "no command thread"}
  /\ polls \in 0 .. Polls /\ bursts \in 0 .. 3
  /\ last.ticks <= ticks /\ last.log <= log
  /\ last.moved <= now /\ last.logMoved <= now /\ now <= time
  /\ reason \in {"none", "main-cpu-no-progress", "render-log-no-progress"}

idle == time - ticks
logIdle == time - log

(* How long after a standstill has lasted its threshold the capture is     *)
(* due: the sample that saw the last move may have taken its time a unit   *)
(* after it, the next one may be a sleep and a read away.                  *)
Slack == (2 * (Interval + Late)) + 2

\* A capture is of a standstill: when it is taken the process has used no CPU,
\* or the log has not grown, for the threshold less the unit a sample lasts.
CaptureIsOfAStall ==
  /\ phase = "capture" /\ reason = "main-cpu-no-progress" => idle + 1 >= Trigger
  /\ phase = "capture" /\ reason = "render-log-no-progress" =>
       logIdle + 1 >= ProgressTrigger

\* No standstill of the process outlives its threshold by more than Slack
\* while the watcher runs, however the log moves and however late it samples.
StallIsCaught == Watching /\ game => idle < Trigger + Slack

\* The same for the log, once it has grown since it was first read.
LogStallIsCaught == Watching /\ game /\ logMoved => logIdle < ProgressTrigger + Slack

=============================================================================
