--------------------------- MODULE SynthTimeline ----------------------------
(***************************************************************************)
(* The two clocks of the dmsynth sink after a suspend (patches 60, 83 and  *)
(* 85): the DirectSound transport, which stops and is re-armed by the      *)
(* timing thread, and the map from reference time to sample positions,     *)
(* which the render thread re-anchors when it finds the marker the re-arm  *)
(* left.  Meanwhile the game queues notes, each mapped when it is queued.  *)
(*                                                                         *)
(* A byte is a sample here, and each conversion between samples and        *)
(* reference time is the code's own, truncation for truncation: the rate   *)
(* need not divide a second, and RefTimeToSample counts whole steps of     *)
(* 100 us where every other conversion truncates once.  The lifecycle of   *)
(* the sink is module SynthSink; the 32-bit end of written is left out.    *)
(***************************************************************************)
EXTENDS Integers, Sequences, SequencesExt

CONSTANTS
    Hz,        \* format->nSamplesPerSec
    Coarse,    \* units of reference time in a step of RefTimeToSample(): 1000
    Ticks,     \* such steps in a second: 10000
    Millis,    \* milliseconds in a second, in which the write wait is counted
    Period,    \* WRITE_PERIOD, in milliseconds
    Buf,       \* caps->dwBufferBytes
    Lead,      \* how far the write cursor is ahead of the play cursor
    Jitter,    \* sink_jitter_bytes()
    Gate,      \* SINK_TIMELINE_REBASE_MIN_100NS
    Gaps,      \* how long a suspend lasts
    Delays,    \* how far ahead of the present a note is stamped
    MaxTime, MaxGaps, MaxNotes, MaxFails  \* bounds

\* Units of reference time in a second, and samples_size.
Second == Coarse * Ticks

Block == (Period * Hz) \div Millis

SizeAssumption ==
    /\ Hz \in Nat \ {0} /\ Buf \in Nat \ {0} /\ Coarse \in Nat \ {0} /\ Ticks \in Nat \ {0}
    /\ Millis \in Nat \ {0} /\ Second % Millis = 0
    /\ Period \in Nat /\ Millis <= Period * Hz
    /\ Lead \in Nat /\ Jitter \in Nat /\ Gate \in Nat
InputAssumption == Gaps \subseteq Nat /\ Delays \subseteq Nat
BoundAssumption == MaxTime \in Nat /\ MaxGaps \in Nat /\ MaxNotes \in Nat /\ MaxFails \in Nat

\* The gate is 250 ms, thousands of samples: a rebase moves the queue at all.
GateAssumption == Second <= Gate * Hz

VARIABLES
    now,      \* the master clock
    cursor,   \* where the transport really plays, Second to a sample
    running,  \* does the transport advance?
    shown,    \* sink->play_pos, write_pos and play_pos_time
    timing,   \* the timing thread: its place, and the cursors it has read
    pending,  \* sink->timeline_rebase_pending
    activate, \* sink->activate_time
    written,  \* sink->written
    render,   \* the render thread: its place, the clock it read, the shift
    player,   \* PlayBuffer(): its place, the note's time and its position
    events,   \* synth->events: time, position, and the rebases they crossed
    count,    \* how many suspends, notes and clock failures there were
    settled,  \* how far the timing thread is in showing what the transport does now
    owed      \* has a re-arm been reported and no mapping reviewed since?

vars == <<now, cursor, running, shown, timing, pending, activate, written, render, player,
          events, count, settled, owed>>

-----------------------------------------------------------------------------

Trunc(n, d) == IF n < 0 THEN -((-n) \div d) ELSE n \div d

PlayCursor == (cursor \div Second) % Buf

WriteCursor == (PlayCursor + Lead) % Buf

\* ((ref_time / 1000) * nSamplesPerSec) / 10000
RefTimeToSample(t) == Trunc(Trunc(t - activate, Coarse) * Hz, Ticks)

\* The time that a number of samples lasts, as the rebase computes it.
SampleTime(n) == (n * Second) \div Hz

\* The playing position the code expects at clock reading m, and from it how
\* far the next write is ahead and how far it ought to be.
EstimatedPlay(m) == (shown.play + Trunc((m - shown.time) * Hz, Second)) % Buf

WriteLatency == ((shown.write - shown.play + Buf) % Buf) + Jitter

Offset(m) == (written - EstimatedPlay(m) + Buf) % Buf

Early(m) == IF Offset(m) > WriteLatency THEN Offset(m) - WriteLatency ELSE 0

Timeout(m) == (Early(m) * Millis) \div Hz

Underrun(m) == written = 0 \/ Timeout(m) > 2 * Period

\* synth_sink_update_write_position(), and the delay it returns
Resynced(m) ==
    IF Underrun(m) THEN written + ((WriteLatency - Offset(m) + Buf) % Buf) ELSE written

Delay(m) == IF Underrun(m) THEN 0 ELSE Timeout(m) * (Second \div Millis)

CurrentLatency(m) == activate + SampleTime(written) - m

Shift(m) == SampleTime(WriteLatency) - CurrentLatency(m)

\* Mutant: the order before patch 83, where nothing joins mapping and queuing.
NoTimelineLock == TRUE

\* synth->cs is held while the render thread converts and shifts the queue,
\* and while PlayBuffer() holds a position it has not queued.
SynthFree == render.at # "shift" /\ player.at # "mapped"

-----------------------------------------------------------------------------
(* The world: time, and the suspend that stops the transport under it.     *)

Tick ==
    /\ now < MaxTime
    /\ now' = now + 1
    /\ cursor' = IF running THEN (cursor + Hz) % (Buf * Second) ELSE cursor
    /\ UNCHANGED <<running, shown, timing, pending, activate, written, render, player, events,
                   count, settled, owed>>

Suspend ==
    /\ count.gaps < MaxGaps
    /\ \E g \in Gaps : now + g <= MaxTime /\ now' = now + g
    /\ running' = FALSE
    /\ settled' = "changed"
    /\ count' = [count EXCEPT !.gaps = @ + 1]
    /\ UNCHANGED <<cursor, shown, timing, pending, activate, written, render, player, events,
                   owed>>

-----------------------------------------------------------------------------
(* The timing thread.  A notification, or the end of the watchdog's wait,  *)
(* makes it look at the cursors, then at the clock, then show both.        *)

Rearm ==
    /\ timing.at = "wait" /\ ~running
    /\ running' = TRUE
    /\ pending' = TRUE
    /\ owed' = TRUE
    /\ timing' = [timing EXCEPT !.at = "look"]
    /\ settled' = "changed"
    /\ UNCHANGED <<now, cursor, shown, activate, written, render, player, events, count>>

Woken ==
    /\ timing.at = "wait"
    /\ timing' = [timing EXCEPT !.at = "look"]
    /\ UNCHANGED <<now, cursor, running, shown, pending, activate, written, render, player,
                   events, count, settled, owed>>

Look ==
    /\ timing.at = "look"
    /\ timing' = [at |-> "show", play |-> PlayCursor, write |-> WriteCursor]
    /\ settled' = IF running /\ settled = "changed" THEN "seen" ELSE settled
    /\ UNCHANGED <<now, cursor, running, shown, pending, activate, written, render, player,
                   events, count, owed>>

Show ==
    /\ timing.at = "show"
    /\ shown' = [play |-> timing.play, write |-> timing.write, time |-> now]
    /\ timing' = [at |-> "wait", play |-> 0, write |-> 0]
    /\ settled' = IF settled = "seen" THEN "shown" ELSE settled
    /\ render' = [render EXCEPT !.sure = FALSE]
    /\ UNCHANGED <<now, cursor, running, pending, activate, written, player, events, count, owed>>

-----------------------------------------------------------------------------
(* The render thread: write a block, review the timeline, render the next  *)
(* block, wait.                                                            *)

Write ==
    /\ render.at = "write"
    /\ written' = written + Block
    /\ render' = [render EXCEPT !.at = "review"]
    /\ UNCHANGED <<now, cursor, running, shown, timing, pending, activate, player, events, count,
                   settled, owed>>

Review ==
    /\ render.at = "review"
    /\ pending' = FALSE
    /\ render' = [render EXCEPT !.at = IF pending THEN "clock" ELSE "render"]
    /\ UNCHANGED <<now, cursor, running, shown, timing, activate, written, player, events, count,
                   settled, owed>>

ClockFails ==
    /\ render.at = "clock"
    /\ count.fails < MaxFails
    /\ pending' = TRUE
    /\ count' = [count EXCEPT !.fails = @ + 1]
    /\ render' = [render EXCEPT !.at = "render"]
    /\ UNCHANGED <<now, cursor, running, shown, timing, activate, written, player, events,
                   settled, owed>>

Resync ==
    /\ render.at = "clock"
    /\ render' = [render EXCEPT !.at = "rebase", !.clock = now, !.sure = settled = "shown"]
    /\ written' = Resynced(now)
    /\ UNCHANGED <<now, cursor, running, shown, timing, pending, activate, player, events, count,
                   settled, owed>>

\* Under both locks: compare the mapping with the live lead, and move it.
Rebase ==
    /\ render.at = "rebase" /\ SynthFree
    /\ LET shift == Shift(render.clock)
           taken == IF shift > Gate THEN shift ELSE 0 IN
       /\ activate' = activate + taken
       /\ render' = [render EXCEPT !.at = "shift", !.shift = (taken * Hz) \div Second]
    /\ owed' = (owed /\ pending)
    /\ UNCHANGED <<now, cursor, running, shown, timing, pending, written, player, events, count,
                   settled>>

\* synth_timeline_shift_events_locked(), then both sides may go on
ShiftEvents ==
    /\ render.at = "shift"
    /\ events' = [i \in 1 .. Len(events) |->
                     IF render.shift = 0 THEN events[i]
                     ELSE [events[i] EXCEPT !.position = @ - render.shift, !.rebases = @ + 1]]
    /\ render' = [render EXCEPT !.at = "anchored"]
    /\ UNCHANGED <<now, cursor, running, shown, timing, pending, activate, written, player,
                   count, settled, owed>>

Anchored ==
    /\ render.at = "anchored"
    /\ render' = [render EXCEPT !.at = "render", !.clock = 0, !.shift = 0, !.sure = FALSE]
    /\ UNCHANGED <<now, cursor, running, shown, timing, pending, activate, written, player,
                   events, count, settled, owed>>

\* synth_Render(): the notes due in this block, up to the first that is not
Due(e) == e.position - written < Block

Render ==
    /\ render.at = "render" /\ SynthFree
    /\ LET later == {i \in 1 .. Len(events) : ~Due(events[i])} IN
       events' = IF later = {} THEN << >>
                 ELSE SubSeq(events, CHOOSE i \in later : \A j \in later : i <= j, Len(events))
    /\ render' = [render EXCEPT !.at = "wait"]
    /\ UNCHANGED <<now, cursor, running, shown, timing, pending, activate, written, player,
                   count, settled, owed>>

WaitWrite ==
    /\ render.at = "wait"
    /\ written' = Resynced(now)
    /\ render' = [render EXCEPT !.at = "sleep", !.clock = now + Delay(now)]
    /\ UNCHANGED <<now, cursor, running, shown, timing, pending, activate, player, events, count,
                   settled, owed>>

Wake ==
    /\ render.at = "sleep" /\ now >= render.clock
    /\ render' = [render EXCEPT !.at = "write", !.clock = 0]
    /\ UNCHANGED <<now, cursor, running, shown, timing, pending, activate, written, player,
                   events, count, settled, owed>>

-----------------------------------------------------------------------------
(* PlayBuffer(): map the note and queue it, both under synth->cs.          *)

MapNote ==
    /\ player.at = "idle" /\ count.notes < MaxNotes /\ SynthFree
    /\ \E d \in Delays :
          player' = [at |-> "mapped", time |-> now + d, position |-> RefTimeToSample(now + d)]
    /\ count' = [count EXCEPT !.notes = @ + 1]
    /\ UNCHANGED <<now, cursor, running, shown, timing, pending, activate, written, render,
                   events, settled, owed>>

QueueNote ==
    /\ player.at = "mapped"
    /\ LET after == {i \in 1 .. Len(events) : events[i].time > player.time}
           place == IF after = {} THEN Len(events) + 1
                    ELSE CHOOSE i \in after : \A j \in after : i <= j IN
       events' = InsertAt(events, place, [time |-> player.time, position |-> player.position,
                                          rebases |-> 0])
    /\ player' = [at |-> "idle", time |-> 0, position |-> 0]
    /\ UNCHANGED <<now, cursor, running, shown, timing, pending, activate, written, render,
                   count, settled, owed>>

-----------------------------------------------------------------------------

Init ==
    /\ now = 0 /\ cursor = 0 /\ running = TRUE
    /\ shown = [play |-> 0, write |-> Lead % Buf, time |-> 0]
    /\ timing = [at |-> "wait", play |-> 0, write |-> 0]
    /\ pending = FALSE /\ activate = 0 /\ written = 0
    /\ render = [at |-> "write", clock |-> 0, shift |-> 0, sure |-> FALSE]
    /\ player = [at |-> "idle", time |-> 0, position |-> 0]
    /\ events = << >>
    /\ count = [gaps |-> 0, notes |-> 0, fails |-> 0]
    /\ settled = "shown" /\ owed = FALSE

Next ==
    \/ Tick \/ Suspend
    \/ Rearm \/ Woken \/ Look \/ Show
    \/ Write \/ Review \/ ClockFails \/ Resync \/ Rebase \/ ShiftEvents \/ Anchored
    \/ Render \/ WaitWrite \/ Wake
    \/ MapNote \/ QueueNote

Spec == Init /\ [][Next]_vars

-----------------------------------------------------------------------------

TypeOK ==
    /\ now \in 0 .. MaxTime /\ cursor \in 0 .. Buf * Second - 1 /\ running \in BOOLEAN
    /\ shown \in [play : 0 .. Buf - 1, write : 0 .. Buf - 1, time : 0 .. MaxTime]
    /\ timing \in [at : {"wait", "look", "show"}, play : 0 .. Buf - 1, write : 0 .. Buf - 1]
    /\ pending \in BOOLEAN /\ owed \in BOOLEAN
    /\ settled \in {"changed", "seen", "shown"}
    /\ activate \in Nat /\ written \in Nat
    /\ render.at \in {"write", "review", "clock", "rebase", "shift", "anchored", "render",
                      "wait", "sleep"}
    /\ render.clock \in Nat /\ render.shift \in Nat /\ render.sure \in BOOLEAN
    /\ player.at \in {"idle", "mapped"} /\ player.position \in Int
    /\ Len(events) <= MaxNotes

\* How far a sample position may fall short of the time it was mapped from:
\* the step lost before the multiplication and the one lost in the division.
Grain == Hz * (Coarse - 1) + Coarse * (Ticks - 1)

\* An event cannot cross the rebase half-converted (patch 83): outside the
\* locked section, a queued note stands where its time would be mapped now.
\* A note that crossed no rebase stands there exactly, and so does the note
\* PlayBuffer() holds; one that crossed some may be early by the grain of the
\* mapping, and late by it and by less than a sample for each of them.  The
\* grain counts twice for a note that was mapped ahead of the old anchor and
\* is behind the new one, where truncation goes upwards.
NotesStandWhereTheyWouldBeMapped ==
    render.at # "shift" =>
        /\ \A i \in 1 .. Len(events) :
              LET e == events[i]
                  fresh == RefTimeToSample(e.time) IN
              /\ e.rebases = 0 => e.position = fresh
              /\ (e.position - fresh) * Second <= Grain + (Second - 1) * e.rebases
              /\ (fresh - e.position) * Second
                     <= (IF e.time < activate THEN 2 * Grain ELSE Grain)
        /\ player.at = "mapped" => player.position = RefTimeToSample(player.time)

\* The marker is not lost: a transport re-armed and not yet reviewed has its
\* marker up, or the render thread has just taken it down to review.
RearmIsReviewed == owed => pending \/ render.at \in {"clock", "rebase"}

\* A rebase that worked from the cursors of the transport as it now runs is
\* anchored to a write cursor that needs no correction: the same look for an
\* underrun finds none.
AnchorNeedsNoCorrection ==
    render.at = "anchored" /\ render.shift > 0 /\ render.sure => ~Underrun(render.clock)

\* What the rebase is for: after a review no queued note is held back beyond
\* its own time by more than the gate, less the lead it is written ahead.  The
\* rounding allowed is a sample for every rebase it crossed, a unit of time in
\* the lead, and the grain for a note stamped before the new anchor.
NotesAreNotHeldBack ==
    render.at = "anchored" =>
        \A i \in 1 .. Len(events) :
           LET e == events[i] IN
           (e.position - written) * Second
               <= (e.time - render.clock + Gate) * Hz - WriteLatency * Second
                    + (Second - 1) * e.rebases + (Hz - 1)
                    + (IF e.time < activate THEN Grain ELSE 0)

-----------------------------------------------------------------------------
(* The inductive invariant behind these.                                   *)

Note == [time : Nat, position : Int, rebases : Nat]

TimelineTyped ==
    /\ TypeOK
    /\ render \in [at : {"write", "review", "clock", "rebase", "shift", "anchored", "render",
                         "wait", "sleep"}, clock : Nat, shift : Nat, sure : BOOLEAN]
    /\ player \in [at : {"idle", "mapped"}, time : Nat, position : Int]
    /\ events \in Seq(Note)
    /\ count \in [gaps : 0 .. MaxGaps, notes : 0 .. MaxNotes, fails : 0 .. MaxFails]

\* Every note queued or held is one of those counted.
NotesCounted == Len(events) + (IF player.at = "mapped" THEN 1 ELSE 0) <= count.notes

\* The two cursors read together are a lead apart, so that the latency is the
\* same whichever pair is shown; what is shown is of the past.
CursorsApart ==
    /\ shown.write = (shown.play + Lead) % Buf
    /\ timing.at = "show" => timing.write = (timing.play + Lead) % Buf
    /\ shown.time <= now

\* A review follows a written block.
ReviewFollowsWrite ==
    render.at \in {"review", "clock", "rebase", "shift", "anchored"} => written > 0

\* While the locked section is half done, the mapping has moved and the queue
\* has not: a note is to be read as shifted, and to have crossed one more.
Position(e) == IF render.at = "shift" THEN e.position - render.shift ELSE e.position

Crossed(e) == IF render.at = "shift" /\ render.shift > 0 THEN e.rebases + 1 ELSE e.rebases

\* How far the time of a note, as the mapping has it, is beyond its position.
Beyond(e) == (e.time - activate) * Hz - Position(e) * Second

Follows(e) ==
    /\ Crossed(e) = 0 => Position(e) = RefTimeToSample(e.time)
    /\ Beyond(e) <= Grain
    /\ -Beyond(e) <= (Second - 1) * Crossed(e) + (IF e.time < activate THEN Grain ELSE 0)

NotesFollowMapping ==
    /\ \A i \in 1 .. Len(events) : Follows(events[i])
    /\ player.at = "mapped" =>
          render.at # "shift" /\ player.position = RefTimeToSample(player.time)

\* From the resynchronisation on, the position written fits the cursors it
\* was computed from; and from the rebase on, the mapping fits that position.
WrittenFitsCursors ==
    render.at \in {"rebase", "shift", "anchored"} /\ render.sure => ~Underrun(render.clock)

MappingFitsWritten ==
    render.at \in {"shift", "anchored"} =>
        SampleTime(WriteLatency) - CurrentLatency(render.clock) <= Gate

TimelineInv ==
    /\ TimelineTyped /\ NotesCounted /\ CursorsApart /\ ReviewFollowsWrite
    /\ NotesFollowMapping /\ RearmIsReviewed /\ WrittenFitsCursors /\ MappingFitsWritten
=============================================================================
