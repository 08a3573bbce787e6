----------------------------- MODULE SynthSink -----------------------------
(***************************************************************************)
(* The life of a dmsynth sink (src/wine-patches/history, patches 60, 83    *)
(* and 85 over 02): one application thread activates and deactivates it, a *)
(* timing thread keeps the DirectSound transport running and publishes its *)
(* position, a render thread fills the buffer.  Below them the transport   *)
(* may be stopped, lost or frozen (it reports that it plays and does not   *)
(* advance), with or without its device, at any time.                      *)
(*                                                                         *)
(* The two stop events are auto-reset: the wait that sees one consumes it. *)
(***************************************************************************)
EXTENDS Integers

CONSTANTS
  StallTicks,  \* SINK_WATCHDOG_STALL: watchdog ticks on one position before a re-arm
  MaxFaults,   \* bound: disturbances of the transport
  MayFail      \* whether the calls of a running worker may fail for good

ASSUME SynthSinkAssumption ==
  StallTicks \in Nat \ {0} /\ MaxFaults \in Nat /\ MayFail \in BOOLEAN

VARIABLES
  app,      \* where the application thread is in activate or deactivate
  active,   \* sink->active
  stop,     \* timing_stop_event and render_stop_event
  pc,       \* where each worker is; "none" when its handle is NULL
  startup,  \* the started event and startup_hr of each worker's parameters
  refs,     \* references the activation took on the buffer and the synth
  playing,  \* DSBSTATUS_PLAYING
  lost,     \* DSBSTATUS_BUFFERLOST
  frozen,   \* playing, but not advancing until it is started again
  device,   \* the audio endpoint is there
  notified, \* buffer_event
  seen,     \* last_play_pos is the position the transport is at
  ticks,    \* watchdog_ticks
  faults    \* disturbances so far

appVars == <<app, active>>
workerVars == <<stop, pc, startup, refs>>
transportVars == <<playing, lost, frozen, device>>
watchVars == <<notified, seen, ticks>>
vars == <<appVars, workerVars, transportVars, watchVars, faults>>

-----------------------------------------------------------------------------
Workers == {"timing", "render"}
AppSteps == {"idle", "starting_timing", "starting_render", "abort_timing",
             "join_render", "join_timing"}
RecoverSteps == {"status", "play", "rearmed"}
TimingSteps == {"setup", "start", "wait", "timeout", "read", "done"} \cup RecoverSteps
RenderSteps == {"setup", "write", "retry", "render", "pace", "drain", "done"} \cup RecoverSteps
LiveSteps == TimingSteps \cup RenderSteps
Live(w) == pc[w] \in LiveSteps

Advancing == playing /\ ~frozen /\ device

Stalled == ticks >= StallTicks

Init ==
  /\ app = "idle" /\ active = FALSE
  /\ stop = [w \in Workers |-> FALSE]
  /\ pc = [w \in Workers |-> "none"]
  /\ startup = [w \in Workers |-> "none"]
  /\ refs = [buffer |-> 0, synth |-> 0]
  /\ playing = FALSE /\ lost = FALSE /\ frozen = FALSE /\ device = TRUE
  /\ notified = FALSE /\ seen = FALSE /\ ticks = 0
  /\ faults = 0

Goto(w, step) == pc' = [pc EXCEPT ![w] = step]

Signal(w, hr) == startup' = [startup EXCEPT ![w] = hr]

TakeRefs(buffer, synth) ==
  refs' = [buffer |-> refs.buffer + buffer, synth |-> refs.synth + synth]

-----------------------------------------------------------------------------
(* synth_sink_activate *)

\* The clock or the buffer is refused, or the timing thread cannot be created.
ActivateFails ==
  /\ app = "idle" /\ ~active
  /\ stop' = [w \in Workers |-> FALSE]
  /\ UNCHANGED <<appVars, pc, startup, refs, transportVars, watchVars, faults>>

ActivateBegins ==
  /\ app = "idle" /\ ~active
  /\ app' = "starting_timing"
  /\ stop' = [w \in Workers |-> FALSE]
  /\ Goto("timing", "setup")
  /\ Signal("timing", "pending")
  /\ TakeRefs(2, 0)
  /\ ticks' = 0 /\ seen' = FALSE /\ notified' = FALSE
  /\ UNCHANGED <<active, transportVars, faults>>

TimingFailed ==
  /\ app = "starting_timing" /\ startup["timing"] = "failed"
  /\ app' = "abort_timing"
  /\ UNCHANGED <<active, workerVars, transportVars, watchVars, faults>>

StartRender ==
  /\ app = "starting_timing" /\ startup["timing"] = "ok"
  /\ app' = "starting_render"
  /\ Goto("render", "setup")
  /\ Signal("render", "pending")
  /\ TakeRefs(0, 1)
  /\ UNCHANGED <<active, stop, transportVars, watchVars, faults>>

\* CreateThread fails: the timing thread is stopped, and the references meant
\* for the render thread are given back (the synth's is taken and given back).
NoRenderThread ==
  /\ app = "starting_timing" /\ startup["timing"] = "ok"
  /\ app' = "abort_timing"
  /\ stop' = [stop EXCEPT !["timing"] = TRUE]
  /\ UNCHANGED <<active, pc, startup, refs, transportVars, watchVars, faults>>

TimingAborted ==
  /\ app = "abort_timing" /\ pc["timing"] = "exited"
  /\ app' = "idle"
  /\ Goto("timing", "none")
  /\ stop' = [stop EXCEPT !["timing"] = FALSE]
  /\ TakeRefs(-1, 0)
  /\ UNCHANGED <<active, startup, transportVars, watchVars, faults>>

\* Mutant: the start-up status is not looked at.
Activated_Unchecked ==
  /\ app = "starting_render" /\ startup["render"] \in {"ok", "failed"}
  /\ app' = "idle" /\ active' = TRUE
  /\ UNCHANGED <<workerVars, transportVars, watchVars, faults>>

Activated ==
  /\ app = "starting_render" /\ startup["render"] = "ok"
  /\ app' = "idle" /\ active' = TRUE
  /\ UNCHANGED <<workerVars, transportVars, watchVars, faults>>

RenderFailed ==
  /\ app = "starting_render" /\ startup["render"] = "failed"
  /\ app' = "join_render"
  /\ UNCHANGED <<active, workerVars, transportVars, watchVars, faults>>

-----------------------------------------------------------------------------
(* synth_sink_deactivate; a failed activation joins the same way *)

\* Mutant: the timing thread is stopped along with the render thread.
Deactivate_StopsBoth ==
  /\ app = "idle" /\ active
  /\ app' = "join_render"
  /\ stop' = [w \in Workers |-> TRUE]
  /\ UNCHANGED <<active, pc, startup, refs, transportVars, watchVars, faults>>

Deactivate ==
  /\ app = "idle" /\ active
  /\ app' = "join_render"
  /\ stop' = [stop EXCEPT !["render"] = TRUE]
  /\ UNCHANGED <<active, pc, startup, refs, transportVars, watchVars, faults>>

\* Mutant: the render thread's stop event is left as it is.
RenderJoined_KeepsStop ==
  /\ app = "join_render" /\ pc["render"] = "exited"
  /\ app' = "join_timing"
  /\ Goto("render", "none")
  /\ stop' = [stop EXCEPT !["timing"] = TRUE]
  /\ UNCHANGED <<active, startup, refs, transportVars, watchVars, faults>>

RenderJoined ==
  /\ app = "join_render" /\ pc["render"] = "exited"
  /\ app' = "join_timing"
  /\ Goto("render", "none")
  /\ stop' = [stop EXCEPT !["render"] = FALSE, !["timing"] = TRUE]
  /\ UNCHANGED <<active, startup, refs, transportVars, watchVars, faults>>

TimingJoined ==
  /\ app = "join_timing" /\ pc["timing"] = "exited"
  /\ app' = "idle" /\ active' = FALSE
  /\ Goto("timing", "none")
  /\ stop' = [stop EXCEPT !["timing"] = FALSE]
  /\ UNCHANGED <<startup, refs, transportVars, watchVars, faults>>

-----------------------------------------------------------------------------
(* Steps the two workers share *)

\* Mutant: the worker leaves without the common exit.
WorkerExits_KeepsRefs(w) ==
  /\ pc[w] = "done"
  /\ Goto(w, "exited")
  /\ playing' = (playing /\ w # "timing")
  /\ TakeRefs(IF w = "timing" THEN -1 ELSE 0, 0)
  /\ UNCHANGED <<appVars, stop, startup, lost, frozen, device, watchVars, faults>>

\* Every exit releases the worker's references; the timing thread's stops the
\* transport.
WorkerExits(w) ==
  /\ pc[w] = "done"
  /\ Goto(w, "exited")
  /\ playing' = (playing /\ w # "timing")
  /\ TakeRefs(-1, IF w = "render" THEN -1 ELSE 0)
  /\ UNCHANGED <<appVars, stop, startup, lost, frozen, device, watchVars, faults>>

\* Caps, format, notifications, memory, the first Play or the first render fail.
SetupFails(w) ==
  /\ pc[w] \in {"setup", "start"}
  /\ Goto(w, "done")
  /\ Signal(w, "failed")
  /\ UNCHANGED <<appVars, stop, refs, transportVars, watchVars, faults>>

\* sink_watchdog_recover, called by the timing thread when its wait timed out
\* and by the render thread when a write found the buffer lost: after it the
\* caller goes on, and a stall that was acted on is counted afresh.
Recovered(w) ==
  /\ Goto(w, IF w = "timing" THEN "read" ELSE "retry")
  /\ ticks' = IF w = "timing" /\ Stalled THEN 0 ELSE ticks

\* The render thread does not look for a stall.
SeesStall(w) == w = "timing" /\ Stalled

StatusIsFine(w) ==
  /\ pc[w] = "status"
  /\ playing /\ ~lost /\ ~SeesStall(w)
  /\ Recovered(w)
  /\ UNCHANGED <<appVars, stop, startup, refs, transportVars, notified, seen, faults>>

RestoreLost(w) ==
  /\ pc[w] = "status"
  /\ lost /\ device
  /\ Goto(w, "play")
  /\ lost' = FALSE
  /\ UNCHANGED <<appVars, stop, startup, refs, playing, frozen, device, watchVars, faults>>

RestoreFails(w) ==
  /\ pc[w] = "status"
  /\ lost /\ ~device
  /\ Recovered(w)
  /\ UNCHANGED <<appVars, stop, startup, refs, transportVars, notified, seen, faults>>

StatusIsStopped(w) ==
  /\ pc[w] = "status"
  /\ ~playing /\ ~lost
  /\ Goto(w, "play")
  /\ UNCHANGED <<appVars, stop, startup, refs, transportVars, watchVars, faults>>

\* Mutant: the watchdog recovers by status alone.
StopStalled_Never(w) ==
  /\ pc[w] = "status"
  /\ playing /\ ~lost /\ SeesStall(w)
  /\ Recovered(w)
  /\ UNCHANGED <<appVars, stop, startup, refs, transportVars, notified, seen, faults>>

StopStalled(w) ==
  /\ pc[w] = "status"
  /\ playing /\ ~lost /\ SeesStall(w)
  /\ Goto(w, "play")
  /\ playing' = FALSE
  /\ UNCHANGED <<appVars, stop, startup, refs, lost, frozen, device, watchVars, faults>>

\* Without its device a transport that accepts Play does not advance.
PlaySucceeds(w) ==
  /\ pc[w] = "play"
  /\ ~lost
  /\ Goto(w, "rearmed")
  /\ playing' = TRUE /\ frozen' = ~device
  /\ UNCHANGED <<appVars, stop, startup, refs, lost, device, watchVars, faults>>

PlayFails(w) ==
  /\ pc[w] = "play"
  /\ lost \/ ~device
  /\ Recovered(w)
  /\ UNCHANGED <<appVars, stop, startup, refs, transportVars, notified, seen, faults>>

\* The caller of a successful re-arm; both also set timeline_rebase_pending.
Rearmed(w) ==
  /\ pc[w] = "rearmed"
  /\ Goto(w, IF w = "timing" THEN "read" ELSE "retry")
  /\ ticks' = IF w = "timing" THEN 0 ELSE ticks
  /\ seen' = (seen /\ w # "timing")
  /\ UNCHANGED <<appVars, stop, startup, refs, transportVars, notified, faults>>

-----------------------------------------------------------------------------
(* synth_sink_timing_thread *)

\* Stop, create buffer_event, set the notification positions.
TimingSetup ==
  /\ pc["timing"] = "setup"
  /\ Goto("timing", "start")
  /\ playing' = FALSE
  /\ UNCHANGED <<appVars, stop, startup, refs, lost, frozen, device, watchVars, faults>>

FirstPlay ==
  /\ pc["timing"] = "start"
  /\ ~lost
  /\ Goto("timing", "wait")
  /\ playing' = TRUE /\ frozen' = ~device
  /\ UNCHANGED <<appVars, stop, startup, refs, lost, device, watchVars, faults>>

\* A stop request seen by either wait ends the thread; one that has not
\* signalled its start reports a failure.
TimingStops ==
  /\ pc["timing"] \in {"wait", "timeout"}
  /\ stop["timing"]
  /\ stop' = [stop EXCEPT !["timing"] = FALSE]
  /\ Goto("timing", "done")
  /\ Signal("timing", IF startup["timing"] = "pending" THEN "failed" ELSE startup["timing"])
  /\ UNCHANGED <<appVars, refs, transportVars, watchVars, faults>>

TimingNotified ==
  /\ pc["timing"] = "wait"
  /\ notified /\ ~stop["timing"]
  /\ Goto("timing", "read")
  /\ notified' = FALSE
  /\ UNCHANGED <<appVars, stop, startup, refs, transportVars, seen, ticks, faults>>

\* A whole period without a notification; a transport that advanced through it
\* has moved.
TimingTimesOut ==
  /\ pc["timing"] = "wait"
  /\ ~notified /\ ~stop["timing"]
  /\ Advancing => ~seen
  /\ Goto("timing", "timeout")
  /\ UNCHANGED <<appVars, stop, startup, refs, transportVars, watchVars, faults>>

CountTick ==
  /\ pc["timing"] = "timeout"
  /\ ~stop["timing"]
  /\ Goto("timing", "status")
  /\ ticks' = ticks + 1
  /\ UNCHANGED <<appVars, stop, startup, refs, transportVars, notified, seen, faults>>

\* Publish the position; movement clears the count; the first pass reports the
\* start.
TimingReads ==
  /\ pc["timing"] = "read"
  /\ Goto("timing", "wait")
  /\ seen' = TRUE
  /\ ticks' = IF seen THEN ticks ELSE 0
  /\ Signal("timing", IF startup["timing"] = "pending" THEN "ok" ELSE startup["timing"])
  /\ UNCHANGED <<appVars, stop, refs, transportVars, notified, faults>>

\* GetCurrentPosition, GetTime or the wait fails.
TimingBreaks ==
  /\ MayFail
  /\ pc["timing"] \in {"wait", "read"}
  /\ Goto("timing", "done")
  /\ Signal("timing", IF startup["timing"] = "pending" THEN "failed" ELSE startup["timing"])
  /\ UNCHANGED <<appVars, stop, refs, transportVars, watchVars, faults>>

-----------------------------------------------------------------------------
(* synth_sink_render_thread *)

RenderStarts ==
  /\ pc["render"] = "setup"
  /\ Goto("render", "write")
  /\ Signal("render", "ok")
  /\ UNCHANGED <<appVars, stop, refs, transportVars, watchVars, faults>>

\* A lost buffer is recovered and retried; a written block makes way for the next.
RenderWrites ==
  /\ pc["render"] = "write"
  /\ Goto("render", IF lost THEN "status" ELSE "render")
  /\ UNCHANGED <<appVars, stop, startup, refs, transportVars, watchVars, faults>>

\* Rendering (and rebasing the timeline, module SynthTimeline), then the next
\* wait.
RenderRenders ==
  /\ pc["render"] = "render"
  /\ Goto("render", "pace")
  /\ UNCHANGED <<appVars, stop, startup, refs, transportVars, watchVars, faults>>

\* Mutant: the waits of the loop are plain sleeps.
RenderContinues_Sleeps ==
  /\ pc["render"] \in {"pace", "retry"}
  /\ Goto("render", "write")
  /\ UNCHANGED <<appVars, stop, startup, refs, transportVars, watchVars, faults>>

\* synth_sink_wait_write and the 250 ms wait after a lost buffer.
RenderContinues ==
  /\ pc["render"] \in {"pace", "retry"}
  /\ ~stop["render"]
  /\ Goto("render", "write")
  /\ UNCHANGED <<appVars, stop, startup, refs, transportVars, watchVars, faults>>

RenderStops ==
  /\ pc["render"] \in {"pace", "retry"}
  /\ stop["render"]
  /\ stop' = [stop EXCEPT !["render"] = FALSE]
  /\ Goto("render", "drain")
  /\ UNCHANGED <<appVars, startup, refs, transportVars, watchVars, faults>>

\* synth_sink_wait_play_end: the rest is played, or a write fails.
RenderDrains ==
  /\ pc["render"] = "drain"
  /\ Goto("render", "done")
  /\ UNCHANGED <<appVars, stop, startup, refs, transportVars, watchVars, faults>>

\* A write fails with something else than DSERR_BUFFERLOST, or rendering or a
\* wait fails.
RenderBreaks ==
  /\ MayFail
  /\ pc["render"] \in {"write", "render", "pace", "retry"}
  /\ Goto("render", "done")
  /\ UNCHANGED <<appVars, stop, startup, refs, transportVars, watchVars, faults>>

-----------------------------------------------------------------------------
(* The transport *)

\* Notifications need not arrive with the movement they are for.
Advances ==
  /\ Advancing
  /\ seen' = FALSE
  /\ notified' \in {notified, TRUE}
  /\ UNCHANGED <<appVars, workerVars, transportVars, ticks, faults>>

\* A suspend, or something else, stops, loses or freezes the transport, with or
\* without its device.
Disturbed(effect, deviceStays) ==
  /\ faults < MaxFaults
  /\ faults' = faults + 1
  /\ device' = (device /\ deviceStays)
  /\ playing' = (playing /\ effect = "frozen")
  /\ lost' = (lost \/ effect = "lost")
  /\ frozen' = TRUE
  /\ UNCHANGED <<appVars, workerVars, watchVars>>

DeviceReturns ==
  /\ ~device
  /\ device' = TRUE
  /\ UNCHANGED <<appVars, workerVars, playing, lost, frozen, watchVars, faults>>

\* A frozen transport goes on by itself.
Thaws ==
  /\ frozen /\ device
  /\ frozen' = FALSE
  /\ UNCHANGED <<appVars, workerVars, playing, lost, device, watchVars, faults>>

-----------------------------------------------------------------------------
AppStep ==
  \/ ActivateFails \/ ActivateBegins \/ TimingFailed \/ StartRender \/ NoRenderThread
  \/ TimingAborted \/ Activated \/ RenderFailed
  \/ Deactivate \/ RenderJoined \/ TimingJoined

\* The caller is inside activate or deactivate.
CallProgress == app # "idle" /\ AppStep

RecoverStep(w) ==
  \/ StatusIsFine(w) \/ RestoreLost(w) \/ RestoreFails(w) \/ StatusIsStopped(w)
  \/ StopStalled(w) \/ PlaySucceeds(w) \/ PlayFails(w) \/ Rearmed(w)

TimingStep ==
  \/ TimingSetup \/ FirstPlay \/ TimingStops \/ TimingNotified \/ TimingTimesOut
  \/ CountTick \/ TimingReads \/ TimingBreaks

RenderStep ==
  \/ RenderStarts \/ RenderWrites \/ RenderRenders \/ RenderContinues
  \/ RenderStops \/ RenderDrains \/ RenderBreaks

WorkerStep(w) ==
  \/ SetupFails(w) \/ WorkerExits(w) \/ RecoverStep(w)
  \/ w = "timing" /\ TimingStep
  \/ w = "render" /\ RenderStep

TransportStep ==
  \/ Advances \/ DeviceReturns \/ Thaws
  \/ \E effect \in {"stopped", "lost", "frozen"}, deviceStays \in BOOLEAN :
       Disturbed(effect, deviceStays)

Next == AppStep \/ (\E w \in Workers : WorkerStep(w)) \/ TransportStep

Spec == Init /\ [][Next]_vars

\* The threads run, an endpoint that went away comes back, and a transport that
\* plays advances.  Nobody must call, notify or disturb.
FairSpec ==
  /\ Spec
  /\ WF_vars(CallProgress)
  /\ \A w \in Workers : WF_vars(WorkerStep(w))
  /\ WF_vars(DeviceReturns)
  /\ WF_vars(Advances)

-----------------------------------------------------------------------------
(* Properties *)

TypeOK ==
  /\ app \in AppSteps /\ active \in BOOLEAN
  /\ stop \in [Workers -> BOOLEAN]
  /\ pc \in [Workers -> LiveSteps \cup {"none", "exited"}]
  /\ pc["timing"] \in TimingSteps \cup {"none", "exited"}
  /\ pc["render"] \in RenderSteps \cup {"none", "exited"}
  /\ startup \in [Workers -> {"none", "pending", "ok", "failed"}]
  /\ refs \in [{"buffer", "synth"} -> 0 .. 2]
  /\ playing \in BOOLEAN /\ lost \in BOOLEAN /\ frozen \in BOOLEAN /\ device \in BOOLEAN
  /\ notified \in BOOLEAN /\ seen \in BOOLEAN
  /\ ticks \in 0 .. StallTicks
  /\ faults \in 0 .. MaxFaults

\* Every reference an activation takes has an owner that will give it back: a
\* worker that has not exited, or the caller for the thread it has not started
\* yet.  None outlives the sink, however the workers end (patch 85: "release
\* every reference on all exits").
RefsBalanced ==
  LET held(w) == IF Live(w) THEN 1 ELSE 0
      callers == IF app \in {"starting_timing", "abort_timing"} THEN 1 ELSE 0
  IN refs = [buffer |-> held("timing") + held("render") + callers,
             synth |-> held("render")]

\* A sink that is off has left its transport stopped: nothing the render thread
\* or the watchdog restarted while the sink was torn down plays on (the order of
\* the joins in synth_sink_deactivate, and the Stop every timing thread ends with).
QuietWhenOff == app = "idle" /\ ~active => ~playing

\* Activate and Deactivate return: no worker ends without its signal, and none
\* misses its stop event, whatever the transport does meanwhile.
CallsReturn == app # "idle" ~> app = "idle"

\* The sound comes back: while the sink stays on, a transport that was stopped,
\* lost or frozen is brought to advance again once its device is there.
TransportHeals == active /\ ~Advancing ~> Advancing \/ app # "idle"

\* What the contract speaks of: the sink as its caller knows it, and how far each
\* worker has come.
SinkState ==
  IF app = "idle" THEN IF active THEN "on" ELSE "off"
  ELSE IF active THEN "stopping" ELSE "starting"

WorkerState ==
  [w \in Workers |->
     CASE pc[w] = "none" -> "none"
       [] pc[w] = "exited" -> IF startup[w] = "ok" THEN "ended" ELSE "failed"
       [] OTHER -> IF startup[w] = "ok" THEN "serving" ELSE "starting"]

Contract == INSTANCE SinkContract WITH
  WorkersMayFail <- MayFail, sink <- SinkState, worker <- WorkerState

\* The activation and deactivation keep their contract (SinkContract): a sink is
\* only on with both workers serving, and off with both joined.
KeepsContract == Contract!ContractSpec

-----------------------------------------------------------------------------
(* The inductive invariant *)

Started(w) == pc[w] # "none"

\* What each step of a call implies for the handles, the stop events and the
\* start-up statuses.
CallStates ==
  /\ active => app \in {"idle", "join_render", "join_timing"}
  /\ app = "idle" /\ ~active => \A w \in Workers : ~Started(w)
  /\ app = "idle" /\ active => \A w \in Workers : Started(w) /\ startup[w] = "ok"
  /\ app # "idle" => Started("timing")
  /\ app \in {"starting_timing", "abort_timing", "join_timing"} => ~Started("render")
  /\ app \in {"starting_render", "join_render"} => Started("render")
  /\ app \in {"starting_render", "join_render", "join_timing"} => startup["timing"] = "ok"
  /\ stop["timing"] => app \in {"abort_timing", "join_timing"}
  /\ stop["render"] => app = "join_render"

\* What each step of a worker implies for its status, and when it is awaited.
StatusStates ==
  /\ \A w \in Workers :
       /\ pc[w] \in {"setup", "start"} => startup[w] = "pending"
       /\ pc[w] \in {"done", "exited"} => startup[w] \in {"ok", "failed"}
       /\ Started(w) /\ startup[w] = "failed" => pc[w] \in {"done", "exited"}
       /\ Started(w) => startup[w] # "none"
  /\ pc["render"] \in RenderSteps \ {"setup", "done"} => startup["render"] = "ok"
  /\ Started("timing") /\ startup["timing"] = "pending" => app = "starting_timing"
  /\ Started("render") /\ startup["render"] = "pending" => app = "starting_render"

\* Workers that do not fail for good only end when they are told to, so that the
\* render thread never outlives the timing thread, whose end stops the transport.
EndsInOrder ==
  ~MayFail =>
    /\ startup["timing"] = "ok" /\ pc["timing"] \in {"done", "exited"}
         => app \in {"abort_timing", "join_timing"}
    /\ startup["render"] = "ok" /\ pc["render"] \in {"drain", "done", "exited"}
         => app = "join_render"
    /\ pc["timing"] \in {"none", "exited"} => ~playing /\ ~Started("render")

\* Only while it recovers the transport does the timing thread stand at the limit.
TicksCounted == pc["timing"] \notin RecoverSteps => ticks < StallTicks

\* A call finds the handles, stop events, statuses and references it relies on,
\* after any earlier activation, failed or not (synth_sink_activate,
\* synth_sink_deactivate): nothing stale is left for the next one.
SinkInv ==
  TypeOK /\ CallStates /\ StatusStates /\ RefsBalanced /\ EndsInOrder /\ TicksCounted

=============================================================================
