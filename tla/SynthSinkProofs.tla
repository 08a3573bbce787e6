-------------------------- MODULE SynthSinkProofs --------------------------
(***************************************************************************)
(* Proofs about the dmsynth sink, for any number of watchdog ticks and     *)
(* disturbances: no activation leaves anything behind for the next one,    *)
(* every reference has an owner, a sink that is off is quiet, and the      *)
(* calls keep the contract of SinkContract.                                *)
(***************************************************************************)
EXTENDS SynthSink, TLAPS

-----------------------------------------------------------------------------
(* The invariant, one lemma per actor *)

\* Everything off satisfies the invariant.
LEMMA InitSatisfiesInv == Init => SinkInv
<1> SUFFICES ASSUME Init PROVE SinkInv
  OBVIOUS
<1> USE SynthSinkAssumption DEF Init
<1>1. TypeOK
  <2>1. /\ stop \in [Workers -> BOOLEAN]
        /\ pc \in [Workers -> LiveSteps \cup {"none", "exited"}]
        /\ startup \in [Workers -> {"none", "pending", "ok", "failed"}]
    OBVIOUS
  <2>2. /\ pc["timing"] = "none" /\ pc["render"] = "none"
    BY DEF Workers
  <2>3. /\ refs \in [{"buffer", "synth"} -> 0 .. 2]
        /\ ticks \in 0 .. StallTicks /\ faults \in 0 .. MaxFaults
    OBVIOUS
  <2>4. QED
    BY <2>1, <2>2, <2>3, Zenon DEF TypeOK, AppSteps
<1>2. CallStates /\ StatusStates /\ EndsInOrder /\ TicksCounted
  BY DEF CallStates, StatusStates, EndsInOrder, TicksCounted, Workers, RenderSteps,
         RecoverSteps, Started
<1>3. RefsBalanced
  BY DEF RefsBalanced, Workers, Live, TimingSteps, RenderSteps, LiveSteps, RecoverSteps
<1>4. QED
  BY <1>1, <1>2, <1>3 DEF SinkInv

\* An activation starts from a sink that holds nothing, and takes two references
\* on the buffer.
LEMMA ActivateBeginsKeepsInv == ASSUME SinkInv, ActivateBegins PROVE SinkInv'
<1> USE DEF ActivateBegins, Workers
<1>1. refs = [buffer |-> 0, synth |-> 0]
  BY DEF SinkInv, RefsBalanced, CallStates, Live, Started, LiveSteps, TimingSteps,
         RenderSteps, RecoverSteps
<1>2. refs' = [buffer |-> 2, synth |-> 0]
  BY <1>1 DEF TakeRefs
<1>3. pc' = [w \in Workers |-> IF w = "timing" THEN "setup" ELSE "none"]
  BY DEF SinkInv, TypeOK, CallStates, Started, Goto
<1>4. /\ startup' \in [Workers -> {"none", "pending", "ok", "failed"}]
      /\ startup'["timing"] = "pending"
  BY DEF SinkInv, TypeOK, Signal
<1>5. TypeOK'
  <2>1. /\ seen' \in BOOLEAN /\ notified' \in BOOLEAN /\ active' \in BOOLEAN
        /\ app' \in AppSteps
    BY DEF SinkInv, TypeOK, AppSteps
  <2>2. stop' \in [Workers -> BOOLEAN] /\ ticks' \in 0 .. StallTicks
    BY SynthSinkAssumption
  <2>3. refs' \in [{"buffer", "synth"} -> 0 .. 2]
    BY <1>2
  <2>4. /\ pc' \in [Workers -> LiveSteps \cup {"none", "exited"}]
        /\ pc'["timing"] \in TimingSteps \cup {"none", "exited"}
        /\ pc'["render"] \in RenderSteps \cup {"none", "exited"}
    BY <1>3 DEF LiveSteps, TimingSteps, RenderSteps
  <2>5. QED
    BY <1>4, <2>1, <2>2, <2>3, <2>4 DEF SinkInv, TypeOK, transportVars
<1>6. CallStates' /\ StatusStates' /\ EndsInOrder' /\ TicksCounted'
  BY <1>3, <1>4, SynthSinkAssumption
     DEF CallStates, StatusStates, EndsInOrder, TicksCounted, Started, RenderSteps,
         RecoverSteps
<1>7. RefsBalanced'
  BY <1>2, <1>3 DEF RefsBalanced, Live, LiveSteps, TimingSteps, RenderSteps,
                    RecoverSteps
<1>8. QED
  BY <1>5, <1>6, <1>7 DEF SinkInv

\* The application's calls: each one finds, and leaves, the handles, stop events
\* and references as its next step assumes them.
LEMMA CallsKeepInv == ASSUME SinkInv, AppStep PROVE SinkInv'
<1> USE SynthSinkAssumption
        DEF SinkInv, TypeOK, CallStates, StatusStates, RefsBalanced, EndsInOrder,
            TicksCounted, Workers, AppSteps, TimingSteps, RenderSteps, LiveSteps,
            RecoverSteps, Live, Started, Goto, Signal, TakeRefs,
            appVars, workerVars, transportVars, watchVars
<1>1. CASE ActivateFails
  BY <1>1 DEF ActivateFails
<1>2. CASE ActivateBegins
  BY <1>2, ActivateBeginsKeepsInv
<1>3. CASE TimingFailed
  BY <1>3 DEF TimingFailed
<1>4. CASE StartRender
  <2>1. RefsBalanced'
    BY <1>4 DEF StartRender
  <2>2. TypeOK'
    BY <1>4 DEF StartRender
  <2>3. CallStates' /\ StatusStates' /\ EndsInOrder' /\ TicksCounted'
    BY <1>4 DEF StartRender
  <2>4. QED
    BY <2>1, <2>2, <2>3
<1>5. CASE NoRenderThread
  BY <1>5 DEF NoRenderThread
<1>6. CASE TimingAborted
  <2>1. RefsBalanced'
    BY <1>6 DEF TimingAborted
  <2>2. TypeOK'
    BY <1>6 DEF TimingAborted
  <2>3. CallStates' /\ StatusStates' /\ EndsInOrder' /\ TicksCounted'
    BY <1>6 DEF TimingAborted
  <2>4. QED
    BY <2>1, <2>2, <2>3
<1>7. CASE Activated
  BY <1>7 DEF Activated
<1>8. CASE RenderFailed
  BY <1>8 DEF RenderFailed
<1>9. CASE Deactivate
  BY <1>9 DEF Deactivate
<1>10. CASE RenderJoined
  <2>1. RefsBalanced'
    BY <1>10 DEF RenderJoined
  <2>2. TypeOK'
    BY <1>10 DEF RenderJoined
  <2>3. CallStates' /\ StatusStates' /\ EndsInOrder' /\ TicksCounted'
    BY <1>10 DEF RenderJoined
  <2>4. QED
    BY <2>1, <2>2, <2>3
<1>11. CASE TimingJoined
  BY <1>11 DEF TimingJoined
<1>12. QED
  BY <1>1, <1>2, <1>3, <1>4, <1>5, <1>6, <1>7, <1>8, <1>9, <1>10, <1>11 DEF AppStep

\* The recovery of the transport, in either worker.
LEMMA RecoveryKeepsInv == ASSUME SinkInv, NEW w \in Workers, RecoverStep(w) PROVE SinkInv'
<1> USE SynthSinkAssumption
        DEF SinkInv, TypeOK, CallStates, StatusStates, RefsBalanced, EndsInOrder,
            TicksCounted, Workers, AppSteps, TimingSteps, RenderSteps, LiveSteps,
            RecoverSteps, Live, Started, Goto, Signal, TakeRefs,
            appVars, workerVars, transportVars, watchVars
<1>1. CASE StatusIsFine(w)
  BY <1>1 DEF StatusIsFine, Recovered, SeesStall, Stalled
<1>2. CASE RestoreLost(w)
  <2>1. RefsBalanced'
    BY <1>2 DEF RestoreLost
  <2>2. TypeOK'
    BY <1>2 DEF RestoreLost
  <2>3. CallStates' /\ StatusStates' /\ EndsInOrder' /\ TicksCounted'
    BY <1>2 DEF RestoreLost
  <2>4. QED
    BY <2>1, <2>2, <2>3
<1>3. CASE RestoreFails(w)
  BY <1>3 DEF RestoreFails, Recovered, Stalled
<1>4. CASE StatusIsStopped(w)
  BY <1>4 DEF StatusIsStopped
<1>5. CASE StopStalled(w)
  <2>1. RefsBalanced'
    BY <1>5 DEF StopStalled, SeesStall, Stalled
  <2>2. TypeOK'
    BY <1>5 DEF StopStalled, SeesStall, Stalled
  <2>3. CallStates' /\ StatusStates' /\ EndsInOrder' /\ TicksCounted'
    BY <1>5 DEF StopStalled, SeesStall, Stalled
  <2>4. QED
    BY <2>1, <2>2, <2>3
<1>6. CASE PlaySucceeds(w)
  BY <1>6 DEF PlaySucceeds
<1>7. CASE PlayFails(w)
  BY <1>7 DEF PlayFails, Recovered, Stalled
<1>8. CASE Rearmed(w)
  <2>1. RefsBalanced'
    BY <1>8 DEF Rearmed
  <2>2. TypeOK'
    BY <1>8 DEF Rearmed
  <2>3. CallStates' /\ StatusStates' /\ EndsInOrder' /\ TicksCounted'
    BY <1>8 DEF Rearmed
  <2>4. QED
    BY <2>1, <2>2, <2>3
<1>9. QED
  BY <1>1, <1>2, <1>3, <1>4, <1>5, <1>6, <1>7, <1>8 DEF RecoverStep

\* The timing thread.
LEMMA TimingKeepsInv == ASSUME SinkInv, TimingStep PROVE SinkInv'
<1> USE SynthSinkAssumption
        DEF SinkInv, TypeOK, CallStates, StatusStates, RefsBalanced, EndsInOrder,
            TicksCounted, Workers, AppSteps, TimingSteps, RenderSteps, LiveSteps,
            RecoverSteps, Live, Started, Goto, Signal, TakeRefs,
            appVars, workerVars, transportVars, watchVars
<1>1. CASE TimingSetup
  BY <1>1 DEF TimingSetup
<1>2. CASE FirstPlay
  BY <1>2 DEF FirstPlay
<1>3. CASE TimingStops
  BY <1>3 DEF TimingStops
<1>4. CASE TimingNotified
  <2>1. RefsBalanced'
    BY <1>4 DEF TimingNotified
  <2>2. TypeOK'
    BY <1>4 DEF TimingNotified
  <2>3. CallStates' /\ StatusStates' /\ EndsInOrder' /\ TicksCounted'
    BY <1>4 DEF TimingNotified
  <2>4. QED
    BY <2>1, <2>2, <2>3
<1>5. CASE TimingTimesOut
  BY <1>5 DEF TimingTimesOut, Advancing
<1>6. CASE CountTick
  BY <1>6 DEF CountTick
<1>7. CASE TimingReads
  BY <1>7 DEF TimingReads
<1>8. CASE TimingBreaks
  BY <1>8 DEF TimingBreaks
<1>9. QED
  BY <1>1, <1>2, <1>3, <1>4, <1>5, <1>6, <1>7, <1>8 DEF TimingStep

\* The render thread.
LEMMA RenderKeepsInv == ASSUME SinkInv, RenderStep PROVE SinkInv'
<1> USE SynthSinkAssumption
        DEF SinkInv, TypeOK, CallStates, StatusStates, RefsBalanced, EndsInOrder,
            TicksCounted, Workers, AppSteps, TimingSteps, RenderSteps, LiveSteps,
            RecoverSteps, Live, Started, Goto, Signal, TakeRefs,
            appVars, workerVars, transportVars, watchVars
<1>1. CASE RenderStarts
  BY <1>1 DEF RenderStarts
<1>2. CASE RenderWrites
  BY <1>2 DEF RenderWrites
<1>3. CASE RenderRenders
  BY <1>3 DEF RenderRenders
<1>4. CASE RenderContinues
  BY <1>4 DEF RenderContinues
<1>5. CASE RenderStops
  BY <1>5 DEF RenderStops
<1>6. CASE RenderDrains
  BY <1>6 DEF RenderDrains
<1>7. CASE RenderBreaks
  BY <1>7 DEF RenderBreaks
<1>8. QED
  BY <1>1, <1>2, <1>3, <1>4, <1>5, <1>6, <1>7 DEF RenderStep

\* A worker: the steps the two share and its own.
LEMMA WorkersKeepInv == ASSUME SinkInv, NEW w \in Workers, WorkerStep(w) PROVE SinkInv'
<1> USE SynthSinkAssumption
        DEF SinkInv, TypeOK, CallStates, StatusStates, RefsBalanced, EndsInOrder,
            TicksCounted, Workers, AppSteps, TimingSteps, RenderSteps, LiveSteps,
            RecoverSteps, Live, Started, Goto, Signal, TakeRefs,
            appVars, workerVars, transportVars, watchVars
<1>1. CASE SetupFails(w)
  BY <1>1 DEF SetupFails
<1>2. CASE WorkerExits(w)
  BY <1>2 DEF WorkerExits
<1>3. QED
  BY <1>1, <1>2, RecoveryKeepsInv, TimingKeepsInv, RenderKeepsInv DEF WorkerStep

\* The transport moves no worker, and nothing but a worker starts it.
LEMMA TransportKeepsInv == ASSUME SinkInv, TransportStep PROVE SinkInv'
<1> USE DEF SinkInv
<1>1. /\ UNCHANGED <<app, active, stop, pc, startup, refs, ticks>>
      /\ playing' => playing
  <2>1. CASE Advances
    BY <2>1 DEF Advances, appVars, workerVars, transportVars
  <2>2. CASE DeviceReturns
    BY <2>2 DEF DeviceReturns, appVars, workerVars, watchVars
  <2>3. CASE Thaws
    BY <2>3 DEF Thaws, appVars, workerVars, watchVars
  <2>4. ASSUME NEW effect, NEW deviceStays, Disturbed(effect, deviceStays)
        PROVE  /\ UNCHANGED <<app, active, stop, pc, startup, refs, ticks>>
               /\ playing' => playing
    BY <2>4 DEF Disturbed, appVars, workerVars, watchVars
  <2>5. QED
    BY <2>1, <2>2, <2>3, <2>4 DEF TransportStep
<1>2. /\ playing' \in BOOLEAN /\ lost' \in BOOLEAN /\ frozen' \in BOOLEAN
      /\ device' \in BOOLEAN /\ notified' \in BOOLEAN /\ seen' \in BOOLEAN
  BY Zenon DEF TransportStep, Advances, DeviceReturns, Thaws, Disturbed, TypeOK,
               appVars, workerVars, transportVars, watchVars
<1>3. faults' \in 0 .. MaxFaults
  <2>1. faults' = faults \/ (faults < MaxFaults /\ faults' = faults + 1)
    BY Zenon DEF TransportStep, Advances, DeviceReturns, Thaws, Disturbed
  <2>2. QED
    BY <2>1, SynthSinkAssumption DEF TypeOK
<1>4. TypeOK'
  BY <1>1, <1>2, <1>3 DEF TypeOK
<1>5. CallStates' /\ StatusStates' /\ RefsBalanced' /\ EndsInOrder' /\ TicksCounted'
  BY <1>1 DEF CallStates, StatusStates, RefsBalanced, EndsInOrder, TicksCounted,
              Live, Started
<1>6. QED
  BY <1>4, <1>5

\* The invariant is inductive.
LEMMA SinkInvKept == SinkInv /\ [Next]_vars => SinkInv'
<1> SUFFICES ASSUME SinkInv, [Next]_vars PROVE SinkInv'
  OBVIOUS
<1>1. CASE UNCHANGED vars
  BY <1>1 DEF vars, appVars, workerVars, transportVars, watchVars, SinkInv, TypeOK,
              CallStates, StatusStates, RefsBalanced, EndsInOrder, TicksCounted,
              Live, Started
<1>2. QED
  BY <1>1, CallsKeepInv, WorkersKeepInv, TransportKeepsInv DEF Next

\* No activation, successful or not, leaves a stop event, a status, a handle or a
\* reference behind that a later call would trip over.
THEOREM SinkInvariant == Spec => []SinkInv
  BY InitSatisfiesInv, SinkInvKept, PTL DEF Spec

\* Every variable of the sink keeps its type; the watchdog's count its bound.
THEOREM SinkTyping == Spec => []TypeOK
  BY SinkInvariant, PTL DEF SinkInv

\* Every reference on the buffer and the synth has exactly one owner that will
\* release it, whatever fails on the way.
THEOREM ReferencesBalance == Spec => []RefsBalanced
  BY SinkInvariant, PTL DEF SinkInv

\* A sink that is off is quiet, unless a worker's calls fail for good while it is
\* on: then a render thread may outlive the timing thread and restart a transport
\* nobody will stop.
THEOREM OffIsQuiet == ASSUME ~MayFail PROVE Spec => []QuietWhenOff
<1>1. SinkInv => QuietWhenOff
  BY DEF SinkInv, TypeOK, CallStates, EndsInOrder, QuietWhenOff, Workers, Started
<1>2. QED
  BY <1>1, SinkInvariant, PTL

-----------------------------------------------------------------------------
(* The contract: each step of the sink is a step of SinkContract or none *)

\* A worker that neither starts, exits nor reports is where it was for the caller.
LEMMA SameForCaller ==
  ASSUME UNCHANGED <<app, active, startup>>,
         \A w \in Workers : \/ pc'[w] = pc[w]
                            \/ {pc'[w], pc[w]} \cap {"none", "exited"} = {}
  PROVE  UNCHANGED <<SinkState, WorkerState>>
  BY DEF SinkState, WorkerState

\* A step that leaves one worker alone is a move of the other.
LEMMA OneMoves ==
  ASSUME NEW w \in Workers,
         \A v \in Workers \ {w} : pc'[v] = pc[v] /\ startup'[v] = startup[v]
  PROVE  WorkerState' = [WorkerState EXCEPT ![w] = WorkerState'[w]]
  BY DEF WorkerState

\* The timing thread is started by an activation, for a sink that is off.
LEMMA BeginsContract == ASSUME SinkInv, ActivateBegins
                        PROVE  Contract!ContractStarts("timing")
<1> USE DEF Workers, Contract!ContractWorkers
<1>1. SinkState = "off" /\ SinkState' = "starting"
  BY DEF ActivateBegins, SinkState
<1>2. WorkerState["timing"] = "none" /\ WorkerState'["timing"] = "starting"
  BY DEF ActivateBegins, WorkerState, SinkInv, CallStates, Started, TypeOK, Goto, Signal
<1>3. WorkerState' = [WorkerState EXCEPT !["timing"] = "starting"]
  BY <1>2, OneMoves DEF ActivateBegins, Goto, Signal, SinkInv, TypeOK
<1>4. QED
  BY <1>1, <1>2, <1>3 DEF Contract!ContractStarts, Contract!ContractMove

\* The render thread is only started once the timing thread has reported.
LEMMA StartRenderContract == ASSUME SinkInv, StartRender
                             PROVE  Contract!ContractStarts("render")
<1> USE DEF Workers, Contract!ContractWorkers
<1>1. SinkState = "starting" /\ UNCHANGED SinkState
  BY DEF StartRender, SinkState, SinkInv, CallStates
<1>2. /\ WorkerState["render"] = "none" /\ WorkerState'["render"] = "starting"
      /\ WorkerState["timing"] \in {"serving", "ended"}
  BY DEF StartRender, WorkerState, SinkInv, CallStates, Started, TypeOK, Goto, Signal
<1>3. WorkerState' = [WorkerState EXCEPT !["render"] = "starting"]
  BY <1>2, OneMoves DEF StartRender, Goto, Signal, SinkInv, TypeOK
<1>4. QED
  BY <1>1, <1>2, <1>3 DEF Contract!ContractStarts, Contract!ContractMove

\* Joining the render thread leaves the timing thread to be joined.
LEMMA RenderJoinContract == ASSUME SinkInv, RenderJoined
                PROVE  Contract!ContractJoins("render")
<1> USE DEF Workers, Contract!ContractWorkers
<1>1. SinkState \in {"starting", "stopping"} /\ UNCHANGED SinkState
  BY DEF RenderJoined, SinkState, SinkInv, CallStates
<1>2. /\ WorkerState["render"] \in {"failed", "ended"} /\ WorkerState'["render"] = "none"
      /\ WorkerState'["timing"] # "none"
  BY DEF RenderJoined, WorkerState, SinkInv, CallStates, Started, TypeOK, Goto
<1>3. WorkerState' = [WorkerState EXCEPT !["render"] = "none"]
  BY <1>2, OneMoves DEF RenderJoined, Goto, SinkInv, TypeOK
<1>4. QED
  BY <1>1, <1>2, <1>3 DEF Contract!ContractJoins, Contract!ContractMove

\* Joining the timing thread ends the call.
LEMMA TimingJoinContract == ASSUME SinkInv, TimingJoined
                PROVE  Contract!ContractJoins("timing")
<1> USE DEF Workers, Contract!ContractWorkers
<1>1. SinkState \in {"starting", "stopping"} /\ SinkState' = "off"
  BY DEF TimingJoined, SinkState, SinkInv, CallStates
<1>2. /\ WorkerState["timing"] \in {"failed", "ended"} /\ WorkerState'["timing"] = "none"
      /\ WorkerState'["render"] = "none"
  BY DEF TimingJoined, WorkerState, SinkInv, CallStates, Started, TypeOK, Goto
<1>3. WorkerState' = [WorkerState EXCEPT !["timing"] = "none"]
  BY <1>2, OneMoves DEF TimingJoined, Goto, SinkInv, TypeOK
<1>4. QED
  BY <1>1, <1>2, <1>3 DEF Contract!ContractJoins, Contract!ContractMove

\* So does joining the timing thread of an activation that got no further.
LEMMA AbortContract == ASSUME SinkInv, TimingAborted
                PROVE  Contract!ContractJoins("timing")
<1> USE DEF Workers, Contract!ContractWorkers
<1>1. SinkState \in {"starting", "stopping"} /\ SinkState' = "off"
  BY DEF TimingAborted, SinkState, SinkInv, CallStates
<1>2. /\ WorkerState["timing"] \in {"failed", "ended"} /\ WorkerState'["timing"] = "none"
      /\ WorkerState'["render"] = "none"
  BY DEF TimingAborted, WorkerState, SinkInv, CallStates, Started, TypeOK, Goto
<1>3. WorkerState' = [WorkerState EXCEPT !["timing"] = "none"]
  BY <1>2, OneMoves DEF TimingAborted, Goto, SinkInv, TypeOK
<1>4. QED
  BY <1>1, <1>2, <1>3 DEF Contract!ContractJoins, Contract!ContractMove

\* What the application's calls do is what the contract lets them do.
LEMMA CallsContract == ASSUME SinkInv, AppStep
                       PROVE  \/ Contract!ContractNext
                              \/ UNCHANGED <<SinkState, WorkerState>>
<1>1. CASE Activated
  <2>1. Contract!ContractSucceeds
    BY <1>1 DEF Activated, Contract!ContractSucceeds, SinkState, WorkerState, workerVars,
                SinkInv, CallStates, StatusStates, Started, TypeOK, Workers,
                Contract!ContractWorkers
  <2>2. QED
    BY <2>1 DEF Contract!ContractNext
<1>2. CASE Deactivate
  <2>1. Contract!ContractStops
    BY <1>2 DEF Deactivate, Contract!ContractStops, SinkState, WorkerState
  <2>2. QED
    BY <2>1 DEF Contract!ContractNext
<1>3. CASE \/ ActivateBegins \/ StartRender \/ RenderJoined \/ TimingJoined
           \/ TimingAborted
  BY <1>3, BeginsContract, StartRenderContract, RenderJoinContract, TimingJoinContract,
     AbortContract
     DEF Contract!ContractNext, Contract!ContractWorkers
<1>4. CASE ActivateFails \/ TimingFailed \/ NoRenderThread \/ RenderFailed
  BY <1>4 DEF ActivateFails, TimingFailed, NoRenderThread, RenderFailed, SinkState,
              WorkerState, appVars, workerVars, SinkInv, CallStates
<1>5. QED
  BY <1>1, <1>2, <1>3, <1>4 DEF AppStep

\* A worker reports while the sink starts, and ends while it is not on or because
\* its calls failed for good.
LEMMA WorkersContract == ASSUME SinkInv, NEW w \in Workers, WorkerStep(w)
                         PROVE  \/ Contract!ContractNext
                                \/ UNCHANGED <<SinkState, WorkerState>>
<1> USE DEF Workers, Contract!ContractWorkers
<1>1. CASE WorkerExits(w)
  <2>1. UNCHANGED SinkState
    BY <1>1 DEF WorkerExits, SinkState, appVars
  <2>2. WorkerState' = [WorkerState EXCEPT ![w] = WorkerState'[w]]
    BY <1>1, OneMoves DEF WorkerExits, Goto, SinkInv, TypeOK
  <2>3. \/ WorkerState[w] = "starting" /\ WorkerState'[w] = "failed"
        \/ /\ WorkerState[w] = "serving" /\ WorkerState'[w] = "ended"
           /\ startup[w] = "ok"
    BY <1>1 DEF WorkerExits, WorkerState, Goto, SinkInv, TypeOK, StatusStates
  <2>4. startup[w] = "ok" => SinkState # "on" \/ MayFail
    BY <1>1 DEF WorkerExits, SinkState, SinkInv, EndsInOrder
  <2>5. Contract!ContractEnds(w)
    BY <2>1, <2>2, <2>3, <2>4 DEF Contract!ContractEnds, Contract!ContractMove
  <2>6. QED
    BY <2>5 DEF Contract!ContractNext
<1>2. CASE RenderStarts /\ w = "render"
  <2>1. SinkState = "starting" /\ UNCHANGED SinkState
    BY <1>2 DEF RenderStarts, SinkState, appVars, SinkInv, StatusStates, CallStates, Started
  <2>2. WorkerState' = [WorkerState EXCEPT !["render"] = WorkerState'["render"]]
    BY <1>2, OneMoves DEF RenderStarts, Goto, Signal, SinkInv, TypeOK
  <2>3. WorkerState["render"] = "starting" /\ WorkerState'["render"] = "serving"
    BY <1>2 DEF RenderStarts, WorkerState, Goto, Signal, SinkInv, TypeOK, StatusStates
  <2>4. Contract!ContractReports("render")
    BY <2>1, <2>2, <2>3 DEF Contract!ContractReports, Contract!ContractMove
  <2>5. QED
    BY <2>4 DEF Contract!ContractNext
<1>3. CASE TimingReads /\ w = "timing" /\ startup["timing"] = "pending"
  <2>1. SinkState = "starting" /\ UNCHANGED SinkState
    BY <1>3 DEF TimingReads, SinkState, appVars, SinkInv, StatusStates, CallStates, Started
  <2>2. WorkerState' = [WorkerState EXCEPT !["timing"] = WorkerState'["timing"]]
    BY <1>3, OneMoves DEF TimingReads, Goto, Signal, SinkInv, TypeOK
  <2>3. WorkerState["timing"] = "starting" /\ WorkerState'["timing"] = "serving"
    BY <1>3 DEF TimingReads, WorkerState, Goto, Signal, SinkInv, TypeOK
  <2>4. Contract!ContractReports("timing")
    BY <2>1, <2>2, <2>3 DEF Contract!ContractReports, Contract!ContractMove
  <2>5. QED
    BY <2>4 DEF Contract!ContractNext
<1>4. CASE RecoverStep(w)
  BY <1>4, SameForCaller
     DEF RecoverStep, StatusIsFine, RestoreLost, RestoreFails, StatusIsStopped, StopStalled,
         PlaySucceeds, PlayFails, Rearmed, Recovered, Goto, appVars, SinkInv, TypeOK
<1>5. CASE /\ w = "timing"
           /\ TimingSetup \/ FirstPlay \/ TimingNotified \/ TimingTimesOut \/ CountTick
  BY <1>5, SameForCaller
     DEF TimingSetup, FirstPlay, TimingNotified, TimingTimesOut, CountTick, Goto, appVars,
         SinkInv, TypeOK
<1>6. CASE /\ w = "render"
           /\ \/ RenderWrites \/ RenderRenders \/ RenderContinues \/ RenderStops
              \/ RenderDrains \/ RenderBreaks
  BY <1>6, SameForCaller
     DEF RenderWrites, RenderRenders, RenderContinues, RenderStops, RenderDrains,
         RenderBreaks, Goto, appVars, SinkInv, TypeOK
<1>7. CASE \/ SetupFails(w)
           \/ w = "timing" /\ (TimingStops \/ TimingBreaks)
           \/ w = "timing" /\ TimingReads /\ startup["timing"] # "pending"
  BY <1>7 DEF SetupFails, TimingStops, TimingBreaks, TimingReads, Goto, Signal, SinkState,
              WorkerState, appVars, SinkInv, TypeOK, StatusStates
<1>8. QED
  BY <1>1, <1>2, <1>3, <1>4, <1>5, <1>6, <1>7 DEF WorkerStep, TimingStep, RenderStep

\* Activation and deactivation keep their contract, for any number of watchdog
\* ticks and disturbances, and whether or not workers may fail.
THEOREM SinkKeepsContract == Spec => KeepsContract
<1>1. Init => Contract!ContractInit
  BY DEF Init, SinkState, WorkerState, Workers, Contract!ContractInit,
         Contract!ContractWorkers
<1>2. SinkInv /\ [Next]_vars => [Contract!ContractNext]_(Contract!contractVars)
  <2> SUFFICES ASSUME SinkInv, [Next]_vars
               PROVE  [Contract!ContractNext]_(Contract!contractVars)
    OBVIOUS
  <2>1. CASE TransportStep \/ UNCHANGED vars
    <3>1. UNCHANGED <<app, active, pc, startup>>
      BY <2>1, Zenon DEF TransportStep, Advances, DeviceReturns, Thaws, Disturbed, vars,
                         appVars, workerVars
    <3>2. QED
      BY <3>1, SameForCaller DEF Contract!contractVars
  <2>2. QED
    BY <2>1, CallsContract, WorkersContract DEF Next, Contract!contractVars
<1>3. QED
  BY <1>1, <1>2, SinkInvariant, PTL DEF Spec, KeepsContract, Contract!ContractSpec

=============================================================================
