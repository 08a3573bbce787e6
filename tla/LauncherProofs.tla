--------------------------- MODULE LauncherProofs ---------------------------
(***************************************************************************)
(* Proofs about the launcher engine, for any number of runs, routes and    *)
(* targets.  First the controlled-clock protocol, ClockBaseline, for every *)
(* set of knobs and settings, every write order and any number of reboots: *)
(* ClockInv is inductive, and ClockRecoverable is one of its conjuncts.    *)
(* Then the engine: it follows that protocol, so the user's clock settings *)
(* are recoverable whatever its runs do, and a run that reaches the game   *)
(* plays the exact bundle of its route.                                    *)
(***************************************************************************)
EXTENDS Launcher, SequenceTheorems, TLAPS

-----------------------------------------------------------------------------
(* The controlled-clock protocol.                                         *)

\* What ClockInv says, conjunct by conjunct, about the state file.
LEMMA FileStateShapes ==
  ASSUME ClockTypeOK
  PROVE  /\ FileExists => stateFile.boot \in Nat
         /\ ValidFile => /\ FileExists /\ SameBootFile
                         /\ stateFile.saved \in KnobValues
         /\ ~FileExists => ~SameBootFile /\ ~ValidFile
  BY DEF ClockTypeOK, FileStates, FileExists, SameBootFile, ValidFile, NoFile,
         KnobValues

\* The initial states satisfy the invariant.
LEMMA ClockInitInv == ClockInit => ClockInv
<1> SUFFICES ASSUME ClockInit PROVE ClockInv
  OBVIOUS
<1> USE DEF ClockInit
<1>1. ClockTypeOK
  BY DEF ClockTypeOK, FileStates, Phases
<1>2. ~FileExists /\ ~ValidFile
  BY DEF FileExists, ValidFile, NoFile
<1>3. ClockRecoverable
  BY <1>2 DEF ClockRecoverable
<1>4. phase = "off" /\ ~ready
  OBVIOUS
<1>5. QED
  BY <1>1, <1>2, <1>3, <1>4 DEF ClockInv

\* Saving and loading the baseline keep the invariant.
LEMMA SaveStepInv ==
  ASSUME ClockInv,
         \/ ClockEnter \/ ClockLoad \/ ClockRefuseDamaged \/ ClockDropStale
         \/ ClockPersist \/ ClockSaveFails \/ ClockCheckFails
  PROVE  ClockInv'
<1> USE ClockAssumption DEF ClockInv, ClockTypeOK, ClockRecoverable, FileExists,
        SameBootFile, ValidFile, Phases
<1>1. CASE ClockEnter
  BY <1>1 DEF ClockEnter
<1>2. CASE ClockLoad
  BY <1>2 DEF ClockLoad
<1>3. CASE ClockRefuseDamaged
  BY <1>3 DEF ClockRefuseDamaged, StartRestore
<1>4. CASE ClockDropStale
  BY <1>4 DEF ClockDropStale, FileStates, NoFile
<1>5. CASE ClockPersist
  BY <1>5 DEF ClockPersist, BaselineFile, FileStates
<1>6. CASE ClockSaveFails
  BY <1>6 DEF ClockSaveFails, StartRestore
<1>7. CASE ClockCheckFails
  BY <1>7 DEF ClockCheckFails, FileStates, NoFile
<1>8. QED
  BY <1>1, <1>2, <1>3, <1>4, <1>5, <1>6, <1>7

\* The two write loops and the ends of a session keep the invariant.
LEMMA LoopStepInv ==
  ASSUME ClockInv,
         \/ \E k \in Knobs, v \in Settings, err \in BOOLEAN :
              ClockCapWrite(k, v, err) \/ ClockRestoreWrite(k, v, err)
         \/ ClockCapped \/ ClockCapRefused \/ ClockLeave
         \/ \E removed \in BOOLEAN : ClockRestored(removed)
  PROVE  ClockInv'
<1> USE ClockAssumption DEF ClockInv, ClockTypeOK, ClockRecoverable, FileExists,
        SameBootFile, ValidFile, Phases
<1>1. ASSUME NEW k \in Knobs, NEW v \in Settings, NEW err \in BOOLEAN,
             ClockCapWrite(k, v, err)
      PROVE  ClockInv'
  <2> USE <1>1 DEF ClockCapWrite, WriteExact, KnobValues
  <2>1. knobs' \in KnobValues /\ todo' \subseteq Knobs /\ failed' \in BOOLEAN
    OBVIOUS
  <2>2. ~failed' => \A j \in Knobs \ todo' : knobs'[j] = Cap[j]
    OBVIOUS
  <2>3. SameBootFile'
    OBVIOUS
  <2>4. QED
    BY <2>1, <2>2, <2>3
<1>2. ASSUME NEW k \in Knobs, NEW v \in Settings, NEW err \in BOOLEAN,
             ClockRestoreWrite(k, v, err)
      PROVE  ClockInv'
  <2> USE <1>2 DEF ClockRestoreWrite, WriteExact, KnobValues
  <2>1. knobs' \in KnobValues /\ todo' \subseteq Knobs /\ failed' \in BOOLEAN
    OBVIOUS
  <2>2. ~failed' => \A j \in Knobs \ todo' : knobs'[j] = saved'[j]
    OBVIOUS
  <2>3. SameBootFile'
    OBVIOUS
  <2>4. QED
    BY <2>1, <2>2, <2>3
<1>3. CASE ClockCapped
  BY <1>3 DEF ClockCapped
<1>4. CASE ClockCapRefused
  BY <1>4 DEF ClockCapRefused, StartRestore
<1>5. CASE ClockLeave
  BY <1>5 DEF ClockLeave, StartRestore
<1>6. ASSUME NEW removed \in BOOLEAN, ClockRestored(removed)
      PROVE  ClockInv'
  <2> USE <1>6 DEF ClockRestored
  <2>1. CASE removed
    <3>1. \A k \in Knobs : knobs[k] = orig[k]
      BY <2>1
    <3>2. knobs = orig
      BY <3>1 DEF KnobValues
    <3>3. stateFile' = NoFile
      BY <2>1
    <3>4. stateFile' \in FileStates /\ ~FileExists' /\ ~ValidFile'
      BY <3>3 DEF FileStates, NoFile
    <3>5. QED
      BY <3>2, <3>4
  <2>2. CASE ~removed
    BY <2>2
  <2>3. QED
    BY <2>1, <2>2
<1>7. QED
  BY <1>1, <1>2, <1>3, <1>4, <1>5, <1>6

\* Kills, reboots, other programs and a damaged file keep the invariant.
LEMMA EnvironmentStepInv ==
  ASSUME ClockInv, ClockEnvironment
  PROVE  ClockInv'
<1> USE ClockAssumption DEF ClockInv, ClockTypeOK, ClockRecoverable, FileExists,
        SameBootFile, ValidFile, Phases
<1>1. CASE ClockKill
  BY <1>1 DEF ClockKill
<1>2. CASE ClockDamage
  <2> USE <1>2 DEF ClockDamage
  <2>1. stateFile.boot \in Nat
    BY FileStateShapes
  <2>2. stateFile' \in FileStates /\ stateFile'.kind = "damaged"
        /\ stateFile'.boot = stateFile.boot
    BY <2>1 DEF DamagedFile, FileStates
  <2>3. QED
    BY <2>2
<1>3. ASSUME NEW k \in KnobValues, NEW f \in {NoFile, stateFile}, ClockReboot(k, f)
      PROVE  ClockInv'
  <2>1. /\ knobs' = k /\ orig' = k /\ saved' = saved /\ failed' = FALSE
        /\ boot' \in Nat /\ boot' = boot + 1 /\ phase' = "off" /\ ready' = FALSE
        /\ todo' = {} /\ (stateFile' = NoFile \/ stateFile' = stateFile)
    BY <1>3 DEF ClockReboot
  <2>2. ClockTypeOK'
    BY <2>1 DEF FileStates
  <2>3. FileExists' => stateFile'.boot \in Nat /\ stateFile'.boot < boot'
    BY <2>1, FileStateShapes DEF NoFile
  <2>4. ~SameBootFile' /\ ~ValidFile'
    BY <2>2, <2>3 DEF FileStates, NoFile
  <2>5. QED
    BY <2>1, <2>2, <2>3, <2>4
<1>4. ASSUME NEW k \in KnobValues, ClockTune(k)
      PROVE  ClockInv'
  BY <1>4 DEF ClockTune
<1>5. QED
  BY <1>1, <1>2, <1>3, <1>4 DEF ClockEnvironment

\* Every step of the protocol, and every stutter, keeps the invariant.
LEMMA ClockNextInv == ClockInv /\ [ClockNext]_clockVars => ClockInv'
<1> SUFFICES ASSUME ClockInv, [ClockNext]_clockVars
             PROVE  ClockInv'
  OBVIOUS
<1>1. CASE ClockNext
  BY <1>1, SaveStepInv, LoopStepInv, EnvironmentStepInv DEF ClockNext, ClockProgress
<1>2. CASE UNCHANGED clockVars
  BY <1>2 DEF clockVars, ClockInv, ClockTypeOK, ClockRecoverable, FileExists,
              SameBootFile, ValidFile
<1>3. QED
  BY <1>1, <1>2

\* The inductive invariant holds in every reachable state.
THEOREM ClockInvariant == ClockSpec => []ClockInv
<1>1. QED
  BY ClockInitInv, ClockNextInv, PTL DEF ClockSpec

\* Every variable keeps its type.
THEOREM ClockTyping == ClockSpec => []ClockTypeOK
<1>1. ClockInv => ClockTypeOK
  BY DEF ClockInv
<1>2. QED
  BY <1>1, ClockInvariant, PTL

\* The user's settings are never lost: a knob that differs from them has a
\* state file of this boot beside it, and a file that validates records them.
THEOREM ClocksAreRecoverable == ClockSpec => []ClockRecoverable
<1>1. ClockInv => ClockRecoverable
  BY DEF ClockInv
<1>2. QED
  BY <1>1, ClockInvariant, PTL

\* The game is only reached with every knob at its controlled setting.
THEOREM GameOnlyAtTheCap == ClockSpec => HeldIsCapped
<1>1. ClockInv /\ [ClockNext]_clockVars
        => [phase # "held" /\ phase' = "held" => knobs' = Cap]_clockVars
  <2> SUFFICES ASSUME ClockInv, ClockNext, phase # "held", phase' = "held"
               PROVE  knobs' = Cap
    OBVIOUS
  <2>1. ClockCapped
    BY DEF ClockNext, ClockProgress, ClockEnvironment, ClockEnter, ClockLeave,
           ClockLoad, ClockRefuseDamaged, ClockDropStale, ClockPersist,
           ClockSaveFails, ClockCheckFails, ClockCapWrite, ClockRestoreWrite,
           ClockCapRefused, ClockRestored, ClockKill, ClockDamage, ClockReboot,
           ClockTune, StartRestore
  <2>2. \A k \in Knobs : knobs[k] = Cap[k]
    BY <2>1 DEF ClockCapped, ClockInv
  <2>3. QED
    BY <2>1, <2>2, ClockAssumption DEF ClockCapped, ClockInv, ClockTypeOK, KnobValues
<1>2. QED
  BY <1>1, ClockInvariant, PTL DEF ClockSpec, HeldIsCapped

-----------------------------------------------------------------------------
(* The engine.                                                            *)

\* Every step of the engine is a step of the controlled-clock protocol or
\* leaves the protocol's variables alone.
LEMMA StepFollowsProtocol == [Next]_vars => [ClockNext]_clockVars
<1> SUFFICES ASSUME [Next]_vars
             PROVE  [ClockNext]_clockVars
  OBVIOUS
<1>1. ASSUME NEW l \in Launchers, Command(l)
      PROVE  [ClockNext]_clockVars
  <2>1. CASE Verified(l)
    BY <2>1 DEF Verified, ClockNext
  <2>2. CASE ControlClocks(l)
    BY <2>2 DEF ControlClocks, ClockNext
  <2>3. CASE RestoreClocks(l)
    BY <2>3 DEF RestoreClocks, ClockNext, ClockProgress
  <2>4. CASE \E removed \in BOOLEAN : ClocksRestored(l, removed)
    BY <2>4 DEF ClocksRestored, ClockNext, ClockProgress
  <2>5. CASE \/ UnmountTop(l) \/ UnmountRetry(l) \/ UnmountGiveUp(l) \/ Unmounted(l)
             \/ PassOver(l) \/ ExeExposed(l) \/ MakeTemp(l) \/ Patch(l)
             \/ PrepareFails(l) \/ BindExe(l)
    BY <2>5 DEF UnmountTop, UnmountRetry, UnmountGiveUp, Unmounted, PassOver, ExeExposed,
                MakeTemp, Patch, PrepareFails, BindExe
  <2>6. CASE \/ LegacyCleared(l) \/ NameDxvkTargets(l) \/ BindAccept(l) \/ BindFails(l)
             \/ BundleBound(l) \/ VerifyRefuses(l)
             \/ \E image \in Images : BindReplace(l, image) \/ BindMount(l, image)
    BY <2>6 DEF LegacyCleared, NameDxvkTargets, BindAccept, BindFails, BundleBound,
                VerifyRefuses, BindReplace, BindMount
  <2>7. CASE \/ \E k \in Kinds : Fork(l, k) \/ RecordPid(l, k)
             \/ SkipHelper(l) \/ HelperRefused(l) \/ HelperChecked(l)
             \/ WaitReturns(l) \/ ForgetGame(l)
             \/ SignalAll(l) \/ Drained(l) \/ NothingToRestore(l)
             \/ AllUnmounted(l) \/ Exit(l)
    BY <2>7 DEF Fork, RecordPid, SkipHelper, HelperRefused, HelperChecked, WaitReturns,
                ForgetGame, SignalAll, Drained, NothingToRestore, AllUnmounted, Exit
  <2>8. QED
    BY <1>1, <2>1, <2>2, <2>3, <2>4, <2>5, <2>6, <2>7 DEF Command
<1>2. CASE Environment
  <2>1. ASSUME NEW l \in Launchers, Killed(l)
        PROVE  [ClockNext]_clockVars
    BY <2>1 DEF Killed, ClockNext, ClockEnvironment
  <2>2. ASSUME NEW settings \in KnobValues, NEW tmpSurvives \in BOOLEAN,
               Reboot(settings, tmpSurvives)
        PROVE  [ClockNext]_clockVars
    BY <2>2 DEF Reboot, ClockNext, ClockEnvironment
  <2>3. CASE FileEdited
    BY <2>3 DEF FileEdited, ClockNext, ClockEnvironment
  <2>4. CASE \/ \E l \in Launchers : Start(l) \/ StartRefused(l) \/ Terminated(l)
             \/ \E l \in Launchers, k \in Kinds : Exec(l, k) \/ Named(l, k) \/ Ends(l, k)
             \/ \E l \in Launchers, t \in Targets : GameOpens(l, t)
    BY <2>4 DEF Start, StartRefused, Terminated, Exec, Named, Ends, GameOpens
  <2>5. QED
    BY <1>2, <2>1, <2>2, <2>3, <2>4 DEF Environment
<1>3. CASE UNCHANGED vars
  BY <1>3 DEF vars
<1>4. QED
  BY <1>1, <1>2, <1>3 DEF Next

\* The engine follows the controlled-clock protocol: no signal, refusal, crash
\* or second run makes a step the protocol does not have.
THEOREM EngineFollowsProtocol == Spec => ImplementsClockProtocol
<1>1. Init => ClockInit
  BY DEF Init
<1>2. QED
  BY <1>1, StepFollowsProtocol, PTL DEF Spec, ClockSpec, ImplementsClockProtocol

\* So the engine inherits what the protocol guarantees: the user's settings are
\* recoverable after any run, however it ended.
THEOREM EngineKeepsClocksRecoverable == Spec => []ClockRecoverable
  BY EngineFollowsProtocol, ClocksAreRecoverable, PTL DEF ImplementsClockProtocol

-----------------------------------------------------------------------------
(* Types *)

\* A loop's queue stays a queue of targets when its head is dropped.
LEMMA NextTargetTyping ==
  ASSUME TypeOK, NEW l \in Launchers, queue[l] # <<>>, NextTarget(l)
  PROVE  queue' \in [Launchers -> Seq(Targets)]
<1>1. Tail(queue[l]) \in Seq(Targets)
  BY HeadTailProperties DEF TypeOK
<1>2. QED
  BY <1>1 DEF TypeOK, NextTarget

\* The target a loop is at is one of the targets.
LEMMA HeadIsTarget ==
  ASSUME TypeOK, NEW l \in Launchers, queue[l] # <<>>
  PROVE  Head(queue[l]) \in Targets
  BY HeadTailProperties DEF TypeOK

\* Starting a loop gives a queue of targets and a step.
LEMMA LoopTyping ==
  ASSUME TypeOK, NEW l \in Launchers, NEW step \in Steps, NEW order \in Seq(Targets),
         Loop(l, step, order)
  PROVE  pc' \in [Launchers -> Steps] /\ queue' \in [Launchers -> Seq(Targets)]
  BY DEF TypeOK, Loop, Goto

\* So does a refused launch.
LEMMA RefuseTyping ==
  ASSUME TypeOK, NEW l \in Launchers, Refuse(l)
  PROVE  pc' \in [Launchers -> Steps] /\ queue' \in [Launchers -> Seq(Targets)]
<1>1. <<>> \in Seq(Targets) /\ "kill" \in Steps
  BY EmptySeq DEF Steps, CleanupSteps
<1>2. QED
  BY <1>1 DEF TypeOK, Loop, Goto, Refuse

\* Removing the top mount of a target leaves stacks of mounts.
LEMMA PopTyping ==
  ASSUME TypeOK, NEW t \in Targets, mounts[t] # <<>>, Pop(t)
  PROVE  mounts' \in [Targets -> Seq(Mount)]
<1>1. Tail(mounts[t]) \in Seq(Mount)
  BY HeadTailProperties DEF TypeOK
<1>2. QED
  BY <1>1 DEF TypeOK, Pop

\* So does mounting one more.
LEMMA PushTyping ==
  ASSUME TypeOK, NEW t \in Targets, NEW image \in Images,
         NEW backing \in Launchers \cup {Free}, Push(t, image, backing)
  PROVE  mounts' \in [Targets -> Seq(Mount)]
<1> DEFINE m == <<[image |-> image, backing |-> backing]>>
<1>1. [image |-> image, backing |-> backing] \in Mount
  BY DEF Mount
<1>2. m \in Seq(Mount) /\ mounts[t] \in Seq(Mount)
  BY <1>1 DEF TypeOK
<1>3. m \o mounts[t] \in Seq(Mount)
  BY <1>2, ConcatProperties
<1>4. QED
  BY <1>3 DEF TypeOK, Push

\* The counter of attempts in its range.
LEMMA TriesTyping ==
  ASSUME TypeOK, NEW l \in Launchers, NEW n \in Nat, n < MaxTries,
         tries' = [tries EXCEPT ![l] = n]
  PROVE  tries' \in [Launchers -> 0 .. MaxTries - 1]
<1>1. MaxTries \in Nat
  BY LauncherAssumption
<1>2. n \in 0 .. MaxTries - 1
  BY <1>1
<1>3. QED
  BY <1>2 DEF TypeOK

\* The parts of TypeOK that are the engine's own.
EngineTyped ==
  /\ pc \in [Launchers -> Steps]
  /\ lock \in Launchers \cup {Free}
  /\ route \in [Launchers -> Routes]
  /\ queue \in [Launchers -> Seq(Targets)]
  /\ tries \in [Launchers -> 0 .. MaxTries - 1]
  /\ cleanupFailed \in [Launchers -> BOOLEAN] /\ dxvkNamed \in [Launchers -> BOOLEAN]
  /\ mounts \in [Targets -> Seq(Mount)]
  /\ temp \in [Launchers -> BOOLEAN]
  /\ proc \in [Launchers -> [Kinds -> ProcStates]]
  /\ pids \in [Launchers -> SUBSET Kinds]
  /\ pins \in [Launchers -> [Kinds -> SUBSET Targets]]

\* The loops over targets keep the types.
LEMMA LoopStepTyping ==
  ASSUME TypeOK, NEW l \in Launchers,
         \/ UnmountTop(l) \/ UnmountRetry(l) \/ UnmountGiveUp(l) \/ Unmounted(l)
         \/ PassOver(l) \/ NameDxvkTargets(l) \/ BindAccept(l) \/ BindFails(l)
         \/ \E image \in Images : BindReplace(l, image) \/ BindMount(l, image)
  PROVE  EngineTyped'
<1>0. MaxTries \in Nat /\ 0 < MaxTries /\ tries[l] \in 0 .. MaxTries - 1
  BY LauncherAssumption DEF TypeOK
<1>1. CASE UnmountTop(l)
  <2>1. mounts' \in [Targets -> Seq(Mount)]
    BY <1>1, HeadIsTarget, PopTyping DEF UnmountTop, Unmounting
  <2>2. QED
    BY <1>0, <1>1, <2>1, TriesTyping DEF TypeOK, EngineTyped, UnmountTop
<1>2. CASE UnmountRetry(l)
  <2> DEFINE n == tries[l] + 1
  <2>1. n \in Nat /\ n < MaxTries /\ tries' = [tries EXCEPT ![l] = n]
    BY <1>0, <1>2 DEF UnmountRetry
  <2> HIDE DEF n
  <2>2. tries' \in [Launchers -> 0 .. MaxTries - 1]
    BY <2>1, TriesTyping
  <2>3. QED
    BY <1>2, <2>2 DEF TypeOK, EngineTyped, UnmountRetry, deviceVars
<1>3. CASE UnmountGiveUp(l)
  <2>1. pc' \in [Launchers -> Steps] /\ queue' \in [Launchers -> Seq(Targets)]
    BY <1>3, RefuseTyping, NextTargetTyping DEF UnmountGiveUp, Unmounting, TypeOK
  <2>2. tries' \in [Launchers -> 0 .. MaxTries - 1]
    BY <1>0, <1>3, TriesTyping DEF UnmountGiveUp
  <2>3. cleanupFailed' \in [Launchers -> BOOLEAN]
    BY <1>3 DEF UnmountGiveUp, TypeOK
  <2>4. QED
    BY <1>3, <2>1, <2>2, <2>3 DEF TypeOK, EngineTyped, UnmountGiveUp, deviceVars
<1>4. CASE Unmounted(l)
  BY <1>4, NextTargetTyping DEF TypeOK, EngineTyped, Unmounted, Unmounting, deviceVars
<1>5. CASE PassOver(l)
  BY <1>5, NextTargetTyping DEF TypeOK, EngineTyped, PassOver, Unnamed, deviceVars
<1>6. CASE NameDxvkTargets(l)
  BY <1>6 DEF TypeOK, EngineTyped, NameDxvkTargets, deviceVars
<1>7. CASE BindAccept(l)
  BY <1>7, NextTargetTyping DEF TypeOK, EngineTyped, BindAccept, Binding, deviceVars
<1>8. CASE BindFails(l)
  BY <1>8, RefuseTyping DEF TypeOK, EngineTyped, BindFails, deviceVars
<1>9. ASSUME NEW image \in Images, BindReplace(l, image)
      PROVE  EngineTyped'
  <2>1. mounts' \in [Targets -> Seq(Mount)]
    BY <1>9, HeadIsTarget, PopTyping DEF BindReplace, Binding
  <2>2. QED
    BY <1>9, <2>1 DEF TypeOK, EngineTyped, BindReplace, runVars
<1>10. ASSUME NEW image \in Images, BindMount(l, image)
       PROVE  EngineTyped'
  <2>1. mounts' \in [Targets -> Seq(Mount)]
    BY <1>10, HeadIsTarget, PushTyping DEF BindMount, Binding
  <2>2. queue' \in [Launchers -> Seq(Targets)]
    BY <1>10, NextTargetTyping DEF BindMount, Binding
  <2>3. QED
    BY <1>10, <2>1, <2>2 DEF TypeOK, EngineTyped, BindMount
<1>11. QED
  BY <1>1, <1>2, <1>3, <1>4, <1>5, <1>6, <1>7, <1>8, <1>9, <1>10

\* So do the steps from the start of a run to the clocks, and those of the
\* cleanup.
LEMMA RunStepTyping ==
  ASSUME TypeOK, NEW l \in Launchers,
         \/ Start(l) \/ StartRefused(l) \/ Terminated(l)
         \/ ExeExposed(l) \/ MakeTemp(l) \/ Patch(l) \/ PrepareFails(l) \/ BindExe(l)
         \/ LegacyCleared(l) \/ BundleBound(l) \/ Verified(l) \/ VerifyRefuses(l)
         \/ ControlClocks(l) \/ SignalAll(l) \/ Drained(l) \/ RestoreClocks(l)
         \/ \E removed \in BOOLEAN : ClocksRestored(l, removed)
         \/ NothingToRestore(l) \/ AllUnmounted(l)
  PROVE  EngineTyped'
<1>1. TrappedSteps \cup CleanupSteps \cup {"idle", "exited"} \subseteq Steps
  BY DEF Steps
<1>2. /\ <<Exe>> \in Seq(Targets) /\ <<>> \in Seq(Targets)
      /\ LegacyOrder \in Seq(Targets) /\ CleanupOrder \in Seq(Targets)
      /\ BindOrder \in Seq(Targets)
  <2>1. Exe \in Targets /\ LegacyOrder \in Seq(Targets) /\ CleanupOrder \in Seq(Targets)
    BY LauncherAssumption
  <2>2. BindOrder \in Seq(Targets)
    BY LauncherAssumption, SeqMonotonic
  <2>3. QED
    BY <2>1, <2>2, EmptySeq
<1> USE DEF TypeOK, EngineTyped, deviceVars, TrappedSteps, CleanupSteps
<1>3. CASE Start(l)
  BY <1>1, <1>2, <1>3, LoopTyping DEF Start
<1>4. CASE StartRefused(l)
  BY <1>1, <1>4 DEF StartRefused, Goto
<1>5. CASE Terminated(l) \/ PrepareFails(l) \/ VerifyRefuses(l)
  BY <1>5, RefuseTyping DEF Terminated, PrepareFails, VerifyRefuses
<1>6. CASE ExeExposed(l)
  BY <1>1, <1>2, <1>6, LoopTyping DEF ExeExposed
<1>7. CASE MakeTemp(l)
  BY <1>1, <1>7 DEF MakeTemp, Goto
<1>8. CASE Patch(l) \/ BundleBound(l) \/ Verified(l)
  BY <1>1, <1>8 DEF Patch, BundleBound, Verified, Goto
<1>9. CASE BindExe(l)
  <2>1. Exe \in Targets /\ Bundle[route[l]][Exe] \in Images
    BY LauncherAssumption
  <2>2. mounts' \in [Targets -> Seq(Mount)]
    BY <1>9, <2>1, PushTyping DEF BindExe
  <2>3. QED
    BY <1>1, <1>2, <1>9, <2>2, LoopTyping DEF BindExe
<1>10. CASE LegacyCleared(l)
  BY <1>1, <1>2, <1>10, LoopTyping DEF LegacyCleared
<1>11. CASE ControlClocks(l)
  BY <1>1, <1>11 DEF ControlClocks, Goto
<1>12. CASE SignalAll(l)
  <2>1. proc' \in [Launchers -> [Kinds -> ProcStates]]
    BY <1>12 DEF SignalAll, ProcStates
  <2>2. QED
    BY <1>1, <1>12, <2>1 DEF SignalAll, Goto
<1>13. CASE Drained(l) \/ AllUnmounted(l)
  BY <1>1, <1>13 DEF Drained, AllUnmounted, Goto
<1>14. CASE RestoreClocks(l)
  BY <1>14 DEF RestoreClocks, runVars
<1>15. ASSUME NEW removed \in BOOLEAN, ClocksRestored(l, removed)
       PROVE  EngineTyped'
  BY <1>1, <1>2, <1>15, LoopTyping DEF ClocksRestored
<1>16. CASE NothingToRestore(l)
  BY <1>1, <1>2, <1>16, LoopTyping DEF NothingToRestore
<1>17. QED
  BY <1>3, <1>4, <1>5, <1>6, <1>7, <1>8, <1>9, <1>10, <1>11, <1>12, <1>13, <1>14, <1>15,
     <1>16

\* So do the steps about processes, and the end of a run.
LEMMA ProcessStepTyping ==
  ASSUME TypeOK, NEW l \in Launchers,
         \/ \E k \in Kinds : Fork(l, k) \/ RecordPid(l, k)
         \/ \E k \in Kinds : Exec(l, k) \/ Named(l, k) \/ Ends(l, k)
         \/ \E t \in Targets : GameOpens(l, t)
         \/ SkipHelper(l) \/ HelperRefused(l) \/ HelperChecked(l)
         \/ WaitReturns(l) \/ ForgetGame(l) \/ Exit(l) \/ Killed(l)
  PROVE  EngineTyped'
<1>1. TrappedSteps \cup {"exited", "dead"} \subseteq Steps
  BY DEF Steps
<1>2. Box \in Targets /\ MaxTries \in Nat /\ 0 < MaxTries
  BY LauncherAssumption
<1>3. Kinds \subseteq {"explorer", "helper", "game"}
  BY LauncherAssumption
<1>4. 0 \in 0 .. MaxTries - 1 /\ <<>> \in Seq(Targets)
  BY <1>2, EmptySeq
<1> USE DEF TypeOK, EngineTyped, deviceVars, TrappedSteps, ProcStates
<1>5. ASSUME NEW k \in Kinds, Fork(l, k)
      PROVE  EngineTyped'
  <2>1. RecordStep[k] \in Steps
    BY <1>1, <1>3 DEF RecordStep
  <2>2. proc' \in [Launchers -> [Kinds -> ProcStates]] /\ pc' \in [Launchers -> Steps]
    BY <1>5, <2>1 DEF Fork, Goto
  <2>3. QED
    BY <1>5, <2>2 DEF Fork
<1>6. ASSUME NEW k \in Kinds, RecordPid(l, k)
      PROVE  EngineTyped'
  <2>1. NextStep[k] \in Steps
    BY <1>1, <1>3 DEF NextStep
  <2>2. pc' \in [Launchers -> Steps] /\ pids' \in [Launchers -> SUBSET Kinds]
    BY <1>6, <2>1 DEF RecordPid, Goto
  <2>3. QED
    BY <1>6, <2>2 DEF RecordPid
<1>7. ASSUME NEW k \in Kinds, Exec(l, k) \/ Named(l, k)
      PROVE  EngineTyped'
  <2>1. Executes(k) \subseteq Targets
    BY <1>2 DEF Executes
  <2>2. CASE Exec(l, k)
    <3>1. /\ proc' \in [Launchers -> [Kinds -> ProcStates]]
          /\ pins' \in [Launchers -> [Kinds -> SUBSET Targets]]
      BY <2>1, <2>2 DEF Exec
    <3>2. QED
      BY <2>2, <3>1 DEF Exec, runVars
  <2>3. CASE Named(l, k)
    BY <2>3 DEF Named, runVars
  <2>4. QED
    BY <1>7, <2>2, <2>3
<1>8. ASSUME NEW k \in Kinds, Ends(l, k)
      PROVE  EngineTyped'
  BY <1>8 DEF Ends, runVars
<1>9. ASSUME NEW t \in Targets, GameOpens(l, t)
      PROVE  EngineTyped'
  BY <1>9 DEF GameOpens, runVars
<1>10. CASE SkipHelper(l) \/ WaitReturns(l)
  BY <1>1, <1>10 DEF SkipHelper, WaitReturns, Goto
<1>11. CASE HelperRefused(l)
  BY <1>11, RefuseTyping DEF HelperRefused
<1>12. CASE HelperChecked(l)
  <2>1. pc' \in [Launchers -> Steps] /\ queue' \in [Launchers -> Seq(Targets)]
    BY <1>1, <1>12, RefuseTyping DEF HelperChecked, Goto
  <2>2. pids' \in [Launchers -> SUBSET Kinds]
    BY <1>12 DEF HelperChecked
  <2>3. QED
    BY <1>12, <2>1, <2>2 DEF HelperChecked
<1>13. CASE ForgetGame(l)
  BY <1>13, RefuseTyping DEF ForgetGame
<1>14. CASE Exit(l) \/ Killed(l)
  <2>1. PICK step \in {"exited", "dead"} : Vanish(l, step)
    BY <1>14 DEF Exit, Killed
  <2>2. /\ pc' \in [Launchers -> Steps] /\ lock' \in Launchers \cup {Free}
        /\ queue' \in [Launchers -> Seq(Targets)] /\ pids' \in [Launchers -> SUBSET Kinds]
        /\ tries' \in [Launchers -> 0 .. MaxTries - 1]
        /\ cleanupFailed' \in [Launchers -> BOOLEAN]
        /\ dxvkNamed' \in [Launchers -> BOOLEAN]
    BY <1>1, <1>4, <2>1 DEF Vanish, Goto
  <2>3. QED
    BY <1>14, <2>2 DEF Exit, Killed
<1>15. QED
  BY <1>5, <1>6, <1>7, <1>8, <1>9, <1>10, <1>11, <1>12, <1>13, <1>14

\* So do a reboot and the file's edit.
LEMMA OutsideStepTyping ==
  ASSUME TypeOK,
         \/ FileEdited
         \/ \E settings \in KnobValues, tmpSurvives \in BOOLEAN :
              Reboot(settings, tmpSurvives)
  PROVE  EngineTyped'
<1>1. CASE FileEdited
  BY <1>1 DEF FileEdited, runVars, deviceVars, TypeOK, EngineTyped
<1>2. ASSUME NEW settings \in KnobValues, NEW tmpSurvives \in BOOLEAN,
             Reboot(settings, tmpSurvives)
      PROVE  EngineTyped'
  <2>1. /\ "dead" \in Steps
        /\ 0 \in 0 .. MaxTries - 1
        /\ <<>> \in Seq(Targets) /\ <<>> \in Seq(Mount)
    <3>1. MaxTries \in Nat /\ 0 < MaxTries
      BY LauncherAssumption
    <3>2. QED
      BY <3>1, EmptySeq DEF Steps
  <2>2. pc' \in [Launchers -> Steps] /\ mounts' \in [Targets -> Seq(Mount)]
    BY <1>2, <2>1 DEF Reboot, TypeOK
  <2>3. proc' \in [Launchers -> [Kinds -> ProcStates]]
    BY <1>2 DEF Reboot, TypeOK, ProcStates
  <2>4. /\ lock' \in Launchers \cup {Free} /\ temp' \in [Launchers -> BOOLEAN]
        /\ queue' \in [Launchers -> Seq(Targets)] /\ pids' \in [Launchers -> SUBSET Kinds]
        /\ tries' \in [Launchers -> 0 .. MaxTries - 1]
        /\ cleanupFailed' \in [Launchers -> BOOLEAN]
        /\ dxvkNamed' \in [Launchers -> BOOLEAN]
        /\ pins' \in [Launchers -> [Kinds -> SUBSET Targets]]
    BY <1>2, <2>1 DEF Reboot, TypeOK
  <2>5. QED
    BY <1>2, <2>2, <2>3, <2>4 DEF Reboot, TypeOK, EngineTyped
<1>3. QED
  BY <1>1, <1>2

\* The initial states are typed: what earlier launchers left is a stack of
\* mounts on each target.
LEMMA InitTyping == Init => TypeOK
<1> SUFFICES ASSUME Init
             PROVE  TypeOK
  OBVIOUS
<1>1. ClockTypeOK
  BY ClockInitInv DEF Init, ClockInv
<1>2. mounts \in [Targets -> Seq(Mount)]
  <2>1. PICK stale \in StaleMounts :
          mounts = [t \in Targets |->
                     [i \in DOMAIN stale[t] |-> [image |-> stale[t][i], backing |-> Free]]]
    BY DEF Init
  <2>2. stale \in [Targets -> Seq(Images)]
    BY LauncherAssumption
  <2>3. ASSUME NEW t \in Targets
        PROVE  mounts[t] \in Seq(Mount)
    <3> DEFINE s == stale[t]
    <3>1. s \in Seq(Images)
      BY <2>2
    <3>2. Len(s) \in Nat /\ DOMAIN s = 1 .. Len(s) /\ \A i \in 1 .. Len(s) : s[i] \in Images
      BY <3>1, LenProperties, ElementOfSeq
    <3>3. mounts[t] = [i \in 1 .. Len(s) |-> [image |-> s[i], backing |-> Free]]
      BY <2>1, <3>2
    <3>4. \A i \in 1 .. Len(s) : [image |-> s[i], backing |-> Free] \in Mount
      BY <3>2 DEF Mount
    <3> HIDE DEF s
    <3>5. QED
      BY <3>2, <3>3, <3>4
  <2>4. QED
    BY <2>1, <2>3
<1>3. EngineTyped
  <2>1. "idle" \in Steps /\ 0 \in 0 .. MaxTries - 1 /\ <<>> \in Seq(Targets)
    <3>1. MaxTries \in Nat /\ 0 < MaxTries
      BY LauncherAssumption
    <3>2. QED
      BY <3>1, EmptySeq DEF Steps
  <2>2. QED
    BY <1>2, <2>1 DEF Init, EngineTyped, ProcStates
<1>4. QED
  BY <1>1, <1>3 DEF TypeOK, EngineTyped

\* Every step of the engine keeps the types.
LEMMA NextTyping ==
  ASSUME TypeOK, ClockTypeOK', [Next]_vars
  PROVE  TypeOK'
<1>1. ASSUME NEW l \in Launchers, Command(l)
      PROVE  EngineTyped'
  BY <1>1, LoopStepTyping, RunStepTyping, ProcessStepTyping DEF Command
<1>2. CASE Environment
  BY <1>2, RunStepTyping, ProcessStepTyping, OutsideStepTyping DEF Environment,
              TypeOK, EngineTyped
<1>3. CASE UNCHANGED vars
  BY <1>3 DEF vars, runVars, deviceVars, TypeOK, EngineTyped
<1>4. QED
  BY <1>1, <1>2, <1>3 DEF Next, TypeOK, EngineTyped

\* Every variable of the engine keeps its type.
THEOREM EngineTyping == Spec => []TypeOK
<1>1. Spec => []ClockTypeOK
  BY EngineFollowsProtocol, ClockTyping, PTL DEF ImplementsClockProtocol
<1>2. ClockTypeOK' /\ TypeOK /\ [Next]_vars => TypeOK'
  BY NextTyping
<1>3. QED
  BY <1>1, <1>2, InitTyping, PTL DEF Spec

-----------------------------------------------------------------------------
(* The lock *)

ActiveSteps == TrappedSteps \cup CleanupSteps

\* What a run's own step leaves alone: every other run, and the lock until the
\* run is over.
OwnStep(l) ==
  /\ route' = route
  /\ \A m \in Launchers \ {l} :
       pc'[m] = pc[m] /\ queue'[m] = queue[m] /\ temp'[m] = temp[m]
  /\ pc[l] \in ActiveSteps
  /\ \/ pc'[l] \in ActiveSteps /\ lock' = lock
     \/ pc[l] = "rmtemp" /\ pc'[l] = "exited" /\ lock' = Free /\ UNCHANGED clockVars

\* Every command, and every signal that starts the cleanup, is such a step.
LEMMA CommandIsOwnStep ==
  ASSUME TypeOK, NEW l \in Launchers, Command(l) \/ Terminated(l)
  PROVE  OwnStep(l)
<1> USE DEF OwnStep, TypeOK, deviceVars, runVars, Goto, Loop, Refuse, NextTarget, ActiveSteps,
        TrappedSteps, CleanupSteps
<1>1. CASE \/ UnmountTop(l) \/ UnmountRetry(l) \/ UnmountGiveUp(l) \/ Unmounted(l)
           \/ PassOver(l)
  BY <1>1 DEF UnmountTop, UnmountRetry, UnmountGiveUp, Unmounted, PassOver, Unmounting,
              Unnamed, UnmountSteps
<1>2. CASE ExeExposed(l) \/ MakeTemp(l) \/ Patch(l) \/ PrepareFails(l) \/ BindExe(l)
  BY <1>2 DEF ExeExposed, MakeTemp, Patch, PrepareFails, BindExe
<1>3. CASE \/ LegacyCleared(l) \/ NameDxvkTargets(l) \/ BindAccept(l) \/ BindFails(l)
           \/ BundleBound(l)
           \/ \E image \in Images : BindReplace(l, image) \/ BindMount(l, image)
  BY <1>3 DEF LegacyCleared, NameDxvkTargets, BindAccept, BindFails, BundleBound,
              BindReplace, BindMount, Binding
<1>4. CASE Verified(l) \/ VerifyRefuses(l) \/ ControlClocks(l) \/ Terminated(l)
  BY <1>4 DEF Verified, VerifyRefuses, ControlClocks, Terminated
<1>5. CASE \E k \in Kinds : Fork(l, k) \/ RecordPid(l, k)
  <2>1. Kinds \subseteq {"explorer", "helper", "game"}
    BY LauncherAssumption
  <2>2. QED
    BY <1>5, <2>1 DEF Fork, RecordPid, RecordStep, NextStep
<1>6. CASE SkipHelper(l) \/ HelperRefused(l) \/ HelperChecked(l) \/ WaitReturns(l)
           \/ ForgetGame(l)
  BY <1>6 DEF SkipHelper, HelperRefused, HelperChecked, WaitReturns, ForgetGame
<1>7. CASE \/ SignalAll(l) \/ Drained(l) \/ RestoreClocks(l)
           \/ \E removed \in BOOLEAN : ClocksRestored(l, removed)
           \/ NothingToRestore(l) \/ AllUnmounted(l)
  BY <1>7 DEF SignalAll, Drained, RestoreClocks, ClocksRestored, NothingToRestore,
              AllUnmounted
<1>8. CASE Exit(l)
  BY <1>8 DEF Exit, Vanish
<1>9. QED
  BY <1>1, <1>2, <1>3, <1>4, <1>5, <1>6, <1>7, <1>8 DEF Command

\* Steps of processes, the file's edit and stutters do not touch the runs.
RunsUntouched == UNCHANGED <<runVars, phase, mounts, temp>>

\* Every step is a run's own, starts or ends one, reboots, or leaves them alone.
LEMMA QuietSteps ==
  ASSUME [Next]_vars
  PROVE  \/ \E l \in Launchers : Command(l) \/ Terminated(l)
         \/ \E l \in Launchers : Start(l) \/ StartRefused(l) \/ Killed(l)
         \/ \E settings \in KnobValues, tmpSurvives \in BOOLEAN :
              Reboot(settings, tmpSurvives)
         \/ RunsUntouched
<1>1. CASE FileEdited
  BY <1>1 DEF FileEdited, ClockDamage, RunsUntouched, deviceVars
<1>2. ASSUME NEW l \in Launchers, NEW k \in Kinds,
             Exec(l, k) \/ Named(l, k) \/ Ends(l, k)
      PROVE  RunsUntouched
  BY <1>2 DEF Exec, Named, Ends, clockVars, RunsUntouched
<1>3. ASSUME NEW l \in Launchers, NEW t \in Targets, GameOpens(l, t)
      PROVE  RunsUntouched
  BY <1>3 DEF GameOpens, clockVars, RunsUntouched
<1>4. CASE UNCHANGED vars
  BY <1>4 DEF vars, clockVars, deviceVars, RunsUntouched
<1>5. QED
  BY <1>1, <1>2, <1>3, <1>4 DEF Next, Environment

\* The lock is held by the one run that is between its start and its end.
LEMMA LockStep ==
  ASSUME TypeOK, LockIsHeld, [Next]_vars
  PROVE  LockIsHeld'
<1> USE DEF TypeOK, LockIsHeld, Active
<1>0. Free \notin Launchers
  BY LauncherAssumption
<1>1. ASSUME NEW l \in Launchers, Command(l) \/ Terminated(l)
      PROVE  LockIsHeld'
  <2>1. OwnStep(l)
    BY <1>1, CommandIsOwnStep
  <2>2. QED
    BY <1>0, <2>1 DEF OwnStep, ActiveSteps, TrappedSteps, CleanupSteps
<1>2. ASSUME NEW l \in Launchers, Start(l)
      PROVE  LockIsHeld'
  BY <1>0, <1>2 DEF Start, Loop, Goto, TrappedSteps, CleanupSteps
<1>3. ASSUME NEW l \in Launchers, StartRefused(l)
      PROVE  LockIsHeld'
  BY <1>3 DEF StartRefused, Goto, TrappedSteps, CleanupSteps
<1>4. ASSUME NEW l \in Launchers, Killed(l)
      PROVE  LockIsHeld'
  BY <1>0, <1>4 DEF Killed, Vanish, Goto, TrappedSteps, CleanupSteps
<1>5. ASSUME NEW settings \in KnobValues, NEW tmpSurvives \in BOOLEAN,
             Reboot(settings, tmpSurvives)
      PROVE  LockIsHeld'
  BY <1>0, <1>5 DEF Reboot, TrappedSteps, CleanupSteps
<1>6. CASE RunsUntouched
  BY <1>6 DEF RunsUntouched, runVars
<1>7. QED
  BY <1>1, <1>2, <1>3, <1>4, <1>5, <1>6, QuietSteps

-----------------------------------------------------------------------------
(* The clocks at each step *)

\* The clock session a step goes with.
FitsStep(step, ph) ==
  /\ step \in {"exe", "mktemp", "patcher", "bindexe", "legacy", "bind", "verify",
               "unmount", "rmtemp"} => ph = "off"
  /\ step = "clock" => ph \in {"save", "check", "cap"}
  /\ step \in PlayingSteps \cup {"waited"} => ph = "held"

\* A run's own step leaves it at a step its clock session goes with.
LEMMA CommandFits ==
  ASSUME TypeOK, ClockTypeOK', ClocksFit, NEW l \in Launchers,
         Command(l) \/ Terminated(l)
  PROVE  FitsStep(pc'[l], phase')
<1>0. FitsStep(pc[l], phase)
  BY DEF ClocksFit, FitsStep
<1> USE DEF FitsStep, PlayingSteps, TypeOK, clockVars, runVars, Goto, Loop, Refuse
<1>1. CASE \/ UnmountTop(l) \/ UnmountRetry(l) \/ UnmountGiveUp(l) \/ Unmounted(l)
           \/ PassOver(l)
  BY <1>0, <1>1 DEF UnmountTop, UnmountRetry, UnmountGiveUp, Unmounted, PassOver
<1>2. CASE ExeExposed(l) \/ MakeTemp(l) \/ Patch(l) \/ PrepareFails(l) \/ BindExe(l)
  BY <1>0, <1>2 DEF ExeExposed, MakeTemp, Patch, PrepareFails, BindExe
<1>3. CASE \/ LegacyCleared(l) \/ NameDxvkTargets(l) \/ BindAccept(l) \/ BindFails(l)
           \/ BundleBound(l)
           \/ \E image \in Images : BindReplace(l, image) \/ BindMount(l, image)
  BY <1>0, <1>3 DEF LegacyCleared, NameDxvkTargets, BindAccept, BindFails, BundleBound,
                    BindReplace, BindMount, Binding
<1>4. CASE Verified(l)
  BY <1>4 DEF Verified, ClockEnter
<1>5. CASE VerifyRefuses(l) \/ Terminated(l)
  BY <1>5 DEF VerifyRefuses, Terminated
<1>6. CASE ControlClocks(l)
  <2>1. phase' \in Phases
    BY DEF ClockTypeOK
  <2>2. QED
    BY <1>6, <2>1 DEF ControlClocks, Phases
<1>7. CASE \E k \in Kinds : Fork(l, k) \/ RecordPid(l, k)
  <2>1. Kinds \subseteq {"explorer", "helper", "game"}
    BY LauncherAssumption
  <2>2. QED
    BY <1>0, <1>7, <2>1 DEF Fork, RecordPid, RecordStep, NextStep
<1>8. CASE SkipHelper(l) \/ HelperRefused(l) \/ HelperChecked(l) \/ WaitReturns(l)
           \/ ForgetGame(l)
  BY <1>0, <1>8 DEF SkipHelper, HelperRefused, HelperChecked, WaitReturns, ForgetGame
<1>9. CASE SignalAll(l) \/ Drained(l) \/ RestoreClocks(l)
  BY <1>9 DEF SignalAll, Drained, RestoreClocks
<1>10. CASE \/ \E removed \in BOOLEAN : ClocksRestored(l, removed)
            \/ NothingToRestore(l) \/ AllUnmounted(l) \/ Exit(l)
  BY <1>0, <1>10 DEF ClocksRestored, ClockRestored, NothingToRestore, AllUnmounted, Exit,
                     Vanish
<1>11. QED
  BY <1>1, <1>2, <1>3, <1>4, <1>5, <1>6, <1>7, <1>8, <1>9, <1>10 DEF Command

\* No clock session outlives the run that opened it, and none is open where the
\* run has not opened it yet or has closed it.
LEMMA ClocksFitStep ==
  ASSUME TypeOK, ClockTypeOK', LockIsHeld, ClocksFit, [Next]_vars
  PROVE  ClocksFit'
<1>0. Free \notin Launchers
  BY LauncherAssumption
<1> USE DEF TypeOK, LockIsHeld, Active, ClocksFit, FitsStep
<1>1. ASSUME NEW l \in Launchers, Command(l) \/ Terminated(l)
      PROVE  ClocksFit'
  <2>1. OwnStep(l) /\ FitsStep(pc'[l], phase')
    BY <1>1, CommandIsOwnStep, CommandFits
  <2>2. \A m \in Launchers \ {l} : pc'[m] \notin ActiveSteps
    BY <1>0, <2>1 DEF OwnStep, ActiveSteps
  <2>3. lock' = Free => phase' = "off"
    BY <1>0, <2>1 DEF OwnStep, ActiveSteps, clockVars
  <2>4. \A m \in Launchers \ {l} : FitsStep(pc'[m], phase')
    BY <2>2 DEF ActiveSteps, TrappedSteps, CleanupSteps, PlayingSteps
  <2>5. QED
    BY <2>1, <2>3, <2>4
<1>2. ASSUME NEW l \in Launchers, Start(l)
      PROVE  ClocksFit'
  <2>1. phase' = "off"
    BY <1>2 DEF Start, clockVars
  <2>2. \A m \in Launchers : pc'[m] = "exe" \/ pc'[m] \notin ActiveSteps
    BY <1>0, <1>2 DEF Start, Loop, Goto, ActiveSteps
  <2>3. QED
    BY <2>1, <2>2 DEF ActiveSteps, TrappedSteps, CleanupSteps, PlayingSteps
<1>3. ASSUME NEW l \in Launchers, StartRefused(l)
      PROVE  ClocksFit'
  BY <1>3 DEF StartRefused, Goto, clockVars, PlayingSteps
<1>4. ASSUME NEW l \in Launchers, Killed(l)
      PROVE  ClocksFit'
  <2>1. phase' = "off"
    BY <1>4 DEF Killed, ClockKill, clockVars
  <2>2. \A m \in Launchers : pc'[m] \notin ActiveSteps
    BY <1>0, <1>4 DEF Killed, Vanish, Goto, ActiveSteps, TrappedSteps, CleanupSteps
  <2>3. QED
    BY <2>1, <2>2 DEF ActiveSteps, TrappedSteps, CleanupSteps, PlayingSteps
<1>5. ASSUME NEW settings \in KnobValues, NEW tmpSurvives \in BOOLEAN,
             Reboot(settings, tmpSurvives)
      PROVE  ClocksFit'
  <2>1. phase' = "off"
    BY <1>5 DEF Reboot, ClockReboot
  <2>2. \A m \in Launchers : pc'[m] \notin ActiveSteps
    BY <1>5 DEF Reboot, ActiveSteps, TrappedSteps, CleanupSteps
  <2>3. QED
    BY <2>1, <2>2 DEF ActiveSteps, TrappedSteps, CleanupSteps, PlayingSteps
<1>6. CASE RunsUntouched
  BY <1>6 DEF RunsUntouched, runVars
<1>7. QED
  BY <1>1, <1>2, <1>3, <1>4, <1>5, <1>6, QuietSteps

-----------------------------------------------------------------------------
(* The installed image and the verified bundle *)

\* ImageExposed of one run.
ExposedTo(l) ==
  /\ pc[l] = "exe" => queue[l] = <<Exe>> \/ (queue[l] = <<>> /\ mounts[Exe] = <<>>)
  /\ pc[l] \in {"mktemp", "patcher", "bindexe"} => route[l] \in Patched
  /\ pc[l] = "bind" => queue[l] \in Seq(Targets \ {Exe})
  /\ route[l] \notin Patched /\ pc[l] \in {"legacy", "bind", "verify", "clock"} \cup PlayingSteps
       => mounts[Exe] = <<>>

\* Dropping the head of a queue without the game image leaves one.
LEMMA TailWithoutExe ==
  ASSUME NEW q \in Seq(Targets \ {Exe}), q # <<>>
  PROVE  Head(q) \in Targets \ {Exe} /\ Tail(q) \in Seq(Targets \ {Exe})
  BY HeadTailProperties

\* A run's own step keeps the installed image exposed on an unpatched route.
LEMMA CommandExposes ==
  ASSUME TypeOK, NEW l \in Launchers, ExposedTo(l), Command(l) \/ Terminated(l)
  PROVE  ExposedTo(l)'
<1>0. Exe \in Targets
  BY LauncherAssumption
<1> USE DEF ExposedTo, PlayingSteps, TypeOK, runVars, deviceVars, Goto, Loop, Refuse
<1>1. CASE UnmountTop(l)
  <2>1. Head(queue[l]) # Exe \/ pc[l] \notin {"legacy", "exe"} \/ mounts[Exe] # <<>>
    BY <1>1 DEF UnmountTop
  <2>2. QED
    BY <1>0, <1>1, <2>1, HeadIsTarget DEF UnmountTop, Unmounting, Unnamed, UnmountSteps, Pop
<1>2. CASE UnmountRetry(l)
  BY <1>2 DEF UnmountRetry
<1>3. CASE UnmountGiveUp(l)
  BY <1>3 DEF UnmountGiveUp, NextTarget
<1>4. CASE Unmounted(l) \/ PassOver(l)
  <2>1. Tail(<<Exe>>) = <<>> /\ Head(<<Exe>>) = Exe
    OBVIOUS
  <2>2. QED
    BY <1>4, <2>1 DEF Unmounted, PassOver, Unmounting, Unnamed, UnmountSteps, NextTarget
<1>5. CASE ExeExposed(l)
  BY <1>5 DEF ExeExposed
<1>6. CASE MakeTemp(l) \/ Patch(l) \/ PrepareFails(l)
  BY <1>6 DEF MakeTemp, Patch, PrepareFails
<1>7. CASE BindExe(l)
  BY <1>7 DEF BindExe
<1>8. CASE LegacyCleared(l)
  <2>1. BindOrder \in Seq(Targets \ {Exe})
    BY LauncherAssumption
  <2>2. QED
    BY <1>8, <2>1 DEF LegacyCleared
<1>9. CASE NameDxvkTargets(l) \/ BindFails(l) \/ BundleBound(l)
  BY <1>9 DEF NameDxvkTargets, BindFails, BundleBound
<1>10. CASE BindAccept(l)
  BY <1>10, TailWithoutExe DEF BindAccept, Binding, NextTarget
<1>11. ASSUME NEW image \in Images, BindReplace(l, image)
       PROVE  ExposedTo(l)'
  <2>1. Head(queue[l]) \in Targets \ {Exe}
    BY <1>11, TailWithoutExe DEF BindReplace, Binding
  <2>2. QED
    BY <1>0, <1>11, <2>1 DEF BindReplace, Binding, Pop
<1>12. ASSUME NEW image \in Images, BindMount(l, image)
       PROVE  ExposedTo(l)'
  <2>1. Head(queue[l]) \in Targets \ {Exe} /\ Tail(queue[l]) \in Seq(Targets \ {Exe})
    BY <1>12, TailWithoutExe DEF BindMount, Binding
  <2>2. QED
    BY <1>0, <1>12, <2>1 DEF BindMount, Binding, Push, NextTarget
<1>13. CASE Verified(l) \/ VerifyRefuses(l) \/ ControlClocks(l) \/ Terminated(l)
  BY <1>13 DEF Verified, VerifyRefuses, ControlClocks, Terminated
<1>14. CASE \E k \in Kinds : Fork(l, k) \/ RecordPid(l, k)
  <2>1. Kinds \subseteq {"explorer", "helper", "game"}
    BY LauncherAssumption
  <2>2. QED
    BY <1>14, <2>1 DEF Fork, RecordPid, RecordStep, NextStep
<1>15. CASE SkipHelper(l) \/ HelperRefused(l) \/ HelperChecked(l) \/ WaitReturns(l)
            \/ ForgetGame(l)
  BY <1>15 DEF SkipHelper, HelperRefused, HelperChecked, WaitReturns, ForgetGame
<1>16. CASE \/ SignalAll(l) \/ Drained(l) \/ RestoreClocks(l)
            \/ \E removed \in BOOLEAN : ClocksRestored(l, removed)
            \/ NothingToRestore(l) \/ AllUnmounted(l) \/ Exit(l)
  BY <1>16 DEF SignalAll, Drained, RestoreClocks, ClocksRestored, NothingToRestore,
               AllUnmounted, Exit, Vanish
<1>17. QED
  BY <1>1, <1>2, <1>3, <1>4, <1>5, <1>6, <1>7, <1>8, <1>9, <1>10, <1>11, <1>12, <1>13,
     <1>14, <1>15, <1>16 DEF Command

\* From the verification on, a run's own steps leave every mount alone until
\* its cleanup.
LEMMA CommandKeepsBundle ==
  ASSUME TypeOK, NEW l \in Launchers, Command(l) \/ Terminated(l),
         pc'[l] \in {"clock"} \cup PlayingSteps
  PROVE  /\ mounts' = mounts /\ route' = route
         /\ IF pc[l] = "verify" THEN IdentityMatches(l)
                                ELSE pc[l] \in {"clock"} \cup PlayingSteps
<1> USE DEF PlayingSteps, TypeOK, runVars, deviceVars, Goto, Loop, Refuse
<1>1. CASE \/ UnmountTop(l) \/ UnmountRetry(l) \/ UnmountGiveUp(l) \/ Unmounted(l)
           \/ PassOver(l)
  BY <1>1 DEF UnmountTop, UnmountRetry, UnmountGiveUp, Unmounted, PassOver, Unmounting,
              Unnamed, UnmountSteps
<1>2. CASE ExeExposed(l) \/ MakeTemp(l) \/ Patch(l) \/ PrepareFails(l) \/ BindExe(l)
  BY <1>2 DEF ExeExposed, MakeTemp, Patch, PrepareFails, BindExe
<1>3. CASE \/ LegacyCleared(l) \/ NameDxvkTargets(l) \/ BindAccept(l) \/ BindFails(l)
           \/ BundleBound(l)
           \/ \E image \in Images : BindReplace(l, image) \/ BindMount(l, image)
  BY <1>3 DEF LegacyCleared, NameDxvkTargets, BindAccept, BindFails, BundleBound,
              BindReplace, BindMount, Binding
<1>4. CASE Verified(l) \/ VerifyRefuses(l) \/ ControlClocks(l) \/ Terminated(l)
  BY <1>4 DEF Verified, VerifyRefuses, ControlClocks, Terminated
<1>5. CASE \E k \in Kinds : Fork(l, k) \/ RecordPid(l, k)
  <2>1. Kinds \subseteq {"explorer", "helper", "game"}
    BY LauncherAssumption
  <2>2. QED
    BY <1>5, <2>1 DEF Fork, RecordPid, RecordStep, NextStep
<1>6. CASE SkipHelper(l) \/ HelperRefused(l) \/ HelperChecked(l) \/ WaitReturns(l)
           \/ ForgetGame(l)
  BY <1>6 DEF SkipHelper, HelperRefused, HelperChecked, WaitReturns, ForgetGame
<1>7. CASE \/ SignalAll(l) \/ Drained(l) \/ RestoreClocks(l)
           \/ \E removed \in BOOLEAN : ClocksRestored(l, removed)
           \/ NothingToRestore(l) \/ AllUnmounted(l) \/ Exit(l)
  BY <1>7 DEF SignalAll, Drained, RestoreClocks, ClocksRestored, NothingToRestore,
              AllUnmounted, Exit, Vanish
<1>8. QED
  BY <1>1, <1>2, <1>3, <1>4, <1>5, <1>6, <1>7 DEF Command

\* While a run acts, no other run is between its start and its end.
LEMMA OthersIdle ==
  ASSUME TypeOK, LockIsHeld, NEW l \in Launchers, OwnStep(l)
  PROVE  \A m \in Launchers \ {l} : pc'[m] \notin ActiveSteps
<1>1. Free \notin Launchers
  BY LauncherAssumption
<1>2. QED
  BY <1>1 DEF TypeOK, LockIsHeld, Active, OwnStep, ActiveSteps

\* The steps that start, end or abort a run leave nobody at a step between the
\* verification and the end of the game, nor at a step of the preparation.
LEMMA EndsAndStarts ==
  ASSUME TypeOK, LockIsHeld,
         \/ \E l \in Launchers : Start(l) \/ Killed(l)
         \/ \E settings \in KnobValues, tmpSurvives \in BOOLEAN :
              Reboot(settings, tmpSurvives)
  PROVE  \A m \in Launchers :
           \/ pc'[m] = "exe" /\ queue'[m] = <<Exe>>
           \/ pc'[m] \notin ActiveSteps
<1>0. Free \notin Launchers
  BY LauncherAssumption
<1> USE DEF TypeOK, LockIsHeld, Active, ActiveSteps, TrappedSteps, CleanupSteps
<1>1. ASSUME NEW l \in Launchers, Start(l)
      PROVE  \A m \in Launchers :
               (pc'[m] = "exe" /\ queue'[m] = <<Exe>>) \/ pc'[m] \notin ActiveSteps
  BY <1>0, <1>1 DEF Start, Loop, Goto
<1>2. ASSUME NEW l \in Launchers, Killed(l)
      PROVE  \A m \in Launchers : pc'[m] \notin ActiveSteps
  BY <1>0, <1>2 DEF Killed, Vanish, Goto
<1>3. ASSUME NEW settings \in KnobValues, NEW tmpSurvives \in BOOLEAN,
             Reboot(settings, tmpSurvives)
      PROVE  \A m \in Launchers : pc'[m] \notin ActiveSteps
  BY <1>3 DEF Reboot
<1>4. QED
  BY <1>1, <1>2, <1>3

\* ImageExposed survives every step.
LEMMA ImageExposedStep ==
  ASSUME TypeOK, LockIsHeld, ImageExposed, [Next]_vars
  PROVE  ImageExposed'
<1>0. \A l \in Launchers : ExposedTo(l)
  BY DEF ImageExposed, ExposedTo
<1>1. ASSUME \A l \in Launchers : ExposedTo(l)'
      PROVE  ImageExposed'
  BY <1>1 DEF ImageExposed, ExposedTo
<1>2. ASSUME NEW m \in Launchers, pc'[m] \notin ActiveSteps \/
                                  (pc'[m] = "exe" /\ queue'[m] = <<Exe>>)
      PROVE  ExposedTo(m)'
  BY <1>2 DEF ExposedTo, ActiveSteps, TrappedSteps, PlayingSteps
<1>3. ASSUME NEW l \in Launchers, Command(l) \/ Terminated(l)
      PROVE  ImageExposed'
  <2>1. OwnStep(l) /\ ExposedTo(l)'
    BY <1>0, <1>3, CommandIsOwnStep, CommandExposes
  <2>2. QED
    BY <1>1, <1>2, <2>1, OthersIdle
<1>4. CASE \/ \E l \in Launchers : Start(l) \/ Killed(l)
           \/ \E settings \in KnobValues, tmpSurvives \in BOOLEAN :
                Reboot(settings, tmpSurvives)
  BY <1>1, <1>2, <1>4, EndsAndStarts
<1>5. ASSUME NEW l \in Launchers, StartRefused(l)
      PROVE  ImageExposed'
  BY <1>5 DEF StartRefused, Goto, TypeOK, ImageExposed, deviceVars, PlayingSteps
<1>6. CASE RunsUntouched
  BY <1>6 DEF RunsUntouched, runVars, ImageExposed
<1>7. QED
  BY <1>3, <1>4, <1>5, <1>6, QuietSteps

\* What was verified stays mounted: nobody else mounts or unmounts while the
\* run holds the lock, and its own steps do not.
LEMMA BundleShownStep ==
  ASSUME TypeOK, LockIsHeld, BundleShown, [Next]_vars
  PROVE  BundleShown'
<1> DEFINE Bound == {"clock"} \cup PlayingSteps
<1>0. Bound \subseteq ActiveSteps /\ "exe" \notin Bound
  BY DEF PlayingSteps, ActiveSteps, TrappedSteps
<1>1. ASSUME NEW l \in Launchers, Command(l) \/ Terminated(l)
      PROVE  BundleShown'
  <2>1. \A m \in Launchers \ {l} : pc'[m] \notin Bound
    BY <1>0, <1>1, CommandIsOwnStep, OthersIdle
  <2>2. CASE pc'[l] \in Bound
    <3>1. mounts' = mounts /\ route' = route /\ IdentityMatches(l)
      BY <1>1, <2>2, CommandKeepsBundle DEF BundleShown
    <3>2. IdentityMatches(l)'
      BY <3>1 DEF IdentityMatches, Pinned, Visible
    <3>3. QED
      BY <2>1, <3>2 DEF BundleShown
  <2>3. CASE pc'[l] \notin Bound
    BY <2>1, <2>3 DEF BundleShown
  <2>4. QED
    BY <2>2, <2>3
<1>2. CASE \/ \E l \in Launchers : Start(l) \/ Killed(l)
           \/ \E settings \in KnobValues, tmpSurvives \in BOOLEAN :
                Reboot(settings, tmpSurvives)
  <2>1. \A m \in Launchers : pc'[m] \notin Bound
    BY <1>0, <1>2, EndsAndStarts
  <2>2. QED
    BY <2>1 DEF BundleShown
<1>3. ASSUME NEW l \in Launchers, StartRefused(l)
      PROVE  BundleShown'
  <2>1. \A m \in Launchers : pc'[m] \in Bound => pc[m] \in Bound
    BY <1>3 DEF StartRefused, Goto, TypeOK, PlayingSteps
  <2>2. \A m \in Launchers : IdentityMatches(m) => IdentityMatches(m)'
    BY <1>3 DEF StartRefused, deviceVars, IdentityMatches, Pinned, Visible
  <2>3. QED
    BY <2>1, <2>2 DEF BundleShown
<1>4. CASE RunsUntouched
  BY <1>4 DEF RunsUntouched, runVars, BundleShown, IdentityMatches, Pinned, Visible
<1>5. QED
  BY <1>1, <1>2, <1>3, <1>4, QuietSteps

-----------------------------------------------------------------------------
(* The temporary game image *)

\* The mounts of one state are backed by files that exist.
Backed ==
  /\ \A t \in Targets : \A i \in DOMAIN mounts[t] :
       mounts[t][i].backing # Free => temp[mounts[t][i].backing]
  /\ \A t \in Targets \ {Exe} : \A i \in DOMAIN mounts[t] : mounts[t][i].backing = Free

\* Unmounting keeps the rest backed.
LEMMA PopBacked ==
  ASSUME TypeOK, Backed, NEW t \in Targets, mounts[t] # <<>>, Pop(t), temp' = temp
  PROVE  Backed'
<1>1. mounts[t] \in Seq(Mount) /\ mounts' = [mounts EXCEPT ![t] = Tail(mounts[t])]
  BY DEF TypeOK, Pop
<1>2. /\ \A i \in 1 .. Len(Tail(mounts[t])) :
           i + 1 \in 1 .. Len(mounts[t]) /\ Tail(mounts[t])[i] = mounts[t][i + 1]
      /\ DOMAIN Tail(mounts[t]) = 1 .. Len(Tail(mounts[t]))
      /\ DOMAIN mounts[t] = 1 .. Len(mounts[t])
  BY <1>1, HeadTailProperties, LenProperties
<1>3. \A i \in DOMAIN Tail(mounts[t]) :
        \E j \in DOMAIN mounts[t] : Tail(mounts[t])[i] = mounts[t][j]
  BY <1>2
<1>4. \A u \in Targets : \A i \in DOMAIN mounts'[u] :
        \E j \in DOMAIN mounts[u] : mounts'[u][i] = mounts[u][j]
  BY <1>1, <1>3 DEF TypeOK
<1>5. QED
  BY <1>4 DEF Backed

\* Mounting keeps them backed when the new mount is.
LEMMA PushBacked ==
  ASSUME TypeOK, Backed, NEW t \in Targets, NEW image \in Images,
         NEW backing \in Launchers \cup {Free}, Push(t, image, backing), temp' = temp,
         backing # Free => t = Exe /\ temp[backing]
  PROVE  Backed'
<1> DEFINE m == [image |-> image, backing |-> backing]
<1>1. /\ mounts[t] \in Seq(Mount) /\ m \in Mount
      /\ mounts' = [mounts EXCEPT ![t] = <<m>> \o mounts[t]]
  BY DEF TypeOK, Push, Mount
<1>2. /\ m.backing = backing
      /\ \A i \in DOMAIN (<<m>> \o mounts[t]) :
           \/ (<<m>> \o mounts[t])[i] = m
           \/ \E j \in DOMAIN mounts[t] : (<<m>> \o mounts[t])[i] = mounts[t][j]
  <2> DEFINE s == mounts[t]
  <2>1. s \in Seq(Mount) /\ <<m>> \in Seq(Mount) /\ Len(<<m>>) = 1 /\ <<m>>[1] = m
    BY <1>1
  <2>2. /\ Len(<<m>> \o s) = 1 + Len(s) /\ Len(s) \in Nat /\ DOMAIN s = 1 .. Len(s)
        /\ DOMAIN (<<m>> \o s) = 1 .. 1 + Len(s)
        /\ \A i \in 1 .. 1 + Len(s) :
             (<<m>> \o s)[i] = IF i <= 1 THEN <<m>>[i] ELSE s[i - 1]
    BY <2>1, ConcatProperties, LenProperties
  <2>3. ASSUME NEW i \in DOMAIN (<<m>> \o s)
        PROVE  \/ (<<m>> \o s)[i] = m
               \/ \E j \in DOMAIN s : (<<m>> \o s)[i] = s[j]
    <3>1. i \in 1 .. 1 + Len(s)
      BY <2>2
    <3>2. CASE i <= 1
      BY <2>1, <2>2, <3>1, <3>2
    <3>3. CASE ~(i <= 1)
      <4>1. i - 1 \in DOMAIN s /\ (<<m>> \o s)[i] = s[i - 1]
        BY <2>2, <3>1, <3>3
      <4>2. QED
        BY <4>1
    <3>4. QED
      BY <3>2, <3>3
  <2>4. QED
    BY <2>3
<1> HIDE DEF m
<1>3. \A u \in Targets : \A i \in DOMAIN mounts'[u] :
        \/ u = t /\ mounts'[u][i] = m
        \/ \E j \in DOMAIN mounts[u] : mounts'[u][i] = mounts[u][j]
  BY <1>1, <1>2 DEF TypeOK
<1>4. QED
  BY <1>2, <1>3 DEF Backed

\* A run's own step keeps every temporary image that is mounted, and has one
\* before it mounts it.
LEMMA CommandKeepsImage ==
  ASSUME TypeOK, Backed, NEW l \in Launchers,
         pc[l] \in {"patcher", "bindexe"} => temp[l],
         Command(l) \/ Terminated(l)
  PROVE  Backed' /\ (pc'[l] \in {"patcher", "bindexe"} => temp'[l])
<1>0. Exe \in Targets /\ Free \notin Launchers
  BY LauncherAssumption
<1> USE DEF TypeOK, runVars, deviceVars, Goto, Loop, Refuse
<1>1. CASE UnmountTop(l)
  BY <1>1, HeadIsTarget, PopBacked DEF UnmountTop, Unmounting, UnmountSteps
<1>2. CASE BindExe(l)
  <2>1. Bundle[route[l]][Exe] \in Images
    BY <1>0, LauncherAssumption
  <2>2. QED
    BY <1>0, <1>2, <2>1, PushBacked DEF BindExe
<1>3. ASSUME NEW image \in Images, BindReplace(l, image)
      PROVE  Backed' /\ (pc'[l] \in {"patcher", "bindexe"} => temp'[l])
  BY <1>3, HeadIsTarget, PopBacked DEF BindReplace, Binding
<1>4. ASSUME NEW image \in Images, BindMount(l, image)
      PROVE  Backed' /\ (pc'[l] \in {"patcher", "bindexe"} => temp'[l])
  BY <1>4, HeadIsTarget, PushBacked DEF BindMount, Binding
<1>5. CASE MakeTemp(l)
  BY <1>5 DEF MakeTemp, Backed
<1>6. CASE Exit(l)
  <2>1. CASE mounts[Exe] = <<>>
    <3>1. \A t \in Targets : \A i \in DOMAIN mounts[t] : mounts[t][i].backing = Free
      <4>1. DOMAIN mounts[Exe] = {}
        BY <2>1
      <4>2. QED
        BY <4>1 DEF Backed
    <3>2. QED
      <4>1. mounts' = mounts /\ pc'[l] = "exited"
        BY <1>6 DEF Exit, Vanish
      <4>2. QED
        BY <3>1, <4>1 DEF Backed
  <2>2. CASE mounts[Exe] # <<>>
    <3>1. temp' = temp
      BY <1>6, <2>2 DEF Exit
    <3>2. QED
      BY <1>6, <3>1 DEF Exit, Vanish, Backed
  <2>3. QED
    BY <2>1, <2>2
<1>7. CASE \/ UnmountRetry(l) \/ UnmountGiveUp(l) \/ Unmounted(l) \/ PassOver(l)
           \/ ExeExposed(l) \/ Patch(l) \/ PrepareFails(l)
           \/ LegacyCleared(l) \/ NameDxvkTargets(l) \/ BindAccept(l) \/ BindFails(l)
           \/ BundleBound(l)
  BY <1>7 DEF UnmountRetry, UnmountGiveUp, Unmounted, PassOver, ExeExposed, Patch,
              PrepareFails, LegacyCleared, NameDxvkTargets, BindAccept, BindFails,
              BundleBound, Backed
<1>8. CASE Verified(l) \/ VerifyRefuses(l) \/ ControlClocks(l) \/ Terminated(l)
  BY <1>8 DEF Verified, VerifyRefuses, ControlClocks, Terminated, Backed
<1>9. CASE \E k \in Kinds : Fork(l, k) \/ RecordPid(l, k)
  <2>1. Kinds \subseteq {"explorer", "helper", "game"}
    BY LauncherAssumption
  <2>2. QED
    BY <1>9, <2>1 DEF Fork, RecordPid, RecordStep, NextStep, Backed
<1>10. CASE SkipHelper(l) \/ HelperRefused(l) \/ HelperChecked(l) \/ WaitReturns(l)
            \/ ForgetGame(l)
  BY <1>10 DEF SkipHelper, HelperRefused, HelperChecked, WaitReturns, ForgetGame, Backed
<1>11. CASE \/ SignalAll(l) \/ Drained(l) \/ RestoreClocks(l)
            \/ \E removed \in BOOLEAN : ClocksRestored(l, removed)
            \/ NothingToRestore(l) \/ AllUnmounted(l)
  BY <1>11 DEF SignalAll, Drained, RestoreClocks, ClocksRestored, NothingToRestore,
               AllUnmounted, Backed
<1>12. QED
  BY <1>1, <1>2, <1>3, <1>4, <1>5, <1>6, <1>7, <1>8, <1>9, <1>10, <1>11 DEF Command

\* ImageBacked survives every step.
LEMMA ImageBackedStep ==
  ASSUME TypeOK, LockIsHeld, ImageBacked, [Next]_vars
  PROVE  ImageBacked'
<1>0. Backed /\ \A l \in Launchers : pc[l] \in {"patcher", "bindexe"} => temp[l]
  BY DEF ImageBacked, MountedImageKept, Backed
<1>1. ASSUME Backed', \A l \in Launchers : pc'[l] \in {"patcher", "bindexe"} => temp'[l]
      PROVE  ImageBacked'
  BY <1>1 DEF ImageBacked, MountedImageKept, Backed
<1>2. ASSUME NEW step \in Steps, step \notin ActiveSteps \/ step = "exe"
      PROVE  step \notin {"patcher", "bindexe"}
  BY <1>2 DEF ActiveSteps, TrappedSteps
<1>3. ASSUME NEW l \in Launchers, Command(l) \/ Terminated(l)
      PROVE  ImageBacked'
  <2>1. Backed' /\ (pc'[l] \in {"patcher", "bindexe"} => temp'[l])
    BY <1>0, <1>3, CommandKeepsImage
  <2>2. \A m \in Launchers \ {l} : pc'[m] \notin {"patcher", "bindexe"}
    BY <1>3, CommandIsOwnStep, OthersIdle DEF ActiveSteps, TrappedSteps
  <2>3. QED
    BY <1>1, <2>1, <2>2
<1>4. CASE \/ \E l \in Launchers : Start(l) \/ Killed(l)
           \/ \E settings \in KnobValues, tmpSurvives \in BOOLEAN :
                Reboot(settings, tmpSurvives)
  <2>1. \A m \in Launchers : pc'[m] \notin {"patcher", "bindexe"}
    BY <1>4, EndsAndStarts DEF ActiveSteps, TrappedSteps
  <2>2. CASE \E l \in Launchers : Start(l) \/ Killed(l)
    BY <1>0, <1>1, <2>1, <2>2 DEF Start, Killed, deviceVars, Backed
  <2>3. ASSUME NEW settings \in KnobValues, NEW tmpSurvives \in BOOLEAN,
               Reboot(settings, tmpSurvives)
        PROVE  ImageBacked'
    <3>1. \A t \in Targets : mounts'[t] = <<>>
      BY <2>3 DEF Reboot
    <3>2. QED
      BY <1>1, <2>1, <3>1 DEF Backed
  <2>4. QED
    BY <1>4, <2>2, <2>3
<1>5. ASSUME NEW l \in Launchers, StartRefused(l)
      PROVE  ImageBacked'
  BY <1>0, <1>1, <1>5 DEF StartRefused, Goto, TypeOK, deviceVars, Backed
<1>6. CASE RunsUntouched
  BY <1>0, <1>1, <1>6 DEF RunsUntouched, runVars, Backed
<1>7. QED
  BY <1>3, <1>4, <1>5, <1>6, QuietSteps

-----------------------------------------------------------------------------
(* The invariant and what follows from it *)

\* The initial states satisfy the invariant.
LEMMA LauncherInitInv == Init => LauncherInv
<1> SUFFICES ASSUME Init
             PROVE  LauncherInv
  OBVIOUS
<1>0. Free \notin Launchers /\ Exe \in Targets
  BY LauncherAssumption
<1>1. TypeOK /\ ClockInv
  BY InitTyping, ClockInitInv DEF Init
<1>2. LockIsHeld /\ ClocksFit /\ ImageExposed /\ BundleShown
  BY <1>0 DEF Init, ClockInit, LockIsHeld, Active, ClocksFit, ImageExposed, BundleShown,
              TrappedSteps, CleanupSteps, PlayingSteps
<1>3. ImageBacked
  <2>1. PICK stale \in StaleMounts :
          mounts = [t \in Targets |->
                     [i \in DOMAIN stale[t] |-> [image |-> stale[t][i], backing |-> Free]]]
    BY DEF Init
  <2>2. \A t \in Targets : \A i \in DOMAIN mounts[t] : mounts[t][i].backing = Free
    BY <2>1
  <2>3. QED
    BY <2>2 DEF Init, ImageBacked, MountedImageKept
<1>4. QED
  BY <1>1, <1>2, <1>3 DEF LauncherInv

\* Every step, and every stutter, keeps it.
LEMMA LauncherNextInv == LauncherInv /\ [Next]_vars => LauncherInv'
<1> SUFFICES ASSUME LauncherInv, [Next]_vars
             PROVE  LauncherInv'
  OBVIOUS
<1>1. ClockInv'
  BY StepFollowsProtocol, ClockNextInv DEF LauncherInv
<1>2. TypeOK'
  BY <1>1, NextTyping DEF LauncherInv, ClockInv
<1>3. LockIsHeld' /\ ClocksFit'
  BY <1>2, LockStep, ClocksFitStep DEF LauncherInv, TypeOK
<1>4. ImageExposed' /\ BundleShown' /\ ImageBacked'
  BY ImageExposedStep, BundleShownStep, ImageBackedStep DEF LauncherInv
<1>5. QED
  BY <1>1, <1>2, <1>3, <1>4 DEF LauncherInv

\* The inductive invariant holds in every reachable state.
THEOREM LauncherInvariant == Spec => []LauncherInv
  BY LauncherInitInv, LauncherNextInv, PTL DEF Spec

\* A run that has reached the desktop, the helper or the game holds the lock,
\* has the clocks under control and shows the game exactly the bundle of its
\* route, however many earlier runs were killed and wherever.
THEOREM GameSeesItsBundle == Spec => []PlaysExactBundle
<1>1. LauncherInv => PlaysExactBundle
  <2> SUFFICES ASSUME LauncherInv, NEW l \in Launchers, pc[l] \in PlayingSteps
               PROVE  /\ lock = l
                      /\ phase = "held"
                      /\ \A t \in Targets : Visible(t) = Bundle[route[l]][t]
    BY DEF PlaysExactBundle
  <2>1. lock = l /\ phase = "held"
    BY DEF LauncherInv, LockIsHeld, ClocksFit, Active, PlayingSteps, TrappedSteps
  <2>2. IdentityMatches(l)
    BY DEF LauncherInv, BundleShown
  <2>3. ASSUME route[l] \notin Patched
        PROVE  Visible(Exe) = Bundle[route[l]][Exe]
    <3>1. mounts[Exe] = <<>>
      BY <2>3 DEF LauncherInv, ImageExposed
    <3>2. route[l] \in Routes
      BY DEF LauncherInv, TypeOK
    <3>3. QED
      BY <2>3, <3>1, <3>2, LauncherAssumption DEF Visible
  <2>4. QED
    BY <2>1, <2>2, <2>3 DEF IdentityMatches, Pinned
<1>2. QED
  BY <1>1, LauncherInvariant, PTL

\* The file behind a mounted temporary game image always exists.
THEOREM MountedImagesExist == Spec => []MountedImageKept
<1>1. LauncherInv => MountedImageKept
  BY DEF LauncherInv, ImageBacked
<1>2. QED
  BY <1>1, LauncherInvariant, PTL

\* Setting the state of one process sets no other.
LEMMA OneProcess ==
  ASSUME TypeOK, NEW m \in Launchers, NEW k \in Kinds, NEW state,
         proc' = [proc EXCEPT ![m][k] = state],
         NEW l \in Launchers, NEW j \in Kinds
  PROVE  proc'[l][j] = state \/ proc'[l][j] = proc[l][j]
  BY DEF TypeOK

\* A process is only signalled by the run that holds the lock, in its cleanup.
LEMMA OnlyTheHolderSignals ==
  ASSUME TypeOK, NEW l \in Launchers, pc[l] = "wait", "game" \in Kinds,
         proc[l]["game"] # "dying", proc'[l]["game"] = "dying", Next
  PROVE  \E m \in Launchers : SignalAll(m)
<1> USE DEF TypeOK, deviceVars
<1>1. ASSUME NEW m \in Launchers, Command(m)
      PROVE  SignalAll(m)
  <2>1. CASE \/ UnmountTop(m) \/ UnmountRetry(m) \/ UnmountGiveUp(m) \/ Unmounted(m)
             \/ PassOver(m) \/ ExeExposed(m) \/ MakeTemp(m) \/ Patch(m)
             \/ PrepareFails(m) \/ BindExe(m)
    BY <2>1 DEF UnmountTop, UnmountRetry, UnmountGiveUp, Unmounted, PassOver, ExeExposed,
                MakeTemp, Patch, PrepareFails, BindExe
  <2>2. CASE \/ LegacyCleared(m) \/ NameDxvkTargets(m) \/ BindAccept(m) \/ BindFails(m)
             \/ BundleBound(m) \/ Verified(m) \/ VerifyRefuses(m) \/ ControlClocks(m)
             \/ \E image \in Images : BindReplace(m, image) \/ BindMount(m, image)
    BY <2>2 DEF LegacyCleared, NameDxvkTargets, BindAccept, BindFails, BundleBound, Verified,
                VerifyRefuses, ControlClocks, BindReplace, BindMount
  <2>3. ASSUME NEW k \in Kinds, Fork(m, k) \/ RecordPid(m, k)
        PROVE  FALSE
    <3>1. CASE Fork(m, k)
      <4>1. proc' = [proc EXCEPT ![m][k] = "forked"]
        BY <3>1 DEF Fork
      <4>2. QED
        BY <4>1, OneProcess
    <3>2. CASE RecordPid(m, k)
      BY <3>2 DEF RecordPid
    <3>3. QED
      BY <2>3, <3>1, <3>2
  <2>4. CASE \/ SkipHelper(m) \/ HelperRefused(m) \/ HelperChecked(m)
             \/ WaitReturns(m) \/ ForgetGame(m) \/ Drained(m) \/ RestoreClocks(m)
             \/ \E removed \in BOOLEAN : ClocksRestored(m, removed)
             \/ NothingToRestore(m) \/ AllUnmounted(m) \/ Exit(m)
    BY <2>4 DEF SkipHelper, HelperRefused, HelperChecked, WaitReturns, ForgetGame, Drained,
                RestoreClocks, ClocksRestored, NothingToRestore, AllUnmounted, Exit
  <2>5. QED
    BY <1>1, <2>1, <2>2, <2>3, <2>4 DEF Command
<1>2. CASE Environment
  <2>1. ASSUME NEW m \in Launchers,
               Start(m) \/ StartRefused(m) \/ Terminated(m) \/ Killed(m)
        PROVE  FALSE
    BY <2>1 DEF Start, StartRefused, Terminated, Killed
  <2>2. ASSUME NEW m \in Launchers, NEW k \in Kinds,
               Exec(m, k) \/ Named(m, k) \/ Ends(m, k)
        PROVE  FALSE
    <3>1. PICK state \in {"new", "named", "gone"} : proc' = [proc EXCEPT ![m][k] = state]
      BY <2>2 DEF Exec, Named, Ends
    <3>2. QED
      BY <3>1, OneProcess
  <2>3. ASSUME NEW m \in Launchers, NEW t \in Targets, GameOpens(m, t)
        PROVE  FALSE
    BY <2>3 DEF GameOpens
  <2>4. ASSUME NEW settings \in KnobValues, NEW tmpSurvives \in BOOLEAN,
               Reboot(settings, tmpSurvives)
        PROVE  FALSE
    BY <2>4 DEF Reboot, Running
  <2>5. CASE FileEdited
    BY <2>5 DEF FileEdited
  <2>6. QED
    BY <1>2, <2>1, <2>2, <2>3, <2>4, <2>5 DEF Environment
<1>3. QED
  BY <1>1, <1>2 DEF Next

\* No refusal, cleanup or crash of another run signals the game that a live run
\* is waiting for.
THEOREM LiveGameIsLeftAlone == Spec => OthersLeaveTheGame
<1> DEFINE LeftAlone == \A l \in Launchers :
             pc[l] = "wait" /\ proc[l]["game"] # "dying" => proc'[l]["game"] # "dying"
<1>1. LauncherInv /\ [Next]_vars => [LeftAlone]_vars
  <2> SUFFICES ASSUME LauncherInv, Next, NEW l \in Launchers, pc[l] = "wait",
                      proc[l]["game"] # "dying", proc'[l]["game"] = "dying"
               PROVE  FALSE
    OBVIOUS
  <2>1. "game" \in Kinds
    BY LauncherAssumption
  <2>2. PICK m \in Launchers : SignalAll(m)
    BY <2>1, OnlyTheHolderSignals DEF LauncherInv
  <2>3. lock = l /\ lock = m
    BY <2>2 DEF SignalAll, LauncherInv, LockIsHeld, Active, TrappedSteps, CleanupSteps
  <2>4. QED
    BY <2>2, <2>3 DEF SignalAll
<1>2. QED
  BY <1>1, LauncherInvariant, PTL DEF Spec, OthersLeaveTheGame

-----------------------------------------------------------------------------
(* The cleanup *)

\* Dropping the head of a loop's queue drops no other target.
LEMMA QueuedAfterHead ==
  ASSUME TypeOK, NEW l \in Launchers, queue[l] # <<>>, NextTarget(l),
         NEW t, Queued(l, t), t # Head(queue[l])
  PROVE  Queued(l, t)'
<1> DEFINE q == queue[l]
<1>1. q \in Seq(Targets) /\ queue'[l] = Tail(q)
  BY DEF TypeOK, NextTarget
<1>2. PICK i \in 1 .. Len(q) : q[i] = t
  BY <1>1 DEF Queued
<1>3. i # 1 /\ i - 1 \in 1 .. Len(q) - 1
  BY <1>1, <1>2
<1>4. Tail(q)[i - 1] = t /\ i - 1 \in DOMAIN Tail(q)
  BY <1>1, <1>2, <1>3, HeadTailProperties
<1> QED BY <1>1, <1>4 DEF Queued

\* Mounting leaves something mounted.
LEMMA PushedIsMounted ==
  ASSUME TypeOK, NEW t \in Targets, NEW image \in Images,
         NEW backing \in Launchers \cup {Free}, Push(t, image, backing)
  PROVE  /\ mounts'[t] # <<>>
         /\ \A u \in Targets \ {t} : mounts'[u] = mounts[u]
<1> DEFINE m == <<[image |-> image, backing |-> backing]>>
<1>0. [image |-> image, backing |-> backing] \in Mount
  BY DEF Mount
<1>1. m \in Seq(Mount) /\ mounts[t] \in Seq(Mount)
  BY <1>0 DEF TypeOK
<1>2. Len(m \o mounts[t]) = 1 + Len(mounts[t]) /\ Len(mounts[t]) \in Nat
  BY <1>1, ConcatProperties
<1>3. m \o mounts[t] # <<>>
  BY <1>2
<1> QED BY <1>3 DEF Push, TypeOK

\* The part of TeardownInv that is about one run.
TearsDown(l) ==
  /\ pc[l] = "bind" => Queued(l, Box) \/ mounts[Box] # <<>>
  /\ pc[l] \in {"verify", "clock"} \cup PlayingSteps => mounts[Box] # <<>>
  /\ ~cleanupFailed[l] =>
       /\ pc[l] = "unmount" => \A t \in Targets : Queued(l, t) \/ Cleared(l, t)
       /\ pc[l] = "rmtemp" => \A t \in Targets : Cleared(l, t)

\* The loops that unmount: a target leaves the queue when it is clear, or the
\* cleanup has failed.
LEMMA UnmountTearsDown ==
  ASSUME TypeOK, NEW l \in Launchers, TearsDown(l),
         \/ UnmountTop(l) \/ UnmountRetry(l) \/ UnmountGiveUp(l) \/ Unmounted(l)
         \/ PassOver(l) \/ AllUnmounted(l)
  PROVE  TearsDown(l)'
<1>0. Box \in Targets
  BY LauncherAssumption
<1> USE DEF TearsDown, PlayingSteps, TypeOK, runVars, deviceVars, Goto
<1>1. CASE UnmountTop(l)
  <2>1. /\ pc'[l] = pc[l] /\ queue'[l] = queue[l] /\ pc[l] \in UnmountSteps
        /\ UNCHANGED <<cleanupFailed, dxvkNamed>>
        /\ \A t \in Targets \ {Head(queue[l])} : mounts'[t] = mounts[t]
        /\ queue[l] # <<>>
    BY <1>1 DEF UnmountTop, Unmounting, Pop
  <2>2. Queued(l, Head(queue[l]))
    BY <2>1, HeadTailProperties DEF Queued
  <2> QED BY <2>1, <2>2 DEF UnmountSteps, Queued, Cleared
<1>2. CASE UnmountRetry(l)
  BY <1>2 DEF UnmountRetry, Queued, Cleared
<1>3. CASE UnmountGiveUp(l)
  BY <1>3 DEF UnmountGiveUp, Refuse, Loop
<1>4. CASE Unmounted(l) \/ PassOver(l)
  <2>1. /\ pc'[l] = pc[l] /\ pc[l] \in UnmountSteps /\ queue[l] # <<>>
        /\ NextTarget(l) /\ UNCHANGED <<cleanupFailed, dxvkNamed, mounts>>
        /\ pc[l] = "unmount" => Cleared(l, Head(queue[l]))
    BY <1>4 DEF Unmounted, PassOver, Unmounting, Unnamed, UnmountSteps, Cleared
  <2>2. ASSUME NEW t \in Targets, Queued(l, t), t # Head(queue[l])
        PROVE  Queued(l, t)'
    BY <2>1, <2>2, QueuedAfterHead
  <2> QED BY <2>1, <2>2 DEF UnmountSteps, Cleared
<1>5. CASE AllUnmounted(l)
  BY <1>5 DEF AllUnmounted, Queued, Cleared
<1> QED BY <1>1, <1>2, <1>3, <1>4, <1>5

\* The loop that binds: Box86 leaves the queue when it is mounted.
LEMMA BindTearsDown ==
  ASSUME TypeOK, NEW l \in Launchers, TearsDown(l),
         \/ LegacyCleared(l) \/ NameDxvkTargets(l) \/ BindAccept(l) \/ BindFails(l)
         \/ BundleBound(l)
         \/ \E image \in Images : BindReplace(l, image) \/ BindMount(l, image)
  PROVE  TearsDown(l)'
<1>0. Box \in Targets
  BY LauncherAssumption
<1> USE DEF TearsDown, PlayingSteps, TypeOK, runVars, deviceVars, Goto, Loop, Refuse
<1>1. CASE LegacyCleared(l)
  BY <1>1, TeardownAssumption DEF LegacyCleared, Queued
<1>2. CASE NameDxvkTargets(l) \/ BindFails(l)
  BY <1>2 DEF NameDxvkTargets, BindFails, Queued
<1>3. CASE BundleBound(l)
  BY <1>3 DEF BundleBound, Queued
<1>4. CASE BindAccept(l)
  <2>1. /\ pc'[l] = "bind" /\ pc[l] = "bind" /\ queue[l] # <<>> /\ NextTarget(l)
        /\ mounts' = mounts /\ mounts[Head(queue[l])] # <<>>
    BY <1>4 DEF BindAccept, Binding
  <2> QED BY <2>1, QueuedAfterHead
<1>5. ASSUME NEW image \in Images, BindReplace(l, image)
      PROVE  TearsDown(l)'
  <2>1. /\ pc'[l] = "bind" /\ pc[l] = "bind" /\ queue[l] # <<>> /\ queue' = queue
        /\ \A t \in Targets \ {Head(queue[l])} : mounts'[t] = mounts[t]
    BY <1>5 DEF BindReplace, Binding, Pop
  <2>2. Queued(l, Head(queue[l]))
    BY <2>1, HeadTailProperties DEF Queued
  <2> QED BY <1>0, <2>1, <2>2 DEF Queued
<1>6. ASSUME NEW image \in Images, BindMount(l, image)
      PROVE  TearsDown(l)'
  <2>1. /\ pc'[l] = "bind" /\ pc[l] = "bind" /\ queue[l] # <<>> /\ NextTarget(l)
        /\ Push(Head(queue[l]), image, Free)
    BY <1>6 DEF BindMount, Binding
  <2>2. /\ mounts'[Head(queue[l])] # <<>>
        /\ \A u \in Targets \ {Head(queue[l])} : mounts'[u] = mounts[u]
    BY <2>1, HeadIsTarget, PushedIsMounted
  <2> QED BY <1>0, <2>1, <2>2, QueuedAfterHead
<1> QED BY <1>1, <1>2, <1>3, <1>4, <1>5, <1>6

\* So do all commands: the others mount and unmount nothing between the binding
\* of the bundle and the cleanup, and the cleanup queues every target.
LEMMA CommandTearsDown ==
  ASSUME TypeOK, NEW l \in Launchers, TearsDown(l), Command(l) \/ Terminated(l)
  PROVE  TearsDown(l)'
<1> USE DEF TearsDown, PlayingSteps, TypeOK, runVars, deviceVars, Goto, Loop, Refuse
<1>1. CASE ExeExposed(l) \/ MakeTemp(l) \/ Patch(l) \/ PrepareFails(l) \/ BindExe(l)
  BY <1>1 DEF ExeExposed, MakeTemp, Patch, PrepareFails, BindExe
<1>2. CASE Verified(l) \/ VerifyRefuses(l) \/ ControlClocks(l) \/ Terminated(l)
  BY <1>2 DEF Verified, VerifyRefuses, ControlClocks, Terminated
<1>3. CASE \E k \in Kinds : Fork(l, k) \/ RecordPid(l, k)
  <2>1. Kinds \subseteq {"explorer", "helper", "game"}
    BY LauncherAssumption
  <2>2. /\ pc[l] \in PlayingSteps /\ pc'[l] \in PlayingSteps /\ mounts' = mounts
    BY <1>3, <2>1 DEF Fork, RecordPid, RecordStep, NextStep
  <2> QED BY <2>2
<1>4. CASE SkipHelper(l) \/ HelperRefused(l) \/ HelperChecked(l) \/ WaitReturns(l)
           \/ ForgetGame(l)
  BY <1>4 DEF SkipHelper, HelperRefused, HelperChecked, WaitReturns, ForgetGame
<1>5. CASE SignalAll(l) \/ Drained(l) \/ RestoreClocks(l) \/ Exit(l)
  BY <1>5 DEF SignalAll, Drained, RestoreClocks, Exit, Vanish
<1>6. CASE (\E removed \in BOOLEAN : ClocksRestored(l, removed)) \/ NothingToRestore(l)
  <2>1. pc'[l] = "unmount" /\ queue'[l] = CleanupOrder
    BY <1>6 DEF ClocksRestored, NothingToRestore
  <2>2. \A t \in Targets : Queued(l, t)'
    BY <2>1, TeardownAssumption DEF Queued
  <2> QED BY <2>1, <2>2
<1> QED
  BY <1>1, <1>2, <1>3, <1>4, <1>5, <1>6, UnmountTearsDown, BindTearsDown DEF Command

\* What one run relies on survives the steps of the others: they are idle.
LEMMA TearsDownStep ==
  ASSUME TypeOK, LockIsHeld, NEW l \in Launchers, TearsDown(l), [Next]_vars
  PROVE  TearsDown(l)'
<1>1. ASSUME pc'[l] \notin ActiveSteps \/ pc'[l] = "exe"
      PROVE  TearsDown(l)'
  BY <1>1 DEF TearsDown, ActiveSteps, TrappedSteps, CleanupSteps, PlayingSteps
<1>2. ASSUME NEW m \in Launchers, Command(m) \/ Terminated(m)
      PROVE  TearsDown(l)'
  <2>1. CASE m = l
    BY <1>2, <2>1, CommandTearsDown
  <2>2. CASE m # l
    BY <1>1, <1>2, <2>2, CommandIsOwnStep, OthersIdle
  <2> QED BY <2>1, <2>2
<1>3. CASE \/ \E m \in Launchers : Start(m) \/ Killed(m)
           \/ \E settings \in KnobValues, tmpSurvives \in BOOLEAN :
                Reboot(settings, tmpSurvives)
  BY <1>1, <1>3, EndsAndStarts
<1>4. ASSUME NEW m \in Launchers, StartRefused(m)
      PROVE  TearsDown(l)'
  BY <1>4 DEF StartRefused, Goto, TypeOK, TearsDown, deviceVars, PlayingSteps, Queued, Cleared
<1>5. CASE RunsUntouched
  BY <1>5 DEF RunsUntouched, runVars, TearsDown, Queued, Cleared
<1> QED BY <1>2, <1>3, <1>4, <1>5, QuietSteps

\* Unmounting a target nobody holds releases nothing.
LEMMA PopKeepsPins ==
  ASSUME TypeOK, PinsAreMounted, NEW t \in Targets, ~Busy(t), Pop(t), pins' = pins
  PROVE  PinsAreMounted'
<1>1. \A l \in Launchers, k \in Kinds : t \notin pins[l][k]
  BY DEF Busy
<1>2. \A u \in Targets \ {t} : mounts'[u] = mounts[u]
  BY DEF Pop, TypeOK
<1>3. \A l \in Launchers, k \in Kinds : pins[l][k] \subseteq Targets
  BY DEF TypeOK
<1> QED BY <1>1, <1>2, <1>3 DEF PinsAreMounted

\* Nor does mounting over a target.
LEMMA PushKeepsPins ==
  ASSUME TypeOK, PinsAreMounted, NEW t \in Targets, NEW image \in Images,
         NEW backing \in Launchers \cup {Free}, Push(t, image, backing), pins' = pins
  PROVE  PinsAreMounted'
<1>1. mounts'[t] # <<>> /\ \A u \in Targets \ {t} : mounts'[u] = mounts[u]
  BY PushedIsMounted
<1>2. \A l \in Launchers, k \in Kinds : pins[l][k] \subseteq Targets
  BY DEF TypeOK
<1> QED BY <1>1, <1>2 DEF PinsAreMounted

\* Opening what is mounted holds something mounted.
LEMMA OpeningKeepsPins ==
  ASSUME TypeOK, PinsAreMounted, mounts' = mounts,
         NEW l \in Launchers, NEW k \in Kinds, NEW opened \in SUBSET Targets,
         \A t \in opened : mounts[t] # <<>>,
         pins' = [pins EXCEPT ![l][k] = @ \cup opened]
  PROVE  PinsAreMounted'
<1>1. \A m \in Launchers, j \in Kinds : pins'[m][j] \subseteq pins[m][j] \cup opened
  BY DEF TypeOK
<1> QED BY <1>1 DEF PinsAreMounted

\* A run's commands mount and unmount so; the others hold nothing.
LEMMA CommandKeepsPins ==
  ASSUME TypeOK, PinsAreMounted, NEW l \in Launchers, Command(l) \/ Terminated(l)
  PROVE  PinsAreMounted'
<1>0. Exe \in Targets
  BY LauncherAssumption
<1>1. ASSUME UNCHANGED <<mounts, pins>>
      PROVE  PinsAreMounted'
  BY <1>1 DEF PinsAreMounted
<1> USE DEF runVars, deviceVars
<1>2. CASE UnmountTop(l)
  BY <1>2, HeadIsTarget, PopKeepsPins DEF UnmountTop, Unmounting, UnmountSteps
<1>3. CASE BindExe(l)
  <2>1. Bundle[route[l]][Exe] \in Images
    BY <1>0, LauncherAssumption DEF TypeOK
  <2> QED BY <1>0, <1>3, <2>1, PushKeepsPins DEF BindExe
<1>4. ASSUME NEW image \in Images, BindReplace(l, image)
      PROVE  PinsAreMounted'
  BY <1>4, HeadIsTarget, PopKeepsPins DEF BindReplace, Binding
<1>5. ASSUME NEW image \in Images, BindMount(l, image)
      PROVE  PinsAreMounted'
  BY <1>5, HeadIsTarget, PushKeepsPins DEF BindMount, Binding
<1>6. CASE \/ \E k \in Kinds : Fork(l, k) \/ RecordPid(l, k)
           \/ SignalAll(l)
  BY <1>1, <1>6 DEF Fork, RecordPid, SignalAll
<1>7. CASE \/ UnmountRetry(l) \/ UnmountGiveUp(l) \/ Unmounted(l) \/ PassOver(l)
           \/ ExeExposed(l) \/ MakeTemp(l) \/ Patch(l) \/ PrepareFails(l)
           \/ LegacyCleared(l) \/ NameDxvkTargets(l) \/ BindAccept(l) \/ BindFails(l)
           \/ BundleBound(l)
  BY <1>1, <1>7 DEF UnmountRetry, UnmountGiveUp, Unmounted, PassOver, ExeExposed, MakeTemp,
              Patch, PrepareFails, LegacyCleared, NameDxvkTargets, BindAccept, BindFails,
              BundleBound
<1>8. CASE \/ Verified(l) \/ VerifyRefuses(l) \/ ControlClocks(l) \/ Terminated(l)
           \/ SkipHelper(l) \/ HelperRefused(l) \/ HelperChecked(l) \/ WaitReturns(l)
           \/ ForgetGame(l)
  BY <1>1, <1>8 DEF Verified, VerifyRefuses, ControlClocks, Terminated, SkipHelper,
              HelperRefused, HelperChecked, WaitReturns, ForgetGame
<1>9. CASE \/ Drained(l) \/ RestoreClocks(l)
           \/ \E removed \in BOOLEAN : ClocksRestored(l, removed)
           \/ NothingToRestore(l) \/ AllUnmounted(l) \/ Exit(l)
  BY <1>1, <1>9 DEF Drained, RestoreClocks, ClocksRestored, NothingToRestore,
               AllUnmounted, Exit
<1> QED
  BY <1>2, <1>3, <1>4, <1>5, <1>6, <1>7, <1>8, <1>9 DEF Command

\* So do the processes' own steps, crashes and reboots.
LEMMA PinsStep ==
  ASSUME TypeOK, PinsAreMounted, [Next]_vars
  PROVE  PinsAreMounted'
<1>1. ASSUME UNCHANGED <<mounts, pins>>
      PROVE  PinsAreMounted'
  BY <1>1 DEF PinsAreMounted
<1>2. ASSUME NEW l \in Launchers, Start(l) \/ StartRefused(l) \/ Killed(l)
      PROVE  PinsAreMounted'
  BY <1>1, <1>2 DEF Start, StartRefused, Killed, deviceVars
<1>3. ASSUME NEW l \in Launchers, NEW k \in Kinds, Exec(l, k)
      PROVE  PinsAreMounted'
  <2>1. Executes(k) \in SUBSET Targets /\ \A t \in Executes(k) : mounts[t] # <<>>
    BY LauncherAssumption DEF Executes
  <2> QED BY <1>3, <2>1, OpeningKeepsPins DEF Exec
<1>4. ASSUME NEW l \in Launchers, NEW k \in Kinds, Named(l, k) \/ Ends(l, k)
      PROVE  PinsAreMounted'
  <2>1. \A m \in Launchers, j \in Kinds : pins'[m][j] \subseteq pins[m][j]
    <3>1. CASE Named(l, k)
      BY <3>1 DEF Named
    <3>2. CASE Ends(l, k)
      <4>1. pins' = [pins EXCEPT ![l][k] = {}]
        BY <3>2 DEF Ends
      <4>2. \A m \in Launchers, j \in Kinds :
              pins'[m][j] = IF m = l /\ j = k THEN {} ELSE pins[m][j]
        BY <4>1 DEF TypeOK
      <4> QED BY <4>2
    <3> QED BY <1>4, <3>1, <3>2
  <2>2. mounts' = mounts
    BY <1>4 DEF Named, Ends
  <2> QED BY <2>1, <2>2 DEF PinsAreMounted
<1>5. ASSUME NEW l \in Launchers, NEW t \in Targets, GameOpens(l, t)
      PROVE  PinsAreMounted'
  <2>1. "game" \in Kinds /\ {t} \in SUBSET Targets
    BY LauncherAssumption
  <2>2. \A u \in {t} : mounts[u] # <<>>
    BY <1>5 DEF GameOpens
  <2>3. mounts' = mounts /\ pins' = [pins EXCEPT ![l]["game"] = @ \cup {t}]
    BY <1>5 DEF GameOpens
  <2> QED BY <2>1, <2>2, <2>3, OpeningKeepsPins
<1>6. ASSUME NEW settings \in KnobValues, NEW tmpSurvives \in BOOLEAN,
             Reboot(settings, tmpSurvives)
      PROVE  PinsAreMounted'
  BY <1>6 DEF Reboot, PinsAreMounted
<1>7. CASE FileEdited \/ UNCHANGED vars
  BY <1>1, <1>7 DEF FileEdited, vars, deviceVars
<1> QED
  BY <1>2, <1>3, <1>4, <1>5, <1>6, <1>7, CommandKeepsPins DEF Next, Environment

\* The steps before a run's own volley, and those at which it has processes.
BeforeVolley == TrappedSteps \cup {"idle", "kill"}
StartedSteps == PlayingSteps \cup {"waited", "kill"}
AfterVolley == CleanupSteps \ {"kill"}

\* What a run knows of its own desktop and game.
OwnsProcesses(l) ==
  \A k \in {"explorer", "game"} :
    /\ pc[l] \in BeforeVolley /\ proc[l][k] # "none" =>
         /\ pc[l] \in StartedSteps
         /\ mounts[Box] # <<>>
         /\ proc[l][k] # "dying"
         /\ proc[l][k] \in {"new", "named"} => Box \in pins[l][k]
    /\ pc[l] \in AfterVolley /\ k \in pids[l] /\ Running(l, k) => proc[l][k] = "dying"

\* Commands that signal nobody and start nothing: the run keeps its processes, and
\* from their start to the volley it leaves the mounts alone.
Quiet(l) ==
  /\ UNCHANGED <<proc, pins>>
  /\ pc'[l] \in BeforeVolley =>
       /\ pc[l] \in BeforeVolley
       /\ pc[l] \in StartedSteps => pc'[l] \in StartedSteps /\ mounts' = mounts
  /\ pc'[l] \in AfterVolley => pc[l] \in AfterVolley /\ pids' = pids

\* Every command but Fork and SignalAll is one.
LEMMA QuietCommands ==
  ASSUME TypeOK, NEW l \in Launchers, Command(l) \/ Terminated(l)
  PROVE  Quiet(l) \/ SignalAll(l) \/ \E k \in Kinds : Fork(l, k)
<1> USE DEF Quiet, BeforeVolley, StartedSteps, AfterVolley, TrappedSteps, CleanupSteps,
            PlayingSteps, TypeOK, runVars, deviceVars, Goto, Loop, Refuse
<1>1. CASE \/ UnmountTop(l) \/ UnmountRetry(l) \/ UnmountGiveUp(l) \/ Unmounted(l)
           \/ PassOver(l)
  BY <1>1 DEF UnmountTop, UnmountRetry, UnmountGiveUp, Unmounted, PassOver, Unmounting,
              Unnamed, UnmountSteps
<1>2. CASE ExeExposed(l) \/ MakeTemp(l) \/ Patch(l) \/ PrepareFails(l) \/ BindExe(l)
  BY <1>2 DEF ExeExposed, MakeTemp, Patch, PrepareFails, BindExe
<1>3. CASE \/ LegacyCleared(l) \/ NameDxvkTargets(l) \/ BindAccept(l) \/ BindFails(l)
           \/ BundleBound(l)
           \/ \E image \in Images : BindReplace(l, image) \/ BindMount(l, image)
  BY <1>3 DEF LegacyCleared, NameDxvkTargets, BindAccept, BindFails, BundleBound,
              BindReplace, BindMount, Binding
<1>4. CASE Verified(l) \/ VerifyRefuses(l) \/ ControlClocks(l) \/ Terminated(l)
  BY <1>4 DEF Verified, VerifyRefuses, ControlClocks, Terminated
<1>5. ASSUME NEW k \in Kinds, RecordPid(l, k)
      PROVE  Quiet(l)
  <2>1. Kinds \subseteq {"explorer", "helper", "game"}
    BY LauncherAssumption
  <2> QED BY <1>5, <2>1 DEF RecordPid, RecordStep, NextStep
<1>6. CASE SkipHelper(l) \/ HelperRefused(l) \/ HelperChecked(l) \/ WaitReturns(l)
           \/ ForgetGame(l)
  BY <1>6 DEF SkipHelper, HelperRefused, HelperChecked, WaitReturns, ForgetGame
<1>7. CASE \/ Drained(l) \/ RestoreClocks(l)
           \/ \E removed \in BOOLEAN : ClocksRestored(l, removed)
           \/ NothingToRestore(l) \/ AllUnmounted(l)
  BY <1>7 DEF Drained, RestoreClocks, ClocksRestored, NothingToRestore, AllUnmounted
<1>8. CASE Exit(l)
  BY <1>8 DEF Exit, Vanish
<1> QED
  BY <1>1, <1>2, <1>3, <1>4, <1>5, <1>6, <1>7, <1>8 DEF Command

\* A run's own commands: what it forks has executed nothing, and the volley reaches
\* whatever it has recorded.
LEMMA CommandOwns ==
  ASSUME TypeOK, NEW l \in Launchers, TearsDown(l), OwnsProcesses(l),
         Command(l) \/ Terminated(l)
  PROVE  OwnsProcesses(l)'
<1>0. {"explorer", "game"} \subseteq Kinds /\ Kinds \subseteq {"explorer", "helper", "game"}
  BY LauncherAssumption
<1>1. CASE Quiet(l)
  BY <1>1 DEF Quiet, OwnsProcesses, Running
<1>2. CASE SignalAll(l)
  <2>1. PICK wrapped \in SUBSET Launchers :
          proc' = [m \in Launchers |-> [k \in Kinds |->
                    IF ~(Running(m, k) /\ Signalled(l, m, k, wrapped)) THEN proc[m][k]
                    ELSE IF pins[m][k] = {} THEN "gone" ELSE "dying"]]
    BY <1>2 DEF SignalAll
  <2>2. pc'[l] = "drain" /\ pids' = pids
    BY <1>2 DEF SignalAll, Goto, TypeOK
  <2>3. ASSUME NEW k \in Kinds, k \in pids[l], Running(l, k)'
        PROVE  proc'[l][k] = "dying"
    BY <2>1, <2>3 DEF Running, Signalled
  <2> QED BY <1>0, <2>2, <2>3 DEF OwnsProcesses, BeforeVolley, TrappedSteps, CleanupSteps
<1>3. ASSUME NEW k \in Kinds, Fork(l, k)
      PROVE  OwnsProcesses(l)'
  <2>1. pc[l] \in PlayingSteps /\ pc'[l] \in PlayingSteps
    BY <1>0, <1>3 DEF Fork, Goto, RecordStep, PlayingSteps, TypeOK
  <2>2. UNCHANGED <<mounts, pins, pids>> /\ mounts[Box] # <<>>
    BY <1>3, <2>1 DEF Fork, TearsDown
  <2>3. \A j \in Kinds : proc'[l][j] = IF j = k THEN "forked" ELSE proc[l][j]
    BY <1>3 DEF Fork, TypeOK
  <2> QED
    BY <1>0, <2>1, <2>2, <2>3 DEF OwnsProcesses, BeforeVolley, AfterVolley, StartedSteps,
       PlayingSteps, TrappedSteps, CleanupSteps
<1> QED BY <1>1, <1>2, <1>3, QuietCommands

\* Another run's command signals only what has been started.
LEMMA OthersCommandOwns ==
  ASSUME TypeOK, LockIsHeld, NEW l \in Launchers, OwnsProcesses(l),
         NEW m \in Launchers \ {l}, Command(m) \/ Terminated(m)
  PROVE  OwnsProcesses(l)'
<1>0. {"explorer", "game"} \subseteq Kinds
  BY LauncherAssumption
<1>1. pc'[l] = pc[l] /\ pc'[l] \notin ActiveSteps
  BY CommandIsOwnStep, OthersIdle DEF OwnStep
<1>2. \A k \in Kinds : proc[l][k] = "none" => proc'[l][k] = "none"
  <2>1. CASE Quiet(m)
    BY <2>1 DEF Quiet
  <2>2. CASE SignalAll(m)
    BY <2>2 DEF SignalAll, Running
  <2>3. ASSUME NEW k \in Kinds, Fork(m, k)
        PROVE  proc'[l] = proc[l]
    BY <2>3 DEF Fork, TypeOK
  <2> QED BY <2>1, <2>2, <2>3, QuietCommands
<1> QED
  BY <1>0, <1>1, <1>2 DEF OwnsProcesses, ActiveSteps, BeforeVolley, AfterVolley, StartedSteps,
     PlayingSteps, TrappedSteps, CleanupSteps

\* The processes' own steps: what a run started executes the Box86 it has bound.
LEMMA ProcessOwns ==
  ASSUME TypeOK, NEW l \in Launchers, OwnsProcesses(l),
         \/ \E m \in Launchers, k \in Kinds : Exec(m, k) \/ Named(m, k) \/ Ends(m, k)
         \/ \E m \in Launchers, t \in Targets : GameOpens(m, t)
  PROVE  OwnsProcesses(l)'
<1>0. {"explorer", "game"} \subseteq Kinds
  BY LauncherAssumption
<1>1. UNCHANGED <<pc, pids, mounts>>
  BY DEF Exec, Named, Ends, GameOpens, runVars
<1>2. ASSUME NEW m \in Launchers, NEW k \in Kinds, Exec(m, k)
      PROVE  OwnsProcesses(l)'
  <2>1. \A j \in Kinds : m # l \/ j # k =>
          proc'[l][j] = proc[l][j] /\ pins'[l][j] = pins[l][j]
    BY <1>2 DEF Exec, TypeOK
  <2>2. m = l => /\ proc[l][k] = "forked" /\ proc'[l][k] \in {"new", "named"}
                 /\ pins'[l][k] = pins[l][k] \cup Executes(k)
    BY <1>2 DEF Exec, TypeOK
  <2>3. k \in {"explorer", "game"} /\ mounts[Box] # <<>> => Executes(k) = {Box}
    BY DEF Executes
  <2> QED BY <1>0, <1>1, <2>1, <2>2, <2>3 DEF OwnsProcesses, Running
<1>3. ASSUME NEW m \in Launchers, NEW k \in Kinds, Named(m, k)
      PROVE  OwnsProcesses(l)'
  <2>1. \A j \in Kinds : proc'[l][j] = proc[l][j] \/
                         (proc[l][j] = "new" /\ proc'[l][j] = "named")
    BY <1>3 DEF Named, TypeOK
  <2>2. pins' = pins
    BY <1>3 DEF Named
  <2> QED BY <1>0, <1>1, <2>1, <2>2 DEF OwnsProcesses, Running
<1>4. ASSUME NEW m \in Launchers, NEW k \in Kinds, Ends(m, k)
      PROVE  OwnsProcesses(l)'
  <2>1. \A j \in Kinds : \/ proc'[l][j] = proc[l][j] /\ pins'[l][j] = pins[l][j]
                         \/ proc'[l][j] = "gone" /\ Running(l, j)
    BY <1>4 DEF Ends, TypeOK
  <2> QED BY <1>0, <1>1, <2>1 DEF OwnsProcesses, Running
<1>5. ASSUME NEW m \in Launchers, NEW t \in Targets, GameOpens(m, t)
      PROVE  OwnsProcesses(l)'
  <2>1. \A j \in Kinds : pins[l][j] \subseteq pins'[l][j]
    BY <1>0, <1>5 DEF GameOpens, TypeOK
  <2>2. proc' = proc
    BY <1>5 DEF GameOpens
  <2> QED BY <1>0, <1>1, <2>1, <2>2 DEF OwnsProcesses, Running
<1> QED BY <1>2, <1>3, <1>4, <1>5

\* What a run knows of its processes survives every step.
LEMMA OwnsStep ==
  ASSUME TypeOK, LockIsHeld, NEW l \in Launchers, TearsDown(l), OwnsProcesses(l), [Next]_vars
  PROVE  OwnsProcesses(l)'
<1>0. {"explorer", "game"} \subseteq Kinds
  BY LauncherAssumption
<1> USE DEF BeforeVolley, AfterVolley, StartedSteps, PlayingSteps, TrappedSteps, CleanupSteps
<1>1. ASSUME NEW m \in Launchers, Command(m) \/ Terminated(m)
      PROVE  OwnsProcesses(l)'
  BY <1>1, CommandOwns, OthersCommandOwns
<1>2. ASSUME NEW m \in Launchers, Start(m) \/ StartRefused(m)
      PROVE  OwnsProcesses(l)'
  BY <1>2 DEF Start, StartRefused, Loop, Goto, deviceVars, TypeOK, OwnsProcesses, Running
<1>3. ASSUME NEW m \in Launchers, Killed(m)
      PROVE  OwnsProcesses(l)'
  <2>1. UNCHANGED <<mounts, proc, pins>>
    BY <1>3 DEF Killed
  <2>2. IF m = l THEN pc'[l] = "dead" ELSE pc'[l] = pc[l] /\ pids'[l] = pids[l]
    BY <1>3 DEF Killed, Vanish, Goto, TypeOK
  <2> QED BY <2>1, <2>2 DEF OwnsProcesses, Running
<1>4. ASSUME NEW settings \in KnobValues, NEW tmpSurvives \in BOOLEAN,
             Reboot(settings, tmpSurvives)
      PROVE  OwnsProcesses(l)'
  <2>1. /\ pc'[l] = IF Active(l) THEN "dead" ELSE pc[l]
        /\ \A k \in Kinds : proc[l][k] = "none" => proc'[l][k] = "none"
    BY <1>4 DEF Reboot, Running
  <2> QED BY <1>0, <2>1 DEF OwnsProcesses, Active
<1>5. CASE FileEdited \/ UNCHANGED vars
  BY <1>5 DEF FileEdited, vars, runVars, deviceVars, OwnsProcesses, Running
<1> QED BY <1>1, <1>2, <1>3, <1>4, <1>5, ProcessOwns DEF Next, Environment

\* TeardownInv, one run at a time.
LEMMA TeardownByRun ==
  TeardownInv <=> PinsAreMounted /\ \A l \in Launchers : TearsDown(l) /\ OwnsProcesses(l)
  BY DEF TeardownInv, BoxIsBound, OwnProcessesHoldBox, RecordedAreSignalled,
         PassedAreCleared, TearsDown, OwnsProcesses, BeforeVolley, AfterVolley, StartedSteps

\* The initial states satisfy both invariants, and every step keeps both.
LEMMA EngineInitInv == Init => EngineInv
<1> SUFFICES ASSUME Init
             PROVE  TeardownInv
  BY LauncherInitInv DEF EngineInv
<1>1. {"explorer", "game"} \subseteq Kinds
  BY LauncherAssumption
<1> QED
  BY <1>1 DEF Init, TeardownInv, PinsAreMounted, BoxIsBound, OwnProcessesHoldBox,
              RecordedAreSignalled, PassedAreCleared, PlayingSteps, CleanupSteps

\* The cleanup's part is inductive only with the rest: the lock keeps other runs
\* from mounting, unmounting and signalling meanwhile.
LEMMA EngineNextInv == EngineInv /\ [Next]_vars => EngineInv'
<1> SUFFICES ASSUME EngineInv, [Next]_vars
             PROVE  EngineInv'
  OBVIOUS
<1>1. LauncherInv'
  BY LauncherNextInv DEF EngineInv
<1>2. PinsAreMounted /\ \A l \in Launchers : TearsDown(l) /\ OwnsProcesses(l)
  BY TeardownByRun DEF EngineInv
<1>3. TypeOK /\ LockIsHeld
  BY DEF EngineInv, LauncherInv
<1>4. PinsAreMounted' /\ \A l \in Launchers : TearsDown(l)' /\ OwnsProcesses(l)'
  BY <1>2, <1>3, PinsStep, TearsDownStep, OwnsStep
<1>5. TeardownInv'
  BY <1>4 DEF TeardownInv, BoxIsBound, OwnProcessesHoldBox, RecordedAreSignalled,
         PassedAreCleared, TearsDown, OwnsProcesses, BeforeVolley, AfterVolley, StartedSteps
<1> QED BY <1>1, <1>5 DEF EngineInv

\* What a live run and its cleanup rely on holds in every reachable state,
\* however many runs there are and wherever they are signalled or killed.
THEOREM EngineInvariant == Spec => []EngineInv
  BY EngineInitInv, EngineNextInv, PTL DEF Spec

\* Only the last command of the cleanup leaves the step "rmtemp" for "exited".
LEMMA OnlyExitExits ==
  ASSUME TypeOK, NEW l \in Launchers, pc[l] = "rmtemp", pc'[l] = "exited", Next
  PROVE  Exit(l)
<1>1. ASSUME NEW m \in Launchers, Command(m) \/ Terminated(m)
      PROVE  Exit(l)
  <2>1. OwnStep(m)
    BY <1>1, CommandIsOwnStep
  <2>2. m = l
    BY <2>1 DEF OwnStep
  <2>3. Command(l)
    BY <1>1, <2>2 DEF Terminated, TrappedSteps
  <2>4. CASE \/ UnmountTop(l) \/ UnmountRetry(l) \/ UnmountGiveUp(l) \/ Unmounted(l)
             \/ PassOver(l) \/ ExeExposed(l) \/ MakeTemp(l) \/ Patch(l) \/ PrepareFails(l)
             \/ BindExe(l)
    BY <2>4 DEF UnmountTop, UnmountRetry, UnmountGiveUp, Unmounted, PassOver, Unmounting,
                Unnamed, UnmountSteps, ExeExposed, MakeTemp, Patch, PrepareFails, BindExe
  <2>5. CASE \/ LegacyCleared(l) \/ NameDxvkTargets(l) \/ BindAccept(l) \/ BindFails(l)
             \/ BundleBound(l)
             \/ \E image \in Images : BindReplace(l, image) \/ BindMount(l, image)
    BY <2>5 DEF LegacyCleared, NameDxvkTargets, BindAccept, BindFails, BundleBound,
                BindReplace, BindMount, Binding
  <2>6. CASE \/ Verified(l) \/ VerifyRefuses(l) \/ ControlClocks(l) \/ SkipHelper(l)
             \/ HelperRefused(l) \/ HelperChecked(l) \/ WaitReturns(l) \/ ForgetGame(l)
             \/ SignalAll(l) \/ Drained(l) \/ RestoreClocks(l)
             \/ \E removed \in BOOLEAN : ClocksRestored(l, removed)
             \/ NothingToRestore(l)
    BY <2>6 DEF Verified, VerifyRefuses, ControlClocks, SkipHelper, HelperRefused,
                HelperChecked, WaitReturns, ForgetGame, SignalAll, Drained, RestoreClocks,
                ClocksRestored, NothingToRestore
  <2>7. CASE AllUnmounted(l) \/ \E k \in Kinds : Fork(l, k) \/ RecordPid(l, k)
    <3>1. Kinds \subseteq {"explorer", "helper", "game"}
      BY LauncherAssumption
    <3> QED BY <2>7, <3>1 DEF AllUnmounted, Fork, RecordPid, RecordStep
  <2> QED BY <2>3, <2>4, <2>5, <2>6, <2>7 DEF Command
<1>2. ASSUME NEW m \in Launchers, Start(m) \/ StartRefused(m) \/ Killed(m)
      PROVE  FALSE
  BY <1>2 DEF Start, StartRefused, Killed, Loop, Goto, Vanish, TypeOK
<1>3. ASSUME NEW settings \in KnobValues, NEW tmpSurvives \in BOOLEAN,
             Reboot(settings, tmpSurvives)
      PROVE  FALSE
  BY <1>3 DEF Reboot
<1>4. CASE RunsUntouched
  BY <1>4 DEF RunsUntouched, runVars
<1> QED BY <1>1, <1>2, <1>3, <1>4, QuietSteps

\* A cleanup that reports no failure leaves no mount it named, no temporary image of
\* its own, no controlled-clock session, and of the desktops and games only some that
\* never opened a mounted Box86: of its own, none that it has recorded and not signalled.
THEOREM CleanExitIsClean == Spec => CleanExit
<1> DEFINE Clean == \A l \in Launchers :
             pc[l] = "rmtemp" /\ pc'[l] = "exited" /\ ~cleanupFailed[l] =>
               /\ \A t \in Targets : mounts'[t] = <<>> \/ (t \in LateTargets /\ ~dxvkNamed[l])
               /\ \A m \in Launchers, k \in {"explorer", "game"} :
                    proc'[m][k] \in {"none", "gone"} \/
                      /\ Box \notin pins'[m][k]
                      /\ m = l => proc'[m][k] = "dying" \/ k \notin pids[l]
               /\ ~temp'[l]
               /\ phase' = "off"
<1>1. EngineInv /\ [Next]_vars => [Clean]_vars
  <2> SUFFICES ASSUME EngineInv, Next, NEW l \in Launchers, pc[l] = "rmtemp",
                      pc'[l] = "exited", ~cleanupFailed[l]
               PROVE  /\ \A t \in Targets :
                           mounts'[t] = <<>> \/ (t \in LateTargets /\ ~dxvkNamed[l])
                      /\ \A m \in Launchers, k \in {"explorer", "game"} :
                           proc'[m][k] \in {"none", "gone"} \/
                             /\ Box \notin pins'[m][k]
                             /\ m = l => proc'[m][k] = "dying" \/ k \notin pids[l]
                      /\ ~temp'[l]
                      /\ phase' = "off"
    OBVIOUS
  <2>1. TypeOK
    BY DEF EngineInv, LauncherInv
  <2>2. Exit(l)
    BY <2>1, OnlyExitExits
  <2>3. UNCHANGED <<phase, mounts, proc, pins>>
    BY <2>2 DEF Exit, clockVars
  <2>4. \A t \in Targets : Cleared(l, t)
    BY DEF EngineInv, TeardownInv, PassedAreCleared
  <2>5. mounts[Box] = <<>> /\ mounts[Exe] = <<>>
    BY <2>4, LauncherAssumption, TeardownAssumption DEF Cleared
  <2>6. ASSUME NEW m \in Launchers, NEW k \in {"explorer", "game"},
               proc'[m][k] \notin {"none", "gone"}
        PROVE  /\ Box \notin pins'[m][k]
               /\ m = l => proc'[m][k] = "dying" \/ k \notin pids[l]
    <3>1. k \in Kinds
      BY LauncherAssumption
    <3>2. Running(m, k)
      BY <2>1, <2>3, <2>6, <3>1 DEF TypeOK, ProcStates, Running
    <3>3. Box \notin pins[m][k]
      BY <2>5, <3>1 DEF EngineInv, TeardownInv, PinsAreMounted
    <3>4. m = l => proc[m][k] = "dying" \/ k \notin pids[l]
      BY <3>2 DEF EngineInv, TeardownInv, RecordedAreSignalled, CleanupSteps
    <3> QED BY <2>3, <3>3, <3>4
  <2>7. ~temp'[l]
    BY <2>1, <2>2, <2>5 DEF Exit, TypeOK
  <2>8. phase' = "off"
    BY <2>3 DEF EngineInv, LauncherInv, ClocksFit
  <2> QED BY <2>3, <2>4, <2>6, <2>7, <2>8 DEF Cleared
<1> QED
  BY <1>1, EngineInvariant, PTL DEF Spec, CleanExit

=============================================================================
