------------------------------ MODULE Launcher ------------------------------
(***************************************************************************)
(* The launcher engine src/device/launch-play-dxvk-fp17.sh: one run of the *)
(* shell script per element of Launchers.  A run takes the lock, exposes   *)
(* the installed game image, binds the files of one route over the system  *)
(* paths, verifies what is really mounted, takes the clocks under control  *)
(* (module ClockBaseline), starts the Wine desktop, the input helper and   *)
(* the game, waits for the game, and undoes it all in its EXIT/signal      *)
(* cleanup.                                                                *)
(*                                                                         *)
(* A run may be signalled or killed between any two commands, its children *)
(* outlive it (they do not inherit the lock), a killed process keeps its   *)
(* mounts busy until the kernel has torn it down, and the device may lose  *)
(* power at any time.                                                      *)
(***************************************************************************)
EXTENDS ClockBaseline, Sequences, FiniteSets

CONSTANTS
  Launchers,    \* runs of the engine; each is started at most once
  Routes,       \* the closed production routes
  Patched,      \* the routes that play a patched game image
  Immediate,    \* the routes that require the exact input helper
  Targets,      \* the paths bind mounts go over
  Exe,          \* the installed game image
  Box,          \* /usr/bin/box86, which executes every Wine process
  LegacyOrder,  \* the renderer targets cleared before the bundle is bound
  BindOrder,    \* the targets a route binds, in order
  CleanupOrder, \* the targets the cleanup unmounts, in order
  LateTargets,  \* the DXVK targets, whose paths a run names only on its way to bind them
  Images,       \* file contents
  Stock,        \* the content installed at every target
  Foreign,      \* a content no manifest lists
  Bundle,       \* the content a route's manifest pins for each target
  StaleMounts,  \* what earlier launchers may have left mounted
  Kinds,        \* the processes a run starts: the Wine desktop, the input helper, the game
  MaxTries,     \* umount attempts on a busy target
  Free          \* the lock is not held

ASSUME LauncherAssumption ==
  /\ Patched \subseteq Routes /\ Immediate \subseteq Routes
  /\ Exe \in Targets /\ Box \in Targets
  /\ LegacyOrder \in Seq(Targets) /\ BindOrder \in Seq(Targets \ {Exe})
  /\ CleanupOrder \in Seq(Targets) /\ LateTargets \subseteq Targets
  /\ Stock \in Images /\ Foreign \in Images
  /\ Bundle \in [Routes -> [Targets -> Images \ {Foreign}]]
  /\ \A r \in Routes \ Patched : Bundle[r][Exe] = Stock
  /\ StaleMounts \subseteq [Targets -> Seq(Images)]
  /\ Kinds \in {{"explorer", "game"}, {"explorer", "helper", "game"}}
  /\ Immediate # {} => "helper" \in Kinds
  /\ MaxTries \in Nat \ {0}
  /\ Free \notin Launchers

\* The cleanup unmounts every target (lines 600-618); every route binds Box86,
\* whose path and the game image's are fixed from the start.
ASSUME TeardownAssumption ==
  /\ \A t \in Targets : \E i \in DOMAIN CleanupOrder : CleanupOrder[i] = t
  /\ \E i \in DOMAIN BindOrder : BindOrder[i] = Box
  /\ {Exe, Box} \cap LateTargets = {}

VARIABLES
  pc,            \* where each run is
  lock,          \* the holder of /tmp/mgs2-substance.lock
  route,         \* MGS2_PRODUCTION_ROUTE of each run
  queue,         \* the targets the run's current loop has not finished
  tries,         \* unmount_all's count of failed attempts
  cleanupFailed, \* cleanup_failed
  dxvkNamed,     \* DXVK_D3D8_TARGET and DXVK_D3D9_TARGET are set
  mounts,        \* the stack of bind mounts on each target, top first
  temp,          \* whether the run's temporary game image exists
  proc,          \* the state of the processes each run started
  pids,          \* the *_PID variables that are set
  pins           \* the targets whose mount each process holds open

runVars == <<pc, lock, route, queue, tries, cleanupFailed, dxvkNamed>>
deviceVars == <<mounts, temp, proc, pids, pins>>
vars == <<clockVars, runVars, deviceVars>>

-----------------------------------------------------------------------------
\* "forked": the subshell bash forks for "command &", which has not executed the
\* program yet; "new": Box86, not yet under the name Wine gives the desktop;
\* "dying": signalled.
ProcStates == {"none", "forked", "new", "named", "dying", "gone"}

\* A bind mount: its content, and the run whose temporary file backs it.
Mount == [image : Images, backing : Launchers \cup {Free}]

Visible(t) == IF mounts[t] = <<>> THEN Stock ELSE Head(mounts[t]).image

Running(l, k) == proc[l][k] \in {"forked", "new", "named", "dying"}

\* A process holds the mount its file was opened through.  The engine never
\* mounts over a busy mount, so that mount is still the top one.
Busy(t) == \E l \in Launchers, k \in Kinds : t \in pins[l][k]

UnmountSteps == {"exe", "legacy", "unmount"}
CleanupSteps == {"kill", "drain", "restore", "unmount", "rmtemp"}

\* The steps between the trap commands and the cleanup.
TrappedSteps == {"exe", "mktemp", "patcher", "bindexe", "legacy", "bind",
                 "verify", "clock", "explorer", "explorer_pid", "helper",
                 "helper_pid", "helper_check", "game", "game_pid", "wait",
                 "waited"}
Steps == TrappedSteps \cup CleanupSteps \cup {"idle", "exited", "dead"}

Active(l) == pc[l] \in TrappedSteps \cup CleanupSteps

Init ==
  /\ ClockInit
  /\ pc = [l \in Launchers |-> "idle"]
  /\ lock = Free
  /\ route \in [Launchers -> Routes]
  /\ queue = [l \in Launchers |-> <<>>]
  /\ tries = [l \in Launchers |-> 0]
  /\ cleanupFailed = [l \in Launchers |-> FALSE]
  /\ dxvkNamed = [l \in Launchers |-> FALSE]
  /\ \E stale \in StaleMounts :
       mounts = [t \in Targets |->
                  [i \in DOMAIN stale[t] |-> [image |-> stale[t][i], backing |-> Free]]]
  /\ temp = [l \in Launchers |-> FALSE]
  /\ proc = [l \in Launchers |-> [k \in Kinds |-> "none"]]
  /\ pids = [l \in Launchers |-> {}]
  /\ pins = [l \in Launchers |-> [k \in Kinds |-> {}]]

-----------------------------------------------------------------------------
Goto(l, step) == pc' = [pc EXCEPT ![l] = step]

\* Start a loop over the targets of order.
Loop(l, step, order) ==
  /\ Goto(l, step)
  /\ queue' = [queue EXCEPT ![l] = order]

\* A refused launch leaves through "exit 1", and the EXIT trap runs the cleanup.
Refuse(l) == Loop(l, "kill", <<>>)

NextTarget(l) == queue' = [queue EXCEPT ![l] = Tail(@)]

Pop(t) == mounts' = [mounts EXCEPT ![t] = Tail(@)]

\* The shell is gone: its variables vanish and the kernel drops its lock.
Vanish(l, step) ==
  /\ Goto(l, step)
  /\ lock' = Free
  /\ queue' = [queue EXCEPT ![l] = <<>>]
  /\ tries' = [tries EXCEPT ![l] = 0]
  /\ cleanupFailed' = [cleanupFailed EXCEPT ![l] = FALSE]
  /\ dxvkNamed' = [dxvkNamed EXCEPT ![l] = FALSE]
  /\ pids' = [pids EXCEPT ![l] = {}]

Push(t, image, backing) ==
  mounts' = [mounts EXCEPT ![t] = <<[image |-> image, backing |-> backing]>> \o @]

-----------------------------------------------------------------------------
(* The lock *)

Start(l) ==
  /\ pc[l] = "idle"
  /\ lock = Free
  /\ lock' = l
  /\ Loop(l, "exe", <<Exe>>)
  /\ UNCHANGED <<clockVars, route, dxvkNamed, tries, cleanupFailed, deviceVars>>

\* Mutant: the traps are armed before the lock is taken.
StartRefused_Trapped(l) ==
  /\ pc[l] = "idle"
  /\ Goto(l, IF lock = Free THEN "exited" ELSE "kill")
  /\ UNCHANGED <<clockVars, lock, route, dxvkNamed, queue, tries, cleanupFailed, deviceVars>>

\* Another run holds the lock, or an override or an unknown route was refused
\* before it: the shell exits with no trap armed.
StartRefused(l) ==
  /\ pc[l] = "idle"
  /\ Goto(l, "exited")
  /\ UNCHANGED <<clockVars, lock, route, dxvkNamed, queue, tries, cleanupFailed, deviceVars>>

-----------------------------------------------------------------------------
(* unmount_all, called for the game image, the legacy renderer targets and *)
(* every target of the cleanup                                             *)

\* The DXVK targets are not named before the run is about to bind them; a
\* cleanup that starts earlier passes them over.
Unnamed(l) ==
  pc[l] = "unmount" /\ queue[l] # <<>> /\ Head(queue[l]) \in LateTargets /\ ~dxvkNamed[l]

Unmounting(l) == pc[l] \in UnmountSteps /\ queue[l] # <<>> /\ ~Unnamed(l)

PassOver(l) ==
  /\ Unnamed(l)
  /\ NextTarget(l)
  /\ UNCHANGED <<clockVars, pc, lock, route, dxvkNamed, tries, cleanupFailed, deviceVars>>

UnmountTop(l) ==
  LET t == Head(queue[l]) IN
  /\ Unmounting(l)
  /\ mounts[t] # <<>> /\ ~Busy(t)
  /\ Pop(t)
  /\ tries' = [tries EXCEPT ![l] = 0]
  /\ UNCHANGED <<clockVars, pc, lock, route, dxvkNamed, queue, cleanupFailed, temp, proc,
                 pids, pins>>

\* Mutant: the attempts are not counted.
UnmountRetry_NotCounted(l) ==
  /\ Unmounting(l)
  /\ Busy(Head(queue[l]))
  /\ UNCHANGED vars

UnmountRetry(l) ==
  /\ Unmounting(l)
  /\ Busy(Head(queue[l]))
  /\ tries[l] + 1 < MaxTries
  /\ tries' = [tries EXCEPT ![l] = @ + 1]
  /\ UNCHANGED <<clockVars, pc, lock, route, dxvkNamed, queue, cleanupFailed, deviceVars>>

\* Mutant: the cleanup does not record a target it could not unmount.
UnmountGiveUp_Silent(l) ==
  /\ Unmounting(l)
  /\ Busy(Head(queue[l]))
  /\ tries[l] + 1 >= MaxTries
  /\ tries' = [tries EXCEPT ![l] = 0]
  /\ IF pc[l] = "exe" THEN Refuse(l) ELSE NextTarget(l) /\ UNCHANGED pc
  /\ UNCHANGED <<clockVars, lock, route, dxvkNamed, cleanupFailed, deviceVars>>

\* Too many attempts: the launch is refused, the legacy loop goes on, and the
\* cleanup records the failure and goes on.
UnmountGiveUp(l) ==
  /\ Unmounting(l)
  /\ Busy(Head(queue[l]))
  /\ tries[l] + 1 >= MaxTries
  /\ tries' = [tries EXCEPT ![l] = 0]
  /\ \/ pc[l] = "exe" /\ Refuse(l) /\ UNCHANGED cleanupFailed
     \/ pc[l] = "legacy" /\ NextTarget(l) /\ UNCHANGED <<pc, cleanupFailed>>
     \/ /\ pc[l] = "unmount" /\ NextTarget(l) /\ UNCHANGED pc
        /\ cleanupFailed' = [cleanupFailed EXCEPT ![l] = TRUE]
  /\ UNCHANGED <<clockVars, lock, route, dxvkNamed, deviceVars>>

Unmounted(l) ==
  /\ Unmounting(l)
  /\ mounts[Head(queue[l])] = <<>>
  /\ NextTarget(l)
  /\ UNCHANGED <<clockVars, pc, lock, route, dxvkNamed, tries, cleanupFailed, deviceVars>>

-----------------------------------------------------------------------------
(* prepare_game_exe *)

ExeExposed(l) ==
  /\ pc[l] = "exe" /\ queue[l] = <<>>
  /\ IF route[l] \in Patched THEN Loop(l, "mktemp", <<>>)
                             ELSE Loop(l, "legacy", LegacyOrder)
  /\ UNCHANGED <<clockVars, lock, route, dxvkNamed, tries, cleanupFailed, deviceVars>>

MakeTemp(l) ==
  /\ pc[l] = "mktemp"
  /\ Goto(l, "patcher")
  /\ temp' = [temp EXCEPT ![l] = TRUE]
  /\ UNCHANGED <<clockVars, lock, route, dxvkNamed, queue, tries, cleanupFailed, mounts,
                 proc, pids, pins>>

\* The patcher accepts exactly the installed image and verifies its output.
Patch(l) ==
  /\ pc[l] = "patcher"
  /\ Visible(Exe) = Stock
  /\ Goto(l, "bindexe")
  /\ UNCHANGED <<clockVars, lock, route, dxvkNamed, queue, tries, cleanupFailed, deviceVars>>

\* The patcher is not the pinned one, refuses its input, or a file operation fails.
PrepareFails(l) ==
  /\ pc[l] \in {"mktemp", "patcher", "bindexe"}
  /\ Refuse(l)
  /\ UNCHANGED <<clockVars, lock, route, dxvkNamed, tries, cleanupFailed, deviceVars>>

BindExe(l) ==
  /\ pc[l] = "bindexe"
  /\ Push(Exe, Bundle[route[l]][Exe], l)
  /\ Loop(l, "legacy", LegacyOrder)
  /\ UNCHANGED <<clockVars, lock, route, dxvkNamed, tries, cleanupFailed, temp, proc, pids,
                 pins>>

-----------------------------------------------------------------------------
(* mount_bind, for every target of the bundle *)

LegacyCleared(l) ==
  /\ pc[l] = "legacy" /\ queue[l] = <<>>
  /\ Loop(l, "bind", BindOrder)
  /\ UNCHANGED <<clockVars, lock, route, dxvkNamed, tries, cleanupFailed, deviceVars>>

\* The port's file for t: the one the manifest pins, or some other build.
SourceImages(l, t) == {Bundle[route[l]][t], Foreign}

Binding(l) ==
  /\ pc[l] = "bind" /\ queue[l] # <<>>
  /\ Head(queue[l]) \in LateTargets => dxvkNamed[l]

NameDxvkTargets(l) ==
  /\ pc[l] = "bind" /\ queue[l] # <<>>
  /\ Head(queue[l]) \in LateTargets /\ ~dxvkNamed[l]
  /\ dxvkNamed' = [dxvkNamed EXCEPT ![l] = TRUE]
  /\ UNCHANGED <<clockVars, pc, lock, route, queue, tries, cleanupFailed, deviceVars>>

\* A mount whose bytes equal the source is kept, whoever made it.
BindAccept(l) ==
  LET t == Head(queue[l]) IN
  /\ Binding(l)
  /\ mounts[t] # <<>> /\ Visible(t) \in SourceImages(l, t)
  /\ NextTarget(l)
  /\ UNCHANGED <<clockVars, pc, lock, route, dxvkNamed, tries, cleanupFailed, deviceVars>>

BindReplace(l, image) ==
  LET t == Head(queue[l]) IN
  /\ Binding(l)
  /\ image \in SourceImages(l, t)
  /\ mounts[t] # <<>> /\ Visible(t) # image /\ ~Busy(t)
  /\ Pop(t)
  /\ UNCHANGED <<clockVars, runVars, temp, proc, pids, pins>>

BindMount(l, image) ==
  LET t == Head(queue[l]) IN
  /\ Binding(l)
  /\ image \in SourceImages(l, t)
  /\ mounts[t] = <<>>
  /\ Push(t, image, Free)
  /\ NextTarget(l)
  /\ UNCHANGED <<clockVars, pc, lock, route, dxvkNamed, tries, cleanupFailed, temp, proc,
                 pids, pins>>

\* The source is unreadable, the mount fails, or a busy mount is in the way.
BindFails(l) ==
  /\ Binding(l)
  /\ Refuse(l)
  /\ UNCHANGED <<clockVars, lock, route, dxvkNamed, tries, cleanupFailed, deviceVars>>

BundleBound(l) ==
  /\ pc[l] = "bind" /\ queue[l] = <<>>
  /\ Goto(l, "verify")
  /\ UNCHANGED <<clockVars, lock, route, dxvkNamed, queue, tries, cleanupFailed, deviceVars>>

-----------------------------------------------------------------------------
(* mgs2_verify_identity, then the clocks *)

\* The paths the manifest lists; the unpatched routes' do not list the game image.
Pinned(l) == IF route[l] \in Patched THEN Targets ELSE Targets \ {Exe}

\* Mutant: only the file the old release path built is verified.
IdentityMatches_OnlyBox(l) == Visible(Box) = Bundle[route[l]][Box]

IdentityMatches(l) == \A t \in Pinned(l) : Visible(t) = Bundle[route[l]][t]

Verified(l) ==
  /\ pc[l] = "verify"
  /\ IdentityMatches(l)
  /\ ClockEnter
  /\ Goto(l, "clock")
  /\ UNCHANGED <<lock, route, dxvkNamed, queue, tries, cleanupFailed, deviceVars>>

VerifyRefuses(l) ==
  /\ pc[l] = "verify"
  /\ ~IdentityMatches(l)
  /\ Refuse(l)
  /\ UNCHANGED <<clockVars, lock, route, dxvkNamed, tries, cleanupFailed, deviceVars>>

\* save_cpu_state and set_final_cpu_cap; a refusal leaves through the cleanup.
ControlClocks(l) ==
  /\ pc[l] = "clock"
  /\ ClockProgress
  /\ Goto(l, CASE phase' = "held" -> "explorer"
               [] phase' \in {"off", "restore"} -> "kill"
               [] OTHER -> "clock")
  /\ UNCHANGED <<lock, route, dxvkNamed, queue, tries, cleanupFailed, deviceVars>>

-----------------------------------------------------------------------------
(* The processes: the Wine desktop, the input helper and the game *)

\* Where the run goes when the PID of the process it started is recorded.
RecordStep == [explorer |-> "explorer_pid", helper |-> "helper_pid", game |-> "game_pid"]
NextStep == [explorer |-> "helper", helper |-> "helper_check", game |-> "wait"]

\* "command &": bash forks a subshell, which has executed nothing yet and goes
\* by the script's own name.  (Its copy of the lock, which it closes first, is
\* left out: the lock of a killed run may be free a moment too soon.)
Fork(l, k) ==
  /\ pc[l] = k
  /\ Goto(l, RecordStep[k])
  /\ proc' = [proc EXCEPT ![l][k] = "forked"]
  /\ UNCHANGED <<clockVars, lock, route, dxvkNamed, queue, tries, cleanupFailed, mounts,
                 temp, pids, pins>>

RecordPid(l, k) ==
  /\ pc[l] = RecordStep[k]
  /\ Goto(l, NextStep[k])
  /\ pids' = [pids EXCEPT ![l] = @ \cup {k}]
  /\ UNCHANGED <<clockVars, lock, route, dxvkNamed, queue, tries, cleanupFailed, mounts,
                 temp, proc, pins>>

\* The legacy route plays on without a mapping or a helper.
SkipHelper(l) ==
  /\ pc[l] = "helper"
  /\ route[l] \notin Immediate
  /\ Goto(l, "game")
  /\ UNCHANGED <<clockVars, lock, route, dxvkNamed, queue, tries, cleanupFailed, deviceVars>>

\* The immediate route's mapping is missing or its helper is not the pinned one.
HelperRefused(l) ==
  /\ pc[l] = "helper"
  /\ route[l] \in Immediate
  /\ Refuse(l)
  /\ UNCHANGED <<clockVars, lock, route, dxvkNamed, tries, cleanupFailed, deviceVars>>

\* "kill -0" after the start of an immediate helper; the legacy one is not checked.
HelperChecked(l) ==
  /\ pc[l] = "helper_check"
  /\ IF route[l] \in Immediate /\ ~Running(l, "helper")
       THEN /\ Refuse(l)
            /\ pids' = [pids EXCEPT ![l] = @ \ {"helper"}]
       ELSE Goto(l, "game") /\ UNCHANGED <<queue, pids>>
  /\ UNCHANGED <<clockVars, lock, route, dxvkNamed, tries, cleanupFailed, mounts, temp,
                 proc, pins>>

\* "wait" returns when the game is gone; the next command forgets its PID.
WaitReturns(l) ==
  /\ pc[l] = "wait"
  /\ ~Running(l, "game")
  /\ Goto(l, "waited")
  /\ UNCHANGED <<clockVars, lock, route, dxvkNamed, queue, tries, cleanupFailed, deviceVars>>

ForgetGame(l) ==
  /\ pc[l] = "waited"
  /\ Refuse(l)
  /\ pids' = [pids EXCEPT ![l] = @ \ {"game"}]
  /\ UNCHANGED <<clockVars, lock, route, dxvkNamed, tries, cleanupFailed, mounts, temp,
                 proc, pins>>

-----------------------------------------------------------------------------
(* cleanup *)

\* kill of the recorded PIDs, then killall and pkill by name.  The names match
\* the children of every run; a subshell, and a desktop that Wine has not renamed
\* yet, is reached by its PID only.  (The game's subshell may by now be taskset,
\* whose arguments name the game.)  A killed process that holds no mount is of no
\* further consequence.
Signalled(l, m, k, wrapped) ==
  \/ m = l /\ k \in pids[l]
  \/ proc[m][k] = "named"
  \/ k = "game" /\ proc[m][k] = "forked" /\ m \in wrapped

\* Mutant: the recorded PIDs are left out, everything has its name by now.
SignalAll_NamesOnly(l) ==
  /\ pc[l] = "kill"
  /\ Goto(l, "drain")
  /\ proc' = [m \in Launchers |-> [k \in Kinds |->
                IF proc[m][k] # "named" THEN proc[m][k]
                ELSE IF pins[m][k] = {} THEN "gone" ELSE "dying"]]
  /\ UNCHANGED <<clockVars, lock, route, dxvkNamed, queue, tries, cleanupFailed, mounts,
                 temp, pids, pins>>

SignalAll(l) ==
  /\ pc[l] = "kill"
  /\ Goto(l, "drain")
  /\ \E wrapped \in SUBSET Launchers :
       proc' = [m \in Launchers |-> [k \in Kinds |->
                 IF ~(Running(m, k) /\ Signalled(l, m, k, wrapped)) THEN proc[m][k]
                 ELSE IF pins[m][k] = {} THEN "gone" ELSE "dying"]]
  /\ UNCHANGED <<clockVars, lock, route, dxvkNamed, queue, tries, cleanupFailed, mounts,
                 temp, pids, pins>>

\* The wait for the killed processes is bounded: it may end with some left.
Drained(l) ==
  /\ pc[l] = "drain"
  /\ Goto(l, "restore")
  /\ UNCHANGED <<clockVars, lock, route, dxvkNamed, queue, tries, cleanupFailed, deviceVars>>

\* restore_cpu_state, from whatever phase the clock session was left in.
RestoreClocks(l) ==
  /\ pc[l] = "restore"
  /\ \/ ClockLeave
     \/ \E k \in Knobs, v \in Settings, err \in BOOLEAN : ClockRestoreWrite(k, v, err)
  /\ UNCHANGED <<runVars, deviceVars>>

ClocksRestored(l, removed) ==
  /\ pc[l] = "restore"
  /\ ClockRestored(removed)
  /\ Loop(l, "unmount", CleanupOrder)
  /\ cleanupFailed' = [cleanupFailed EXCEPT ![l] = ~removed]
  /\ UNCHANGED <<lock, route, dxvkNamed, tries, deviceVars>>

NothingToRestore(l) ==
  /\ pc[l] = "restore"
  /\ phase = "off"
  /\ Loop(l, "unmount", CleanupOrder)
  /\ UNCHANGED <<clockVars, lock, route, dxvkNamed, tries, cleanupFailed, deviceVars>>

AllUnmounted(l) ==
  /\ pc[l] = "unmount" /\ queue[l] = <<>>
  /\ Goto(l, "rmtemp")
  /\ UNCHANGED <<clockVars, lock, route, dxvkNamed, queue, tries, cleanupFailed, deviceVars>>

\* Mutant: the temporary image is removed even while it is mounted.
Exit_RemovesMounted(l) ==
  /\ pc[l] = "rmtemp"
  /\ temp' = [temp EXCEPT ![l] = FALSE]
  /\ Vanish(l, "exited")
  /\ UNCHANGED <<clockVars, route, mounts, proc, pins>>

\* Mutant: the cleanup removes the clock state file along with its own files.
Exit_RemovesState(l) ==
  /\ pc[l] = "rmtemp"
  /\ temp' = [temp EXCEPT ![l] = @ /\ mounts[Exe] # <<>>]
  /\ stateFile' = NoFile
  /\ Vanish(l, "exited")
  /\ UNCHANGED <<knobs, orig, boot, phase, ready, saved, todo, failed, route, mounts, proc,
                 pins>>

\* The temporary image goes only when nothing is mounted on the game image.
Exit(l) ==
  /\ pc[l] = "rmtemp"
  /\ temp' = [temp EXCEPT ![l] = @ /\ mounts[Exe] # <<>>]
  /\ Vanish(l, "exited")
  /\ UNCHANGED <<clockVars, route, mounts, proc, pins>>

-----------------------------------------------------------------------------
(* Signals, crashes, and the processes' own steps *)

\* HUP, INT or TERM before the cleanup has begun.
Terminated(l) ==
  /\ pc[l] \in TrappedSteps
  /\ Refuse(l)
  /\ UNCHANGED <<clockVars, lock, route, dxvkNamed, tries, cleanupFailed, deviceVars>>

\* SIGKILL, or any further signal once the cleanup has reset the traps.
Killed(l) ==
  /\ Active(l)
  /\ Vanish(l, "dead")
  /\ IF phase = "off" THEN UNCHANGED clockVars ELSE ClockKill
  /\ UNCHANGED <<route, mounts, temp, proc, pins>>

\* Box86 executes the desktop and the game: exec opens whatever is then visible
\* on its path.
Executes(k) == IF k = "helper" \/ mounts[Box] = <<>> THEN {} ELSE {Box}

\* The child executes the program, however late and whatever became of its run.
Exec(l, k) ==
  /\ proc[l][k] = "forked"
  /\ proc' = [proc EXCEPT ![l][k] = IF k = "explorer" THEN "new" ELSE "named"]
  /\ pins' = [pins EXCEPT ![l][k] = @ \cup Executes(k)]
  /\ UNCHANGED <<clockVars, runVars, mounts, temp, pids>>

\* Wine renames the desktop.
Named(l, k) ==
  /\ proc[l][k] = "new"
  /\ proc' = [proc EXCEPT ![l][k] = "named"]
  /\ UNCHANGED <<clockVars, runVars, mounts, temp, pids, pins>>

\* The game opens a file of the bundle, now or much later, and holds its mount.
GameOpens(l, t) ==
  /\ proc[l]["game"] = "named"
  /\ mounts[t] # <<>>
  /\ pins' = [pins EXCEPT ![l]["game"] = @ \cup {t}]
  /\ UNCHANGED <<clockVars, runVars, mounts, temp, proc, pids>>

\* A process exits by itself, or the kernel finishes tearing it down.
Ends(l, k) ==
  /\ Running(l, k)
  /\ proc' = [proc EXCEPT ![l][k] = "gone"]
  /\ pins' = [pins EXCEPT ![l][k] = {}]
  /\ UNCHANGED <<clockVars, runVars, mounts, temp, pids>>

\* Power loss.  Processes and mounts are gone; /tmp normally is, too.
Reboot(settings, tmpSurvives) ==
  /\ ClockReboot(settings, IF tmpSurvives THEN stateFile ELSE NoFile)
  /\ pc' = [l \in Launchers |-> IF Active(l) THEN "dead" ELSE pc[l]]
  /\ lock' = Free
  /\ mounts' = [t \in Targets |-> <<>>]
  /\ temp' = [l \in Launchers |-> temp[l] /\ tmpSurvives]
  /\ proc' = [l \in Launchers |-> [k \in Kinds |->
                IF Running(l, k) THEN "gone" ELSE proc[l][k]]]
  /\ pins' = [l \in Launchers |-> [k \in Kinds |-> {}]]
  /\ queue' = [l \in Launchers |-> <<>>]
  /\ tries' = [l \in Launchers |-> 0]
  /\ cleanupFailed' = [l \in Launchers |-> FALSE]
  /\ dxvkNamed' = [l \in Launchers |-> FALSE]
  /\ pids' = [l \in Launchers |-> {}]
  /\ UNCHANGED route

\* The state file is edited by hand while no run uses it.
FileEdited ==
  /\ ClockDamage
  /\ UNCHANGED <<runVars, deviceVars>>

-----------------------------------------------------------------------------
\* The shell's next command in run l.
Command(l) ==
  \/ UnmountTop(l) \/ UnmountRetry(l) \/ UnmountGiveUp(l) \/ Unmounted(l) \/ PassOver(l)
  \/ ExeExposed(l) \/ MakeTemp(l) \/ Patch(l) \/ PrepareFails(l) \/ BindExe(l)
  \/ LegacyCleared(l) \/ NameDxvkTargets(l) \/ BindAccept(l) \/ BindFails(l) \/ BundleBound(l)
  \/ \E image \in Images : BindReplace(l, image) \/ BindMount(l, image)
  \/ Verified(l) \/ VerifyRefuses(l) \/ ControlClocks(l)
  \/ \E k \in Kinds : Fork(l, k) \/ RecordPid(l, k)
  \/ SkipHelper(l) \/ HelperRefused(l) \/ HelperChecked(l)
  \/ WaitReturns(l) \/ ForgetGame(l)
  \/ SignalAll(l) \/ Drained(l) \/ RestoreClocks(l)
  \/ \E removed \in BOOLEAN : ClocksRestored(l, removed)
  \/ NothingToRestore(l) \/ AllUnmounted(l) \/ Exit(l)

Environment ==
  \/ \E l \in Launchers : Start(l) \/ StartRefused(l) \/ Terminated(l) \/ Killed(l)
  \/ \E l \in Launchers, k \in Kinds : Exec(l, k) \/ Named(l, k) \/ Ends(l, k)
  \/ \E l \in Launchers, t \in Targets : GameOpens(l, t)
  \/ \E settings \in KnobValues, tmpSurvives \in BOOLEAN : Reboot(settings, tmpSurvives)
  \/ FileEdited

Next == (\E l \in Launchers : Command(l)) \/ Environment

Spec == Init /\ [][Next]_vars

\* A shell that can run its next command runs it.  Nothing makes a process
\* exit, not even a signal: a killed one may hang in the kernel.
FairSpec == Spec /\ \A l \in Launchers : WF_vars(Command(l))

-----------------------------------------------------------------------------
(* Properties *)

TypeOK ==
  /\ ClockTypeOK
  /\ pc \in [Launchers -> Steps]
  /\ lock \in Launchers \cup {Free}
  /\ route \in [Launchers -> Routes]
  /\ queue \in [Launchers -> Seq(Targets)]
  /\ tries \in [Launchers -> 0 .. MaxTries - 1]
  /\ cleanupFailed \in [Launchers -> BOOLEAN] /\ dxvkNamed \in [Launchers -> BOOLEAN]
  /\ mounts \in [Targets -> Seq(Mount)]
  /\ temp \in [Launchers -> BOOLEAN]
  /\ proc \in [Launchers -> [Kinds -> ProcStates]]
  /\ pids \in [Launchers -> SUBSET Kinds]
  /\ pins \in [Launchers -> [Kinds -> SUBSET Targets]]

PlayingSteps == {"explorer", "explorer_pid", "helper", "helper_pid", "helper_check",
                 "game", "game_pid", "wait"}

\* From the start of the desktop to the end of the wait, every target shows
\* exactly the content of the run's route, so that its game opens nothing else
\* however late, and the clocks are under control: whatever earlier launches,
\* killed at any point, have left mounted or running
\* (mgs2_verify_identity and everything before it, lines 365-1058).
PlaysExactBundle ==
  \A l \in Launchers :
    pc[l] \in PlayingSteps =>
      /\ lock = l
      /\ phase = "held"
      /\ \A t \in Targets : Visible(t) = Bundle[route[l]][t]

\* No other run's refusal or cleanup kills the game a live run is waiting for
\* (the lock of line 262 is taken before the traps of line 638 are armed).
OthersLeaveTheGame ==
  [][\A l \in Launchers :
       pc[l] = "wait" /\ proc[l]["game"] # "dying" => proc'[l]["game"] # "dying"]_vars

\* The file behind a mounted temporary game image is never removed
\* (game_image_unmounted in cleanup).
MountedImageKept ==
  \A t \in Targets : \A i \in DOMAIN mounts[t] :
    mounts[t][i].backing # Free => temp[mounts[t][i].backing]

-----------------------------------------------------------------------------
(* The inductive invariant behind PlaysExactBundle and MountedImageKept *)

\* The lock is exactly what it is taken for: the holder is the one run between
\* its start and its end.
LockIsHeld == \A l \in Launchers : Active(l) <=> lock = l

\* Where the clock session is when the run is at each step; a free lock means
\* that no session is open.
ClocksFit ==
  /\ lock = Free => phase = "off"
  /\ \A l \in Launchers :
       /\ pc[l] \in {"exe", "mktemp", "patcher", "bindexe", "legacy", "bind", "verify",
                     "unmount", "rmtemp"} => phase = "off"
       /\ pc[l] = "clock" => phase \in {"save", "check", "cap"}
       /\ pc[l] \in PlayingSteps \cup {"waited"} => phase = "held"

\* On an unpatched route the installed image stays exposed once it is: nothing
\* later binds over it, and no manifest would notice.
ImageExposed ==
  \A l \in Launchers :
    /\ pc[l] = "exe" => queue[l] = <<Exe>> \/ (queue[l] = <<>> /\ mounts[Exe] = <<>>)
    /\ pc[l] \in {"mktemp", "patcher", "bindexe"} => route[l] \in Patched
    /\ pc[l] = "bind" => queue[l] \in Seq(Targets \ {Exe})
    /\ route[l] \notin Patched /\ pc[l] \in {"legacy", "bind", "verify", "clock"} \cup PlayingSteps
         => mounts[Exe] = <<>>

\* What was verified stays mounted.
BundleShown ==
  \A l \in Launchers :
    pc[l] \in {"clock"} \cup PlayingSteps => IdentityMatches(l)

\* Only the game image is ever a temporary file, which exists from before it is
\* mounted.
ImageBacked ==
  /\ MountedImageKept
  /\ \A t \in Targets \ {Exe} : \A i \in DOMAIN mounts[t] : mounts[t][i].backing = Free
  /\ \A l \in Launchers : pc[l] \in {"patcher", "bindexe"} => temp[l]

\* What a live run relies on while other runs, dead ones included, have left
\* mounts and processes behind: it alone acts between its start and its end
\* (flock, lines 261-265), its clock session is its own, and what it verified
\* (mgs2_verify_identity) is still what the game would open.
LauncherInv ==
  TypeOK /\ ClockInv /\ LockIsHeld /\ ClocksFit /\ ImageExposed /\ BundleShown /\ ImageBacked

-----------------------------------------------------------------------------
(* The cleanup and the abstract protocol *)

\* A cleanup that reports no failure leaves nothing of the run behind: no mount on
\* any target (but on a DXVK target an earlier, killed run may have left one, if this
\* run was refused before it named these), none of its own temporary files, no
\* controlled-clock session, and no desktop and no game of any run that had ever
\* opened a mounted Box86 (cleanup_failed).  What it may miss is a child that had not
\* executed Box86 when the mounts went; of its own, such a child is signalled unless
\* a signal came between "command &" and PID=$!.
CleanExit ==
  [][\A l \in Launchers :
       pc[l] = "rmtemp" /\ pc'[l] = "exited" /\ ~cleanupFailed[l] =>
         /\ \A t \in Targets :
              mounts'[t] = <<>> \/ (t \in LateTargets /\ ~dxvkNamed[l])
         /\ \A m \in Launchers, k \in {"explorer", "game"} :
              proc'[m][k] \in {"none", "gone"} \/
                /\ Box \notin pins'[m][k]
                /\ m = l => proc'[m][k] = "dying" \/ k \notin pids[l]
         /\ ~temp'[l]
         /\ phase' = "off"]_vars

\* The inductive invariant behind CleanExit.  A process holds only what is
\* mounted, and nothing that is held is unmounted.
PinsAreMounted ==
  \A l \in Launchers, k \in Kinds : \A t \in pins[l][k] : mounts[t] # <<>>

Queued(l, t) == \E i \in DOMAIN queue[l] : queue[l][i] = t

\* A run has bound Box86 before it starts a process ...
BoxIsBound ==
  \A l \in Launchers :
    /\ pc[l] = "bind" => Queued(l, Box) \/ mounts[Box] # <<>>
    /\ pc[l] \in {"verify", "clock"} \cup PlayingSteps => mounts[Box] # <<>>

\* ... so that until its own volley a run's desktop and game, which nobody else
\* signals, hold that mount as soon as they have executed Box86 ...
OwnProcessesHoldBox ==
  \A l \in Launchers, k \in {"explorer", "game"} :
    pc[l] \in TrappedSteps \cup {"idle", "kill"} /\ proc[l][k] # "none" =>
      /\ pc[l] \in PlayingSteps \cup {"waited", "kill"}
      /\ mounts[Box] # <<>>
      /\ proc[l][k] # "dying"
      /\ proc[l][k] \in {"new", "named"} => Box \in pins[l][k]

\* ... and after it none that the run has recorded lives unsignalled.
RecordedAreSignalled ==
  \A l \in Launchers, k \in {"explorer", "game"} :
    pc[l] \in CleanupSteps \ {"kill"} /\ k \in pids[l] /\ Running(l, k) =>
      proc[l][k] = "dying"

\* Cleared(l, t): nothing is mounted on t, or the run never named it.
Cleared(l, t) == mounts[t] = <<>> \/ (t \in LateTargets /\ ~dxvkNamed[l])

\* What the loop of the cleanup has passed without a failure is clear.
PassedAreCleared ==
  \A l \in Launchers :
    ~cleanupFailed[l] =>
      /\ pc[l] = "unmount" => \A t \in Targets : Queued(l, t) \/ Cleared(l, t)
      /\ pc[l] = "rmtemp" => \A t \in Targets : Cleared(l, t)

TeardownInv ==
  PinsAreMounted /\ BoxIsBound /\ OwnProcessesHoldBox /\ RecordedAreSignalled /\ PassedAreCleared

\* What a live run relies on, and what its cleanup relies on: a process that held
\* Box86 and survives the volley of kill, killall and pkill (lines 586-598) shows in
\* the mounts the cleanup cannot remove, so that cleanup_failed tells of it.
EngineInv == LauncherInv /\ TeardownInv

\* The cleanup ends, even if a killed process never releases its mounts.
CleanupEnds ==
  \A l \in Launchers : pc[l] \in CleanupSteps ~> pc[l] \in {"exited", "dead"}

\* The engine follows the controlled-clock protocol (ClockBaseline): no signal,
\* refusal or crash of a run makes a step the protocol does not have.
ImplementsClockProtocol == ClockSpec

\* "Run exactly one game instance" (README.md), "refusing a second instance".
OneGame ==
  \A l, m \in Launchers :
    proc[l]["game"] = "named" /\ proc[m]["game"] = "named" => l = m

=============================================================================
