--------------------------- MODULE ClockBaseline ---------------------------
(***************************************************************************)
(* The controlled-clock protocol of the launcher engine                    *)
(* (src/device/launch-play-dxvk-fp17.sh).  Before a game starts the engine *)
(* saves the CPU/GPU settings of the device to a state file, writes its    *)
(* own cap to every sysfs knob, and on the way out writes the saved        *)
(* settings back and removes the file.  It may be killed between any two   *)
(* of these steps, the device may lose power, a sysfs write may fail or be *)
(* clamped, and the file may have been damaged by hand.                    *)
(*                                                                         *)
(* One controlled-clock session is active at a time: the launcher takes    *)
(* its lock before it gets here (module Launcher composes the two).        *)
(***************************************************************************)
EXTENDS Naturals

CONSTANTS
  Knobs,        \* the sysfs files the engine writes: governors and caps
  Settings,     \* the values a knob can hold
  Cap,          \* the controlled setting of each knob
  CapRank,      \* the position of each knob in set_final_cpu_cap
  RestoreRank,  \* the position of each knob in restore_cpu_state
  MaxBoots      \* bound: reboots explored

ASSUME ClockAssumption ==
  /\ Cap \in [Knobs -> Settings]
  /\ CapRank \in [Knobs -> Nat]
  /\ RestoreRank \in [Knobs -> Nat]
  /\ MaxBoots \in Nat

VARIABLES
  knobs,      \* what each knob holds
  orig,       \* history: what the user's knobs held before a session changed them
  boot,       \* the kernel's boot id
  stateFile,  \* CPU_STATE_FILE
  phase,      \* where the session is
  ready,      \* CPU_STATE_READY
  saved,      \* SAVED_GOV, SAVED_MAX and SAVED_GPU_GOV
  todo,       \* the knobs the current loop has not written
  failed      \* the loop's "failed" flag

clockVars == <<knobs, orig, boot, stateFile, phase, ready, saved, todo, failed>>

-----------------------------------------------------------------------------
KnobValues == [Knobs -> Settings]

NoFile == [kind |-> "none"]

\* A file load_cpu_state accepts when the boot id is the current one.
BaselineFile(b, s) == [kind |-> "baseline", boot |-> b, saved |-> s]

\* A file that still carries its boot line and fails validation.
DamagedFile(b) == [kind |-> "damaged", boot |-> b]

FileStates ==
  {NoFile} \cup [kind : {"baseline"}, boot : Nat, saved : KnobValues]
           \cup [kind : {"damaged"}, boot : Nat]

FileExists == stateFile.kind # "none"
SameBootFile == FileExists /\ stateFile.boot = boot
ValidFile == stateFile.kind = "baseline" /\ stateFile.boot = boot

Phases == {"off", "save", "check", "cap", "held", "restore"}

\* The first knobs of a loop that writes them in the order of rank.
NextIn(rank) == {k \in todo : \A j \in todo : rank[k] <= rank[j]}

ClockInit ==
  /\ knobs \in KnobValues
  /\ orig = knobs
  /\ boot = 0
  /\ stateFile = NoFile
  /\ phase = "off"
  /\ ready = FALSE
  /\ saved = knobs
  /\ todo = {}
  /\ failed = FALSE

-----------------------------------------------------------------------------
(* save_cpu_state and load_cpu_state *)

\* The engine reaches save_cpu_state.
ClockEnter ==
  /\ phase = "off"
  /\ phase' = "save"
  /\ UNCHANGED <<knobs, orig, boot, stateFile, ready, saved, todo, failed>>

\* restore_cpu_state: nothing to do unless a baseline was loaded.
StartRestore ==
  /\ phase' = IF ready THEN "restore" ELSE "off"
  /\ todo' = IF ready THEN Knobs ELSE {}
  /\ failed' = FALSE
  /\ UNCHANGED <<knobs, orig, boot, stateFile, ready, saved>>

\* load_cpu_state accepts the file: an earlier session's or the one just saved.
ClockLoad ==
  /\ phase \in {"save", "check"}
  /\ ValidFile
  /\ saved' = stateFile.saved
  /\ ready' = TRUE
  /\ phase' = "cap"
  /\ todo' = Knobs
  /\ failed' = FALSE
  /\ UNCHANGED <<knobs, orig, boot, stateFile>>

\* A file of this boot that does not validate is kept and the launch refused.
ClockRefuseDamaged ==
  /\ phase = "save"
  /\ SameBootFile /\ ~ValidFile
  /\ StartRestore

\* Mutant: any file that does not validate counts as stale.
ClockDropStale_AnyInvalid ==
  /\ phase = "save"
  /\ FileExists /\ ~ValidFile
  /\ stateFile' = NoFile
  /\ UNCHANGED <<knobs, orig, boot, phase, ready, saved, todo, failed>>

\* A file of an earlier boot is removed.
ClockDropStale ==
  /\ phase = "save"
  /\ FileExists /\ ~SameBootFile
  /\ stateFile' = NoFile
  /\ UNCHANGED <<knobs, orig, boot, phase, ready, saved, todo, failed>>

\* The current settings are written to a temporary file and renamed in one
\* step; a session killed before the rename has saved nothing.
ClockPersist ==
  /\ phase = "save"
  /\ ~FileExists
  /\ stateFile' = BaselineFile(boot, knobs)
  /\ phase' = "check"
  /\ UNCHANGED <<knobs, orig, boot, ready, saved, todo, failed>>

\* The boot id is unreadable, the stale file cannot be removed, or a read, the
\* temporary file or the rename failed.
ClockSaveFails ==
  /\ phase = "save"
  /\ StartRestore

\* The renamed file does not read back as a baseline: it is removed.
ClockCheckFails ==
  /\ phase = "check"
  /\ stateFile' = NoFile
  /\ phase' = "off"
  /\ UNCHANGED <<knobs, orig, boot, ready, saved, todo, failed>>

-----------------------------------------------------------------------------
(* set_final_cpu_cap and restore_cpu_state *)

\* Mutant: the last write of a loop decides, whatever failed before it.
WriteExact_LastOnly(k, want, v, err) ==
  /\ err => v = knobs[k]
  /\ knobs' = [knobs EXCEPT ![k] = v]
  /\ failed' = (err \/ v # want)

\* write_sysfs_exact of want to k: the write is refused (err), or the kernel
\* stores v, and anything but an exact readback is a failure.
WriteExact(k, want, v, err) ==
  /\ err => v = knobs[k]
  /\ knobs' = [knobs EXCEPT ![k] = v]
  /\ failed' = (failed \/ err \/ v # want)

ClockCapWrite(k, v, err) ==
  /\ phase = "cap"
  /\ k \in NextIn(CapRank)
  /\ WriteExact(k, Cap[k], v, err)
  /\ todo' = todo \ {k}
  /\ UNCHANGED <<orig, boot, stateFile, phase, ready, saved>>

ClockCapped ==
  /\ phase = "cap"
  /\ todo = {} /\ ~failed
  /\ phase' = "held"
  /\ UNCHANGED <<knobs, orig, boot, stateFile, ready, saved, todo, failed>>

ClockCapRefused ==
  /\ phase = "cap"
  /\ todo = {} /\ failed
  /\ StartRestore

\* The session ends: the game exited, or a signal ran the cleanup.
ClockLeave ==
  /\ phase \in {"save", "check", "cap", "held"}
  /\ StartRestore

ClockRestoreWrite(k, v, err) ==
  /\ phase = "restore"
  /\ k \in NextIn(RestoreRank)
  /\ WriteExact(k, saved[k], v, err)
  /\ todo' = todo \ {k}
  /\ UNCHANGED <<orig, boot, stateFile, phase, ready, saved>>

\* Mutant: a restore waits for every write to have succeeded.
ClockRestored_Insists(removed) ==
  /\ phase = "restore"
  /\ todo = {} /\ ~failed
  /\ stateFile' = IF removed THEN NoFile ELSE stateFile
  /\ phase' = "off"
  /\ ready' = FALSE
  /\ UNCHANGED <<knobs, orig, boot, saved, todo, failed>>

\* Only a restore whose every write read back exactly removes the file.
ClockRestored(removed) ==
  /\ phase = "restore"
  /\ todo = {}
  /\ stateFile' = IF removed THEN NoFile ELSE stateFile
  /\ removed => ~failed
  /\ phase' = "off"
  /\ ready' = FALSE /\ failed' = FALSE
  /\ UNCHANGED <<knobs, orig, boot, saved, todo>>

-----------------------------------------------------------------------------
(* The environment *)

\* SIGKILL, or a second TERM inside the cleanup: the shell's variables vanish.
ClockKill ==
  /\ phase # "off"
  /\ phase' = "off"
  /\ ready' = FALSE /\ failed' = FALSE
  /\ todo' = {}
  /\ UNCHANGED <<knobs, orig, boot, stateFile, saved>>

\* Power loss: sysfs comes back with the settings of the new boot; /tmp
\* normally does not survive, and the boot line guards the case that it does.
ClockReboot(k, f) ==
  /\ boot < MaxBoots
  /\ boot' = boot + 1
  /\ knobs' = k
  /\ orig' = k
  /\ f \in {NoFile, stateFile}
  /\ stateFile' = f
  /\ phase' = "off"
  /\ ready' = FALSE /\ failed' = FALSE
  /\ todo' = {}
  /\ UNCHANGED saved

\* Another program tunes the knobs: with no session's file outstanding these
\* are the user's own settings.
ClockTune(k) ==
  /\ phase \in {"off", "held"}
  /\ knobs' = k
  /\ orig' = IF phase = "off" /\ ~SameBootFile THEN k ELSE orig
  /\ UNCHANGED <<boot, stateFile, phase, ready, saved, todo, failed>>

\* The file is edited by hand between sessions.
ClockDamage ==
  /\ phase = "off"
  /\ stateFile.kind = "baseline"
  /\ stateFile' = DamagedFile(stateFile.boot)
  /\ UNCHANGED <<knobs, orig, boot, phase, ready, saved, todo, failed>>

-----------------------------------------------------------------------------
\* What the shell does on its own, without waiting for the game or a signal.
ClockProgress ==
  \/ ClockLoad \/ ClockRefuseDamaged \/ ClockDropStale
  \/ ClockPersist \/ ClockSaveFails \/ ClockCheckFails
  \/ \E k \in Knobs, v \in Settings, err \in BOOLEAN :
       ClockCapWrite(k, v, err) \/ ClockRestoreWrite(k, v, err)
  \/ ClockCapped \/ ClockCapRefused
  \/ \E removed \in BOOLEAN : ClockRestored(removed)

ClockEnvironment ==
  \/ ClockKill \/ ClockDamage
  \/ \E k \in KnobValues, f \in {NoFile, stateFile} : ClockReboot(k, f)
  \/ \E k \in KnobValues : ClockTune(k)

ClockNext == ClockEnter \/ ClockLeave \/ ClockProgress \/ ClockEnvironment

ClockSpec == ClockInit /\ [][ClockNext]_clockVars

\* A shell that can run its next command runs it; nothing makes a game exit.
ClockFairSpec == ClockSpec /\ WF_clockVars(ClockProgress)

-----------------------------------------------------------------------------
(* Properties *)

\* Every variable holds a value of its type; the sets are those of the state
\* lines 405-411 and of the loops that use them.
ClockTypeOK ==
  /\ knobs \in KnobValues /\ orig \in KnobValues /\ saved \in KnobValues
  /\ boot \in Nat
  /\ stateFile \in FileStates
  /\ phase \in Phases
  /\ ready \in BOOLEAN /\ failed \in BOOLEAN
  /\ todo \subseteq Knobs

\* The user's settings are never lost.  Whenever a knob differs from what the
\* user had set, a state file of this boot exists, and one that validates
\* records exactly the user's settings: no sequence of kills, failed or clamped
\* writes, refused launches and reboots makes a session adopt the controlled
\* clocks as the baseline (save_cpu_state, restore_cpu_state).
ClockRecoverable ==
  /\ knobs # orig => SameBootFile
  /\ ValidFile => stateFile.saved = orig

\* The inductive strengthening of ClockRecoverable: what the session knows in
\* each phase.  A loaded baseline is the file's, a file just saved describes
\* untouched knobs, and a loop without failure has made every knob it wrote
\* hold the value it wanted; no file names a boot that has not happened.
ClockInv ==
  /\ ClockTypeOK
  /\ ClockRecoverable
  /\ FileExists => stateFile.boot <= boot
  /\ ready <=> phase \in {"cap", "held", "restore"}
  /\ ready => ValidFile /\ saved = stateFile.saved
  /\ phase = "check" => ValidFile /\ knobs = orig
  /\ phase = "cap" /\ ~failed => \A k \in Knobs \ todo : knobs[k] = Cap[k]
  /\ phase = "restore" /\ ~failed => \A k \in Knobs \ todo : knobs[k] = saved[k]

\* A session goes on to the game only with every knob at its controlled
\* setting: one failed or clamped write among several refuses the launch even
\* when the writes after it succeed (set_final_cpu_cap).
HeldIsCapped ==
  [][phase # "held" /\ phase' = "held" => knobs' = Cap]_clockVars

\* A session never stops half-way on its own: saving, capping and restoring all
\* end, in the game or in the end of the session.
ClockSettles == phase \notin {"off", "held"} ~> phase \in {"off", "held"}

=============================================================================
