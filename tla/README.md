# Verification of the MGS2 RG353VS port

The repository (`src/`) is a compatibility port: a Windows game runs under Wine,
Wine runs under Box86 on a 32-bit ARM userland, and a set of exact binaries is
bound over the system's files for the duration of one game.  What is *written
here* (and not upstream Wine, Box86, DXVK or gptokeyb) is a shell engine that
builds and undoes that environment, patches that add threads, locks, rings and
recovery paths to the upstream programs, and a large set of tools that watch the
running game from outside, or decide from its binaries what may be replaced.
This directory holds TLA+ modules of those parts, TLC configurations that check
them on small instances, and proofs that TLAPS checks.

    tlc -workers 2 -config Launcher.cfg MCLauncher      # one run
    tlapm LauncherProofs.tla                            # one module of proofs

Contents: 1 the system, 2 the modules and the code, 3 the runs, 4 the proofs,
5 the finding and the observations, 6 what is not modelled, 7 the plan.

## 1. The system

Five kinds of program act on each other.  The **launcher engine** starts and ends
the game and owns the lock, the mounts and the clocks.  The **patched libraries**
(dmsynth, wined3d, Box86) run inside the game, with the game's threads.  The
**recorders** are memory they write and never read: counters, rings and tables,
published word by word.  The **readers** under `harness/` copy that memory out of
`/proc/PID/mem` while the game goes on, or poll `/proc`, and reduce what they saw to
a verdict.  The **island tools** under `harness/island` read the linked guest DLL, its
source and its debug information, and decide which functions may run natively.

| part | state it keeps | what is hard | correct when |
|---|---|---|---|
| Launcher engine (1.1) | lock, mounts, children, traps | a kill or signal between any two commands; children outlive the shell | a run plays exactly its bundle; a clean exit leaves nothing; the cleanup ends |
| Controlled clocks (1.2) | sysfs knobs, state file | kills, reboots, clamped writes, stale files | the user's settings are never lost; the game starts capped |
| dmsynth sink (1.3) | two workers, the transport, the sample map | waits that time out, re-arms, a rebase between map and queue | both calls return; every reference has an owner; the transport heals; notes keep their time |
| Present semaphore (1.4) | tokens, limit, counters | early returns, raised limits, a census that reads word by word | no token is lost or invented; the census never shows more than the limit |
| First-use mutexes, listener slots (1.5) | guest words, a table; slots | double-checked publication, a dispatcher that sees stores late | one native mutex per mutex; an event reaches its own table |
| Recorders and their readers (1.6) | rings, tables, counters | torn, lapped and stale copies; restarts; wrap | a copy is whole; a difference is of its window; a comparison is about the arms |
| Samplers (1.7) | a clock, a history, the rows | a late poll, a slow probe, a process that ends while it is read | rows tile the time and do not drift; gaps are real |
| Freeze tools (1.8) | samples of threads that go on | a verdict from words of different moments | a named culprit is one; a stall is caught |
| Autoload (1.8) | a place in the menus, keys on their way | keys lost or late, pictures that show too little | the save that is measured is the chosen one |
| Island audits (1.9) | a closure, layouts, a table, markers | the compiler moves, clones and drops functions | the closure is complete and least; layouts and addresses agree |

### 1.1 Launcher engine: lock, mounts, identity, processes, cleanup

`device/launch-play-dxvk-fp17.sh`, entered by `device/launch-play.sh` and the
per-route wrappers (`launch-play-dxvk-fp18.sh` ... `fp25.sh`).  It holds the lock
`/tmp/mgs2-substance.lock` (descriptor 9), bind mounts on 15 paths, one temporary
patched game image and up to three child processes.  Its operations: take the lock
(261-265), expose or build the game image (`prepare_game_exe`, 643-705), clear the
legacy renderer targets (784-792), bind the route's files (`mount_bind`, 365-384,
calls 793-922), verify the hash of every live path (`mgs2_verify_identity`,
936-977), save and cap the clocks (979-980), start the Wine desktop, the input
helper and the game, wait, and clean up (`cleanup`, 580-629) from the EXIT trap or a
signal trap (631-641).

### 1.2 Launcher engine: controlled clocks

`save_cpu_state`, `load_cpu_state`, `set_final_cpu_cap`, `restore_cpu_state`
(401-576) and `/tmp/mgs2-cpu-state` (boot id and saved settings, renamed into place).

### 1.3 dmsynth synth sink

Patches 60, 83 and 85.  An activation starts a timing thread (publishes the play
position, wakes on notifications or a 250 ms watchdog, re-arms a stopped, lost or
stalled transport) and a render thread (renders, writes, retries a lost buffer,
and re-anchors the sample timeline when it finds the marker a re-arm left).  The game
queues notes meanwhile, each mapped to a sample position when it is queued.

### 1.4 wined3d: present semaphore, command stream

Patch 80 replaces a polled counter by a semaphore shared by presenting threads and
the command-stream thread; `gl_census_delta.py` (PSW2) reads its public counters.
Patch 52 counts the synchronisation events of the command stream, of which
`cs_deadlock_census.py` reads a verdict about a frozen game.  Patches 37-39 publish
censuses of submissions, breaks and waits once per present.

### 1.5 Box86: mutexes, listeners, witnesses

Patch 03 publishes a native mutex at the first use of a guest one.  Patches 17, 23
and 24 give each guest table of Wayland callbacks one of a few sets of native stubs.
Patch 02 counts memmoves per caller and records every translated block; patches 20
and 27 publish flags about the native DXT conversion; the display-lock history is a
ring of lock events.

### 1.6 Readers of recorders

`reinforcement_{submit,break,wait}_census.py`, `dmsynth_state.py`, `dmime_state.py`,
`dmsynth_sinkprobe.py`, `box86_memmove_stats.py`, `box86_guest_snapshot.py` and its two
resolvers, `box86_dxt_stats.py`, `display_lock_history.py`, `gl_census_delta.py`,
`present_ab_read.py`, `island_ab_read.py`.  None stops the game.

### 1.7 Samplers

`dxvk_gap_trigger_capture.py`, `dxvk_present_count.py` with its two analyses,
`device_pressure_count.py`, `frame_limit_probe.py`, `stall_probe.py`, `stall_watch3.py`.

### 1.8 Freeze tools and the route to a scene

`stall_watch4.py`, `freeze_capture.py`, `cs_deadlock_census.py`; `autoload_save.py` drives
the game from the title screen into one save through an injected keyboard and checks
screenshots.

### 1.9 Native island

Four reachability audits (`island_reach.py`, `island_gl_reach.py`,
`island_icall_audit.py`, `island_mutable_state_audit.py`) and the two source readers
they share; the entry identities (`gen_entry_identity.py`, `island_marker_check.py`,
`getAlternate` in Box86); the class-B table (`gen_class_b_table.py`,
`build_island_objects.sh`, `island_native_compiler_audit.py`);
`island_abi_closure_audit.py`; `audit_listener_abi.py`.

### 1.10 Others

The dmabuf presenter and caches, dmime's transitions, the DXVK state cache and trace
ring, gptokeyb's kill chord, the EGL facade, the older launchers, the release and
profile scripts.  `PROJECT.json` lists each with its status and reason.

## 2. The modules and the code

| module | models |
|---|---|
| `ClockBaseline` | 1.2, an action per command or per sysfs write |
| `Launcher` | 1.1, EXTENDS `ClockBaseline`; an action per command that changes shared state |
| `SynthSink`, `SinkContract` | 1.3: the calls, both workers, the transport; what a caller is promised |
| `SynthTimeline` | 1.3: the transport's clock, the sample map, its rebase, the queued notes |
| `PresentLatency` | 1.4, the semaphore and the census of it |
| `CsDeadlock` | 1.4, the handshake of the command stream, its notes, and the verdict |
| `SeqlockCensus` | 1.4, the publication of patches 37-39 and the snapshot readers |
| `MutexFirstUse`, `ListenerSlots`, `DisplayLock` | 1.5, with the reader of the lock history |
| `MemmoveCensus`, `GuestBlocks`, `DxtWitness` | 1.5, each with its reader |
| `StateRecorder`, `SinkProbe` | 1.6, the recorders of dmsynth and dmime with their readers |
| `GlCensus`, `GroupCost`, `PresentAb`, `IslandAb` | 1.6, counters, and comparisons of two arms |
| `GapCapture`, `PresentGaps`, `PressureSampler`, `FrameLimit`, `StallProbe`, `StallWindow` | 1.7 |
| `StallWatch`, `FreezeCapture`, `Autoload` | 1.8 |
| `LinkReach`, `SourceScan`, `IslandIdentity`, `NativeTable`, `AbiClosure`, `ListenerAbi` | 1.9 |
| `MCClockBaseline`, `MCLauncher`, `MCTools` | instances for TLC; `SynthSink` is checked as it is |
| `...Proofs` | theorems of the module they are named after; `LauncherProofs` also those of `ClockBaseline` |

### 2.1 ClockBaseline

`knobs` is sysfs; `stateFile` the file (none, a baseline, or one with a boot line
that does not validate); `ready`, `saved`, `failed` and `todo` are the shell's
`CPU_STATE_READY`, `SAVED_*`, `failed` and the position in the list of writes.
`orig` is a history variable: what the user had set.  `phase` says which function
runs.  Ranks give the order of the writes (policy maxima, governors, GPU).

`WriteExact` is `write_sysfs_exact`: the write may be refused or the kernel may
store another value; only an exact readback is a success.  The temporary file and
`mv` are one step because a session killed before the rename has saved nothing
that anybody reads.  `ClockReboot` chooses whether `/tmp` survives: the boot line
is there for the case that it does.  `ClockTune` is another program writing the
knobs; with a state file of this boot outstanding the engine cannot tell that from
its own cap, and the user's settings are those in the file.

### 2.2 Launcher

One run of the shell per element of `Launchers`, each started at most once:
re-running is another element.  `pc` is the position of the shell; `queue` the
targets the current loop has not finished; `tries` the attempts of `unmount_all`;
the rest of `runVars` are shell variables of the same name.  `mounts` is the stack
of bind mounts on each path, each with its content and the temporary file that
backs it; `proc`, `pids` and `pins` are the children, the `*_PID` variables and the
mounts a child holds open.

* `unmount_all` is the five `Unmount...` actions, used by three loops
  (`UnmountSteps`): a top mount goes unless busy; a busy one is retried, then
  given up, which refuses the launch (game image), is ignored (legacy loop, its
  result is not checked) or is recorded (`cleanup_failed`).
* `mount_bind` is `BindAccept` (equal bytes: kept, whoever made it), `BindReplace`
  (unmounted, looping), `BindMount`, `BindFails`.  The source is the file the
  manifest pins or another build (`Foreign`); only the identity check tells.
* `Pinned(l)`: an unpatched route's manifest does not list the game image
  (`FINALPLAY17_DXVK_FREEZE.manifest`); that this image is the installed one
  follows from `unmount_all` at the start, and the invariant `ImageExposed` shows it.
* `Fork`, `RecordPid` and `Exec` are three actions: `command &`, `PID=$!`, and the
  child's own `exec`.  Between its start and its `exec` the child is a subshell
  (`"forked"`): no Box86 mount, the script's own command line, and nothing makes it
  execute before the run goes on, ends or is killed.  `Exec` opens whatever is then
  visible on Box86's path: the bundle's, or the installed one when a cleanup has
  unmounted it.  The subshell's copy of the lock, which it closes first (`9>&-`), is
  left out: a killed run's lock may be free a moment too soon, which only adds
  behaviours.
* `SignalAll` is the whole volley of lines 586-590.  A subshell, and a desktop that
  Wine has not renamed yet (`"new"`), do not match `killall` or `pkill` and are reached
  by their PID only; the game's subshell may or may not be `taskset` by now, whose
  arguments name the game (line 1047).  Game and helper carry the image's name on their
  command line and match `pkill -f` from their `exec` on.  A killed process that holds a
  mount is `"dying"`, holding it, until `Ends`, which may never come; one that holds
  none is of no further consequence and gone at once.  `Drained` is the bounded wait
  of lines 593-598.
* `Killed` is SIGKILL, or a second signal once `cleanup` has reset the traps.  A
  signal between `CLEANUP_ACTIVE=1` and `trap -` ends the shell without a cleanup
  and is the same transition.  `Terminated` is HUP, INT or TERM before that, and
  also any failing command that exits (the `cd` of line 982).
* `StartRefused` is another holder of the lock, or a refusal before it: no trap is
  armed yet.
* `Reboot`: mounts and processes go; `/tmp` normally does too.
* The clock session's actions are those of `ClockBaseline`, called where the
  script calls them; there is one session because there is one lock.

Left out: the route selector, exported tuning variables, logging, the
oga_events restart, the wrappers' checks of their own files before `exec`.

### 2.3 SynthSink

`app` is where the application thread stands in `synth_sink_activate` or
`synth_sink_deactivate` (one thread: the callers of a sink are serialised by the
game); `pc` where each worker stands, `"none"` for a NULL handle; `startup` a
worker's `started_event` and `startup_hr`; `stop` the two stop events, which are
auto-reset (`CreateEventW(NULL, FALSE, FALSE, NULL)`): the wait that sees one
consumes it.  `refs` counts the references an activation takes on the buffer and
the synth.  The transport is `playing`, `lost`, `frozen` and `device`; `seen` says
whether `last_play_pos` is the position the transport is at, `ticks` is
`watchdog_ticks`, `notified` the notification event.

* The steps are those between which the code waits or calls the transport; the
  straight-line code in between is part of them.  `NoRenderThread` takes the synth's
  reference and gives it back, so it leaves `refs` alone.
* `sink_watchdog_recover` is the actions from `StatusIsFine` to `PlayFails`, run by
  either worker; `Rearmed` is its caller after a success.  A failed Restore or Play
  is not fatal (`Recovered`).
* `TimingTimesOut` is a wait of 250 ms without a notification.  The transport moves
  in that time if it can, so it has moved (`~seen`) when it is advancing.
* `PlaySucceeds` without a device gives a transport that says it plays and does not
  advance, the case patch 60 was written for; `Disturbed` gives it too.
* The buffer may be one the application passed in: neither its first state nor
  what stops it is the sink's.  Its status query is taken to succeed (a failing
  one is treated by the code as a lost buffer).
* `IDirectSoundBuffer_Stop` is taken to succeed.  One that fails in the recovery is
  returned by it as a failing `Play` is (patch 60:169, `PlayFails`); one that fails at a
  worker's exit is only logged and would leave the buffer sounding, so `QuietWhenOff` is
  said of a `Stop` that works.
* `SetupFails` before the first pass; `TimingBreaks` and `RenderBreaks` afterwards,
  only with `MayFail`.
* `SinkContract` sees the sink as off, starting, on or stopping and each worker as
  none, starting, serving, failed or ended; `SinkState` and `WorkerState` are the
  refinement mapping.

Left out: `play_pos`, `written`, the write lead and the rebase that a re-arm asks
for (`timeline_rebase_pending`), which are `SynthTimeline`'s.  The watchdog is taken as enabled (`SINK_WATCHDOG_MS` and `STALL` not 0).

### 2.4 Patches that synchronise threads

* `PresentLatency`: `at` counts the threads at each place of
  `wined3d_swapchain_present()`, which have no identity; `cs` is the command-stream
  thread; `tokens` the semaphore; `acquires` and `releases` the public counters, which
  are bumped beside it and not with it.  `NoBackBuffers` is the early return;
  `SetLatency` hands out tokens when the limit is raised and takes none back.
  `ReadAcquires` and `ReadReleases` are the two reads of the census.
* `MutexFirstUse`: `sign`, `self` and `mem` are the guest words of a mutex.  The
  words are tested without the table's lock, then under it; the signature is stored
  last.  `Guest`, `Renew` and `Copy` are the guest program, which keeps POSIX's rules:
  nobody destroys or initialises a mutex in use, a copy is used before it is
  destroyed, and a thread holds at most one of the instance's mutexes.
* `ListenerSlots`: `ref` is the registry as the threads that add listeners see it,
  `view` as the dispatcher does; `Settle` is one store becoming visible, and leaving
  the mutex settles all.  Only the stub the registry gave is ever installed (`impl`).
* `SynthTimeline`: a byte is a sample, and every conversion is the code's own: the rate
  (`Hz`) need not divide a second, `RefTimeToSample` cuts to steps of 100 us (`Coarse`)
  before it multiplies and again after it (patch 85:427), `SampleTime`, the estimated
  play position, the shift (83:186) and the wait in milliseconds cut once each.
  `events` carry how many rebases they crossed, a history used by the properties.  The timing thread's marker, the render thread's
  resync, rebase and shift, and the player's map-then-queue are separate steps.  Left
  out: `sink->latency` and its time, the render thread's own re-arm after a lost buffer, and the
  32-bit end of `written`.

### 2.5 Recorders and their readers

Every reader here copies one word per step while the writers go on.

* `SeqlockCensus`: odd sequence, copy word by word, even sequence; the reader's two
  headers and bounded tries; two snapshots in two runs of the tool, with a restart of
  the game in between; the accounts the counters keep of a frame.  `history` is a
  history variable: the records of this process, in the order they were published.
* `StateRecorder`: claim a number, clear the slot, fill it, store the number last;
  both readers and the difference of two snapshots.  Interlocked operations order the
  plain stores around them, as patch 13's comment says.
* `SinkProbe`: the marker's compare-and-exchange, the record of a block in three
  stages, and the arming reader, which writes the game's memory.
* `DisplayLock`: tickets, a ring written without a lock, a two-pass reader, and the
  verdict that a thread asks again for what it holds.
* `CsDeadlock`: the submit/alert and announce/recheck/sleep handshake of two queues,
  the unlocked `++` of the ring's index (`Racy`), and a tool that samples the fields one
  by one and asks the kernel last.  A thread is in a handshake at most once per
  interval (`rested`): it takes microseconds, the interval is 200 ms.
* `MemmoveCensus`: open addressing with states free, busy, published; two copies.
* `GuestBlocks`: blocks come and go in native memory, records are only appended; a
  sample is resolved in the copy by the nearest record and by all that contain it.
* `DxtWitness`: one-way flags, the first fallback and mismatch, the comparison limit.
  The reader may see `first_bad_set` before the words it announces.
* `GlCensus`: two copies of the counters, found by their magic; samples, differences,
  rates and identities.  `GroupCost`, `PresentAb` and `IslandAb` compare two arms
  of a run whose scene drifts or jumps, the way the readers pair its blocks.

### 2.6 Samplers and freeze tools

Each has the clock as a variable; a tool may come `Late`; ghost variables remember
what the game really did.

* `GapCapture`: `before`, `first`, `last` and `missed` are the true presents; a probe
  takes time in which the count is not read.
* `PresentGaps`: the recorder's clock is taken before its count; rows are joined to
  gaps, and the waits of the census to gaps, as the two analyses do.
* `PressureSampler`: a snapshot is one step per file, and the process may end between
  them.  `FrameLimit`, `StallProbe` and `StallWindow` likewise, by iterations.
* `StallWatch`: waits for the game and its thread, then samples ticks and a log.
* `FreezeCapture`: two passes over files that are read one at a time, then a look at
  the futex word of each waiter; the threads go on unless nothing runs.
* `Autoload`: `game` is the game's real screen; keys are in `queue` until the game
  takes them; a picture shows the screen before or after, clear or not.  A picture
  that cannot be taken and a capture without its recorder end the process (`Raised`),
  and the locked pages with it.  Four bursts of walking, the fourth with a picture.

### 2.7 The native island

* `LinkReach`: one worklist, four tools (`audit`).  The compiler is nondeterminism in
  `Init`: which functions are emitted, cloned or inlined into callers, and which of the
  things a body mentions its code has only in a form no pattern matches (`missed`:
  `blne f`, `bne f`, `blxne r3`, `blx lr`, a literal the analyser cannot decode).  The
  source is what it is (`program`) and what the patterns over it read (`read`); the two
  may differ either way.  Functions of two files may have one name: the tools know the
  name, and the source reading keeps the body it met first.  `Pop` is the loop body;
  `ReachNext`, `GlNext` and `SourceNext` are the edges of each tool.  The tools do not
  claim a proof of absence and none is claimed for them: completeness is stated of what
  their patterns read (`CodeEdges`, `TextEdges`, `TextRefs`, `Readable`), and what is
  left out by that is in section 5.
* `SourceScan`: a file of C grows line by line, in the style of WineD3D, and both
  brace-counting readers follow; their extents are compared with the true ones.  A line
  that opens with a word and a parenthesis, as `__attribute__((...))` does, is taken as a
  candidate whose name has lost its first letter (`Clipped`).
* `IslandIdentity`: table, marker check, `getAlternate`'s scan, publication by
  compare and exchange, and the two witnesses that fix the module's base.
* `NativeTable`: the build script's steps, where it may stop, and the link of what
  is then on disk.  `AbiClosure`: a layout rule per compiler, the two DWARF dialects
  encoded from it, the decoders, the worklist and the classes.  `ListenerAbi`: the
  bridge's data as it may be written, the audit, and the events that follow.

### 2.8 MCTools

These components share no state with one another, so they are checked side by side:
`tool` names the component a behaviour is of, the registers `r1`, `r2`, ... hold its
variables in the order of its module and are `Off` where it has none.  A run's states
are those of its tools added up, never multiplied.  Two instances of a module answer
two questions with different bounds.  A suite property is a conjunction of the
properties of its tools, each guarded by `tool = ...`; `InstancesAreSound` has TLC
evaluate the assumption of each module on each instance.

## 3. The runs

| run | instance | checks |
|---|---|---|
| `clock_baseline` | 3 knobs, 2 settings, 1 reboot | `ClockRecoverable`, `HeldIsCapped`, liveness `ClockSettles` |
| `launcher_two_runs` | 2 runs, 2 routes, 3 targets, desktop and game, 1 knob | the engine against a second run, kills, signals; the inductive `EngineInv`; `CleanExit`; the refinement `ImplementsClockProtocol` |
| `launcher_one_run` | 1 run, 3 children, 5 targets, legacy loop, stacked mounts | liveness `CleanupEnds` |
| `launcher_one_game` | as `launcher_two_runs` | the finding of section 5 |
| `synth_sink` | 2 ticks, 3 disturbances, workers that do not fail for good | `QuietWhenOff`, liveness `TransportHeals` |
| `synth_sink_breaks` | the same, workers may fail anywhere | the inductive `SinkInv`, `RefsBalanced`, liveness `CallsReturn`, the contract |
| `tools_build` | `LinkReach`, `SourceScan`, `IslandIdentity`, `NativeTable`, `AbiClosure`, `ListenerAbi` | closures are least, and complete for what the patterns read; a safe entry runs no stub through it; extents, identities, tables, layouts and callbacks are what they seem |
| `tools_patches` | `PresentLatency`, `MutexFirstUse`, `ListenerSlots`, `SynthTimeline` | tokens, the census of them, mutual exclusion, private natives, dispatch, notes and rebase with the inductive `TimelineInv` |
| `tools_readers` | `GlCensus`, `GroupCost`, `PresentAb`, `IslandAb`, `SeqlockCensus`, `MemmoveCensus`, `GuestBlocks`, `StateRecorder`, `SinkProbe` | copies are whole, counts are of their window, comparisons are about the arms |
| `tools_samplers` | `GapCapture`, `PressureSampler`, `FrameLimit`, `StallProbe`, `StallWindow`, `PresentGaps` | gaps are real and none is missed; rows tile the time |
| `tools_freezes` | `CsDeadlock`, `DisplayLock`, `DxtWitness`, `FreezeCapture`, `StallWatch`, `Autoload` | what is said of a freeze is so and is said; the chosen save is measured |
| `tools_end` | `LinkReach`, `PresentLatency`, `ListenerSlots`, `Autoload`, `StallWatch`, `StallProbe` | liveness `ToolsEnd`, `NobodyWaitsForGood` |

### 3.1 Bounds

*Two runs of the launcher*: the lock admits one at a time; the interesting state is
what a dead one left, and a third adds nothing a second left-over does not
(leftovers of older launchers come with `StaleMounts`).  *Targets*: the game image,
Box86 (executed by every process), one DXVK target (named late), in the other
instance a renderer of the legacy loop and an audio module; the other paths behave
as one of these.  *MaxTries* 2 for 20 attempts: a first retry, and giving up; 1 with
two runs, where a retry that changes nothing only repeats the state.  *MaxBoots* 1: a
file of an earlier boot needs one; 0 with two runs of the engine, whose protocol over
reboots `clock_baseline` explores and whose invariants over them are proved.  *Three knobs*: a failure before,
between and after successes.  The input helper holds no mount and is left to the
one-run instance.  `CHECK_DEADLOCK FALSE` in the launcher's runs: when every run
has ended nothing is left to do; that no run gets stuck earlier is `CleanupEnds`.

*StallTicks* 2 for 4: a tick that counts and one that acts.  *MaxFaults* 3: a
second disturbance while the first is recovered, by either worker, and a third
after it.  Calls are not bounded: a sink is activated and deactivated again and
again, so what one activation leaves behind meets the next.

The instances of `MCTools` are as small as their question allows, and each is named
there with its constants.  Three threads or two writers where the hazard is a race
of two and a third that is elsewhere; two natives and two mutexes, so that a freed
native can be used again; rings of two or three slots, so that a writer laps another;
tables of two or three slots that fill; every program of five functions in which a
leaf is reached by a call, through an ops table, or not at all, with a leaf that has the
name of another, a text the patterns read short or long, and a call, an ops call, a
reference or a stub's call that the patterns miss; a sampling rate that does not divide
the second and steps of two units, with a grain of one and a half samples; time up to two or
three periods of a sampler beyond its first row, with a lateness of about half a
period, so that it is late once and catches up once.  Threads or writers that are
alike are symmetric in the two runs without liveness where that matters
(`ThreadsAlike`, `WritersAlike`).  `CHECK_DEADLOCK FALSE` in the tools' runs: a
tool ends, and a game out of its bounded steps has nothing left to do.

### 3.2 Fairness

*Launcher.*  Weak fairness of the shell's own next command, nothing else: no process
must exit, no wait of the kernel must end, no signal must come.  A busy mount may
stay busy forever, and `CleanupEnds` rests on the bounded retries alone.

*Sink.*  The threads run (the caller only inside a call; it need not call); a missing
endpoint returns; and a transport that plays, is not frozen and has its device
advances.  No notification has to arrive, no frozen transport has to thaw.

*Tools.*  `ScriptStep` is the tool's own next step (for the present semaphore the
step of a thread of wined3d inside a present, or of its command stream),
`GameAccepts` the game taking the next key of the input queue, `ThreadSteps` the next
step of a thread inside `add_listener`.  Nobody must begin a present, add a listener,
start the game or end it.

## 4. The proofs

`LauncherProofs` on `ClockBaseline`, for any knobs, settings, ranks and number of boots:
`ClockInvariant` proves the inductive invariant `ClockInv`; `ClocksAreRecoverable`
and `GameOnlyAtTheCap` follow.  `ClockRecoverable` alone is not inductive: that a
restore may remove the file needs "every knob already written holds its saved
value unless a write failed", and that a new baseline is the user's needs "the
knobs are untouched when no file of this boot exists".

`LauncherProofs` on `Launcher`, for any number of runs, routes, targets and attempts:

* `EngineFollowsProtocol`: every step of the engine is a step of `ClockBaseline`
  or leaves its variables alone (a refinement under the identity mapping, one case
  per action), hence `EngineKeepsClocksRecoverable`.
* `EngineTyping`, then `LauncherInvariant`: `LockIsHeld` (the holder is the one
  run between its start and its end), `ClocksFit` (which clock phase goes with
  which step), `ImageExposed`, `BundleShown` (what was verified stays mounted),
  `ImageBacked`.  `GameSeesItsBundle` needs all: the identity check is a single
  moment, and that its result lasts until the end of the game is that nobody else
  acts (the lock) and the run's own later steps touch no mount.
* `MountedImagesExist`, and the action property `LiveGameIsLeftAlone`: a process is
  only signalled by the run that holds the lock, and while a run waits for its
  game it is that run.
* `EngineInvariant` adds `TeardownInv` to that, which the cleanup rests on:
  `PinsAreMounted` (what a process holds is mounted, since nothing busy is
  unmounted), `BoxIsBound` (Box86 is bound before the first process starts),
  `OwnProcessesHoldBox` (until its own volley a run's desktop and game are signalled by
  nobody and, once they have executed Box86, hold its mount), `RecordedAreSignalled`
  (after it none of those whose PID it has recorded lives unsignalled) and
  `PassedAreCleared` (what the cleanup's loop has passed without recording a failure is
  clear).  The cleanup never looks whether its kill, killall and pkill worked;
  `CleanExitIsClean` says how far it can be believed all the same: whoever opened a
  mounted Box86 and lives keeps that mount busy, the attempts run out, and
  `cleanup_failed` is set, so that what survives a reported success has not executed
  Box86 before the mounts went, or runs on the installed one.  Such a survivor exists
  (section 5), and the theorem says which: of its own run, a child whose PID the shell
  had no time to record.  The invariant is not inductive without `LockIsHeld`: another
  run could mount what this one has passed, or signal what it has started.

`SynthSinkProofs`, for any number of ticks and disturbances, with and without
failing workers: `SinkInvariant` proves the inductive `SinkInv`, one lemma per
actor and one case per action.  Its parts: `CallStates` and `StatusStates` tie the
step of a call to the handles, stop events and statuses it relies on; `RefsBalanced`
gives each reference its owner; `TicksCounted` is what the bound on `ticks` needs;
and `EndsInOrder`, for workers that do not fail for good, is the argument for
silence: a started render thread always finds a timing thread that has not ended,
and that one's end stops the transport.  `ReferencesBalance`, `SinkTyping` and (for
`~MayFail`) `OffIsQuiet` follow.  `SinkKeepsContract` is the refinement of
`SinkContract`: each action is a start, report, end, join, success or stop of the
contract, or is invisible to the caller.

`LinkReachProofs`, for any set of functions, any sources, any programs with any reading
of their text, whatever the compiler emits, clones and inlines and whatever its code
mentions in a form no pattern matches: `Invariance` proves `IInv`, which is the type
invariant, `WorklistInv` (what is in the closure and no longer on the stack has its
edges in the closure), `BinaryInv` (what the linked binary calls exists in it), and
`ClosureIsLeast`.  `LeastClosure` says that the closure is contained in every set
that is closed; `SitesCovered`, `SlotsCovered` and `ObjectsCovered` that the icall, GL
and state audits list every site, slot and object they read in a function that the
text, as read, leads to; for the icall and state audits also where the compiler has
dissolved a function on the way into its callers and the binary has lost its name
(`TextFollowed`, `TracedClosed`), for the GL audit along functions that have a symbol.
`SafeEntries`: an entry the reach audit calls safe runs no abort stub through copies and
calls that the disassembly patterns match.  What the conditions exclude really happens
in the model: with exact edges in their place TLC finds the properties violated.

`PresentLatencyProofs`, for any number of threads, limits, presents and changes:
`LatencyInvariant` proves `TokensConserved` (tokens, threads that hold one, queued
presents and the one in execution add up to the highest limit), `CountersAgree`
(the public counters are off by exactly the threads between a token and its count)
and `CensusInv`.  `TokensAreConserved`, `CountersDoAgree` and `CensusIsModest` follow; the
last needs the half-read census as part of the invariant: releases only grow, so what
was read first may be compared with what will be read next.

`MutexFirstUseProofs`, for any number of threads, mutexes and natives: `SpecInv`
proves `FirstUseInv`, one lemma per action.  Its core is that a published mutex
names a native that is taken, is its own (two mutexes never name one native) and is
not given back while a thread is between the test of the words and the lock.
`SpecMutualExclusion`, `SpecUnlockIsOfTheLocked` and `SpecNativesAreNotShared` follow.

`ListenerSlotsProofs`, for any number of threads, proxies, tables and slots:
`SlotsInv`, one lemma per action; its core is that a slot once filled never changes
and that the dispatcher sees either that table or nothing.  The event of a proxy
therefore reaches the table the guest gave for it.

`SeqlockCensusProofs`, for any width of the counters, any clock and any number of
presents, retries and restarts.  Three inductive invariants, each with a lemma per step
of the game and of the reader that can disturb it; TLC checks them in `tools_readers`:

* `SeqlockInvariant` proves `SeqlockInv`: the sequence is twice the number of records
  published, plus one while words are copied (`SequenceCounts`); a word already copied
  is the new record's, the others the last one's (`WordsArePublished`); as long as the
  header the reader saw is still the sequence, what it has read is of the words that
  stand there (`ReaderIsOfItsHeader`).  A reader whose second header equals its even
  first one therefore holds one record, hence `SnapshotsArePublished`; the claim is
  about the process that runs, a restart empties its history.  `CensusTypes` follows.
* `DeltasAreOfOneProcess` needs `PresentsAreCounted`: a record's number is its count of
  presents, in the game, in every snapshot and in the difference.
* `ReportsAddUp` needs `AccountsAddUp`: present and idle time never exceed the wall
  clock of the closed frames and of what has passed of the open one.  Every interval is
  rounded down by itself, so the sum of the parts may fall below the whole but never
  exceed it (lemma `Split`); the subtraction that yields `exec_us` never clamps.  That alone
  is not inductive: the wall account must also be bounded by the time of the last mark,
  or a counter could come round its width within the step.

The last two hold as long as a counter has not come round (`MaxPresents < Width`,
`MaxTime \div Frequency < Width`); what happens when it has is an observation of section 5.

`SynthTimelineProofs`, for any rate, whether or not it divides the second, any step of
`RefTimeToSample`, ring, block, lead, jitter and gate of at least one sample, and any
gaps, delays, notes and clock failures: `TimelineInvariant` proves the inductive
`TimelineInv`, one lemma per action that disturbs it.  Its parts:

* `NotesFollowMapping`: every queued note, and the one `PlayBuffer()` holds, stands
  where its time is mapped: exactly if it crossed no rebase.  In the middle of the
  locked section the mapping has moved and the queue has not, so the queue is read as it
  will be shifted (`Position`, `Crossed`); without that the statement is not inductive.
  For a note that crossed rebases the fresh mapping is no measure to carry along, since
  it truncates twice and the shift once and their errors have no relation.  What adds up
  is the untruncated distance of the note's time from its position (`Beyond`): mapping
  loses at most `Grain` (lemma `Mapped`), each shift less than a sample
  (`ShiftInSamples`).  `NotesCrossWhole` compares that with a fresh mapping, which loses
  another grain.  At 22050 Hz the grain is 3.2 samples, so a note may stand three samples
  early after a rebase (six, if it was mapped ahead of the old anchor and is behind the
  new one), and three late and one more for each rebase.
* `CursorsApart`: the play and write cursors that are shown together are a lead apart,
  so the latency computed from them is the same whichever look of the timing thread
  they are of.  `WrittenFitsCursors` and `MappingFitsWritten` rest on it: from the
  resync on, the position written fits the cursors it was computed from, and from the
  rebase on the mapping fits that position.  `AnchorsAreLive` follows (a rebase from the
  cursors of the transport as it now runs anchors to a position in which the next look
  finds no underrun), and `NotesAreOnTime` (after a review no note is held back by more
  than the gate less the lead, and the stated rounding; lemma `HeldBack`).
* `RearmIsReviewed`, `NotesCounted`, `ReviewFollowsWrite`: a re-armed transport keeps its
  marker until the render thread takes it down to review.

Products and quotients of two
unknowns are beyond the provers, so the module first proves what it needs of `*`, `\div`
and `%` on integers (`Divided` and those after it), and that a
nonempty set of naturals has a least element (`LeastExists`), which it takes from the
well-foundedness of the strict subset order on finite sets.

### 4.1 Assumptions

`ClockAssumption` and `LauncherAssumption` say that the bundle lists no unknown
build, an unpatched route's game image is the installed one, the bind loop does not
contain the game image, and there is at least one attempt; `SynthSinkAssumption`
gives types and at least one tick; `TeardownAssumption` says that the cleanup unmounts
every target, that every route binds Box86, and that the paths of Box86 and of the game
image do not depend on the run.  These three modules state them as ASSUME.  The modules
that `MCTools` instantiates name theirs by a definition instead, which every theorem
repeats after its own ASSUME and `InstancesAreSound` has TLC evaluate:
`SourceAssumption` (the root has a source and is not static, the reporter of the stubs
has none), `ProgramAssumption` (the program and its reading are texts, and of the functions of one
name it is settled whose file is read first),
the natural numbers of `PresentLatency` and `SeqlockCensus` (`CensusAssumption`: a width,
a clock and at least one try), the numbers of `SynthTimeline` (`SizeAssumption`,
`InputAssumption`, `BoundAssumption`) with `GateAssumption` (the gate of 250 ms is at
least a sample, so a rebase always moves the queue; a block is at least a sample and a
millisecond a whole number of units of time), and the distinct values of
`MutexFirstUseAssumption` and `ListenerSlotsAssumption`.

### 4.2 What is only model-checked

Liveness: `ClockSettles`, `CleanupEnds`, `CallsReturn`, `TransportHeals`, `ToolsEnd`,
`NobodyWaitsForGood`.  The properties of the readers other than `SeqlockCensus`, of the
samplers, the freeze tools and the build steps other than `LinkReach`: they are about
what a tool computed from a finite history (sums over rows, the decoding of a layout,
the scan of a file), that is about folds and recursive functions, which need induction
over data.  The verdicts
of `CsDeadlock`, which are about a handshake, could be proved and are not.

## 5. The finding and the observations

`launcher_one_game` is a run: the lock dies with the shell, the game does not.  A
relaunch after SIGKILL of an unpatched route accepts the equal mounts and starts a
second game, though the lock exists for "refusing a second instance".

The rest was met while modelling and no run shows it; each contradicts a sentence
of the repository (file and line in brackets).

*Launcher and sink.*  `EXPLORER_PID` and `GPTOKEYB_PID` are signalled by the cleanup
after the shell may have reaped them (FINAL_PRODUCTION.md:175: only `WINE_PID` is
cleared).  A re-arm "is only attempted for a position that has not moved" (patch
60:256), but the tick is acted on before its position is read: a transport that
resumed by itself in the last tick is restarted once more.  The resume rebase may
anchor against the stale cursor (patch 85:32), because the marker is raised before
the new cursors are published.  "Shift already queued MIDI events by the same
amount" (patch 83:152) holds within a few samples only: `RefTimeToSample` cuts to 100 us
before it multiplies (85:427) and the shift does not (83:186), so two notes of one time,
one queued before a rebase and one after it, can be played some samples apart.

*Island.*  "Branch-and-link and tail-call branches" (island_reach.py:39) are only the
unconditional ones (40): `blne f`, `bne f` and `blxne r3` are neither edges nor indirect
calls, nor is `blx lr` (45), so an entry printed as safe may still run a stub through
one.  The audits say of themselves that they are no proof of absence
(island_icall_audit.py:42, island_mutable_state_audit.py:6, 22).  "Calls the
ARM compiler inlined do not disappear" (33) fails for the second of two functions of one
name, whose body is dropped (182) with what it calls and the sites in it.  An `__attribute__` line at the
left margin is captured as `_attribute__` (68) and passes the guard meant for it (157): it
stays open till the next candidate, and over a table it is recorded as a function.
A static function the ARM compiler inlined everywhere has no symbol and is
dropped from the GL closure (island_gl_reach.py:347).  A second marker of one function
can route a branch target while the module base is open (island_marker_check.py:17).
A name can map across units when each compiler inlined one unit's copy
(gen_class_b_table.py:50).  Objects of a stopped build pass beside an old witness
(island_native_compiler_audit.py:15).  The ABI audit admits a guest-owned aggregate
whose embedded one differs inside the same size, records nothing of a difference in
an embedded aggregate without a tag, and reports equal unions as different when a
bit-field has no location (island_abi_closure_audit.py:9, 13, 224).

*wined3d and its readers.*  Lowering the limit and raising it again adds the difference
twice (patch 80:396, gl_census_delta.py:249); a negative census is called impossible
(gl_census_delta.py:899) and is not, for the words are of different moments, and a
shadow whose identity is computed always passes (1003).  The wait reader does not mask
its 32-bit differences (patch 39:48).  A command that computes through the window and
blocks afterwards gets the verdict of a lost wake-up (cs_deadlock_census.py:319).
A run without a capped block takes its verdict from quantised cycles
(present_ab_read.py:57).

*Box86.*  A thread preempted in a record for a whole turn of the ring leaves mixed
fields published (FINALPLAY15-box86-complete.patch:1350).  Two threads at a call
site's first call leave two slots, of which the reader keeps one
(box86_memmove_stats.py:6).  The nearest record below a sample may be of a freed
block (box86_guest_profile.py:2).

*Recorders.*  dmime_state.py judges the second copy by the header before it (127).  A
lapped writer publishes mixed records (patch 13:10).  A record claimed before the
first snapshot and committed after it is in no difference (dmsynth_state.py:213).  A
note that took the marker before an arming still writes its name, and the first
record of a new capture may be the old one's (dmsynth_sinkprobe.py:88, 95).

*Samplers and freeze tools.*  A gap's `lower_bound_ms` can exceed the gap
(dxvk_gap_trigger_capture.py:256), and so can the recorder's
(dxvk_present_trace_analyze.py:4); waits of the window after a gap are summed into it
(dxvk_wait_gap_analyze.py:5).  The watch named after the main thread reads the ticks
of the whole process (stall_watch4.py:4).  A futex word nobody could read is printed as
changed (freeze_capture.py:14).  A file opened before the process ended loses all rows
retained, and a process that ends before its io file is read gives a negative row
(device_pressure_count.py:4, 97).  Threads that were idle when the probe began are in no row
(frame_limit_probe.py:42), and an unreadable GPU counts as idle (2).  A gap is hidden
unless a poll falls into it, and the first stall line can be lost
(stall_watch3.py:6, 8).  A period without a T row has no stacks (stall_probe.py:105).

*Autoload.*  The first gate presses confirm again without looking whether the title
is still there (426): a menu that was only unclear starts a NEW GAME.  A key taken
after the picture is pressed again (402): another save may be measured.

Not counted against any sentence: a signal between `&` and `PID=$!` (lines 989-993, 1015,
1047-1055) leaves a subshell that the cleanup's kill, killall and pkill do not match and
whose Box86 is not open yet: the cleanup unmounts everything and reports no failure,
and the desktop or game may still execute, on the installed Box86 and images, without
the lock (`CleanExit` excepts exactly these).  A launch refused before line 896 does not know the
DXVK targets and its cleanup reports success with a killed run's mounts still there
(`CleanExit` says so); a launch refused before `save_cpu_state` leaves a killed run's
capped clocks capped until the next complete run; and with a worker whose calls fail
for good, a failed position query ends the timing thread while the sink stays on, the
render thread may restart a lost buffer, and `Deactivate` leaves it playing, which
matters only for a buffer the application keeps.

## 6. What is not modelled

Contents of files beyond "the pinned build, the installed one, another"; the wall
clock outside the samplers; the layout of the launcher's state file; the clock code of
the older launchers.  The distance `synth_sink_write` keeps from the cursor.  The
in-game table of waits (patch of the wait census) beyond what a reader of its rows
sees.  The parsing of ops tables and of the dmime header scan.  How a reader finds
its record in the process.  The components of 1.10, most of which change upstream code
that is not in the tree.  Wording, rounding and layout of every report.

## 7. The plan

1. `ClockBaseline`, `Launcher`, `SynthSink` with `SinkContract`: modelled and proved.
2. `LinkReach`, `PresentLatency`, `MutexFirstUse`, `ListenerSlots`: modelled and proved.
3. The recorders and readers, samplers, freeze tools and build steps: modelled and checked.
4. `SeqlockCensus`, `SynthTimeline`: modelled and proved.  Next to prove: what
   `CsDeadlock` says of a freeze, `DisplayLock`'s publication.
5. Next to model: the drain of the sink at its width, the header scans, the DXVK
   trace ring.
