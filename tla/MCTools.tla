------------------------------ MODULE MCTools -------------------------------
(* The tools and patches of the repository that share no state with each     *)
(* other, checked side by side: a behaviour is of one tool of Tools, which    *)
(* the variable tool names, and the registers r1, r2, ... hold the variables   *)
(* of that tool's module in its own order; the registers it does not need      *)
(* stay Off.  The states of a run are those of its tools together, never       *)
(* their product.  Every instance is small and is given its constants here;    *)
(* two instances of one module answer two questions with different bounds.     *)
EXTENDS Integers, Sequences, FiniteSets, TLC

CONSTANTS Tools,          \* the tools a run is of
          none, Off,
          t1, t2, t3,     \* threads, alike
          m1, m2,           \* mutexes, alike
          n1, n2, n3,     \* native mutexes, alike
          w1, w2,         \* writers, alike
          u1, u2, p1, p2, p3, p4, f1, f2, f3, \* threads, proxies and tables of listeners
          guestCopy, islandCopy, glUniform4fv, glBindTexture, ka, kb, x1, x2, s1, s2

VARIABLES tool,
          r1, r2, r3, r4, r5, r6, r7, r8, r9, r10, r11, r12, r13, r14, r15, r16, r17, r18,
          r19

vars == <<tool,
          r1, r2, r3, r4, r5, r6, r7, r8, r9, r10, r11, r12, r13, r14, r15, r16, r17, r18,
          r19>>

-----------------------------------------------------------------------------
(* What the instances are of. *)

\* An entry, two helpers that may call each other, a leaf behind an ops table,
\* which may have the name of a helper, and the reporter of the abort stubs.  The
\* text is read as it is, without one call or one site, or with a call too many.
LinkFunctions == {"entry", "helper", "leaf", "target", "reporter"}
LinkSources == LinkFunctions \ {"reporter"}
LinkProgram(h, l, u, twin) ==
    [calls |-> [f \in LinkFunctions |->
                  CASE f = "entry" -> {"helper", "leaf"} [] f = "helper" -> h
                    [] f = "leaf" -> l [] OTHER -> {}],
     uses |-> [f \in LinkFunctions |-> IF f = "leaf" THEN u ELSE {}],
     targets |-> [m \in {"load"} |-> {"target"}],
     refs |-> [f \in LinkFunctions |->
                 CASE f = "leaf" -> {"slot1"} [] f = "target" -> {"slot2"} [] OTHER -> {}],
     name |-> [f \in LinkFunctions |-> IF twin /\ f = "target" THEN "helper" ELSE f]]
LinkViews ==
    LET programs == {LinkProgram(h, l, u, FALSE) : h \in {{"leaf"}, {"leaf", "reporter"}},
                                                  l \in {{}, {"helper", "reporter"}},
                                                  u \in {{}, {"load"}}}
        twin == LinkProgram({"leaf"}, {"helper"}, {"load"}, TRUE)
    IN {[text |-> p, read |-> p, hard |-> {}] : p \in programs \cup {twin}}
         \cup {[text |-> twin, read |-> r, hard |-> {}] :
                  r \in {[twin EXCEPT !.calls["helper"] = {}],
                         [twin EXCEPT !.refs["leaf"] = {}],
                         [twin EXCEPT !.calls["target"] = {"leaf"}]}}
         \cup {[text |-> p, read |-> p, hard |-> h] :
                  p \in {LinkProgram({"leaf", "reporter"}, {}, {}, FALSE)},
                  h \in {{"reporter"}, {"slot1"}}}
         \cup {[text |-> p, read |-> p, hard |-> {"load"}] :
                  p \in {[LinkProgram({"leaf"}, {}, {"load"}, FALSE)
                            EXCEPT !.calls["target"] = {"reporter"}]}}

\* Three functions 0..5, 6..11 and 12..17; entries 1 and 2 mark the second and
\* the third; a second marker of entry 1 may sit anywhere, and a branch may
\* lead into the middle of a function.
IdentityLayouts ==
    {[functions |-> {<<0, 6>>, <<6, 12>>, <<12, 18>>},
      markers |-> {<<1, 6 + i>>, <<2, 12 + j>>} \cup (IF c = 0 THEN {} ELSE {<<1, c>>}),
      targets |-> {0, 6, 12, d},
      entry |-> [e \in {1, 2} |-> 6 * e]]
        : i \in {1, 2}, j \in {0, 1}, c \in {0, 4, 10, 11, 16}, d \in {3, 9, 15}}

\* Two units; name 2 is a static function of both.  A version is what the
\* compilers left of them: every definition; then name 1 is new, so that ids
\* move; then a clone on either side.
Fn(u, n) == [unit |-> u, name |-> n, clone |-> FALSE]
Clone(u, n) == [unit |-> u, name |-> n, clone |-> TRUE]
TableVersions ==
    {[guest |-> {Fn("buffer", 2), Fn("texture", 2), Fn("texture", 3)},
      island |-> {Fn("buffer", 2), Fn("texture", 2), Fn("texture", 3)}],
     [guest |-> {Fn("buffer", 1), Fn("buffer", 2), Fn("texture", 3), Fn("crt", 4)},
      island |-> {Fn("buffer", 1), Fn("buffer", 2), Fn("texture", 3)}],
     [guest |-> {Fn("buffer", 1), Clone("buffer", 2), Fn("texture", 3)},
      island |-> {Fn("buffer", 1), Clone("texture", 2), Clone("texture", 3)}]}

MemmoveHome == (ka :> 0) @@ (kb :> 1)

LR == INSTANCE LinkReach WITH
        audit <- r1, program <- r2, read <- r3,
        emitted <- r4, inlined <- r5, missed <- r6, closure <- r7, stack <- r8,
        Functions <- LinkFunctions, Sources <- LinkSources,
        Static <- {"helper", "leaf"}, Members <- {"load"},
        Items <- {"slot1", "slot2"}, Root <- "entry", Reporter <- "reporter",
        Unresolved <- {"slot1"}, Views <- LinkViews,
        Audits <- {"reach", "gl", "icall", "state"}
SS == INSTANCE SourceScan WITH
        lines <- r1, place <- r2, nest <- r3,
        writing <- r4, defined <- r5, byFile <- r6, scan <- r7,
        Names <- {"load", "flush"}, MaxLines <- 11, MaxDepth <- 2
II == INSTANCE IslandIdentity WITH
        dll <- r1, guest <- r2, state <- r3,
        base <- r4, pending <- r5, routed <- r6, Ids <- {1, 2}, Armed <- {1, 2},
        Witnesses <- <<2, 1>>, Layouts <- IdentityLayouts, Window <- 4, Load <- 20,
        Threads <- {"cs", "main"}
NT == INSTANCE NativeTable WITH
        source <- r1, script <- r2, compiler <- r3,
        todo <- r4, runs <- r5, objects <- r6, witness <- r7, fragments <- r8,
        header <- r9, box86 <- r10, Units <- {"buffer", "texture"},
        Names <- 1 .. 4, Versions <- TableVersions,
        Compilers <- {[comment |-> "clang", layout |-> "ms"]}, MaxRuns <- 3
AC == INSTANCE AbiClosure WITH
        src <- r1, arm <- r2, there <- r3, il <- r4,
        al <- r5, seeds <- r6, reach <- r7, stack <- r8, rc <- r9, Nameless <- {},
        Owned <- {1}, UnionBits <- FALSE
LA == INSTANCE ListenerAbi WITH
        required <- r1, protocol <- r2,
        fields <- r3, init <- r4, verdict <- r5, called <- r6,
        Names <- {"down", "up", "shape"}, Sigs <- {"ppi", "ppu"},
        Gated <- {<<"shape", "ppi">>}, Missing <- "missing"
PL == INSTANCE PresentLatency WITH
        limit <- r1, highest <- r2,
        tokens <- r3, at <- r4, queued <- r5, cs <- r6, acquires <- r7,
        releases <- r8, changes <- r9, census <- r10, Threads <- 2,
        FirstLatency <- 3, Latencies <- {4, 5}, CanLower <- FALSE,
        MaxPresents <- 4, MaxChanges <- 1
MX == INSTANCE MutexFirstUse WITH
        sign <- r1, self <- r2, mem <- r3,
        taken <- r4, table <- r5, holder <- r6, life <- r7, pc <- r8, op <- r9,
        arg <- r10, got <- r11, hold <- r12, hnat <- r13, Threads <- {t1, t2, t3},
        Mutexes <- {m1, m2}, Natives <- {n1, n2}, None <- none
LS == INSTANCE ListenerSlots WITH
        ref <- r1, view <- r2, mutex <- r3,
        pc <- r4, proxy <- r5, fct <- r6, slot <- r7, impl <- r8, want <- r9,
        called <- r10, Threads <- {u1, u2}, Proxies <- {p1, p2, p3, p4},
        Tables <- {f1, f2, f3}, NSlots <- 2, None <- none
LSE == INSTANCE ListenerSlots WITH
        ref <- r1, view <- r2, mutex <- r3,
        pc <- r4, proxy <- r5, fct <- r6, slot <- r7, impl <- r8, want <- r9,
        called <- r10, Threads <- {u1, u2}, Proxies <- {p1, p2, p3},
        Tables <- {f1, f2}, NSlots <- 1, None <- none
ST == INSTANCE SynthTimeline WITH
        now <- r1, cursor <- r2, running <- r3,
        shown <- r4, timing <- r5, pending <- r6, activate <- r7, written <- r8,
        render <- r9, player <- r10, events <- r11, count <- r12, settled <- r13,
        owed <- r14, Hz <- 5, Coarse <- 2, Ticks <- 3, Millis <- 3, Period <- 1,
        Buf <- 6, Lead <- 1, Jitter <- 1, Gate <- 3, Gaps <- {5}, MaxTime <- 8,
        MaxNotes <- 1, Delays <- {3}, MaxGaps <- 1, MaxFails <- 1
GL == INSTANCE GlCensus WITH
        loaded <- r1, cnt <- r2, current <- r3,
        inFrame <- r4, frames <- r5, leaks <- r6, pc <- r7, found <- r8,
        kept <- r9, raced <- r10, Copies <- {guestCopy, islandCopy},
        Names <- {glUniform4fv, glBindTexture}, PerFrame <- 1, MaxFrames <- 2,
        Interval <- 2, HasFrm <- TRUE, Leaky <- TRUE
GLL == INSTANCE GlCensus WITH
        loaded <- r1, cnt <- r2, current <- r3,
        inFrame <- r4, frames <- r5, leaks <- r6, pc <- r7, found <- r8,
        kept <- r9, raced <- r10, Copies <- {guestCopy}, Names <- {glUniform4fv},
        PerFrame <- 1, MaxFrames <- 4, Interval <- 2, HasFrm <- FALSE,
        Leaky <- FALSE
GC == INSTANCE GroupCost WITH
        hist <- r1, uploads <- r2, hist0 <- r3,
        uploads0 <- r4, sampled <- r5, Slots <- {1, 2}, FineBins <- 1, StepUs <- 2,
        LastBin <- 2, TailUs <- 5, MinGroups <- 1, MaxBefore <- 1, MaxGroups <- 4
PA == INSTANCE PresentAb WITH
        scene <- r1, effect <- r2, works <- r3,
        drift <- r4, next <- r5, log <- r6, jumps <- r7, losses <- r8,
        shorts <- r9, Blocks <- 8, Scenes <- {150, 1000}, Effects <- {0, 60},
        Drifts <- {0, 7}, Jumps <- {100, 300}, MaxJumps <- 1, MaxLost <- 1,
        MaxShort <- 1, Period <- 167, CapK <- 2, BlockFrames <- 40
IA == INSTANCE IslandAb WITH
        cost <- r1, wrapper <- r2, log <- r3,
        ticks <- r4, frames <- r5, Costs <- {5, 6}, Weights <- {0, 100, 102, 106},
        MaxCycles <- 3, Tolerance <- 2, Width <- 5, Interval <- 3
SC == INSTANCE SeqlockCensus WITH
        now <- r1, pid <- r2, pc <- r3,
        live <- r4, started <- r5, lastMark <- r6, idleOpen <- r7, idleStart <- r8,
        presentStart <- r9, seq <- r10, public <- r11, copied <- r12,
        history <- r13, at <- r14, tries <- r15, header <- r16, body <- r17,
        shots <- r18, report <- r19, Width <- 16, Frequency <- 1, MaxTime <- 3,
        MaxPresents <- 1, Tries <- 2, MaxRestarts <- 1
MM == INSTANCE MemmoveCensus WITH
        table <- r1, overflow <- r2,
        thread <- r3, begun <- r4, counted <- r5, reader <- r6, copy <- r7,
        span <- r8, Threads <- {w1, w2}, Keys <- {ka, kb}, NoKey <- none,
        Home <- MemmoveHome, Slots <- {0, 1}, MaxCalls <- 2
GB == INSTANCE GuestBlocks WITH
        live <- r1, count <- r2, records <- r3,
        overflow <- r4, writer <- r5, sample <- r6, snapshot <- r7,
        Native <- 1 .. 4, Sizes <- {1, 3}, Guest <- {x1, x2}, NoGuest <- none,
        Capacity <- 2, MaxBlocks <- 3
SR == INSTANCE StateRecorder WITH
        write_sequence <- r1, records <- r2,
        writer <- r3, reader <- r4, header <- r5, raw <- r6, done <- r7,
        begun <- r8, Writers <- {w1, w2}, EVENTS <- 2, MaxSeq <- 4,
        Reader <- "dmsynth", Snapshots <- 1, Lapping <- FALSE
SRP == INSTANCE StateRecorder WITH
        write_sequence <- r1, records <- r2,
        writer <- r3, reader <- r4, header <- r5, raw <- r6, done <- r7,
        begun <- r8, Writers <- {w1}, EVENTS <- 2, MaxSeq <- 4,
        Reader <- "dmsynth", Snapshots <- 2, Lapping <- FALSE
SP == INSTANCE SinkProbe WITH
        marker <- r1, count <- r2, markerSink <- r3,
        markerNote <- r4, records <- r5, player <- r6, renderer <- r7,
        arming <- r8, notes <- r9, blocks <- r10, capture <- r11, winners <- r12,
        Sinks <- {s1, s2}, EVENTS <- 2, Notes <- 3, Blocks <- 4, Arms <- 2,
        AtRest <- TRUE
GP == INSTANCE GapCapture WITH
        now <- r1, count <- r2, pc <- r3,
        deadline <- r4, probeEnd <- r5, previous <- r6, lastPresent <- r7,
        idle <- r8, gap <- r9, gaps <- r10, nextFollow <- r11, before <- r12,
        first <- r13, last <- r14, sampled <- r15, startLag <- r16, missed <- r17,
        Interval <- 2, ProbeTime <- 1, Thresholds <- <<4, 7>>, MaxGaps <- 2,
        ReadFollow <- 3, MaxReads <- 2, Tids <- {1}, Sigs <- {}, Late <- FALSE,
        Width <- 8, MaxTime <- 20
GPF == INSTANCE GapCapture WITH
        now <- r1, count <- r2, pc <- r3,
        deadline <- r4, probeEnd <- r5, previous <- r6, lastPresent <- r7,
        idle <- r8, gap <- r9, gaps <- r10, nextFollow <- r11, before <- r12,
        first <- r13, last <- r14, sampled <- r15, startLag <- r16, missed <- r17,
        Interval <- 2, ProbeTime <- 3, Thresholds <- <<4, 7>>, MaxGaps <- 2,
        ReadFollow <- 3, MaxReads <- 2, Tids <- {1, 2}, Sigs <- {1, 2},
        Late <- FALSE, Width <- 8, MaxTime <- 13
GPL == INSTANCE GapCapture WITH
        now <- r1, count <- r2, pc <- r3,
        deadline <- r4, probeEnd <- r5, previous <- r6, lastPresent <- r7,
        idle <- r8, gap <- r9, gaps <- r10, nextFollow <- r11, before <- r12,
        first <- r13, last <- r14, sampled <- r15, startLag <- r16, missed <- r17,
        Interval <- 2, ProbeTime <- 3, Thresholds <- <<4, 7>>, MaxGaps <- 2,
        ReadFollow <- 3, MaxReads <- 2, Tids <- {1}, Sigs <- {}, Late <- TRUE,
        Width <- 8, MaxTime <- 11
PS == INSTANCE PressureSampler WITH
        time <- r1, process <- r2, alive <- r3,
        stop <- r4, phase <- r5, took <- r6, current <- r7, previous <- r8,
        now <- r9, previousTime <- r10, deadline <- r11, startTime <- r12,
        rows <- r13, sinceStop <- r14, base <- r15, Interval <- 2, Slow <- 1,
        Late <- 1, Windows <- 2, HaveIo <- FALSE, ReadsRace <- TRUE
PSI == INSTANCE PressureSampler WITH
        time <- r1, process <- r2,
        alive <- r3, stop <- r4, phase <- r5, took <- r6, current <- r7,
        previous <- r8, now <- r9, previousTime <- r10, deadline <- r11,
        startTime <- r12, rows <- r13, sinceStop <- r14, base <- r15,
        Interval <- 2, Slow <- 1, Late <- 1, Windows <- 2, HaveIo <- TRUE,
        ReadsRace <- TRUE
FL == INSTANCE FrameLimit WITH
        alive <- r1, ticks <- r2, gpu <- r3,
        cap <- r4, lowFor <- r5, longestLow <- r6, phase <- r7, time <- r8,
        seed <- r9, tracked <- r10, prev <- r11, prevWall <- r12,
        startTrans <- r13, endTrans <- r14, sum <- r15, count <- r16,
        capMin <- r17, verdicts <- r18, Threads <- {"t1", "t2"}, TRACKED <- 1,
        Period <- 2, Late <- 1, Seconds <- 3, HaveGpu <- TRUE
PR == INSTANCE StallProbe WITH
        time <- r1, game <- r2, thread <- r3,
        asleepSince <- r4, phase <- r5, t0 <- r6, end <- r7, nextThread <- r8,
        nextStack <- r9, wantStack <- r10, p <- r11, t <- r12, k <- r13,
        gapP <- r14, gapT <- r15, Period <- 2, ThreadPeriod <- 4, StackPeriod <- 6,
        Late <- 1, Wait <- 2, Duration <- 15
SW == INSTANCE StallWindow WITH
        time <- r1, ticks <- r2, batch <- r3,
        stalls <- r4, lastLine <- r5, ended <- r6, missed <- r7, lastTold <- r8,
        phase <- r9, polled <- r10, history <- r11, lastBatch <- r12,
        gapReported <- r13, told <- r14, stallsTold <- r15, stallsRead <- r16,
        Poll <- 1, Late <- 1, Gap <- 2, HistorySize <- 2, Duration <- 10
PG == INSTANCE PresentGaps WITH
        time <- r1, presents <- r2, calls <- r3,
        phase <- r4, deadline <- r5, clock <- r6, counted <- r7, before <- r8,
        rows <- r9, start <- r10, waitDeadline <- r11, waitClock <- r12,
        waitCounted <- r13, waitRows <- r14, Interval <- 3, Windows <- 4,
        Late <- 1, ReadDelay <- 1, MaxPresents <- 2, WaitInterval <- 1,
        MaxCalls <- 0
PW == INSTANCE PresentGaps WITH
        time <- r1, presents <- r2, calls <- r3,
        phase <- r4, deadline <- r5, clock <- r6, counted <- r7, before <- r8,
        rows <- r9, start <- r10, waitDeadline <- r11, waitClock <- r12,
        waitCounted <- r13, waitRows <- r14, Interval <- 3, Windows <- 3,
        Late <- 0, ReadDelay <- 0, MaxPresents <- 1, WaitInterval <- 2,
        MaxCalls <- 1
CD == INSTANCE CsDeadlock WITH
        head <- r1, tail <- r2, wfe <- r3,
        alerted <- r4, pc <- r5, held <- r6, executes <- r7, ring <- r8,
        sleeps <- r9, rested <- r10, at <- r11, last <- r12, steady <- r13,
        cpu <- r14, lost <- r15, named <- r16, truth <- r17, verdict <- r18,
        MaxCommands <- 2, MaxSleeps <- 1, Samples <- 2, Racy <- FALSE, Weak <- TRUE
CDR == INSTANCE CsDeadlock WITH
        head <- r1, tail <- r2, wfe <- r3,
        alerted <- r4, pc <- r5, held <- r6, executes <- r7, ring <- r8,
        sleeps <- r9, rested <- r10, at <- r11, last <- r12, steady <- r13,
        cpu <- r14, lost <- r15, named <- r16, truth <- r17, verdict <- r18,
        MaxCommands <- 1, MaxSleeps <- 1, Samples <- 2, Racy <- TRUE, Weak <- TRUE
DL == INSTANCE DisplayLock WITH
        owner <- r1, target <- r2, pc <- r3,
        seen <- r4, ticket <- r5, heldSeq <- r6, writes <- r7, ring <- r8,
        at <- r9, copy <- r10, first <- r11, tries <- r12, frozen <- r13,
        Threads <- {"t1", "t2"}, Capacity <- 4, MaxTickets <- 3, Tries <- 1
DLA == INSTANCE DisplayLock WITH
        owner <- r1, target <- r2, pc <- r3,
        seen <- r4, ticket <- r5, heldSeq <- r6, writes <- r7, ring <- r8,
        at <- r9, copy <- r10, first <- r11, tries <- r12, frozen <- r13,
        Threads <- {"t1"}, Capacity <- 4, MaxTickets <- 5, Tries <- 1
DW == INSTANCE DxtWitness WITH
        verify <- r1, selftest <- r2, calls <- r3,
        compared <- r4, bad <- r5, flags <- r6, fallback <- r7,
        first_bad_set <- r8, first_bad <- r9, worker <- r10, returned <- r11,
        reader <- r12, saw <- r13, Workers <- {w1, w2}, Calls <- 2,
        Reasons <- {1, 2}, VERIFY_LIMIT <- 1
DWA == INSTANCE DxtWitness WITH
        verify <- r1, selftest <- r2, calls <- r3,
        compared <- r4, bad <- r5, flags <- r6, fallback <- r7,
        first_bad_set <- r8, first_bad <- r9, worker <- r10, returned <- r11,
        reader <- r12, saw <- r13, Workers <- {w1}, Calls <- 3, Reasons <- {1, 2},
        VERIFY_LIMIT <- 1
FC == INSTANCE FreezeCapture WITH
        state <- r1, expected <- r2, ticks <- r3,
        word <- r4, events <- r5, phase <- r6, todo <- r7, first <- r8,
        second <- r9, verdict <- r10, Threads <- {t1, t2, t3}, Values <- {0, 2},
        MaxTicks <- 1, MaxEvents <- 4
WT == INSTANCE StallWatch WITH
        time <- r1, game <- r2, cs <- r3,
        mainTicks <- r4, ticks <- r5, log <- r6, logMoved <- r7, phase <- r8,
        polls <- r9, now <- r10, slept <- r11, last <- r12, bursts <- r13,
        reason <- r14, Interval <- 1, Late <- 1, Trigger <- 3,
        ProgressTrigger <- 4, Progress <- TRUE, RequireCs <- TRUE, Polls <- 2,
        Duration <- 7
WTE == INSTANCE StallWatch WITH
        time <- r1, game <- r2, cs <- r3,
        mainTicks <- r4, ticks <- r5, log <- r6, logMoved <- r7, phase <- r8,
        polls <- r9, now <- r10, slept <- r11, last <- r12, bursts <- r13,
        reason <- r14, Interval <- 1, Late <- 1, Trigger <- 2,
        ProgressTrigger <- 2, Progress <- TRUE, RequireCs <- TRUE, Polls <- 2,
        Duration <- 4
AL == INSTANCE Autoload WITH
        game <- r1, focused <- r2, queue <- r3,
        step <- r4, phase <- r5, attempt <- r6, ups <- r7, expected <- r8,
        held <- r9, done <- r10, probe <- r11, records <- r12, lost <- r13,
        blurred <- r14, late <- r15, FirstRow <- 3, SaveUp <- 2, Files <- 2,
        LockPages <- TRUE, Walks <- 4, Actions <- 2,
        Faults <- {"lost", "late", "slow"}

\* The constants are as each module requires them.
ASSUME InstancesAreSound ==
    /\ LR!SourceAssumption /\ LR!ProgramAssumption /\ LR!AuditAssumption
    /\ SS!NamesAssumption
    /\ II!LayoutAssumption /\ II!IdAssumption /\ II!RunAssumption
    /\ NT!NameAssumption /\ NT!VersionAssumption /\ NT!CompilerAssumption
    /\ AC!AbiClosureAssumption
    /\ LA!ListenerAbiAssumption
    /\ PL!ThreadAssumption /\ PL!LatencyAssumption /\ PL!LowerAssumption /\ PL!BoundAssumption
    /\ MX!MutexFirstUseAssumption
    /\ LS!ListenerSlotsAssumption
    /\ LSE!ListenerSlotsAssumption
    /\ ST!SizeAssumption /\ ST!InputAssumption /\ ST!BoundAssumption /\ ST!GateAssumption
    /\ GL!CensusAssumption /\ GL!BuildAssumption
    /\ GLL!CensusAssumption /\ GLL!BuildAssumption
    /\ GC!BinAssumption /\ GC!GroupAssumption /\ GC!TailAssumption
    /\ PA!TimeAssumption /\ PA!BlockAssumption
    /\ IA!CostAssumption /\ IA!ReaderAssumption
    /\ SC!CensusAssumption
    /\ MM!TableAssumption /\ MM!NoKeyAssumption /\ MM!HomeAssumption /\ MM!BoundAssumption
    /\ GB!NativeAssumption /\ GB!SizeAssumption /\ GB!GuestAssumption
    /\ SR!RecorderAssumption
    /\ SRP!RecorderAssumption
    /\ SP!ProbeAssumption
    /\ GP!GapCaptureAssumption
    /\ GPF!GapCaptureAssumption
    /\ GPL!GapCaptureAssumption
    /\ PS!SamplerAssumption
    /\ PSI!SamplerAssumption
    /\ FL!LimitAssumption
    /\ PR!ProbeAssumption
    /\ SW!WindowAssumption
    /\ PG!GapAssumption
    /\ PW!GapAssumption
    /\ CD!DeadlockAssumption
    /\ CDR!DeadlockAssumption
    /\ DL!DisplayLockAssumption
    /\ DLA!DisplayLockAssumption
    /\ DW!WitnessAssumption
    /\ DWA!WitnessAssumption
    /\ FC!CaptureAssumption
    /\ WT!WatchAssumption
    /\ WTE!WatchAssumption
    /\ AL!RowAssumption /\ AL!CountAssumption /\ AL!FaultAssumption

-----------------------------------------------------------------------------
Off19 == r19 = Off
Off18 == r18 = Off /\ Off19
Off17 == r17 = Off /\ Off18
Off16 == r16 = Off /\ Off17
Off15 == r15 = Off /\ Off16
Off14 == r14 = Off /\ Off15
Off13 == r13 = Off /\ Off14
Off12 == r12 = Off /\ Off13
Off11 == r11 = Off /\ Off12
Off10 == r10 = Off /\ Off11
Off9 == r9 = Off /\ Off10
Off8 == r8 = Off /\ Off9
Off7 == r7 = Off /\ Off8
Off6 == r6 = Off /\ Off7

Init ==
    /\ tool \in Tools
    /\ \/ tool = "link_reach" /\ LR!Init /\ Off9
       \/ tool = "source_scan" /\ SS!Init /\ Off8
       \/ tool = "island_identity" /\ II!Init /\ Off7
       \/ tool = "native_table" /\ NT!Init /\ Off11
       \/ tool = "abi_closure" /\ AC!Init /\ Off10
       \/ tool = "listener_abi" /\ LA!Init /\ Off7
       \/ tool = "present_latency" /\ PL!Init /\ Off11
       \/ tool = "mutex_first_use" /\ MX!Init /\ Off14
       \/ tool = "listener_slots" /\ LS!Init /\ Off11
       \/ tool = "listener_end" /\ LSE!Init /\ Off11
       \/ tool = "synth_timeline" /\ ST!Init /\ Off15
       \/ tool = "gl_census" /\ GL!Init /\ Off11
       \/ tool = "gl_census_log" /\ GLL!Init /\ Off11
       \/ tool = "group_cost" /\ GC!Init /\ Off6
       \/ tool = "present_ab" /\ PA!Init /\ Off10
       \/ tool = "island_ab" /\ IA!Init /\ Off6
       \/ tool = "seqlock_census" /\ SC!Init
       \/ tool = "memmove_census" /\ MM!Init /\ Off9
       \/ tool = "guest_blocks" /\ GB!Init /\ Off8
       \/ tool = "state_recorder" /\ SR!Init /\ Off9
       \/ tool = "state_recorder_pair" /\ SRP!Init /\ Off9
       \/ tool = "sink_probe" /\ SP!Init /\ Off13
       \/ tool = "gap_capture" /\ GP!Init /\ Off18
       \/ tool = "gap_capture_follow" /\ GPF!Init /\ Off18
       \/ tool = "gap_capture_late" /\ GPL!Init /\ Off18
       \/ tool = "pressure_sampler" /\ PS!Init /\ Off16
       \/ tool = "pressure_sampler_io" /\ PSI!Init /\ Off16
       \/ tool = "frame_limit" /\ FL!Init /\ Off19
       \/ tool = "stall_probe" /\ PR!Init /\ Off16
       \/ tool = "stall_window" /\ SW!Init /\ Off17
       \/ tool = "present_gaps" /\ PG!Init /\ Off15
       \/ tool = "present_waits" /\ PW!Init /\ Off15
       \/ tool = "cs_deadlock" /\ CD!Init /\ Off19
       \/ tool = "cs_deadlock_racy" /\ CDR!Init /\ Off19
       \/ tool = "display_lock" /\ DL!Init /\ Off14
       \/ tool = "display_lock_alone" /\ DLA!Init /\ Off14
       \/ tool = "dxt_witness" /\ DW!Init /\ Off14
       \/ tool = "dxt_witness_alone" /\ DWA!Init /\ Off14
       \/ tool = "freeze_capture" /\ FC!Init /\ Off11
       \/ tool = "stall_watch" /\ WT!Init /\ Off15
       \/ tool = "stall_watch_end" /\ WTE!Init /\ Off15
       \/ tool = "autoload" /\ AL!Init /\ Off16

Keep19 == UNCHANGED <<r19>>
Keep18 == UNCHANGED <<r18, r19>>
Keep17 == UNCHANGED <<r17, r18, r19>>
Keep16 == UNCHANGED <<r16, r17, r18, r19>>
Keep15 == UNCHANGED <<r15, r16, r17, r18, r19>>
Keep14 == UNCHANGED <<r14, r15, r16, r17, r18, r19>>
Keep13 == UNCHANGED <<r13, r14, r15, r16, r17, r18, r19>>
Keep11 == UNCHANGED <<r11, r12, r13, r14, r15, r16, r17, r18, r19>>
Keep10 == UNCHANGED <<r10, r11, r12, r13, r14, r15, r16, r17, r18, r19>>
Keep9 == UNCHANGED <<r9, r10, r11, r12, r13, r14, r15, r16, r17, r18, r19>>
Keep8 == UNCHANGED <<r8, r9, r10, r11, r12, r13, r14, r15, r16, r17, r18, r19>>
Keep7 == UNCHANGED <<r7, r8, r9, r10, r11, r12, r13, r14, r15, r16, r17, r18, r19>>
Keep6 == UNCHANGED <<r6, r7, r8, r9, r10, r11, r12, r13, r14, r15, r16, r17, r18,
                      r19>>

Next ==
    /\ UNCHANGED tool
    /\ \/ tool = "link_reach" /\ LR!Next /\ Keep9
       \/ tool = "source_scan" /\ SS!Next /\ Keep8
       \/ tool = "island_identity" /\ II!Next /\ Keep7
       \/ tool = "native_table" /\ NT!Next /\ Keep11
       \/ tool = "abi_closure" /\ AC!Next /\ Keep10
       \/ tool = "listener_abi" /\ LA!Next /\ Keep7
       \/ tool = "present_latency" /\ PL!Next /\ Keep11
       \/ tool = "mutex_first_use" /\ MX!Next /\ Keep14
       \/ tool = "listener_slots" /\ LS!Next /\ Keep11
       \/ tool = "listener_end" /\ LSE!Next /\ Keep11
       \/ tool = "synth_timeline" /\ ST!Next /\ Keep15
       \/ tool = "gl_census" /\ GL!Next /\ Keep11
       \/ tool = "gl_census_log" /\ GLL!Next /\ Keep11
       \/ tool = "group_cost" /\ GC!Next /\ Keep6
       \/ tool = "present_ab" /\ PA!Next /\ Keep10
       \/ tool = "island_ab" /\ IA!Next /\ Keep6
       \/ tool = "seqlock_census" /\ SC!Next
       \/ tool = "memmove_census" /\ MM!Next /\ Keep9
       \/ tool = "guest_blocks" /\ GB!Next /\ Keep8
       \/ tool = "state_recorder" /\ SR!Next /\ Keep9
       \/ tool = "state_recorder_pair" /\ SRP!Next /\ Keep9
       \/ tool = "sink_probe" /\ SP!Next /\ Keep13
       \/ tool = "gap_capture" /\ GP!Next /\ Keep18
       \/ tool = "gap_capture_follow" /\ GPF!Next /\ Keep18
       \/ tool = "gap_capture_late" /\ GPL!Next /\ Keep18
       \/ tool = "pressure_sampler" /\ PS!Next /\ Keep16
       \/ tool = "pressure_sampler_io" /\ PSI!Next /\ Keep16
       \/ tool = "frame_limit" /\ FL!Next /\ Keep19
       \/ tool = "stall_probe" /\ PR!Next /\ Keep16
       \/ tool = "stall_window" /\ SW!Next /\ Keep17
       \/ tool = "present_gaps" /\ PG!Next /\ Keep15
       \/ tool = "present_waits" /\ PW!Next /\ Keep15
       \/ tool = "cs_deadlock" /\ CD!Next /\ Keep19
       \/ tool = "cs_deadlock_racy" /\ CDR!Next /\ Keep19
       \/ tool = "display_lock" /\ DL!Next /\ Keep14
       \/ tool = "display_lock_alone" /\ DLA!Next /\ Keep14
       \/ tool = "dxt_witness" /\ DW!Next /\ Keep14
       \/ tool = "dxt_witness_alone" /\ DWA!Next /\ Keep14
       \/ tool = "freeze_capture" /\ FC!Next /\ Keep11
       \/ tool = "stall_watch" /\ WT!Next /\ Keep15
       \/ tool = "stall_watch_end" /\ WTE!Next /\ Keep15
       \/ tool = "autoload" /\ AL!Next /\ Keep16

Spec == Init /\ [][Next]_vars

\* What is alike in the instances of a run: they use every one of a group or none.
ThreadsAlike == Permutations({t1, t2, t3})
WritersAlike == Permutations({w1, w2}) \cup Permutations({x1, x2})

-----------------------------------------------------------------------------
(* Every tool's state has the types of what it stands for in its source. *)
TypeOK ==
    /\ tool = "link_reach" => LR!TypeOK
    /\ tool = "source_scan" => SS!TypeOK
    /\ tool = "island_identity" => II!TypeOK
    /\ tool = "native_table" => NT!TypeOK
    /\ tool = "abi_closure" => AC!TypeOK
    /\ tool = "listener_abi" => LA!TypeOK
    /\ tool = "present_latency" => PL!TypeOK
    /\ tool = "mutex_first_use" => MX!TypeOK
    /\ tool = "listener_slots" => LS!TypeOK
    /\ tool = "listener_end" => LSE!TypeOK
    /\ tool = "synth_timeline" => ST!TypeOK
    /\ tool = "gl_census" => GL!TypeOK
    /\ tool = "gl_census_log" => GLL!TypeOK
    /\ tool = "group_cost" => GC!TypeOK
    /\ tool = "present_ab" => PA!TypeOK
    /\ tool = "island_ab" => IA!TypeOK
    /\ tool = "seqlock_census" => SC!TypeOK
    /\ tool = "memmove_census" => MM!TypeOK
    /\ tool = "guest_blocks" => GB!TypeOK
    /\ tool = "state_recorder" => SR!TypeOK
    /\ tool = "state_recorder_pair" => SRP!TypeOK
    /\ tool = "sink_probe" => SP!TypeOK
    /\ tool = "gap_capture" => GP!TypeOK
    /\ tool = "gap_capture_follow" => GPF!TypeOK
    /\ tool = "gap_capture_late" => GPL!TypeOK
    /\ tool = "pressure_sampler" => PS!TypeOK
    /\ tool = "pressure_sampler_io" => PSI!TypeOK
    /\ tool = "frame_limit" => FL!TypeOK
    /\ tool = "stall_probe" => PR!TypeOK
    /\ tool = "stall_window" => SW!TypeOK
    /\ tool = "present_gaps" => PG!TypeOK
    /\ tool = "present_waits" => PW!TypeOK
    /\ tool = "cs_deadlock" => CD!TypeOK
    /\ tool = "cs_deadlock_racy" => CDR!TypeOK
    /\ tool = "display_lock" => DL!TypeOK
    /\ tool = "display_lock_alone" => DLA!TypeOK
    /\ tool = "dxt_witness" => DW!TypeOK
    /\ tool = "dxt_witness_alone" => DWA!TypeOK
    /\ tool = "freeze_capture" => FC!TypeOK
    /\ tool = "stall_watch" => WT!TypeOK
    /\ tool = "stall_watch_end" => WTE!TypeOK
    /\ tool = "autoload" => AL!TypeOK

(* LinkReach.  Every walk closes over exactly the functions the linked code   *)
(* can reach from the entry, whatever the order of its worklist.              *)
ClosureIsLeast == tool = "link_reach" => LR!ClosureIsLeast

(* LinkReach.  "SAFE TO CUT": an entry the tool calls safe runs no abort stub  *)
(* in the program that was linked, but through calls its patterns do not match. *)
SafeEntryRunsNoStub == tool = "link_reach" => LR!SafeEntryRunsNoStub

(* LinkReach.  No indirect call site, mutable object and unresolved slot that   *)
(* the patterns match escapes the audits, in a function the source they read    *)
(* leads to; inlined and cloned functions included.                            *)
SitesComplete ==
    tool = "link_reach" => LR!SitesComplete /\ LR!ObjectsComplete /\ LR!SlotsComplete

(* SourceScan, IslandIdentity, NativeTable, AbiClosure, ListenerAbi.  What the  *)
(* cut rests on beyond the call graph is true: every function of a source file *)
(* is found with its own calls; an id names one function and routes from its   *)
(* own start; the two builds' layouts are compared at the alignment the        *)
(* compiler used and a difference is recorded; an event reaches the callback   *)
(* it is for.                                                                  *)
CutIsWhatItSeems ==
    /\ tool = "source_scan" => SS!ExtentsFound /\ SS!NoExtentLeaks /\ SS!ScanExact
    /\ tool = "island_identity" =>
          II!OneAddressPerEntry /\ II!SingleMarkerRoutesEntry
          /\ II!ArmedBaseIsReal /\ II!PassAgreesWithTable
    /\ tool = "native_table" => NT!ResolverAgrees /\ NT!MapsShownNames /\ NT!AuditAcceptsAWholeBuild
    /\ tool = "abi_closure" => AC!AlignIsTrue /\ AC!DifferenceIsRecorded /\ AC!NoFalseAlarm
    /\ tool = "listener_abi" =>
          LA!EventsReachTheirCallback /\ LA!AllowListIsExact /\ LA!RightBridgePasses

(* PresentLatency.  "token conservation, which is the only way this fails":    *)
(* no token is lost or made, and the two counters differ by the presents that  *)
(* hold one.                                                                   *)
TokensConserved == tool = "present_latency" => PL!TokensConserved /\ PL!CountersAgree

(* PresentLatency.  gl_census_delta.py copies the counters one after the other *)
(* from a running game and never shows more in flight than the limit allows.   *)
CensusNeverOverstates == tool = "present_latency" => PL!CensusNeverOverstates

(* MutexFirstUse.  Two threads never hold one mutex of the guest, and a thread *)
(* unlocks the native mutex it locked.                                         *)
MutualExclusion == tool = "mutex_first_use" => MX!MutualExclusion /\ MX!UnlockIsOfTheLocked

(* MutexFirstUse.  No native mutex serves two guest mutexes or counts as free  *)
(* while it is in use; and none is lost.                                       *)
NativesAreNotShared == tool = "mutex_first_use" => MX!NativesAreNotShared /\ MX!NothingLeaks

(* ListenerSlots.  An event calls the table the guest gave for its proxy,      *)
(* never another listener's and never a slot that still reads empty; and the   *)
(* slots last as long as there are few tables.                                 *)
DispatchReachesItsTable ==
    tool = "listener_slots" =>
        LS!DispatchReachesItsTable /\ LS!OneSlotPerTable /\ LS!RefusedOnlyWhenFull

(* SynthTimeline.  A note cannot cross the timeline's rebase half converted,   *)
(* a rebase is not forgotten, and after it no note is held back; and the       *)
(* inductive invariant that proves it holds.                                   *)
NotesSurviveTheRebase ==
    tool = "synth_timeline" =>
        /\ ST!TimelineInv
        /\ ST!NotesStandWhereTheyWouldBeMapped /\ ST!RearmIsReviewed
        /\ ST!AnchorNeedsNoCorrection /\ ST!NotesAreNotHeldBack

(* SeqlockCensus, StateRecorder, SinkProbe.  What is copied from a running     *)
(* game word by word is of one moment: one published record, whole, and of     *)
(* the process and the capture that the tool says it is of.                    *)
CopiesAreWhole ==
    /\ tool = "seqlock_census" =>
          /\ SC!SnapshotIsPublished /\ SC!DeltaIsOfOneProcess /\ SC!ReportAddsUp
          /\ SC!SeqlockInv /\ SC!PresentsAreCounted /\ SC!AccountsAddUp
    /\ tool = "state_recorder" => SR!RecordsAreWhole /\ SR!NothingCommittedIsLost
    /\ tool = "state_recorder_pair" => SRP!NewIsNew
    /\ tool = "sink_probe" => SP!OneNotePerCapture /\ SP!SettledIsTheCapture

(* GlCensus, MemmoveCensus, GuestBlocks.  The difference of two samples taken  *)
(* while the game counts on is of the window between them: nothing from        *)
(* before it, nothing twice, nothing for another owner.                        *)
CountsAreOfTheirWindow ==
    /\ tool = "gl_census" =>
          /\ GL!RateNotOverstated /\ GL!DeltaIsTheWindow
          /\ GL!HistogramIsTheWindow /\ GL!IdentityTellsLoss
    /\ tool = "gl_census_log" => GLL!RateNotOverstated
    /\ tool = "memmove_census" => MM!EveryCallIsCounted /\ MM!DifferenceIsOfTheInterval
    /\ tool = "guest_blocks" =>
          GB!UniqueOwnerIsTheBlock /\ GB!AmbiguityIsCounted /\ GB!ReadersAgree

(* GroupCost, PresentAb, IslandAb.  A comparison of two arms is about the      *)
(* arms: the scene, a drift, a jump that the filter passes, or a mixture of    *)
(* strata makes no saving where there is none.                                 *)
ComparisonsAreFair ==
    /\ tool = "group_cost" => GC!MedianIsTheMiddle /\ GC!NoEffectNoSaving
    /\ tool = "present_ab" => PA!DriftCancels /\ PA!JumpIsBounded /\ PA!NoVerdictWithoutSwitch
    /\ tool = "island_ab" =>
          /\ IA!MissingWrapperIsRefused /\ IA!SceneCannotFlipSign
          /\ IA!WeightCancels /\ IA!PlateauIsLargest

(* GapCapture, PresentGaps, StallWindow.  A gap that is reported was one, as   *)
(* long as it says but for the reader's own delay, and no long one is missed.  *)
GapsAreReal ==
    /\ tool = "gap_capture" => GP!EveryLongGapIsSeen /\ GP!ReportIsOrdered
    /\ tool = "gap_capture_follow" => GPF!ReadsAreOfTheFollowed
    /\ tool = "gap_capture_late" => GPL!RealWithinOneTurn
    /\ tool = "present_gaps" =>
          PG!LowerBound /\ PG!LongSilenceIsReported /\ PG!GapsAreApart /\ PG!GapEndsWithPresent
    /\ tool = "present_waits" => PW!CallsAreNear /\ PW!ActiveWaitIsSeen
    /\ tool = "stall_window" => SW!ReportIsOfTheWindow /\ SW!GapIsSilence /\ SW!LongGapIsReported

(* PressureSampler, StallProbe, FrameLimit.  A sampler's rows stand where they *)
(* should, add up, and give a verdict only of what was sampled.                *)
RowsAreTrue ==
    /\ tool = "pressure_sampler" => PS!NoRowIsNegative /\ PS!RowsDoNotDrift /\ PS!StopIsHonoured
    /\ tool = "pressure_sampler_io" => PSI!RowsTile
    /\ tool = "stall_probe" => PR!ProcessRowsAreRegular /\ PR!ThreadRowsAreRegular
    /\ tool = "frame_limit" => FL!CpuVerdictIsTrue /\ FL!GpuVerdictIsTrue /\ FL!CapFallIsTold

(* CsDeadlock, DisplayLock, FreezeCapture, StallWatch, DxtWitness.  A tool that *)
(* says what a frozen game waits for says the truth, and says it.              *)
VerdictsAreTrue ==
    /\ tool = "cs_deadlock" => CD!BlamesRealMiss /\ CD!BlamesCommand /\ CD!FallbackNeedsNoCpu
    /\ tool = "cs_deadlock_racy" => CDR!BlamesRealMiss /\ CDR!ClearsDrained
    /\ tool = "display_lock" => DL!RecursiveIsReal /\ DL!PairIsAcquisition /\ DL!FreezeIsNamed
    /\ tool = "display_lock_alone" => DLA!RecursiveIsReal /\ DLA!PairIsAcquisition
    /\ tool = "dxt_witness" => DW!VerdictIsTrue /\ DW!FirstMismatchIsOne /\ DW!ComparisonsAreBounded
    /\ tool = "dxt_witness_alone" => DWA!VerdictIsTrue /\ DWA!ComparisonsAreBounded
    /\ tool = "freeze_capture" => FC!ThreadsAreClassified /\ FC!FrozenProcessShowsIt
    /\ tool = "stall_watch" => WT!CaptureIsOfAStall /\ WT!StallIsCaught /\ WT!LogStallIsCaught

(* Autoload.  "kept loading a different save and quietly measuring the wrong    *)
(* scene": lost keys and unclear pictures never lead the route into another     *)
(* save, one loss in a step is forgiven, a capture is of its own action and     *)
(* the pages are locked while the scene is measured.                            *)
MeasuresChosenSave ==
    tool = "autoload" =>
        /\ AL!MeasuresChosenSave /\ AL!OneLossIsForgiven
        /\ AL!CapturesOwnSound /\ AL!LocksCoverMeasurement

-----------------------------------------------------------------------------
(* What must end, ends. *)

\* A script goes on while it can; so do wined3d's threads.
ScriptStep ==
    /\ UNCHANGED tool
    /\ \/ tool = "link_reach" /\ LR!Next /\ Keep9
       \/ tool = "present_latency" /\ PL!Wined3d /\ Keep11
       \/ tool = "autoload" /\ AL!Script /\ Keep16
       \/ /\ tool = "stall_watch_end" /\ Keep15
          /\ \/ WTE!PollGame \/ WTE!PollCs \/ WTE!LoseGame \/ WTE!Arm \/ WTE!Pass
             \/ WTE!Wake \/ WTE!Sample \/ WTE!Vanish \/ WTE!Burst
       \/ /\ tool = "stall_probe" /\ Keep16
          /\ \/ PR!Pass \/ PR!Find \/ PR!ProcessRow \/ PR!Gone \/ PR!ThreadRows \/ PR!Wake

GameAccepts == UNCHANGED tool /\ tool = "autoload" /\ AL!Accept /\ Keep16
ThreadSteps(t) == UNCHANGED tool /\ tool = "listener_end" /\ LSE!Step(t) /\ Keep11

Fairness ==
    /\ WF_vars(ScriptStep) /\ WF_vars(GameAccepts)
    /\ \A t \in {u1, u2} : WF_vars(ThreadSteps(t))

FairSpec == Spec /\ Fairness

(* LinkReach, Autoload, StallWatch, StallProbe.  A walk of a closure, the       *)
(* route to the saved game and the two watchers come to an end, whatever the    *)
(* game does.                                                                  *)
ToolsEnd ==
    <>(\/ tool = "link_reach" /\ LR!Done
       \/ tool = "autoload" /\ AL!RouteOver
       \/ tool = "stall_watch_end" /\ WTE!Ended
       \/ tool = "stall_probe" /\ PR!ProbeOver
       \/ tool \in {"present_latency", "listener_end"})

(* PresentLatency, ListenerSlots.  No present waits for a token for good and    *)
(* no add_listener for the registry's mutex, those that fail or are refused     *)
(* included.                                                                   *)
NobodyWaitsForGood ==
    /\ []<>(tool = "present_latency" => PL!NoPresentWaits)
    /\ \A t \in {u1, u2} :
          (tool = "listener_end" /\ LSE!Calling(t)) ~> (tool = "listener_end" /\ LSE!Returned(t))

=============================================================================
