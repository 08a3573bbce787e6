----------------------------- MODULE GapCapture -----------------------------
(***************************************************************************)
(* dxvk_gap_trigger_capture.py: a reader outside the game polls the        *)
(* 32-bit count of presents, and when the count has stood still for a      *)
(* threshold it probes the game's threads and follows one of them.  A      *)
(* probe takes time during which the count is not read; the game presents  *)
(* when it likes.  Ghost variables remember when it really did.            *)
(***************************************************************************)
EXTENDS Integers, Sequences, FiniteSets

CONSTANTS
    Interval,     \* ticks between two reads of the count
    ProbeTime,    \* ticks a probe sleeps
    Thresholds,   \* the thresholds, ascending
    MaxGaps,      \* gaps kept
    ReadFollow,   \* ticks between two looks at the followed thread
    MaxReads,     \* read events kept of a gap
    Tids,         \* the threads a probe selects, 1 the main one, in its order
    Sigs,         \* what a read call can decode to
    Late,         \* whether the reader can be scheduled late
    Width,        \* the count's modulus (2^32)
    MaxTime       \* bound: ticks explored

GapCaptureAssumption ==
    /\ Interval \in Nat \ {0} /\ ProbeTime \in Nat \ {0} /\ MaxTime \in Nat /\ Width \in Nat \ {0}
    /\ Thresholds \in Seq(Nat \ {0}) /\ Thresholds # <<>>
    /\ MaxGaps \in Nat \ {0} /\ ReadFollow \in Nat \ {0} /\ MaxReads \in Nat \ {0}
    /\ Tids \subseteq Nat \ {0} /\ Sigs \subseteq Nat \ {0} /\ Late \in BOOLEAN

VARIABLES
    now, count,             \* the clock and the game's count
    pc,                     \* "wait", "probe" or "over"
    deadline, probeEnd,     \* when the reader wakes
    previous, lastPresent,  \* the count last seen and when it was seen to change
    idle,                   \* idle_ms as computed before the probes of this turn
    gap, gaps,              \* active_gap, and the finished ones
    nextFollow,
    before, first, last,    \* ghosts: the present last counted, the first and the last since
    sampled, startLag,      \* ghosts: when the count was last read; how late the change was seen
    missed                  \* ghost: a long interval went by without a gap

reader == <<pc, deadline, probeEnd, previous, lastPresent, idle, gap, gaps, nextFollow>>
truth == <<before, first, last, sampled, startLag, missed>>
vars == <<now, count, reader, truth>>

NoGap == [start |-> -1]
Never == MaxTime + 1000

Init ==
    /\ now = 0 /\ count \in {0, Width - 1}
    /\ pc = "wait" /\ deadline = Interval /\ probeEnd = 0
    /\ previous = count /\ lastPresent = 0 /\ idle = 0
    /\ gap = NoGap /\ gaps = <<>> /\ nextFollow = 0
    /\ before = 0 /\ first = -1 /\ last = 0 /\ sampled = 0 /\ startLag = 0 /\ missed = FALSE

Due == \/ pc = "wait" /\ now >= deadline
       \/ pc = "probe" /\ now >= probeEnd

Tick ==
    /\ now < MaxTime /\ pc # "over"
    /\ Late \/ ~Due
    /\ now' = now + 1
    /\ UNCHANGED <<count, reader, truth>>

\* The game presents, at most once a tick, and never a whole turn of the count
\* between two reads of it.
Present ==
    /\ pc # "over" /\ last < now
    /\ (count + 1) % Width # previous
    /\ count' = (count + 1) % Width
    /\ first' = (IF first = -1 THEN now ELSE first)
    /\ last' = now
    /\ UNCHANGED <<now, reader, before, sampled, startLag, missed>>

\* A gap is finished; real and the lags are ghosts.
Closed(g, delta) ==
    [start |-> g.start, end |-> now, delta |-> delta, probes |-> g.probes, reads |-> g.reads,
     follows |-> g.follows, real |-> first - before,
     startLag |-> startLag, endLag |-> now - sampled]

\* The count moved: the active gap, if there is one, is over.
SeesPresent ==
    /\ gaps' = (IF gap # NoGap THEN Append(gaps, Closed(gap, (count - previous) % Width)) ELSE gaps)
    /\ gap' = NoGap
    /\ previous' = count /\ lastPresent' = now

\* A read call that differs from the last one noted.
NoteRead(g, tid, sig) ==
    IF sig # 0 /\ sig # g.signature /\ Len(g.reads) < MaxReads
    THEN [g EXCEPT !.reads = Append(@, [tick |-> now, tid |-> tid, sig |-> sig]), !.signature = sig]
    ELSE g

\* One look at the followed thread; what it is doing is any signature or none.
Follows == gap # NoGap /\ gap.follow # 0 /\ now >= nextFollow /\ Len(gap.reads) < MaxReads
Looked(sig) == IF Follows THEN NoteRead(gap, gap.follow, sig) ELSE gap

Opened == [start |-> lastPresent, probes |-> <<>>, index |-> 1, reads |-> <<>>, signature |-> 0,
           follow |-> 0, follows |-> <<>>]

\* Mutant: the threshold does not move on with the probes.
NextThresholdFirst(g) == IF g = NoGap \/ g.index <= Len(Thresholds) THEN Thresholds[1] ELSE Never
\* The threshold that is waited for.
NextThreshold(g) ==
    IF g = NoGap THEN Thresholds[1]
    ELSE IF g.index <= Len(Thresholds) THEN Thresholds[g.index] ELSE Never

\* One turn of the polling loop, up to the first probe.
Sample ==
    /\ pc = "wait" /\ now >= deadline
    /\ deadline' = deadline + Interval
    /\ sampled' = now
    /\ \/ /\ count # previous
          /\ SeesPresent
          /\ before' = last /\ first' = -1
          /\ startLag' = now - sampled
          /\ missed' = (missed \/ (gap = NoGap /\ Len(gaps) < MaxGaps
                                   /\ first - before >= Thresholds[1] + Interval
                                                        + ProbeTime * Len(Thresholds)))
          /\ UNCHANGED <<pc, probeEnd, idle, nextFollow>>
       \/ /\ count = previous
          /\ idle' = now - lastPresent
          /\ nextFollow' = (IF Follows THEN now + ReadFollow ELSE nextFollow)
          /\ \E sig \in (IF Follows THEN Sigs ELSE {}) \cup {0} :
               LET g == Looked(sig)
               IN IF idle' < NextThreshold(g) \/ Len(gaps) >= MaxGaps
                  THEN gap' = g /\ UNCHANGED <<pc, probeEnd>>
                  ELSE /\ gap' = (IF g = NoGap THEN Opened ELSE g)
                       /\ pc' = "probe" /\ probeEnd' = now + ProbeTime
          /\ UNCHANGED <<previous, lastPresent, gaps, before, first, startLag, missed>>
    /\ UNCHANGED <<now, count, last>>

\* One selected thread of a probe: a reader is followed from now on.
Direct(g, tid, sig) ==
    IF sig = 0 THEN g
    ELSE NoteRead(IF g.follow = tid THEN g
                  ELSE [g EXCEPT !.follow = tid,
                                 !.follows = Append(@, [tick |-> now, tid |-> tid, why |-> "direct-read"])],
                  tid, sig)

\* Without a reader, the first active worker is followed, if none is yet.
Worker(g, active) ==
    LET w == {t \in active : t # 1}
        t == CHOOSE x \in w : \A y \in w : x <= y
    IN IF w = {} \/ g.follow # 0 THEN g
       ELSE [g EXCEPT !.follow = t,
                      !.follows = Append(@, [tick |-> now, tid |-> t, why |-> "top-active"])]

\* What a probe leaves in the gap: its row, the thread to follow, the next threshold.
Probed(g, obs, active) ==
    LET h == [g EXCEPT !.probes = Append(@, [tick |-> now, threshold |-> Thresholds[g.index]])]
        d[i \in 0..Cardinality(Tids)] == IF i = 0 THEN h ELSE Direct(d[i - 1], i, obs[i])
        r == d[Cardinality(Tids)]
        w == IF \E i \in Tids : obs[i] # 0 THEN r ELSE Worker(r, active)
    IN [w EXCEPT !.index = @ + 1]

\* A probe returns; idle is still that of the turn's beginning.
Probe ==
    /\ pc = "probe" /\ now >= probeEnd
    /\ \E obs \in [Tids -> Sigs \cup {0}] : \E active \in SUBSET Tids :
         gap' = Probed(gap, obs, active)
    /\ IF gap'.index <= Len(Thresholds) /\ idle >= NextThreshold(gap')
       THEN pc' = "probe" /\ probeEnd' = now + ProbeTime
       ELSE pc' = "wait" /\ UNCHANGED probeEnd
    /\ UNCHANGED <<now, count, deadline, previous, lastPresent, idle, gaps, nextFollow, truth>>

\* A signal, the last window or the game's exit: the active gap is kept.
Stop ==
    /\ pc = "wait"
    /\ pc' = "over"
    /\ gaps' = (IF gap # NoGap THEN Append(gaps, Closed(gap, 0)) ELSE gaps)
    /\ gap' = NoGap
    /\ UNCHANGED <<now, count, deadline, probeEnd, previous, lastPresent, idle, nextFollow, truth>>

Next == Tick \/ Present \/ Sample \/ Probe \/ Stop

Spec == Init /\ [][Next]_vars

-----------------------------------------------------------------------------
Ranges(s) == {s[i] : i \in DOMAIN s}

TypeOK ==
    /\ now \in 0..MaxTime /\ count \in 0..(Width - 1) /\ pc \in {"wait", "probe", "over"}
    /\ previous \in 0..(Width - 1) /\ lastPresent \in 0..now
    /\ gap # NoGap => gap.start \in 0..now /\ gap.follow \in Tids \cup {0}
    /\ Len(gaps) <= MaxGaps

\* A finished gap's length is off by less than the reader was late: at the
\* start by the turn that saw the last present, at the end by the last turn.
RealWithinOneTurn ==
    \A g \in Ranges(gaps) : g.delta # 0 =>
        /\ g.end - g.start <= g.real + g.endLag
        /\ g.real <= g.end - g.start + g.startLag

\* A reader that is on time records every interval without a present that
\* outlasts the first threshold by one turn and the probes of one turn.
EveryLongGapIsSeen == ~missed

\* The report reads as a story: gaps follow each other, every probe of a gap
\* lies inside it and the thresholds are probed once, in ascending order.
ReportIsOrdered ==
    /\ \A i \in 1..(Len(gaps) - 1) : gaps[i].end <= gaps[i + 1].start
    /\ \A g \in Ranges(gaps) : \A i \in DOMAIN g.probes :
         /\ g.probes[i].tick \in g.start..g.end
         /\ g.probes[i].threshold = Thresholds[i]
         /\ g.probes[i].threshold <= g.end - g.start

\* A read event is of the thread that the gap's last follow event before it
\* announced, and a thread caught reading is not given up for a busy one.
ReadsAreOfTheFollowed ==
    \A g \in Ranges(gaps) :
        /\ \A r \in Ranges(g.reads) : \E f \in Ranges(g.follows) :
             f.tid = r.tid /\ f.tick <= r.tick
        /\ \A i \in 2..Len(g.follows) : g.follows[i].why = "direct-read"

=============================================================================
