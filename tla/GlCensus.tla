------------------------------ MODULE GlCensus ------------------------------
(***************************************************************************)
(* gl_census_delta.py against the running game.                            *)
(*                                                                         *)
(* wined3d's command-stream thread counts its GL calls in records of the   *)
(* guest DLL and, for calls the native island makes, in the island's copy. *)
(* The tool finds the copies by their magic, samples the counters twice    *)
(* and divides by the frames presented meanwhile.  It never stops the      *)
(* game: a sample is a sequence of reads of counters that go on moving.    *)
(***************************************************************************)
EXTENDS Integers, FiniteSets, FiniteSetsExt

CONSTANTS
    Copies,    \* the places a record can live: the guest DLL, the island
    Names,     \* functions with a histogram site
    PerFrame,  \* calls a frame makes at most
    MaxFrames, \* bound on the frames
    Interval,  \* frames per line of the presenter's log
    HasFrm,    \* does the build carry the FRM1 frame record?
    Leaky      \* may the cache lose a call: neither skip it nor make it?

CensusAssumption == PerFrame \in Nat /\ MaxFrames \in Nat /\ Interval \in Nat \ {0}
BuildAssumption == HasFrm \in BOOLEAN /\ Leaky \in BOOLEAN

VARIABLES
    loaded,  \* the copies that exist
    cnt,     \* the counters of each copy
    current, \* the copy a call is counted in and not finished in, or None
    inFrame, \* calls made in this frame
    frames,  \* FRM1's presented_frames
    leaks,   \* calls the cache lost
    pc,      \* the tool
    found,   \* the copies found by the first scan
    kept,    \* what it has sampled
    raced    \* did a call move while a scanned record was copied?

vars == <<loaded, cnt, current, inFrame, frames, leaks, pc, found, kept, raced>>
game == <<loaded, cnt, current, inFrame, frames, leaks>>

None == "none"
Counter == {"attempted", "skipped", "executed"}
Total(f, S) == MapThenSumSet(LAMBDA c : f[c], S)
Attempted(S) == Total([c \in Copies |-> cnt[c].attempted], S)
Finished(S) == Total([c \in Copies |-> cnt[c].skipped + cnt[c].executed], S)
Skipped(S) == Total([c \in Copies |-> cnt[c].skipped], S)
HistogramOf(S) == [n \in Names |-> Total([c \in Copies |-> cnt[c].calls[n]], S)]

-----------------------------------------------------------------------------
(* The game. *)

Init == /\ \E guest \in Copies : loaded = {guest}
        /\ cnt = [c \in Copies |-> [attempted |-> 0, skipped |-> 0, executed |-> 0,
                                    calls |-> [n \in Names |-> 0]]]
        /\ current = None /\ inFrame = 0 /\ frames = 0 /\ leaks = 0
        /\ pc = "find" /\ found = {} /\ raced = FALSE
        /\ kept = [f0 |-> 0, before |-> 0, sites0 |-> [n \in Names |-> 0],
                   att0 |-> 0, fin0 |-> 0, skp0 |-> 0,
                   after |-> 0, sites1 |-> [n \in Names |-> 0],
                   att1 |-> 0, fin1 |-> 0, skp1 |-> 0, f1 |-> 0,
                   opening |-> 0, truth |-> 0, sitesOpening |-> 0, sitesTruth |-> 0,
                   leaks0 |-> 0, leaks1 |-> 0]

\* While the tool is inside the copy of a scanned record.
Copying == pc \in {"scanned0", "scanned1"}

\* The island's copy appears when its code is mapped.
Load == \E c \in Copies \ loaded :
           /\ loaded' = loaded \cup {c}
           /\ UNCHANGED <<cnt, current, inFrame, frames, leaks, pc, found, kept, raced>>

Attempt == \E c \in loaded, n \in Names :
              /\ current = None /\ inFrame < PerFrame /\ frames < MaxFrames
              /\ cnt' = [cnt EXCEPT ![c].attempted = @ + 1, ![c].calls[n] = @ + 1]
              /\ current' = c /\ inFrame' = inFrame + 1
              /\ raced' = (raced \/ Copying)
              /\ UNCHANGED <<loaded, frames, leaks, pc, found, kept>>

Finish == /\ current # None
          /\ \/ cnt' = [cnt EXCEPT ![current].skipped = @ + 1] /\ UNCHANGED leaks
             \/ cnt' = [cnt EXCEPT ![current].executed = @ + 1] /\ UNCHANGED leaks
             \/ Leaky /\ leaks' = leaks + 1 /\ UNCHANGED cnt
          /\ current' = None
          /\ raced' = (raced \/ Copying)
          /\ UNCHANGED <<loaded, inFrame, frames, pc, found, kept>>

Present == /\ current = None /\ frames < MaxFrames
           /\ frames' = frames + 1 /\ inFrame' = 0
           /\ UNCHANGED <<loaded, cnt, current, leaks, pc, found, kept, raced>>

-----------------------------------------------------------------------------
(* The tool, in the order of main(). *)

\* Mutant: the copies are taken to be where they always were.
Find_Assumed == /\ pc = "find"
                /\ found' = Copies
                /\ pc' = "frames0"
                /\ UNCHANGED <<kept, raced>> /\ UNCHANGED game

\* find_records(), find_call_records(): every copy there is at this moment.
Find == /\ pc = "find"
        /\ found' = loaded
        /\ pc' = "frames0"
        /\ UNCHANGED <<kept, raced>> /\ UNCHANGED game

\* FRM1, or else the steps the presenter logs.
FrameCount == IF HasFrm THEN frames ELSE (frames \div Interval) * Interval

FirstFrames == /\ pc = "frames0"
               /\ kept' = [kept EXCEPT !.f0 = FrameCount]
               /\ pc' = "fixed0"
               /\ UNCHANGED <<found, raced>> /\ UNCHANGED game

\* Mutant: the first sample is of one copy.
FixedBefore_OneCopy ==
    /\ pc = "fixed0"
    /\ \E c \in found : kept' = [kept EXCEPT !.before = cnt[c].attempted, !.opening = Attempted(Copies)]
    /\ pc' = "sites0"
    /\ UNCHANGED <<found, raced>> /\ UNCHANGED game

\* sample() at the addresses found.
FixedBefore == /\ pc = "fixed0"
               /\ kept' = [kept EXCEPT !.before = Attempted(found), !.opening = Attempted(Copies)]
               /\ pc' = "sites0"
               /\ UNCHANGED <<found, raced>> /\ UNCHANGED game

\* sample_calls(), sample_ext(), sample_shadow(), summed by name.
SitesBefore == /\ pc = "sites0"
               /\ kept' = [kept EXCEPT !.sites0 = HistogramOf(found),
                                       !.sitesOpening = Attempted(Copies)]
               /\ pc' = "attempted0"
               /\ UNCHANGED <<found, raced>> /\ UNCHANGED game

\* read_lca_stats(), read_txm_stats(): a new scan; attempted is the first word.
ScanAttempted(from, to) ==
    /\ pc = from
    /\ kept' = IF from = "attempted0" THEN [kept EXCEPT !.att0 = Attempted(loaded)]
                                      ELSE [kept EXCEPT !.att1 = Attempted(loaded)]
    /\ raced' = (raced \/ current # None)
    /\ pc' = to
    /\ UNCHANGED found /\ UNCHANGED game

ScanFinished(from, to) ==
    /\ pc = from
    /\ kept' = IF from = "scanned0"
               THEN [kept EXCEPT !.fin0 = Finished(loaded), !.skp0 = Skipped(loaded),
                                   !.leaks0 = leaks]
               ELSE [kept EXCEPT !.fin1 = Finished(loaded), !.skp1 = Skipped(loaded),
                                   !.leaks1 = leaks]
    /\ pc' = to
    /\ UNCHANGED <<found, raced>> /\ UNCHANGED game

FixedAfter == /\ pc = "fixed1"
              /\ kept' = [kept EXCEPT !.after = Attempted(found),
                                      !.truth = Attempted(Copies) - kept.opening]
              /\ pc' = "sites1"
              /\ UNCHANGED <<found, raced>> /\ UNCHANGED game

SitesAfter == /\ pc = "sites1"
              /\ kept' = [kept EXCEPT !.sites1 = HistogramOf(found),
                                      !.sitesTruth = Attempted(Copies) - kept.sitesOpening]
              /\ pc' = "attempted1"
              /\ UNCHANGED <<found, raced>> /\ UNCHANGED game

LastFrames == /\ pc = "frames1"
              /\ kept' = [kept EXCEPT !.f1 = FrameCount]
              /\ pc' = "done"
              /\ UNCHANGED <<found, raced>> /\ UNCHANGED game

Tool == \/ Find \/ FirstFrames \/ FixedBefore \/ SitesBefore
        \/ ScanAttempted("attempted0", "scanned0") \/ ScanFinished("scanned0", "fixed1")
        \/ FixedAfter \/ SitesAfter
        \/ ScanAttempted("attempted1", "scanned1") \/ ScanFinished("scanned1", "frames1")
        \/ LastFrames
Next == Load \/ Attempt \/ Finish \/ Present \/ Tool
Spec == Init /\ [][Next]_vars

-----------------------------------------------------------------------------
(* What main() reports. *)

NFrames == kept.f1 - kept.f0
Delta == kept.after - kept.before

SiteDelta(n) == kept.sites1[n] - kept.sites0[n]
HistogramTotal == Total([n \in Names |-> SiteDelta(n)], Names)

\* The light cache and the texture-matrix cache count all three.
CacheIdentity == kept.att1 - kept.att0 = kept.fin1 - kept.fin0

-----------------------------------------------------------------------------
\* Counters never run backwards, and the tool's samples are counts.
TypeOK == /\ loaded \subseteq Copies /\ found \subseteq loaded
          /\ \A c \in Copies : /\ \A k \in Counter : cnt[c][k] \in Nat
                               /\ cnt[c].calls \in [Names -> Nat]
          /\ current \in Copies \cup {None} /\ inFrame \in 0..PerFrame
          /\ frames \in 0..MaxFrames /\ leaks \in Nat /\ raced \in BOOLEAN
          /\ pc \in {"find", "frames0", "fixed0", "sites0", "attempted0", "scanned0",
                     "fixed1", "sites1", "attempted1", "scanned1", "frames1", "done"}

\* The rates per frame are not overstated: the frames are counted over a window
\* that contains both samples, so a call of the window belongs to a frame of it
\* or to the one under way; the log's steps add the frames of one interval.
RateNotOverstated ==
    pc = "done" => Delta <= PerFrame * (NFrames + (IF HasFrm THEN 1 ELSE Interval))

\* No call outside the window of its two samples is reported, and with every
\* copy found at the start none is missing.
DeltaIsTheWindow ==
    pc = "done" => /\ Delta \in 0..kept.truth
                   /\ found = Copies => Delta = kept.truth

\* The same of the histograms, whose sites may be new since the first sample.
HistogramIsTheWindow ==
    pc = "done" => /\ HistogramTotal \in 0..kept.sitesTruth
                   /\ found = Copies => HistogramTotal = kept.sitesTruth

LostOne == kept.leaks1 > kept.leaks0

\* When no call was under way while the record was copied, FAIL is said exactly
\* if the cache lost a call of the window.
IdentityTellsLoss == pc = "done" /\ ~raced => (CacheIdentity <=> ~LostOne)

=============================================================================
