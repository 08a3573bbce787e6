------------------------------ MODULE GroupCost ------------------------------
(***************************************************************************)
(* The cost of a group of uniform uploads, as gl_census_delta.py derives   *)
(* it from the duration histograms of two arms (TXT1 by slot count, UCT1): *)
(* cache off (A) and cache on (B), alternating while the game runs.        *)
(*                                                                         *)
(* Times are in half microseconds, so that the middle of a bin is whole.   *)
(***************************************************************************)
EXTENDS Integers, FiniteSetsExt

CONSTANTS
    Slots,     \* slot counts of a group: the strata
    FineBins,  \* bins of one microsecond: 32
    StepUs,    \* width of the bins after them: 32
    LastBin,   \* the bin of everything longer: 39
    TailUs,    \* what the last bin counts as: 256
    MinGroups, \* 30
    MaxBefore, \* bound on the groups before the first sample
    MaxGroups  \* bound on the groups

BinAssumption == FineBins \in Nat /\ StepUs \in Nat \ {0} /\ LastBin \in Nat
GroupAssumption == Slots \subseteq Nat /\ MinGroups \in Nat \ {0} /\ MaxGroups \in Nat
                   /\ MaxBefore \in Nat
TailAssumption == TailUs \in Nat

VARIABLES
    hist,    \* hist[arm][slots][bin], cumulative
    uploads, \* uploads[arm][slots], cumulative
    hist0, uploads0, \* the first sample of both
    sampled  \* has it been taken?

vars == <<hist, uploads, hist0, uploads0, sampled>>

Arms == {"A", "B"}
Bins == 0..LastBin
TotalOf(f, S) == MapThenSumSet(LAMBDA x : f[x], S)
Groups(h) == TotalOf(h, Bins)

\* uct_bin_us(), doubled.
BinUs(k) == IF k < FineBins THEN 2 * k + 1
            ELSE IF k < LastBin THEN 2 * (FineBins + (k - FineBins) * StepUs) + StepUs
                 ELSE 2 * TailUs

\* uct_quantile(hist, 0.5): the first bin up to which half the groups lie.
MedianBin(h) == CHOOSE k \in Bins : /\ 2 * TotalOf(h, 0..k) >= Groups(h)
                                    /\ \A j \in Bins : 2 * TotalOf(h, 0..j) >= Groups(h) => k <= j

-----------------------------------------------------------------------------
Zero == [a \in Arms |-> [s \in Slots |-> [k \in Bins |-> 0]]]
ZeroUploads == [a \in Arms |-> [s \in Slots |-> 0]]

Init == /\ hist = Zero /\ uploads = ZeroUploads
        /\ hist0 = Zero /\ uploads0 = ZeroUploads
        /\ sampled = FALSE

All == TotalOf([a \in Arms |-> TotalOf([s \in Slots |-> Groups(hist[a][s])], Slots)], Arms)

\* The game times a group of s slots: arm A uploads each, arm B what is cold.
Group == \E a \in Arms, s \in Slots, k \in Bins :
            /\ All < (IF sampled THEN MaxGroups ELSE MaxBefore)
            /\ hist' = [hist EXCEPT ![a][s][k] = @ + 1]
            /\ \E u \in (IF a = "A" THEN {s} ELSE {0, s}) :
                 uploads' = [uploads EXCEPT ![a][s] = @ + u]
            /\ UNCHANGED <<hist0, uploads0, sampled>>

\* read_txt_stats(), the first of two.
Sample == /\ ~sampled
          /\ hist0' = hist /\ uploads0' = uploads /\ sampled' = TRUE
          /\ UNCHANGED <<hist, uploads>>

Next == Group \/ Sample
Spec == Init /\ [][Next]_vars

-----------------------------------------------------------------------------
(* The report. *)

\* "this window"
Window(a, s) == [k \in Bins |-> hist[a][s][k] - hist0[a][s][k]]
WindowUploads(a, s) == uploads[a][s] - uploads0[a][s]

\* Are the groups enough, and did arm B upload less per group than arm A?
Counted(s) == LET ga == Groups(Window("A", s))
                  gb == Groups(Window("B", s))
              IN /\ ga >= MinGroups /\ gb >= MinGroups
                 /\ WindowUploads("A", s) * gb > WindowUploads("B", s) * ga

StratumSaving(s) ==
    (Groups(Window("A", s)) + Groups(Window("B", s)))
      * (BinUs(MedianBin(Window("A", s))) - BinUs(MedianBin(Window("B", s))))

\* Mutant: the medians of all strata together.
Saving_Pooled ==
    LET pool(a) == [k \in Bins |-> TotalOf([s \in Slots |-> Window(a, s)[k]], Slots)]
    IN IF \E s \in Slots : Counted(s)
       THEN BinUs(MedianBin(pool("A"))) - BinUs(MedianBin(pool("B"))) ELSE 0

\* total_saving_us: groups times uploads saved times saving per upload, in which
\* the uploads cancel.
Saving == LET counted == {s \in Slots : Counted(s)}
          IN TotalOf([s \in counted |-> StratumSaving(s)], counted)

-----------------------------------------------------------------------------
\* Cumulative counts, of which the first sample saw a part.
TypeOK == /\ sampled \in BOOLEAN
          /\ \A a \in Arms, s \in Slots :
               /\ \A k \in Bins : hist[a][s][k] \in Nat /\ hist0[a][s][k] \in 0..hist[a][s][k]
               /\ uploads[a][s] \in Nat /\ uploads0[a][s] \in 0..uploads[a][s]

\* The median is a group that was timed, with at most half of the groups below
\* it and at most half above.
MedianIsTheMiddle ==
    \A a \in Arms, s \in Slots :
       LET h == Window(a, s)  m == MedianBin(h)
       IN Groups(h) > 0 => /\ h[m] > 0
                           /\ 2 * TotalOf(h, {k \in Bins : k < m}) < Groups(h)
                           /\ 2 * TotalOf(h, {k \in Bins : k > m}) <= Groups(h)

\* What the game did since the first sample, whatever the tool makes of it.
Since(a, s) == [k \in Bins |-> hist[a][s][k] - hist0[a][s][k]]
SameShape(g, h) == \A k \in Bins : g[k] * Groups(h) = h[k] * Groups(g)

\* "a pooled median moves for that reason and not the cache": when each stratum
\* takes the same time in both arms, the saving is nothing, whatever groups the
\* arms met and whatever went before the window.
NoEffectNoSaving ==
    (\A s \in Slots : SameShape(Since("A", s), Since("B", s))) => Saving = 0
=============================================================================
