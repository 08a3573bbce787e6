------------------------------ MODULE PresentAb ------------------------------
(***************************************************************************)
(* The present A/B run and its reader, present_ab_read.py: the driver      *)
(* flips the arm every block, sync async async sync, in one live game; the *)
(* reader pairs the blocks of the log and says whether removing the GPU    *)
(* wait shortens the frame.                                                *)
(*                                                                         *)
(* Times are in tenths of a millisecond.                                   *)
(***************************************************************************)
EXTENDS Integers, Sequences, FiniteSets, FiniteSetsExt, SequencesExt

CONSTANTS
    Blocks,    \* blocks the driver runs
    Scenes,    \* frame times a scene may start at
    Effects,   \* what the async arm may save per frame
    Drifts,    \* change of the frame time from block to block
    Jumps,     \* sudden changes of it, up or down
    MaxJumps, MaxLost, MaxShort, \* bounds on jumps, lost lines and short blocks
    Period,    \* compositor period: 167
    CapK,      \* multiples of it that are caps: 2
    BlockFrames \* frames of a block

TimeAssumption == Scenes \subseteq Nat \ {0} /\ Effects \subseteq Nat /\ Drifts \subseteq Nat /\ Jumps \subseteq Nat
BlockAssumption == /\ Blocks \in Nat /\ MaxJumps \in Nat /\ MaxLost \in Nat /\ MaxShort \in Nat
                   /\ Period \in Nat \ {0} /\ CapK \in Nat /\ BlockFrames \in Nat \ {0}

VARIABLES
    scene,  \* frame time of the scene in the sync arm, without the compositor
    effect, \* what the async arm saves
    works,  \* does the switch do anything?
    drift,
    next,   \* index of the next block
    log,    \* the lines of the log
    jumps, losses, shorts

vars == <<scene, effect, works, drift, next, log, jumps, losses, shorts>>
fixed == <<effect, works, drift>>

ArmOrder == <<"sync", "async", "async", "sync">>
ArmOf(i) == ArmOrder[(i % 4) + 1]

-----------------------------------------------------------------------------
(* The driver and the game. *)

Init == /\ scene \in Scenes /\ effect \in Effects /\ works \in BOOLEAN /\ drift \in Drifts
        /\ next = 0 /\ log = <<>> /\ jumps = 0 /\ losses = 0 /\ shorts = 0

MinFt == 4 * Period

\* What is shown of a frame: a whole number of periods while frames are short;
\* a frame as long as four of them is what it is.
Delivered(ft) == IF ft >= MinFt THEN ft ELSE ((ft + Period - 1) \div Period) * Period

Line(n) == [block |-> next, arm |-> ArmOf(next), frames |-> n,
            wait |-> IF ArmOf(next) = "async" /\ works THEN 10 ELSE 100,
            ft |-> Delivered(IF ArmOf(next) = "async" /\ works THEN scene - effect ELSE scene)]

\* mgs_ab_tick(): a block ends and its line is logged, in full, or with a frame missing, or it
\* is VOID or lost from a trimmed log.
Block == /\ next < Blocks
         /\ \/ log' = Append(log, Line(BlockFrames)) /\ UNCHANGED <<losses, shorts>>
            \/ shorts < MaxShort /\ log' = Append(log, Line(BlockFrames - 1))
               /\ shorts' = shorts + 1 /\ UNCHANGED losses
            \/ losses < MaxLost /\ losses' = losses + 1 /\ UNCHANGED <<log, shorts>>
         /\ next' = next + 1
         /\ scene' = scene + drift
         /\ UNCHANGED jumps /\ UNCHANGED fixed

\* A door opens into a new room.
Jump == \E j \in Jumps \cup {-k : k \in Jumps} :
           /\ jumps < MaxJumps /\ next < Blocks
           /\ scene + j > 0
           /\ scene' = scene + j /\ jumps' = jumps + 1
           /\ UNCHANGED <<next, log, losses, shorts>> /\ UNCHANGED fixed

Next == Block \/ Jump
Spec == Init /\ [][Next]_vars

-----------------------------------------------------------------------------
(* The reader. *)

LineOf(i) == CHOOSE l \in Range(log) : l.block = i
Logged(i) == \E l \in Range(log) : l.block = i

\* Mutant: blocks are paired by their place in the log.
Cycles_ByPlace == {[p \in 1..4 |-> log[s + p]] : s \in {x \in 0..Len(log) - 4 : x % 4 = 0}}

\* cycles_of(): four consecutive blocks by the driver's own index.
Cycles == {[p \in 1..4 |-> LineOf(s + p - 1)] :
             s \in {x \in 0..next : x % 4 = 0 /\ \A p \in 0..3 : Logged(x + p)}}

Positions(q, arm) == {p \in 1..4 : q[p].arm = arm}
Sum2(q, S, key(_)) == MapThenSumSet(LAMBDA p : key(q[p]), S)
Ft(l) == l.ft
FramesOf(l) == l.frames

\* arm_delta(), doubled: async minus sync.
ArmDelta(q) == Sum2(q, Positions(q, "async"), Ft) - Sum2(q, Positions(q, "sync"), Ft)

Size(x) == IF x >= 0 THEN x ELSE -x

\* "The two sync blocks bracket the cycle": within 15% of their mean.
Stable(q) == 200 * Size(q[1].ft - q[4].ft) <= 15 * (q[1].ft + q[4].ft)

\* cap_multiple(): within 3% of a multiple.
Capped(l) == \E k \in 1..CapK : 100 * Size(l.ft - k * Period) <= 3 * k * Period
Deep(q) == \A p \in 1..4 : q[p].ft >= MinFt

StableCycles == {q \in Cycles : Stable(q)}
Free == {q \in StableCycles : (\A p \in 1..4 : ~Capped(q[p])) /\ Deep(q)}
AnyCap == \E l \in Range(log) : Capped(l)

\* "scope = free if cap is not None else quads"
Scope == IF AnyCap THEN Free ELSE StableCycles

Balanced(q) == LET ns == Sum2(q, Positions(q, "sync"), FramesOf)
                   na == Sum2(q, Positions(q, "async"), FramesOf)
               IN 100 * Size(na - ns) <= 2 * ns

Used == LET balanced == {q \in Scope : Balanced(q)}
        IN IF balanced # {} THEN balanced ELSE Scope

\* statistics.median(), doubled, of a bag given by f over a finite set.
Median2(f, S) ==
    LET s == SortSeq(SetToSeq(S), LAMBDA a, b : f[a] <= f[b])
        n == Len(s)
    IN IF n % 2 = 1 THEN 2 * f[s[(n + 1) \div 2]] ELSE f[s[n \div 2]] + f[s[n \div 2 + 1]]

Waits(arm) == {i \in DOMAIN log : log[i].arm = arm}

\* Control 1: the async arm's wait is under half of the sync arm's.
Collapsed == 2 * Median2([i \in DOMAIN log |-> log[i].wait], Waits("async"))
               < Median2([i \in DOMAIN log |-> log[i].wait], Waits("sync"))

\* med, times four, and the median sync frame time, times two.
Effect4 == Median2([q \in Used |-> ArmDelta(q)], Used)
SyncBlocks == {<<q, p>> : q \in Used, p \in {1, 4}}
Base2 == Median2([b \in SyncBlocks |-> b[1][b[2]].ft], SyncBlocks)

\* The bootstrap of a median of up to four cycles runs from the least to the
\* greatest; that of one cycle is not a number, and crosses everything.
CrossesZero == \/ Cardinality(Used) < 2
               \/ ~ \/ \A q \in Used : ArmDelta(q) > 0
                    \/ \A q \in Used : ArmDelta(q) < 0

\* --threshold, in percent of the frame time.
BelowThreshold == 100 * Size(Effect4) < 2 * 2 * Base2

Verdict == IF Cycles = {} \/ Scope = {} THEN "REFUSAL"
           ELSE IF ~Collapsed THEN "VOID"
           ELSE IF BelowThreshold \/ CrossesZero THEN "NULL"
           ELSE IF Effect4 < 0 THEN "WIN" ELSE "WORSE"

-----------------------------------------------------------------------------
\* The log is a part of the blocks that were run, in order.
TypeOK == /\ next \in 0..Blocks /\ scene \in Int
          /\ \A i \in DOMAIN log : /\ log[i].block \in 0..next - 1 /\ log[i].arm = ArmOf(log[i].block)
                                   /\ i > 1 => log[i - 1].block < log[i].block
          /\ Verdict \in {"REFUSAL", "VOID", "NULL", "WIN", "WORSE"}

DeepUsed == \A q \in Used : Deep(q)
Saved == IF works THEN effect ELSE 0

\* ABBA cancels a drift: without a jump, the estimate of deep cycles is what the
\* async arm saves, whatever lines are lost.
DriftCancels == jumps = 0 /\ Cycles # {} /\ Scope # {} /\ DeepUsed => Effect4 = -4 * Saved

\* One jump the stability filter lets pass shifts a cycle by at most half of
\* what the two sync blocks may disagree, 15% of their mean.
JumpIsBounded ==
    \A q \in StableCycles : Deep(q) /\ jumps <= 1 /\ drift = 0 =>
        200 * Size(ArmDelta(q) + 2 * Saved) <= 15 * (q[1].ft + q[4].ft)

\* "a failed manipulation check closes nothing": no verdict about a switch that
\* did nothing.
NoVerdictWithoutSwitch == ~works => Verdict \in {"REFUSAL", "VOID"}
=============================================================================
