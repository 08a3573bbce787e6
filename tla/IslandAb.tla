------------------------------ MODULE IslandAb ------------------------------
(***************************************************************************)
(* The island A/B run and its reader, island_ab_read.py: one entry of the  *)
(* native island is switched between its ARM and its guest body every 64   *)
(* displayed frames; each line of the log is a cycle with the frame time   *)
(* and the calls of both arms.                                             *)
(*                                                                         *)
(* Both arms of a cycle have as many frames, so times and calls stand for  *)
(* the whole cycle: a frame rate times a constant.                         *)
(***************************************************************************)
EXTENDS Integers, Sequences, FiniteSets, FiniteSetsExt, SequencesExt

CONSTANTS
    Costs,     \* cost of a call, per arm
    Weights,   \* calls an arm may make in a cycle
    MaxCycles, \* bound on the cycles
    Tolerance, \* --tolerance, percent: 2
    Width,     \* --plateau-width, percent: 5
    Interval   \* frames per line of the launcher's own frame counter

CostAssumption == Costs \subseteq Nat \ {0} /\ Weights \subseteq Nat
ReaderAssumption == MaxCycles \in Nat /\ Tolerance \in Nat /\ Width \in Nat /\ Interval \in Nat \ {0}

VARIABLES
    cost,    \* what a call costs: [routed, unrouted]
    wrapper, \* has the binary an A/B wrapper for the entry?
    log,     \* the completed cycles
    ticks,   \* displayed frames counted by the harness
    frames   \* frames of the launcher's "present stats" lines

vars == <<cost, wrapper, log, ticks, frames>>
Arms == {"routed", "unrouted"}

-----------------------------------------------------------------------------
(* The run. *)

Init == /\ cost \in [Arms -> Costs]
        /\ wrapper \in BOOLEAN
        /\ log = <<>> /\ ticks = 0 /\ frames = 0

\* Without a wrapper both arms run routed, and nothing counts the calls.
CycleOf(r, u) ==
    [calls |-> IF wrapper THEN [routed |-> r, unrouted |-> u] ELSE [routed |-> 0, unrouted |-> 0],
     time |-> [routed |-> r * cost["routed"],
               unrouted |-> u * cost[IF wrapper THEN "unrouted" ELSE "routed"]]]

\* mgs2_island_ab_frame() at the end of a cycle: four blocks, here of one frame.
Cycle == \E r, u \in Weights :
            /\ Len(log) < MaxCycles
            /\ log' = Append(log, CycleOf(r, u))
            /\ ticks' = ticks + 4
            /\ frames' = ((ticks + 4) \div Interval) * Interval
            /\ UNCHANGED <<cost, wrapper>>

Next == Cycle
Spec == Init /\ [][Next]_vars

-----------------------------------------------------------------------------
(* The reader. *)

Larger(a, b) == IF a >= b THEN a ELSE b
Size(x) == IF x >= 0 THEN x ELSE -x
Calls(c, arm) == log[c].calls[arm]
Diff(c) == log[c].time["routed"] - log[c].time["unrouted"]
Silent(c) == Calls(c, "routed") = 0 /\ Calls(c, "unrouted") = 0

\* Control 1: zero calls in both arms of every cycle.
Refused == \A c \in DOMAIN log : Silent(c)

\* imbalance(): relative to the arm with more calls; no calls at all is not
\* balanced.
BalancedCycle(c) ==
    LET most == Larger(Calls(c, "routed"), Calls(c, "unrouted"))
    IN /\ most > 0
       /\ 100 * Size(Calls(c, "routed") - Calls(c, "unrouted")) <= Tolerance * most

Balanced == {c \in DOMAIN log : BalancedCycle(c)}

\* The group of balanced cycles from an anchor's call count up.
Group(anchor) == {c \in Balanced : /\ Calls(c, "routed") >= Calls(anchor, "routed")
                                   /\ 100 * Calls(c, "routed") <= (100 + Width) * Calls(anchor, "routed")}

\* "the largest cluster of balanced cycles at one workload"
Plateau == IF Balanced = {} THEN {}
           ELSE Group(CHOOSE a \in Balanced :
                        \A b \in Balanced : Cardinality(Group(b)) <= Cardinality(Group(a)))

\* work_normalised(): cycles whose arms both made calls, and the difference of
\* their cost per call, as a fraction.
Normalisable == {c \in DOMAIN log : Calls(c, "routed") > 0 /\ Calls(c, "unrouted") > 0}

\* Mutant: both arms are divided by the calls of the routed one.
PerCall_Routed(c) == [num |-> Diff(c), den |-> Calls(c, "routed")]

PerCall(c) == [num |-> log[c].time["routed"] * Calls(c, "unrouted")
                         - log[c].time["unrouted"] * Calls(c, "routed"),
               den |-> Calls(c, "routed") * Calls(c, "unrouted")]

-----------------------------------------------------------------------------
\* Every cycle has both arms, and the launcher's counter lags by less than one
\* of its blocks.
TypeOK == /\ cost \in [Arms -> Nat] /\ wrapper \in BOOLEAN
          /\ \A c \in DOMAIN log : log[c].calls \in [Arms -> Nat] /\ log[c].time \in [Arms -> Nat]
          /\ ticks - frames \in 0..Interval - 1

\* A binary without the wrapper, where both arms ran routed, is refused; one
\* with it is refused only if the entry was never called.
MissingWrapperIsRefused ==
    log # <<>> => /\ ~wrapper => Refused
                  /\ Refused /\ wrapper => \A c \in DOMAIN log : log[c].time["unrouted"] = 0

\* The balance filter: in the cycles it keeps the scene cannot turn an arm that
\* is cheaper per call, by more than the tolerance, into the dearer one.
SceneCannotFlipSign ==
    \A c \in Balanced :
       /\ 100 * cost["routed"] < (100 - Tolerance) * cost["unrouted"] => Diff(c) < 0
       /\ 100 * cost["unrouted"] < (100 - Tolerance) * cost["routed"] => Diff(c) > 0

\* "scene weight cancels": whatever the arms were given to draw, each cycle shows
\* the difference of the costs per call.
WeightCancels ==
    \A c \in Normalisable :
        PerCall(c).num = (cost["routed"] - cost["unrouted"]) * PerCall(c).den

\* No set of balanced cycles within the plateau width is larger than the plateau.
PlateauIsLargest ==
    \A S \in SUBSET Balanced :
       (\A a, b \in S : 100 * Calls(b, "routed") <= (100 + Width) * Calls(a, "routed"))
          => Cardinality(S) <= Cardinality(Plateau)
=============================================================================
