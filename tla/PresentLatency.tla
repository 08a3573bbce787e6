--------------------------- MODULE PresentLatency ---------------------------
(***************************************************************************)
(* The present frame-latency semaphore of wined3d (patch 80) and the       *)
(* census that watches it from outside (PSW2 of gl_census_delta.py).       *)
(*                                                                         *)
(* Presenting threads take a token before the D3D mutex and queue a        *)
(* PRESENT; the command-stream thread gives the token back after it has    *)
(* executed it.  The two public counters are bumped beside the semaphore,  *)
(* not with it, and the census copies one word after the other.            *)
(*                                                                         *)
(* Threads have no identity here: at says how many stand at each place of  *)
(* wined3d_swapchain_present().                                            *)
(***************************************************************************)
EXTENDS Integers

CONSTANTS
    Threads,      \* how many threads present
    FirstLatency, \* device->max_frame_latency when the swapchain is created
    Latencies,    \* the values it is set to later
    CanLower,     \* may it be set below what it is?
    MaxPresents,  \* bound on the presents
    MaxChanges    \* bound on the changes of the latency

ThreadAssumption == Threads \in Nat
LatencyAssumption == FirstLatency \in Nat /\ Latencies \subseteq Nat
LowerAssumption == CanLower \in BOOLEAN
BoundAssumption == MaxPresents \in Nat /\ MaxChanges \in Nat

VARIABLES
    limit,     \* swapchain->max_frame_latency
    highest,   \* the highest limit there has been
    tokens,    \* the count of frame_latency_semaphore
    at,        \* threads at: blocked, taken, counted, returning
    queued,    \* PRESENT packets in the queue
    cs,        \* the command-stream thread: idle, executing, releasing
    acquires,  \* mgs2_present_watch.acquires
    releases,  \* mgs2_present_watch.releases
    changes,   \* changes of the latency made
    census     \* the census: words read so far, and what it shows

vars == <<limit, highest, tokens, at, queued, cs, acquires, releases, changes, census>>

Places == {"blocked", "taken", "counted", "returning"}
Larger(a, b) == IF a >= b THEN a ELSE b

\* "Subtract 1 for the implicit OpenGL latency."
LimitFor(latency) == IF latency >= 2 THEN latency - 1 ELSE 1

Init == /\ limit = LimitFor(FirstLatency) /\ highest = limit
        /\ tokens = limit
        /\ at = [p \in Places |-> 0]
        /\ queued = 0 /\ cs = "idle"
        /\ acquires = 0 /\ releases = 0 /\ changes = 0
        /\ census = [pc |-> "start", acquires |-> 0, releases |-> 0, shown |-> 0]

Busy == at["blocked"] + at["taken"] + at["counted"] + at["returning"]
Move(p, q) == at' = [at EXCEPT ![p] = at[p] - 1, ![q] = at[q] + 1]

-----------------------------------------------------------------------------
(* wined3d_swapchain_present() *)

\* The zero-timeout attempt: a token at once, or the blocking wait.
Enter == /\ Busy < Threads
         /\ acquires + at["blocked"] + at["taken"] < MaxPresents
         /\ IF tokens > 0
            THEN /\ tokens' = tokens - 1
                 /\ at' = [at EXCEPT !["taken"] = at["taken"] + 1]
            ELSE /\ UNCHANGED tokens
                 /\ at' = [at EXCEPT !["blocked"] = at["blocked"] + 1]
         /\ UNCHANGED <<limit, highest, queued, cs, acquires, releases, changes, census>>

Wake == /\ at["blocked"] > 0 /\ tokens > 0
        /\ tokens' = tokens - 1
        /\ Move("blocked", "taken")
        /\ UNCHANGED <<limit, highest, queued, cs, acquires, releases, changes, census>>

CountAcquire == /\ at["taken"] > 0
                /\ acquires' = acquires + 1
                /\ Move("taken", "counted")
                /\ UNCHANGED <<limit, highest, tokens, queued, cs, releases, changes, census>>

Queue == /\ at["counted"] > 0
         /\ at' = [at EXCEPT !["counted"] = at["counted"] - 1]
         /\ queued' = queued + 1
         /\ UNCHANGED <<limit, highest, tokens, cs, acquires, releases, changes, census>>

\* Mutant: the early return keeps the token.
NoBackBuffers_KeepsToken ==
    /\ at["counted"] > 0
    /\ at' = [at EXCEPT !["counted"] = at["counted"] - 1]
    /\ UNCHANGED <<limit, highest, tokens, queued, cs, acquires, releases, changes, census>>

\* The early return without back buffers counts the token back first.
NoBackBuffers == /\ at["counted"] > 0
                 /\ releases' = releases + 1
                 /\ Move("counted", "returning")
                 /\ UNCHANGED <<limit, highest, tokens, queued, cs, acquires, changes, census>>

ReturnToken == /\ at["returning"] > 0
               /\ tokens' = tokens + 1
               /\ at' = [at EXCEPT !["returning"] = at["returning"] - 1]
               /\ UNCHANGED <<limit, highest, queued, cs, acquires, releases, changes, census>>

-----------------------------------------------------------------------------
(* wined3d_cs_exec_present() *)

Execute == /\ cs = "idle" /\ queued > 0
           /\ cs' = "executing" /\ queued' = queued - 1
           /\ UNCHANGED <<limit, highest, tokens, at, acquires, releases, changes, census>>

CountRelease == /\ cs = "executing"
                /\ cs' = "releasing" /\ releases' = releases + 1
                /\ UNCHANGED <<limit, highest, tokens, at, queued, acquires, changes, census>>

Release == /\ cs = "releasing"
           /\ cs' = "idle" /\ tokens' = tokens + 1
           /\ UNCHANGED <<limit, highest, at, queued, acquires, releases, changes, census>>

-----------------------------------------------------------------------------
\* Mutant: a raised limit hands out as many tokens as the limit.
SetLatency_HandsOutAll(latency) ==
    /\ changes < MaxChanges
    /\ CanLower \/ LimitFor(latency) >= limit
    /\ changes' = changes + 1
    /\ tokens' = tokens + (IF LimitFor(latency) > limit THEN LimitFor(latency) ELSE 0)
    /\ limit' = LimitFor(latency)
    /\ highest' = Larger(highest, LimitFor(latency))
    /\ UNCHANGED <<at, queued, cs, acquires, releases, census>>

\* swapchain_set_max_frame_latency(): a raised limit hands out the difference,
\* a lowered one takes nothing back.
SetLatency(latency) ==
    /\ changes < MaxChanges
    /\ CanLower \/ LimitFor(latency) >= limit
    /\ changes' = changes + 1
    /\ tokens' = tokens + (IF LimitFor(latency) > limit THEN LimitFor(latency) - limit ELSE 0)
    /\ limit' = LimitFor(latency)
    /\ highest' = Larger(highest, LimitFor(latency))
    /\ UNCHANGED <<at, queued, cs, acquires, releases, census>>

-----------------------------------------------------------------------------
(* read_psw2_stats(): a copy of the record, in the order of its words. *)

ReadAcquires == /\ census.pc = "start"
                /\ census' = [pc |-> "half", acquires |-> acquires,
                              releases |-> census.releases, shown |-> census.shown]
                /\ UNCHANGED <<limit, highest, tokens, at, queued, cs, acquires, releases, changes>>

\* Mutant: the acquires are looked up after the releases were.
ReadReleases_BeforeAcquires ==
    /\ census.pc = "half"
    /\ census' = [pc |-> "start", acquires |-> acquires, releases |-> releases,
                  shown |-> acquires - census.releases]
    /\ UNCHANGED <<limit, highest, tokens, at, queued, cs, acquires, releases, changes>>

\* The report's "in flight".
ReadReleases == /\ census.pc = "half"
                /\ census' = [pc |-> "start", acquires |-> census.acquires,
                              releases |-> releases, shown |-> census.acquires - releases]
                /\ UNCHANGED <<limit, highest, tokens, at, queued, cs, acquires, releases, changes>>

-----------------------------------------------------------------------------
Wined3d == \/ Wake \/ CountAcquire \/ Queue \/ NoBackBuffers \/ ReturnToken
           \/ Execute \/ CountRelease \/ Release
Next == \/ Enter \/ Wined3d
        \/ \E latency \in Latencies : SetLatency(latency)
        \/ ReadAcquires \/ ReadReleases

\* A thread that is not blocked goes on, and the command stream executes what is
\* queued.  Nothing obliges the game to present again.
Fairness == WF_vars(Wined3d)
Spec == Init /\ [][Next]_vars /\ Fairness

-----------------------------------------------------------------------------
TypeOK == /\ limit \in Nat /\ highest \in Nat /\ tokens \in Nat
          /\ at \in [Places -> Nat] /\ Busy <= Threads
          /\ queued \in Nat /\ cs \in {"idle", "executing", "releasing"}
          /\ acquires \in Nat /\ releases \in Nat /\ changes \in 0..MaxChanges
          /\ census \in [pc : {"start", "half"}, acquires : Nat, releases : Nat, shown : Int]

Held == at["taken"] + at["counted"] + at["returning"]
Executing == IF cs = "idle" THEN 0 ELSE 1

\* Patch 80, "token conservation, which is the only way this fails": every token
\* is in the semaphore, with a presenting thread, queued, or with the command
\* stream, and there are as many as the limit, also while the limit is raised.
TokensConserved == ~CanLower => tokens + Held + queued + Executing = limit

\* mgs2_present_watch: at every instant the gap between the two counters is the
\* presents that hold a counted token, so it is never negative and never above
\* the limit.
CountersAgree ==
    /\ acquires - releases =
          at["counted"] + queued + (IF cs = "executing" THEN 1 ELSE 0)
    /\ ~CanLower => acquires - releases <= limit

\* gl_census_delta.py:888: the words are copied one after the other from a game
\* that goes on; "in flight" never shows more presents than the limit allows, so
\* a wedged command stream is never announced for a healthy one.
CensusNeverOverstates == ~CanLower => census.shown <= limit

\* wined3d_swapchain_present(): no thread waits for good; every present, also one
\* that fails for want of back buffers, leaves the next one its token.
NoPresentWaits == at["blocked"] = 0 /\ Held = 0 /\ queued = 0 /\ cs = "idle"

=============================================================================
