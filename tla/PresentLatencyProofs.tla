------------------------ MODULE PresentLatencyProofs ------------------------
(* Token conservation and what the census may show, for any number of         *)
(* presenting threads, presents and raises of the limit.                      *)
EXTENDS PresentLatency, TLAPS

\* What a half-read census remembers is never above the limit once the releases
\* are subtracted: releases and, while it is only raised, the limit grow.
CensusInv == ~CanLower => /\ census.pc = "half" => census.acquires - releases <= limit
                          /\ census.shown <= limit

LatencyInv == TypeOK /\ TokensConserved /\ CountersAgree /\ CensusInv

\* A limit is a natural number whatever the device is asked for.
LEMMA LimitIsNat == ASSUME NEW l \in Nat PROVE LimitFor(l) \in Nat
BY DEF LimitFor

\* The inductive invariant holds of a new swapchain.
LEMMA InitInv ==
    ASSUME ThreadAssumption, LatencyAssumption, LowerAssumption, BoundAssumption
    PROVE  Init => LatencyInv
<1> SUFFICES ASSUME Init PROVE LatencyInv
  OBVIOUS
<1>1. limit \in Nat
  BY LimitIsNat DEF LatencyAssumption, Init
<1>2. TypeOK
  BY <1>1 DEF ThreadAssumption, BoundAssumption, Init, TypeOK, Places, Busy
<1>3. TokensConserved /\ CountersAgree /\ CensusInv
  BY <1>1 DEF Init, TokensConserved, CountersAgree, CensusInv, Held, Executing, Places
<1> QED BY <1>2, <1>3 DEF LatencyInv

\* No step of a thread, the command stream, the application or the census
\* breaks it.
LEMMA NextInv ==
    ASSUME ThreadAssumption, LatencyAssumption, LowerAssumption, BoundAssumption
    PROVE  LatencyInv /\ [Next]_vars => LatencyInv'
<1> SUFFICES ASSUME LatencyInv, [Next]_vars PROVE LatencyInv'
  OBVIOUS
<1> USE DEF ThreadAssumption, LatencyAssumption, LowerAssumption, BoundAssumption
<1>1. CASE Enter
  <2>1. CASE tokens > 0
    BY <1>1, <2>1 DEF Enter, LatencyInv, TypeOK, TokensConserved, CountersAgree, CensusInv, Busy, Held, Executing, Places
  <2>2. CASE ~(tokens > 0)
    BY <1>1, <2>2 DEF Enter, LatencyInv, TypeOK, TokensConserved, CountersAgree, CensusInv, Busy, Held, Executing, Places
  <2> QED BY <2>1, <2>2
<1>2. CASE Wake
  BY <1>2 DEF Wake, Move, LatencyInv, TypeOK, TokensConserved, CountersAgree, CensusInv, Busy, Held, Executing, Places
<1>3. CASE CountAcquire
  BY <1>3 DEF CountAcquire, Move, LatencyInv, TypeOK, TokensConserved, CountersAgree, CensusInv, Busy, Held, Executing, Places
<1>4. CASE Queue
  BY <1>4 DEF Queue, LatencyInv, TypeOK, TokensConserved, CountersAgree, CensusInv, Busy, Held, Executing, Places
<1>5. CASE NoBackBuffers
  BY <1>5 DEF NoBackBuffers, Move, LatencyInv, TypeOK, TokensConserved, CountersAgree, CensusInv, Busy, Held, Executing, Places
<1>6. CASE ReturnToken
  BY <1>6 DEF ReturnToken, LatencyInv, TypeOK, TokensConserved, CountersAgree, CensusInv, Busy, Held, Executing, Places
<1>7. CASE Execute
  BY <1>7 DEF Execute, LatencyInv, TypeOK, TokensConserved, CountersAgree, CensusInv, Busy, Held, Executing, Places
<1>8. CASE CountRelease
  BY <1>8 DEF CountRelease, LatencyInv, TypeOK, TokensConserved, CountersAgree, CensusInv, Busy, Held, Executing, Places
<1>9. CASE Release
  BY <1>9 DEF Release, LatencyInv, TypeOK, TokensConserved, CountersAgree, CensusInv, Busy, Held, Executing, Places
<1>10. ASSUME NEW l \in Latencies, SetLatency(l) PROVE LatencyInv'
  <2>1. LimitFor(l) \in Nat
    BY LimitIsNat
  <2> QED BY <1>10, <2>1 DEF SetLatency, LatencyInv, TypeOK, TokensConserved, CountersAgree, CensusInv, Busy, Held, Executing, Places, Larger
<1>11. CASE ReadAcquires
  BY <1>11 DEF ReadAcquires, LatencyInv, TypeOK, TokensConserved, CountersAgree, CensusInv, Busy, Held, Executing, Places
<1>12. CASE ReadReleases
  BY <1>12 DEF ReadReleases, LatencyInv, TypeOK, TokensConserved, CountersAgree, CensusInv, Busy, Held, Executing, Places
<1>13. CASE UNCHANGED vars
  BY <1>13 DEF vars, LatencyInv, TypeOK, TokensConserved, CountersAgree, CensusInv, Busy, Held, Executing, Places
<1> QED
  BY <1>1, <1>2, <1>3, <1>4, <1>5, <1>6, <1>7, <1>8, <1>9, <1>10, <1>11, <1>12, <1>13
  DEF Next, Wined3d

\* The inductive invariant of the semaphore, its counters and its census.
THEOREM LatencyInvariant ==
    ASSUME ThreadAssumption, LatencyAssumption, LowerAssumption, BoundAssumption
    PROVE  Spec => []LatencyInv
<1>1. Init => LatencyInv
  BY InitInv
<1>2. LatencyInv /\ [Next]_vars => LatencyInv'
  BY NextInv
<1> QED BY <1>1, <1>2, PTL DEF Spec

\* Every variable of the semaphore keeps its type; no token count is negative.
THEOREM LatencyTypes ==
    ASSUME ThreadAssumption, LatencyAssumption, LowerAssumption, BoundAssumption
    PROVE  Spec => []TypeOK
<1>1. LatencyInv => TypeOK
  BY DEF LatencyInv
<1> QED BY <1>1, LatencyInvariant, PTL

\* Patch 80: no token is lost or invented while the limit is only raised.
THEOREM TokensAreConserved ==
    ASSUME ThreadAssumption, LatencyAssumption, LowerAssumption, BoundAssumption
    PROVE  Spec => []TokensConserved
<1>1. LatencyInv => TokensConserved
  BY DEF LatencyInv
<1> QED BY <1>1, LatencyInvariant, PTL

\* The public counters differ by the presents under way at every instant.
THEOREM CountersDoAgree ==
    ASSUME ThreadAssumption, LatencyAssumption, LowerAssumption, BoundAssumption
    PROVE  Spec => []CountersAgree
<1>1. LatencyInv => CountersAgree
  BY DEF LatencyInv
<1> QED BY <1>1, LatencyInvariant, PTL

\* A census taken word by word from a running game never shows more presents in
\* flight than the limit.
THEOREM CensusIsModest ==
    ASSUME ThreadAssumption, LatencyAssumption, LowerAssumption, BoundAssumption
    PROVE  Spec => []CensusNeverOverstates
<1>1. LatencyInv => CensusNeverOverstates
  BY DEF LatencyInv, CensusInv, CensusNeverOverstates
<1> QED BY <1>1, LatencyInvariant, PTL

=============================================================================
