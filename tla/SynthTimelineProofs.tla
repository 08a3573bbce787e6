------------------------ MODULE SynthTimelineProofs -------------------------
(* The timeline of the sink after a suspend, for any sample rate, buffer,     *)
(* lead, gate and any number of suspends, notes and failing clocks: the queue *)
(* follows the mapping, and what a rebase achieves is what it is for.         *)
EXTENDS SynthTimeline, SequenceTheorems, FiniteSetTheorems, TLAPS

\* What the constants of the sink are assumed to be.
Assumed == SizeAssumption /\ InputAssumption /\ BoundAssumption /\ GateAssumption

-----------------------------------------------------------------------------
(* Division and remainder.                                                 *)

\* An integer is a multiple of d and a remainder.
LEMMA Divided ==
    ASSUME NEW n \in Int, NEW d \in Nat \ {0}
    PROVE  \E q \in Int, r \in 0 .. d - 1, m \in Int :
              n \div d = q /\ n % d = r /\ d * q = m /\ n = m + r /\ (n >= 0 => q >= 0)
<1>1. PICK q \in Int : n \div d = q /\ (n >= 0 => q >= 0)
  BY Z3
<1>2. PICK r \in 0 .. d - 1 : n % d = r
  BY Z3
<1>3. PICK m \in Int : d * q = m
  BY Z3
<1>4. n - m = n % d
  <2>1. d * (n \div d) = m
    BY <1>1, <1>3
  <2> QED
    BY <2>1, Z3
<1>5. n = m + r
  BY <1>2, <1>4
<1> QED
  BY <1>1, <1>2, <1>3, <1>5

\* Products distribute.
LEMMA Products ==
    ASSUME NEW d \in Nat, NEW j \in Int, NEW k \in Int
    PROVE  /\ d * j \in Int /\ d * k \in Int /\ d * (j + k) = d * j + d * k
           /\ d * (-j) = -(d * j) /\ d * (j + 1) = d * j + d /\ d * (j - k) = d * j - d * k
           /\ j >= 0 => d * j >= 0
  BY Z3

\* A number has one remainder.
LEMMA Remainder ==
    ASSUME NEW d \in Nat \ {0}, NEW n \in Int, NEW q \in Int, NEW r \in 0 .. d - 1,
           n = d * q + r
    PROVE  n % d = r
  BY Z3

\* Moving a position by what it lacks to l moves its remainder to that of l.
LEMMA Moved ==
    ASSUME NEW d \in Nat \ {0}, NEW a \in Int, NEW l \in Int
    PROVE  (a + ((l - (a % d) + d) % d)) % d = l % d
<1>1. PICK aq \in Int, ar \in 0 .. d - 1, am \in Int :
         /\ a \div d = aq /\ a % d = ar /\ d * aq = am /\ a = am + ar
         /\ a >= 0 => aq >= 0
  BY Divided
<1>2. PICK lq \in Int, lr \in 0 .. d - 1, lm \in Int :
         /\ l \div d = lq /\ l % d = lr /\ d * lq = lm /\ l = lm + lr
         /\ l >= 0 => lq >= 0
  BY Divided
<1>3. PICK x \in Int : x = l - ar + d
  OBVIOUS
<1>4. PICK xq \in Int, xr \in 0 .. d - 1, xm \in Int :
         /\ x \div d = xq /\ x % d = xr /\ d * xq = xm /\ x = xm + xr
         /\ x >= 0 => xq >= 0
  BY Divided
<1>5. PICK q \in Int : q = (aq - xq) + (lq + 1)
  OBVIOUS
<1>6. d * q = am - xm + lm + d
  <2>1. d * (aq - xq) = am - xm /\ d * (lq + 1) = lm + d
    BY <1>1, <1>2, <1>4, Products
  <2>2. aq - xq \in Int /\ lq + 1 \in Int
    OBVIOUS
  <2>3. d * q = d * (aq - xq) + d * (lq + 1)
    BY <1>5, <2>2, Products
  <2> QED
    BY <2>1, <2>3
<1>7. a + xr \in Int /\ d * q \in Int /\ a + xr = d * q + lr
  BY <1>1, <1>2, <1>3, <1>4, <1>6
<1>8. (a + xr) % d = lr
  BY <1>7, Remainder
<1>9. l - (a % d) + d = x
  BY <1>1, <1>3
<1>10. (l - (a % d) + d) % d = xr
  BY <1>4, <1>9, Zenon
<1>11. (a + ((l - (a % d) + d) % d)) % d = lr
  BY <1>8, <1>10, Zenon
<1> QED
  BY <1>2, <1>11

\* A remainder is not above a natural number it is the remainder of.
LEMMA RemainderIsLess ==
    ASSUME NEW d \in Nat \ {0}, NEW n \in Nat
    PROVE  n % d \in 0 .. d - 1 /\ n % d <= n
<1>1. PICK q \in Int, r \in 0 .. d - 1, m \in Int :
         n \div d = q /\ n % d = r /\ d * q = m /\ n = m + r /\ (n >= 0 => q >= 0)
  BY Divided
<1>2. m >= 0
  BY <1>1, Products
<1> QED
  BY <1>1, <1>2

\* The truncated quotient: its multiple of d is not above a time after the
\* anchor, and less than a sample above one before it.
LEMMA Truncated ==
    ASSUME NEW d \in Nat \ {0}, NEW n \in Int
    PROVE  \E q \in Int, m \in Int :
              /\ Trunc(n, d) = q /\ d * q = m
              /\ n >= 0 => q >= 0 /\ n - m \in 0 .. d - 1
              /\ n < 0 => q <= 0 /\ m - n \in 0 .. d - 1
<1>1. CASE n < 0
  <2>1. PICK q \in Int, r \in 0 .. d - 1, m \in Int :
           (-n) \div d = q /\ d * q = m /\ -n = m + r /\ q >= 0
    <3>1. -n \in Int /\ -n >= 0
      BY <1>1
    <3> QED
      BY <3>1, Divided
  <2>2. Trunc(n, d) = -q
    BY <1>1, <2>1 DEF Trunc
  <2>3. d * (-q) = -m
    BY <2>1, Products
  <2>4. -q \in Int /\ -m \in Int /\ -q <= 0 /\ (-m) - n \in 0 .. d - 1
    BY <2>1
  <2> QED
    BY <1>1, <2>2, <2>3, <2>4
<1>2. CASE n >= 0
  <2>1. PICK q \in Int, r \in 0 .. d - 1, m \in Int :
           n \div d = q /\ d * q = m /\ n = m + r /\ q >= 0
    BY <1>2, Divided
  <2>2. Trunc(n, d) = q
    BY <1>2, <2>1 DEF Trunc
  <2>3. n - m \in 0 .. d - 1
    BY <2>1
  <2> QED
    BY <1>2, <2>1, <2>2, <2>3
<1> QED
  BY <1>1, <1>2

-----------------------------------------------------------------------------
(* The units, and what each conversion loses.                              *)

\* The derived constants are the numbers they stand for.
LEMMA Units ==
    ASSUME Assumed
    PROVE  /\ Hz \in Nat \ {0} /\ Buf \in Nat \ {0} /\ Second \in Nat \ {0}
           /\ Coarse \in Nat \ {0} /\ Ticks \in Nat \ {0} /\ Millis \in Nat \ {0}
           /\ Grain \in Nat /\ Block \in Nat \ {0} /\ Second \div Millis \in Nat
<1>1. /\ Hz \in Nat \ {0} /\ Buf \in Nat \ {0} /\ Coarse \in Nat \ {0} /\ Ticks \in Nat \ {0}
      /\ Millis \in Nat \ {0} /\ Period \in Nat /\ Millis <= Period * Hz
  BY DEF Assumed, SizeAssumption
<1>2. Second \in Nat \ {0}
  BY <1>1, Z3 DEF Second
<1>3. Grain \in Nat
  <2>1. Coarse - 1 \in Nat /\ Ticks - 1 \in Nat
    BY <1>1
  <2>2. Hz * (Coarse - 1) \in Nat /\ Coarse * (Ticks - 1) \in Nat
    BY <1>1, <2>1, Products
  <2> QED
    BY <2>2 DEF Grain
<1>4. Block \in Nat \ {0}
  <2>1. PICK n \in Nat : Period * Hz = n /\ n >= Millis
    BY <1>1, Products
  <2>2. PICK q \in Int, r \in 0 .. Millis - 1, m \in Int :
           n \div Millis = q /\ n % Millis = r /\ Millis * q = m /\ n = m + r /\ (n >= 0 => q >= 0)
    BY <1>1, Divided
  <2>3. q # 0
    <3>1. SUFFICES ASSUME q = 0 PROVE FALSE
      OBVIOUS
    <3>2. m = 0
      BY <1>1, <2>2, <3>1, Products
    <3> QED
      BY <1>1, <2>1, <2>2, <3>2
  <2> QED
    BY <2>1, <2>2, <2>3 DEF Block
<1>5. Second \div Millis \in Nat
  <2>1. PICK n \in Nat : Second = n
    BY <1>2
  <2>2. n \div Millis \in Nat
    BY <1>1, Divided
  <2> QED
    BY <2>1, <2>2
<1> QED
  BY <1>1, <1>2, <1>3, <1>4, <1>5

\* A mapped time is at most a grain from its position: ahead of the anchor the
\* position falls short, behind it it goes beyond.
LEMMA Mapped ==
    ASSUME Assumed, NEW n \in Int
    PROVE  \E p \in Int, b \in Int :
              /\ Trunc(Trunc(n, Coarse) * Hz, Ticks) = p /\ n * Hz - p * Second = b
              /\ n >= 0 => b \in 0 .. Grain
              /\ n < 0 => -b \in 0 .. Grain
<1>1. Hz \in Nat \ {0} /\ Coarse \in Nat \ {0} /\ Ticks \in Nat \ {0} /\ Grain \in Nat
  BY Units
<1>2. PICK q \in Int, m \in Int :
         /\ Trunc(n, Coarse) = q /\ Coarse * q = m
         /\ n >= 0 => q >= 0 /\ n - m \in 0 .. Coarse - 1
         /\ n < 0 => q <= 0 /\ m - n \in 0 .. Coarse - 1
  BY <1>1, Truncated
<1>3. PICK x \in Int : q * Hz = x /\ (q >= 0 => x >= 0) /\ (q <= 0 => x <= 0)
  BY <1>1, Z3
<1>4. PICK p \in Int, k \in Int :
         /\ Trunc(x, Ticks) = p /\ Ticks * p = k
         /\ x >= 0 => p >= 0 /\ x - k \in 0 .. Ticks - 1
         /\ x < 0 => p <= 0 /\ k - x \in 0 .. Ticks - 1
  BY <1>1, Truncated
<1>5. PICK b \in Int : n * Hz - p * Second = b
  BY <1>1, Z3 DEF Second
<1>6. PICK u \in Int, v \in Int : u = n - m /\ v = x - k
  OBVIOUS
<1>7. b = Hz * u + Coarse * v
  <2>1. b = n * Hz - p * (Coarse * Ticks)
    BY <1>5 DEF Second
  <2>2. u = n - Coarse * q /\ v = q * Hz - Ticks * p
    BY <1>2, <1>3, <1>4, <1>6
  <2> QED
    BY <1>1, <2>1, <2>2, Z3
<1>8. Grain = Hz * (Coarse - 1) + Coarse * (Ticks - 1)
  BY DEF Grain
<1>9. CASE n >= 0
  <2>1. u \in 0 .. Coarse - 1 /\ v \in 0 .. Ticks - 1
    BY <1>2, <1>3, <1>4, <1>6, <1>9
  <2>2. Hz * u \in 0 .. Hz * (Coarse - 1) /\ Coarse * v \in 0 .. Coarse * (Ticks - 1)
    BY <1>1, <2>1, Z3
  <2>3. b \in 0 .. Grain
    BY <1>1, <1>7, <1>8, <2>2
  <2> QED
    BY <1>2, <1>3, <1>4, <1>5, <1>9, <2>3
<1>10. CASE n < 0
  <2>1. -u \in 0 .. Coarse - 1
    BY <1>2, <1>6, <1>10
  <2>2. -v \in 0 .. Ticks - 1
    <3>1. x <= 0
      BY <1>2, <1>3, <1>10
    <3>2. CASE x < 0
      BY <1>4, <1>6, <3>2
    <3>3. CASE x = 0
      <4>1. k = 0
        <5>1. k <= 0 /\ k > -Ticks /\ Ticks * p = k /\ p >= 0
          BY <1>1, <1>4, <3>3
        <5>2. Ticks * p >= 0
          BY <1>1, <5>1, Products
        <5> QED
          BY <5>1, <5>2
      <4> QED
        BY <1>1, <1>6, <3>3, <4>1
    <3> QED
      BY <3>1, <3>2, <3>3
  <2>3. Hz * (-u) \in 0 .. Hz * (Coarse - 1) /\ Coarse * (-v) \in 0 .. Coarse * (Ticks - 1)
    BY <1>1, <2>1, <2>2, Z3
  <2>4. Hz * (-u) = -(Hz * u) /\ Coarse * (-v) = -(Coarse * v)
    BY <1>1, Products
  <2>5. -b \in 0 .. Grain
    BY <1>1, <1>7, <1>8, <2>3, <2>4
  <2> QED
    BY <1>2, <1>3, <1>4, <1>5, <1>10, <2>5
<1> QED
  BY <1>9, <1>10

\* A number of samples lasts its time, less than a unit of it cut off.
LEMMA Lasting ==
    ASSUME Assumed, NEW n \in Nat
    PROVE  /\ SampleTime(n) \in Nat /\ n * Second \in Nat /\ SampleTime(n) * Hz \in Nat
           /\ n * Second - SampleTime(n) * Hz \in 0 .. Hz - 1
<1>1. Hz \in Nat \ {0} /\ Second \in Nat \ {0}
  BY Units
<1>2. PICK x \in Nat : n * Second = x
  BY <1>1, Products
<1>3. PICK q \in Int, r \in 0 .. Hz - 1, m \in Int :
         x \div Hz = q /\ x % Hz = r /\ Hz * q = m /\ x = m + r /\ (x >= 0 => q >= 0)
  BY <1>1, Divided
<1>4. SampleTime(n) = q /\ q * Hz = m
  BY <1>1, <1>2, <1>3, Z3 DEF SampleTime
<1>5. m \in Nat
  BY <1>1, <1>3, Products
<1> QED
  BY <1>2, <1>3, <1>4, <1>5

\* The samples a rebase shifts the queue by: those of the time it moves the
\* anchor by, less than one cut off, and at least one beyond the gate.
LEMMA ShiftInSamples ==
    ASSUME Assumed, NEW s \in Nat
    PROVE  /\ (s * Hz) \div Second \in Nat /\ s * Hz \in Nat
           /\ s * Hz - ((s * Hz) \div Second) * Second \in 0 .. Second - 1
           /\ s > Gate => (s * Hz) \div Second > 0
           /\ s = 0 => (s * Hz) \div Second = 0
<1>1. /\ Hz \in Nat \ {0} /\ Second \in Nat \ {0} /\ Gate \in Nat /\ Second <= Gate * Hz
  BY Units DEF Assumed, SizeAssumption, GateAssumption
<1>2. PICK x \in Nat : s * Hz = x /\ (s > Gate => x >= Second) /\ (s = 0 => x = 0)
  <2>1. s * Hz \in Nat /\ (s > Gate => s * Hz >= Gate * Hz) /\ (s = 0 => s * Hz = 0)
    BY <1>1, Z3
  <2>2. Gate * Hz \in Nat
    BY <1>1, Products
  <2> QED
    BY <1>1, <2>1, <2>2
<1>3. PICK q \in Int, r \in 0 .. Second - 1, m \in Int :
         x \div Second = q /\ x % Second = r /\ Second * q = m /\ x = m + r /\ (x >= 0 => q >= 0)
  BY <1>1, Divided
<1>4. q * Second = m
  BY <1>1, <1>3, Z3
<1>5. x >= Second => q > 0
  <2>1. q = 0 => m = 0
    BY <1>1, <1>3, Products
  <2> QED
    BY <1>1, <1>3, <2>1
<1>6. x = 0 => q = 0
  <2>1. x = 0 => m = 0
    <3>1. m >= 0
      BY <1>1, <1>3, Products
    <3> QED
      BY <1>1, <1>3, <3>1
  <2>2. q >= 1 => m >= Second
    <3>1. q >= 1 => q - 1 >= 0 /\ q - 1 \in Int
      OBVIOUS
    <3>2. q >= 1 => Second * (q - 1) >= 0
      BY <1>1, <3>1, Products
    <3>3. Second * (q - 1) = m - Second
      BY <1>1, <1>3, Products
    <3> QED
      BY <1>1, <3>2, <3>3
  <2> QED
    BY <1>1, <1>3, <2>1, <2>2
<1> QED
  BY <1>2, <1>3, <1>4, <1>5, <1>6

-----------------------------------------------------------------------------
(* What is computed from the shown cursors.                                *)

\* The positions derived from the shown cursors are inside the buffer, and
\* neither a delay nor a resynchronisation goes backwards.
LEMMA Derived ==
    ASSUME Assumed, TimelineTyped, NEW m \in Nat
    PROVE  /\ WriteLatency \in Nat /\ EstimatedPlay(m) \in 0 .. Buf - 1
           /\ Offset(m) \in 0 .. Buf - 1 /\ Early(m) \in Nat
           /\ Resynced(m) \in Nat /\ Resynced(m) >= written /\ Delay(m) \in Nat
<1>1. /\ Buf \in Nat \ {0} /\ Hz \in Nat \ {0} /\ Second \in Nat \ {0} /\ Jitter \in Nat
      /\ Millis \in Nat \ {0} /\ Second \div Millis \in Nat
      /\ shown.play \in 0 .. Buf - 1 /\ shown.write \in 0 .. Buf - 1 /\ shown.time \in Nat
      /\ written \in Nat
  BY Units DEF Assumed, SizeAssumption, BoundAssumption, TimelineTyped, TypeOK
<1>2. ASSUME NEW x \in Int PROVE x % Buf \in 0 .. Buf - 1
  BY <1>1, Divided
<1>3. WriteLatency \in Nat
  BY <1>1, <1>2 DEF WriteLatency
<1>4. EstimatedPlay(m) \in 0 .. Buf - 1
  <2>1. (m - shown.time) * Hz \in Int
    BY <1>1
  <2>2. PICK t \in Int : Trunc((m - shown.time) * Hz, Second) = t
    BY <1>1, <2>1, Truncated
  <2> QED
    BY <1>1, <1>2, <2>2 DEF EstimatedPlay
<1>5. Offset(m) \in 0 .. Buf - 1
  BY <1>1, <1>2, <1>4 DEF Offset
<1>6. Early(m) \in Nat
  BY <1>3, <1>5 DEF Early
<1>7. Resynced(m) \in Nat /\ Resynced(m) >= written
  BY <1>1, <1>2, <1>3, <1>5 DEF Resynced
<1>8. Delay(m) \in Nat
  <2>1. PICK n \in Nat : Early(m) * Millis = n
    BY <1>1, <1>6, Products
  <2>2. Timeout(m) \in Nat
    <3>1. n \div Hz \in Nat
      BY <1>1, Divided
    <3> QED
      BY <2>1, <3>1 DEF Timeout
  <2>3. Timeout(m) * (Second \div Millis) \in Nat
    BY <1>1, <2>2, Products
  <2> QED
    BY <2>3 DEF Delay
<1> QED
  BY <1>3, <1>4, <1>5, <1>6, <1>7, <1>8

\* The position that a resynchronisation computes needs none.
LEMMA ResyncedFits ==
    ASSUME Assumed, TimelineTyped, NEW m \in Nat, written > 0,
           written' = Resynced(m), shown' = shown
    PROVE  ~Underrun(m)'
<1>1. /\ Buf \in Nat \ {0} /\ written \in Nat /\ Period \in Nat /\ Hz \in Nat \ {0}
      /\ Millis \in Nat
      /\ WriteLatency \in Nat /\ EstimatedPlay(m) \in 0 .. Buf - 1
      /\ Offset(m) \in 0 .. Buf - 1 /\ Resynced(m) \in Nat /\ Resynced(m) >= written
  BY Derived, Units DEF Assumed, SizeAssumption, TimelineTyped, TypeOK
<1>2. WriteLatency' = WriteLatency /\ EstimatedPlay(m)' = EstimatedPlay(m)
  BY DEF WriteLatency, EstimatedPlay
<1>3. CASE ~Underrun(m)
  <2>1. written' = written
    BY <1>3 DEF Resynced
  <2>2. Early(m)' = Early(m)
    BY <2>1, <1>2 DEF Early, Offset
  <2> QED
    BY <1>3, <2>1, <2>2 DEF Underrun, Timeout
<1>4. CASE Underrun(m)
  <2> DEFINE a == written - EstimatedPlay(m) + Buf
             l == WriteLatency
  <2>1. a \in Int /\ l \in Int
    BY <1>1
  <2>2. written' = written + ((l - (a % Buf) + Buf) % Buf)
    BY <1>4 DEF Resynced, Offset
  <2>3. (l - (a % Buf) + Buf) % Buf \in Int
    BY <1>1, <2>2
  <2>4. Offset(m)' = (written' - EstimatedPlay(m) + Buf) % Buf
    BY <1>2 DEF Offset
  <2>5. Offset(m)' = (a + ((l - (a % Buf) + Buf) % Buf)) % Buf
    <3>1. PICK x \in Int : x = (l - (a % Buf) + Buf) % Buf
      BY <2>3
    <3>2. written' - EstimatedPlay(m) + Buf = a + x
      BY <1>1, <2>2, <3>1
    <3> QED
      BY <2>4, <3>1, <3>2
  <2>6. Offset(m)' = l % Buf
    <3> HIDE DEF a, l
    <3> QED
      BY <1>1, <2>1, <2>5, Moved
  <2>7. Offset(m)' <= WriteLatency
    BY <1>1, <2>6, RemainderIsLess
  <2>8. Early(m)' = 0
    BY <1>1, <1>2, <2>6, <2>7, RemainderIsLess DEF Early
  <2>9. Timeout(m)' = 0
    <3>1. 0 * Millis = 0 /\ 0 \div Hz = 0
      BY <1>1, Z3
    <3> QED
      BY <2>8, <3>1 DEF Timeout
  <2>10. 2 * Period \in Nat
    BY <1>1
  <2> QED
    BY <1>1, <2>9, <2>10 DEF Underrun
<1> QED
  BY <1>3, <1>4

\* The cursors read at one moment are a lead apart and inside the buffer.
LEMMA CursorsAreApart ==
    ASSUME Assumed, cursor \in Nat
    PROVE  /\ PlayCursor \in 0 .. Buf - 1 /\ WriteCursor \in 0 .. Buf - 1
           /\ WriteCursor = (PlayCursor + Lead) % Buf
<1>1. /\ Buf \in Nat \ {0} /\ Second \in Nat \ {0} /\ Lead \in Nat
  BY Units DEF Assumed, SizeAssumption
<1>2. ASSUME NEW x \in Int PROVE x % Buf \in 0 .. Buf - 1
  BY <1>1, Divided
<1>3. cursor \div Second \in Int
  BY <1>1, Z3
<1> QED
  BY <1>1, <1>2, <1>3 DEF PlayCursor, WriteCursor

\* The latency is the lead and the jitter whichever pair of cursors is shown.
LEMMA LatencyIsConstant ==
    ASSUME Assumed, NEW p \in 0 .. Buf - 1, NEW w \in 0 .. Buf - 1, w = (p + Lead) % Buf
    PROVE  (w - p + Buf) % Buf = Lead % Buf
<1>1. Buf \in Nat \ {0} /\ Lead \in Nat /\ Lead \in Int
  BY DEF Assumed, SizeAssumption
<1>2. p + Lead \in Int /\ w - p + Buf \in Int
  BY <1>1
<1>3. PICK q \in Int, r \in 0 .. Buf - 1, m \in Int :
         /\ (p + Lead) \div Buf = q /\ (p + Lead) % Buf = r /\ Buf * q = m /\ p + Lead = m + r
         /\ p + Lead >= 0 => q >= 0
  BY <1>1, <1>2, Divided
<1>4. PICK lq \in Int, lr \in 0 .. Buf - 1, lm \in Int :
         /\ Lead \div Buf = lq /\ Lead % Buf = lr /\ Buf * lq = lm /\ Lead = lm + lr
         /\ Lead >= 0 => lq >= 0
  BY <1>1, Divided
<1>5. PICK k \in Int : k = (lq - q) + 1
  OBVIOUS
<1>6. Buf * k = lm - m + Buf
  <2>1. lq - q \in Int /\ Buf * (lq - q) = lm - m
    BY <1>1, <1>3, <1>4, Products
  <2> QED
    BY <1>1, <1>3, <1>4, <1>5, <2>1, Products
<1>7. w - p + Buf = Buf * k + lr
  BY <1>1, <1>3, <1>4, <1>6
<1>8. (w - p + Buf) % Buf = lr
  BY <1>1, <1>2, <1>7, Remainder
<1> QED
  BY <1>4, <1>8

-----------------------------------------------------------------------------
(* Least elements.                                                         *)

\* A set of naturals that is not empty has a least element.  The induction is
\* borrowed from the library's well-founded order on finite sets: x is below y
\* when 1 .. x is strictly inside 1 .. y.
LEMMA LeastExists ==
    ASSUME NEW T \in SUBSET Nat, T # {}
    PROVE  \E x \in T : \A y \in T : x <= y
<1> DEFINE below(x) == 1 .. x
           R == StrictSubsetOrdering(Nat)
           F == FiniteSubsetsOf(Nat)
           B == {below(x) : x \in T}
<1>1. B \subseteq F
  <2>1. \A x \in T : IsFiniteSet(below(x)) /\ below(x) \subseteq Nat
    BY FS_Interval
  <2> QED
    BY <2>1 DEF FiniteSubsetsOf
<1>2. B # {}
  OBVIOUS
<1>3. PICK b \in B : \A c \in B : ~(<<c, b>> \in R)
  <2>1. IsWellFoundedOn(R, F)
    BY FS_StrictSubsetOrderingWellFounded
  <2> HIDE DEF R, F, B
  <2> QED
    BY <1>1, <1>2, <2>1, WFMin
<1>4. PICK x \in T : b = below(x)
  BY <1>3
<1>5. ASSUME NEW y \in T, y < x PROVE FALSE
  <2>1. below(y) \subseteq below(x) /\ below(y) # below(x)
    <3>1. x \in below(x) /\ x \notin below(y)
      BY <1>5
    <3>2. below(y) \subseteq below(x)
      BY <1>5
    <3> QED
      BY <3>1, <3>2
  <2>2. below(x) \in SUBSET Nat /\ below(y) \in SUBSET Nat
    OBVIOUS
  <2>3. <<below(y), below(x)>> \in R
    <3> HIDE DEF below
    <3> QED
      BY <2>1, <2>2 DEF StrictSubsetOrdering
  <2> QED
    BY <1>3, <1>4, <2>3
<1> QED
  BY <1>5

-----------------------------------------------------------------------------
(* Sequences.                                                              *)

\* The place a CHOOSE of the first of some positions finds.
LEMMA FirstIsOne ==
    ASSUME NEW n \in Nat, NEW T \in SUBSET (1 .. n), T # {}
    PROVE  (CHOOSE i \in T : \A j \in T : i <= j) \in 1 .. n
<1>1. T \in SUBSET Nat
  OBVIOUS
<1>2. \E i \in T : \A j \in T : i <= j
  BY <1>1, LeastExists
<1>3. (CHOOSE i \in T : \A j \in T : i <= j) \in T
  BY <1>2
<1> QED
  BY <1>3

\* What is left of a sequence from some position on: elements it had.
LEMMA Rest ==
    ASSUME NEW S, NEW s \in Seq(S), NEW m \in 1 .. Len(s)
    PROVE  /\ SubSeq(s, m, Len(s)) \in Seq(S) /\ Len(SubSeq(s, m, Len(s))) = Len(s) - m + 1
           /\ \A i \in 1 .. Len(SubSeq(s, m, Len(s))) :
                 \E j \in 1 .. Len(s) : SubSeq(s, m, Len(s))[i] = s[j]
<1>1. Len(s) \in Nat /\ \A i \in m .. Len(s) : s[i] \in S
  OBVIOUS
<1>2. /\ SubSeq(s, m, Len(s)) \in Seq(S)
      /\ Len(SubSeq(s, m, Len(s))) = Len(s) - m + 1
      /\ \A i \in 1 .. Len(s) - m + 1 : SubSeq(s, m, Len(s))[i] = s[m + i - 1]
  BY <1>1, SubSeqProperties
<1>3. ASSUME NEW i \in 1 .. Len(s) - m + 1
      PROVE  \E j \in 1 .. Len(s) : SubSeq(s, m, Len(s))[i] = s[j]
  <2>1. m + i - 1 \in 1 .. Len(s)
    BY <1>1
  <2> QED
    BY <1>2, <2>1
<1> QED
  BY <1>2, <1>3

\* An element put into a sequence: the others are those it had.
LEMMA Inserted ==
    ASSUME NEW S, NEW s \in Seq(S), NEW m \in 1 .. Len(s) + 1, NEW e \in S
    PROVE  /\ InsertAt(s, m, e) \in Seq(S) /\ Len(InsertAt(s, m, e)) = Len(s) + 1
           /\ \A i \in 1 .. Len(s) + 1 :
                 InsertAt(s, m, e)[i] = e \/ \E j \in 1 .. Len(s) : InsertAt(s, m, e)[i] = s[j]
<1> DEFINE front == SubSeq(s, 1, m - 1)
           back == SubSeq(s, m, Len(s))
           head == front \o <<e>>
<1>1. Len(s) \in Nat /\ \A i \in 1 .. Len(s) : s[i] \in S
  OBVIOUS
<1>2. /\ front \in Seq(S) /\ Len(front) = m - 1
      /\ \A i \in 1 .. m - 1 : front[i] = s[i]
  <2>1. \A i \in 1 .. m - 1 : s[i] \in S
    BY <1>1
  <2>2. /\ front \in Seq(S) /\ Len(front) = IF 1 <= m - 1 THEN (m - 1) - 1 + 1 ELSE 0
        /\ \A i \in 1 .. (m - 1) - 1 + 1 : front[i] = s[1 + i - 1]
    BY <1>1, <2>1, SubSeqProperties
  <2> HIDE DEF front
  <2> QED
    BY <1>1, <2>2
<1>3. /\ back \in Seq(S) /\ Len(back) = Len(s) - m + 1
      /\ \A i \in 1 .. Len(s) - m + 1 : back[i] = s[m + i - 1]
  <2>1. \A i \in m .. Len(s) : s[i] \in S
    BY <1>1
  <2>2. /\ back \in Seq(S) /\ Len(back) = IF m <= Len(s) THEN Len(s) - m + 1 ELSE 0
        /\ \A i \in 1 .. Len(s) - m + 1 : back[i] = s[m + i - 1]
    BY <1>1, <2>1, SubSeqProperties
  <2> HIDE DEF back
  <2> QED
    BY <1>1, <2>2
<1> HIDE DEF front, back
<1>4. <<e>> \in Seq(S) /\ Len(<<e>>) = 1 /\ <<e>>[1] = e
  OBVIOUS
<1>5. /\ head \in Seq(S) /\ Len(head) = m
      /\ \A i \in 1 .. m : head[i] = IF i <= m - 1 THEN front[i] ELSE <<e>>[i - (m - 1)]
  <2>1. /\ head \in Seq(S) /\ Len(head) = Len(front) + Len(<<e>>)
        /\ \A i \in 1 .. Len(front) + Len(<<e>>) :
              head[i] = IF i <= Len(front) THEN front[i] ELSE <<e>>[i - Len(front)]
    BY <1>2, <1>4, ConcatProperties
  <2> HIDE DEF head
  <2>2. Len(front) + Len(<<e>>) = m
    BY <1>1, <1>2, <1>4
  <2> QED
    BY <1>2, <2>1, <2>2
<1> HIDE DEF head
<1>6. /\ head \o back \in Seq(S) /\ Len(head \o back) = Len(s) + 1
      /\ \A i \in 1 .. Len(s) + 1 : (head \o back)[i] = IF i <= m THEN head[i] ELSE back[i - m]
  <2>1. /\ head \o back \in Seq(S) /\ Len(head \o back) = Len(head) + Len(back)
        /\ \A i \in 1 .. Len(head) + Len(back) :
              (head \o back)[i] = IF i <= Len(head) THEN head[i] ELSE back[i - Len(head)]
    BY <1>3, <1>5, ConcatProperties
  <2>2. Len(head) + Len(back) = Len(s) + 1
    BY <1>1, <1>3, <1>5
  <2> QED
    BY <1>5, <2>1, <2>2
<1>7. ASSUME NEW i \in 1 .. Len(s) + 1
      PROVE  \/ (head \o back)[i] = e
             \/ \E j \in 1 .. Len(s) : (head \o back)[i] = s[j]
  <2>1. CASE i < m
    <3>1. i \in 1 .. m - 1 /\ i \in 1 .. m /\ i \in 1 .. Len(s)
      BY <1>1, <2>1
    <3>2. (head \o back)[i] = s[i]
      BY <1>2, <1>5, <1>6, <3>1
    <3> QED
      BY <3>1, <3>2
  <2>2. CASE i = m
    <3>1. i - (m - 1) = 1 /\ i \in 1 .. m /\ ~(i <= m - 1) /\ i <= m
      BY <1>1, <2>2
    <3> QED
      BY <1>4, <1>5, <1>6, <3>1
  <2>3. CASE i > m
    <3>1. i - m \in 1 .. Len(s) - m + 1 /\ m + (i - m) - 1 = i - 1 /\ ~(i <= m)
          /\ i - 1 \in 1 .. Len(s)
      BY <1>1, <2>3
    <3>2. (head \o back)[i] = s[i - 1]
      BY <1>3, <1>6, <3>1
    <3> QED
      BY <3>1, <3>2
  <2>4. i < m \/ i = m \/ i > m
    BY <1>1
  <2> QED
    BY <2>1, <2>2, <2>3, <2>4, Zenon
<1>8. InsertAt(s, m, e) = head \o back
  BY DEF InsertAt, head, front, back
<1> QED
  BY <1>6, <1>7, <1>8

-----------------------------------------------------------------------------
(* The invariant, part by part.                                            *)

\* It holds of a sink that has just been activated.
LEMMA TimelineInit == Assumed /\ Init => TimelineInv
<1> SUFFICES ASSUME Assumed, Init
             PROVE  TimelineInv
  OBVIOUS
<1>1. /\ Buf \in Nat \ {0} /\ Second \in Nat \ {0} /\ Lead \in Nat /\ MaxTime \in Nat
      /\ MaxGaps \in Nat /\ MaxNotes \in Nat /\ MaxFails \in Nat
  BY Units DEF Assumed, SizeAssumption, BoundAssumption
<1>2. Lead % Buf \in 0 .. Buf - 1
  BY <1>1, RemainderIsLess
<1>3. Buf * Second \in Nat /\ Buf * Second >= 1
  BY <1>1, Z3
<1>4. TypeOK
  <2>1. cursor \in 0 .. Buf * Second - 1
    BY <1>3 DEF Init
  <2>2. /\ shown \in [play : 0 .. Buf - 1, write : 0 .. Buf - 1, time : 0 .. MaxTime]
        /\ timing \in [at : {"wait", "look", "show"}, play : 0 .. Buf - 1, write : 0 .. Buf - 1]
    BY <1>1, <1>2 DEF Init
  <2>3. Len(events) <= MaxNotes
    BY <1>1 DEF Init
  <2>4. /\ now \in 0 .. MaxTime /\ activate \in Nat /\ written \in Nat
    BY <1>1 DEF Init
  <2>6. /\ running \in BOOLEAN /\ pending \in BOOLEAN /\ owed \in BOOLEAN
        /\ settled \in {"changed", "seen", "shown"}
    BY DEF Init
  <2>5. /\ render.at = "write" /\ render.clock \in Nat /\ render.shift \in Nat
        /\ render.sure \in BOOLEAN /\ player.at = "idle" /\ player.position \in Int
    BY DEF Init
  <2> QED
    BY <2>1, <2>2, <2>3, <2>4, <2>5, <2>6 DEF TypeOK
<1>5. TimelineTyped
  BY <1>1, <1>4 DEF Init, TimelineTyped
<1> QED
  BY <1>1, <1>5 DEF Init, TimelineInv, NotesCounted, CursorsApart, ReviewFollowsWrite,
     NotesFollowMapping, RearmIsReviewed, WrittenFitsCursors, MappingFitsWritten

\* Time passes and the system suspends under the sink.
LEMMA TimelineWorld ==
    ASSUME Assumed, TimelineInv, Tick \/ Suspend
    PROVE  TimelineInv'
<1>1. /\ UNCHANGED <<shown, timing, pending, activate, written, render, player, events, owed>>
      /\ now' \in 0 .. MaxTime /\ now' >= now
  <2>1. now \in 0 .. MaxTime /\ MaxTime \in Nat /\ Gaps \subseteq Nat
    BY DEF Assumed, InputAssumption, BoundAssumption, TimelineInv, TimelineTyped, TypeOK
  <2>2. CASE Tick
    BY <2>1, <2>2 DEF Tick
  <2>3. CASE Suspend
    <3>1. PICK g \in Gaps : now + g <= MaxTime /\ now' = now + g
      BY <2>3 DEF Suspend
    <3> QED
      BY <2>1, <2>3, <3>1 DEF Suspend
  <2> QED
    BY <2>2, <2>3
<1>2. /\ count' \in [gaps : 0 .. MaxGaps, notes : 0 .. MaxNotes, fails : 0 .. MaxFails]
      /\ count'.notes = count.notes
  BY DEF Tick, Suspend, Assumed, BoundAssumption, TimelineInv, TimelineTyped
<1>3. cursor' \in 0 .. Buf * Second - 1
  <2>1. Buf * Second \in Nat \ {0} /\ cursor \in 0 .. Buf * Second - 1
    <3>1. Buf \in Nat \ {0} /\ Second \in Nat \ {0} /\ cursor \in 0 .. Buf * Second - 1
      BY Units DEF TimelineInv, TimelineTyped, TypeOK
    <3> QED
      BY <3>1, Z3
  <2>2. (cursor + Hz) % (Buf * Second) \in 0 .. Buf * Second - 1
    <3>1. cursor + Hz \in Nat
      BY <2>1, Units
    <3> QED
      BY <2>1, <3>1, RemainderIsLess
  <2> QED
    BY <2>1, <2>2 DEF Tick, Suspend
<1>4. TimelineTyped'
  <2>1. running' \in BOOLEAN /\ settled' \in {"changed", "seen", "shown"}
    BY DEF Tick, Suspend, TimelineInv, TimelineTyped, TypeOK
  <2> QED
    BY <1>1, <1>2, <1>3, <2>1 DEF TimelineInv, TimelineTyped, TypeOK
<1>5. NotesCounted' /\ CursorsApart' /\ ReviewFollowsWrite' /\ RearmIsReviewed'
  BY <1>1, <1>2 DEF TimelineInv, NotesCounted, CursorsApart, ReviewFollowsWrite, RearmIsReviewed,
     TimelineTyped, TypeOK
<1>6. NotesFollowMapping'
  BY <1>1 DEF TimelineInv, NotesFollowMapping, Follows, Beyond, Position,
     Crossed, RefTimeToSample
<1>7. WrittenFitsCursors' /\ MappingFitsWritten'
  BY <1>1 DEF TimelineInv, WrittenFitsCursors, MappingFitsWritten, Underrun, Timeout, Early, Offset,
     EstimatedPlay, WriteLatency, CurrentLatency
<1> QED
  BY <1>4, <1>5, <1>6, <1>7 DEF TimelineInv

\* The timing thread: what it shows keeps the latency, and takes away what the
\* render thread was sure of.
LEMMA TimelineTiming ==
    ASSUME Assumed, TimelineInv, Rearm \/ Woken \/ Look \/ Show
    PROVE  TimelineInv'
<1>1. /\ UNCHANGED <<now, cursor, activate, written, player, events, count>>
      /\ UNCHANGED render \/ Show
  BY DEF Rearm, Woken, Look, Show
<1>2. /\ render'.at = render.at /\ render'.clock = render.clock /\ render'.shift = render.shift
      /\ render'.sure => render.sure /\ UNCHANGED shown
      /\ render' \in [at : {"write", "review", "clock", "rebase", "shift", "anchored", "render",
                            "wait", "sleep"}, clock : Nat, shift : Nat, sure : BOOLEAN]
  BY DEF Rearm, Woken, Look, Show, TimelineInv, TimelineTyped
<1>3. PlayCursor \in 0 .. Buf - 1 /\ WriteCursor \in 0 .. Buf - 1
      /\ WriteCursor = (PlayCursor + Lead) % Buf
  BY CursorsAreApart DEF TimelineInv, TimelineTyped, TypeOK
<1>4. /\ timing' \in [at : {"wait", "look", "show"}, play : 0 .. Buf - 1, write : 0 .. Buf - 1]
      /\ timing'.at = "show" => timing'.write = (timing'.play + Lead) % Buf
  <2>1. /\ timing \in [at : {"wait", "look", "show"}, play : 0 .. Buf - 1, write : 0 .. Buf - 1]
        /\ timing.at = "show" => timing.write = (timing.play + Lead) % Buf
        /\ 0 \in 0 .. Buf - 1
    BY DEF TimelineInv, TimelineTyped, TypeOK, CursorsApart, Assumed, SizeAssumption
  <2>2. CASE Rearm \/ Woken
    <3>1. timing' = [timing EXCEPT !.at = "look"]
      BY <2>2 DEF Rearm, Woken
    <3> QED
      BY <2>1, <3>1
  <2>3. CASE Look
    BY <1>3, <2>3 DEF Look
  <2>4. CASE Show
    BY <2>1, <2>4 DEF Show
  <2> QED
    BY <2>2, <2>3, <2>4
<1>5. /\ shown' \in [play : 0 .. Buf - 1, write : 0 .. Buf - 1, time : 0 .. MaxTime]
      /\ shown'.write = (shown'.play + Lead) % Buf
      /\ shown'.time <= now'
  BY DEF Rearm, Woken, Look, Show, TimelineInv, TimelineTyped, TypeOK, CursorsApart
<1>6. TimelineTyped'
  <2>1. /\ running' \in BOOLEAN /\ pending' \in BOOLEAN /\ owed' \in BOOLEAN
        /\ settled' \in {"changed", "seen", "shown"}
    BY DEF Rearm, Woken, Look, Show, TimelineInv, TimelineTyped, TypeOK
  <2> QED
    BY <1>1, <1>2, <1>4, <1>5, <2>1 DEF TimelineInv, TimelineTyped, TypeOK
<1>7. NotesCounted' /\ CursorsApart' /\ ReviewFollowsWrite'
  BY <1>1, <1>2, <1>4, <1>5 DEF TimelineInv, NotesCounted, CursorsApart, ReviewFollowsWrite
<1>8. RearmIsReviewed'
  BY <1>2 DEF Rearm, Woken, Look, Show, TimelineInv, RearmIsReviewed
<1>9. NotesFollowMapping'
  BY <1>1, <1>2 DEF TimelineInv, NotesFollowMapping, Follows, Beyond, Position,
     Crossed, RefTimeToSample
<1>10. WrittenFitsCursors'
  BY <1>1, <1>2 DEF TimelineInv, WrittenFitsCursors, Underrun, Timeout, Early, Offset, EstimatedPlay,
     WriteLatency
<1>11. MappingFitsWritten'
  <2>1. WriteLatency' = WriteLatency
    <3>1. WriteLatency = (Lead % Buf) + Jitter
      BY LatencyIsConstant DEF WriteLatency, TimelineInv, TimelineTyped, TypeOK, CursorsApart
    <3>2. (shown'.write - shown'.play + Buf) % Buf = Lead % Buf
      BY <1>5, LatencyIsConstant
    <3> QED
      BY <3>1, <3>2 DEF WriteLatency
  <2> QED
    BY <1>1, <1>2, <2>1 DEF TimelineInv, MappingFitsWritten, CurrentLatency
<1> QED
  BY <1>6, <1>7, <1>8, <1>9, <1>10, <1>11 DEF TimelineInv

\* The render thread between its reviews.
LEMMA TimelineCycle ==
    ASSUME Assumed, TimelineInv, Write \/ Review \/ ClockFails \/ Anchored \/ WaitWrite \/ Wake
    PROVE  TimelineInv'
<1>1. /\ UNCHANGED <<now, cursor, running, shown, timing, activate, player, events, settled, owed>>
      /\ count'.notes = count.notes
      /\ count' \in [gaps : 0 .. MaxGaps, notes : 0 .. MaxNotes, fails : 0 .. MaxFails]
  BY DEF Write, Review, ClockFails, Anchored, WaitWrite, Wake, TimelineInv, TimelineTyped,
     Assumed, BoundAssumption
<1>2. written' \in Nat /\ (render.at = "write" => written' > 0)
      /\ (render.at \notin {"write", "wait"} => written' = written)
  <2>1. written \in Nat /\ now \in Nat /\ Block \in Nat \ {0}
    BY Units DEF TimelineInv, TimelineTyped, TypeOK, Assumed, BoundAssumption
  <2>2. Resynced(now) \in Nat
    BY <2>1, Derived DEF TimelineInv
  <2> QED
    BY <2>1, <2>2 DEF Write, Review, ClockFails, Anchored, WaitWrite, Wake
<1>3. /\ render' \in [at : {"write", "review", "clock", "rebase", "shift", "anchored", "render",
                            "wait", "sleep"}, clock : Nat, shift : Nat, sure : BOOLEAN]
      /\ render.at \notin {"rebase", "shift"} /\ render'.at \notin {"rebase", "shift", "anchored"}
      /\ render'.at = "review" => render.at = "write"
      /\ render'.at = "clock" => render.at = "review" /\ pending
  <2>1. now + Delay(now) \in Nat
    <3>1. now \in Nat
      BY DEF TimelineInv, TimelineTyped, TypeOK, Assumed, BoundAssumption
    <3> QED
      BY <3>1, Derived DEF TimelineInv
  <2>2. render \in [at : {"write", "review", "clock", "rebase", "shift", "anchored", "render",
                          "wait", "sleep"}, clock : Nat, shift : Nat, sure : BOOLEAN]
    BY DEF TimelineInv, TimelineTyped
  <2>3. CASE Write \/ ClockFails
    BY <2>2, <2>3 DEF Write, ClockFails
  <2>7. CASE Wake
    BY <2>2, <2>7 DEF Wake
  <2>4. CASE Review
    BY <2>2, <2>4 DEF Review
  <2>5. CASE Anchored
    BY <2>2, <2>5 DEF Anchored
  <2>6. CASE WaitWrite
    BY <2>1, <2>2, <2>6 DEF WaitWrite
  <2> QED
    BY <2>3, <2>4, <2>5, <2>6, <2>7
<1>4. pending' \in BOOLEAN
  BY DEF Write, Review, ClockFails, Anchored, WaitWrite, Wake, TimelineInv, TimelineTyped, TypeOK
<1>5. TimelineTyped'
  BY <1>1, <1>2, <1>3, <1>4 DEF TimelineInv, TimelineTyped, TypeOK
<1>6. NotesCounted' /\ CursorsApart'
  BY <1>1 DEF TimelineInv, NotesCounted, CursorsApart
<1>7. ReviewFollowsWrite'
  BY <1>2, <1>3 DEF TimelineInv, ReviewFollowsWrite
<1>8. RearmIsReviewed'
  <2>1. RearmIsReviewed /\ owed' = owed
    BY <1>1 DEF TimelineInv
  <2>2. CASE Review
    BY <1>3, <2>1, <2>2 DEF Review, RearmIsReviewed, TimelineInv, TimelineTyped
  <2>3. CASE ClockFails
    BY <2>1, <2>3 DEF ClockFails, RearmIsReviewed
  <2>4. CASE Write \/ Anchored \/ WaitWrite \/ Wake
    <3>1. pending' = pending /\ render.at \notin {"clock", "rebase"}
      BY <2>4 DEF Write, Anchored, WaitWrite, Wake
    <3> QED
      BY <2>1, <3>1 DEF RearmIsReviewed
  <2> QED
    BY <2>2, <2>3, <2>4
<1>9. NotesFollowMapping'
  BY <1>1, <1>3 DEF TimelineInv, NotesFollowMapping, Follows, Beyond, Position,
     Crossed, RefTimeToSample
<1>10. WrittenFitsCursors' /\ MappingFitsWritten'
  BY <1>3 DEF WrittenFitsCursors, MappingFitsWritten
<1> QED
  BY <1>5, <1>6, <1>7, <1>8, <1>9, <1>10 DEF TimelineInv

\* The resynchronisation before a rebase: the position written fits the
\* cursors it was computed from.
LEMMA TimelineResync ==
    ASSUME Assumed, TimelineInv, Resync
    PROVE  TimelineInv'
<1> USE DEF Resync
<1>1. now \in Nat /\ written \in Nat /\ written > 0
  BY DEF TimelineInv, TimelineTyped, TypeOK, Assumed, BoundAssumption, ReviewFollowsWrite
<1>2. Resynced(now) \in Nat /\ Resynced(now) >= written
  BY <1>1, Derived DEF TimelineInv
<1>3. /\ render' \in [at : {"write", "review", "clock", "rebase", "shift", "anchored", "render",
                            "wait", "sleep"}, clock : Nat, shift : Nat, sure : BOOLEAN]
      /\ render.at = "clock" /\ render'.at = "rebase" /\ render'.clock = now
  BY <1>1 DEF TimelineInv, TimelineTyped
<1>4. TimelineTyped'
  BY <1>2, <1>3 DEF TimelineInv, TimelineTyped, TypeOK
<1>5. NotesCounted' /\ CursorsApart' /\ ReviewFollowsWrite' /\ RearmIsReviewed'
  BY <1>1, <1>2, <1>3 DEF TimelineInv, NotesCounted, CursorsApart, ReviewFollowsWrite,
     RearmIsReviewed
<1>6. NotesFollowMapping'
  BY <1>3 DEF TimelineInv, NotesFollowMapping, Follows, Beyond, Position,
     Crossed, RefTimeToSample
<1>7. WrittenFitsCursors'
  <2>1. ~Underrun(now)'
    BY <1>1, ResyncedFits DEF TimelineInv
  <2>2. now' = now /\ Underrun(render.clock)' = Underrun(now)'
    BY <1>3
  <2> QED
    BY <2>1, <2>2 DEF WrittenFitsCursors
<1>8. MappingFitsWritten'
  BY <1>3 DEF MappingFitsWritten
<1> QED
  BY <1>4, <1>5, <1>6, <1>7, <1>8 DEF TimelineInv

\* The rebase: the mapping moves under both locks, the queue not yet.
LEMMA TimelineRebase ==
    ASSUME Assumed, TimelineInv, Rebase
    PROVE  TimelineInv'
<1> DEFINE shift == Shift(render.clock)
           taken == IF shift > Gate THEN shift ELSE 0
<1>1. /\ Gate \in Nat /\ activate \in Nat /\ written \in Nat /\ render.clock \in Nat
      /\ WriteLatency \in Nat
  BY Derived DEF TimelineInv, TimelineTyped, TypeOK, Assumed, SizeAssumption
<1>2. SampleTime(written) \in Nat /\ SampleTime(WriteLatency) \in Nat
  BY <1>1, Lasting
<1>3. shift \in Int /\ shift = SampleTime(WriteLatency) - CurrentLatency(render.clock)
      /\ CurrentLatency(render.clock) = activate + SampleTime(written) - render.clock
  BY <1>1, <1>2 DEF Shift, CurrentLatency
<1>4. taken \in Nat /\ (taken > 0 => taken > Gate)
  BY <1>1, <1>3
<1>5. PICK k \in Nat, z \in Int :
         /\ (taken * Hz) \div Second = k /\ taken * Hz - k * Second = z /\ z \in 0 .. Second - 1
         /\ k > 0 <=> taken > 0
  <2> HIDE DEF taken
  <2>1. \A n \in 0 .. Second - 1 : n \in Int
    BY Units
  <2>2. /\ (taken * Hz) \div Second \in Nat
        /\ taken * Hz - ((taken * Hz) \div Second) * Second \in 0 .. Second - 1
        /\ taken > Gate => (taken * Hz) \div Second > 0
        /\ taken = 0 => (taken * Hz) \div Second = 0
    BY <1>4, ShiftInSamples
  <2>3. (taken * Hz) \div Second > 0 <=> taken > 0
    BY <1>4, <2>2
  <2> QED
    BY <2>1, <2>2, <2>3, Zenon
<1>6. /\ UNCHANGED <<now, cursor, running, shown, timing, pending, written, player, events,
                     count, settled>>
      /\ activate' = activate + taken
      /\ render' = [render EXCEPT !.at = "shift", !.shift = k]
      /\ owed' = (owed /\ pending)
      /\ render.at = "rebase" /\ player.at # "mapped"
  BY <1>5 DEF Rebase, SynthFree
<1> HIDE DEF taken, shift
<1>7. /\ render' \in [at : {"write", "review", "clock", "rebase", "shift", "anchored", "render",
                            "wait", "sleep"}, clock : Nat, shift : Nat, sure : BOOLEAN]
      /\ render'.at = "shift" /\ render'.shift = k /\ render'.clock = render.clock
      /\ render'.sure = render.sure
  BY <1>5, <1>6 DEF TimelineInv, TimelineTyped
<1>8. TimelineTyped'
  <2>1. owed' \in BOOLEAN /\ pending' \in BOOLEAN
    BY <1>6 DEF TimelineInv, TimelineTyped, TypeOK
  <2>2. activate' \in Nat
    BY <1>1, <1>4, <1>6
  <2> QED
    BY <1>6, <1>7, <2>1, <2>2 DEF TimelineInv, TimelineTyped, TypeOK
<1>9. NotesCounted' /\ CursorsApart' /\ ReviewFollowsWrite' /\ RearmIsReviewed'
  BY <1>6, <1>7 DEF TimelineInv, NotesCounted, CursorsApart, ReviewFollowsWrite, RearmIsReviewed
<1>10. NotesFollowMapping'
  <2>1. ASSUME NEW i \in 1 .. Len(events)
        PROVE  Follows(events[i])'
    <3>1. events[i] \in Note
      BY <2>1 DEF TimelineInv, TimelineTyped
    <3>2. PICK t \in Nat, p \in Int, c \in Nat :
             events[i].time = t /\ events[i].position = p /\ events[i].rebases = c
      BY <3>1 DEF Note
    <3>3. /\ Follows(events[i]) /\ Position(events[i]) = p /\ Crossed(events[i]) = c
      BY <1>6, <3>2 DEF TimelineInv, NotesFollowMapping, Position, Crossed
    <3>4. /\ Position(events[i])' = p - k /\ events[i]' = events[i]
          /\ Crossed(events[i])' = IF k > 0 THEN c + 1 ELSE c
      BY <1>6, <1>7, <3>2 DEF Position, Crossed
    <3>5. CASE taken = 0
      <4>1. k = 0 /\ activate' = activate
        BY <1>1, <1>5, <1>6, <3>5
      <4>2. /\ Position(events[i])' = Position(events[i])
            /\ Crossed(events[i])' = Crossed(events[i])
        BY <3>3, <3>4, <4>1
      <4> QED
        BY <3>3, <3>4, <4>1, <4>2 DEF Follows, Beyond, RefTimeToSample
    <3>6. CASE taken > 0
      <4>1. Hz \in Nat \ {0} /\ Second \in Nat \ {0} /\ Grain \in Nat
        BY Units
      <4>2. PICK b \in Int : b = (t - activate) * Hz - p * Second
        BY <1>1, <4>1, Z3
      <4>3. Beyond(events[i]) = b /\ Beyond(events[i])' = b - z
        <5>1. Beyond(events[i])' = (t - (activate + taken)) * Hz - (p - k) * Second
          BY <1>6, <3>2, <3>4 DEF Beyond
        <5>2. (t - (activate + taken)) * Hz - (p - k) * Second
                 = ((t - activate) * Hz - p * Second) - (taken * Hz - k * Second)
          BY <1>1, <1>4, <1>5, <4>1, Z3
        <5> QED
          BY <1>5, <3>2, <3>3, <4>2, <5>1, <5>2 DEF Beyond
      <4>4. PICK y \in Int : (Second - 1) * c = y /\ (Second - 1) * (c + 1) = y + (Second - 1)
        <5>1. Second - 1 \in Nat
          BY <4>1
        <5> QED
          BY <5>1, Products
      <4>5. Crossed(events[i])' = c + 1 /\ Crossed(events[i])' # 0
        BY <1>5, <3>4, <3>6
      <4>6. b <= Grain /\ -b <= y + (IF t < activate THEN Grain ELSE 0)
        BY <3>2, <3>3, <4>3, <4>4 DEF Follows
      <4>7. /\ b - z <= Grain
            /\ -(b - z) <= y + (Second - 1) + (IF t < activate + taken THEN Grain ELSE 0)
        BY <1>1, <1>4, <1>5, <4>1, <4>6
      <4> QED
        BY <1>6, <3>2, <3>4, <4>3, <4>4, <4>5, <4>7 DEF Follows
    <3> QED
      BY <1>4, <3>5, <3>6
  <2> QED
    BY <1>6, <2>1 DEF NotesFollowMapping
<1>11. WrittenFitsCursors'
  BY <1>6, <1>7 DEF TimelineInv, WrittenFitsCursors, Underrun, Timeout, Early, Offset, EstimatedPlay,
     WriteLatency
<1>12. MappingFitsWritten'
  <2>1. WriteLatency' = WriteLatency
        /\ CurrentLatency(render.clock)' = activate + taken + SampleTime(written) - render.clock
    BY <1>6, <1>7 DEF WriteLatency, CurrentLatency
  <2> QED
    BY <1>1, <1>2, <1>3, <1>4, <2>1 DEF MappingFitsWritten, taken
<1> QED
  BY <1>8, <1>9, <1>10, <1>11, <1>12 DEF TimelineInv

\* A note as the shift of the queue leaves it.
LEMMA ShiftedNote ==
    ASSUME NEW e \in Note, NEW k \in Nat
    PROVE  \A f : f = [e EXCEPT !.position = @ - k, !.rebases = @ + 1] =>
              /\ f \in Note /\ f.time = e.time /\ f.position = e.position - k
              /\ f.rebases = e.rebases + 1
<1> SUFFICES ASSUME NEW f, f = [e EXCEPT !.position = @ - k, !.rebases = @ + 1]
             PROVE  /\ f \in Note /\ f.time = e.time /\ f.position = e.position - k
                    /\ f.rebases = e.rebases + 1
  OBVIOUS
<1>1. e.position - k \in Int /\ e.rebases + 1 \in Nat /\ e.time \in Nat
  BY DEF Note
<1>2. f.time = e.time /\ f.position = e.position - k /\ f.rebases = e.rebases + 1
  BY DEF Note
<1>3. f \in [time : Nat, position : Int, rebases : Nat]
  BY <1>1, <1>2 DEF Note
<1> QED
  BY <1>2, <1>3 DEF Note

\* The second half of the locked section: the queue follows the mapping.
LEMMA TimelineShift ==
    ASSUME Assumed, TimelineInv, ShiftEvents
    PROVE  TimelineInv'
<1>1. /\ UNCHANGED <<now, cursor, running, shown, timing, pending, activate, written, player,
                     count, settled, owed>>
      /\ render.at = "shift" /\ render' = [render EXCEPT !.at = "anchored"]
      /\ events' = [i \in 1 .. Len(events) |->
                       IF render.shift = 0 THEN events[i]
                       ELSE [events[i] EXCEPT !.position = @ - render.shift, !.rebases = @ + 1]]
  BY DEF ShiftEvents
<1>2. /\ render' \in [at : {"write", "review", "clock", "rebase", "shift", "anchored", "render",
                            "wait", "sleep"}, clock : Nat, shift : Nat, sure : BOOLEAN]
      /\ render'.at = "anchored" /\ render'.clock = render.clock /\ render'.sure = render.sure
      /\ render.shift \in Nat
  BY <1>1 DEF TimelineInv, TimelineTyped
<1>3. events \in Seq(Note) /\ Len(events) \in Nat
  BY DEF TimelineInv, TimelineTyped
<1>4. ASSUME NEW i \in 1 .. Len(events)
      PROVE  /\ events[i] \in Note /\ events'[i] \in Note
             /\ events'[i].time = events[i].time
             /\ events'[i].position = Position(events[i])
             /\ events'[i].rebases = Crossed(events[i])
  <2>1. events[i] \in Note
    BY <1>3
  <2>2. events'[i] = IF render.shift = 0 THEN events[i]
                     ELSE [events[i] EXCEPT !.position = @ - render.shift, !.rebases = @ + 1]
    BY <1>1
  <2>3. PICK e \in Note : events[i] = e
    BY <2>1
  <2>4. CASE render.shift = 0
    BY <1>1, <2>2, <2>3, <2>4 DEF Note, Position, Crossed
  <2>5. CASE render.shift > 0
    <3>1. /\ events'[i] \in Note /\ events'[i].time = e.time
          /\ events'[i].position = e.position - render.shift
          /\ events'[i].rebases = e.rebases + 1
      <4>1. PICK k \in Nat : render.shift = k
        BY <1>2
      <4>2. PICK f : f = events'[i]
        OBVIOUS
      <4>3. f = [e EXCEPT !.position = @ - k, !.rebases = @ + 1]
        <5>1. render.shift # 0
          BY <2>5
        <5>2. f = [events[i] EXCEPT !.position = @ - render.shift, !.rebases = @ + 1]
          BY <2>2, <4>2, <5>1, Zenon
        <5> QED
          BY <2>3, <4>1, <5>2, Zenon
      <4>4. /\ f \in Note /\ f.time = e.time /\ f.position = e.position - k
            /\ f.rebases = e.rebases + 1
        BY <4>3, ShiftedNote
      <4> QED
        BY <4>1, <4>2, <4>4
    <3> QED
      BY <1>1, <2>3, <2>5, <3>1 DEF Position, Crossed
  <2> QED
    BY <1>2, <2>4, <2>5
<1>5. events' \in Seq(Note) /\ Len(events') = Len(events)
  <2>1. events' \in [1 .. Len(events) -> Note]
    BY <1>1, <1>4
  <2> QED
    BY <1>3, <2>1
<1>6. TimelineTyped'
  BY <1>1, <1>2, <1>5 DEF TimelineInv, TimelineTyped, TypeOK
<1>7. NotesCounted' /\ CursorsApart' /\ ReviewFollowsWrite' /\ RearmIsReviewed'
  BY <1>1, <1>2, <1>5 DEF TimelineInv, NotesCounted, CursorsApart, ReviewFollowsWrite,
     RearmIsReviewed
<1>8. NotesFollowMapping'
  <2>1. player'.at # "mapped"
    BY <1>1 DEF TimelineInv, NotesFollowMapping
  <2>2. ASSUME NEW i \in 1 .. Len(events)
        PROVE  Follows(events[i])'
    <3>1. /\ Position(events[i])' = Position(events[i])
          /\ Crossed(events[i])' = Crossed(events[i])
          /\ events[i].time' = events[i].time /\ activate' = activate
      BY <1>1, <1>2, <1>4 DEF Position, Crossed
    <3> QED
      BY <3>1 DEF TimelineInv, NotesFollowMapping, Follows, Beyond, RefTimeToSample
  <2> QED
    BY <1>5, <2>1, <2>2 DEF NotesFollowMapping
<1>9. WrittenFitsCursors' /\ MappingFitsWritten'
  BY <1>1, <1>2 DEF TimelineInv, WrittenFitsCursors, MappingFitsWritten, Underrun, Timeout, Early, Offset,
     EstimatedPlay, WriteLatency, CurrentLatency
<1> QED
  BY <1>6, <1>7, <1>8, <1>9 DEF TimelineInv

\* The renderer takes a prefix of the queue, and nothing else.
LEMMA TimelineRender ==
    ASSUME Assumed, TimelineInv, Render
    PROVE  TimelineInv'
<1> DEFINE later == {i \in 1 .. Len(events) : ~Due(events[i])}
           first == CHOOSE i \in later : \A j \in later : i <= j
<1>1. /\ UNCHANGED <<now, cursor, running, shown, timing, pending, activate, written, player,
                     count, settled, owed>>
      /\ render.at = "render" /\ render' = [render EXCEPT !.at = "wait"]
      /\ events' = IF later = {} THEN << >> ELSE SubSeq(events, first, Len(events))
  BY DEF Render
<1>2. events \in Seq(Note) /\ Len(events) \in Nat
  BY DEF TimelineInv, TimelineTyped
<1>3. /\ events' \in Seq(Note) /\ Len(events') <= Len(events)
      /\ \A i \in 1 .. Len(events') : \E j \in 1 .. Len(events) : events'[i] = events[j]
  <2>1. CASE later = {}
    <3>1. events' = << >>
      BY <1>1, <2>1
    <3> QED
      BY <1>2, <3>1
  <2>2. CASE later # {}
    <3>1. first \in 1 .. Len(events)
      <4>1. later \in SUBSET (1 .. Len(events))
        OBVIOUS
      <4> HIDE DEF later
      <4> QED
        BY <1>2, <2>2, <4>1, FirstIsOne
    <3>2. events' = SubSeq(events, first, Len(events))
      BY <1>1, <2>2
    <3> HIDE DEF later, first
    <3>3. Len(events) - first + 1 <= Len(events)
      BY <1>2, <3>1
    <3> QED
      BY <1>2, <3>1, <3>2, <3>3, Rest
  <2> QED
    BY <2>1, <2>2
<1> HIDE DEF later, first
<1>4. /\ render' \in [at : {"write", "review", "clock", "rebase", "shift", "anchored", "render",
                            "wait", "sleep"}, clock : Nat, shift : Nat, sure : BOOLEAN]
      /\ render'.at = "wait"
  BY <1>1 DEF TimelineInv, TimelineTyped
<1>5. Len(events') \in Nat
  BY <1>3
<1>6. TimelineTyped'
  <2>1. Len(events') <= MaxNotes
    <3>1. Len(events) <= MaxNotes /\ MaxNotes \in Nat
      BY DEF TimelineInv, TimelineTyped, TypeOK, Assumed, BoundAssumption
    <3> QED
      BY <1>2, <1>3, <1>5, <3>1
  <2> QED
    BY <1>1, <1>3, <1>4, <2>1 DEF TimelineInv, TimelineTyped, TypeOK
<1>7. NotesCounted' /\ CursorsApart' /\ ReviewFollowsWrite' /\ RearmIsReviewed'
  <2>1. NotesCounted'
    BY <1>1, <1>2, <1>3, <1>5 DEF TimelineInv, NotesCounted, TimelineTyped
  <2> QED
    BY <1>1, <1>4, <2>1 DEF TimelineInv, CursorsApart, ReviewFollowsWrite, RearmIsReviewed
<1>8. NotesFollowMapping'
  <2>1. ASSUME NEW i \in 1 .. Len(events')
        PROVE  Follows(events[i])'
    <3>1. PICK j \in 1 .. Len(events) : events'[i] = events[j]
      BY <1>3
    <3>2. /\ Position(events[i])' = Position(events[j])
          /\ Crossed(events[i])' = Crossed(events[j])
          /\ events[i].time' = events[j].time /\ activate' = activate
      BY <1>1, <1>4, <3>1 DEF Position, Crossed
    <3> QED
      BY <3>2 DEF TimelineInv, NotesFollowMapping, Follows, Beyond, RefTimeToSample
  <2> QED
    BY <1>1, <1>4, <2>1 DEF TimelineInv, NotesFollowMapping, RefTimeToSample
<1>9. WrittenFitsCursors' /\ MappingFitsWritten'
  BY <1>4 DEF WrittenFitsCursors, MappingFitsWritten
<1> QED
  BY <1>6, <1>7, <1>8, <1>9 DEF TimelineInv

\* A note is mapped: synth->cs is free, so the mapping is not half moved.
LEMMA TimelineMap ==
    ASSUME Assumed, TimelineInv, MapNote
    PROVE  TimelineInv'
<1>1. /\ UNCHANGED <<now, cursor, running, shown, timing, pending, activate, written, render,
                     events, settled, owed>>
      /\ player.at = "idle" /\ count.notes < MaxNotes /\ render.at # "shift"
      /\ count' = [count EXCEPT !.notes = @ + 1]
  BY DEF MapNote, SynthFree
<1>2. PICK d \in Delays :
         player' = [at |-> "mapped", time |-> now + d, position |-> RefTimeToSample(now + d)]
  BY DEF MapNote
<1>3. now + d \in Nat
  BY DEF TimelineInv, TimelineTyped, TypeOK, Assumed, InputAssumption, BoundAssumption
<1>4. RefTimeToSample(now + d) \in Int
  <2>1. (now + d) - activate \in Int
    BY <1>3 DEF TimelineInv, TimelineTyped, TypeOK
  <2> QED
    BY <2>1, Mapped DEF RefTimeToSample
<1>5. /\ player' \in [at : {"idle", "mapped"}, time : Nat, position : Int]
      /\ player'.at = "mapped" /\ player'.time = now + d
      /\ player'.position = RefTimeToSample(now + d)
  BY <1>2, <1>3, <1>4
<1>6. /\ count' \in [gaps : 0 .. MaxGaps, notes : 0 .. MaxNotes, fails : 0 .. MaxFails]
      /\ count'.notes = count.notes + 1
  BY <1>1 DEF TimelineInv, TimelineTyped, Assumed, BoundAssumption
<1>7. TimelineTyped'
  BY <1>1, <1>5, <1>6 DEF TimelineInv, TimelineTyped, TypeOK
<1>8. NotesCounted' /\ CursorsApart' /\ ReviewFollowsWrite' /\ RearmIsReviewed'
  <2>1. Len(events) \in Nat /\ count.notes \in Nat
    BY DEF TimelineInv, TimelineTyped, Assumed, BoundAssumption
  <2> QED
    BY <1>1, <1>5, <1>6, <2>1 DEF TimelineInv, NotesCounted, CursorsApart, ReviewFollowsWrite,
       RearmIsReviewed
<1>9. NotesFollowMapping'
  BY <1>1, <1>5 DEF TimelineInv, NotesFollowMapping, Follows, Beyond, Position,
     Crossed, RefTimeToSample
<1>10. WrittenFitsCursors' /\ MappingFitsWritten'
  BY <1>1 DEF TimelineInv, WrittenFitsCursors, MappingFitsWritten, Underrun, Timeout, Early, Offset,
     EstimatedPlay, WriteLatency, CurrentLatency
<1> QED
  BY <1>7, <1>8, <1>9, <1>10 DEF TimelineInv

\* The note is queued: it stands where it was mapped, and crossed nothing yet.
LEMMA TimelineQueue ==
    ASSUME Assumed, TimelineInv, QueueNote
    PROVE  TimelineInv'
<1> DEFINE after == {i \in 1 .. Len(events) : events[i].time > player.time}
           first == CHOOSE i \in after : \A j \in after : i <= j
           place == IF after = {} THEN Len(events) + 1 ELSE first
           note == [time |-> player.time, position |-> player.position, rebases |-> 0]
<1>1. /\ UNCHANGED <<now, cursor, running, shown, timing, pending, activate, written, render,
                     count, settled, owed>>
      /\ player.at = "mapped" /\ player' = [at |-> "idle", time |-> 0, position |-> 0]
      /\ events' = InsertAt(events, place, note)
  BY DEF QueueNote
<1>2. events \in Seq(Note) /\ Len(events) \in Nat
  BY DEF TimelineInv, TimelineTyped
<1>3. /\ note \in Note /\ note.time = player.time /\ note.position = player.position
      /\ note.rebases = 0
  BY DEF TimelineInv, TimelineTyped, Note
<1>4. place \in 1 .. Len(events) + 1
  <2>1. CASE after = {}
    BY <1>2, <2>1
  <2>2. CASE after # {}
    <3>1. after \in SUBSET (1 .. Len(events))
      OBVIOUS
    <3>2. first \in 1 .. Len(events)
      <4> HIDE DEF after
      <4> QED
        BY <1>2, <2>2, <3>1, FirstIsOne
    <3> HIDE DEF first, after
    <3> QED
      BY <1>2, <2>2, <3>2
  <2> QED
    BY <2>1, <2>2
<1> HIDE DEF after, first, place, note
<1>5. /\ events' \in Seq(Note) /\ Len(events') = Len(events) + 1
      /\ \A i \in 1 .. Len(events') :
            events'[i] = note \/ \E j \in 1 .. Len(events) : events'[i] = events[j]
  BY <1>1, <1>2, <1>3, <1>4, Inserted
<1>6. /\ player' \in [at : {"idle", "mapped"}, time : Nat, position : Int]
      /\ player'.at = "idle"
  BY <1>1
<1>7. NotesCounted' /\ Len(events') <= MaxNotes
  <2>1. Len(events) + 1 <= count.notes /\ count.notes <= MaxNotes /\ count.notes \in Nat
    BY <1>1, <1>2 DEF TimelineInv, NotesCounted, TimelineTyped, Assumed, BoundAssumption
  <2> QED
    BY <1>1, <1>2, <1>5, <1>6, <2>1 DEF NotesCounted, Assumed, BoundAssumption
<1>8. TimelineTyped'
  BY <1>1, <1>5, <1>6, <1>7 DEF TimelineInv, TimelineTyped, TypeOK
<1>9. CursorsApart' /\ ReviewFollowsWrite' /\ RearmIsReviewed'
  BY <1>1 DEF TimelineInv, CursorsApart, ReviewFollowsWrite, RearmIsReviewed
<1>10. NotesFollowMapping'
  <2>1. /\ render.at # "shift" /\ player.position = RefTimeToSample(player.time)
        /\ player.position \in Int
    BY <1>1 DEF TimelineInv, TimelineTyped, NotesFollowMapping
  <2>2. ASSUME NEW i \in 1 .. Len(events')
        PROVE  Follows(events[i])'
    <3>1. CASE events'[i] = note
      <4>1. PICK t \in Nat : player.time = t
        BY DEF TimelineInv, TimelineTyped
      <4>2. PICK n \in Int : n = t - activate
        BY DEF TimelineInv, TimelineTyped, TypeOK
      <4>3. PICK p \in Int, b \in Int :
               /\ Trunc(Trunc(n, Coarse) * Hz, Ticks) = p /\ n * Hz - p * Second = b
               /\ n >= 0 => b \in 0 .. Grain
               /\ n < 0 => -b \in 0 .. Grain
        BY Mapped
      <4>4. /\ Position(events[i])' = p /\ Crossed(events[i])' = 0 /\ events[i].time' = t
            /\ RefTimeToSample(events[i].time)' = p /\ Beyond(events[i])' = b
            /\ activate' = activate
        BY <1>1, <1>3, <2>1, <3>1, <4>1, <4>2, <4>3 DEF Position, Crossed, RefTimeToSample, Beyond
      <4>5. Second - 1 \in Int /\ (Second - 1) * 0 = 0 /\ Grain \in Nat /\ activate \in Nat
        <5>1. Second \in Nat /\ Grain \in Nat /\ activate \in Nat
          BY Units DEF TimelineInv, TimelineTyped, TypeOK
        <5>2. Second - 1 \in Int
          BY <5>1
        <5>3. \A x \in Int : x * 0 = 0
          OBVIOUS
        <5> QED
          BY <5>1, <5>2, <5>3
      <4>6. b <= Grain /\ -b <= 0 + (IF t < activate THEN Grain ELSE 0)
        BY <4>2, <4>3, <4>5
      <4> QED
        BY <4>4, <4>5, <4>6 DEF Follows
    <3>2. CASE \E j \in 1 .. Len(events) : events'[i] = events[j]
      <4>1. PICK j \in 1 .. Len(events) : events'[i] = events[j]
        BY <3>2
      <4>2. /\ Position(events[i])' = Position(events[j])
            /\ Crossed(events[i])' = Crossed(events[j])
            /\ events[i].time' = events[j].time /\ activate' = activate
        BY <1>1, <2>1, <4>1 DEF Position, Crossed
      <4> QED
        BY <4>2 DEF TimelineInv, NotesFollowMapping, Follows, Beyond, RefTimeToSample
    <3> QED
      BY <1>5, <3>1, <3>2
  <2> QED
    BY <1>6, <2>2 DEF NotesFollowMapping
<1>11. WrittenFitsCursors' /\ MappingFitsWritten'
  BY <1>1 DEF TimelineInv, WrittenFitsCursors, MappingFitsWritten, Underrun, Timeout, Early, Offset,
     EstimatedPlay, WriteLatency, CurrentLatency
<1> QED
  BY <1>7, <1>8, <1>9, <1>10, <1>11 DEF TimelineInv

\* Every step keeps the invariant.
LEMMA TimelineNext ==
    ASSUME Assumed, TimelineInv, [Next]_vars
    PROVE  TimelineInv'
<1>1. CASE UNCHANGED vars
  <2>1. TimelineTyped' /\ NotesCounted' /\ CursorsApart' /\ ReviewFollowsWrite'
    BY <1>1 DEF vars, TimelineInv, TimelineTyped, TypeOK, NotesCounted, CursorsApart,
       ReviewFollowsWrite
  <2>2. NotesFollowMapping'
    BY <1>1 DEF vars, TimelineInv, NotesFollowMapping, Follows, Beyond, Position,
     Crossed, RefTimeToSample
  <2>3. RearmIsReviewed' /\ WrittenFitsCursors' /\ MappingFitsWritten'
    BY <1>1 DEF vars, TimelineInv, RearmIsReviewed, WrittenFitsCursors, MappingFitsWritten,
       Underrun, Timeout, Early, Offset, EstimatedPlay, WriteLatency, CurrentLatency
  <2> QED
    BY <2>1, <2>2, <2>3 DEF TimelineInv
<1>2. CASE Tick \/ Suspend
  BY <1>2, TimelineWorld
<1> QED
  BY <1>1, <1>2, TimelineTiming, TimelineCycle, TimelineResync, TimelineRebase, TimelineShift,
     TimelineRender, TimelineMap, TimelineQueue DEF Next

-----------------------------------------------------------------------------
(* What holds of every behaviour.                                          *)

\* The inductive invariant: the queue, read through a locked section half
\* done, follows the mapping, exactly while it crossed no rebase and else
\* within the grain and a sample a rebase; the cursors are a lead apart; and a
\* mapping just moved fits the position it was moved for.
THEOREM TimelineInvariant == ASSUME Assumed PROVE Spec => []TimelineInv
<1>1. Init => TimelineInv
  BY TimelineInit
<1>2. TimelineInv /\ [Next]_vars => TimelineInv'
  BY TimelineNext
<1> QED
  BY <1>1, <1>2, PTL DEF Spec

\* Every variable keeps its type: positions and clocks never go negative, and
\* the queue holds no more notes than the game has played.
THEOREM TimelineTypes == ASSUME Assumed PROVE Spec => []TypeOK
<1>1. TimelineInv => TypeOK
  BY DEF TimelineInv, TimelineTyped
<1> QED
  BY <1>1, TimelineInvariant, PTL

\* No note crosses a rebase half converted (patch 83): outside the locked
\* section a queued note, and the one PlayBuffer() holds, stands where its
\* time would be mapped now, exactly if it crossed no rebase, and else within
\* what the truncations of RefTimeToSample() and of the shifts come to.
THEOREM NotesCrossWhole == ASSUME Assumed PROVE Spec => []NotesStandWhereTheyWouldBeMapped
<1>1. ASSUME TimelineInv PROVE NotesStandWhereTheyWouldBeMapped
  <2>1. SUFFICES ASSUME render.at # "shift" PROVE NotesStandWhereTheyWouldBeMapped
    BY DEF NotesStandWhereTheyWouldBeMapped
  <2>2. player.at = "mapped" => player.position = RefTimeToSample(player.time)
    BY <1>1 DEF TimelineInv, NotesFollowMapping
  <2>3. ASSUME NEW i \in 1 .. Len(events)
        PROVE  LET e == events[i]
                   fresh == RefTimeToSample(e.time) IN
               /\ e.rebases = 0 => e.position = fresh
               /\ (e.position - fresh) * Second <= Grain + (Second - 1) * e.rebases
               /\ (fresh - e.position) * Second
                      <= (IF e.time < activate THEN 2 * Grain ELSE Grain)
    <3>1. PICK e \in Note : events[i] = e
      BY <1>1 DEF TimelineInv, TimelineTyped
    <3>2. PICK t \in Nat, p \in Int, c \in Nat : e.time = t /\ e.position = p /\ e.rebases = c
      BY <3>1 DEF Note
    <3>3. PICK n \in Int : n = t - activate
      BY <1>1 DEF TimelineInv, TimelineTyped, TypeOK
    <3>4. PICK f \in Int, b \in Int :
             /\ Trunc(Trunc(n, Coarse) * Hz, Ticks) = f /\ n * Hz - f * Second = b
             /\ n >= 0 => b \in 0 .. Grain
             /\ n < 0 => -b \in 0 .. Grain
      BY <1>1, Mapped
    <3>5. RefTimeToSample(t) = f
      BY <3>3, <3>4 DEF RefTimeToSample
    <3>6. /\ Hz \in Nat \ {0} /\ Second \in Nat \ {0} /\ Grain \in Nat /\ activate \in Nat
      BY <1>1, Units DEF TimelineInv, TimelineTyped, TypeOK
    <3>7. PICK y \in Nat : (Second - 1) * c = y
      <4>1. Second - 1 \in Nat
        BY <3>6
      <4> QED
        BY <4>1, Products
    <3>8. PICK x \in Int : x = n * Hz - p * Second
      BY <3>6, Z3
    <3>9. /\ c = 0 => p = f
          /\ x <= Grain /\ -x <= y + (IF t < activate THEN Grain ELSE 0)
      <4>1. Follows(e) /\ Position(e) = p /\ Crossed(e) = c
        BY <1>1, <2>1, <3>1, <3>2 DEF TimelineInv, NotesFollowMapping, Position, Crossed
      <4>2. Beyond(e) = x
        BY <3>2, <3>3, <3>8, <4>1 DEF Beyond
      <4> QED
        BY <3>2, <3>5, <3>7, <4>1, <4>2 DEF Follows
    <3>10. (p - f) * Second = b - x /\ (f - p) * Second = x - b
      BY <3>4, <3>6, <3>8, Z3
    <3>11. /\ b - x <= Grain + y
           /\ x - b <= (IF t < activate THEN 2 * Grain ELSE Grain)
      BY <3>3, <3>4, <3>6, <3>7, <3>9
    <3> QED
      BY <3>1, <3>2, <3>5, <3>7, <3>9, <3>10, <3>11
  <2> QED
    BY <2>1, <2>2, <2>3 DEF NotesStandWhereTheyWouldBeMapped
<1> QED
  BY <1>1, TimelineInvariant, PTL

\* A re-armed transport is reviewed: its marker is up until the render thread
\* takes it down to review, and a failing clock puts it up again.
THEOREM RearmsAreReviewed == ASSUME Assumed PROVE Spec => []RearmIsReviewed
<1>1. TimelineInv => RearmIsReviewed
  BY DEF TimelineInv
<1> QED
  BY <1>1, TimelineInvariant, PTL

\* A rebase that worked from the transport's cursors as they now are anchors
\* to a write position in which the next look finds no underrun.
THEOREM AnchorsAreLive == ASSUME Assumed PROVE Spec => []AnchorNeedsNoCorrection
<1>1. TimelineInv => AnchorNeedsNoCorrection
  BY DEF TimelineInv, WrittenFitsCursors, AnchorNeedsNoCorrection
<1> QED
  BY <1>1, TimelineInvariant, PTL

\* The arithmetic of a note that is not held back: t is its time, p its
\* position, y what the rebases it crossed and the truncations lost; w is
\* written, l the write latency, st and lt the times they last, c the clock.
LEMMA HeldBack ==
    ASSUME NEW d \in Nat \ {0}, NEW h \in Nat \ {0}, NEW p \in Int, NEW y \in Int,
           NEW w \in Nat, NEW l \in Nat, NEW st \in Nat, NEW lt \in Nat,
           NEW c \in Nat, NEW a \in Nat, NEW t \in Nat, NEW g \in Nat,
           lt - (a + st - c) <= g, st * h <= w * d, l * d - lt * h <= h - 1,
           p * d - (t - a) * h <= y
    PROVE  (p - w) * d <= (t - c + g) * h - l * d + (h - 1) + y
<1>1. PICK ph \in Int, wd \in Int, ld \in Int, sh \in Int, lh \in Int :
         p * d = ph /\ w * d = wd /\ l * d = ld /\ st * h = sh /\ lt * h = lh
  OBVIOUS
<1>2. PICK k \in Nat : k = g - (lt - (a + st - c))
  <2>1. g - (lt - (a + st - c)) \in Nat
    OBVIOUS
  <2> QED
    BY <2>1
<1>3. PICK kh \in Nat : k * h = kh
  BY Products
<1>4. t - a = (t - c + g) - lt + st - k
  BY <1>2
<1>5. PICK ta \in Int, tc \in Int : (t - a) * h = ta /\ (t - c + g) * h = tc
  OBVIOUS
<1>6. ta = tc - lh + sh - kh
  <2>1. ((t - c + g) - lt + st - k) * h = (t - c + g) * h - lt * h + st * h - k * h
    BY Z3
  <2> QED
    BY <1>1, <1>3, <1>4, <1>5, <2>1
<1>7. (p - w) * d = ph - wd
  <2>1. (p - w) * d = p * d - w * d
    BY Z3
  <2> QED
    BY <1>1, <2>1
<1>8. sh <= wd /\ ld - lh <= h - 1 /\ ph - ta <= y
  BY <1>1, <1>5
<1>9. ph - wd <= tc - ld + (h - 1) + y
  BY <1>6, <1>8
<1> QED
  BY <1>1, <1>5, <1>7, <1>9

\* What the rebase is for: after a review no queued note is held back beyond
\* its time by more than the gate, less the lead, and the rounding.
THEOREM NotesAreOnTime == ASSUME Assumed PROVE Spec => []NotesAreNotHeldBack
<1>1. ASSUME Assumed, TimelineInv PROVE NotesAreNotHeldBack
  <2>1. SUFFICES ASSUME render.at = "anchored", NEW i \in 1 .. Len(events)
                 PROVE  (events[i].position - written) * Second
                           <= (events[i].time - render.clock + Gate) * Hz - WriteLatency * Second
                                + (Second - 1) * events[i].rebases + (Hz - 1)
                                + (IF events[i].time < activate THEN Grain ELSE 0)
    BY DEF NotesAreNotHeldBack
  <2>2. PICK e \in Note : events[i] = e
    BY <1>1 DEF TimelineInv, TimelineTyped
  <2>3. /\ Hz \in Nat \ {0} /\ Second \in Nat \ {0} /\ Grain \in Nat
        /\ Gate \in Nat /\ activate \in Nat /\ written \in Nat
        /\ render.clock \in Nat /\ WriteLatency \in Nat
        /\ e.time \in Nat /\ e.position \in Int /\ e.rebases \in Nat
    BY <1>1, Units, Derived DEF TimelineInv, TimelineTyped, TypeOK, Assumed, SizeAssumption, Note
  <2>4. PICK t \in Nat, p \in Int, c \in Nat : e.time = t /\ e.position = p /\ e.rebases = c
    BY <2>3
  <2>5. PICK st \in Nat, lt \in Nat, x \in Int, z \in Int :
           /\ SampleTime(written) = st /\ SampleTime(WriteLatency) = lt
           /\ written * Second - st * Hz = x /\ x \in 0 .. Hz - 1
           /\ WriteLatency * Second - lt * Hz = z /\ z \in 0 .. Hz - 1
    <3>1. /\ SampleTime(written) \in Nat /\ SampleTime(WriteLatency) \in Nat
          /\ written * Second - SampleTime(written) * Hz \in 0 .. Hz - 1
          /\ WriteLatency * Second - SampleTime(WriteLatency) * Hz \in 0 .. Hz - 1
      BY <1>1, <2>3, Lasting
    <3>2. \A n \in 0 .. Hz - 1 : n \in Int
      BY <2>3
    <3> QED
      BY <3>1, <3>2, Zenon
  <2>6. lt - (activate + st - render.clock) <= Gate
    BY <1>1, <2>1, <2>5 DEF TimelineInv, MappingFitsWritten, CurrentLatency
  <2>7. st * Hz <= written * Second /\ WriteLatency * Second - lt * Hz <= Hz - 1
    <3>1. PICK wd \in Int, sh \in Int : written * Second = wd /\ st * Hz = sh
      BY <2>3
    <3> QED
      BY <2>3, <2>5, <3>1
  <2>8. PICK y \in Int : y = (Second - 1) * c + (IF t < activate THEN Grain ELSE 0)
    BY <2>3
  <2>9. p * Second - (t - activate) * Hz <= y
    <3>1. Follows(e) /\ Position(e) = p /\ Crossed(e) = c
      BY <1>1, <2>1, <2>2, <2>4 DEF TimelineInv, NotesFollowMapping, Position, Crossed
    <3>2. -Beyond(e) <= y
      BY <2>4, <2>8, <3>1 DEF Follows
    <3>3. PICK ph \in Int, ta \in Int : p * Second = ph /\ (t - activate) * Hz = ta
      BY <2>3
    <3>4. Beyond(e) = ta - ph
      BY <2>4, <3>1, <3>3 DEF Beyond
    <3> QED
      BY <3>2, <3>3, <3>4
  <2>10. (p - written) * Second
            <= (t - render.clock + Gate) * Hz - WriteLatency * Second + (Hz - 1) + y
    BY <2>3, <2>6, <2>7, <2>9, HeldBack
  <2> QED
    <3>1. PICK u \in Int, v \in Int, yc \in Int :
             /\ (p - written) * Second = u /\ (Second - 1) * c = yc
             /\ (t - render.clock + Gate) * Hz - WriteLatency * Second = v
      BY <2>3
    <3>2. u <= v + (Hz - 1) + y
      BY <2>10, <3>1
    <3>3. u <= v + yc + (Hz - 1) + (IF t < activate THEN Grain ELSE 0)
      BY <2>3, <2>8, <3>1, <3>2
    <3> QED
      BY <2>2, <2>4, <3>1, <3>3
<1> QED
  BY <1>1, TimelineInvariant, PTL

=============================================================================
