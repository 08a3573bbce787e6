---------------------------- MODULE GuestBlocks -----------------------------
(***************************************************************************)
(* From a perf sample in translated code back to the guest block that ran. *)
(* Box86's recorder appends a record for every block it compiles and never *)
(* removes one, while it frees native code and compiles other blocks over  *)
(* it (patch 02).  box86_guest_snapshot.py copies the records from outside *)
(* after the capture; box86_guest_profile.py and freeze_guest_read.py each *)
(* resolve the samples in their own way.                                   *)
(***************************************************************************)
EXTENDS Integers, Sequences, FiniteSetsExt

CONSTANTS
    Native,   \* native code addresses, 1 .. N
    Sizes,    \* sizes of a translated block
    Guest,    \* guest blocks (x86_start)
    NoGuest,  \* the zero of a record not yet written
    Capacity, \* MGS2_GUEST_MAP_CAPACITY
    MaxBlocks \* bound on the compilations

NativeAssumption == Native = 1 .. Cardinality(Native)
SizeAssumption == Sizes \subseteq Nat \ {0} /\ Sizes # {} /\ Capacity \in Nat
GuestAssumption == NoGuest \notin Guest

VARIABLES
    live,     \* the translated blocks, as they lie in native memory
    count,    \* mgs2_guest_map_count
    records,  \* mgs2_guest_map, as far as it is reserved
    overflow, \* mgs2_guest_map_overflow
    writer,   \* the compiling thread: its place, and the block it records
    sample,   \* a perf sample: its address, what really ran, was it recorded?
    snapshot  \* the copy: its place, saved_count, overflow and records

vars == <<live, count, records, overflow, writer, sample, snapshot>>

Empty == [start |-> 0, size |-> 0, x86 |-> NoGuest]

Covers(b, ip) == b.start <= ip /\ ip < b.start + b.size

Overlap(a, b) == a.start < b.start + b.size /\ b.start < a.start + a.size

Init ==
    /\ live = {} /\ count = 0 /\ records = << >> /\ overflow = FALSE
    /\ writer = [at |-> "idle", block |-> Empty]
    /\ sample = [taken |-> FALSE, ip |-> 0, x86 |-> NoGuest, recorded |-> FALSE]
    /\ snapshot = [at |-> "waiting", count |-> 0, overflow |-> FALSE, records |-> << >>]

-----------------------------------------------------------------------------
(* Box86.  Blocks are compiled and recorded one at a time, under its lock. *)

Compile ==
    /\ writer.at = "idle" /\ count < MaxBlocks
    /\ snapshot.at # "read"  \* bound: nothing after the copy is followed
    /\ \E s \in Native, z \in Sizes, x \in Guest :
          LET b == [start |-> s, size |-> z, x86 |-> x] IN
          /\ s + z - 1 \in Native
          /\ \A o \in live : ~Overlap(o, b) /\ o.x86 # x
          /\ live' = live \union {b}
          /\ writer' = [at |-> "done", block |-> b]
    /\ UNCHANGED <<count, records, overflow, sample, snapshot>>

Free ==
    /\ writer.at = "idle" /\ snapshot.at # "read"
    /\ \E b \in live : live' = live \ {b}
    /\ UNCHANGED <<count, records, overflow, writer, sample, snapshot>>

Reserve ==
    /\ writer.at = "done"
    /\ count' = count + 1
    /\ IF count >= Capacity
       THEN /\ overflow' = TRUE
            /\ writer' = [at |-> "idle", block |-> Empty]
            /\ UNCHANGED records
       ELSE /\ writer' = [writer EXCEPT !.at = "native"]
            /\ records' = Append(records, Empty)
            /\ UNCHANGED overflow
    /\ UNCHANGED <<live, sample, snapshot>>

WriteNative ==
    /\ writer.at = "native"
    /\ records' = [records EXCEPT ![Len(records)] = [writer.block EXCEPT !.x86 = NoGuest]]
    /\ writer' = [writer EXCEPT !.at = "guest"]
    /\ UNCHANGED <<live, count, overflow, sample, snapshot>>

WriteGuest ==
    /\ writer.at = "guest"
    /\ records' = [records EXCEPT ![Len(records)] = writer.block]
    /\ writer' = [at |-> "idle", block |-> Empty]
    /\ UNCHANGED <<live, count, overflow, sample, snapshot>>

\* perf takes a sample of a thread that runs a block.
Sample ==
    /\ ~sample.taken /\ snapshot.at = "waiting"
    /\ \E b \in live : \E ip \in b.start .. b.start + b.size - 1 :
          sample' = [taken |-> TRUE, ip |-> ip, x86 |-> b.x86, recorded |-> FALSE]
    /\ UNCHANGED <<live, count, records, overflow, writer, snapshot>>

-----------------------------------------------------------------------------
(* box86_guest_snapshot.py, once the capture is over                       *)

MinOf(a, b) == IF a < b THEN a ELSE b

ReadCount ==
    /\ snapshot.at = "waiting" /\ sample.taken
    /\ snapshot' = [snapshot EXCEPT !.at = "counted", !.count = count,
                        !.overflow = overflow]
    /\ sample' = [sample EXCEPT !.recorded =
                     \E i \in 1 .. Len(records) :
                        /\ records[i].x86 = sample.x86
                        /\ Covers(records[i], sample.ip)]
    /\ UNCHANGED <<live, count, records, overflow, writer>>

ReadRecords ==
    /\ snapshot.at = "counted"
    /\ snapshot' = [snapshot EXCEPT !.at = "read",
                        !.records = SubSeq(records, 1, MinOf(snapshot.count, Capacity))]
    /\ UNCHANGED <<live, count, records, overflow, writer, sample>>

-----------------------------------------------------------------------------
(* The readers                                                             *)

Indices == 1 .. Len(snapshot.records)

\* load_map() of freeze_guest_read.py
Usable(i) == snapshot.records[i].size > 0 /\ snapshot.records[i].x86 # NoGuest

LongestUsable == Max({0} \union {snapshot.records[i].size : i \in {j \in Indices : Usable(j)}})

\* Mutant: the walk back stops at the first record that holds the sample.
OwnersNearest(ip) ==
    LET hits == {i \in Indices : Usable(i) /\ Covers(snapshot.records[i], ip)} IN
    {snapshot.records[i].x86 : i \in {j \in hits : \A k \in hits :
        snapshot.records[k].start <= snapshot.records[j].start}}

\* owners(): the walk back from the address goes as far as the longest block.
Owners(ip) ==
    {snapshot.records[i].x86 : i \in {j \in Indices :
        /\ Usable(j)
        /\ snapshot.records[j].start >= ip - LongestUsable
        /\ Covers(snapshot.records[j], ip)}}

\* sorted(recs), by what decides: two records next to each other in the order
\* of their starts.
Neighbours ==
    {p \in Indices \X Indices :
        /\ p[1] # p[2] /\ Usable(p[1]) /\ Usable(p[2])
        /\ snapshot.records[p[1]].start <= snapshot.records[p[2]].start
        /\ \A k \in Indices \ {p[1], p[2]} : Usable(k) =>
              \/ snapshot.records[k].start <= snapshot.records[p[1]].start
              \/ snapshot.records[k].start >= snapshot.records[p[2]].start}

\* map_invariants(): neighbours of which the first reaches into the second
Overlaps ==
    {p \in Neighbours : LET a == snapshot.records[p[1]]
                            b == snapshot.records[p[2]] IN a.start + a.size > b.start}

\* containing() of box86_guest_profile.py: the last record, in the order of
\* starts and then of the file, that begins at or below the address
Nearest(ip) ==
    LET below == {i \in Indices : snapshot.records[i].start <= ip}
        last == {i \in below : \A j \in below :
                   \/ snapshot.records[j].start < snapshot.records[i].start
                   \/ snapshot.records[j].start = snapshot.records[i].start /\ j <= i} IN
    {snapshot.records[i].x86 : i \in {j \in last : Covers(snapshot.records[j], ip)}}

-----------------------------------------------------------------------------

Next ==
    \/ Compile \/ Free \/ Reserve \/ WriteNative \/ WriteGuest
    \/ Sample \/ ReadCount \/ ReadRecords

Spec == Init /\ [][Next]_vars

-----------------------------------------------------------------------------

Blocks == [start : Native \union {0}, size : Sizes \union {0}, x86 : Guest \union {NoGuest}]

TypeOK ==
    /\ live \subseteq Blocks
    /\ count \in 0 .. MaxBlocks /\ overflow \in BOOLEAN
    /\ Len(records) <= Capacity /\ \A i \in 1 .. Len(records) : records[i] \in Blocks
    /\ writer.at \in {"idle", "done", "native", "guest"} /\ writer.block \in Blocks
    /\ sample.taken \in BOOLEAN /\ sample.recorded \in BOOLEAN
    /\ snapshot.at \in {"waiting", "counted", "read"}
    /\ \A i \in Indices : snapshot.records[i] \in Blocks

Resolved == snapshot.at = "read" /\ ~snapshot.overflow /\ sample.recorded

\* A sample that has one owner was running that owner, and every sample has
\* one: whatever was compiled over what, freed, or is being recorded while
\* the records are copied.  A sample the snapshot cannot tell is ambiguous.
UniqueOwnerIsTheBlock ==
    Resolved =>
        /\ sample.x86 \in Owners(sample.ip)
        /\ Owners(sample.ip) = {sample.x86} \/ Cardinality(Owners(sample.ip)) > 1

\* The count of overlapping neighbours that stands beside every attribution
\* is not zero when some address has two owners, neighbours or not.
AmbiguityIsCounted ==
    snapshot.at = "read" /\ (\E ip \in Native : Cardinality(Owners(ip)) > 1) => Overlaps # {}

\* The two tools agree where the map is sound: box86_guest_profile.py, which
\* looks only at the nearest record below a sample, and owners() name the same
\* block for every address when no record overlaps another or is half written.
ReadersAgree ==
    snapshot.at = "read" /\ Overlaps = {} /\ (\A i \in Indices : Usable(i)) =>
        \A ip \in Native : Nearest(ip) = Owners(ip)

=============================================================================
