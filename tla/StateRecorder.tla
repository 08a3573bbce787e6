--------------------------- MODULE StateRecorder ---------------------------
(***************************************************************************)
(* The two memory-only recorders of the audio DLLs (dmsynth, dmime) and    *)
(* the readers that copy them out of /proc/PID/mem while the game runs.    *)
(*                                                                         *)
(* Writers are the threads that record: several synths, several segments.  *)
(* Each claims the next sequence number, clears its slot's number, fills   *)
(* the slot and stores the number last.  A reader copies header, ring,     *)
(* header, and the ring again if the header moved; its copy is not atomic, *)
(* so it is taken here word by word.  A record has two data words, each    *)
(* holding the number of the record it was written for.                    *)
(*                                                                         *)
(* The interlocked operations are taken as ordering the plain stores       *)
(* around them, as the comment of patch 13 does.  The counters of events   *)
(* and voices beside the ring are left out.                                *)
(***************************************************************************)
EXTENDS Naturals, Sequences

CONSTANTS Writers,     \* threads that record
          EVENTS,      \* slots of the ring (256 in the code)
          MaxSeq,      \* bound: records written in a run
          Reader,      \* which reader: "dmsynth" or "dmime"
          Snapshots,   \* bound: how many times the reader is run
          Lapping      \* may a writer sleep while the ring goes round?

RecorderAssumption ==
  /\ EVENTS \in Nat \ {0} /\ MaxSeq \in Nat
  /\ Reader \in {"dmsynth", "dmime"} /\ Snapshots \in {1, 2}
  /\ Lapping \in BOOLEAN

VARIABLES write_sequence,  \* the header's count of claimed records
          records,         \* the ring: number and data words of each slot
          writer,          \* per thread: where it is, and the record it writes
          reader,          \* where the reader is
          header,          \* the header's count as the reader read it last
          raw,             \* the reader's copy of the ring
          done,            \* the snapshots taken: count reported, records reported
          begun            \* committed records when this snapshot began

vars == <<write_sequence, records, writer, reader, header, raw, done, begun>>

Slots == 0 .. EVENTS - 1
Words == {"sequence", "first", "last"}
Empty == [sequence |-> 0, first |-> 0, last |-> 0]
SlotOf(seq) == (seq - 1) % EVENTS

Committed == {records[s].sequence : s \in Slots} \ {0}

----------------------------------------------------------------------------
(* The writers *)

Writing(w) == writer[w].at /= "idle"

(* A record is claimed by one interlocked increment. *)
Claim(w) ==
  /\ writer[w].at = "idle"
  /\ write_sequence < MaxSeq
  /\ \/ Lapping
     \/ \A v \in Writers : Writing(v) =>
          writer[v].seq + EVENTS > write_sequence + 1
  /\ write_sequence' = write_sequence + 1
  /\ writer' = [writer EXCEPT ![w] = [at |-> "clear", seq |-> write_sequence + 1]]
  /\ UNCHANGED <<records, reader, header, raw, done, begun>>

(* One store of the writer into its slot, and what it does next. *)
Store(w, at, word, value, next) ==
  /\ writer[w].at = at
  /\ records' = [records EXCEPT ![SlotOf(writer[w].seq)][word] = value]
  /\ writer' = [writer EXCEPT ![w].at = next]
  /\ UNCHANGED <<write_sequence, reader, header, raw, done, begun>>

Clear(w)  == Store(w, "clear", "sequence", 0, "first")
First(w)  == Store(w, "first", "first", writer[w].seq, "last")
Last(w)   == Store(w, "last", "last", writer[w].seq, "commit")
Commit(w) == Store(w, "commit", "sequence", writer[w].seq, "idle")

Record(w) == Claim(w) \/ Clear(w) \/ First(w) \/ Last(w) \/ Commit(w)

----------------------------------------------------------------------------
(* The reader *)

NoCopy == [s \in Slots |-> Empty]
At(step, slot, word) == [step |-> step, slot |-> slot, word |-> word]
Idle == At("idle", 0, "sequence")

(* The header is read first. *)
Open ==
  /\ reader = Idle
  /\ Len(done) < Snapshots
  /\ header' = write_sequence
  /\ reader' = At("ring", 0, "sequence")
  /\ begun' = Committed
  /\ UNCHANGED <<write_sequence, records, writer, raw, done>>

(* The ring is copied upwards, a word at a time; the second copy overwrites *)
(* the first.                                                               *)

After(step, slot, word) ==
  CASE word = "sequence" -> At(step, slot, "first")
    [] word = "first" -> At(step, slot, "last")
    [] word = "last" /\ slot < EVENTS - 1 -> At(step, slot + 1, "sequence")
    [] OTHER -> At(IF step = "ring" THEN "header" ELSE "again", 0, "sequence")

Copy ==
  /\ reader.step \in {"ring", "reread"}
  /\ raw' = [raw EXCEPT ![reader.slot][reader.word] =
                           records[reader.slot][reader.word]]
  /\ reader' = After(reader.step, reader.slot, reader.word)
  /\ UNCHANGED <<write_sequence, records, writer, header, done, begun>>

(* decode_records: a slot is reported when its number lies in the window   *)
(* that ends with the header's count and belongs to that slot.             *)

WindowStart(count) == IF count < EVENTS THEN 1 ELSE count - EVENTS + 1

Decode(count) ==
  {raw[s] : s \in {s \in Slots :
                     /\ raw[s].sequence \in WindowStart(count) .. count
                     /\ SlotOf(raw[s].sequence) = s}}

Report(count) ==
  /\ done' = Append(done, [sequence |-> count, records |-> Decode(count),
                           begun |-> begun])
  /\ reader' = Idle
  /\ header' = 0
  /\ raw' = NoCopy
  /\ begun' = {}
  /\ UNCHANGED <<write_sequence, records, writer>>

Reread ==
  /\ header' = write_sequence
  /\ reader' = At("reread", 0, "sequence")
  /\ UNCHANGED <<write_sequence, records, writer, raw, done, begun>>

(* The header is read again; if it moved, so is the ring. *)
SecondHeader ==
  /\ reader.step = "header"
  /\ IF header = write_sequence THEN Report(write_sequence) ELSE Reread

(* After the second copy dmsynth_state.py reads the header a third time;   *)
(* dmime_state.py keeps the one it read before that copy.                  *)
\* Mutant: the reader of dmsynth keeps the header it has.
ThirdHeaderKept ==
  /\ reader.step = "again"
  /\ Report(header)

ThirdHeader ==
  /\ reader.step = "again"
  /\ Report(IF Reader = "dmsynth" THEN write_sequence ELSE header)

Read == Open \/ Copy \/ SecondHeader \/ ThirdHeader

----------------------------------------------------------------------------
Init ==
  /\ write_sequence = 0
  /\ records = NoCopy
  /\ writer = [w \in Writers |-> [at |-> "idle", seq |-> 0]]
  /\ reader = Idle
  /\ header = 0
  /\ raw = NoCopy
  /\ done = <<>>
  /\ begun = {}

Next == Read \/ \E w \in Writers : Record(w)

Spec == Init /\ [][Next]_vars

----------------------------------------------------------------------------
(* diff_states of two snapshots: the records numbered after the first      *)
(* snapshot's count.                                                       *)
NewRecords ==
  {r \in done[2].records : r.sequence > done[1].sequence}

----------------------------------------------------------------------------
(* Properties *)

\* The ring, the writers and the reader hold values of their types.
TypeOK ==
  /\ write_sequence \in 0 .. MaxSeq
  /\ records \in [Slots -> [Words -> 0 .. MaxSeq]]
  /\ \A w \in Writers :
       writer[w] \in [at : {"idle", "clear", "first", "last", "commit"}, seq : 0 .. MaxSeq]
  /\ reader \in [step : {"idle", "ring", "header", "reread", "again"},
                 slot : Slots, word : Words]
  /\ header \in 0 .. MaxSeq
  /\ raw \in [Slots -> [Words -> 0 .. MaxSeq]]
  /\ Len(done) <= Snapshots
  /\ begun \subseteq 1 .. MaxSeq

Reported == UNION {done[i].records : i \in 1 .. Len(done)}

\* "an external reader can therefore reject a record that was sampled
\* halfway through an update" (patch 13): every record a snapshot reports
\* holds the data of the record whose number it carries, however the copy
\* interleaves with the writers.
RecordsAreWhole ==
  \A r \in Reported : r.first = r.sequence /\ r.last = r.sequence

\* A snapshot loses nothing it could have had: a record committed before the
\* snapshot began is in it unless the ring has come round to its slot.
NothingCommittedIsLost ==
  \A i \in 1 .. Len(done) :
    \A seq \in done[i].begun :
      seq + EVENTS > done[i].sequence =>
        \E r \in done[i].records : r.sequence = seq

\* diff_states: a record called new was committed after the first snapshot was
\* begun, so it is not shown twice to one who adds up successive differences.
NewIsNew ==
  Len(done) = 2 => \A r \in NewRecords : r.sequence \notin done[1].begun
=============================================================================
