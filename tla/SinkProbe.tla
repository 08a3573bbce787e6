----------------------------- MODULE SinkProbe -----------------------------
(***************************************************************************)
(* The one-shot probe of dmsynth (patches 02 and 33) and its external      *)
(* reader, dmsynth_sinkprobe.py, which also arms it by writing to the      *)
(* game's memory.                                                          *)
(*                                                                         *)
(* A player thread that meets the target note takes the marker with a      *)
(* compare and exchange and then names its sink.  The render thread of     *)
(* that sink records each block it renders in the next record, and fills   *)
(* in what it copied when the block is written.  Arming puts a sentinel    *)
(* into the marker, clears count and names, and commits marker 0.          *)
(*                                                                         *)
(* One synth, one player and one renderer per sink.  The six words that    *)
(* name the target are two here: the sink, and the note.                   *)
(***************************************************************************)
EXTENDS Naturals, FiniteSets

CONSTANTS Sinks,
          EVENTS,      \* records of the probe (64 in the code)
          Notes,       \* bound: target notes played
          Blocks,      \* bound: blocks recorded
          Arms,        \* bound: times the probe is armed
          AtRest       \* is no block in the probe while it is armed?

ProbeAssumption ==
  /\ {EVENTS, Notes, Blocks, Arms} \subseteq Nat \ {0}
  /\ AtRest \in BOOLEAN

VARIABLES marker,        \* 0 armed, 1 taken, Sentinel while being armed
          count,         \* records claimed
          markerSink, markerNote,   \* what took the marker
          records,
          player,        \* per sink: where the player thread is, and its note
          renderer,      \* per sink: where the render thread is
          arming,        \* where the arming reader is
          notes, blocks, \* notes and blocks so far
          capture,       \* how often the probe was armed
          winners        \* notes that took the marker of this capture

probe == <<marker, count, markerSink, markerNote, records>>
vars == <<probe, player, renderer, arming, notes, blocks, capture, winners>>

Sentinel == 2
NoSink == "no sink"
NoRecord == EVENTS
Blank == [capture |-> 0, sink |-> NoSink, block |-> 0, copied |-> 0]

----------------------------------------------------------------------------
(* synth_sink_probe_mark *)

Take(s) ==
  /\ player[s].at = "idle" /\ notes < Notes
  /\ notes' = notes + 1
  /\ IF marker = 0
     THEN /\ marker' = 1
          /\ winners' = winners \cup {notes + 1}
          /\ player' = [player EXCEPT ![s] = [at |-> "check", note |-> notes + 1]]
     ELSE UNCHANGED <<marker, winners, player>>
  /\ UNCHANGED <<count, markerSink, markerNote, records, renderer, arming,
                 blocks, capture>>

(* The marker is read once more before the target is named. *)
Check(s) ==
  /\ player[s].at = "check"
  /\ player' = [player EXCEPT ![s].at = IF marker = 1 THEN "sink" ELSE "idle"]
  /\ UNCHANGED <<probe, renderer, arming, notes, blocks, capture, winners>>

NameSink(s) ==
  /\ player[s].at = "sink"
  /\ markerSink' = s
  /\ player' = [player EXCEPT ![s].at = "note"]
  /\ UNCHANGED <<marker, count, markerNote, records, renderer, arming, notes,
                 blocks, capture, winners>>

NameNote(s) ==
  /\ player[s].at = "note"
  /\ markerNote' = player[s].note
  /\ player' = [player EXCEPT ![s].at = "idle"]
  /\ UNCHANGED <<marker, count, markerSink, records, renderer, arming, notes,
                 blocks, capture, winners>>

Mark(s) == Take(s) \/ Check(s) \/ NameSink(s) \/ NameNote(s)

----------------------------------------------------------------------------
(* sinkprobe_render and sinkprobe_write_begin .. sinkprobe_unlock *)

(* sinkprobe_matches: the sentinel counts as a marker. *)
Matches(s) == marker /= 0 /\ markerSink = s

Render(s) ==
  /\ renderer[s].at = "idle" /\ blocks < Blocks
  /\ Matches(s)
  /\ AtRest => arming = "idle"
  /\ blocks' = blocks + 1
  /\ renderer' = [renderer EXCEPT ![s] =
       [at |-> "claim", index |-> NoRecord, block |-> blocks + 1, of |-> capture]]
  /\ UNCHANGED <<probe, player, arming, notes, capture, winners>>

(* A full probe gives no record. *)
Claim(s) ==
  /\ renderer[s].at = "claim"
  /\ count' = count + 1
  /\ renderer' = [renderer EXCEPT ![s].at = IF count < EVENTS THEN "fill" ELSE "idle",
       ![s].index = IF count < EVENTS THEN count ELSE NoRecord]
  /\ UNCHANGED <<marker, markerSink, markerNote, records, player, arming,
                 notes, blocks, capture, winners>>

Fill(s) ==
  /\ renderer[s].at = "fill"
  /\ records' = [records EXCEPT ![renderer[s].index] =
       [capture |-> renderer[s].of, sink |-> s, block |-> renderer[s].block,
        copied |-> 0]]
  /\ renderer' = [renderer EXCEPT ![s].at = "write"]
  /\ UNCHANGED <<marker, count, markerSink, markerNote, player, arming, notes,
                 blocks, capture, winners>>

Released(s) == [renderer EXCEPT ![s].at = "idle", ![s].index = NoRecord]

(* The block reaches the buffer, and the record is let go; or Lock fails   *)
(* and the record is let go without it.                                    *)
Copy(s) ==
  /\ renderer[s].at = "write"
  /\ \/ records' = [records EXCEPT ![renderer[s].index].copied = renderer[s].block]
     \/ UNCHANGED records
  /\ renderer' = Released(s)
  /\ UNCHANGED <<marker, count, markerSink, markerNote, player, arming, notes,
                 blocks, capture, winners>>

Write(s) == Render(s) \/ Claim(s) \/ Fill(s) \/ Copy(s)

----------------------------------------------------------------------------
(* arm_state: three writes into the game's memory *)

Quiet == \A s \in Sinks : player[s].at = "idle" /\ renderer[s].at = "idle"

Raise ==
  /\ arming = "idle" /\ capture < Arms
  /\ AtRest => Quiet
  /\ marker' = Sentinel
  /\ arming' = "clear"
  /\ UNCHANGED <<count, markerSink, markerNote, records, player, renderer,
                 notes, blocks, capture, winners>>

\* Mutant: the count is left as it is.
ClearNames ==
  /\ arming = "clear"
  /\ markerSink' = NoSink /\ markerNote' = 0
  /\ arming' = "commit"
  /\ UNCHANGED <<marker, count, records, player, renderer, notes, blocks,
                 capture, winners>>

Clear ==
  /\ arming = "clear"
  /\ count' = 0 /\ markerSink' = NoSink /\ markerNote' = 0
  /\ arming' = "commit"
  /\ UNCHANGED <<marker, records, player, renderer, notes, blocks, capture,
                 winners>>

Commit ==
  /\ arming = "commit"
  /\ marker' = 0
  /\ capture' = capture + 1
  /\ winners' = {}
  /\ arming' = "idle"
  /\ UNCHANGED <<count, markerSink, markerNote, records, player, renderer,
                 notes, blocks>>

Arm == Raise \/ Clear \/ Commit

----------------------------------------------------------------------------
Init ==
  /\ marker = 0 /\ count = 0
  /\ markerSink = NoSink /\ markerNote = 0
  /\ records = [i \in 0 .. EVENTS - 1 |-> Blank]
  /\ player = [s \in Sinks |-> [at |-> "idle", note |-> 0]]
  /\ renderer = [s \in Sinks |->
                   [at |-> "idle", index |-> NoRecord, block |-> 0, of |-> 0]]
  /\ arming = "idle"
  /\ notes = 0 /\ blocks = 0 /\ capture = 0
  /\ winners = {}

Next == Arm \/ \E s \in Sinks : Mark(s) \/ Write(s)

Spec == Init /\ [][Next]_vars

----------------------------------------------------------------------------
(* read_state: the records below the count, at most all of them *)
Read == {records[i] : i \in {i \in 0 .. EVENTS - 1 : i < count}}

\* The probe's words and the threads' places.
TypeOK ==
  /\ marker \in {0, 1, Sentinel}
  /\ count \in 0 .. Blocks
  /\ markerSink \in Sinks \cup {NoSink} /\ markerNote \in 0 .. Notes
  /\ records \in [0 .. EVENTS - 1 ->
       [capture : 0 .. Arms, sink : Sinks \cup {NoSink}, block : 0 .. Blocks,
        copied : 0 .. Blocks]]
  /\ \A s \in Sinks :
       /\ player[s] \in [at : {"idle", "check", "sink", "note"}, note : 0 .. Notes]
       /\ renderer[s] \in [at : {"idle", "claim", "fill", "write"},
            index : 0 .. EVENTS, block : 0 .. Blocks, of : 0 .. Arms]
  /\ arming \in {"idle", "clear", "commit"}

\* "arming exactly the next target event": of the notes played since the
\* probe was armed at most one is its target, whichever thread plays it.
OneNotePerCapture == Cardinality(winners) <= 1

\* Once every thread is out of the probe, what it holds is one capture: the
\* records of blocks of the sink that took the marker since it was armed,
\* each with the copy of its own block, and the note that took it.
SettledIsTheCapture ==
  Quiet /\ arming = "idle" =>
    /\ \A r \in Read :
         /\ r.capture = capture
         /\ r.sink = markerSink
         /\ r.copied \in {0, r.block}
    /\ winners /= {} => winners = {markerNote}

=============================================================================
