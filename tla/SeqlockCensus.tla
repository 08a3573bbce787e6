---------------------------- MODULE SeqlockCensus ----------------------------
(***************************************************************************)
(* The in-memory censuses of patches 37 to 39 and their external readers   *)
(* (harness/reinforcement_{submit,break,wait}_census.py).                  *)
(*                                                                         *)
(* The command-stream thread counts in a private record; at every present  *)
(* it makes publish_sequence odd, copies the record word by word, and      *)
(* makes it even again.  A reader takes the header, the words and the      *)
(* header again, gives up after a number of tries, and two snapshots in    *)
(* two runs of the tool are subtracted.  The game may be restarted at any  *)
(* time.  The counters are those of the wait census: a frame's wall clock  *)
(* is split into the present handler, the empty queue, and the rest.       *)
(***************************************************************************)
EXTENDS Integers, Sequences

CONSTANTS Width,         \* a counter is Width values wide (2^32)
          Frequency,     \* clock ticks in a microsecond
          MaxTime,       \* ticks in a behaviour
          MaxPresents,   \* presents in the life of a process
          Tries,         \* snapshot attempts (20)
          MaxRestarts

CensusAssumption ==
    /\ Width \in Nat \ {0} /\ Frequency \in Nat \ {0}
    /\ MaxTime \in Nat /\ MaxPresents \in Nat /\ Tries \in Nat \ {0}
    /\ MaxRestarts \in Nat

Words == <<"presents", "present_us", "idle_us", "exec_us", "wall_us">>
Names == {Words[i] : i \in 1..Len(Words)}
Zero == [n \in Names |-> 0]

VARIABLES
    now,           \* QueryPerformanceCounter
    pid,           \* lives of the game so far
    pc,            \* the command-stream thread: poll, exec, present, publish
    live,          \* mgs2_p39.counters
    started, lastMark, idleOpen, idleStart, presentStart,
    seq,           \* publish_sequence
    public,        \* the published words
    copied,        \* words copied of the publication under way
    history,       \* ghost: the records published, in order
    at,            \* the reader: <<step, words read>>
    tries,
    header,        \* the sequence of its first header
    body,          \* the words read so far
    shots,         \* the snapshots taken
    report         \* what --diff printed: none, refused, or the differences

game == <<now, pid, pc, live, started, lastMark, idleOpen, idleStart,
          presentStart, seq, public, copied, history>>
reader == <<at, tries, header, body, shots, report>>
vars == <<game, reader>>

Fresh ==
    /\ pc = "poll" /\ live = Zero
    /\ started = FALSE /\ lastMark = 0
    /\ idleOpen = FALSE /\ idleStart = 0 /\ presentStart = 0
    /\ seq = 0 /\ public = Zero /\ copied = 0 /\ history = <<Zero>>

Init ==
    /\ Fresh /\ now = 0 /\ pid = 1
    /\ at = <<"away", 0>> /\ tries = 0 /\ header = 0 /\ body = <<>>
    /\ shots = <<>> /\ report = <<"none">>

-----------------------------------------------------------------------------
(* The game.                                                               *)

Elapsed(from) == IF now <= from THEN 0 ELSE (now - from) \div Frequency

Tick ==
    /\ now < MaxTime /\ pc # "publish"
    /\ now' = now + 1
    /\ UNCHANGED <<pid, pc, live, started, lastMark, idleOpen, idleStart,
                   presentStart, seq, public, copied, history, reader>>

(* mgs2_p39_on: the first call starts the wall clock.                      *)
On ==
    /\ started' = TRUE
    /\ lastMark' = IF started THEN lastMark ELSE now

(* An empty queue is polled: the first poll opens an idle episode.         *)
Spin ==
    /\ pc = "poll" /\ ~idleOpen
    /\ On
    /\ idleOpen' = TRUE /\ idleStart' = now
    /\ UNCHANGED <<now, pid, pc, live, presentStart, seq, public, copied,
                   history, reader>>

(* A packet is found: mgs2_p39_busy closes the episode, and the present    *)
(* handler reads the clock as it begins.                                   *)
TakePacket(kind) ==
    /\ pc = "poll"
    /\ kind = "present" => Len(history) <= MaxPresents
    /\ On
    /\ pc' = kind
    /\ live' = IF idleOpen
               THEN [live EXCEPT !["idle_us"] = (@ + Elapsed(idleStart)) % Width]
               ELSE live
    /\ idleOpen' = FALSE
    /\ presentStart' = IF kind = "present" THEN now ELSE presentStart
    /\ UNCHANGED <<now, pid, idleStart, seq, public, copied, history, reader>>

Executed ==
    /\ pc = "exec"
    /\ pc' = "poll"
    /\ UNCHANGED <<now, pid, live, started, lastMark, idleOpen, idleStart,
                   presentStart, seq, public, copied, history, reader>>

(* mgs2_p39_present: the frame is closed; what was neither present nor     *)
(* idle was execution.                                                     *)
PresentDone ==
    LET present == (live["present_us"] + Elapsed(presentStart)) % Width
        wall == (live["wall_us"] + Elapsed(lastMark)) % Width
        spent == (present + live["idle_us"]) % Width
    IN
    /\ pc = "present"
    /\ live' = [live EXCEPT !["presents"] = (@ + 1) % Width,
                            !["present_us"] = present,
                            !["wall_us"] = wall,
                            !["exec_us"] = IF wall > spent THEN wall - spent ELSE 0]
    /\ lastMark' = now
    /\ seq' = seq + 1
    /\ pc' = "publish" /\ copied' = 0
    /\ UNCHANGED <<now, pid, started, idleOpen, idleStart, presentStart,
                   public, history, reader>>

CopyWord ==
    /\ pc = "publish" /\ copied < Len(Words)
    /\ public' = [public EXCEPT ![Words[copied + 1]] = live[Words[copied + 1]]]
    /\ copied' = copied + 1
    /\ UNCHANGED <<now, pid, pc, live, started, lastMark, idleOpen, idleStart,
                   presentStart, seq, history, reader>>

Published ==
    /\ pc = "publish" /\ copied = Len(Words)
    /\ seq' = seq + 1
    /\ history' = Append(history, live)
    /\ pc' = "poll"
    /\ UNCHANGED <<now, pid, live, started, lastMark, idleOpen, idleStart,
                   presentStart, public, copied, reader>>

(* The game dies and is started again: a new process, all counters zero.   *)
Restart ==
    /\ pid <= MaxRestarts
    /\ pid' = pid + 1
    /\ pc' = "poll" /\ live' = Zero
    /\ started' = FALSE /\ lastMark' = 0
    /\ idleOpen' = FALSE /\ idleStart' = 0 /\ presentStart' = 0
    /\ seq' = 0 /\ public' = Zero /\ copied' = 0 /\ history' = <<Zero>>
    /\ UNCHANGED <<now, reader>>

Game == Tick \/ Spin \/ Executed \/ PresentDone \/ CopyWord \/ Published
        \/ Restart \/ \E kind \in {"exec", "present"} : TakePacket(kind)

-----------------------------------------------------------------------------
(* The reader.                                                             *)

Reading == at[1] \in {"first", "words", "second"}

(* find_pid, module_base and the open of /proc/PID/mem.                    *)
Open ==
    /\ at[1] = "away" /\ Len(shots) < 2
    /\ at' = <<"first", pid>> /\ tries' = 0 /\ header' = 0 /\ body' = <<>>
    /\ UNCHANGED <<game, shots, report>>

(* A read of the memory of a process that is gone is short: the tool ends. *)
ProcessGone ==
    /\ Reading /\ at[2] # pid
    /\ at' = <<"failed", 0>>
    /\ UNCHANGED <<game, tries, header, body, shots, report>>

Retry(step) ==
    IF tries + 1 < Tries THEN <<"first", at[2]>> ELSE <<"failed", 0>>

(* The header: an odd sequence is a publication under way.                 *)
ReadFirst ==
    /\ at = <<"first", pid>>
    /\ header' = seq
    /\ at' = IF seq % 2 = 1 THEN Retry("first") ELSE <<"words", pid>>
    /\ tries' = IF seq % 2 = 1 THEN tries + 1 ELSE tries
    /\ body' = <<>>
    /\ UNCHANGED <<game, shots, report>>

ReadWord ==
    /\ at = <<"words", pid>>
    /\ body' = Append(body, public[Words[Len(body) + 1]])
    /\ at' = IF Len(body') = Len(Words) THEN <<"second", pid>> ELSE at
    /\ UNCHANGED <<game, tries, header, shots, report>>

Shot == [pid |-> pid, seq |-> header,
         words |-> [n \in Names |->
                      body[CHOOSE i \in 1..Len(Words) : Words[i] = n]]]

\* Mutant: the header is not read a second time
ReadSecondBlind ==
    /\ at = <<"second", pid>>
    /\ shots' = Append(shots, Shot) /\ at' = <<"away", 0>> /\ tries' = 0
    /\ header' = 0 /\ body' = <<>>
    /\ UNCHANGED <<game, report>>

(* The header again: unchanged, the words belong together.                 *)
ReadSecond ==
    /\ at = <<"second", pid>>
    /\ \/ /\ seq = header
          /\ shots' = Append(shots, Shot) /\ at' = <<"away", 0>> /\ tries' = 0
       \/ /\ seq # header
          /\ at' = Retry("second") /\ tries' = tries + 1
          /\ UNCHANGED shots
    /\ header' = 0 /\ body' = <<>>
    /\ UNCHANGED <<game, report>>

(* The difference of a counter, not masked to its width.                   *)
Plain(n) == shots[2].words[n] - shots[1].words[n]

(* --diff of the break and wait readers.                                   *)
Diff ==
    /\ Len(shots) = 2 /\ report = <<"none">>
    /\ report' = IF shots[1].pid # shots[2].pid THEN <<"refused">>
                 ELSE <<"delta", [n \in Names |-> Plain(n)]>>
    /\ UNCHANGED <<game, at, tries, header, body, shots>>

Reader == Open \/ ProcessGone \/ ReadFirst \/ ReadWord \/ ReadSecond \/ Diff

Next == Game \/ Reader

Spec == Init /\ [][Next]_vars

-----------------------------------------------------------------------------
(* The sequence is odd exactly while words are copied, and the published   *)
(* words are the newest record whenever it is even.                        *)
TypeOK ==
    /\ now \in 0..MaxTime /\ pid \in 1..(MaxRestarts + 1)
    /\ \A n \in Names : live[n] \in 0..(Width - 1)
    /\ seq % 2 = IF pc = "publish" THEN 1 ELSE 0
    /\ Len(history) = seq \div 2 + 1
    /\ seq % 2 = 0 => public = history[Len(history)]
    /\ tries \in 0..Tries /\ Len(body) <= Len(Words) /\ Len(shots) <= 2

(* Why a snapshot is whole, in the parts an induction needs.               *)
GameTyped ==
    /\ now \in 0..MaxTime /\ pid \in 1..(MaxRestarts + 1)
    /\ pc \in {"poll", "exec", "present", "publish"}
    /\ live \in [Names -> 0..(Width - 1)]
    /\ started \in BOOLEAN /\ idleOpen \in BOOLEAN
    /\ lastMark \in Nat /\ idleStart \in Nat /\ presentStart \in Nat
    /\ seq \in Nat /\ public \in [Names -> 0..(Width - 1)]
    /\ copied \in 0..Len(Words)
    /\ history \in Seq([Names -> 0..(Width - 1)]) /\ history # <<>>

ReaderTyped ==
    /\ at \in ({"away", "failed"} \X {0}) \cup ({"first", "words", "second"} \X (1..pid))
    /\ tries \in 0..Tries /\ header \in Nat
    /\ body \in Seq(0..(Width - 1))
    /\ shots \in Seq([pid : 1..pid, seq : Nat, words : [Names -> 0..(Width - 1)]])
    /\ Len(shots) <= 2 /\ Len(body) <= Len(Words)
    /\ Reading => tries < Tries /\ Len(shots) < 2
    /\ at[1] = "words" => Len(body) < Len(Words)
    /\ at[1] = "second" => Len(body) = Len(Words)

(* Two steps of the sequence to a record, an odd one while it is copied.   *)
SequenceCounts == seq = 2 * (Len(history) - 1) + (IF pc = "publish" THEN 1 ELSE 0)

(* The words copied are the new record's, the others the last one's.       *)
WordsArePublished ==
    \A i \in 1..Len(Words) :
        public[Words[i]] = IF pc = "publish" /\ i <= copied THEN live[Words[i]]
                           ELSE history[Len(history)][Words[i]]

(* What the reader holds is of the moment of its header until it changes.  *)
ReaderIsOfItsHeader ==
    at[1] \in {"words", "second"} /\ at[2] = pid =>
        /\ \E k \in 1..Len(history) : header = 2 * (k - 1)
        /\ header = seq => \A i \in 1..Len(body) : body[i] = public[Words[i]]

ShotsArePublished ==
    \A i \in 1..Len(shots) : shots[i].pid = pid =>
        \E k \in 1..Len(history) :
            shots[i].seq = 2 * (k - 1) /\ shots[i].words = history[k]

SeqlockInv ==
    /\ GameTyped /\ ReaderTyped /\ SequenceCounts /\ WordsArePublished
    /\ ReaderIsOfItsHeader /\ ShotsArePublished

(* As long as no counter of presents has come round its width, a record's  *)
(* number is its count of presents, in the game and in every snapshot.     *)
PresentsAreCounted ==
    MaxPresents < Width =>
        /\ Len(history) <= MaxPresents + 1
        /\ pc \in {"present", "publish"} => Len(history) <= MaxPresents
        /\ \A k \in 1..Len(history) : history[k]["presents"] = k - 1
        /\ live["presents"] = Len(history) - (IF pc = "publish" THEN 0 ELSE 1)
        /\ \A i \in 1..Len(shots) : shots[i].seq = 2 * shots[i].words["presents"]
        /\ report[1] = "delta" =>
              /\ Len(shots) = 2 /\ shots[1].pid = shots[2].pid
              /\ report[2]["presents"] =
                    shots[2].words["presents"] - shots[1].words["presents"]

(* The moment up to which the frame's time is in an account: the open      *)
(* present handler or idle episode began there.                            *)
Accounted == IF pc = "present" THEN presentStart ELSE IF idleOpen THEN idleStart ELSE now

AddsUp(words) ==
    words["wall_us"] = words["present_us"] + words["idle_us"] + words["exec_us"]

(* As long as no clock has come round its width: the two accounts never    *)
(* take more than the wall clock of the frames closed and of what has      *)
(* passed of the open one, though each interval is rounded down by itself. *)
FrameIsAccounted ==
    /\ pc # "poll" => ~idleOpen
    /\ pc = "publish" => lastMark = now
    /\ lastMark <= Accounted /\ Accounted <= now
    /\ live["present_us"] + live["idle_us"]
          <= live["wall_us"] + ((Accounted - lastMark) \div Frequency)
    /\ live["wall_us"] <= lastMark \div Frequency

AccountsAddUp ==
    MaxTime \div Frequency < Width =>
        /\ started => FrameIsAccounted
        /\ ~started => live = Zero /\ ~idleOpen /\ pc = "poll"
        /\ pc = "publish" => AddsUp(live)
        /\ \A k \in 1..Len(history) : AddsUp(history[k])
        /\ \A i \in 1..Len(shots) : AddsUp(shots[i].words)
        /\ report[1] = "delta" => Len(shots) = 2 /\ report[2] = [n \in Names |-> Plain(n)]

(* A snapshot the reader returns is one published record, whole, although  *)
(* it reads it a word at a time from a process that keeps publishing.      *)
SnapshotIsPublished ==
    \A i \in 1..Len(shots) : shots[i].pid = pid =>
        shots[i].words = history[(shots[i].seq \div 2) + 1]

(* The difference counts the presents between the two snapshots of one     *)
(* process: twice that many steps of the publish sequence.                 *)
DeltaIsOfOneProcess ==
    report[1] = "delta" =>
        /\ shots[1].pid = shots[2].pid
        /\ 2 * report[2]["presents"] = shots[2].seq - shots[1].seq

(* "exec / present / idle" split the wall clock: in every report the three *)
(* accounts add up to it, the subtraction that yields exec never clamps.   *)
ReportAddsUp ==
    report[1] = "delta" =>
        report[2]["wall_us"] =
            report[2]["present_us"] + report[2]["idle_us"] + report[2]["exec_us"]

=============================================================================
