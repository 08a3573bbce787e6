------------------------ MODULE SeqlockCensusProofs ------------------------
(* The publication of the reinforcement census under a sequence count and     *)
(* its reader, for any width of the counters, any clock and any number of      *)
(* presents, retries and restarts: a snapshot is one published record, a       *)
(* difference is of one process, and a report adds up.                         *)
EXTENDS SeqlockCensus, TLAPS

\* An even number and the odd one after it have the same half.
LEMMA Halves ==
    ASSUME NEW k \in Nat
    PROVE  /\ (2 * k) % 2 = 0 /\ (2 * k + 1) % 2 = 1
           /\ (2 * k) \div 2 = k /\ (2 * k + 1) \div 2 = k
  BY Z3

\* The payload of the census has five words.
LEMMA FiveLong == Len(Words) = 5
BY DEF Words

\* The five words of the payload are distinct, and every name is one of them.
LEMMA FiveWords ==
    /\ Len(Words) = 5
    /\ \A i \in 1..5 : Words[i] \in Names
    /\ \A n \in Names : \E i \in 1..5 : n = Words[i]
    /\ \A i, j \in 1..5 : Words[i] = Words[j] => i = j
    /\ {"presents", "present_us", "idle_us", "exec_us", "wall_us"} \subseteq Names
  <1>1. Len(Words) = 5
    BY DEF Words
  <1>2. /\ Words[1] = "presents" /\ Words[2] = "present_us" /\ Words[3] = "idle_us"
        /\ Words[4] = "exec_us" /\ Words[5] = "wall_us"
    BY DEF Words
  <1>3. 1..5 = {1, 2, 3, 4, 5}
    OBVIOUS
  <1>4. Names = {Words[1], Words[2], Words[3], Words[4], Words[5]}
    BY <1>1, <1>3 DEF Names
  <1> QED
    BY <1>1, <1>2, <1>3, <1>4

\* A counter cut to the census's width is one of its values.
LEMMA Remainder ==
    ASSUME NEW a \in Int, CensusAssumption
    PROVE  a % Width \in 0..(Width - 1)
  BY DEF CensusAssumption

\* The microseconds since a recorded clock value are an integer.
LEMMA ElapsedIsInt ==
    ASSUME CensusAssumption, GameTyped, NEW from \in Nat
    PROVE  Elapsed(from) \in Int
  BY DEF CensusAssumption, GameTyped, Elapsed

\* The seqlock invariant holds of a new game and a reader that has not begun.
LEMMA InvInit == CensusAssumption /\ Init => SeqlockInv
<1> SUFFICES ASSUME CensusAssumption, Init
             PROVE  SeqlockInv
  OBVIOUS
<1>1. /\ Zero \in [Names -> 0..(Width - 1)]
      /\ <<Zero>> \in Seq([Names -> 0..(Width - 1)]) /\ <<Zero>> # <<>>
  BY DEF Zero, CensusAssumption
<1>2. GameTyped
  <2>1. 0 \in 0..Len(Words)
    BY FiveLong
  <2>2. 0 \in 0..MaxTime /\ 1 \in 1..(MaxRestarts + 1)
    BY DEF CensusAssumption
  <2> QED
    BY <1>1, <2>1, <2>2 DEF Init, Fresh, GameTyped
<1>6. ReaderTyped
  <2>1. <<>> \in Seq(0..(Width - 1)) /\ Len(<<>>) = 0 /\ 0 \in 0..Tries /\ pid = 1
    BY DEF CensusAssumption, Init
  <2> QED
    BY <2>1, FiveWords DEF Init, ReaderTyped, Reading
<1>3. SequenceCounts
  BY DEF Init, Fresh, SequenceCounts
<1>4. WordsArePublished
  BY DEF Init, Fresh, WordsArePublished
<1>5. ReaderIsOfItsHeader /\ ShotsArePublished
  BY DEF Init, Fresh, ReaderIsOfItsHeader, ShotsArePublished
<1> QED
  BY <1>2, <1>3, <1>4, <1>5, <1>6 DEF SeqlockInv

\* Steps of the game between two publications.
LEMMA InvBetween ==
    ASSUME CensusAssumption, SeqlockInv,
           Tick \/ Spin \/ Executed \/ \E kind \in {"exec", "present"} : TakePacket(kind)
    PROVE  SeqlockInv'
<1>1. /\ UNCHANGED <<pid, seq, public, copied, history, reader>>
      /\ pc # "publish" /\ pc' # "publish"
      /\ pc' \in {"poll", "exec", "present", "publish"}
  BY DEF Tick, Spin, Executed, TakePacket, SeqlockInv, GameTyped
<1>2. live' \in [Names -> 0..(Width - 1)]
  <2>1. CASE UNCHANGED live
    BY <2>1 DEF SeqlockInv, GameTyped
  <2>2. CASE live' = [live EXCEPT !["idle_us"] = (@ + Elapsed(idleStart)) % Width]
    <3>1. Elapsed(idleStart) \in Int
      BY ElapsedIsInt DEF SeqlockInv, GameTyped
    <3>2. "idle_us" \in Names /\ live["idle_us"] \in Int
      BY FiveWords DEF SeqlockInv, GameTyped
    <3>3. (live["idle_us"] + Elapsed(idleStart)) % Width \in 0..(Width - 1)
      BY <3>1, <3>2, Remainder
    <3> QED
      BY <2>2, <3>2, <3>3 DEF SeqlockInv, GameTyped
  <2> QED
    BY <2>1, <2>2 DEF Tick, Spin, Executed, TakePacket
<1>3. /\ now' \in 0..MaxTime /\ started' \in BOOLEAN /\ idleOpen' \in BOOLEAN
      /\ lastMark' \in Nat /\ idleStart' \in Nat /\ presentStart' \in Nat
  <2> USE DEF SeqlockInv, GameTyped
  <2>1. CASE Tick
    BY <2>1 DEF Tick, CensusAssumption
  <2>2. CASE Spin \/ Executed \/ \E kind \in {"exec", "present"} : TakePacket(kind)
    <3>1. now \in Nat
      BY DEF CensusAssumption
    <3> QED
      BY <2>2, <3>1 DEF Spin, Executed, TakePacket, On
  <2> QED
    BY <2>1, <2>2
<1>4. GameTyped' /\ ReaderTyped'
  <2>1. GameTyped'
    BY <1>1, <1>2, <1>3 DEF SeqlockInv, GameTyped
  <2>2. ReaderTyped'
    BY <1>1 DEF SeqlockInv, ReaderTyped, Reading, reader
  <2> QED
    BY <2>1, <2>2
<1>5. SequenceCounts' /\ WordsArePublished'
  BY <1>1 DEF SeqlockInv, SequenceCounts, WordsArePublished
<1>6. ReaderIsOfItsHeader' /\ ShotsArePublished'
  BY <1>1 DEF SeqlockInv, ReaderIsOfItsHeader, ShotsArePublished, reader
<1> QED
  BY <1>4, <1>5, <1>6 DEF SeqlockInv

\* A present closes its frame and makes the sequence odd.
LEMMA InvPresentDone ==
    ASSUME CensusAssumption, SeqlockInv, PresentDone
    PROVE  SeqlockInv'
<1>1. live' \in [Names -> 0..(Width - 1)]
  <2> DEFINE present == (live["present_us"] + Elapsed(presentStart)) % Width
             wall == (live["wall_us"] + Elapsed(lastMark)) % Width
             spent == (present + live["idle_us"]) % Width
             exec == IF wall > spent THEN wall - spent ELSE 0
  <2>1. /\ \A n \in Names : live[n] \in 0..(Width - 1)
        /\ Width \in Nat \ {0}
        /\ Elapsed(presentStart) \in Int /\ Elapsed(lastMark) \in Int
    BY ElapsedIsInt DEF SeqlockInv, GameTyped, CensusAssumption
  <2>2. /\ "presents" \in Names /\ "present_us" \in Names /\ "idle_us" \in Names
        /\ "exec_us" \in Names /\ "wall_us" \in Names
    BY FiveWords
  <2>3. present \in 0..(Width - 1) /\ wall \in 0..(Width - 1)
    BY <2>1, <2>2, Remainder
  <2>4. spent \in 0..(Width - 1)
    <3> HIDE DEF present
    <3>1. present + live["idle_us"] \in Int
      BY <2>1, <2>2, <2>3
    <3> QED
      BY <3>1, Remainder
  <2>5. exec \in 0..(Width - 1)
    <3> HIDE DEF wall, spent
    <3> QED
      BY <2>1, <2>3, <2>4
  <2>6. (live["presents"] + 1) % Width \in 0..(Width - 1)
    BY <2>1, <2>2, Remainder
  <2>7. live' = [live EXCEPT !["presents"] = (live["presents"] + 1) % Width,
                             !["present_us"] = present, !["wall_us"] = wall,
                             !["exec_us"] = exec]
    BY <2>2 DEF PresentDone, SeqlockInv, GameTyped
  <2> HIDE DEF present, wall, spent, exec
  <2> QED
    BY <2>2, <2>3, <2>5, <2>6, <2>7 DEF SeqlockInv, GameTyped
<1>2. /\ pc = "present" /\ pc' = "publish" /\ seq' = seq + 1 /\ copied' = 0
      /\ lastMark' = now
      /\ UNCHANGED <<now, pid, started, idleOpen, idleStart, presentStart, public, history>>
      /\ UNCHANGED <<at, tries, header, body, shots, report>>
  BY DEF PresentDone, reader
<1>3. GameTyped' /\ ReaderTyped'
  <2>1. GameTyped'
    BY <1>1, <1>2, FiveLong DEF SeqlockInv, GameTyped
  <2>2. ReaderTyped'
    BY <1>1, <1>2 DEF SeqlockInv, ReaderTyped, Reading
  <2> QED
    BY <2>1, <2>2
<1>4. SequenceCounts'
  BY <1>2 DEF SeqlockInv, GameTyped, SequenceCounts
<1>5. WordsArePublished'
  BY <1>2, FiveWords DEF SeqlockInv, WordsArePublished
<1>6. ReaderIsOfItsHeader'
  <2> SUFFICES ASSUME at[1] \in {"words", "second"}, at[2] = pid
               PROVE  /\ \E k \in 1..Len(history) : header = 2 * (k - 1)
                      /\ header # seq + 1
    BY <1>2 DEF ReaderIsOfItsHeader
  <2>1. PICK k \in 1..Len(history) : header = 2 * (k - 1)
    BY DEF SeqlockInv, ReaderIsOfItsHeader
  <2>2. seq = 2 * (Len(history) - 1) /\ Len(history) \in Nat
    BY <1>2 DEF SeqlockInv, SequenceCounts, GameTyped
  <2> QED
    BY <2>1, <2>2
<1>7. ShotsArePublished'
  BY <1>2 DEF SeqlockInv, ShotsArePublished
<1> QED
  BY <1>3, <1>4, <1>5, <1>6, <1>7 DEF SeqlockInv

\* One word of the record goes out: nobody's header is the odd sequence.
LEMMA InvCopyWord ==
    ASSUME CensusAssumption, SeqlockInv, CopyWord
    PROVE  SeqlockInv'
<1>1. /\ pc = "publish" /\ copied < Len(Words) /\ copied' = copied + 1
      /\ public' = [public EXCEPT ![Words[copied + 1]] = live[Words[copied + 1]]]
      /\ UNCHANGED <<now, pid, pc, live, started, lastMark, idleOpen, idleStart,
                     presentStart, seq, history>>
      /\ UNCHANGED <<at, tries, header, body, shots, report>>
  BY DEF CopyWord, reader
<1>2. copied + 1 \in 1..5 /\ copied \in Nat /\ Words[copied + 1] \in Names
  <2>1. copied + 1 \in 1..5 /\ copied \in Nat
    BY <1>1, FiveLong DEF SeqlockInv, GameTyped
  <2> QED
    BY <2>1, FiveWords
<1>3. GameTyped' /\ ReaderTyped'
  <2>1. GameTyped'
    BY <1>1, <1>2, FiveLong DEF SeqlockInv, GameTyped
  <2>2. ReaderTyped'
    BY <1>1, <1>2 DEF SeqlockInv, ReaderTyped, Reading
  <2> QED
    BY <2>1, <2>2
<1>4. SequenceCounts'
  BY <1>1 DEF SeqlockInv, SequenceCounts
<1>5. WordsArePublished'
  <2> SUFFICES ASSUME NEW i \in 1..5
               PROVE  public'[Words[i]] = IF i <= copied + 1 THEN live[Words[i]]
                                          ELSE history[Len(history)][Words[i]]
    BY <1>1, FiveWords DEF WordsArePublished
  <2>1. public \in [Names -> 0..(Width - 1)] /\ Words[i] \in Names
    BY FiveWords DEF SeqlockInv, GameTyped
  <2>2. CASE i = copied + 1
    BY <1>1, <1>2, <2>1, <2>2
  <2>3. CASE i # copied + 1
    <3>1. Words[i] # Words[copied + 1]
      BY <1>2, <2>3, FiveWords
    <3>2. public'[Words[i]] = public[Words[i]]
      BY <1>1, <2>1, <3>1
    <3> QED
      BY <1>1, <1>2, <2>3, <3>2, FiveWords DEF SeqlockInv, WordsArePublished
  <2> QED
    BY <2>2, <2>3
<1>6. ReaderIsOfItsHeader'
  <2> SUFFICES ASSUME at[1] \in {"words", "second"}, at[2] = pid
               PROVE  /\ \E k \in 1..Len(history) : header = 2 * (k - 1)
                      /\ header # seq
    BY <1>1 DEF ReaderIsOfItsHeader
  <2>1. PICK k \in 1..Len(history) : header = 2 * (k - 1)
    BY DEF SeqlockInv, ReaderIsOfItsHeader
  <2>2. seq = 2 * (Len(history) - 1) + 1 /\ Len(history) \in Nat
    BY <1>1 DEF SeqlockInv, SequenceCounts, GameTyped
  <2> QED
    BY <2>1, <2>2
<1>7. ShotsArePublished'
  BY <1>1 DEF SeqlockInv, ShotsArePublished
<1> QED
  BY <1>3, <1>4, <1>5, <1>6, <1>7 DEF SeqlockInv

\* The sequence is even again: the words are the new record, and a header read
\* before this publication is not the sequence any more.
LEMMA InvPublished ==
    ASSUME CensusAssumption, SeqlockInv, Published
    PROVE  SeqlockInv'
<1>1. /\ pc = "publish" /\ copied = Len(Words) /\ seq' = seq + 1
      /\ history' = Append(history, live) /\ pc' = "poll"
      /\ UNCHANGED <<now, pid, live, started, lastMark, idleOpen, idleStart,
                     presentStart, public, copied>>
      /\ UNCHANGED <<at, tries, header, body, shots, report>>
  BY DEF Published, reader
<1>2. /\ history \in Seq([Names -> 0..(Width - 1)]) /\ Len(history) \in Nat
      /\ live \in [Names -> 0..(Width - 1)]
      /\ seq = 2 * (Len(history) - 1) + 1
  BY <1>1 DEF SeqlockInv, GameTyped, SequenceCounts
<1>3. /\ Len(history') = Len(history) + 1 /\ history'[Len(history) + 1] = live
      /\ \A k \in 1..Len(history) : history'[k] = history[k]
      /\ history' \in Seq([Names -> 0..(Width - 1)]) /\ history' # <<>>
  <2> DEFINE R == [Names -> 0..(Width - 1)]
  <2>1. history \in Seq(R) /\ live \in R /\ history' = Append(history, live)
    BY <1>1, <1>2
  <2> HIDE DEF R
  <2>2. /\ Len(history') = Len(history) + 1 /\ history'[Len(history) + 1] = live
        /\ \A k \in 1..Len(history) : history'[k] = history[k]
        /\ history' \in Seq(R) /\ history' # <<>>
    BY <2>1
  <2> QED
    BY <2>2 DEF R
<1>4. GameTyped' /\ ReaderTyped'
  <2>1. GameTyped'
    BY <1>1, <1>3 DEF SeqlockInv, GameTyped
  <2>2. ReaderTyped'
    BY <1>1 DEF SeqlockInv, ReaderTyped, Reading
  <2> QED
    BY <2>1, <2>2
<1>5. SequenceCounts'
  BY <1>1, <1>2, <1>3 DEF SequenceCounts
<1>6. WordsArePublished'
  <2>1. \A i \in 1..Len(Words) : public[Words[i]] = live[Words[i]]
    BY <1>1, FiveLong DEF SeqlockInv, WordsArePublished
  <2>2. history'[Len(history')] = live
    BY <1>3
  <2> QED
    BY <1>1, <2>1, <2>2 DEF WordsArePublished
<1>7. ReaderIsOfItsHeader'
  <2> SUFFICES ASSUME at[1] \in {"words", "second"}, at[2] = pid
               PROVE  /\ \E k \in 1..Len(history') : header = 2 * (k - 1)
                      /\ header # seq + 1
    BY <1>1 DEF ReaderIsOfItsHeader
  <2>1. PICK k \in 1..Len(history) : header = 2 * (k - 1)
    BY DEF SeqlockInv, ReaderIsOfItsHeader
  <2> QED
    BY <1>2, <1>3, <2>1
<1>8. ShotsArePublished'
  BY <1>1, <1>2, <1>3 DEF SeqlockInv, ShotsArePublished
<1> QED
  BY <1>4, <1>5, <1>6, <1>7, <1>8 DEF SeqlockInv

\* A new process: what the reader holds and has taken is of another one.
LEMMA InvRestart ==
    ASSUME CensusAssumption, SeqlockInv, Restart
    PROVE  SeqlockInv'
<1>1. /\ pid <= MaxRestarts /\ pid' = pid + 1 /\ pc' = "poll" /\ live' = Zero
      /\ started' = FALSE /\ lastMark' = 0 /\ idleOpen' = FALSE /\ idleStart' = 0
      /\ presentStart' = 0 /\ seq' = 0 /\ public' = Zero /\ copied' = 0
      /\ history' = <<Zero>> /\ now' = now
      /\ UNCHANGED <<at, tries, header, body, shots, report>>
  BY DEF Restart, reader
<1>2. /\ Zero \in [Names -> 0..(Width - 1)]
      /\ <<Zero>> \in Seq([Names -> 0..(Width - 1)]) /\ <<Zero>> # <<>>
      /\ pid \in 1..(MaxRestarts + 1) /\ MaxRestarts \in Nat
  BY DEF Zero, CensusAssumption, SeqlockInv, GameTyped
<1>3. GameTyped'
  <2>1. pid' \in 1..(MaxRestarts + 1) /\ 0 \in 0..Len(Words)
    BY <1>1, <1>2, FiveLong
  <2>2. now' \in 0..MaxTime
    BY <1>1 DEF SeqlockInv, GameTyped
  <2> QED
    BY <1>1, <1>2, <2>1, <2>2 DEF GameTyped
<1>4. ReaderTyped'
  <2>1. at' \in ({"away", "failed"} \X {0}) \cup ({"first", "words", "second"} \X (1..pid'))
    BY <1>1, <1>2 DEF SeqlockInv, ReaderTyped
  <2>2. shots' \in Seq([pid : 1..pid', seq : Nat, words : [Names -> 0..(Width - 1)]])
    <3> DEFINE S == [pid : 1..pid, seq : Nat, words : [Names -> 0..(Width - 1)]]
               T == [pid : 1..pid', seq : Nat, words : [Names -> 0..(Width - 1)]]
    <3>1. 1..pid \subseteq 1..pid'
      BY <1>1, <1>2
    <3>2. S \subseteq T
      BY <3>1
    <3>3. shots \in Seq(S)
      BY DEF SeqlockInv, ReaderTyped
    <3> HIDE DEF S, T
    <3>4. shots \in Seq(T)
      BY <3>2, <3>3
    <3> QED
      BY <1>1, <3>4 DEF T
  <2> QED
    BY <1>1, <2>1, <2>2 DEF SeqlockInv, ReaderTyped, Reading
<1>5. SequenceCounts' /\ WordsArePublished'
  BY <1>1 DEF SequenceCounts, WordsArePublished
<1>6. ReaderIsOfItsHeader'
  <2>1. at[1] \in {"words", "second"} => at[2] # pid'
    BY <1>1, <1>2 DEF SeqlockInv, ReaderTyped
  <2> QED
    BY <1>1, <2>1 DEF ReaderIsOfItsHeader
<1>7. ShotsArePublished'
  <2>1. \A i \in 1..Len(shots) : shots[i].pid \in 1..pid
    <3> DEFINE S == [pid : 1..pid, seq : Nat, words : [Names -> 0..(Width - 1)]]
    <3>1. shots \in Seq(S)
      BY DEF SeqlockInv, ReaderTyped
    <3> HIDE DEF S
    <3>2. \A i \in 1..Len(shots) : shots[i] \in S
      BY <3>1
    <3> QED
      BY <3>2 DEF S
  <2> QED
    BY <1>1, <1>2, <2>1 DEF ShotsArePublished
<1> QED
  BY <1>3, <1>4, <1>5, <1>6, <1>7 DEF SeqlockInv

\* Steps of the reader leave the game alone.
LEMMA GameStands ==
    ASSUME SeqlockInv, Reader
    PROVE  GameTyped' /\ SequenceCounts' /\ WordsArePublished'
<1>1. UNCHANGED <<now, pid, pc, live, started, lastMark, idleOpen, idleStart,
                  presentStart, seq, public, copied, history>>
  BY DEF Reader, Open, ProcessGone, ReadFirst, ReadWord, ReadSecond, Diff, game
<1> QED
  BY <1>1 DEF SeqlockInv, GameTyped, SequenceCounts, WordsArePublished

\* The process is opened, found gone, or the snapshots are subtracted: nothing
\* is held yet, or nothing any more.
LEMMA InvOutside ==
    ASSUME CensusAssumption, SeqlockInv, Open \/ ProcessGone \/ Diff
    PROVE  ReaderTyped' /\ ReaderIsOfItsHeader' /\ ShotsArePublished'
<1>1. UNCHANGED <<pid, seq, public, history, shots>>
  BY DEF Open, ProcessGone, Diff, game
<1>2. ShotsArePublished'
  BY <1>1 DEF SeqlockInv, ShotsArePublished
<1>3. CASE Open
  <2>1. /\ at' = <<"first", pid>> /\ tries' = 0 /\ header' = 0 /\ body' = <<>>
        /\ Len(shots) < 2
    BY <1>3 DEF Open
  <2>2. pid \in 1..pid /\ 0 < Tries /\ Tries \in Nat
    BY DEF SeqlockInv, GameTyped, CensusAssumption
  <2>3. <<>> \in Seq(0..(Width - 1)) /\ Len(<<>>) = 0
    OBVIOUS
  <2>4. ReaderTyped'
    BY <1>1, <2>1, <2>2, <2>3, FiveLong DEF SeqlockInv, ReaderTyped, Reading
  <2>5. ReaderIsOfItsHeader'
    BY <2>1 DEF ReaderIsOfItsHeader
  <2> QED
    BY <1>2, <2>4, <2>5
<1>4. CASE ProcessGone
  <2>1. at' = <<"failed", 0>> /\ UNCHANGED <<tries, header, body>>
    BY <1>4 DEF ProcessGone
  <2>2. ReaderTyped' /\ ReaderIsOfItsHeader'
    BY <1>1, <2>1 DEF SeqlockInv, ReaderTyped, Reading, ReaderIsOfItsHeader
  <2> QED
    BY <1>2, <2>2
<1>5. CASE Diff
  <2>1. UNCHANGED <<at, tries, header, body>>
    BY <1>5 DEF Diff
  <2>2. ReaderTyped' /\ ReaderIsOfItsHeader'
    BY <1>1, <2>1 DEF SeqlockInv, ReaderTyped, Reading, ReaderIsOfItsHeader
  <2> QED
    BY <1>2, <2>2
<1> QED
  BY <1>3, <1>4, <1>5

\* A header that is even is the sequence of a record.
LEMMA InvReadFirst ==
    ASSUME CensusAssumption, SeqlockInv, ReadFirst
    PROVE  ReaderTyped' /\ ReaderIsOfItsHeader' /\ ShotsArePublished'
<1>1. /\ UNCHANGED <<pid, seq, public, history, shots>>
      /\ at = <<"first", pid>> /\ header' = seq /\ body' = <<>>
  BY DEF ReadFirst, game
<1>2. ShotsArePublished'
  BY <1>1 DEF SeqlockInv, ShotsArePublished
<1>3. /\ pid \in 1..pid /\ seq \in Nat /\ tries \in Nat /\ tries < Tries /\ Tries \in Nat
      /\ <<>> \in Seq(0..(Width - 1)) /\ Len(<<>>) = 0 /\ Len(shots) < 2
  BY <1>1 DEF SeqlockInv, GameTyped, ReaderTyped, Reading, CensusAssumption
<1>4. CASE seq % 2 = 1
  <2>1. /\ at' = IF tries + 1 < Tries THEN <<"first", pid>> ELSE <<"failed", 0>>
        /\ tries' = tries + 1
    BY <1>1, <1>4 DEF ReadFirst, Retry
  <2>2. ReaderTyped'
    <3>1. at' \in ({"away", "failed"} \X {0}) \cup ({"first", "words", "second"} \X (1..pid'))
      BY <1>1, <1>3, <2>1
    <3> QED
      BY <1>1, <1>3, <2>1, <3>1, FiveLong DEF SeqlockInv, ReaderTyped, Reading
  <2>3. ReaderIsOfItsHeader'
    BY <2>1 DEF ReaderIsOfItsHeader
  <2> QED
    BY <1>2, <2>2, <2>3
<1>5. CASE seq % 2 # 1
  <2>1. at' = <<"words", pid>> /\ tries' = tries
    BY <1>5 DEF ReadFirst
  <2>2. ReaderTyped'
    BY <1>1, <1>3, <2>1, FiveLong DEF SeqlockInv, ReaderTyped, Reading
  <2>3. Len(history) \in Nat /\ Len(history) >= 1
    BY DEF SeqlockInv, GameTyped
  <2>4. seq = 2 * (Len(history) - 1)
    <3>1. CASE pc = "publish"
      <4>1. (2 * (Len(history) - 1) + 1) % 2 = 1
        BY <2>3, Halves
      <4> QED
        BY <1>5, <3>1, <4>1 DEF SeqlockInv, SequenceCounts
    <3>2. CASE pc # "publish"
      BY <2>3, <3>2 DEF SeqlockInv, SequenceCounts
    <3> QED
      BY <3>1, <3>2
  <2>5. ReaderIsOfItsHeader'
    BY <1>1, <1>3, <2>1, <2>3, <2>4 DEF ReaderIsOfItsHeader
  <2> QED
    BY <1>2, <2>2, <2>5
<1> QED
  BY <1>4, <1>5

\* One more word of the publication the header names, or of a later one.
LEMMA InvReadWord ==
    ASSUME CensusAssumption, SeqlockInv, ReadWord
    PROVE  ReaderTyped' /\ ReaderIsOfItsHeader' /\ ShotsArePublished'
<1>1. /\ UNCHANGED <<pid, seq, public, history, shots, tries, header>>
      /\ at = <<"words", pid>>
      /\ body' = Append(body, public[Words[Len(body) + 1]])
      /\ at' = IF Len(body') = 5 THEN <<"second", pid>> ELSE <<"words", pid>>
  BY FiveLong DEF ReadWord, game
<1>2. ShotsArePublished'
  BY <1>1 DEF SeqlockInv, ShotsArePublished
<1>3. /\ body \in Seq(0..(Width - 1)) /\ Len(body) \in 0..4 /\ Len(shots) < 2
      /\ tries < Tries
  <2>1. at[1] = "words" /\ Reading
    BY <1>1 DEF Reading
  <2>2. /\ body \in Seq(0..(Width - 1)) /\ Len(body) < Len(Words)
        /\ tries < Tries /\ Len(shots) < 2
    BY <2>1 DEF SeqlockInv, ReaderTyped
  <2>3. Len(body) \in Nat
    BY <2>2
  <2>4. \A n \in Nat : n < 5 => n \in 0..4
    OBVIOUS
  <2>5. Len(body) \in 0..4
    BY ONLY <2>2, <2>3, <2>4, FiveLong
  <2> QED
    BY <2>2, <2>5
<1>4. public[Words[Len(body) + 1]] \in 0..(Width - 1)
  <2>1. Words[Len(body) + 1] \in Names
    <3>1. \A n \in 0..4 : n + 1 \in 1..5
      OBVIOUS
    <3>2. Len(body) + 1 \in 1..5
      BY ONLY <1>3, <3>1
    <3> QED
      BY <3>2, FiveWords
  <2> QED
    BY <2>1 DEF SeqlockInv, GameTyped
<1>5. /\ body' \in Seq(0..(Width - 1)) /\ Len(body') = Len(body) + 1
      /\ body'[Len(body) + 1] = public[Words[Len(body) + 1]]
      /\ \A i \in 1..Len(body) : body'[i] = body[i]
  BY <1>1, <1>3, <1>4
<1>6. ReaderTyped'
  <2>1. pid \in 1..pid
    BY DEF SeqlockInv, GameTyped
  <2>2. at' \in ({"away", "failed"} \X {0}) \cup ({"first", "words", "second"} \X (1..pid'))
    BY <1>1, <2>1
  <2> QED
    BY <1>1, <1>3, <1>5, <2>2, FiveLong DEF SeqlockInv, ReaderTyped, Reading
<1>7. ReaderIsOfItsHeader'
  <2>1. /\ \E k \in 1..Len(history) : header = 2 * (k - 1)
        /\ header = seq => \A i \in 1..Len(body) : body[i] = public[Words[i]]
    BY <1>1 DEF SeqlockInv, ReaderIsOfItsHeader
  <2>2. header = seq => \A i \in 1..Len(body') : body'[i] = public[Words[i]]
    BY <1>3, <1>5, <2>1
  <2> QED
    BY <1>1, <2>1, <2>2 DEF ReaderIsOfItsHeader
<1> QED
  BY <1>2, <1>6, <1>7

\* The words read under one even sequence, by name: the last record.
LEMMA ShotIsLast ==
    ASSUME SeqlockInv, at = <<"second", pid>>, seq = header
    PROVE  /\ Shot.words = history[Len(history)]
           /\ Shot.pid = pid /\ Shot.seq = header /\ seq = 2 * (Len(history) - 1)
           /\ Shot \in [pid : 1..pid, seq : Nat, words : [Names -> 0..(Width - 1)]]
<1>1. /\ \A i \in 1..5 : body[i] = public[Words[i]]
      /\ \E k \in 1..Len(history) : header = 2 * (k - 1)
  BY FiveLong DEF SeqlockInv, ReaderTyped, ReaderIsOfItsHeader
<1>2. Len(history) \in Nat /\ history[Len(history)] \in [Names -> 0..(Width - 1)]
  <2> DEFINE R == [Names -> 0..(Width - 1)]
  <2>1. history \in Seq(R) /\ history # <<>>
    BY DEF SeqlockInv, GameTyped
  <2> HIDE DEF R
  <2>2. Len(history) \in Nat /\ history[Len(history)] \in R
    BY <2>1
  <2> QED
    BY <2>2 DEF R
<1>3. pc # "publish" /\ seq = 2 * (Len(history) - 1)
  <2>1. PICK k \in 1..Len(history) : header = 2 * (k - 1)
    BY <1>1
  <2>2. seq = 2 * (Len(history) - 1) + (IF pc = "publish" THEN 1 ELSE 0)
    BY DEF SeqlockInv, SequenceCounts
  <2> QED
    BY <1>2, <2>1, <2>2
<1>4. \A i \in 1..5 : body[i] = history[Len(history)][Words[i]]
  BY <1>1, <1>3, FiveLong DEF SeqlockInv, WordsArePublished
<1>5. ASSUME NEW n \in Names
      PROVE  body[CHOOSE i \in 1..5 : Words[i] = n] = history[Len(history)][n]
  <2>1. PICK i \in 1..5 : Words[i] = n
    BY FiveWords
  <2>2. /\ (CHOOSE j \in 1..5 : Words[j] = n) \in 1..5
        /\ Words[CHOOSE j \in 1..5 : Words[j] = n] = n
    BY <2>1
  <2> QED
    BY <1>4, <2>2
<1>6. Shot.words = history[Len(history)]
  <2>1. Shot.words = [n \in Names |-> body[CHOOSE i \in 1..5 : Words[i] = n]]
    BY FiveLong DEF Shot
  <2>2. \A n \in Names : body[CHOOSE i \in 1..5 : Words[i] = n] = history[Len(history)][n]
    BY <1>5
  <2>3. history[Len(history)] = [n \in Names |-> history[Len(history)][n]]
    BY <1>2
  <2> QED
    BY <2>1, <2>2, <2>3, Zenon
<1>7. Shot = [pid |-> pid, seq |-> header, words |-> history[Len(history)]]
  BY <1>6 DEF Shot
<1>8. pid \in 1..pid /\ header \in Nat
  BY DEF SeqlockInv, GameTyped, ReaderTyped
<1> QED
  BY <1>2, <1>3, <1>6, <1>7, <1>8

\* The header again: the snapshot is taken, or the words are thrown away.
LEMMA InvReadSecond ==
    ASSUME CensusAssumption, SeqlockInv, ReadSecond
    PROVE  ReaderTyped' /\ ReaderIsOfItsHeader' /\ ShotsArePublished'
<1>1. /\ UNCHANGED <<pid, seq, public, history>>
      /\ at = <<"second", pid>> /\ header' = 0 /\ body' = <<>>
  BY DEF ReadSecond, game
<1>2. /\ pid \in 1..pid /\ tries \in Nat /\ tries < Tries /\ Tries \in Nat
      /\ <<>> \in Seq(0..(Width - 1)) /\ Len(<<>>) = 0 /\ Len(shots) < 2
  BY <1>1 DEF SeqlockInv, GameTyped, ReaderTyped, Reading, CensusAssumption
<1>3. CASE seq = header
  <2> DEFINE S == [pid : 1..pid, seq : Nat, words : [Names -> 0..(Width - 1)]]
  <2>1. shots' = Append(shots, Shot) /\ at' = <<"away", 0>> /\ tries' = 0
    BY <1>3 DEF ReadSecond
  <2>2. /\ Shot.words = history[Len(history)] /\ Shot.pid = pid
        /\ Shot.seq = 2 * (Len(history) - 1) /\ Shot \in S
    BY <1>1, <1>3, ShotIsLast
  <2>3. shots \in Seq(S)
    BY DEF SeqlockInv, ReaderTyped
  <2> HIDE DEF S
  <2>4. /\ shots' \in Seq(S) /\ Len(shots') = Len(shots) + 1
        /\ shots'[Len(shots) + 1] = Shot
        /\ \A i \in 1..Len(shots) : shots'[i] = shots[i]
    BY <2>1, <2>2, <2>3
  <2>5. ReaderTyped'
    <3>1. shots' \in Seq([pid : 1..pid', seq : Nat, words : [Names -> 0..(Width - 1)]])
      BY <1>1, <2>4 DEF S
    <3>2. Len(shots') <= 2
      <4>1. Len(shots) \in Nat
        BY <2>3
      <4> QED
        BY ONLY <1>2, <2>4, <4>1
    <3> QED
      BY <1>1, <1>2, <2>1, <3>1, <3>2, FiveLong DEF ReaderTyped, Reading
  <2>6. ReaderIsOfItsHeader'
    BY <2>1 DEF ReaderIsOfItsHeader
  <2>7. ShotsArePublished'
    <3> SUFFICES ASSUME NEW i \in 1..Len(shots'), shots'[i].pid = pid
                 PROVE  \E k \in 1..Len(history) :
                           shots'[i].seq = 2 * (k - 1) /\ shots'[i].words = history[k]
      BY <1>1 DEF ShotsArePublished
    <3>1. CASE i = Len(shots) + 1
      <4>1. Len(history) \in 1..Len(history)
        BY DEF SeqlockInv, GameTyped
      <4> QED
        BY <2>2, <2>4, <3>1, <4>1
    <3>2. CASE i # Len(shots) + 1
      <4>1. Len(shots) \in Nat
        BY <2>3
      <4>2. i \in 1..Len(shots) /\ shots'[i] = shots[i]
        BY <2>4, <3>2, <4>1
      <4> QED
        BY <4>2 DEF SeqlockInv, ShotsArePublished
    <3> QED
      BY <3>1, <3>2
  <2> QED
    BY <2>5, <2>6, <2>7
<1>4. CASE seq # header
  <2>1. /\ at' = IF tries + 1 < Tries THEN <<"first", pid>> ELSE <<"failed", 0>>
        /\ tries' = tries + 1 /\ shots' = shots
    BY <1>1, <1>4 DEF ReadSecond, Retry
  <2>2. at' \in ({"away", "failed"} \X {0}) \cup ({"first", "words", "second"} \X (1..pid'))
    BY <1>1, <1>2, <2>1
  <2>3. ReaderTyped'
    BY <1>1, <1>2, <2>1, <2>2, FiveLong DEF SeqlockInv, ReaderTyped, Reading
  <2>4. ReaderIsOfItsHeader' /\ ShotsArePublished'
    BY <1>1, <2>1 DEF SeqlockInv, ReaderIsOfItsHeader, ShotsArePublished
  <2> QED
    BY <2>3, <2>4
<1> QED
  BY <1>3, <1>4

\* Every step of the publisher, the reader and the operating system preserves it.
LEMMA InvNext == CensusAssumption /\ SeqlockInv /\ [Next]_vars => SeqlockInv'
<1> SUFFICES ASSUME CensusAssumption, SeqlockInv, [Next]_vars
             PROVE  SeqlockInv'
  OBVIOUS
<1>1. CASE Game
  BY <1>1, InvBetween, InvPresentDone, InvCopyWord, InvPublished, InvRestart DEF Game
<1>2. CASE Reader
  BY <1>2, GameStands, InvOutside, InvReadFirst, InvReadWord, InvReadSecond
     DEF Reader, SeqlockInv
<1>3. CASE UNCHANGED vars
  BY <1>3 DEF vars, game, reader, SeqlockInv, GameTyped, ReaderTyped, Reading, SequenceCounts,
              WordsArePublished, ReaderIsOfItsHeader, ShotsArePublished
<1> QED
  BY <1>1, <1>2, <1>3 DEF Next

-----------------------------------------------------------------------------
(* A record's number is its count of presents.                             *)

\* What fits the counter is not changed by cutting it to its width.
LEMMA SmallRemainder ==
    ASSUME CensusAssumption, NEW a \in 0..(Width - 1)
    PROVE  a % Width = a
  BY Z3 DEF CensusAssumption

\* The initial record counts no present.
LEMMA CountedInit == CensusAssumption /\ Init => PresentsAreCounted
<1> SUFFICES ASSUME CensusAssumption, Init
             PROVE  PresentsAreCounted
  OBVIOUS
<1>1. Zero["presents"] = 0
  BY FiveWords DEF Zero
<1> QED
  BY <1>1 DEF Init, Fresh, PresentsAreCounted, CensusAssumption

\* A step of the game keeps every record numbered by its count of presents.
LEMMA CountedGame ==
    ASSUME CensusAssumption, SeqlockInv, PresentsAreCounted, Game
    PROVE  PresentsAreCounted'
<1> SUFFICES ASSUME MaxPresents < Width
             PROVE  PresentsAreCounted'
  BY DEF PresentsAreCounted
<1>1. /\ MaxPresents \in Nat /\ Width \in Nat
      /\ Len(history) \in Nat /\ "presents" \in Names
      /\ live \in [Names -> 0..(Width - 1)]
  <2>1. "presents" \in Names
    BY FiveWords
  <2>2. Len(history) \in Nat /\ live \in [Names -> 0..(Width - 1)]
    BY DEF SeqlockInv, GameTyped
  <2> QED
    BY <2>1, <2>2 DEF CensusAssumption
<1>2. /\ Len(history) <= MaxPresents + 1
      /\ pc \in {"present", "publish"} => Len(history) <= MaxPresents
      /\ \A k \in 1..Len(history) : history[k]["presents"] = k - 1
      /\ live["presents"] = Len(history) - (IF pc = "publish" THEN 0 ELSE 1)
  BY DEF PresentsAreCounted
<1>3. UNCHANGED <<shots, report>>
  BY DEF Game, Tick, Spin, Executed, PresentDone, CopyWord, Published, Restart, TakePacket, reader
<1>4. CASE Tick \/ Spin \/ Executed \/ \E kind \in {"exec", "present"} : TakePacket(kind)
  <2>1. history' = history /\ live'["presents"] = live["presents"] /\ pc # "publish"
    BY <1>1, <1>4 DEF Tick, Spin, Executed, TakePacket
  <2>2. pc' # "publish" /\ (pc' = "present" => Len(history) <= MaxPresents)
    BY <1>2, <1>4 DEF Tick, Spin, Executed, TakePacket
  <2> QED
    BY <1>2, <1>3, <2>1, <2>2 DEF PresentsAreCounted
<1>5. CASE PresentDone
  <2>1. /\ pc = "present" /\ pc' = "publish" /\ history' = history
        /\ live'["presents"] = (live["presents"] + 1) % Width
    BY <1>1, <1>5 DEF PresentDone
  <2>2. live["presents"] + 1 = Len(history) /\ Len(history) \in 0..(Width - 1)
    BY <1>1, <1>2, <2>1
  <2>3. live'["presents"] = Len(history)
    BY <2>1, <2>2, SmallRemainder
  <2> QED
    BY <1>2, <1>3, <2>1, <2>3 DEF PresentsAreCounted
<1>6. CASE CopyWord
  BY <1>3, <1>6 DEF CopyWord, PresentsAreCounted
<1>7. CASE Published
  <2>1. /\ pc = "publish" /\ pc' = "poll" /\ live' = live /\ history' = Append(history, live)
    BY <1>7 DEF Published
  <2>2. /\ Len(history') = Len(history) + 1 /\ history'[Len(history) + 1] = live
        /\ \A k \in 1..Len(history) : history'[k] = history[k]
    <3> DEFINE R == [Names -> 0..(Width - 1)]
    <3>1. history \in Seq(R) /\ live \in R
      BY DEF SeqlockInv, GameTyped
    <3> HIDE DEF R
    <3> QED
      BY <2>1, <3>1
  <2>3. live["presents"] = Len(history) /\ Len(history) <= MaxPresents
    BY <1>2, <2>1
  <2>4. \A k \in 1..Len(history') : history'[k]["presents"] = k - 1
    BY <1>1, <1>2, <2>2, <2>3
  <2> QED
    BY <1>1, <1>3, <2>1, <2>2, <2>3, <2>4 DEF PresentsAreCounted
<1>8. CASE Restart
  <2>1. pc' = "poll" /\ live' = Zero /\ history' = <<Zero>> /\ Zero["presents"] = 0
    BY <1>1, <1>8 DEF Restart, Zero
  <2> QED
    BY <1>1, <1>3, <2>1 DEF PresentsAreCounted
<1> QED
  BY <1>4, <1>5, <1>6, <1>7, <1>8 DEF Game

\* A step of the reader keeps its snapshots and its difference so numbered.
LEMMA CountedReader ==
    ASSUME CensusAssumption, SeqlockInv, PresentsAreCounted, Reader
    PROVE  PresentsAreCounted'
<1> SUFFICES ASSUME MaxPresents < Width
             PROVE  PresentsAreCounted'
  BY DEF PresentsAreCounted
<1>1. UNCHANGED <<pid, pc, live, history>>
  BY DEF Reader, Open, ProcessGone, ReadFirst, ReadWord, ReadSecond, Diff, game
<1>2. CASE UNCHANGED <<shots, report>>
  BY <1>1, <1>2 DEF PresentsAreCounted
<1>3. CASE Diff
  <2>1. CASE shots[1].pid # shots[2].pid
    BY <1>1, <1>3, <2>1 DEF Diff, PresentsAreCounted
  <2>2. CASE shots[1].pid = shots[2].pid
    <3>1. /\ Len(shots) = 2 /\ shots' = shots
          /\ report' = <<"delta", [n \in Names |-> Plain(n)]>>
      BY <1>3, <2>2 DEF Diff
    <3>2. report'[2]["presents"] = shots[2].words["presents"] - shots[1].words["presents"]
      BY <3>1, FiveWords DEF Plain
    <3> QED
      BY <1>1, <2>2, <3>1, <3>2 DEF PresentsAreCounted
  <2> QED
    BY <2>1, <2>2
<1>4. CASE ReadSecond /\ seq = header
  <2> DEFINE S == [pid : 1..pid, seq : Nat, words : [Names -> 0..(Width - 1)]]
  <2>1. shots' = Append(shots, Shot) /\ at = <<"second", pid>> /\ report' = report
    BY <1>4 DEF ReadSecond
  <2>2. /\ Shot.words = history[Len(history)] /\ Shot.seq = 2 * (Len(history) - 1)
        /\ Shot \in S /\ shots \in Seq(S) /\ Len(shots) < 2
    BY <1>4, <2>1, ShotIsLast DEF SeqlockInv, ReaderTyped, Reading
  <2> HIDE DEF S
  <2>3. /\ Len(shots') = Len(shots) + 1 /\ Len(shots) \in Nat
        /\ shots'[Len(shots) + 1] = Shot
        /\ \A i \in 1..Len(shots) : shots'[i] = shots[i]
    BY <2>1, <2>2
  <2>4. Shot.words["presents"] = Len(history) - 1
    <3>1. Len(history) \in 1..Len(history)
      BY DEF SeqlockInv, GameTyped
    <3> QED
      BY <2>2, <3>1 DEF PresentsAreCounted
  <2>5. \A i \in 1..Len(shots') : shots'[i].seq = 2 * shots'[i].words["presents"]
    <3> SUFFICES ASSUME NEW i \in 1..Len(shots')
                 PROVE  shots'[i].seq = 2 * shots'[i].words["presents"]
      OBVIOUS
    <3>1. CASE i = Len(shots) + 1
      BY <2>2, <2>3, <2>4, <3>1
    <3>2. CASE i # Len(shots) + 1
      <4>1. i \in 1..Len(shots)
        BY <2>3, <3>2
      <4>2. shots[i].seq = 2 * shots[i].words["presents"]
        BY <4>1 DEF PresentsAreCounted
      <4> QED
        BY <2>3, <4>1, <4>2
    <3> QED
      BY <3>1, <3>2
  <2>6. report[1] # "delta"
    BY <2>2 DEF PresentsAreCounted
  <2> QED
    BY <1>1, <2>1, <2>5, <2>6 DEF PresentsAreCounted
<1> QED
  BY <1>2, <1>3, <1>4 DEF Reader, Open, ProcessGone, ReadFirst, ReadWord, ReadSecond

\* Every step keeps the numbering of records by their counts.
LEMMA CountedNext ==
    CensusAssumption /\ SeqlockInv /\ PresentsAreCounted /\ [Next]_vars => PresentsAreCounted'
<1> SUFFICES ASSUME CensusAssumption, SeqlockInv, PresentsAreCounted, [Next]_vars
             PROVE  PresentsAreCounted'
  OBVIOUS
<1>1. CASE UNCHANGED vars
  BY <1>1 DEF vars, game, reader, PresentsAreCounted
<1> QED
  BY <1>1, CountedGame, CountedReader DEF Next

-----------------------------------------------------------------------------
(* The three accounts of a report add up to its wall clock.                *)

\* Rounding two intervals down loses no less than rounding their sum down.
LEMMA Rounding ==
    ASSUME CensusAssumption, NEW a \in Nat, NEW b \in Nat
    PROVE  /\ a \div Frequency \in Nat /\ 0 \div Frequency = 0
           /\ a <= b => a \div Frequency <= b \div Frequency
           /\ (a \div Frequency) + (b \div Frequency) <= (a + b) \div Frequency
<1>1. Frequency \in Nat \ {0}
  BY DEF CensusAssumption
<1>2. a \div Frequency \in Nat /\ 0 \div Frequency = 0
  BY <1>1, Z3
<1>3. a <= b => a \div Frequency <= b \div Frequency
  BY <1>1, Z3
<1>4. (a \div Frequency) + (b \div Frequency) <= (a + b) \div Frequency
  BY <1>1, Z3
<1> QED
  BY <1>2, <1>3, <1>4

\* The part of an interval up to a moment and the part from it.
LEMMA Split ==
    ASSUME CensusAssumption, NEW from \in Nat, NEW mid \in Nat, NEW to \in Nat,
           from <= mid, mid <= to
    PROVE  /\ (to - from) \div Frequency \in Nat
           /\ (mid - from) \div Frequency \in Nat /\ (to - mid) \div Frequency \in Nat
           /\ from \div Frequency \in Nat /\ to \div Frequency \in Nat
           /\ ((mid - from) \div Frequency) + ((to - mid) \div Frequency)
                <= (to - from) \div Frequency
           /\ (mid - from) \div Frequency <= (to - from) \div Frequency
           /\ (from \div Frequency) + ((to - from) \div Frequency) <= to \div Frequency
<1>1. /\ mid - from \in Nat /\ to - mid \in Nat /\ to - from \in Nat
      /\ mid - from <= to - from
      /\ (mid - from) + (to - mid) = to - from /\ from + (to - from) = to
  OBVIOUS
<1>2. /\ (to - from) \div Frequency \in Nat /\ (mid - from) \div Frequency \in Nat
      /\ (to - mid) \div Frequency \in Nat
      /\ from \div Frequency \in Nat /\ to \div Frequency \in Nat
  BY <1>1, Rounding
<1>3. ((mid - from) \div Frequency) + ((to - mid) \div Frequency)
        <= ((mid - from) + (to - mid)) \div Frequency
  BY <1>1, Rounding
<1>4. (mid - from) \div Frequency <= (to - from) \div Frequency
  BY <1>1, Rounding
<1>5. (from \div Frequency) + ((to - from) \div Frequency) <= (from + (to - from)) \div Frequency
  BY <1>1, Rounding
<1> QED
  BY <1>1, <1>2, <1>3, <1>4, <1>5

\* Elapsed time is the interval in microseconds rounded down, also when the
\* clock has not moved (mgs2_p39_elapsed_us returns 0 early).
LEMMA ElapsedIsRounded ==
    ASSUME CensusAssumption, GameTyped, NEW from \in Nat, from <= now
    PROVE  Elapsed(from) = (now - from) \div Frequency
<1>1. now \in Nat /\ 0 \div Frequency = 0
  BY Rounding DEF GameTyped, CensusAssumption
<1>2. CASE now = from
  BY <1>1, <1>2 DEF Elapsed
<1>3. CASE now # from
  BY <1>1, <1>3 DEF Elapsed
<1> QED
  BY <1>2, <1>3

\* A game that has not presented yet has nothing in any account.
LEMMA AccountsInit == CensusAssumption /\ Init => AccountsAddUp
<1> SUFFICES ASSUME CensusAssumption, Init
             PROVE  AccountsAddUp
  OBVIOUS
<1>1. AddsUp(Zero)
  BY FiveWords DEF Zero, AddsUp
<1> QED
  BY <1>1 DEF Init, Fresh, AccountsAddUp

\* What an interval just closed adds to an account does not bring it round.
LEMMA NoWrap ==
    ASSUME CensusAssumption, SeqlockInv, FrameIsAccounted, MaxTime \div Frequency < Width
    PROVE  /\ now \in Nat /\ lastMark \in Nat /\ Accounted \in Nat
           /\ live["present_us"] \in Nat /\ live["idle_us"] \in Nat /\ live["wall_us"] \in Nat
           /\ (now - Accounted) \div Frequency \in Nat
           /\ (now - lastMark) \div Frequency \in Nat
           /\ live["present_us"] + live["idle_us"] + ((now - Accounted) \div Frequency)
                <= live["wall_us"] + ((now - lastMark) \div Frequency)
           /\ live["wall_us"] + ((now - lastMark) \div Frequency) <= now \div Frequency
           /\ now \div Frequency \in 0..(Width - 1)
<1>1. /\ now \in Nat /\ now <= MaxTime /\ MaxTime \in Nat
      /\ lastMark \in Nat /\ Accounted \in Nat
  BY DEF SeqlockInv, GameTyped, CensusAssumption, Accounted
<1>2. live["present_us"] \in Nat /\ live["idle_us"] \in Nat /\ live["wall_us"] \in Nat
  <2>1. "present_us" \in Names /\ "idle_us" \in Names /\ "wall_us" \in Names
    BY FiveWords
  <2>2. live \in [Names -> 0..(Width - 1)] /\ Width \in Nat
    BY DEF SeqlockInv, GameTyped, CensusAssumption
  <2> QED
    BY <2>1, <2>2
<1>3. now \div Frequency <= MaxTime \div Frequency /\ MaxTime \div Frequency \in Nat
  BY <1>1, Rounding
<1>4. /\ lastMark <= Accounted /\ Accounted <= now
      /\ live["present_us"] + live["idle_us"]
           <= live["wall_us"] + ((Accounted - lastMark) \div Frequency)
      /\ live["wall_us"] <= lastMark \div Frequency
  BY DEF FrameIsAccounted
<1> DEFINE upTo == (Accounted - lastMark) \div Frequency
           since == (now - Accounted) \div Frequency
           frame == (now - lastMark) \div Frequency
           mark == lastMark \div Frequency
           clock == now \div Frequency
           end == MaxTime \div Frequency
<1>5. /\ upTo \in Nat /\ since \in Nat /\ frame \in Nat /\ mark \in Nat /\ clock \in Nat
      /\ upTo + since <= frame /\ mark + frame <= clock
  BY <1>1, <1>4, Split
<1>6. Width \in Nat
  BY DEF CensusAssumption
<1> HIDE DEF upTo, since, frame, mark, clock, end
<1>7. /\ live["present_us"] + live["idle_us"] <= live["wall_us"] + upTo
      /\ live["wall_us"] <= mark /\ clock <= end /\ end \in Nat /\ end < Width
  BY <1>3, <1>4 DEF upTo, mark, clock, end
<1>8. /\ live["present_us"] + live["idle_us"] + since <= live["wall_us"] + frame
      /\ live["wall_us"] + frame <= clock /\ clock \in 0..(Width - 1)
  BY <1>2, <1>5, <1>6, <1>7
<1> QED
  BY <1>1, <1>2, <1>5, <1>8 DEF since, frame, clock

\* Between presents: time passes, an episode opens, a packet closes it.
LEMMA AccountsBetween ==
    ASSUME CensusAssumption, SeqlockInv, AccountsAddUp, MaxTime \div Frequency < Width,
           Tick \/ Spin \/ Executed \/ \E kind \in {"exec", "present"} : TakePacket(kind)
    PROVE  /\ started' => FrameIsAccounted'
           /\ ~started' => live' = Zero /\ ~idleOpen' /\ pc' = "poll"
<1>1. /\ started => FrameIsAccounted
      /\ ~started => live = Zero /\ ~idleOpen /\ pc = "poll"
  BY DEF AccountsAddUp
<1>2. /\ now \in Nat /\ started \in BOOLEAN /\ idleOpen \in BOOLEAN
      /\ lastMark \in Nat /\ idleStart \in Nat /\ presentStart \in Nat
  BY DEF SeqlockInv, GameTyped
<1>3. /\ Zero["present_us"] = 0 /\ Zero["idle_us"] = 0 /\ Zero["wall_us"] = 0
  BY FiveWords DEF Zero
<1>4. /\ now - now = 0 /\ 0 \div Frequency = 0 /\ now \div Frequency \in Nat
  BY <1>2, Rounding
<1>5. CASE Tick
  <2>1. /\ now' = now + 1 /\ pc # "publish"
        /\ UNCHANGED <<pc, live, started, lastMark, idleOpen, idleStart, presentStart>>
    BY <1>5 DEF Tick
  <2>2. CASE ~started
    BY <1>1, <2>1, <2>2
  <2>3. CASE started
    <3>1. FrameIsAccounted
      BY <1>1, <2>3
    <3>2. /\ Accounted \in Nat /\ Accounted' \in Nat /\ Accounted <= Accounted'
          /\ Accounted' <= now' /\ now' \in Nat
      BY <1>2, <2>1, <3>1 DEF Accounted, FrameIsAccounted
    <3>3. /\ (Accounted - lastMark) \div Frequency <= (Accounted' - lastMark) \div Frequency
          /\ (Accounted - lastMark) \div Frequency \in Nat
          /\ (Accounted' - lastMark) \div Frequency \in Nat /\ lastMark <= Accounted'
      <4>1. /\ Accounted - lastMark \in Nat /\ Accounted' - lastMark \in Nat
            /\ Accounted - lastMark <= Accounted' - lastMark /\ lastMark <= Accounted'
        <5>1. lastMark <= Accounted
          BY <3>1 DEF FrameIsAccounted
        <5>2. \A x, y, z \in Nat : z <= x /\ x <= y =>
                 x - z \in Nat /\ y - z \in Nat /\ x - z <= y - z /\ z <= y
          OBVIOUS
        <5>3. lastMark \in Nat /\ Accounted \in Nat /\ Accounted' \in Nat /\ Accounted <= Accounted'
          BY <1>2, <3>2
        <5> QED
          BY ONLY <5>1, <5>2, <5>3
      <4> QED
        BY <4>1, Rounding
    <3>4. live["present_us"] \in Nat /\ live["idle_us"] \in Nat /\ live["wall_us"] \in Nat
      BY <3>1, NoWrap
    <3>5. live["present_us"] + live["idle_us"]
            <= live["wall_us"] + ((Accounted' - lastMark) \div Frequency)
      <4> DEFINE x == (Accounted - lastMark) \div Frequency
                 y == (Accounted' - lastMark) \div Frequency
      <4>1. live["present_us"] + live["idle_us"] <= live["wall_us"] + x
        BY <3>1 DEF FrameIsAccounted
      <4>2. x <= y /\ x \in Nat /\ y \in Nat
        BY <3>3
      <4> HIDE DEF x, y
      <4>3. live["present_us"] + live["idle_us"] <= live["wall_us"] + y
        BY <3>4, <4>1, <4>2
      <4> QED
        BY <4>3 DEF y
    <3> QED
      BY <2>1, <2>3, <3>1, <3>2, <3>3, <3>5 DEF FrameIsAccounted
  <2> QED
    BY <1>2, <2>2, <2>3
<1>6. CASE Spin
  <2>1. /\ pc = "poll" /\ ~idleOpen /\ started' = TRUE
        /\ lastMark' = (IF started THEN lastMark ELSE now)
        /\ idleOpen' = TRUE /\ idleStart' = now
        /\ UNCHANGED <<now, pc, live, presentStart>>
    BY <1>6 DEF Spin, On
  <2>2. Accounted' = now
    BY <2>1 DEF Accounted
  <2>3. CASE ~started
    <3>1. live = Zero /\ lastMark' = now
      BY <1>1, <2>1, <2>3
    <3> QED
      BY <1>2, <1>3, <1>4, <2>1, <2>2, <3>1 DEF FrameIsAccounted
  <2>4. CASE started
    <3>1. FrameIsAccounted /\ Accounted = now
      BY <1>1, <2>1, <2>4 DEF Accounted
    <3> QED
      BY <2>1, <2>2, <2>4, <3>1 DEF FrameIsAccounted
  <2> QED
    BY <1>2, <2>3, <2>4
<1>7. CASE Executed
  <2>1. /\ pc = "exec" /\ pc' = "poll"
        /\ UNCHANGED <<now, live, started, lastMark, idleOpen, idleStart, presentStart>>
    BY <1>7 DEF Executed
  <2>2. started /\ FrameIsAccounted
    BY <1>1, <2>1
  <2>3. Accounted' = Accounted
    BY <2>1, <2>2 DEF Accounted, FrameIsAccounted
  <2> QED
    BY <2>1, <2>2, <2>3 DEF FrameIsAccounted
<1>8. ASSUME NEW kind \in {"exec", "present"}, TakePacket(kind)
      PROVE  started' /\ FrameIsAccounted'
  <2>1. /\ pc = "poll" /\ pc' = kind /\ started' = TRUE /\ idleOpen' = FALSE
        /\ lastMark' = (IF started THEN lastMark ELSE now)
        /\ live' = (IF idleOpen
                    THEN [live EXCEPT !["idle_us"] = (@ + Elapsed(idleStart)) % Width]
                    ELSE live)
        /\ presentStart' = (IF kind = "present" THEN now ELSE presentStart)
        /\ UNCHANGED <<now, idleStart>>
    BY <1>8 DEF TakePacket, On
  <2>2. Accounted' = now
    BY <2>1 DEF Accounted
  <2>3. CASE ~started
    <3>1. live' = Zero /\ lastMark' = now /\ now' = now
      BY <1>1, <2>1, <2>3
    <3>2. /\ live'["present_us"] = 0 /\ live'["idle_us"] = 0 /\ live'["wall_us"] = 0
          /\ (Accounted' - lastMark') \div Frequency = 0
          /\ lastMark' \div Frequency \in Nat
      BY <1>3, <1>4, <2>2, <3>1
    <3>3. lastMark' <= Accounted' /\ Accounted' <= now' /\ pc' # "publish" /\ ~idleOpen'
      BY <1>2, <2>1, <2>2, <3>1
    <3> QED
      BY <2>1, <3>2, <3>3 DEF FrameIsAccounted
  <2>4. CASE started /\ ~idleOpen
    <3>1. FrameIsAccounted /\ Accounted = now
      BY <1>1, <2>1, <2>4 DEF Accounted
    <3> QED
      BY <2>1, <2>2, <2>4, <3>1 DEF FrameIsAccounted
  <2>5. CASE started /\ idleOpen
    <3>1. FrameIsAccounted /\ Accounted = idleStart /\ idleStart <= now
      BY <1>1, <2>1, <2>5 DEF Accounted, FrameIsAccounted
    <3> DEFINE since == (now - idleStart) \div Frequency
               frame == (now - lastMark) \div Frequency
               clock == now \div Frequency
    <3>2. /\ live["present_us"] \in Nat /\ live["idle_us"] \in Nat /\ live["wall_us"] \in Nat
          /\ since \in Nat /\ frame \in Nat
          /\ live["present_us"] + live["idle_us"] + since <= live["wall_us"] + frame
          /\ live["wall_us"] + frame <= clock /\ clock \in 0..(Width - 1)
      BY <3>1, NoWrap
    <3>3. Elapsed(idleStart) = since
      BY <1>2, <3>1, ElapsedIsRounded DEF SeqlockInv
    <3>4. lastMark <= now /\ live["wall_us"] <= lastMark \div Frequency
      BY <1>2, <3>1 DEF FrameIsAccounted
    <3> HIDE DEF since, frame, clock
    <3>5. live["idle_us"] + since \in 0..(Width - 1)
      BY <3>2 DEF CensusAssumption
    <3>6. (live["idle_us"] + since) % Width = live["idle_us"] + since
      BY <3>5, SmallRemainder
    <3>7. live' = [live EXCEPT !["idle_us"] = live["idle_us"] + since]
      BY <2>1, <2>5, <3>3, <3>6
    <3>8. /\ live'["idle_us"] = live["idle_us"] + since
          /\ live'["present_us"] = live["present_us"] /\ live'["wall_us"] = live["wall_us"]
      <4>1. "idle_us" \in Names /\ live \in [Names -> 0..(Width - 1)]
        BY FiveWords DEF SeqlockInv, GameTyped
      <4> QED
        BY <3>7, <4>1
    <3>9. live'["present_us"] + live'["idle_us"] <= live'["wall_us"] + frame
      BY <3>2, <3>8
    <3> QED
      BY <1>2, <2>1, <2>2, <2>5, <3>4, <3>8, <3>9 DEF FrameIsAccounted, frame
  <2> QED
    BY <1>2, <2>1, <2>3, <2>4, <2>5
<1> QED
  BY <1>5, <1>6, <1>7, <1>8

\* A present closes the frame: what is neither present nor idle is execution,
\* and the subtraction does not clamp.
LEMMA AccountsPresent ==
    ASSUME CensusAssumption, SeqlockInv, AccountsAddUp, MaxTime \div Frequency < Width,
           PresentDone
    PROVE  started' /\ FrameIsAccounted' /\ AddsUp(live)'
<1>1. /\ pc = "present" /\ pc' = "publish" /\ lastMark' = now
      /\ UNCHANGED <<now, started, idleOpen, presentStart>>
  BY DEF PresentDone
<1>2. started /\ FrameIsAccounted /\ ~idleOpen /\ Accounted = presentStart
  BY <1>1 DEF AccountsAddUp, FrameIsAccounted, Accounted
<1>3. presentStart <= now /\ lastMark <= now /\ lastMark \in Nat /\ now \in Nat
  BY <1>2, NoWrap DEF FrameIsAccounted
<1> DEFINE since == (now - presentStart) \div Frequency
           frame == (now - lastMark) \div Frequency
           clock == now \div Frequency
           present == live["present_us"] + since
           wall == live["wall_us"] + frame
           idle == live["idle_us"]
<1>4. /\ live["present_us"] \in Nat /\ idle \in Nat /\ live["wall_us"] \in Nat
      /\ since \in Nat /\ frame \in Nat
      /\ present + idle <= wall /\ wall <= clock /\ clock \in 0..(Width - 1)
  <2>1. /\ live["present_us"] \in Nat /\ live["idle_us"] \in Nat /\ live["wall_us"] \in Nat
        /\ since \in Nat /\ frame \in Nat
        /\ live["present_us"] + live["idle_us"] + since <= live["wall_us"] + frame
        /\ live["wall_us"] + frame <= clock /\ clock \in 0..(Width - 1)
    BY <1>2, NoWrap
  <2> HIDE DEF since, frame, clock
  <2> QED
    BY <2>1
<1>5. Elapsed(presentStart) = since /\ Elapsed(lastMark) = frame
  BY <1>3, ElapsedIsRounded DEF SeqlockInv, GameTyped
<1> HIDE DEF since, frame, clock
<1>6. Width \in Nat
  BY DEF CensusAssumption
<1>7. present \in 0..(Width - 1) /\ wall \in 0..(Width - 1) /\ present + idle \in 0..(Width - 1)
  BY <1>4, <1>6
<1>8. /\ (live["present_us"] + Elapsed(presentStart)) % Width = present
      /\ (live["wall_us"] + Elapsed(lastMark)) % Width = wall
      /\ (present + idle) % Width = present + idle
  <2> HIDE DEF present, wall
  <2>1. present % Width = present /\ wall % Width = wall /\ (present + idle) % Width = present + idle
    BY <1>7, SmallRemainder
  <2> QED
    BY <1>5, <2>1 DEF present, wall
<1> DEFINE exec == IF wall > present + idle THEN wall - (present + idle) ELSE 0
<1>9. live' = [live EXCEPT !["presents"] = (live["presents"] + 1) % Width,
                           !["present_us"] = present, !["wall_us"] = wall, !["exec_us"] = exec]
  <2> HIDE DEF present, wall, idle
  <2>1. live' = [live EXCEPT !["presents"] = (live["presents"] + 1) % Width,
                  !["present_us"] = present, !["wall_us"] = wall,
                  !["exec_us"] = IF wall > (present + idle) % Width
                                 THEN wall - ((present + idle) % Width) ELSE 0]
    <3>1. /\ (live["present_us"] + Elapsed(presentStart)) % Width = present
          /\ (live["wall_us"] + Elapsed(lastMark)) % Width = wall
          /\ live["idle_us"] = idle
      BY <1>8 DEF idle
    <3> QED
      BY <3>1 DEF PresentDone
  <2> QED
    BY <1>8, <2>1
<1>10. exec = wall - (present + idle)
  BY <1>4
<1>11. /\ live'["present_us"] = present /\ live'["wall_us"] = wall
       /\ live'["exec_us"] = exec /\ live'["idle_us"] = idle
  <2>1. /\ "present_us" \in Names /\ "wall_us" \in Names
        /\ "exec_us" \in Names /\ "idle_us" \in Names
        /\ live \in [Names -> 0..(Width - 1)]
    BY FiveWords DEF SeqlockInv, GameTyped
  <2> DEFINE count == (live["presents"] + 1) % Width
  <2>2. live' = [live EXCEPT !["presents"] = count, !["present_us"] = present,
                             !["wall_us"] = wall, !["exec_us"] = exec]
    BY <1>9
  <2> HIDE DEF present, wall, exec, count, idle
  <2>3. /\ live'["present_us"] = present /\ live'["wall_us"] = wall
        /\ live'["exec_us"] = exec /\ live'["idle_us"] = live["idle_us"]
    BY <2>1, <2>2
  <2> QED
    BY <2>3 DEF idle
<1>12. AddsUp(live)'
  <2>1. wall = present + idle + (wall - (present + idle))
    BY <1>4
  <2> HIDE DEF present, wall, exec, idle
  <2> QED
    BY <1>10, <1>11, <2>1 DEF AddsUp
<1>13. FrameIsAccounted'
  <2>1. Accounted' = now
    BY <1>1, <1>2 DEF Accounted
  <2>2. now - now = 0 /\ 0 \div Frequency = 0
    BY <1>3, Rounding
  <2>3. present + idle <= wall + 0 /\ wall <= clock
    BY <1>4
  <2> HIDE DEF present, wall, idle, exec
  <2>4. live'["present_us"] + live'["idle_us"] <= live'["wall_us"] + ((Accounted' - lastMark') \div Frequency)
    BY <1>1, <1>11, <2>1, <2>2, <2>3
  <2>5. live'["wall_us"] <= lastMark' \div Frequency
    BY <1>1, <1>11, <2>3 DEF clock
  <2>6. lastMark' <= Accounted' /\ Accounted' <= now'
    BY <1>1, <1>3, <2>1
  <2> QED
    BY <1>1, <1>2, <2>4, <2>5, <2>6 DEF FrameIsAccounted
<1> QED
  BY <1>1, <1>2, <1>12, <1>13

\* A step of the game keeps present and idle time within the wall clock, and
\* every published record adding up.
LEMMA AccountsGame ==
    ASSUME CensusAssumption, SeqlockInv, AccountsAddUp, Game
    PROVE  AccountsAddUp'
<1> SUFFICES ASSUME MaxTime \div Frequency < Width
             PROVE  AccountsAddUp'
  BY DEF AccountsAddUp
<1>1. UNCHANGED <<shots, report>>
  BY DEF Game, Tick, Spin, Executed, PresentDone, CopyWord, Published, Restart, TakePacket, reader
<1>2. /\ \A i \in 1..Len(shots') : AddsUp(shots'[i].words)
      /\ report'[1] = "delta" => Len(shots') = 2 /\ report'[2] = [n \in Names |-> Plain(n)']
  BY <1>1 DEF AccountsAddUp, Plain
<1>3. CASE Tick \/ Spin \/ Executed \/ \E kind \in {"exec", "present"} : TakePacket(kind)
  <2>1. history' = history /\ pc' # "publish"
    BY <1>3 DEF Tick, Spin, Executed, TakePacket
  <2>2. /\ started' => FrameIsAccounted'
        /\ ~started' => live' = Zero /\ ~idleOpen' /\ pc' = "poll"
    BY <1>3, AccountsBetween
  <2> QED
    BY <1>2, <2>1, <2>2 DEF AccountsAddUp
<1>4. CASE PresentDone
  <2>1. history' = history
    BY <1>4 DEF PresentDone
  <2>2. started' /\ FrameIsAccounted' /\ AddsUp(live)'
    BY <1>4, AccountsPresent
  <2> QED
    BY <1>2, <2>1, <2>2 DEF AccountsAddUp, AddsUp
<1>5. CASE CopyWord
  <2>1. UNCHANGED <<now, pc, live, started, lastMark, idleOpen, idleStart, presentStart, history>>
    BY <1>5 DEF CopyWord
  <2> QED
    BY <1>2, <2>1 DEF AccountsAddUp, FrameIsAccounted, Accounted, AddsUp
<1>6. CASE Published
  <2>1. /\ pc = "publish" /\ pc' = "poll" /\ history' = Append(history, live)
        /\ UNCHANGED <<now, live, started, lastMark, idleOpen, idleStart, presentStart>>
    BY <1>6 DEF Published
  <2>2. started /\ FrameIsAccounted /\ ~idleOpen /\ AddsUp(live)
    BY <2>1 DEF AccountsAddUp, FrameIsAccounted
  <2>3. FrameIsAccounted'
    <3>1. Accounted' = Accounted
      BY <2>1, <2>2 DEF Accounted
    <3> QED
      BY <2>1, <2>2, <3>1 DEF FrameIsAccounted
  <2>4. \A k \in 1..Len(history') : AddsUp(history'[k])
    <3> DEFINE R == [Names -> 0..(Width - 1)]
    <3>1. history \in Seq(R) /\ live \in R
      BY DEF SeqlockInv, GameTyped
    <3> HIDE DEF R
    <3>2. /\ Len(history) \in Nat /\ Len(history') = Len(history) + 1
          /\ history'[Len(history) + 1] = live
          /\ \A k \in 1..Len(history) : history'[k] = history[k]
      BY <2>1, <3>1
    <3>3. \A k \in 1..Len(history) : AddsUp(history[k])
      BY DEF AccountsAddUp
    <3> SUFFICES ASSUME NEW k \in 1..Len(history')
                 PROVE  AddsUp(history'[k])
      OBVIOUS
    <3>4. CASE k = Len(history) + 1
      BY <2>2, <3>2, <3>4
    <3>5. CASE k # Len(history) + 1
      <4>1. k \in 1..Len(history)
        BY <3>2, <3>5
      <4> QED
        BY <3>2, <3>3, <4>1
    <3> QED
      BY <3>4, <3>5
  <2> QED
    BY <1>2, <2>1, <2>2, <2>3, <2>4 DEF AccountsAddUp
<1>7. CASE Restart
  <2>1. /\ pc' = "poll" /\ live' = Zero /\ started' = FALSE /\ idleOpen' = FALSE
        /\ history' = <<Zero>>
    BY <1>7 DEF Restart
  <2>2. AddsUp(Zero)
    BY FiveWords DEF Zero, AddsUp
  <2>3. \A k \in 1..Len(history') : AddsUp(history'[k])
    BY <2>1, <2>2
  <2> QED
    BY <1>2, <2>1, <2>3 DEF AccountsAddUp
<1> QED
  BY <1>3, <1>4, <1>5, <1>6, <1>7 DEF Game

\* A step of the reader keeps its snapshots adding up and its difference plain.
LEMMA AccountsReader ==
    ASSUME CensusAssumption, SeqlockInv, AccountsAddUp, Reader
    PROVE  AccountsAddUp'
<1> SUFFICES ASSUME MaxTime \div Frequency < Width
             PROVE  AccountsAddUp'
  BY DEF AccountsAddUp
<1>1. UNCHANGED <<now, pc, live, started, lastMark, idleOpen, idleStart, presentStart, history>>
  BY DEF Reader, Open, ProcessGone, ReadFirst, ReadWord, ReadSecond, Diff, game
<1>2. /\ started' => FrameIsAccounted'
      /\ ~started' => live' = Zero /\ ~idleOpen' /\ pc' = "poll"
      /\ pc' = "publish" => AddsUp(live')
      /\ \A k \in 1..Len(history') : AddsUp(history'[k])
  BY <1>1 DEF AccountsAddUp, FrameIsAccounted, Accounted
<1>3. SUFFICES /\ \A i \in 1..Len(shots') : AddsUp(shots'[i].words)
               /\ report'[1] = "delta" => Len(shots') = 2 /\ report'[2] = [n \in Names |-> Plain(n)']
  BY <1>2 DEF AccountsAddUp
<1>4. CASE UNCHANGED <<shots, report>>
  BY <1>4 DEF AccountsAddUp, Plain
<1>5. CASE Diff
  <2>1. /\ Len(shots) = 2 /\ shots' = shots
        /\ report' = <<"refused">> \/ report' = <<"delta", [n \in Names |-> Plain(n)]>>
    BY <1>5 DEF Diff
  <2>2. \A i \in 1..Len(shots') : AddsUp(shots'[i].words)
    BY <2>1 DEF AccountsAddUp
  <2>3. [n \in Names |-> Plain(n)'] = [n \in Names |-> Plain(n)]
    BY <2>1 DEF Plain
  <2> QED
    BY <2>1, <2>2, <2>3
<1>6. CASE ReadSecond /\ seq = header
  <2> DEFINE S == [pid : 1..pid, seq : Nat, words : [Names -> 0..(Width - 1)]]
  <2>1. shots' = Append(shots, Shot) /\ at = <<"second", pid>> /\ report' = report
    BY <1>6 DEF ReadSecond
  <2>2. /\ Shot.words = history[Len(history)]
        /\ Shot \in S /\ shots \in Seq(S) /\ Len(shots) < 2
    BY <1>6, <2>1, ShotIsLast DEF SeqlockInv, ReaderTyped, Reading
  <2> HIDE DEF S
  <2>3. /\ Len(shots') = Len(shots) + 1 /\ Len(shots) \in Nat
        /\ shots'[Len(shots) + 1] = Shot
        /\ \A i \in 1..Len(shots) : shots'[i] = shots[i]
    BY <2>1, <2>2
  <2>4. AddsUp(Shot.words)
    <3>1. Len(history) \in 1..Len(history)
      BY DEF SeqlockInv, GameTyped
    <3> QED
      BY <2>2, <3>1 DEF AccountsAddUp
  <2>5. \A i \in 1..Len(shots') : AddsUp(shots'[i].words)
    <3> SUFFICES ASSUME NEW i \in 1..Len(shots')
                 PROVE  AddsUp(shots'[i].words)
      OBVIOUS
    <3>1. CASE i = Len(shots) + 1
      BY <2>3, <2>4, <3>1
    <3>2. CASE i # Len(shots) + 1
      <4>1. i \in 1..Len(shots)
        BY <2>3, <3>2
      <4>2. AddsUp(shots[i].words)
        BY <4>1 DEF AccountsAddUp
      <4> QED
        BY <2>3, <4>1, <4>2
    <3> QED
      BY <3>1, <3>2
  <2>6. report[1] # "delta"
    BY <2>2 DEF AccountsAddUp
  <2> QED
    BY <2>1, <2>5, <2>6
<1> QED
  BY <1>4, <1>5, <1>6 DEF Reader, Open, ProcessGone, ReadFirst, ReadWord, ReadSecond

\* Every step keeps the accounts adding up.
LEMMA AccountsNext ==
    CensusAssumption /\ SeqlockInv /\ AccountsAddUp /\ [Next]_vars => AccountsAddUp'
<1> SUFFICES ASSUME CensusAssumption, SeqlockInv, AccountsAddUp, [Next]_vars
             PROVE  AccountsAddUp'
  OBVIOUS
<1>1. CASE UNCHANGED vars
  BY <1>1 DEF vars, game, reader, AccountsAddUp, FrameIsAccounted, Accounted, AddsUp, Plain
<1> QED
  BY <1>1, AccountsGame, AccountsReader DEF Next

-----------------------------------------------------------------------------

\* The inductive invariant of the publication and of snapshot(), for any
\* width, clock frequency, and number of presents, retries and restarts.
THEOREM SeqlockInvariant == ASSUME CensusAssumption PROVE Spec => []SeqlockInv
<1>1. Init => SeqlockInv
  BY InvInit
<1>2. SeqlockInv /\ [Next]_vars => SeqlockInv'
  BY InvNext
<1> QED
  BY <1>1, <1>2, PTL DEF Spec

\* Every variable of the publisher and of the reader keeps its type.
THEOREM CensusTypes == ASSUME CensusAssumption PROVE Spec => []TypeOK
<1>1. SeqlockInv => TypeOK
  <2> SUFFICES ASSUME SeqlockInv
               PROVE  TypeOK
    OBVIOUS
  <2> DEFINE h == Len(history)
  <2>1. /\ h \in Nat /\ h >= 1
        /\ public \in [Names -> 0..(Width - 1)]
        /\ history[h] \in [Names -> 0..(Width - 1)]
    <3> DEFINE R == [Names -> 0..(Width - 1)]
    <3>1. history \in Seq(R) /\ history # <<>> /\ public \in R
      BY DEF SeqlockInv, GameTyped
    <3> HIDE DEF R
    <3>2. Len(history) \in Nat /\ Len(history) >= 1 /\ history[Len(history)] \in R
      BY <3>1
    <3> QED
      BY <3>1, <3>2 DEF R
  <2>2. seq = 2 * (h - 1) + (IF pc = "publish" THEN 1 ELSE 0)
    BY DEF SeqlockInv, SequenceCounts
  <2> HIDE DEF h
  <2>3. seq % 2 = (IF pc = "publish" THEN 1 ELSE 0) /\ h = seq \div 2 + 1
    <3>1. h - 1 \in Nat
      BY <2>1
    <3>2. /\ (2 * (h - 1)) % 2 = 0 /\ (2 * (h - 1) + 1) % 2 = 1
          /\ (2 * (h - 1)) \div 2 = h - 1 /\ (2 * (h - 1) + 1) \div 2 = h - 1
      BY <3>1, Halves
    <3>3. CASE pc = "publish"
      <4>1. seq = 2 * (h - 1) + 1
        BY <2>2, <3>3
      <4> QED
        BY <2>1, <3>2, <3>3, <4>1
    <3>4. CASE pc # "publish"
      <4>1. seq = 2 * (h - 1)
        BY <2>1, <2>2, <3>4
      <4> QED
        BY <2>1, <3>2, <3>4, <4>1
    <3> QED
      BY <3>3, <3>4
  <2>4. pc # "publish" => public = history[h]
    <3> SUFFICES ASSUME pc # "publish"
                 PROVE  \A n \in Names : public[n] = history[h][n]
      BY <2>1
    <3>1. \A i \in 1..5 : public[Words[i]] = history[h][Words[i]]
      BY FiveLong DEF SeqlockInv, WordsArePublished, h
    <3> QED
      BY <3>1, FiveWords
  <2>5. \A n \in Names : live[n] \in 0..(Width - 1)
    BY DEF SeqlockInv, GameTyped
  <2> QED
    BY <2>3, <2>4, <2>5 DEF TypeOK, SeqlockInv, GameTyped, ReaderTyped, h
<1> QED
  BY <1>1, SeqlockInvariant, PTL

\* A snapshot that the reader accepted because its two headers were equal and
\* even is, word by word, one record that this process published, although the
\* publisher copied others meanwhile.
THEOREM SnapshotsArePublished ==
    ASSUME CensusAssumption PROVE Spec => []SnapshotIsPublished
<1>1. SeqlockInv => SnapshotIsPublished
  <2> SUFFICES ASSUME SeqlockInv, NEW i \in 1..Len(shots), shots[i].pid = pid
               PROVE  shots[i].words = history[(shots[i].seq \div 2) + 1]
    BY DEF SnapshotIsPublished
  <2>1. PICK k \in 1..Len(history) : shots[i].seq = 2 * (k - 1) /\ shots[i].words = history[k]
    BY DEF SeqlockInv, ShotsArePublished
  <2>2. Len(history) \in Nat
    BY DEF SeqlockInv, GameTyped
  <2>3. k - 1 \in Nat
    BY <2>2
  <2>4. (2 * (k - 1)) \div 2 = k - 1
    BY <2>3, Halves
  <2>5. (shots[i].seq \div 2) + 1 = k
    <3>1. shots[i].seq \div 2 = k - 1
      BY <2>1, <2>4
    <3> QED
      BY <2>2, <3>1
  <2> QED
    BY <2>1, <2>5
<1> QED
  BY <1>1, SeqlockInvariant, PTL

\* A reported difference is of two snapshots of one process, and its count of
\* presents is that of the publications between them, as long as the counter of
\* presents has not come round its width.
THEOREM DeltasAreOfOneProcess ==
    ASSUME CensusAssumption, MaxPresents < Width
    PROVE  Spec => []DeltaIsOfOneProcess
<1>1. Init => PresentsAreCounted
  BY CountedInit
<1>2. SeqlockInv /\ PresentsAreCounted /\ [Next]_vars => PresentsAreCounted'
  BY CountedNext
<1>3. SeqlockInv /\ PresentsAreCounted => DeltaIsOfOneProcess
  <2> SUFFICES ASSUME SeqlockInv, PresentsAreCounted, report[1] = "delta"
               PROVE  /\ shots[1].pid = shots[2].pid
                      /\ 2 * report[2]["presents"] = shots[2].seq - shots[1].seq
    BY DEF DeltaIsOfOneProcess
  <2>1. /\ Len(shots) = 2 /\ shots[1].pid = shots[2].pid
        /\ report[2]["presents"] = shots[2].words["presents"] - shots[1].words["presents"]
        /\ \A i \in 1..Len(shots) : shots[i].seq = 2 * shots[i].words["presents"]
    BY DEF PresentsAreCounted
  <2>2. shots[1].words["presents"] \in Int /\ shots[2].words["presents"] \in Int
    <3> DEFINE S == [pid : 1..pid, seq : Nat, words : [Names -> 0..(Width - 1)]]
    <3>1. shots \in Seq(S)
      BY DEF SeqlockInv, ReaderTyped
    <3> HIDE DEF S
    <3>2. shots[1] \in S /\ shots[2] \in S
      <4>1. 1 \in 1..Len(shots) /\ 2 \in 1..Len(shots)
        BY <2>1
      <4> QED
        BY <3>1, <4>1
    <3> QED
      BY <3>2, FiveWords DEF S
  <2> QED
    BY <2>1, <2>2
<1> QED
  BY <1>1, <1>2, <1>3, SeqlockInvariant, PTL DEF Spec

\* In every reported difference present, idle and exec time are together the
\* wall clock: the subtraction that yields exec never goes below zero, although
\* each interval is rounded down by itself, as long as the microsecond counters
\* have not come round their width.
THEOREM ReportsAddUp ==
    ASSUME CensusAssumption, MaxTime \div Frequency < Width
    PROVE  Spec => []ReportAddsUp
<1>1. Init => AccountsAddUp
  BY AccountsInit
<1>2. SeqlockInv /\ AccountsAddUp /\ [Next]_vars => AccountsAddUp'
  BY AccountsNext
<1>3. SeqlockInv /\ AccountsAddUp => ReportAddsUp
  <2> SUFFICES ASSUME SeqlockInv, AccountsAddUp, report[1] = "delta"
               PROVE  report[2]["wall_us"] = report[2]["present_us"] + report[2]["idle_us"]
                                             + report[2]["exec_us"]
    BY DEF ReportAddsUp
  <2>1. /\ Len(shots) = 2 /\ report[2] = [n \in Names |-> Plain(n)]
        /\ \A i \in 1..Len(shots) : AddsUp(shots[i].words)
    BY DEF AccountsAddUp
  <2>2. \A n \in Names : shots[1].words[n] \in Int /\ shots[2].words[n] \in Int
    <3> DEFINE S == [pid : 1..pid, seq : Nat, words : [Names -> 0..(Width - 1)]]
    <3>1. shots \in Seq(S)
      BY DEF SeqlockInv, ReaderTyped
    <3> HIDE DEF S
    <3>2. shots[1] \in S /\ shots[2] \in S
      <4>1. 1 \in 1..Len(shots) /\ 2 \in 1..Len(shots)
        BY <2>1
      <4> QED
        BY <3>1, <4>1
    <3> QED
      BY <3>2 DEF S
  <2>3. AddsUp(shots[1].words) /\ AddsUp(shots[2].words)
    BY <2>1
  <2>4. /\ "present_us" \in Names /\ "idle_us" \in Names
        /\ "exec_us" \in Names /\ "wall_us" \in Names
    BY FiveWords
  <2>5. \A n \in Names : report[2][n] = shots[2].words[n] - shots[1].words[n]
    BY <2>1 DEF Plain
  <2>6. /\ shots[1].words["wall_us"] = shots[1].words["present_us"]
              + shots[1].words["idle_us"] + shots[1].words["exec_us"]
        /\ shots[2].words["wall_us"] = shots[2].words["present_us"]
              + shots[2].words["idle_us"] + shots[2].words["exec_us"]
    BY <2>3 DEF AddsUp
  <2> QED
    BY <2>2, <2>4, <2>5, <2>6
<1> QED
  BY <1>1, <1>2, <1>3, SeqlockInvariant, PTL DEF Spec
=============================================================================
