--------------------------- MODULE FreezeCapture ---------------------------
(***************************************************************************)
(* freeze_capture.py: two passes over the threads of a process that seems  *)
(* frozen, then for each thread that waits on a futex a look at its word.  *)
(* The process goes on meanwhile, if it is not frozen: threads run, wait,  *)
(* are woken, end and begin, and the word changes.  Each file is read by   *)
(* itself.  One futex word; a thread's identifier is not used again.       *)
(***************************************************************************)
EXTENDS Naturals, FiniteSets

CONSTANTS Threads,    \* identifiers
          Values,     \* what the word may hold
          MaxTicks,   \* bound: CPU ticks of a thread
          MaxEvents   \* bound: steps of the process during a capture

CaptureAssumption ==
  Values \subseteq Nat /\ {MaxTicks, MaxEvents} \subseteq Nat

VARIABLES state,     \* per thread: unborn, runs, waits, gone
          expected,  \* per thread: the value it waits on
          ticks,     \* per thread: utime + stime
          word,      \* the futex word, or Unmapped
          events,    \* steps of the process since the capture began
          phase,     \* which pass is being made
          todo,      \* threads of this pass not read yet
          first, second,  \* per thread: what the passes read
          verdict    \* per thread: what the analysis prints

process == <<state, expected, ticks, word, events>>
capture == <<phase, todo, first, second, verdict>>
vars == <<process, capture>>

Unmapped == "unmapped"
Nothing == [seen |-> FALSE]
Alive == {t \in Threads : state[t] \in {"runs", "waits"}}

----------------------------------------------------------------------------
(* The process *)

Goes == events < MaxEvents /\ events' = events + 1 /\ UNCHANGED capture

Run(t) ==
  /\ Goes /\ state[t] = "runs" /\ ticks[t] < MaxTicks
  /\ ticks' = [ticks EXCEPT ![t] = ticks[t] + 1]
  /\ UNCHANGED <<state, expected, word>>

(* FUTEX_WAIT sleeps only while the word is what the caller expects. *)
Wait(t) ==
  /\ Goes /\ state[t] = "runs" /\ word[1] /= Unmapped
  /\ state' = [state EXCEPT ![t] = "waits"]
  /\ expected' = [expected EXCEPT ![t] = word[2]]
  /\ UNCHANGED <<ticks, word>>

Wake(t) ==
  /\ Goes /\ state[t] = "waits"
  /\ state' = [state EXCEPT ![t] = "runs"]
  /\ UNCHANGED <<expected, ticks, word>>

Begin(t) ==
  /\ Goes /\ state[t] = "unborn"
  /\ state' = [state EXCEPT ![t] = "runs"]
  /\ UNCHANGED <<expected, ticks, word>>

End(t) ==
  /\ Goes /\ state[t] = "runs"
  /\ state' = [state EXCEPT ![t] = "gone"]
  /\ UNCHANGED <<expected, ticks, word>>

Change ==
  /\ Goes
  /\ \E w \in {<<"mapped", v>> : v \in Values} \cup {<<Unmapped, 0>>} :
       w /= word /\ word' = w
  /\ UNCHANGED <<state, expected, ticks>>

----------------------------------------------------------------------------
(* The capture *)

Pass(name, then) ==
  /\ phase = name /\ todo = {}
  /\ phase' = then
  /\ UNCHANGED <<process, first, second, verdict>>

(* The threads of a pass are the ones listed when it begins. *)
List(name, then) == Pass(name, then) /\ todo' = Alive

ListFirst == List("start", "first")
ListSecond == List("first", "second")

(* stat: a thread that has ended meanwhile is left out. *)
ReadFirst(t) ==
  /\ phase = "first" /\ t \in todo
  /\ todo' = todo \ {t}
  /\ first' = IF t \in Alive
              THEN [first EXCEPT ![t] = [seen |-> TRUE, ticks |-> ticks[t]]]
              ELSE first
  /\ UNCHANGED <<process, phase, second, verdict>>

ReadStat(t) ==
  /\ phase = "second" /\ t \in todo /\ ~second[t].seen
  /\ IF t \in Alive
     THEN /\ second' = [second EXCEPT ![t] =
               [seen |-> TRUE, ticks |-> ticks[t], syscall |-> "unread"]]
          /\ UNCHANGED todo
     ELSE /\ todo' = todo \ {t}
          /\ UNCHANGED second
  /\ UNCHANGED <<process, phase, first, verdict>>

(* syscall: the futex wait with its value, or none. *)
ReadSyscall(t) ==
  /\ phase = "second" /\ t \in todo /\ second[t].seen
  /\ todo' = todo \ {t}
  /\ second' = [second EXCEPT ![t] =
       [seen |-> TRUE, ticks |-> second[t].ticks,
        syscall |-> IF state[t] = "waits" THEN "futex" ELSE "other",
        val |-> expected[t]]]
  /\ UNCHANGED <<process, phase, first, verdict>>

Waiters == {t \in Threads : second[t].seen /\ second[t].syscall = "futex"}
Analyse == Pass("second", "analyse") /\ todo' = Waiters

(* peek_word, and the line that is printed of it: a word that could not be *)
(* read leaves still_blocked None.                                         *)
\* Mutant: the word is compared with nothing expected.
PeekZero(t) ==
  /\ phase = "analyse" /\ t \in todo
  /\ todo' = todo \ {t}
  /\ LET still_blocked == IF word[1] = Unmapped THEN "None"
                          ELSE IF word[2] = 0 THEN "True" ELSE "False"
     IN  verdict' = [verdict EXCEPT ![t] =
           [blocked |-> still_blocked,
            line |-> IF still_blocked = "True" THEN "unchanged" ELSE "word changed"]]
  /\ UNCHANGED <<process, phase, first, second>>

Peek(t) ==
  /\ phase = "analyse" /\ t \in todo
  /\ todo' = todo \ {t}
  /\ LET still_blocked == IF word[1] = Unmapped THEN "None"
                          ELSE IF word[2] = second[t].val THEN "True" ELSE "False"
     IN  verdict' = [verdict EXCEPT ![t] =
           [blocked |-> still_blocked,
            line |-> IF still_blocked = "True" THEN "unchanged" ELSE "word changed"]]
  /\ UNCHANGED <<process, phase, first, second>>

Write == Pass("analyse", "written") /\ todo' = {}

(* The two lists of the report. *)
Both == {t \in Threads : first[t].seen /\ second[t].seen}
Progressed == {t \in Both : second[t].ticks /= first[t].ticks}
Frozen == Both \ Progressed

Init ==
  /\ state \in [Threads -> {"unborn", "runs", "waits"}]
  /\ ticks = [t \in Threads |-> 0]
  /\ word \in {<<"mapped", v>> : v \in Values}
  /\ expected \in [Threads -> Values]
  /\ \A t \in Threads : state[t] /= "waits" => expected[t] = 0
  /\ events = 0
  /\ phase = "start" /\ todo = {}
  /\ first = [t \in Threads |-> Nothing]
  /\ second = first
  /\ verdict = [t \in Threads |-> [blocked |-> "unread", line |-> "none"]]

Next ==
  \/ Change \/ ListFirst \/ ListSecond \/ Analyse \/ Write
  \/ \E t \in Threads :
       \/ Run(t) \/ Wait(t) \/ Wake(t) \/ Begin(t) \/ End(t)
       \/ ReadFirst(t) \/ ReadStat(t) \/ ReadSyscall(t) \/ Peek(t)

Spec == Init /\ [][Next]_vars

----------------------------------------------------------------------------
\* The passes go over threads, and the analysis over futex waits only.
TypeOK ==
  /\ phase \in {"start", "first", "second", "analyse", "written"}
  /\ todo \subseteq Threads
  /\ \A t \in Threads : first[t].seen => first[t].ticks \in 0 .. ticks[t]
  /\ \A t \in Threads : second[t].seen => second[t].ticks \in 0 .. ticks[t]
  /\ \A t \in Threads :
       verdict[t].line /= "none" => t \in Waiters

\* A thread that lives through the capture is in exactly one of the two
\* lists, one that began in it in neither, and the moved ones really ran.
ThreadsAreClassified ==
  phase = "written" =>
    /\ Progressed \cap Frozen = {}
    /\ \A t \in Threads :
         t \in Progressed \cup Frozen => first[t].seen
    /\ {t \in Threads : first[t].seen /\ t \in Alive} \subseteq Progressed \cup Frozen
    /\ \A t \in Progressed : ticks[t] > 0
    /\ \A t \in Frozen : second[t].ticks = first[t].ticks

\* A process that really is frozen shows it: if nothing of it moved during the
\* capture, every thread is in the frozen list, and each one that waits on the
\* value the word still has is printed as unchanged.
FrozenProcessShowsIt ==
  phase = "written" /\ events = 0 =>
    /\ Frozen = Alive /\ Progressed = {}
    /\ \A t \in Threads :
         /\ state[t] = "waits" <=> t \in Waiters
         /\ t \in Waiters =>
              (verdict[t].line = "unchanged" <=> word[2] = expected[t])

=============================================================================
