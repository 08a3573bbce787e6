----------------------------- MODULE DxtWitness -----------------------------
(***************************************************************************)
(* What Box86 publishes of its native DXT surface conversion (patches 20   *)
(* and 27) and what box86_dxt_stats.py says of it.  A thread of the game   *)
(* that calls the conversion is intercepted; the call is done natively, or *)
(* falls back to the game's own code, which may fail.  In verify mode a    *)
(* call may be done both ways and compared.  Every thread sets one-way     *)
(* flags; the reader copies the words one after the other while they move, *)
(* and gives its verdict.                                                  *)
(*                                                                         *)
(* The counters of calls, pixels and blocks, that are in no verdict, are   *)
(* left out; of the five words about the first mismatch there are two.     *)
(***************************************************************************)
EXTENDS Naturals, FiniteSets

CONSTANTS Workers,       \* threads of the game that convert
          Calls,         \* bound: conversions
          Reasons,       \* why a call falls back
          VERIFY_LIMIT   \* comparisons after which none is begun

WitnessAssumption == /\ Calls \in Nat /\ VERIFY_LIMIT \in Nat
                     /\ Reasons \subseteq Nat \ {0}

VARIABLES verify,     \* is Box86 in verify mode?
          selftest,   \* did the self-test pass, and so is the bridge armed?
          calls, compared,
          bad,        \* the mismatches counted, each with its call and byte
          flags, fallback,           \* the witness: flags, first fallback
          first_bad_set, first_bad,  \* of the first mismatch: call and byte
          worker,     \* per thread: where it is, in which call
          returned,   \* calls that have returned, by how they were done
          reader,     \* where the reader is
          saw         \* what it has read

counters == <<calls, compared, bad>>
witness == <<flags, fallback>>
mismatch == <<first_bad_set, first_bad>>
box86 == <<verify, selftest, counters, witness, mismatch, worker, returned>>
vars == <<box86, reader, saw>>

Outcomes == {"native", "guest", "failed"}
AllFlags == {"STRONG_SELFTEST", "ARMED", "INTERCEPTED", "NATIVE_SEEN",
             "GUEST_SEEN", "GUEST_FAILED"}
None == 0    \* no reason
NoMismatch == [call |-> 0, byte |-> 0]

----------------------------------------------------------------------------
(* A call *)

At(w, at) == worker[w].at = at
Go(w, to) == worker' = [worker EXCEPT ![w].at = to]
World == UNCHANGED <<verify, selftest, reader, saw>>

(* Once seen, a flag is left alone; it is set by an atomic or. *)
Observe(w, at, flag, to) ==
  /\ At(w, at)
  /\ flags' = flags \cup {flag}
  /\ Go(w, to)
  /\ UNCHANGED <<fallback, counters, mismatch, returned>> /\ World

Return(w, at, how) ==
  /\ At(w, at)
  /\ returned' = [returned EXCEPT ![how] = returned[how] + 1]
  /\ Go(w, "idle")
  /\ UNCHANGED <<counters, witness, mismatch>> /\ World

(* mgs2_indirect_alternate hands out the bridge when it is armed. *)
Intercept(w) ==
  /\ selftest /\ calls < Calls
  /\ At(w, "idle")
  /\ flags' = flags \cup {"INTERCEPTED"}
  /\ calls' = calls + 1
  /\ worker' = [worker EXCEPT ![w] =
       [at |-> IF verify THEN "verify" ELSE "convert", call |-> calls + 1,
        byte |-> 0]]
  /\ UNCHANGED <<fallback, compared, bad, mismatch, returned>> /\ World

(* A call is compared while the limit is not reached; a comparison that    *)
(* cannot be made leaves the call to be converted as any other.            *)

Verify(w) ==
  /\ At(w, "verify")
  /\ \/ compared < VERIFY_LIMIT /\ Go(w, "compare")
     \/ Go(w, "convert")
  /\ UNCHANGED <<counters, witness, mismatch, returned>> /\ World

Compare(w) ==
  /\ At(w, "compare")
  /\ \/ Go(w, "compared")
     \/ \E byte \in 1 .. 2 :
          worker' = [worker EXCEPT ![w].at = "bad", ![w].byte = byte]
     \/ Go(w, "convert")
  /\ UNCHANGED <<counters, witness, mismatch, returned>> /\ World

(* mgs2_dxt_surface_record_bad: the first to set first_bad_set fills in.    *)
CountBad(w) ==
  /\ At(w, "bad")
  /\ bad' = bad \cup {[call |-> worker[w].call, byte |-> worker[w].byte]}
  /\ Go(w, "claim")
  /\ UNCHANGED <<calls, compared, witness, mismatch, returned>> /\ World

\* Mutant: whoever finds one fills in.
ClaimBadEach(w) ==
  /\ At(w, "claim")
  /\ first_bad_set' = TRUE
  /\ Go(w, "fill call")
  /\ UNCHANGED <<counters, witness, first_bad, returned>> /\ World

ClaimBad(w) ==
  /\ At(w, "claim")
  /\ first_bad_set' = TRUE
  /\ Go(w, IF first_bad_set THEN "compared" ELSE "fill call")
  /\ UNCHANGED <<counters, witness, first_bad, returned>> /\ World

Fill(w, at, key, value, to) ==
  /\ At(w, at)
  /\ first_bad' = [first_bad EXCEPT ![key] = value]
  /\ Go(w, to)
  /\ UNCHANGED <<counters, witness, first_bad_set, returned>> /\ World

FillCall(w) == Fill(w, "fill call", "call", worker[w].call, "fill byte")
FillByte(w) == Fill(w, "fill byte", "byte", worker[w].byte, "compared")

CountCompared(w) ==
  /\ At(w, "compared")
  /\ compared' = compared + 1
  /\ Go(w, "native done")
  /\ UNCHANGED <<calls, bad, witness, mismatch, returned>> /\ World

(* mgs2_dxt_surface_native_run: done, or a reason to fall back. *)

Convert(w) ==
  /\ At(w, "convert")
  /\ \/ Go(w, "native done")
     \/ \E r \in Reasons : worker' = [worker EXCEPT ![w].at = "guest seen", ![w].byte = r]
  /\ UNCHANGED <<counters, witness, mismatch, returned>> /\ World

NativeSeen(w) == Observe(w, "native done", "NATIVE_SEEN", "native return")
NativeReturn(w) == Return(w, "native return", "native")

GuestSeen(w) == Observe(w, "guest seen", "GUEST_SEEN", "reason")

(* The first reason stays. *)
FirstFallback(w) ==
  /\ At(w, "reason")
  /\ fallback' = IF fallback = None THEN worker[w].byte ELSE fallback
  /\ Go(w, "guest call")
  /\ UNCHANGED <<flags, counters, mismatch, returned>> /\ World

GuestCall(w) ==
  /\ At(w, "guest call")
  /\ \/ Go(w, "guest return")
     \/ Go(w, "failed")
  /\ UNCHANGED <<counters, witness, mismatch, returned>> /\ World

GuestReturn(w) == Return(w, "guest return", "guest")
GuestFailed(w) == Observe(w, "failed", "GUEST_FAILED", "failed return")
FailedReturn(w) == Return(w, "failed return", "failed")

Work(w) ==
  \/ Intercept(w) \/ Verify(w) \/ Compare(w) \/ CountBad(w) \/ ClaimBad(w)
  \/ FillCall(w) \/ FillByte(w) \/ CountCompared(w) \/ Convert(w)
  \/ NativeSeen(w) \/ NativeReturn(w) \/ GuestSeen(w) \/ FirstFallback(w)
  \/ GuestCall(w) \/ GuestReturn(w) \/ GuestFailed(w) \/ FailedReturn(w)

----------------------------------------------------------------------------
(* The reader: the words of the mismatch, then the witness *)

Read(at, to, reading) ==
  /\ reader = at
  /\ reader' = to
  /\ saw' = reading
  /\ UNCHANGED box86

ReadSet == Read("set", "call", [saw EXCEPT !.set = first_bad_set])
ReadCall == Read("call", "byte", [saw EXCEPT !.call = first_bad.call])
ReadByte == Read("byte", "flags", [saw EXCEPT !.byte = first_bad.byte])
ReadFlags == Read("flags", "fallback",
  [saw EXCEPT !.flags = flags, !.returned = returned])
ReadFallback == Read("fallback", "read", [saw EXCEPT !.fallback = fallback])

(* witness_verdict of a well-formed header *)

Verdict(f) ==
  LET native == "NATIVE_SEEN" \in f  guest == "GUEST_SEEN" \in f
      usable == {"STRONG_SELFTEST", "ARMED"} \subseteq f
  IN  CASE ~usable -> "REFUSED"
        [] usable /\ "INTERCEPTED" \notin f -> "NOT_REACHED"
        [] usable /\ "INTERCEPTED" \in f /\ "GUEST_FAILED" \in f -> "REFUSED"
        [] OTHER -> CASE native /\ guest -> "MIXED"
                      [] native /\ ~guest -> "NATIVE_CONFIRMED"
                      [] guest /\ ~native -> "FALLBACK_ONLY"
                      [] OTHER -> "INCOMPLETE"

(* The bridge is armed before any code of the game runs, if the self-test  *)
(* passes.                                                                 *)
Init ==
  /\ verify \in BOOLEAN /\ selftest \in BOOLEAN
  /\ calls = 0 /\ compared = 0 /\ bad = {}
  /\ flags = IF selftest THEN {"STRONG_SELFTEST", "ARMED"} ELSE {}
  /\ fallback = None
  /\ first_bad_set = FALSE /\ first_bad = NoMismatch
  /\ worker = [w \in Workers |-> [at |-> "idle", call |-> 0, byte |-> 0]]
  /\ returned = [o \in Outcomes |-> 0]
  /\ reader = "set"
  /\ saw = [set |-> FALSE, call |-> 0, byte |-> 0, flags |-> {}, fallback |-> None,
            returned |-> returned]

Next == \/ \E w \in Workers : Work(w)
        \/ ReadSet \/ ReadCall \/ ReadByte \/ ReadFlags \/ ReadFallback

Spec == Init /\ [][Next]_vars

----------------------------------------------------------------------------
(* Type correctness: the words Box86 publishes, where its threads and the  *)
(* reader are; a call that falls back carries a reason of the table.       *)
TypeOK ==
  /\ verify \in BOOLEAN /\ selftest \in BOOLEAN
  /\ calls \in 0 .. Calls /\ compared \in 0 .. Calls
  /\ bad \subseteq [call : 1 .. Calls, byte : 1 .. 2]
  /\ flags \subseteq AllFlags /\ fallback \in Reasons \cup {None}
  /\ first_bad_set \in BOOLEAN
  /\ first_bad \in [call : 0 .. Calls, byte : 0 .. 2]
  /\ \A w \in Workers :
       /\ worker[w].call \in 0 .. Calls
       /\ worker[w].at \in {"guest seen", "reason"} => worker[w].byte \in Reasons
  /\ returned \in [Outcomes -> 0 .. Calls]
  /\ saw.flags \subseteq AllFlags /\ saw.fallback \in Reasons \cup {None}

(* The verdict is true of every conversion that had returned when the      *)
(* flags were read, whatever the threads were doing meanwhile: confirmed   *)
(* native means none was done otherwise, fallback only that none was       *)
(* native, not reached and incomplete that none had returned at all, and   *)
(* once a fallback has failed and returned nothing is said but a refusal.  *)
VerdictIsTrue ==
  reader \in {"fallback", "read"} =>
    LET verdict == Verdict(saw.flags)  done == saw.returned
    IN  /\ verdict = "NATIVE_CONFIRMED" => done["guest"] = 0
        /\ verdict = "FALLBACK_ONLY" => done["native"] = 0
        /\ verdict \in {"NOT_REACHED", "INCOMPLETE"} =>
             done["native"] = 0 /\ done["guest"] = 0
        /\ done["failed"] > 0 => verdict = "REFUSED"

(* Once no thread is filling it in, the first mismatch published is one of *)
(* those found, its call and its byte of the same comparison, however many *)
(* threads found one together.                                             *)
FirstMismatchIsOne ==
  first_bad_set /\ (\A w \in Workers : worker[w].at \notin {"fill call", "fill byte"})
    => first_bad \in bad

(* VERIFY_LIMIT is tested before a comparison and counted after it: what   *)
(* is exceeded is at most the comparisons other threads had under way.     *)
ComparisonsAreBounded == compared < VERIFY_LIMIT + Cardinality(Workers)
=============================================================================
