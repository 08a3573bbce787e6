---------------------------- MODULE MutexFirstUse ----------------------------
(***************************************************************************)
(* Box86 gives each mutex of the guest a native one the first time it is   *)
(* used (getAlignedMutexWithInit, as patch 03 leaves it).  The guest's     *)
(* words hold a signature, the object's own address and the native mutex;  *)
(* the signature is stored last, with release, and read first, with        *)
(* acquire, so that the words can be read without the table's lock.        *)
(*                                                                         *)
(* Guest threads lock, unlock, destroy, initialise and copy mutexes as     *)
(* POSIX lets them: nobody destroys or initialises a mutex in use, and a   *)
(* copy is used before it is destroyed.                                    *)
(***************************************************************************)
EXTENDS Naturals, FiniteSets

CONSTANTS Threads, Mutexes, Natives, None

MutexFirstUseAssumption == None \notin (Threads \cup Mutexes \cup Natives)

VARIABLES
    sign, self, mem,   \* the words of each guest mutex (k and m name one native)
    taken,             \* the natives in use
    table,             \* who holds mutex_mutexes
    holder,            \* who holds each native
    life,              \* each mutex: dead, initing, live, dying or freed
    pc, op, arg, got,  \* each thread's call: its step, kind, mutex and native
    hold, hnat         \* the mutex a thread holds, and the native it locked for it

words == <<sign, self, mem>>
call == <<pc, op, arg, got>>
vars == <<sign, self, mem, taken, table, holder, life, pc, op, arg, got, hold, hnat>>

Init ==
    /\ sign = [m \in Mutexes |-> FALSE] /\ self = [m \in Mutexes |-> None]
    /\ mem = [m \in Mutexes |-> None]
    /\ taken = {} /\ table = None /\ holder = [n \in Natives |-> None]
    /\ life = [m \in Mutexes |-> "live"]
    /\ pc = [t \in Threads |-> "idle"] /\ op = [t \in Threads |-> "lock"]
    /\ arg = [t \in Threads |-> None] /\ got = [t \in Threads |-> None]
    /\ hold = [t \in Threads |-> None] /\ hnat = [t \in Threads |-> None]

Published(m) == sign[m] /\ self[m] = m
InUse(m) == \E t \in Threads : (pc[t] # "idle" /\ arg[t] = m) \/ hold[t] = m

Go(t, step) == pc' = [pc EXCEPT ![t] = step]

\* A guest thread calls lock, unlock or init.
Call(t, m, o, step) ==
    /\ pc[t] = "idle"
    /\ Go(t, step)
    /\ op' = [op EXCEPT ![t] = o]
    /\ arg' = [arg EXCEPT ![t] = m]
    /\ UNCHANGED <<words, taken, table, holder, got, hold, hnat>>

CallLock(t, m) == life[m] = "live" /\ hold[t] = None /\ Call(t, m, "lock", "fast") /\ UNCHANGED life
CallUnlock(t, m) == hold[t] = m /\ Call(t, m, "unlock", "fast") /\ UNCHANGED life
CallInit(t, m) ==
    /\ life[m] = "dead" /\ Call(t, m, "init", "want")
    /\ life' = [life EXCEPT ![m] = "initing"]
CallDestroy(t, m) ==
    /\ life[m] = "live" /\ ~InUse(m) /\ hold[t] = None
    /\ sign[m] => self[m] = m
    /\ Call(t, m, "destroy", "check")
    /\ life' = [life EXCEPT ![m] = "dying"]

\* The guest's memory gets a static initialiser, or the bytes of another mutex.
Renew(m) ==
    /\ life[m] = "dead"
    /\ life' = [life EXCEPT ![m] = "live"]
    /\ UNCHANGED <<words, taken, table, holder, call, hold, hnat>>
Copy(a, b) ==
    /\ life[b] = "dead" /\ life[a] = "live" /\ Published(a)
    /\ life' = [life EXCEPT ![b] = "live"]
    /\ sign' = [sign EXCEPT ![b] = TRUE]
    /\ self' = [self EXCEPT ![b] = a]
    /\ mem' = [mem EXCEPT ![b] = mem[a]]
    /\ UNCHANGED <<taken, table, holder, call, hold, hnat>>

\* The check without the lock: signature, then the object's own address.
Fast(t) ==
    /\ pc[t] = "fast"
    /\ IF Published(arg[t]) THEN Go(t, "read") ELSE Go(t, "want")
    /\ UNCHANGED <<words, taken, table, holder, life, op, arg, got, hold, hnat>>
Read(t) ==
    /\ pc[t] = "read"
    /\ got' = [got EXCEPT ![t] = mem[arg[t]]]
    /\ Go(t, "use")
    /\ UNCHANGED <<words, taken, table, holder, life, op, arg, hold, hnat>>

Want(t) ==
    /\ pc[t] = "want" /\ table = None
    /\ table' = t /\ Go(t, "recheck")
    /\ UNCHANGED <<words, taken, holder, life, op, arg, got, hold, hnat>>

\* The check repeated under the lock; init always takes a new native.
Recheck(t) ==
    /\ pc[t] = "recheck"
    /\ IF op[t] # "init" /\ Published(arg[t])
       THEN /\ got' = [got EXCEPT ![t] = mem[arg[t]]]
            /\ table' = None /\ Go(t, "use")
       ELSE Go(t, "alloc") /\ UNCHANGED <<table, got>>
    /\ UNCHANGED <<words, taken, holder, life, op, arg, hold, hnat>>

\* Mutant: the lock is released once the native is allocated, as before patch 03.
AllocReleases(t) ==
    /\ pc[t] = "alloc"
    /\ \E n \in Natives \ taken :
         taken' = taken \cup {n} /\ got' = [got EXCEPT ![t] = n]
    /\ table' = None /\ Go(t, "fill")
    /\ UNCHANGED <<words, holder, life, op, arg, hold, hnat>>
\* NewMutexUnlocked.
Alloc(t) ==
    /\ pc[t] = "alloc"
    /\ \E n \in Natives \ taken :
         taken' = taken \cup {n} /\ got' = [got EXCEPT ![t] = n]
    /\ Go(t, "fill")
    /\ UNCHANGED <<words, table, holder, life, op, arg, hold, hnat>>

Fill(t) ==
    /\ pc[t] = "fill"
    /\ mem' = [mem EXCEPT ![arg[t]] = got[t]]
    /\ Go(t, "self")
    /\ UNCHANGED <<sign, self, taken, table, holder, life, op, arg, got, hold, hnat>>
SetSelf(t) ==
    /\ pc[t] = "self"
    /\ self' = [self EXCEPT ![arg[t]] = arg[t]]
    /\ Go(t, "publish")
    /\ UNCHANGED <<sign, mem, taken, table, holder, life, op, arg, got, hold, hnat>>
\* The signature, then the lock's release; the call goes on or, for init, returns.
Publish(t) ==
    /\ pc[t] = "publish"
    /\ sign' = [sign EXCEPT ![arg[t]] = TRUE]
    /\ table' = None
    /\ IF op[t] = "init"
       THEN Go(t, "idle") /\ life' = [life EXCEPT ![arg[t]] = "live"]
       ELSE Go(t, "use") /\ UNCHANGED life
    /\ UNCHANGED <<self, mem, taken, holder, op, arg, got, hold, hnat>>

\* pthread_mutex_lock and pthread_mutex_unlock of the native found.
LockNative(t) ==
    /\ pc[t] = "use" /\ op[t] = "lock" /\ holder[got[t]] = None
    /\ holder' = [holder EXCEPT ![got[t]] = t]
    /\ hold' = [hold EXCEPT ![t] = arg[t]] /\ hnat' = [hnat EXCEPT ![t] = got[t]]
    /\ Go(t, "idle")
    /\ UNCHANGED <<words, taken, table, life, op, arg, got>>
UnlockNative(t) ==
    /\ pc[t] = "use" /\ op[t] = "unlock"
    /\ holder' = [holder EXCEPT ![got[t]] = None]
    /\ hold' = [hold EXCEPT ![t] = None] /\ hnat' = [hnat EXCEPT ![t] = None]
    /\ Go(t, "idle")
    /\ UNCHANGED <<words, taken, table, life, op, arg, got>>

\* my_pthread_mutex_destroy: a mutex never used has no native.
CheckDestroy(t) ==
    /\ pc[t] = "check"
    /\ IF sign[arg[t]]
       THEN Go(t, "free") /\ UNCHANGED life
       ELSE Go(t, "idle") /\ life' = [life EXCEPT ![arg[t]] = "dead"]
    /\ UNCHANGED <<words, taken, table, holder, op, arg, got, hold, hnat>>
FreeNative(t) ==
    /\ pc[t] = "free" /\ table = None
    /\ taken' = taken \ {mem[arg[t]]}
    /\ life' = [life EXCEPT ![arg[t]] = "freed"]
    /\ Go(t, "clear")
    /\ UNCHANGED <<words, table, holder, op, arg, got, hold, hnat>>
\* Mutant: the signature stays.
ClearNot(t) ==
    /\ pc[t] = "clear"
    /\ life' = [life EXCEPT ![arg[t]] = "dead"]
    /\ Go(t, "idle")
    /\ UNCHANGED <<words, taken, table, holder, op, arg, got, hold, hnat>>
Clear(t) ==
    /\ pc[t] = "clear"
    /\ sign' = [sign EXCEPT ![arg[t]] = FALSE]
    /\ life' = [life EXCEPT ![arg[t]] = "dead"]
    /\ Go(t, "idle")
    /\ UNCHANGED <<self, mem, taken, table, holder, op, arg, got, hold, hnat>>

Step(t) == \/ Fast(t) \/ Read(t) \/ Want(t) \/ Recheck(t) \/ Alloc(t) \/ Fill(t) \/ SetSelf(t)
           \/ Publish(t) \/ LockNative(t) \/ UnlockNative(t)
           \/ CheckDestroy(t) \/ FreeNative(t) \/ Clear(t)
Guest(t, m) == CallLock(t, m) \/ CallUnlock(t, m) \/ CallInit(t, m) \/ CallDestroy(t, m)

Next ==
    \/ \E t \in Threads : Step(t)
    \/ \E t \in Threads, m \in Mutexes : Guest(t, m)
    \/ \E m \in Mutexes : Renew(m)
    \/ \E a, b \in Mutexes : Copy(a, b)

Spec == Init /\ [][Next]_vars

-----------------------------------------------------------------------------
Steps == {"idle", "fast", "read", "want", "recheck", "alloc", "fill", "self", "publish", "use",
          "check", "free", "clear"}

Creating == {"recheck", "alloc", "fill", "self", "publish"}

TypeOK ==
    /\ sign \in [Mutexes -> BOOLEAN] /\ self \in [Mutexes -> Mutexes \cup {None}]
    /\ mem \in [Mutexes -> Natives \cup {None}]
    /\ taken \subseteq Natives /\ table \in Threads \cup {None}
    /\ holder \in [Natives -> Threads \cup {None}]
    /\ life \in [Mutexes -> {"dead", "initing", "live", "dying", "freed"}]
    /\ pc \in [Threads -> Steps] /\ op \in [Threads -> {"lock", "unlock", "init", "destroy"}]
    /\ arg \in [Threads -> Mutexes \cup {None}] /\ got \in [Threads -> Natives \cup {None}]
    /\ hold \in [Threads -> Mutexes \cup {None}] /\ hnat \in [Threads -> Natives \cup {None}]
    /\ \A t \in Threads : (pc[t] \in Creating) <=> (table = t)

\* Two threads never hold one mutex of the guest.
MutualExclusion ==
    \A s, t \in Threads : (hold[s] # None /\ hold[s] = hold[t]) => s = t

\* A call to unlock reaches the native mutex that the thread locked.
UnlockIsOfTheLocked ==
    \A t \in Threads : pc[t] = "use" /\ op[t] = "unlock" => got[t] = hnat[t]

\* The mutexes whose native is theirs: published, and not yet given back.
Owner(m) == Published(m) /\ life[m] # "freed"

\* No native serves two mutexes, and none that is in use counts as free.
NativesAreNotShared ==
    /\ \A m \in Mutexes : Owner(m) => mem[m] \in taken
    /\ \A a, b \in Mutexes : Owner(a) /\ Owner(b) /\ mem[a] = mem[b] => a = b

\* With no call in progress, every native taken belongs to a mutex.
NothingLeaks ==
    (\A t \in Threads : pc[t] = "idle") => \A n \in taken : \E m \in Mutexes : Owner(m) /\ mem[m] = n
=============================================================================
