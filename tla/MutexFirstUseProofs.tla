------------------------ MODULE MutexFirstUseProofs ------------------------
(* The safety of first use for any number of threads, guest mutexes and     *)
(* native mutexes.                                                          *)
EXTENDS MutexFirstUse, TLAPS

Filling == {"fill", "self", "publish"}

\* A call in progress agrees with its mutex's life, and the calls that need
\* the mutex to themselves have it.
CallInv ==
    \A t \in Threads : pc[t] # "idle" =>
        /\ arg[t] \in Mutexes
        /\ op[t] \in {"lock", "unlock"} => life[arg[t]] = "live"
        /\ op[t] = "init" => life[arg[t]] = "initing" /\ pc[t] \in {"want"} \cup Creating
        /\ op[t] = "destroy" => /\ pc[t] \in {"check", "free", "clear"}
                                /\ life[arg[t]] = IF pc[t] = "clear" THEN "freed" ELSE "dying"
        /\ pc[t] \in {"check", "free", "clear"} => op[t] = "destroy"
        /\ op[t] = "unlock" => hold[t] = arg[t]
        /\ op[t] = "lock" => hold[t] = None
        /\ op[t] \in {"init", "destroy"} =>
              \A s \in Threads : pc[s] # "idle" /\ arg[s] = arg[t] => s = t

\* A mutex that is held is published, and its native is held by its holder.
HoldInv ==
    \A t \in Threads : hold[t] # None =>
        /\ hold[t] \in Mutexes /\ life[hold[t]] = "live" /\ Published(hold[t])
        /\ mem[hold[t]] \in Natives
        /\ hnat[t] = mem[hold[t]] /\ holder[mem[hold[t]]] = t

\* What a thread has established at each step of the way to a native.
WayInv ==
    /\ \A m \in Mutexes : life[m] \in {"dead", "initing"} => ~sign[m]
    /\ \A t \in Threads :
         /\ pc[t] = "read" => Published(arg[t])
         /\ pc[t] = "use" => Published(arg[t]) /\ got[t] = mem[arg[t]] /\ got[t] \in Natives
         /\ pc[t] \in {"alloc", "fill", "self"} => ~Published(arg[t])
         /\ pc[t] \in Filling =>
              got[t] \in taken /\ \A m \in Mutexes : Owner(m) /\ m # arg[t] => mem[m] # got[t]
         /\ pc[t] \in {"self", "publish"} => mem[arg[t]] = got[t]
         /\ pc[t] = "publish" => self[arg[t]] = arg[t]
         /\ pc[t] = "free" => Published(arg[t])
         /\ pc[t] = "check" => (sign[arg[t]] => self[arg[t]] = arg[t])

\* A native is taken for a mutex or by the thread that is about to publish it.
LeakInv ==
    \A n \in taken : \/ \E m \in Mutexes : Owner(m) /\ mem[m] = n
                    \/ \E t \in Threads : pc[t] \in Filling /\ got[t] = n

FirstUseInv == TypeOK /\ CallInv /\ HoldInv /\ WayInv /\ NativesAreNotShared /\ LeakInv

\* The inductive invariant holds when nothing has been used yet.
LEMMA InitInv ==
    ASSUME MutexFirstUseAssumption
    PROVE  Init => FirstUseInv
<1> SUFFICES ASSUME Init PROVE FirstUseInv
  OBVIOUS
<1>1. TypeOK
  BY DEF MutexFirstUseAssumption, Init, TypeOK, Steps, Creating
<1>2. CallInv /\ HoldInv /\ WayInv /\ NativesAreNotShared /\ LeakInv
  BY DEF Init, CallInv, HoldInv, WayInv, NativesAreNotShared, LeakInv, Owner, Published, Filling
<1> QED BY <1>1, <1>2 DEF FirstUseInv

\* Fast keeps the invariant.
LEMMA FastInv ==
    ASSUME MutexFirstUseAssumption, FirstUseInv, NEW t \in Threads, Fast(t)
    PROVE  FirstUseInv'
<1> USE DEF MutexFirstUseAssumption, FirstUseInv
<1>1. TypeOK'
  BY DEF Fast, Go, words, vars, TypeOK, CallInv, WayInv, Creating, Filling, Owner, Published, Steps
<1>2. CallInv'
  BY DEF Fast, Go, words, vars, TypeOK, CallInv, HoldInv, Creating, Published, Steps
<1>3. HoldInv'
  BY DEF Fast, Go, words, vars, TypeOK, CallInv, HoldInv, WayInv, NativesAreNotShared, Creating, Filling, Owner, Published, Steps
<1>4. WayInv'
  BY DEF Fast, Go, words, vars, TypeOK, CallInv, HoldInv, WayInv, NativesAreNotShared, Creating, Filling, Owner, Published, Steps
<1>5. NativesAreNotShared'
  BY DEF Fast, Go, words, vars, TypeOK, CallInv, WayInv, NativesAreNotShared, Creating, Filling, Owner, Published, Steps
<1>6. LeakInv'
  BY DEF Fast, Go, words, vars, TypeOK, CallInv, WayInv, NativesAreNotShared, LeakInv, Creating, Filling, Owner, Published, Steps
<1> QED BY <1>1, <1>2, <1>3, <1>4, <1>5, <1>6

\* Read keeps the invariant.
LEMMA ReadInv ==
    ASSUME MutexFirstUseAssumption, FirstUseInv, NEW t \in Threads, Read(t)
    PROVE  FirstUseInv'
<1> USE DEF MutexFirstUseAssumption, FirstUseInv
<1>1. TypeOK'
  BY DEF Read, Go, words, vars, TypeOK, CallInv, WayInv, Creating, Filling, Owner, Published, Steps
<1>2. CallInv'
  BY DEF Read, Go, words, vars, TypeOK, CallInv, HoldInv, Creating, Published, Steps
<1>3. HoldInv'
  BY DEF Read, Go, words, vars, TypeOK, CallInv, HoldInv, WayInv, NativesAreNotShared, Creating, Filling, Owner, Published, Steps
<1>4. WayInv'
  BY DEF Read, Go, words, vars, TypeOK, CallInv, HoldInv, WayInv, NativesAreNotShared, Creating, Filling, Owner, Published, Steps
<1>5. NativesAreNotShared'
  BY DEF Read, Go, words, vars, TypeOK, CallInv, WayInv, NativesAreNotShared, Creating, Filling, Owner, Published, Steps
<1>6. LeakInv'
  BY DEF Read, Go, words, vars, TypeOK, CallInv, WayInv, NativesAreNotShared, LeakInv, Creating, Filling, Owner, Published, Steps
<1> QED BY <1>1, <1>2, <1>3, <1>4, <1>5, <1>6

\* Want keeps the invariant.
LEMMA WantInv ==
    ASSUME MutexFirstUseAssumption, FirstUseInv, NEW t \in Threads, Want(t)
    PROVE  FirstUseInv'
<1> USE DEF MutexFirstUseAssumption, FirstUseInv
<1>1. TypeOK'
  BY DEF Want, Go, words, vars, TypeOK, CallInv, WayInv, Creating, Filling, Owner, Published, Steps
<1>2. CallInv'
  BY DEF Want, Go, words, vars, TypeOK, CallInv, HoldInv, Creating, Published, Steps
<1>3. HoldInv'
  BY DEF Want, Go, words, vars, TypeOK, CallInv, HoldInv, WayInv, NativesAreNotShared, Creating, Filling, Owner, Published, Steps
<1>4. WayInv'
  BY DEF Want, Go, words, vars, TypeOK, CallInv, HoldInv, WayInv, NativesAreNotShared, Creating, Filling, Owner, Published, Steps
<1>5. NativesAreNotShared'
  BY DEF Want, Go, words, vars, TypeOK, CallInv, WayInv, NativesAreNotShared, Creating, Filling, Owner, Published, Steps
<1>6. LeakInv'
  BY DEF Want, Go, words, vars, TypeOK, CallInv, WayInv, NativesAreNotShared, LeakInv, Creating, Filling, Owner, Published, Steps
<1> QED BY <1>1, <1>2, <1>3, <1>4, <1>5, <1>6

\* Recheck keeps the invariant.
LEMMA RecheckInv ==
    ASSUME MutexFirstUseAssumption, FirstUseInv, NEW t \in Threads, Recheck(t)
    PROVE  FirstUseInv'
<1> USE DEF MutexFirstUseAssumption, FirstUseInv
<1>1. TypeOK'
  BY DEF Recheck, Go, words, vars, TypeOK, CallInv, WayInv, Creating, Filling, Owner, Published, Steps
<1>2. CallInv'
  BY DEF Recheck, Go, words, vars, TypeOK, CallInv, HoldInv, Creating, Published, Steps
<1>3. HoldInv'
  BY DEF Recheck, Go, words, vars, TypeOK, CallInv, HoldInv, WayInv, NativesAreNotShared, Creating, Filling, Owner, Published, Steps
<1>4. WayInv'
  BY DEF Recheck, Go, words, vars, TypeOK, CallInv, HoldInv, WayInv, NativesAreNotShared, Creating, Filling, Owner, Published, Steps
<1>5. NativesAreNotShared'
  BY DEF Recheck, Go, words, vars, TypeOK, CallInv, WayInv, NativesAreNotShared, Creating, Filling, Owner, Published, Steps
<1>6. LeakInv'
  BY DEF Recheck, Go, words, vars, TypeOK, CallInv, WayInv, NativesAreNotShared, LeakInv, Creating, Filling, Owner, Published, Steps
<1> QED BY <1>1, <1>2, <1>3, <1>4, <1>5, <1>6

\* Alloc keeps the invariant.
LEMMA AllocInv ==
    ASSUME MutexFirstUseAssumption, FirstUseInv, NEW t \in Threads, Alloc(t)
    PROVE  FirstUseInv'
<1> USE DEF MutexFirstUseAssumption, FirstUseInv
<1>1. TypeOK'
  BY DEF Alloc, Go, words, vars, TypeOK, CallInv, WayInv, Creating, Filling, Owner, Published, Steps
<1>2. CallInv'
  BY DEF Alloc, Go, words, vars, TypeOK, CallInv, HoldInv, Creating, Published, Steps
<1>3. HoldInv'
  BY DEF Alloc, Go, words, vars, TypeOK, CallInv, HoldInv, WayInv, NativesAreNotShared, Creating, Filling, Owner, Published, Steps
<1>4. WayInv'
  BY DEF Alloc, Go, words, vars, TypeOK, CallInv, HoldInv, WayInv, NativesAreNotShared, Creating, Filling, Owner, Published, Steps
<1>5. NativesAreNotShared'
  BY DEF Alloc, Go, words, vars, TypeOK, CallInv, WayInv, NativesAreNotShared, Creating, Filling, Owner, Published, Steps
<1>6. LeakInv'
  BY DEF Alloc, Go, words, vars, TypeOK, CallInv, WayInv, NativesAreNotShared, LeakInv, Creating, Filling, Owner, Published, Steps
<1> QED BY <1>1, <1>2, <1>3, <1>4, <1>5, <1>6

\* Fill keeps the invariant.
LEMMA FillInv ==
    ASSUME MutexFirstUseAssumption, FirstUseInv, NEW t \in Threads, Fill(t)
    PROVE  FirstUseInv'
<1> USE DEF MutexFirstUseAssumption, FirstUseInv
<1>1. TypeOK'
  BY DEF Fill, Go, words, vars, TypeOK, CallInv, WayInv, Creating, Filling, Owner, Published, Steps
<1>2. CallInv'
  BY DEF Fill, Go, words, vars, TypeOK, CallInv, HoldInv, Creating, Published, Steps
<1>3. HoldInv'
  BY DEF Fill, Go, words, vars, TypeOK, CallInv, HoldInv, WayInv, NativesAreNotShared, Creating, Filling, Owner, Published, Steps
<1>4. WayInv'
  BY DEF Fill, Go, words, vars, TypeOK, CallInv, HoldInv, WayInv, NativesAreNotShared, Creating, Filling, Owner, Published, Steps
<1>5. NativesAreNotShared'
  BY DEF Fill, Go, words, vars, TypeOK, CallInv, WayInv, NativesAreNotShared, Creating, Filling, Owner, Published, Steps
<1>6. LeakInv'
  BY DEF Fill, Go, words, vars, TypeOK, CallInv, WayInv, NativesAreNotShared, LeakInv, Creating, Filling, Owner, Published, Steps
<1> QED BY <1>1, <1>2, <1>3, <1>4, <1>5, <1>6

\* SetSelf keeps the invariant.
LEMMA SetSelfInv ==
    ASSUME MutexFirstUseAssumption, FirstUseInv, NEW t \in Threads, SetSelf(t)
    PROVE  FirstUseInv'
<1> USE DEF MutexFirstUseAssumption, FirstUseInv
<1>1. TypeOK'
  BY DEF SetSelf, Go, words, vars, TypeOK, CallInv, WayInv, Creating, Filling, Owner, Published, Steps
<1>2. CallInv'
  BY DEF SetSelf, Go, words, vars, TypeOK, CallInv, HoldInv, Creating, Published, Steps
<1>3. HoldInv'
  BY DEF SetSelf, Go, words, vars, TypeOK, CallInv, HoldInv, WayInv, NativesAreNotShared, Creating, Filling, Owner, Published, Steps
<1>4. WayInv'
  BY DEF SetSelf, Go, words, vars, TypeOK, CallInv, HoldInv, WayInv, NativesAreNotShared, Creating, Filling, Owner, Published, Steps
<1>5. NativesAreNotShared'
  BY DEF SetSelf, Go, words, vars, TypeOK, CallInv, WayInv, NativesAreNotShared, Creating, Filling, Owner, Published, Steps
<1>6. LeakInv'
  BY DEF SetSelf, Go, words, vars, TypeOK, CallInv, WayInv, NativesAreNotShared, LeakInv, Creating, Filling, Owner, Published, Steps
<1> QED BY <1>1, <1>2, <1>3, <1>4, <1>5, <1>6

\* Publish keeps the invariant.
LEMMA PublishInv ==
    ASSUME MutexFirstUseAssumption, FirstUseInv, NEW t \in Threads, Publish(t)
    PROVE  FirstUseInv'
<1> USE DEF MutexFirstUseAssumption, FirstUseInv
<1>1. TypeOK'
  BY DEF Publish, Go, words, vars, TypeOK, CallInv, WayInv, Creating, Filling, Owner, Published, Steps
<1>2. CallInv'
  BY DEF Publish, Go, words, vars, TypeOK, CallInv, HoldInv, Creating, Published, Steps
<1>3. HoldInv'
  BY DEF Publish, Go, words, vars, TypeOK, CallInv, HoldInv, WayInv, NativesAreNotShared, Creating, Filling, Owner, Published, Steps
<1>4. WayInv'
  BY DEF Publish, Go, words, vars, TypeOK, CallInv, HoldInv, WayInv, NativesAreNotShared, Creating, Filling, Owner, Published, Steps
<1>5. NativesAreNotShared'
  BY DEF Publish, Go, words, vars, TypeOK, CallInv, WayInv, NativesAreNotShared, Creating, Filling, Owner, Published, Steps
<1>6. LeakInv'
  BY DEF Publish, Go, words, vars, TypeOK, CallInv, WayInv, NativesAreNotShared, LeakInv, Creating, Filling, Owner, Published, Steps
<1> QED BY <1>1, <1>2, <1>3, <1>4, <1>5, <1>6

\* LockNative keeps the invariant.
LEMMA LockNativeInv ==
    ASSUME MutexFirstUseAssumption, FirstUseInv, NEW t \in Threads, LockNative(t)
    PROVE  FirstUseInv'
<1> USE DEF MutexFirstUseAssumption, FirstUseInv
<1>1. TypeOK'
  BY DEF LockNative, Go, words, vars, TypeOK, CallInv, WayInv, Creating, Filling, Owner, Published, Steps
<1>2. CallInv'
  BY DEF LockNative, Go, words, vars, TypeOK, CallInv, HoldInv, Creating, Published, Steps
<1>3. HoldInv'
  BY DEF LockNative, Go, words, vars, TypeOK, CallInv, HoldInv, WayInv, NativesAreNotShared, Creating, Filling, Owner, Published, Steps
<1>4. WayInv'
  BY DEF LockNative, Go, words, vars, TypeOK, CallInv, HoldInv, WayInv, NativesAreNotShared, Creating, Filling, Owner, Published, Steps
<1>5. NativesAreNotShared'
  BY DEF LockNative, Go, words, vars, TypeOK, CallInv, WayInv, NativesAreNotShared, Creating, Filling, Owner, Published, Steps
<1>6. LeakInv'
  BY DEF LockNative, Go, words, vars, TypeOK, CallInv, WayInv, NativesAreNotShared, LeakInv, Creating, Filling, Owner, Published, Steps
<1> QED BY <1>1, <1>2, <1>3, <1>4, <1>5, <1>6

\* UnlockNative keeps the invariant.
LEMMA UnlockNativeInv ==
    ASSUME MutexFirstUseAssumption, FirstUseInv, NEW t \in Threads, UnlockNative(t)
    PROVE  FirstUseInv'
<1> USE DEF MutexFirstUseAssumption, FirstUseInv
<1>1. TypeOK'
  BY DEF UnlockNative, Go, words, vars, TypeOK, CallInv, WayInv, Creating, Filling, Owner, Published, Steps
<1>2. CallInv'
  BY DEF UnlockNative, Go, words, vars, TypeOK, CallInv, HoldInv, Creating, Published, Steps
<1>3. HoldInv'
  BY DEF UnlockNative, Go, words, vars, TypeOK, CallInv, HoldInv, WayInv, NativesAreNotShared, Creating, Filling, Owner, Published, Steps
<1>4. WayInv'
  BY DEF UnlockNative, Go, words, vars, TypeOK, CallInv, HoldInv, WayInv, NativesAreNotShared, Creating, Filling, Owner, Published, Steps
<1>5. NativesAreNotShared'
  BY DEF UnlockNative, Go, words, vars, TypeOK, CallInv, WayInv, NativesAreNotShared, Creating, Filling, Owner, Published, Steps
<1>6. LeakInv'
  BY DEF UnlockNative, Go, words, vars, TypeOK, CallInv, WayInv, NativesAreNotShared, LeakInv, Creating, Filling, Owner, Published, Steps
<1> QED BY <1>1, <1>2, <1>3, <1>4, <1>5, <1>6

\* CheckDestroy keeps the invariant.
LEMMA CheckDestroyInv ==
    ASSUME MutexFirstUseAssumption, FirstUseInv, NEW t \in Threads, CheckDestroy(t)
    PROVE  FirstUseInv'
<1> USE DEF MutexFirstUseAssumption, FirstUseInv
<1>1. TypeOK'
  BY DEF CheckDestroy, Go, words, vars, TypeOK, CallInv, WayInv, Creating, Filling, Owner, Published, Steps
<1>2. CallInv'
  BY DEF CheckDestroy, Go, words, vars, TypeOK, CallInv, HoldInv, Creating, Published, Steps
<1>3. HoldInv'
  BY DEF CheckDestroy, Go, words, vars, TypeOK, CallInv, HoldInv, WayInv, NativesAreNotShared, Creating, Filling, Owner, Published, Steps
<1>4. WayInv'
  BY DEF CheckDestroy, Go, words, vars, TypeOK, CallInv, HoldInv, WayInv, NativesAreNotShared, Creating, Filling, Owner, Published, Steps
<1>5. NativesAreNotShared'
  BY DEF CheckDestroy, Go, words, vars, TypeOK, CallInv, WayInv, NativesAreNotShared, Creating, Filling, Owner, Published, Steps
<1>6. LeakInv'
  BY DEF CheckDestroy, Go, words, vars, TypeOK, CallInv, WayInv, NativesAreNotShared, LeakInv, Creating, Filling, Owner, Published, Steps
<1> QED BY <1>1, <1>2, <1>3, <1>4, <1>5, <1>6

\* FreeNative keeps the invariant.
LEMMA FreeNativeInv ==
    ASSUME MutexFirstUseAssumption, FirstUseInv, NEW t \in Threads, FreeNative(t)
    PROVE  FirstUseInv'
<1> USE DEF MutexFirstUseAssumption, FirstUseInv
<1>1. TypeOK'
  BY DEF FreeNative, Go, words, vars, TypeOK, CallInv, WayInv, Creating, Filling, Owner, Published, Steps
<1>2. CallInv'
  BY DEF FreeNative, Go, words, vars, TypeOK, CallInv, HoldInv, Creating, Published, Steps
<1>3. HoldInv'
  BY DEF FreeNative, Go, words, vars, TypeOK, CallInv, HoldInv, WayInv, NativesAreNotShared, Creating, Filling, Owner, Published, Steps
<1>4. WayInv'
  BY DEF FreeNative, Go, words, vars, TypeOK, CallInv, HoldInv, WayInv, NativesAreNotShared, Creating, Filling, Owner, Published, Steps
<1>5. NativesAreNotShared'
  BY DEF FreeNative, Go, words, vars, TypeOK, CallInv, WayInv, NativesAreNotShared, Creating, Filling, Owner, Published, Steps
<1>6. LeakInv'
  BY DEF FreeNative, Go, words, vars, TypeOK, CallInv, WayInv, NativesAreNotShared, LeakInv, Creating, Filling, Owner, Published, Steps
<1> QED BY <1>1, <1>2, <1>3, <1>4, <1>5, <1>6

\* Clear keeps the invariant.
LEMMA ClearInv ==
    ASSUME MutexFirstUseAssumption, FirstUseInv, NEW t \in Threads, Clear(t)
    PROVE  FirstUseInv'
<1> USE DEF MutexFirstUseAssumption, FirstUseInv
<1>1. TypeOK'
  BY DEF Clear, Go, words, vars, TypeOK, CallInv, WayInv, Creating, Filling, Owner, Published, Steps
<1>2. CallInv'
  BY DEF Clear, Go, words, vars, TypeOK, CallInv, HoldInv, Creating, Published, Steps
<1>3. HoldInv'
  BY DEF Clear, Go, words, vars, TypeOK, CallInv, HoldInv, WayInv, NativesAreNotShared, Creating, Filling, Owner, Published, Steps
<1>4. WayInv'
  BY DEF Clear, Go, words, vars, TypeOK, CallInv, HoldInv, WayInv, NativesAreNotShared, Creating, Filling, Owner, Published, Steps
<1>5. NativesAreNotShared'
  BY DEF Clear, Go, words, vars, TypeOK, CallInv, WayInv, NativesAreNotShared, Creating, Filling, Owner, Published, Steps
<1>6. LeakInv'
  BY DEF Clear, Go, words, vars, TypeOK, CallInv, WayInv, NativesAreNotShared, LeakInv, Creating, Filling, Owner, Published, Steps
<1> QED BY <1>1, <1>2, <1>3, <1>4, <1>5, <1>6

\* CallLock keeps the invariant.
LEMMA CallLockInv ==
    ASSUME MutexFirstUseAssumption, FirstUseInv, NEW t \in Threads, NEW m \in Mutexes, CallLock(t, m)
    PROVE  FirstUseInv'
<1> USE DEF MutexFirstUseAssumption, FirstUseInv
<1>1. TypeOK'
  BY DEF CallLock, Call, Go, InUse, words, TypeOK, CallInv, WayInv, Creating, Filling, Owner, Published, Steps
<1>2. CallInv'
  BY DEF CallLock, Call, Go, InUse, words, TypeOK, CallInv, HoldInv, Creating, Published, Steps
<1>3. HoldInv'
  BY DEF CallLock, Call, Go, InUse, words, TypeOK, CallInv, HoldInv, WayInv, NativesAreNotShared, Creating, Filling, Owner, Published, Steps
<1>4. WayInv'
  BY DEF CallLock, Call, Go, InUse, words, TypeOK, CallInv, HoldInv, WayInv, NativesAreNotShared, Creating, Filling, Owner, Published, Steps
<1>5. NativesAreNotShared'
  BY DEF CallLock, Call, Go, InUse, words, TypeOK, CallInv, WayInv, NativesAreNotShared, Creating, Filling, Owner, Published, Steps
<1>6. LeakInv'
  BY DEF CallLock, Call, Go, InUse, words, TypeOK, CallInv, WayInv, NativesAreNotShared, LeakInv, Creating, Filling, Owner, Published, Steps
<1> QED BY <1>1, <1>2, <1>3, <1>4, <1>5, <1>6

\* CallUnlock keeps the invariant.
LEMMA CallUnlockInv ==
    ASSUME MutexFirstUseAssumption, FirstUseInv, NEW t \in Threads, NEW m \in Mutexes, CallUnlock(t, m)
    PROVE  FirstUseInv'
<1> USE DEF MutexFirstUseAssumption, FirstUseInv
<1>1. TypeOK'
  BY DEF CallUnlock, Call, Go, InUse, words, TypeOK, CallInv, WayInv, Creating, Filling, Owner, Published, Steps
<1>2. CallInv'
  BY DEF CallUnlock, Call, Go, InUse, words, TypeOK, CallInv, HoldInv, Creating, Published, Steps
<1>3. HoldInv'
  BY DEF CallUnlock, Call, Go, InUse, words, TypeOK, CallInv, HoldInv, WayInv, NativesAreNotShared, Creating, Filling, Owner, Published, Steps
<1>4. WayInv'
  BY DEF CallUnlock, Call, Go, InUse, words, TypeOK, CallInv, HoldInv, WayInv, NativesAreNotShared, Creating, Filling, Owner, Published, Steps
<1>5. NativesAreNotShared'
  BY DEF CallUnlock, Call, Go, InUse, words, TypeOK, CallInv, WayInv, NativesAreNotShared, Creating, Filling, Owner, Published, Steps
<1>6. LeakInv'
  BY DEF CallUnlock, Call, Go, InUse, words, TypeOK, CallInv, WayInv, NativesAreNotShared, LeakInv, Creating, Filling, Owner, Published, Steps
<1> QED BY <1>1, <1>2, <1>3, <1>4, <1>5, <1>6

\* CallInit keeps the invariant.
LEMMA CallInitInv ==
    ASSUME MutexFirstUseAssumption, FirstUseInv, NEW t \in Threads, NEW m \in Mutexes, CallInit(t, m)
    PROVE  FirstUseInv'
<1> USE DEF MutexFirstUseAssumption, FirstUseInv
<1>1. TypeOK'
  BY DEF CallInit, Call, Go, InUse, words, TypeOK, CallInv, WayInv, Creating, Filling, Owner, Published, Steps
<1>2. CallInv'
  BY DEF CallInit, Call, Go, InUse, words, TypeOK, CallInv, HoldInv, Creating, Published, Steps
<1>3. HoldInv'
  BY DEF CallInit, Call, Go, InUse, words, TypeOK, CallInv, HoldInv, WayInv, NativesAreNotShared, Creating, Filling, Owner, Published, Steps
<1>4. WayInv'
  BY DEF CallInit, Call, Go, InUse, words, TypeOK, CallInv, HoldInv, WayInv, NativesAreNotShared, Creating, Filling, Owner, Published, Steps
<1>5. NativesAreNotShared'
  BY DEF CallInit, Call, Go, InUse, words, TypeOK, CallInv, WayInv, NativesAreNotShared, Creating, Filling, Owner, Published, Steps
<1>6. LeakInv'
  BY DEF CallInit, Call, Go, InUse, words, TypeOK, CallInv, WayInv, NativesAreNotShared, LeakInv, Creating, Filling, Owner, Published, Steps
<1> QED BY <1>1, <1>2, <1>3, <1>4, <1>5, <1>6

\* CallDestroy keeps the invariant.
LEMMA CallDestroyInv ==
    ASSUME MutexFirstUseAssumption, FirstUseInv, NEW t \in Threads, NEW m \in Mutexes, CallDestroy(t, m)
    PROVE  FirstUseInv'
<1> USE DEF MutexFirstUseAssumption, FirstUseInv
<1>1. TypeOK'
  BY DEF CallDestroy, Call, Go, InUse, words, TypeOK, CallInv, WayInv, Creating, Filling, Owner, Published, Steps
<1>2. CallInv'
  BY DEF CallDestroy, Call, Go, InUse, words, TypeOK, CallInv, HoldInv, Creating, Published, Steps
<1>3. HoldInv'
  BY DEF CallDestroy, Call, Go, InUse, words, TypeOK, CallInv, HoldInv, WayInv, NativesAreNotShared, Creating, Filling, Owner, Published, Steps
<1>4. WayInv'
  BY DEF CallDestroy, Call, Go, InUse, words, TypeOK, CallInv, HoldInv, WayInv, NativesAreNotShared, Creating, Filling, Owner, Published, Steps
<1>5. NativesAreNotShared'
  BY DEF CallDestroy, Call, Go, InUse, words, TypeOK, CallInv, WayInv, NativesAreNotShared, Creating, Filling, Owner, Published, Steps
<1>6. LeakInv'
  BY DEF CallDestroy, Call, Go, InUse, words, TypeOK, CallInv, WayInv, NativesAreNotShared, LeakInv, Creating, Filling, Owner, Published, Steps
<1> QED BY <1>1, <1>2, <1>3, <1>4, <1>5, <1>6

\* Renew keeps the invariant.
LEMMA RenewInv ==
    ASSUME MutexFirstUseAssumption, FirstUseInv, NEW m \in Mutexes, Renew(m)
    PROVE  FirstUseInv'
<1> USE DEF MutexFirstUseAssumption, FirstUseInv
<1>1. TypeOK'
  BY DEF Renew, words, call, TypeOK, CallInv, WayInv, Creating, Filling, Owner, Published, Steps
<1>2. CallInv'
  BY DEF Renew, words, call, TypeOK, CallInv, HoldInv, Creating, Published, Steps
<1>3. HoldInv'
  BY DEF Renew, words, call, TypeOK, CallInv, HoldInv, WayInv, NativesAreNotShared, Creating, Filling, Owner, Published, Steps
<1>4. WayInv'
  BY DEF Renew, words, call, TypeOK, CallInv, HoldInv, WayInv, NativesAreNotShared, Creating, Filling, Owner, Published, Steps
<1>5. NativesAreNotShared'
  BY DEF Renew, words, call, TypeOK, CallInv, WayInv, NativesAreNotShared, Creating, Filling, Owner, Published, Steps
<1>6. LeakInv'
  BY DEF Renew, words, call, TypeOK, CallInv, WayInv, NativesAreNotShared, LeakInv, Creating, Filling, Owner, Published, Steps
<1> QED BY <1>1, <1>2, <1>3, <1>4, <1>5, <1>6

\* Copy keeps the invariant.
LEMMA CopyInv ==
    ASSUME MutexFirstUseAssumption, FirstUseInv, NEW a \in Mutexes, NEW b \in Mutexes, Copy(a, b)
    PROVE  FirstUseInv'
<1> USE DEF MutexFirstUseAssumption, FirstUseInv
<1>1. TypeOK'
  BY DEF Copy, call, TypeOK, CallInv, WayInv, Creating, Filling, Owner, Published, Steps
<1>2. CallInv'
  BY DEF Copy, call, TypeOK, CallInv, HoldInv, Creating, Published, Steps
<1>3. HoldInv'
  BY DEF Copy, call, TypeOK, CallInv, HoldInv, WayInv, NativesAreNotShared, Creating, Filling, Owner, Published, Steps
<1>4. WayInv'
  BY DEF Copy, call, TypeOK, CallInv, HoldInv, WayInv, NativesAreNotShared, Creating, Filling, Owner, Published, Steps
<1>5. NativesAreNotShared'
  BY DEF Copy, call, TypeOK, CallInv, WayInv, NativesAreNotShared, Creating, Filling, Owner, Published, Steps
<1>6. LeakInv'
  BY DEF Copy, call, TypeOK, CallInv, WayInv, NativesAreNotShared, LeakInv, Creating, Filling, Owner, Published, Steps
<1> QED BY <1>1, <1>2, <1>3, <1>4, <1>5, <1>6

\* No step of a thread, a call or the guest's memory breaks the invariant.
LEMMA NextInv ==
    ASSUME MutexFirstUseAssumption
    PROVE  FirstUseInv /\ [Next]_vars => FirstUseInv'
<1> SUFFICES ASSUME FirstUseInv, [Next]_vars PROVE FirstUseInv'
  OBVIOUS
<1>1. ASSUME NEW t \in Threads, Step(t) PROVE FirstUseInv'
  BY <1>1, FastInv, ReadInv, WantInv, RecheckInv, AllocInv, FillInv, SetSelfInv, PublishInv, LockNativeInv, UnlockNativeInv, CheckDestroyInv, FreeNativeInv, ClearInv DEF Step
<1>2. ASSUME NEW t \in Threads, NEW m \in Mutexes, Guest(t, m) PROVE FirstUseInv'
  BY <1>2, CallLockInv, CallUnlockInv, CallInitInv, CallDestroyInv DEF Guest
<1>3. ASSUME NEW m \in Mutexes, Renew(m) PROVE FirstUseInv'
  BY <1>3, RenewInv
<1>4. ASSUME NEW a \in Mutexes, NEW b \in Mutexes, Copy(a, b) PROVE FirstUseInv'
  BY <1>4, CopyInv
<1>5. CASE UNCHANGED vars
  BY <1>5 DEF vars, FirstUseInv, TypeOK, CallInv, HoldInv, WayInv, NativesAreNotShared, LeakInv, Owner, Published
<1> QED BY <1>1, <1>2, <1>3, <1>4, <1>5 DEF Next

\* The inductive invariant holds throughout.
THEOREM SpecInv ==
    ASSUME MutexFirstUseAssumption
    PROVE  Spec => []FirstUseInv
BY InitInv, NextInv, PTL DEF Spec

\* The words, the pool and the calls stay well formed, and the threads between
\* the check under the lock and the signature's store are those that hold it.
THEOREM SpecTypeOK ==
    ASSUME MutexFirstUseAssumption
    PROVE  Spec => []TypeOK
<1>1. FirstUseInv => TypeOK
  BY DEF MutexFirstUseAssumption, FirstUseInv
<1> QED BY <1>1, SpecInv, PTL

\* Whatever the order of first uses, initialisations, destructions and copies,
\* two threads never hold one mutex of the guest (my_pthread_mutex_lock).
THEOREM SpecMutualExclusion ==
    ASSUME MutexFirstUseAssumption
    PROVE  Spec => []MutualExclusion
<1>1. FirstUseInv => MutualExclusion
  BY DEF MutexFirstUseAssumption, FirstUseInv, HoldInv, MutualExclusion, TypeOK
<1> QED BY <1>1, SpecInv, PTL

\* A call to unlock reaches the native mutex its thread locked
\* (my_pthread_mutex_unlock).
THEOREM SpecUnlockIsOfTheLocked ==
    ASSUME MutexFirstUseAssumption
    PROVE  Spec => []UnlockIsOfTheLocked
<1>1. FirstUseInv => UnlockIsOfTheLocked
  BY DEF MutexFirstUseAssumption, FirstUseInv, CallInv, HoldInv, WayInv, UnlockIsOfTheLocked, TypeOK
<1> QED BY <1>1, SpecInv, PTL

\* No native serves two mutexes of the guest and none in use counts as free
\* (NewMutexUnlocked, FreeMutex).
THEOREM SpecNativesAreNotShared ==
    ASSUME MutexFirstUseAssumption
    PROVE  Spec => []NativesAreNotShared
<1>1. FirstUseInv => NativesAreNotShared
  BY DEF MutexFirstUseAssumption, FirstUseInv
<1> QED BY <1>1, SpecInv, PTL

\* Once no call is in progress every native taken belongs to a mutex
\* (getAlignedMutexWithInit).
THEOREM SpecNothingLeaks ==
    ASSUME MutexFirstUseAssumption
    PROVE  Spec => []NothingLeaks
<1>1. FirstUseInv => NothingLeaks
  BY DEF MutexFirstUseAssumption, FirstUseInv, LeakInv, NothingLeaks, Filling
<1> QED BY <1>1, SpecInv, PTL

=============================================================================
