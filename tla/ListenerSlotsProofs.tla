------------------------ MODULE ListenerSlotsProofs ------------------------
(* The safety of the listener registry for any number of threads, proxies,  *)
(* tables and slots.                                                        *)
EXTENDS ListenerSlots, TLAPS

\* What a call has established at each of its steps.
CallInv ==
    \A t \in Threads :
        /\ pc[t] # "idle" => /\ proxy[t] \in Proxies /\ fct[t] \in Tables
                             /\ want[proxy[t]] = fct[t]
        /\ pc[t] = "publish" => /\ slot[t] \in Slots /\ ref[slot[t]] = None
                                /\ \A s \in Slots : ref[s] # fct[t]
        /\ pc[t] \in {"leave", "register"} => slot[t] \in Slots /\ ref[slot[t]] = fct[t]
        /\ pc[t] = "register" => view[slot[t]] = fct[t]
        /\ pc[t] \in {"refuse", "refused"} => \A s \in Slots : ref[s] \notin {None, fct[t]}

\* A registered proxy's slot holds its table, and the dispatcher sees it there.
ProxyInv ==
    /\ \A s \in Slots : view[s] \in {None, ref[s]}
    /\ \A p \in Proxies : impl[p] # None =>
         /\ want[p] \in Tables
         /\ ref[impl[p]] = want[p] /\ view[impl[p]] = want[p]
    /\ called[1] # None => want[called[1]] # None

SlotsInv == /\ TypeOK /\ CallInv /\ ProxyInv /\ DispatchReachesItsTable /\ OneSlotPerTable

\* The invariant holds of an empty registry.
LEMMA InitInv ==
    ASSUME ListenerSlotsAssumption
    PROVE  Init => SlotsInv
BY DEF ListenerSlotsAssumption, Init, SlotsInv, TypeOK, CallInv, ProxyInv, DispatchReachesItsTable, OneSlotPerTable, Inside, Slots

\* AddListener keeps the invariant.
LEMMA AddListenerInv ==
    ASSUME ListenerSlotsAssumption, SlotsInv, NEW t \in Threads, NEW p \in Proxies, NEW f \in Tables, AddListener(t, p, f)
    PROVE  SlotsInv'
<1> USE DEF ListenerSlotsAssumption, SlotsInv
<1>1. TypeOK'
  BY DEF AddListener, Go, Mine, Free, TypeOK, CallInv, ProxyInv, DispatchReachesItsTable, OneSlotPerTable, Inside
<1>2. CallInv'
  BY DEF AddListener, Go, Mine, Free, TypeOK, CallInv, ProxyInv, DispatchReachesItsTable, OneSlotPerTable, Inside
<1>3. ProxyInv'
  BY DEF AddListener, Go, Mine, Free, TypeOK, CallInv, ProxyInv, DispatchReachesItsTable, OneSlotPerTable, Inside
<1>4. DispatchReachesItsTable'
  BY DEF AddListener, Go, Mine, Free, TypeOK, CallInv, ProxyInv, DispatchReachesItsTable, OneSlotPerTable, Inside
<1>5. OneSlotPerTable'
  BY DEF AddListener, Go, Mine, Free, TypeOK, CallInv, ProxyInv, DispatchReachesItsTable, OneSlotPerTable, Inside
<1> QED BY <1>1, <1>2, <1>3, <1>4, <1>5

\* Enter keeps the invariant.
LEMMA EnterInv ==
    ASSUME ListenerSlotsAssumption, SlotsInv, NEW t \in Threads, Enter(t)
    PROVE  SlotsInv'
<1> USE DEF ListenerSlotsAssumption, SlotsInv
<1>1. TypeOK'
  BY DEF Enter, Go, Mine, Free, TypeOK, CallInv, ProxyInv, DispatchReachesItsTable, OneSlotPerTable, Inside
<1>2. CallInv'
  BY DEF Enter, Go, Mine, Free, TypeOK, CallInv, ProxyInv, DispatchReachesItsTable, OneSlotPerTable, Inside
<1>3. ProxyInv'
  BY DEF Enter, Go, Mine, Free, TypeOK, CallInv, ProxyInv, DispatchReachesItsTable, OneSlotPerTable, Inside
<1>4. DispatchReachesItsTable'
  BY DEF Enter, Go, Mine, Free, TypeOK, CallInv, ProxyInv, DispatchReachesItsTable, OneSlotPerTable, Inside
<1>5. OneSlotPerTable'
  BY DEF Enter, Go, Mine, Free, TypeOK, CallInv, ProxyInv, DispatchReachesItsTable, OneSlotPerTable, Inside
<1> QED BY <1>1, <1>2, <1>3, <1>4, <1>5

\* Find keeps the invariant.
LEMMA FindInv ==
    ASSUME ListenerSlotsAssumption, SlotsInv, NEW t \in Threads, Find(t)
    PROVE  SlotsInv'
<1> USE DEF ListenerSlotsAssumption, SlotsInv
<1>1. TypeOK'
  BY DEF Find, Go, Mine, Free, TypeOK, CallInv, ProxyInv, DispatchReachesItsTable, OneSlotPerTable, Inside
<1>2. CallInv'
  BY DEF Find, Go, Mine, Free, TypeOK, CallInv, ProxyInv, DispatchReachesItsTable, OneSlotPerTable, Inside
<1>3. ProxyInv'
  BY DEF Find, Go, Mine, Free, TypeOK, CallInv, ProxyInv, DispatchReachesItsTable, OneSlotPerTable, Inside
<1>4. DispatchReachesItsTable'
  BY DEF Find, Go, Mine, Free, TypeOK, CallInv, ProxyInv, DispatchReachesItsTable, OneSlotPerTable, Inside
<1>5. OneSlotPerTable'
  BY DEF Find, Go, Mine, Free, TypeOK, CallInv, ProxyInv, DispatchReachesItsTable, OneSlotPerTable, Inside
<1> QED BY <1>1, <1>2, <1>3, <1>4, <1>5

\* Publish keeps the invariant.
LEMMA PublishInv ==
    ASSUME ListenerSlotsAssumption, SlotsInv, NEW t \in Threads, Publish(t)
    PROVE  SlotsInv'
<1> USE DEF ListenerSlotsAssumption, SlotsInv
<1>1. TypeOK'
  BY DEF Publish, Go, Mine, Free, TypeOK, CallInv, ProxyInv, DispatchReachesItsTable, OneSlotPerTable, Inside
<1>2. CallInv'
  BY DEF Publish, Go, Mine, Free, TypeOK, CallInv, ProxyInv, DispatchReachesItsTable, OneSlotPerTable, Inside
<1>3. ProxyInv'
  BY DEF Publish, Go, Mine, Free, TypeOK, CallInv, ProxyInv, DispatchReachesItsTable, OneSlotPerTable, Inside
<1>4. DispatchReachesItsTable'
  BY DEF Publish, Go, Mine, Free, TypeOK, CallInv, ProxyInv, DispatchReachesItsTable, OneSlotPerTable, Inside
<1>5. OneSlotPerTable'
  BY DEF Publish, Go, Mine, Free, TypeOK, CallInv, ProxyInv, DispatchReachesItsTable, OneSlotPerTable, Inside
<1> QED BY <1>1, <1>2, <1>3, <1>4, <1>5

\* Leave keeps the invariant.
LEMMA LeaveInv ==
    ASSUME ListenerSlotsAssumption, SlotsInv, NEW t \in Threads, Leave(t)
    PROVE  SlotsInv'
<1> USE DEF ListenerSlotsAssumption, SlotsInv
<1>1. TypeOK'
  BY DEF Leave, Go, Mine, Free, TypeOK, CallInv, ProxyInv, DispatchReachesItsTable, OneSlotPerTable, Inside
<1>2. CallInv'
  BY DEF Leave, Go, Mine, Free, TypeOK, CallInv, ProxyInv, DispatchReachesItsTable, OneSlotPerTable, Inside
<1>3. ProxyInv'
  BY DEF Leave, Go, Mine, Free, TypeOK, CallInv, ProxyInv, DispatchReachesItsTable, OneSlotPerTable, Inside
<1>4. DispatchReachesItsTable'
  BY DEF Leave, Go, Mine, Free, TypeOK, CallInv, ProxyInv, DispatchReachesItsTable, OneSlotPerTable, Inside
<1>5. OneSlotPerTable'
  BY DEF Leave, Go, Mine, Free, TypeOK, CallInv, ProxyInv, DispatchReachesItsTable, OneSlotPerTable, Inside
<1> QED BY <1>1, <1>2, <1>3, <1>4, <1>5

\* Register keeps the invariant.
LEMMA RegisterInv ==
    ASSUME ListenerSlotsAssumption, SlotsInv, NEW t \in Threads, Register(t)
    PROVE  SlotsInv'
<1> USE DEF ListenerSlotsAssumption, SlotsInv
<1>1. TypeOK'
  BY DEF Register, Go, Mine, Free, TypeOK, CallInv, ProxyInv, DispatchReachesItsTable, OneSlotPerTable, Inside
<1>2. CallInv'
  BY DEF Register, Go, Mine, Free, TypeOK, CallInv, ProxyInv, DispatchReachesItsTable, OneSlotPerTable, Inside
<1>3. ProxyInv'
  BY DEF Register, Go, Mine, Free, TypeOK, CallInv, ProxyInv, DispatchReachesItsTable, OneSlotPerTable, Inside
<1>4. DispatchReachesItsTable'
  BY DEF Register, Go, Mine, Free, TypeOK, CallInv, ProxyInv, DispatchReachesItsTable, OneSlotPerTable, Inside
<1>5. OneSlotPerTable'
  BY DEF Register, Go, Mine, Free, TypeOK, CallInv, ProxyInv, DispatchReachesItsTable, OneSlotPerTable, Inside
<1> QED BY <1>1, <1>2, <1>3, <1>4, <1>5

\* Refuse keeps the invariant.
LEMMA RefuseInv ==
    ASSUME ListenerSlotsAssumption, SlotsInv, NEW t \in Threads, Refuse(t)
    PROVE  SlotsInv'
<1> USE DEF ListenerSlotsAssumption, SlotsInv
<1>1. TypeOK'
  BY DEF Refuse, Go, Mine, Free, TypeOK, CallInv, ProxyInv, DispatchReachesItsTable, OneSlotPerTable, Inside
<1>2. CallInv'
  BY DEF Refuse, Go, Mine, Free, TypeOK, CallInv, ProxyInv, DispatchReachesItsTable, OneSlotPerTable, Inside
<1>3. ProxyInv'
  BY DEF Refuse, Go, Mine, Free, TypeOK, CallInv, ProxyInv, DispatchReachesItsTable, OneSlotPerTable, Inside
<1>4. DispatchReachesItsTable'
  BY DEF Refuse, Go, Mine, Free, TypeOK, CallInv, ProxyInv, DispatchReachesItsTable, OneSlotPerTable, Inside
<1>5. OneSlotPerTable'
  BY DEF Refuse, Go, Mine, Free, TypeOK, CallInv, ProxyInv, DispatchReachesItsTable, OneSlotPerTable, Inside
<1> QED BY <1>1, <1>2, <1>3, <1>4, <1>5

\* Return keeps the invariant.
LEMMA ReturnInv ==
    ASSUME ListenerSlotsAssumption, SlotsInv, NEW t \in Threads, Return(t)
    PROVE  SlotsInv'
<1> USE DEF ListenerSlotsAssumption, SlotsInv
<1>1. TypeOK'
  BY DEF Return, Go, Mine, Free, TypeOK, CallInv, ProxyInv, DispatchReachesItsTable, OneSlotPerTable, Inside
<1>2. CallInv'
  BY DEF Return, Go, Mine, Free, TypeOK, CallInv, ProxyInv, DispatchReachesItsTable, OneSlotPerTable, Inside
<1>3. ProxyInv'
  BY DEF Return, Go, Mine, Free, TypeOK, CallInv, ProxyInv, DispatchReachesItsTable, OneSlotPerTable, Inside
<1>4. DispatchReachesItsTable'
  BY DEF Return, Go, Mine, Free, TypeOK, CallInv, ProxyInv, DispatchReachesItsTable, OneSlotPerTable, Inside
<1>5. OneSlotPerTable'
  BY DEF Return, Go, Mine, Free, TypeOK, CallInv, ProxyInv, DispatchReachesItsTable, OneSlotPerTable, Inside
<1> QED BY <1>1, <1>2, <1>3, <1>4, <1>5

\* Settle keeps the invariant.
LEMMA SettleInv ==
    ASSUME ListenerSlotsAssumption, SlotsInv, NEW s \in Slots, Settle(s)
    PROVE  SlotsInv'
<1> USE DEF ListenerSlotsAssumption, SlotsInv
<1>1. TypeOK'
  BY DEF Settle, Go, Mine, Free, TypeOK, CallInv, ProxyInv, DispatchReachesItsTable, OneSlotPerTable, Inside
<1>2. CallInv'
  BY DEF Settle, Go, Mine, Free, TypeOK, CallInv, ProxyInv, DispatchReachesItsTable, OneSlotPerTable, Inside
<1>3. ProxyInv'
  BY DEF Settle, Go, Mine, Free, TypeOK, CallInv, ProxyInv, DispatchReachesItsTable, OneSlotPerTable, Inside
<1>4. DispatchReachesItsTable'
  BY DEF Settle, Go, Mine, Free, TypeOK, CallInv, ProxyInv, DispatchReachesItsTable, OneSlotPerTable, Inside
<1>5. OneSlotPerTable'
  BY DEF Settle, Go, Mine, Free, TypeOK, CallInv, ProxyInv, DispatchReachesItsTable, OneSlotPerTable, Inside
<1> QED BY <1>1, <1>2, <1>3, <1>4, <1>5

\* Dispatch keeps the invariant.
LEMMA DispatchInv ==
    ASSUME ListenerSlotsAssumption, SlotsInv, NEW p \in Proxies, Dispatch(p)
    PROVE  SlotsInv'
<1> USE DEF ListenerSlotsAssumption, SlotsInv
<1>1. TypeOK'
  BY DEF Dispatch, Go, Mine, Free, TypeOK, CallInv, ProxyInv, DispatchReachesItsTable, OneSlotPerTable, Inside
<1>2. CallInv'
  BY DEF Dispatch, Go, Mine, Free, TypeOK, CallInv, ProxyInv, DispatchReachesItsTable, OneSlotPerTable, Inside
<1>3. ProxyInv'
  BY DEF Dispatch, Go, Mine, Free, TypeOK, CallInv, ProxyInv, DispatchReachesItsTable, OneSlotPerTable, Inside
<1>4. DispatchReachesItsTable'
  BY DEF Dispatch, Go, Mine, Free, TypeOK, CallInv, ProxyInv, DispatchReachesItsTable, OneSlotPerTable, Inside
<1>5. OneSlotPerTable'
  BY DEF Dispatch, Go, Mine, Free, TypeOK, CallInv, ProxyInv, DispatchReachesItsTable, OneSlotPerTable, Inside
<1> QED BY <1>1, <1>2, <1>3, <1>4, <1>5

\* No call, no store that settles and no event breaks the invariant.
LEMMA NextInv ==
    ASSUME ListenerSlotsAssumption
    PROVE  SlotsInv /\ [Next]_vars => SlotsInv'
<1> SUFFICES ASSUME SlotsInv, [Next]_vars PROVE SlotsInv'
  OBVIOUS
<1>1. ASSUME NEW t \in Threads, NEW p \in Proxies, NEW f \in Tables, AddListener(t, p, f) PROVE SlotsInv'
  BY <1>1, AddListenerInv
<1>2. ASSUME NEW t \in Threads, Step(t) PROVE SlotsInv'
  BY <1>2, EnterInv, FindInv, PublishInv, LeaveInv, RegisterInv, RefuseInv, ReturnInv DEF Step
<1>3. ASSUME NEW s \in Slots, Settle(s) PROVE SlotsInv'
  BY <1>3, SettleInv
<1>4. ASSUME NEW p \in Proxies, Dispatch(p) PROVE SlotsInv'
  BY <1>4, DispatchInv
<1>5. CASE UNCHANGED vars
  BY <1>5 DEF vars, SlotsInv, TypeOK, CallInv, ProxyInv, DispatchReachesItsTable, OneSlotPerTable
<1> QED BY <1>1, <1>2, <1>3, <1>4, <1>5 DEF Next

\* The inductive invariant holds throughout.
THEOREM SpecInv ==
    ASSUME ListenerSlotsAssumption
    PROVE  Spec => []SlotsInv
BY InitInv, NextInv, PTL DEF Spec

\* The registry stays well formed, and the threads inside it are those that hold
\* its mutex.
THEOREM SpecTypeOK ==
    ASSUME ListenerSlotsAssumption
    PROVE  Spec => []TypeOK
<1>1. SlotsInv => TypeOK
  BY DEF SlotsInv
<1> QED BY <1>1, SpecInv, PTL

\* An event reaches the table the guest gave for its proxy, although the
\* dispatcher may see stores late (LISTENER_REF_LOAD).
THEOREM SpecDispatchReachesItsTable ==
    ASSUME ListenerSlotsAssumption
    PROVE  Spec => []DispatchReachesItsTable
<1>1. SlotsInv => DispatchReachesItsTable
  BY DEF SlotsInv
<1> QED BY <1>1, SpecInv, PTL

\* No table takes two slots (find_xdg_surface_listener_Fct and its kin).
THEOREM SpecOneSlotPerTable ==
    ASSUME ListenerSlotsAssumption
    PROVE  Spec => []OneSlotPerTable
<1>1. SlotsInv => OneSlotPerTable
  BY DEF SlotsInv
<1> QED BY <1>1, SpecInv, PTL

\* A call is refused only if every slot serves another table
\* (my_wl_proxy_add_listener).
THEOREM SpecRefusedOnlyWhenFull ==
    ASSUME ListenerSlotsAssumption
    PROVE  Spec => []RefusedOnlyWhenFull
<1>1. SlotsInv => RefusedOnlyWhenFull
  BY DEF SlotsInv, CallInv, RefusedOnlyWhenFull
<1> QED BY <1>1, SpecInv, PTL

=============================================================================
