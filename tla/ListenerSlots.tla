---------------------------- MODULE ListenerSlots ----------------------------
(***************************************************************************)
(* Box86 gives a guest table of Wayland callbacks one of a few native      *)
(* stubs sets (patches 17, 23 and 24).  A thread of the guest adds a       *)
(* listener: under the registry's mutex it looks for the slot of its       *)
(* table, else takes a free one and publishes the table in it; then it     *)
(* gives the slot's stubs to libwayland.  The dispatching thread runs the  *)
(* stub of an event, which loads the slot and calls the table it finds.    *)
(* The dispatcher may see a store late, until the mutex is released.       *)
(***************************************************************************)
EXTENDS Naturals, FiniteSets

CONSTANTS
    Threads, Proxies, Tables,
    NSlots,        \* the slots of a class (GO(0), GO(1), ...)
    None

Slots == 1..NSlots

ListenerSlotsAssumption ==
    NSlots \in Nat /\ None \notin (Threads \cup Proxies \cup Tables \cup Slots)

VARIABLES
    ref,        \* each slot's table
    view,       \* the same as the dispatcher sees it
    mutex,      \* who holds listener_registry_mutex
    pc, proxy, fct, slot,   \* each thread's call: step, proxy, table and slot found
    impl,       \* the stubs libwayland has for each proxy
    want,       \* ghost: the table the guest gave for it
    called      \* the last event: its proxy and the table that was called

vars == <<ref, view, mutex, pc, proxy, fct, slot, impl, want, called>>

Init ==
    /\ ref = [s \in Slots |-> None] /\ view = ref /\ mutex = None
    /\ pc = [t \in Threads |-> "idle"] /\ proxy = [t \in Threads |-> None]
    /\ fct = [t \in Threads |-> None] /\ slot = [t \in Threads |-> None]
    /\ impl = [p \in Proxies |-> None] /\ want = [p \in Proxies |-> None]
    /\ called = <<None, None>>

Go(t, step) == pc' = [pc EXCEPT ![t] = step]

\* The guest adds a listener to a proxy no call has been given.
AddListener(t, p, f) ==
    /\ pc[t] = "idle" /\ want[p] = None
    /\ want' = [want EXCEPT ![p] = f]
    /\ Go(t, "enter")
    /\ proxy' = [proxy EXCEPT ![t] = p] /\ fct' = [fct EXCEPT ![t] = f]
    /\ UNCHANGED <<ref, view, mutex, slot, impl, called>>

\* Mutant: the registry is not serialised.
EnterFreely(t) ==
    /\ pc[t] = "enter"
    /\ Go(t, "find") /\ UNCHANGED mutex
    /\ UNCHANGED <<ref, view, proxy, fct, slot, impl, want, called>>
Enter(t) ==
    /\ pc[t] = "enter" /\ mutex = None
    /\ mutex' = t /\ Go(t, "find")
    /\ UNCHANGED <<ref, view, proxy, fct, slot, impl, want, called>>

Free == {s \in Slots : ref[s] = None}
Mine(f) == {s \in Slots : ref[s] = f}

\* find_..._Fct: the table's slot, else the first free one, else none.
Find(t) ==
    /\ pc[t] = "find"
    /\ \/ /\ \E s \in Mine(fct[t]) : slot' = [slot EXCEPT ![t] = s]
          /\ Go(t, "leave")
       \/ /\ Mine(fct[t]) = {}
          /\ \E s \in Free : (\A u \in Free : s <= u) /\ slot' = [slot EXCEPT ![t] = s]
          /\ Go(t, "publish")
       \/ Mine(fct[t]) = {} /\ Free = {} /\ Go(t, "refuse") /\ UNCHANGED slot
    /\ UNCHANGED <<ref, view, mutex, proxy, fct, impl, want, called>>

\* LISTENER_REF_PUBLISH.
Publish(t) ==
    /\ pc[t] = "publish"
    /\ ref' = [ref EXCEPT ![slot[t]] = fct[t]]
    /\ Go(t, "leave")
    /\ UNCHANGED <<view, mutex, proxy, fct, slot, impl, want, called>>

\* A store reaches the dispatcher.
Settle(s) ==
    /\ view[s] # ref[s]
    /\ view' = [view EXCEPT ![s] = ref[s]]
    /\ UNCHANGED <<ref, mutex, pc, proxy, fct, slot, impl, want, called>>

\* Mutant: the mutex is left without its barrier.
LeaveUnseen(t) ==
    /\ pc[t] = "leave"
    /\ mutex' = None /\ Go(t, "register")
    /\ UNCHANGED <<ref, view, proxy, fct, slot, impl, want, called>>
\* The mutex is released: what was stored under it can be seen.
Leave(t) ==
    /\ pc[t] = "leave"
    /\ mutex' = None /\ view' = ref /\ Go(t, "register")
    /\ UNCHANGED <<ref, proxy, fct, slot, impl, want, called>>

\* libwayland stores the stubs; the call returns 0.
Register(t) ==
    /\ pc[t] = "register"
    /\ impl' = [impl EXCEPT ![proxy[t]] = slot[t]]
    /\ Go(t, "idle")
    /\ UNCHANGED <<ref, view, mutex, proxy, fct, slot, want, called>>

\* No slot: the mutex is released and the call returns -1.
Refuse(t) ==
    /\ pc[t] = "refuse"
    /\ mutex' = None /\ view' = ref
    /\ Go(t, "refused")
    /\ UNCHANGED <<ref, proxy, fct, slot, impl, want, called>>
Return(t) ==
    /\ pc[t] = "refused"
    /\ Go(t, "idle")
    /\ UNCHANGED <<ref, view, mutex, proxy, fct, slot, impl, want, called>>

\* An event: the stub loads its slot and calls the table.
Dispatch(p) ==
    /\ impl[p] # None
    /\ called' = <<p, view[impl[p]]>>
    /\ UNCHANGED <<ref, view, mutex, pc, proxy, fct, slot, impl, want>>

Step(t) == Enter(t) \/ Find(t) \/ Publish(t) \/ Leave(t) \/ Register(t) \/ Refuse(t) \/ Return(t)

Next ==
    \/ \E t \in Threads, p \in Proxies, f \in Tables : AddListener(t, p, f)
    \/ \E t \in Threads : Step(t)
    \/ \E s \in Slots : Settle(s)
    \/ \E p \in Proxies : Dispatch(p)

\* A thread inside add_listener is scheduled; the guest calls when it likes.
Fairness == \A t \in Threads : WF_vars(Step(t))
Spec == Init /\ [][Next]_vars /\ Fairness

-----------------------------------------------------------------------------
Inside == {"find", "publish", "leave", "refuse"}

TypeOK ==
    /\ ref \in [Slots -> Tables \cup {None}] /\ view \in [Slots -> Tables \cup {None}]
    /\ mutex \in Threads \cup {None}
    /\ pc \in [Threads -> Inside \cup {"idle", "enter", "register", "refused"}]
    /\ proxy \in [Threads -> Proxies \cup {None}] /\ fct \in [Threads -> Tables \cup {None}]
    /\ slot \in [Threads -> Slots \cup {None}]
    /\ impl \in [Proxies -> Slots \cup {None}] /\ want \in [Proxies -> Tables \cup {None}]
    /\ called \in (Proxies \cup {None}) \X (Tables \cup {None})
    /\ \A t \in Threads : (pc[t] \in Inside) <=> (mutex = t)

\* An event calls the table the guest gave for its proxy, never another
\* listener's and never a slot that still reads empty.
DispatchReachesItsTable == called[1] # None => called[2] = want[called[1]]

\* A table takes one slot however many listeners are added with it, so the
\* few slots last as long as there are few tables.
OneSlotPerTable == \A s, u \in Slots : ref[s] # None /\ ref[s] = ref[u] => s = u

\* add_listener is refused only if every slot serves some other table.
RefusedOnlyWhenFull ==
    \A t \in Threads : pc[t] = "refused" => \A s \in Slots : ref[s] \notin {None, fct[t]}

\* Every call to add_listener returns, a refused one too.
Calling(t) == pc[t] = "enter"
Returned(t) == pc[t] = "idle"
CallsReturn == \A t \in Threads : Calling(t) ~> Returned(t)
=============================================================================
