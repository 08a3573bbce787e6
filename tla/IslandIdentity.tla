--------------------------- MODULE IslandIdentity ---------------------------
(***************************************************************************)
(* Which guest address is island entry N?  A marker in the i386 DLL says   *)
(* that an entry is near; the identity table gen_entry_identity.py writes  *)
(* says where in its function the marker sits; island_marker_check.py      *)
(* judges the DLL before it ships.  At run time every thread that          *)
(* translates a branch target scans forward for a marker (getAlternate in  *)
(* Box86), and the first match of an entry publishes its address; two      *)
(* published witnesses establish the module's base once and for all.       *)
(*                                                                         *)
(* Addresses are offsets in .text, moved by Load at run time.              *)
(***************************************************************************)
EXTENDS Integers, FiniteSets, FiniteSetsExt

CONSTANTS Ids,        \* marker ids, one island entry each
          Armed,      \* the ids the launcher arms (bridges exist)
          Witnesses,  \* the ids class-B pairing may use, as a sequence
          Layouts,    \* the DLLs considered
          Window,     \* MGS2_ISLAND_WINDOW
          Load,       \* where the DLL is loaded
          Threads     \* threads that translate code

\* A DLL: the functions by start and end, the markers, the branch targets, and
\* the function that is each id's entry.
Layout == [functions : SUBSET (Nat \X Nat), markers : SUBSET (Ids \X Nat),
           targets : SUBSET Nat, entry : [Ids -> Nat]]
LayoutAssumption ==
    \A l \in Layouts : /\ l \in Layout
                       /\ \A f \in l.functions : f[1] \in l.targets
                       /\ \A i \in Ids : \E f \in l.functions : f[1] = l.entry[i]
IdAssumption == Armed \subseteq Ids /\ \A n \in DOMAIN Witnesses : Witnesses[n] \in Ids
RunAssumption == Window \in Nat /\ Load \in Nat \ {0}

None == 0

VARIABLES
    dll,      \* the DLL mounted, from which the table was generated
    guest,    \* mgs2_island_guest[]: the address published for an id
    state,    \* mgs2_class_b_state: 0 untried, 1 armed, -1 refused
    base,     \* mgs2_class_b_base
    pending,  \* the match a thread is about to publish
    routed    \* the addresses translated as a bridge, with the bridge's id

vars == <<dll, guest, state, base, pending, routed>>

-----------------------------------------------------------------------------
(* gen_entry_identity.py *)

Markers(l, id) == {m[2] : m \in {n \in l.markers : n[1] = id}}

\* owner(): the FDE that covers an address.
Covering(l, vma) == {f \in l.functions : f[1] <= vma /\ vma < f[2]}

\* The candidates of an id: its markers with the start of their function; a
\* marker outside every FDE is skipped.
Candidates(l, id) ==
    UNION {{[off |-> v - f[1], start |-> f[1], vma |-> v] : f \in Covering(l, v)}
             : v \in Markers(l, id)}

Before(c, d) == \/ c.off < d.off
                \/ c.off = d.off /\ c.start < d.start

\* The row of an id: the candidate nearest the top of its function.
HasRow(l, id) == Candidates(l, id) # {}
Row(l, id) == CHOOSE c \in Candidates(l, id) :
                  \A d \in Candidates(l, id) \ {c} : Before(c, d)

\* The generator's control over the armed ids.
GeneratorPasses(l) ==
    /\ \E id \in Ids : HasRow(l, id)
    /\ \A id \in Armed : HasRow(l, id) /\ Row(l, id).off <= Window

-----------------------------------------------------------------------------
(* island_marker_check.py *)

\* owner(): the last symbol at or before an address.
SymbolAt(l, vma) ==
    LET below == {f[1] : f \in {g \in l.functions : g[1] <= vma}}
    IN IF below = {} THEN None ELSE Max(below)

Owners(l, id) == {SymbolAt(l, v) : v \in Markers(l, id)}
Offsets(l, id) == {v - SymbolAt(l, v) : v \in Markers(l, id)}

BadFunction(l, id) == Cardinality(Owners(l, id)) > 1
BadWindow(l, id) == ~BadFunction(l, id) /\ Markers(l, id) # {} /\ Min(Offsets(l, id)) > Window

\* Another function whose scan window reaches the marker.
Neighbours(l, id) ==
    {f[1] : f \in {g \in l.functions : \E v \in Markers(l, id) :
                      g[1] < SymbolAt(l, v) /\ v - g[1] <= Window}}
Unprotected(l, id) == Neighbours(l, id) # {} /\ ~HasRow(l, id)

\* PASS, for the ids the configuration arms.
CheckPasses(l) ==
    \A id \in Armed : ~BadFunction(l, id) /\ ~BadWindow(l, id) /\ ~Unprotected(l, id)

-----------------------------------------------------------------------------
(* Box86 *)

Init == /\ dll \in {l \in Layouts : GeneratorPasses(l)}
        /\ guest = [id \in Ids |-> None]
        /\ state = 0
        /\ base = 0
        /\ pending = [t \in Threads |-> <<>>]
        /\ routed = {}

\* getAlternate(): the first marker from addr on; nothing is tried after one
\* that is not armed, sits at another offset or contradicts the base.
Hits(addr) == {m \in dll.markers : addr <= Load + m[2] /\ Load + m[2] <= addr + Window}
FirstHit(addr) == CHOOSE m \in Hits(addr) : \A n \in Hits(addr) : m[2] <= n[2]

Canonical(addr, m) ==
    /\ HasRow(dll, m[1])
    /\ Row(dll, m[1]).off = Load + m[2] - addr
    /\ state = 1 => addr = base + Row(dll, m[1]).start

Translate(t, addr) ==
    /\ pending[t] = <<>>
    /\ Hits(addr) # {}
    /\ FirstHit(addr)[1] \in Armed
    /\ Canonical(addr, FirstHit(addr))
    /\ pending' = [pending EXCEPT ![t] = <<FirstHit(addr)[1], addr>>]
    /\ UNCHANGED <<dll, guest, state, base, routed>>

\* Mutant: the last address published for an id stays.
Publish_Overwrites(t) ==
    /\ pending[t] # <<>>
    /\ guest' = [guest EXCEPT ![pending[t][1]] = pending[t][2]]
    /\ routed' = routed \cup {pending[t]}
    /\ pending' = [pending EXCEPT ![t] = <<>>]
    /\ UNCHANGED <<dll, state, base>>

\* The compare-and-exchange: the first address published for an id stays, and
\* only that address is routed.
Publish(t) ==
    /\ pending[t] # <<>>
    /\ LET id == pending[t][1]
           addr == pending[t][2]
           matched == IF guest[id] = None THEN addr ELSE guest[id]
       IN /\ guest' = [guest EXCEPT ![id] = matched]
          /\ routed' = IF matched = addr THEN routed \cup {<<id, addr>>} ELSE routed
    /\ pending' = [pending EXCEPT ![t] = <<>>]
    /\ UNCHANGED <<dll, state, base>>

\* mgs2_class_b_arm(): the first published witness and the first after it.
Known == {n \in DOMAIN Witnesses : guest[Witnesses[n]] # None}
Rva(n) == dll.entry[Witnesses[n]]

Arm ==
    /\ state = 0
    /\ routed # {}
    /\ LET first == {n \in Known : guest[Witnesses[n]] >= Rva(n)}
           i == Min(first)
           later == {n \in Known : n > i}
           j == Min(later)
           found == guest[Witnesses[i]] - Rva(i)
       IN IF first = {} \/ later = {}
          THEN state' = -1 /\ UNCHANGED base
          ELSE IF guest[Witnesses[j]] = found + Rva(j)
               THEN state' = 1 /\ base' = found
               ELSE state' = -1 /\ UNCHANGED base
    /\ UNCHANGED <<dll, guest, pending, routed>>

Next == \/ \E t \in Threads, a \in dll.targets : Translate(t, Load + a)
        \/ \E t \in Threads : Publish(t)
        \/ Arm

Spec == Init /\ [][Next]_vars

-----------------------------------------------------------------------------
Addresses == {Load + a : a \in UNION {l.targets : l \in Layouts}}

TypeOK == /\ dll \in Layouts
          /\ guest \in [Ids -> Addresses \cup {None}]
          /\ state \in {-1, 0, 1}
          /\ base \in Int
          /\ \A t \in Threads : pending[t] \in {<<>>} \cup (Ids \X Addresses)
          /\ routed \subseteq Ids \X Addresses

\* getAlternate(): whatever threads translate at the same time, an island entry
\* is bound to one address for good; a second address that matches it keeps the
\* guest code.
OneAddressPerEntry ==
    \A r, s \in routed : r[1] = s[1] => r[2] = s[2]

\* gen_entry_identity.py:109 and getAlternate(): with one marker in its DLL an
\* armed entry routes from the start of the function that holds it and from no
\* other branch target, whether or not the base is known yet; a neighbour that
\* starts inside the scan window does not take it over.
SingleMarkerRoutesEntry ==
    \A r \in routed : Cardinality(Markers(dll, r[1])) = 1 =>
        Load + Row(dll, r[1]).start = r[2]

\* mgs2_class_b_arm(): a base two witnesses agree on is the one the DLL is loaded
\* at, though a witness may have been published from the wrong address.
ArmedBaseIsReal == state = 1 => base = Load

\* island_marker_check.py and gen_entry_identity.py find the function of a marker
\* by different means, the last symbol and the FDE: of a DLL that the check
\* passes, every row of an armed id is of the one function the check saw.
PassAgreesWithTable ==
    CheckPasses(dll) =>
        \A id \in Armed : HasRow(dll, id) => Owners(dll, id) = {Row(dll, id).start}

=============================================================================
