----------------------------- MODULE NativeTable -----------------------------
(***************************************************************************)
(* The class-B table of the island: guest RVA -> native id -> ARM address. *)
(* gen_class_b_table.py joins the names of the guest DLL and of the        *)
(* island's objects; build_island_objects.sh compiles every object twice,  *)
(* the second time with the registry fragment that gives an id the address *)
(* of its function; Box86 links header and objects and checks, before it   *)
(* resolves anything, that the registry fills the table.  The script can   *)
(* stop after any step, and what is on disk then can still be linked.      *)
(***************************************************************************)
EXTENDS Integers, Sequences, FiniteSets, SequencesExt

CONSTANTS
    Units,       \* translation units of WineD3D in the island
    Names,       \* function names, numbers in the order Python sorts them
    Versions,    \* of the sources: what each build of them shows
    Compilers,   \* [comment, layout]: what CC and EXTRA_CFLAGS may be
    MaxRuns      \* bound on the runs of the script

\* A version shows, for the guest DLL and for the island, the functions that
\* have a symbol: [unit, name, clone].  The guest may hold functions of units
\* the island does not compile.
GuestUnits == Units \cup {"crt"}
NameAssumption == Names \subseteq Nat
VersionAssumption ==
    \A v \in Versions :
        /\ v.guest \subseteq [unit : GuestUnits, name : Names, clone : BOOLEAN]
        /\ v.island \subseteq [unit : Units, name : Names, clone : BOOLEAN]
CompilerAssumption ==
    \A c \in Compilers : c.comment \in {"clang", "gcc", ""} /\ c.layout \in {"ms", "gnu"}

Absent == [symbols |-> {}, registry |-> {}, comment |-> "", layout |-> "gnu"]

VARIABLES
    source,    \* the version of the sources
    script,    \* idle, pass1, pass2: where build_island_objects.sh is
    compiler,  \* what this run of it compiles with
    todo,      \* the units this pass has still to compile
    runs,      \* runs started
    objects,   \* the island's objects
    witness,   \* layout_witness.o: the layout its compiler laid out
    fragments, \* the registry fragments on disk: <<id, name>> by unit
    header,    \* mgs2_island_class_b.h: the mapped names by id, and the DLL read
    box86      \* the linked binary, <<>> before the first link

vars == <<source, script, compiler, todo, runs, objects, witness, fragments, header, box86>>

-----------------------------------------------------------------------------
(* gen_class_b_table.py *)

\* pe_symbols(): the addresses a name has in the DLL, and island_tu_symbols(): the
\* units whose object defines it.  A clone is a name of its own.
GuestAddresses(v, n) == {s \in v.guest : s.name = n /\ ~s.clone}
OwnersOf(n) == {u \in Units : [unit |-> u, name |-> n, clone |-> FALSE] \in objects[u].symbols}

Good(v) == {n \in Names : /\ Cardinality(GuestAddresses(v, n)) = 1
                          /\ Cardinality(OwnersOf(n)) = 1}

\* ids: the mapped names in sorted order, from 0.
IdTable(v) == SetToSortSeq(Good(v), <)

Fragments(table) ==
    [u \in Units |-> {<<i - 1, table[i]>> : i \in {j \in DOMAIN table : u \in OwnersOf(table[j])}}]

-----------------------------------------------------------------------------
Init == /\ source \in Versions
        /\ script = "idle" /\ todo = {} /\ runs = 0
        /\ compiler \in Compilers
        /\ objects = [u \in Units |-> Absent]
        /\ witness = "none"
        /\ fragments = [u \in Units |-> {}]
        /\ header = [names |-> <<>>, dll |-> source]
        /\ box86 = <<>>

\* The sources change between runs of the script, the guest DLL with them.
Edit == /\ script = "idle" /\ runs < MaxRuns
        /\ source' \in Versions \ {source}
        /\ UNCHANGED <<script, compiler, todo, runs, objects, witness, fragments, header, box86>>

Start == /\ script = "idle" /\ runs < MaxRuns
         /\ script' = "pass1" /\ todo' = Units /\ runs' = runs + 1
         /\ compiler' \in Compilers
         /\ UNCHANGED <<source, objects, witness, fragments, header, box86>>

Compile(u, registry) ==
    objects' = [objects EXCEPT ![u] =
        [symbols |-> {s \in source.island : s.unit = u}, registry |-> registry,
         comment |-> compiler.comment, layout |-> compiler.layout]]

\* Mutant: the first pass compiles with the fragment it finds.
Pass1_KeepsRegistry(u) ==
    /\ script = "pass1" /\ u \in todo
    /\ Compile(u, fragments[u]) /\ todo' = todo \ {u}
    /\ UNCHANGED <<source, script, compiler, runs, witness, fragments, header, box86>>

Pass1(u) == /\ script = "pass1" /\ u \in todo
            /\ Compile(u, {}) /\ todo' = todo \ {u}
            /\ UNCHANGED <<source, script, compiler, runs, witness, fragments, header, box86>>

Generate == /\ script = "pass1" /\ todo = {}
            /\ script' = "pass2" /\ todo' = Units
            /\ header' = [names |-> IdTable(source), dll |-> source]
            /\ fragments' = Fragments(IdTable(source))
            /\ UNCHANGED <<source, compiler, runs, objects, witness, box86>>

Pass2(u) == /\ script = "pass2" /\ u \in todo
            /\ Compile(u, fragments[u]) /\ todo' = todo \ {u}
            /\ UNCHANGED <<source, script, compiler, runs, witness, fragments, header, box86>>

BuildWitness == /\ script = "pass2" /\ todo = {}
                /\ witness' = compiler.layout /\ script' = "idle"
                /\ UNCHANGED <<source, compiler, todo, runs, objects, fragments, header, box86>>

\* set -e, a full disk, an interrupt: the run ends where it is.
Abort == /\ script # "idle"
         /\ script' = "idle" /\ todo' = {}
         /\ UNCHANGED <<source, compiler, runs, objects, witness, fragments, header, box86>>

Link == /\ script = "idle"
        /\ box86' = <<[header |-> header, objects |-> objects]>>
        /\ UNCHANGED <<source, script, compiler, todo, runs, objects, witness, fragments, header>>

Next == \/ Edit \/ Start \/ Generate \/ BuildWitness \/ Abort \/ Link
        \/ \E u \in Units : Pass1(u) \/ Pass2(u)

Spec == Init /\ [][Next]_vars

-----------------------------------------------------------------------------
(* mgs2_native_targets_build() in the linked binary.  The linker gathers the *)
(* fragments; an entry's address is that of the name in its own object.      *)

Entries(b) == UNION {{[id |-> r[1], unit |-> u, name |-> r[2]] : r \in b.objects[u].registry}
                       : u \in Units}
Count(b) == Len(b.header.names)
TargetsOf(b, id) == {e \in Entries(b) : e.id = id}

Resolves(b) ==
    /\ \A e \in Entries(b) : e.id < Count(b)
    /\ \A id \in 0..(Count(b) - 1) : Cardinality(TargetsOf(b, id)) = 1

\* The guest function an id's RVA is the address of, in the DLL the header was
\* generated from.
GuestOf(b, id) == CHOOSE s \in GuestAddresses(b.header.dll, b.header.names[id + 1]) : TRUE

-----------------------------------------------------------------------------
(* island_native_compiler_audit.py, for a root whose closure holds every name. *)

Reachable == {header.names[i] : i \in DOMAIN header.names}
CompilersNamed == {objects[u].comment : u \in Units} \ {""}

\* layout_witness(): the sizes layout_witness.o was compiled with, if it is there.
LayoutWitness == witness

AuditPasses ==
    /\ \A n \in Reachable : Cardinality(OwnersOf(n)) = 1
    /\ Cardinality(CompilersNamed) = 1
    /\ LayoutWitness = "ms"

-----------------------------------------------------------------------------
TypeOK == /\ source \in Versions
          /\ script \in {"idle", "pass1", "pass2"}
          /\ compiler \in Compilers
          /\ todo \subseteq Units
          /\ runs \in 0..MaxRuns
          /\ witness \in {"none", "ms", "gnu"}
          /\ \A u \in Units : fragments[u] \subseteq Nat \X Names
          /\ header.names \in Seq(Names) /\ header.dll \in Versions

\* mgs2_native_targets_build() and build_island_objects.sh: wherever the script
\* stopped before the link, a resolver that turns itself on resolves every id to
\* the function whose name the header gives it; ids that were renumbered between
\* two versions never meet the registry of the other.
ResolverAgrees ==
    \A i \in DOMAIN box86 :
        Resolves(box86[i]) =>
            \A id \in 0..(Count(box86[i]) - 1) :
                \A e \in TargetsOf(box86[i], id) : e.name = box86[i].header.names[id + 1]

\* gen_class_b_table.py:45 rejects clones, names of several units and names at
\* several addresses, because "a guest static from one file could map to the ARM
\* copy from another": a name both builds show wherever it is defined maps a
\* guest function to the same function of the same unit.
ShownIn(v, n) == {s.unit : s \in GuestAddresses(v, n)} =
                 {s.unit : s \in {t \in v.island : t.name = n /\ ~t.clone}}
MapsShownNames ==
    \A i \in DOMAIN box86 : Resolves(box86[i]) =>
        \A id \in 0..(Count(box86[i]) - 1), e \in Entries(box86[i]) :
            (e.id = id /\ ShownIn(box86[i].header.dll, e.name)) =>
                GuestOf(box86[i], id).unit = e.unit

\* island_native_compiler_audit.py refuses no build that came to its end: when
\* every object is of the header's sources and of one compiler that names
\* itself, and the witness has the layout, the names it looks for are each
\* found in exactly one object.
WholeBuild ==
    /\ script = "idle" /\ LayoutWitness = "ms"
    /\ Cardinality({objects[u].comment : u \in Units}) = 1 /\ CompilersNamed # {}
    /\ \A u \in Units : objects[u].symbols = {s \in header.dll.island : s.unit = u}
AuditAcceptsAWholeBuild == WholeBuild => AuditPasses

=============================================================================
