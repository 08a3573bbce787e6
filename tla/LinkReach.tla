------------------------------ MODULE LinkReach ------------------------------
(***************************************************************************)
(* The island audits of src/harness/island/full: which functions can an    *)
(* island entry reach?  Four tools answer it with one worklist each over   *)
(* the symbols of the linked binary and the C source beside it:            *)
(*                                                                         *)
(*   "reach"  island_reach.py             binary edges only                *)
(*   "gl"     island_gl_reach.py          binary, source and ops-table     *)
(*   "icall"  island_icall_audit.py       source names, binary edges too   *)
(*   "state"  island_mutable_state_audit  as "icall", objects from symbols *)
(*                                                                         *)
(* The compiler between source and binary is the adversary: it emits a     *)
(* function under its own name, as a clone (foo.isra.0) or not at all,     *)
(* copies it into callers, and writes what a body mentions as instructions *)
(* that the tools' patterns may not match: CALL_MNEMONIC reads bl, blx, b  *)
(* and bx but no blne, and no register list holds lr.  The patterns over   *)
(* the source read what they read, `read', which may differ from what is   *)
(* there either way.  And two functions may have one name: statics of two  *)
(* files.  The tools know names only.                                      *)
(***************************************************************************)
EXTENDS Integers, FiniteSets

CONSTANTS
    Functions,   \* every function the entry may run
    Sources,     \* those with a body in a file of dlls/wined3d
    Static,      \* those of internal linkage: dropped and cloned at will
    Members,     \* members of the *_ops structures
    Items,       \* what a body may mention: GL slots, writable objects, sites
    Root,        \* the entry's function
    Reporter,    \* mgs2_island_forbidden, which every abort stub calls
    Unresolved,  \* the gl_ops slots the device log reports unresolved
    Views,       \* the programs considered, each with a reading of its text and
                 \* what its code may mention in a form that no pattern matches
    Audits       \* the tools that look at them

Forms == {"plain", "clone"}
Symbols == Functions \X Forms
Plain(f) == <<f, "plain">>
Base(s) == s[1]

Text == [calls   : [Functions -> SUBSET Functions],
         uses    : [Functions -> SUBSET Members],
         targets : [Members -> SUBSET Functions],
         refs    : [Functions -> SUBSET Items],
         name    : [Functions -> Functions]]

\* Of the functions of one name, `name' is the one whose file is read first.
NamesAgree(p) == /\ \A f \in Functions : p.name[p.name[f]] = p.name[f]
                 /\ \A f \in Sources : p.name[f] \in Sources
                 /\ p.name[Root] = Root /\ p.name[Reporter] = Reporter

SourceAssumption == /\ Sources \subseteq Functions
                    /\ Static \subseteq Functions
                    /\ Root \in Sources \ Static
                    /\ Reporter \in Functions \ (Sources \cup Static)
ProgramAssumption == \A v \in Views : v.text \in Text /\ v.read \in Text /\ NamesAgree(v.text)
AuditAssumption == Audits \subseteq {"reach", "gl", "icall", "state"}

VARIABLES
    audit,     \* the tool at work
    program,   \* the source: calls, ops members used, ops tables, mentions
    read,      \* what the patterns over the source read of it
    emitted,   \* by_name: the FUNC symbols of the linked binary
    inlined,   \* the call edges the compiler replaced by the callee's body
    missed,    \* <<s, x>>: no pattern matches any mention of x in the code of s
    closure,   \* the tool's closure
    stack      \* the tool's worklist

chosen == <<audit, program, read, emitted, inlined, missed>>
vars == <<chosen, closure, stack>>

-----------------------------------------------------------------------------
(* The compiler and the linker, outside this repository. *)

AddressTaken(p) == UNION {p.targets[m] : m \in Members}

\* Only a static function that no ops table holds can go without a symbol of its
\* own name, and one without any symbol is inlined wherever it is called.
Emissions(p) ==
    LET kept == {Plain(f) : f \in (Functions \ Static) \cup AddressTaken(p)}
    IN {kept \cup X : X \in SUBSET (Static \X Forms)}
CallEdges(p) == {e \in Functions \X (Functions \ {Reporter}) : e[2] \in p.calls[e[1]]}
Copies(p, symbols) ==
    {C \in SUBSET CallEdges(p) :
       \A e \in CallEdges(p) : symbols \cap ({e[2]} \X Forms) = {} => e \in C}

\* What the edges E lead to from f.
Closed(S, E) == \A e \in E : e[1] \in S => e[2] \in S
Reach(f, E) == {g \in Functions : \A S \in SUBSET Functions : (f \in S /\ Closed(S, E)) => g \in S}

\* The functions whose code a symbol of f contains: f and what is copied into it.
Body(f) == Reach(f, inlined)

\* What the code of a symbol calls, calls through or refers to.
InCode(s) == UNION {program.calls[f] \cup program.uses[f] \cup program.refs[f] : f \in Body(Base(s))}

\* The symbol a call to g is directed to: the clone when there is one.
SymbolOf(g) == IF <<g, "clone">> \in emitted THEN <<g, "clone">> ELSE Plain(g)

-----------------------------------------------------------------------------
(* What the tools see of it. *)

\* Symbols as readelf and objdump print them.
Name(s) == <<program.name[Base(s)], s[2]>>
ByName == {Name(s) : s \in emitted}

\* call_graph(): the direct calls in the disassembly of symbol s, those whose
\* instruction the patterns read.
Called(s) ==
    {Name(SymbolOf(g)) : g \in {h \in Functions :
        /\ <<s, h>> \notin missed
        /\ \E f \in Body(Base(s)) : h \in program.calls[f] /\ <<f, h>> \notin inlined}}
CallsOf(n) == UNION {Called(s) : s \in {t \in emitted : Name(t) = n}}

\* call_graph(): the names with a call through a register that the patterns read.
Indirect ==
    {Name(s) : s \in {t \in emitted :
        \E f \in Body(Base(t)) : \E m \in program.uses[f] : <<t, m>> \notin missed}}

\* ops_targets() for the members a text mentions.
OpsTargets(t, f) == UNION {t.targets[m] : m \in t.uses[f]}

-----------------------------------------------------------------------------
(* The worklists. *)

\* Mutant: a clone is not recognised as a function.
ReachNext_PlainOnly(s) == {t \in CallsOf(s) : t = Plain(Base(t))}

ReachNext(s) == CallsOf(s)

\* The linked names, the names the source reading of every function of that name
\* calls and dispatches to: of those two only names that have a symbol.
GlNext(n) ==
    {t \in CallsOf(n) : Base(t) \in Sources}
      \cup ({Plain(program.name[g]) :
               g \in Sources \cap UNION {read.calls[f] \cup OpsTargets(read, f) :
                                           f \in {f \in Sources : program.name[f] = Base(n)}}}
            \cap ByName)

\* Mutant: the calls of the linked binary only.
SourceNext_BinaryOnly(n) ==
    {Plain(g) : g \in {Base(t) : t \in CallsOf(n)} \cap Sources}
      \cup {Plain(program.name[g]) : g \in OpsTargets(read, Base(n)) \cap Sources}

\* functions_by_file() keeps one body of a name, the first.
SourceNext(n) ==
    {Plain(g) : g \in {Base(t) : t \in CallsOf(n)} \cap Sources}
      \cup {Plain(program.name[g]) :
              g \in (read.calls[Base(n)] \cup OpsTargets(read, Base(n))) \cap Sources}

NextOf(s) == CASE audit = "reach" -> ReachNext(s)
               [] audit = "gl" -> GlNext(s)
               [] OTHER -> SourceNext(s)

Init == /\ audit \in Audits
        /\ \E v \in Views :
              /\ program = v.text /\ read = v.read
              /\ emitted \in Emissions(program)
              /\ inlined \in Copies(program, emitted)
              /\ missed \in SUBSET {m \in emitted \X v.hard : m[2] \in InCode(m[1])}
        /\ closure = {}
        /\ stack = {Plain(Root)}

\* Mutant: a function is closed when it is pushed.
Visit_ClosesPushed(s) == /\ s \notin closure
                         /\ closure' = closure \cup {s} \cup NextOf(s)
                         /\ stack' = (stack \ {s}) \cup NextOf(s)

\* Mutant: the closure keeps the names without their suffix.
Visit_Bases(s) == /\ s \notin closure
                  /\ closure' = closure \cup {Base(s)}
                  /\ stack' = (stack \ {s}) \cup NextOf(s)

\* while stack: f = stack.pop(); skip it or close it.
Seen(s) == /\ s \in closure
           /\ stack' = stack \ {s}
           /\ UNCHANGED closure

Visit(s) == /\ s \notin closure
            /\ closure' = closure \cup {s}
            /\ stack' = (stack \ {s}) \cup NextOf(s)

Pop(s) == /\ s \in stack
          /\ Seen(s) \/ Visit(s)
          /\ UNCHANGED chosen

Next == \E s \in Symbols : Pop(s)
Spec == Init /\ [][Next]_vars /\ WF_vars(Next)

-----------------------------------------------------------------------------
(* What each tool reports of its closure. *)

Done == stack = {}

\* island_reach.py: no abort stub, no indirect call.
Stubs == {n \in ByName : Plain(Reporter) \in CallsOf(n)}
Safe == closure \cap Stubs = {} /\ closure \cap Indirect = {}

\* island_gl_reach.py: the slots of the closure's source bodies, and its verdict.
Need == UNION {read.refs[f] : f \in {f \in Sources : \E n \in closure : Base(n) = program.name[f]}}
Missing == Need \cap Unresolved

\* island_icall_audit.py: the sites read in the closure's source bodies.
Sites == UNION {read.refs[Base(n)] : n \in {t \in closure : Base(t) \in Sources}}

\* island_mutable_state_audit.py: the objects the patterns read in the disassembly
\* of the closure's symbols, or of clones of them.
Audited == {s \in emitted : Name(s) \in closure \/ Plain(Base(Name(s))) \in closure}
Objects == {x \in Items : \E s \in Audited : \E f \in Body(Base(s)) :
                             x \in program.refs[f] /\ <<s, x>> \notin missed}

-----------------------------------------------------------------------------
(* What the entry runs, as far as the patterns can follow it. *)

\* The mention of x in f is read in every symbol that has a copy of f.
Readable(f, x) == \A s \in emitted : f \in Body(Base(s)) => <<s, x>> \notin missed

\* In the code: copied, or called by an instruction the patterns match.
CodeEdges ==
    inlined \cup
    {e \in Functions \X Functions :
       \/ e[2] \in program.calls[e[1]] /\ Readable(e[1], e[2])
       \/ \E m \in program.uses[e[1]] : e[2] \in program.targets[m] /\ Readable(e[1], m)}

\* In the source: there, and read.
TextEdges ==
    {e \in Functions \X Functions :
       \/ e[2] \in program.calls[e[1]] \cap read.calls[e[1]]
       \/ \E m \in program.uses[e[1]] \cap read.uses[e[1]] :
             e[2] \in program.targets[m] \cap read.targets[m]}
TextRefs(f) == program.refs[f] \cap read.refs[f]

\* ... into functions whose body functions_by_file() keeps.
Traced == Reach(Root, {e \in TextEdges : e[2] \in Sources /\ program.name[e[2]] = e[2]})

\* ... into functions that have a symbol of their own name.
TracedInBinary == Reach(Root, {e \in TextEdges : e[2] \in Sources /\ Plain(e[2]) \in emitted})

-----------------------------------------------------------------------------
TypeOK == /\ audit \in Audits
          /\ \E v \in Views : /\ program = v.text /\ read = v.read
                             /\ missed \subseteq Symbols \X v.hard
          /\ emitted \subseteq Symbols
          /\ inlined \subseteq Functions \X Functions
          /\ closure \subseteq Symbols
          /\ stack \subseteq Symbols

\* The worklist of every tool (island_gl_reach.py:336, island_reach.py:129 and
\* the two others), in whatever order it pops: when it is empty the closure is
\* the least set that holds the entry and every edge of what it holds.  No name
\* is missed because it was waiting twice or met in a cycle, and none invented.
ClosedUnderNext(S) == \A s \in S : NextOf(s) \subseteq S
ClosureIsLeast ==
    Done => /\ Plain(Root) \in closure
            /\ ClosedUnderNext(closure)
            /\ \A S \in SUBSET closure :
                  (Plain(Root) \in S /\ ClosedUnderNext(S)) => S = closure

\* island_reach.py:151: an entry printed as safe to arm runs no abort stub, whatever
\* the compiler inlined, cloned or dropped on the way to it, unless a call on the
\* way is an instruction that CALL_MNEMONIC and REGISTER do not match.
SafeEntryRunsNoStub ==
    (audit = "reach" /\ Done /\ Safe) =>
        Reporter \notin Reach(Root, CodeEdges)

\* island_mutable_state_audit.py:197: in a function the source leads to, an object
\* whose references are in a form the analyser reads is in the report, though the
\* function itself may have no symbol and its code lie in callers only.
ObjectsComplete ==
    (audit = "state" /\ Done) =>
        \A f \in Traced : \A x \in program.refs[f] : Readable(f, x) => x \in Objects

\* island_icall_audit.py:261: a site that the patterns match is classified, in every
\* function the source leads to through the bodies kept, with or without a symbol.
SitesComplete == (audit = "icall" /\ Done) => \A f \in Traced : TextRefs(f) \subseteq Sites

\* island_gl_reach.py:357: an unresolved slot read in a function that the source
\* leads to, by functions that have symbols, refuses the entry.
SlotsComplete ==
    (audit = "gl" /\ Done) =>
        \A f \in TracedInBinary : TextRefs(f) \cap Unresolved \subseteq Missing

=============================================================================
