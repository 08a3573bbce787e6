--------------------------- MODULE LinkReachProofs ---------------------------
(***************************************************************************)
(* The worklist of the island audits computes a least closed set, and what *)
(* three of the audits conclude from it holds for every program, every     *)
(* choice of the compiler and every order of the worklist.                 *)
(***************************************************************************)
EXTENDS LinkReach, TLAPS

\* What stays true while names wait: the entry is closed or waiting, no edge of
\* a closed name is lost, and every closed set that holds the entry holds both.
WorklistInv ==
    /\ Plain(Root) \in closure \cup stack
    /\ \A s \in closure : NextOf(s) \subseteq closure \cup stack
    /\ \A S \in SUBSET Symbols :
          (Plain(Root) \in S /\ ClosedUnderNext(S)) => closure \cup stack \subseteq S

\* What the compiler guarantees of the binary; the binary audit has only names of
\* symbols in hand, the source audits only names of functions.
BinaryInv == /\ emitted \in Emissions(program)
             /\ inlined \in Copies(program, emitted)
             /\ audit = "reach" => closure \cup stack \subseteq ByName
             /\ audit \in {"icall", "state"} =>
                   \A s \in closure \cup stack : s = Plain(Base(s))

IInv == TypeOK /\ WorklistInv /\ BinaryInv

-----------------------------------------------------------------------------
\* What the types of a program and of its reading say.
LEMMA TextTyped ==
    ASSUME ProgramAssumption, TypeOK
    PROVE  program \in Text /\ read \in Text /\ NamesAgree(program)
BY DEF ProgramAssumption, TypeOK

\* A symbol is of a function, and its name is a symbol.
LEMMA BaseTyped ==
    ASSUME ProgramAssumption, TypeOK, NEW s \in Symbols
    PROVE  Base(s) \in Functions /\ Name(s) \in Symbols /\ Base(Name(s)) = program.name[Base(s)]
<1>1. Base(s) \in Functions /\ s[2] \in Forms
  BY DEF Symbols, Base
<1>2. program.name[Base(s)] \in Functions
  BY <1>1, TextTyped DEF Text
<1>3. QED
  BY <1>1, <1>2 DEF Symbols, Base, Name

\* The name of a function is a symbol, and is of it.
LEMMA PlainTyped ==
    ASSUME NEW f \in Functions
    PROVE  Plain(f) \in Symbols /\ Base(Plain(f)) = f /\ Name(Plain(f)) = Plain(program.name[f])
BY DEF Symbols, Plain, Base, Forms, Name

\* A call leads to the symbol of its function.
LEMMA SymbolOfTyped ==
    ASSUME ProgramAssumption, TypeOK, NEW g \in Functions
    PROVE  /\ SymbolOf(g) \in Symbols /\ Base(SymbolOf(g)) = g
           /\ Name(SymbolOf(g)) \in Symbols
<1>1. SymbolOf(g) \in Symbols /\ Base(SymbolOf(g)) = g
  BY PlainTyped DEF SymbolOf, TypeOK, Symbols, Base
<1>2. QED
  BY <1>1, BaseTyped

\* The edges of the linked binary lead to symbols.
LEMMA CallsTyped ==
    ASSUME ProgramAssumption, TypeOK, NEW n
    PROVE  CallsOf(n) \subseteq Symbols /\ \A t \in CallsOf(n) : Base(t) \in Functions
<1>1. ASSUME NEW t \in CallsOf(n) PROVE t \in Symbols
  <2>1. PICK s \in emitted : t \in Called(s)
    BY DEF CallsOf
  <2>2. PICK g \in Functions : t = Name(SymbolOf(g))
    BY <2>1 DEF Called
  <2>3. QED
    BY <2>2, SymbolOfTyped
<1>2. QED
  BY <1>1, BaseTyped

\* Every edge of every audit leads to a symbol.
LEMMA NextTyped ==
    ASSUME SourceAssumption, ProgramAssumption, TypeOK, NEW s \in Symbols
    PROVE  NextOf(s) \subseteq Symbols
<1>1. CallsOf(s) \subseteq Symbols /\ \A t \in CallsOf(s) : Base(t) \in Functions
  BY CallsTyped
<1>2. \A g \in Sources : g \in Functions /\ program.name[g] \in Functions
  BY TextTyped DEF SourceAssumption, Text
<1>3. ReachNext(s) \subseteq Symbols
  BY <1>1 DEF ReachNext
<1>4. GlNext(s) \subseteq Symbols
  BY <1>1, <1>2, PlainTyped DEF GlNext
<1>5. SourceNext(s) \subseteq Symbols
  BY <1>1, <1>2, PlainTyped DEF SourceNext
<1>6. QED
  BY <1>3, <1>4, <1>5 DEF NextOf

\* The initial worklist holds the entry alone.
LEMMA InitIInv ==
    ASSUME SourceAssumption, ProgramAssumption
    PROVE  Init => IInv
<1> SUFFICES ASSUME Init PROVE IInv
  OBVIOUS
<1>0. PICK v \in Views : /\ program = v.text /\ read = v.read
                         /\ emitted \in Emissions(program)
                         /\ inlined \in Copies(program, emitted)
                         /\ missed \in SUBSET {m \in emitted \X v.hard : m[2] \in InCode(m[1])}
  BY DEF Init
<1>1. program \in Text /\ NamesAgree(program)
  BY <1>0 DEF ProgramAssumption
<1>2. emitted \subseteq Symbols
  <2>1. AddressTaken(program) \subseteq Functions
    BY <1>1 DEF AddressTaken, Text
  <2>2. QED
    BY <1>0, <2>1 DEF SourceAssumption, Emissions, Symbols, Plain, Forms
<1>3. inlined \subseteq Functions \X Functions
  BY <1>0 DEF Copies, CallEdges
<1>4. missed \subseteq Symbols \X v.hard
  BY <1>0, <1>2
<1>5. Plain(Root) \in Symbols /\ Plain(Root) \in emitted /\ Name(Plain(Root)) = Plain(Root)
  BY <1>0, <1>1, PlainTyped DEF SourceAssumption, Emissions, NamesAgree
<1>6. TypeOK
  BY <1>0, <1>2, <1>3, <1>4, <1>5 DEF Init, TypeOK
<1>7. WorklistInv
  BY DEF Init, WorklistInv
<1>8. BinaryInv
  BY <1>0, <1>5 DEF Init, BinaryInv, ByName, Plain, Base
<1>9. QED
  BY <1>6, <1>7, <1>8 DEF IInv

\* No step changes an edge.
LEMMA EdgesKept ==
    ASSUME UNCHANGED chosen, NEW s
    PROVE  NextOf(s)' = NextOf(s) /\ ByName' = ByName
BY DEF chosen, NextOf, ReachNext, GlNext, SourceNext, CallsOf, Called, SymbolOf, Body, Reach,
       Closed, OpsTargets, Name, ByName

\* In the binary the audit meets symbols only: a call that is not inlined has one
\* to go to.
LEMMA CallsEmitted ==
    ASSUME SourceAssumption, ProgramAssumption, TypeOK, BinaryInv, NEW n
    PROVE  CallsOf(n) \subseteq ByName
<1> SUFFICES ASSUME NEW s \in emitted, NEW f \in Body(Base(s)), NEW g \in Functions,
                    g \in program.calls[f], <<f, g>> \notin inlined
             PROVE  SymbolOf(g) \in emitted
  BY DEF CallsOf, Called, ByName
<1>0. f \in Functions
  BY DEF Body, Reach
<1>1. CASE g \notin Static
  BY <1>1 DEF BinaryInv, Emissions, SymbolOf
<1>2. CASE g \in Static
  <2>1. <<f, g>> \in CallEdges(program)
    BY <1>0, <1>2 DEF SourceAssumption, CallEdges
  <2>2. emitted \cap ({g} \X Forms) # {}
    BY <2>1 DEF BinaryInv, Copies
  <2>3. QED
    BY <2>2 DEF SymbolOf, Plain, Forms
<1>3. QED
  BY <1>1, <1>2

\* Popping a name keeps the invariant.
LEMMA PopIInv ==
    ASSUME SourceAssumption, ProgramAssumption, IInv, NEW s \in Symbols, Pop(s)
    PROVE  IInv'
<1>0. UNCHANGED chosen /\ s \in stack
  BY DEF Pop
<1>1. CASE Seen(s)
  <2>1. closure' \cup stack' = closure \cup stack /\ closure' = closure
    BY <1>0, <1>1 DEF Seen
  <2>2. TypeOK'
    BY <1>0, <1>1, <2>1 DEF IInv, TypeOK, Seen, chosen
  <2>3. WorklistInv'
    BY <1>0, <2>1, EdgesKept DEF IInv, WorklistInv, ClosedUnderNext
  <2>4. BinaryInv'
    BY <1>0, <2>1, EdgesKept DEF IInv, BinaryInv, chosen
  <2>5. QED
    BY <2>2, <2>3, <2>4 DEF IInv
<1>2. CASE Visit(s)
  <2>1. closure' \cup stack' = closure \cup stack \cup NextOf(s)
    BY <1>0, <1>2 DEF Visit
  <2>2. NextOf(s) \subseteq Symbols
    BY NextTyped DEF IInv
  <2>3. TypeOK'
    BY <1>0, <1>2, <2>2 DEF IInv, TypeOK, Visit, chosen
  <2>4. WorklistInv'
    <3>1. Plain(Root) \in (closure \cup stack)'
      BY <2>1 DEF IInv, WorklistInv
    <3>2. \A t \in closure' : NextOf(t)' \subseteq (closure \cup stack)'
      BY <1>0, <1>2, <2>1, EdgesKept DEF IInv, WorklistInv, Visit
    <3>3. ASSUME NEW S \in SUBSET Symbols, Plain(Root) \in S, ClosedUnderNext(S)'
          PROVE  (closure \cup stack)' \subseteq S
      <4>1. ClosedUnderNext(S)
        BY <1>0, <3>3, EdgesKept DEF ClosedUnderNext
      <4>2. closure \cup stack \subseteq S
        BY <3>3, <4>1 DEF IInv, WorklistInv
      <4>3. NextOf(s) \subseteq S
        BY <1>0, <4>1, <4>2 DEF ClosedUnderNext
      <4>4. QED
        BY <2>1, <4>2, <4>3
    <3>4. QED
      BY <3>1, <3>2, <3>3 DEF WorklistInv
  <2>5. BinaryInv'
    <3>1. audit = "reach" => NextOf(s) \subseteq ByName
      BY CallsEmitted DEF IInv, NextOf, ReachNext
    <3>2. audit \in {"icall", "state"} => \A t \in NextOf(s) : t = Plain(Base(t))
      BY DEF NextOf, SourceNext, Plain, Base
    <3>3. QED
      BY <1>0, <2>1, <3>1, <3>2, EdgesKept DEF IInv, BinaryInv, chosen
  <2>6. QED
    BY <2>3, <2>4, <2>5 DEF IInv
<1>3. QED
  BY <1>1, <1>2 DEF Pop

\* The invariant holds in every reachable state.
THEOREM Invariance ==
    ASSUME SourceAssumption, ProgramAssumption
    PROVE  Spec => []IInv
<1>1. Init => IInv
  BY InitIInv
<1>2. IInv /\ [Next]_vars => IInv'
  <2>1. ASSUME IInv, Next PROVE IInv'
    BY <2>1, PopIInv DEF Next
  <2>2. ASSUME IInv, UNCHANGED vars PROVE IInv'
    BY <2>2, EdgesKept
       DEF vars, chosen, IInv, TypeOK, WorklistInv, ClosedUnderNext, BinaryInv
  <2>3. QED
    BY <2>1, <2>2
<1>3. QED
  BY <1>1, <1>2, PTL DEF Spec

-----------------------------------------------------------------------------
\* Type correctness (LinkReach!TypeOK).
THEOREM TypeCorrect ==
    ASSUME SourceAssumption, ProgramAssumption
    PROVE  Spec => []TypeOK
<1>1. IInv => TypeOK
  BY DEF IInv
<1>2. QED
  BY <1>1, Invariance, PTL

\* An empty worklist leaves the least closed set (island_gl_reach.py:336 and its
\* three siblings), for any program, compiler and order of the worklist.
THEOREM LeastClosure ==
    ASSUME SourceAssumption, ProgramAssumption
    PROVE  Spec => []ClosureIsLeast
<1>1. IInv => ClosureIsLeast
  <2>1. ASSUME IInv, Done PROVE ClosedUnderNext(closure) /\ Plain(Root) \in closure
    BY <2>1 DEF IInv, WorklistInv, ClosedUnderNext, Done
  <2>2. ASSUME IInv, Done, NEW S \in SUBSET closure, Plain(Root) \in S, ClosedUnderNext(S)
        PROVE  S = closure
    <3>1. S \in SUBSET Symbols
      BY <2>2 DEF IInv, TypeOK
    <3>2. QED
      BY <2>2, <3>1 DEF IInv, WorklistInv
  <2>3. QED
    BY <2>1, <2>2 DEF ClosureIsLeast
<1>2. QED
  BY <1>1, Invariance, PTL

\* What f leads to lies in every set that holds f and is closed.
LEMMA ReachLeast ==
    ASSUME NEW f, NEW E, NEW S \in SUBSET Functions, f \in S, Closed(S, E)
    PROVE  Reach(f, E) \subseteq S
BY DEF Reach

\* A symbol's code contains its own function, and what its functions inline.
LEMMA BodyClosed ==
    ASSUME NEW f \in Functions
    PROVE  /\ f \in Body(f)
           /\ Body(f) \subseteq Functions
           /\ \A g \in Body(f), h \in Functions : <<g, h>> \in inlined => h \in Body(f)
BY DEF Body, Reach, Closed

\* A name in hand is closed: so are the names its text leads to.
LEMMA TextFollowed ==
    ASSUME SourceAssumption, ProgramAssumption, IInv, Done, NEW e \in TextEdges, e[2] \in Sources
    PROVE  /\ (audit \in {"icall", "state"} /\ Plain(e[1]) \in closure)
                 => Plain(program.name[e[2]]) \in closure
           /\ (audit = "gl" /\ e[1] \in Sources /\ Plain(e[2]) \in emitted
                  /\ \E n \in closure : Base(n) = program.name[e[1]])
                 => Plain(program.name[e[2]]) \in closure
<1>1. /\ e[1] \in Functions /\ e[2] \in Functions
      /\ e[2] \in read.calls[e[1]] \cup OpsTargets(read, e[1])
  BY DEF TextEdges, OpsTargets
<1>2. \A n \in closure : NextOf(n) \subseteq closure
  BY DEF IInv, WorklistInv, Done
<1>3. ASSUME audit \in {"icall", "state"}, Plain(e[1]) \in closure
      PROVE  Plain(program.name[e[2]]) \in closure
  <2>1. Base(Plain(e[1])) = e[1]
    BY <1>1, PlainTyped
  <2>2. Plain(program.name[e[2]]) \in SourceNext(Plain(e[1]))
    BY <1>1, <2>1 DEF SourceNext
  <2>3. QED
    BY <1>2, <1>3, <2>2 DEF NextOf
<1>4. ASSUME audit = "gl", e[1] \in Sources, Plain(e[2]) \in emitted,
             NEW n \in closure, Base(n) = program.name[e[1]]
      PROVE  Plain(program.name[e[2]]) \in closure
  <2>1. Plain(program.name[e[2]]) \in ByName
    <3>1. Name(Plain(e[2])) = Plain(program.name[e[2]])
      BY <1>1, PlainTyped
    <3>2. QED
      BY <1>4, <3>1 DEF ByName
  <2>2. Plain(program.name[e[2]]) \in GlNext(n)
    BY <1>1, <1>4, <2>1 DEF GlNext
  <2>3. QED
    BY <1>2, <1>4, <2>2 DEF NextOf
<1>5. QED
  BY <1>3, <1>4

\* An audit that follows source edges without asking for a symbol closes every
\* function the text it reads leads to.
LEMMA TracedClosed ==
    ASSUME SourceAssumption, ProgramAssumption, IInv, Done, audit \in {"icall", "state"},
           NEW f \in Traced
    PROVE  f \in Sources /\ Plain(f) \in closure
<1> DEFINE S == {g \in Sources : Plain(g) \in closure}
           E == {e \in TextEdges : e[2] \in Sources /\ program.name[e[2]] = e[2]}
<1>1. S \in SUBSET Functions
  BY DEF SourceAssumption
<1>2. Root \in S
  BY DEF SourceAssumption, IInv, WorklistInv, Done
<1>3. Closed(S, E)
  BY TextFollowed DEF Closed
<1>4. Reach(Root, E) \subseteq S
  BY <1>1, <1>2, <1>3, ReachLeast
<1>5. QED
  BY <1>4 DEF Traced

\* A site that the patterns match is classified in every function the source they
\* read leads to (island_icall_audit.py:261).
THEOREM SitesCovered ==
    ASSUME SourceAssumption, ProgramAssumption
    PROVE  Spec => []SitesComplete
<1>1. ASSUME IInv, audit = "icall", Done, NEW f \in Traced
      PROVE  TextRefs(f) \subseteq Sites
  <2>1. f \in Sources /\ Plain(f) \in closure
    BY <1>1, TracedClosed
  <2>2. Base(Plain(f)) = f
    BY <2>1, PlainTyped DEF SourceAssumption
  <2>3. QED
    BY <2>1, <2>2 DEF Sites, TextRefs
<1>2. IInv => SitesComplete
  BY <1>1 DEF SitesComplete
<1>3. QED
  BY <1>2, Invariance, PTL

\* An unresolved slot refuses the entry that may need it, where every function on
\* the way has a symbol and the patterns read it (island_gl_reach.py:357).
THEOREM SlotsCovered ==
    ASSUME SourceAssumption, ProgramAssumption
    PROVE  Spec => []SlotsComplete
<1>1. ASSUME IInv, audit = "gl", Done, NEW f \in TracedInBinary
      PROVE  TextRefs(f) \cap Unresolved \subseteq Missing
  <2> DEFINE S == {g \in Sources : \E n \in closure : Base(n) = program.name[g]}
             E == {e \in TextEdges : e[2] \in Sources /\ Plain(e[2]) \in emitted}
  <2>1. S \in SUBSET Functions
    BY DEF SourceAssumption
  <2>2. Root \in S
    <3>1. Plain(Root) \in closure /\ Base(Plain(Root)) = Root /\ program.name[Root] = Root
      BY <1>1, TextTyped, PlainTyped DEF SourceAssumption, IInv, WorklistInv, Done, NamesAgree
    <3>2. QED
      BY <3>1 DEF SourceAssumption
  <2>3. Closed(S, E)
    <3> SUFFICES ASSUME NEW e \in E, e[1] \in S PROVE e[2] \in S
      BY DEF Closed
    <3>1. Plain(program.name[e[2]]) \in closure
      BY <1>1, TextFollowed
    <3>2. e[2] \in Functions /\ program.name[e[2]] \in Functions
      BY <1>1, TextTyped DEF SourceAssumption, Text, IInv
    <3>3. Base(Plain(program.name[e[2]])) = program.name[e[2]]
      BY <3>2, PlainTyped
    <3>4. QED
      BY <3>1, <3>3
  <2>4. f \in S
    BY <1>1, <2>1, <2>2, <2>3, ReachLeast DEF TracedInBinary
  <2>5. QED
    BY <2>4 DEF Missing, Need, TextRefs
<1>2. IInv => SlotsComplete
  BY <1>1 DEF SlotsComplete
<1>3. QED
  BY <1>2, Invariance, PTL

\* What is called or dispatched to and not inlined has a symbol.
LEMMA EmittedTarget ==
    ASSUME SourceAssumption, ProgramAssumption, IInv, NEW e \in TextEdges, e \notin inlined
    PROVE  \E t \in emitted : Base(t) = e[2]
<1>0. e[1] \in Functions /\ e[2] \in Functions /\ e = <<e[1], e[2]>>
  BY DEF TextEdges
<1>1. CASE e[2] \notin Static \/ e[2] \in AddressTaken(program)
  <2>1. Plain(e[2]) \in emitted
    BY <1>0, <1>1 DEF IInv, BinaryInv, Emissions
  <2>2. QED
    BY <1>0, <2>1, PlainTyped
<1>2. CASE e[2] \in Static /\ e[2] \notin AddressTaken(program)
  <2>0. program.uses[e[1]] \subseteq Members
    BY <1>0, TextTyped DEF IInv, Text
  <2>1. e[2] \in program.calls[e[1]]
    BY <1>2, <2>0 DEF TextEdges, AddressTaken
  <2>2. e \in CallEdges(program)
    BY <1>0, <1>2, <2>1 DEF SourceAssumption, CallEdges
  <2>3. emitted \cap ({e[2]} \X Forms) # {}
    BY <2>2 DEF IInv, BinaryInv, Copies
  <2>4. QED
    BY <2>3 DEF Base
<1>3. QED
  BY <1>1, <1>2

\* An object whose references the analyser reads is in the report, in every
\* function the source leads to (island_mutable_state_audit.py:197), though its
\* mention may have been copied into a caller and its own function dropped.
THEOREM ObjectsCovered ==
    ASSUME SourceAssumption, ProgramAssumption
    PROVE  Spec => []ObjectsComplete
<1>1. ASSUME IInv, audit = "state", Done, NEW f \in Traced, NEW x \in program.refs[f],
             Readable(f, x)
      PROVE  x \in Objects
  <2> DEFINE S == {g \in Sources : /\ Plain(g) \in closure
                                   /\ \E s \in Audited : g \in Body(Base(s))}
             E == {e \in TextEdges : e[2] \in Sources /\ program.name[e[2]] = e[2]}
  <2>0. S \in SUBSET Functions /\ emitted \subseteq Symbols
    BY <1>1 DEF SourceAssumption, IInv, TypeOK
  <2>1. Root \in S
    <3>1. Plain(Root) \in closure /\ Plain(Root) \in emitted
      BY <1>1 DEF SourceAssumption, IInv, WorklistInv, BinaryInv, Emissions, Done
    <3>2. Name(Plain(Root)) = Plain(Root) /\ Base(Plain(Root)) = Root
      BY <1>1, TextTyped, PlainTyped DEF SourceAssumption, NamesAgree, IInv
    <3>3. Plain(Root) \in Audited
      BY <3>1, <3>2 DEF Audited
    <3>4. QED
      BY <3>1, <3>2, <3>3, BodyClosed DEF SourceAssumption
  <2>2. Closed(S, E)
    <3> SUFFICES ASSUME NEW e \in E, e[1] \in S PROVE e[2] \in S
      BY DEF Closed
    <3>0. e[1] \in Functions /\ e[2] \in Functions /\ e = <<e[1], e[2]>>
      BY DEF TextEdges
    <3>1. Plain(e[2]) \in closure
      BY <1>1, TextFollowed
    <3>2. PICK s \in Audited : e[1] \in Body(Base(s))
      OBVIOUS
    <3>3. Base(s) \in Functions
      BY <1>1, <2>0, BaseTyped DEF Audited, IInv
    <3>4. CASE e \in inlined
      <4>1. e[2] \in Body(Base(s))
        BY <3>0, <3>2, <3>3, <3>4, BodyClosed
      <4>2. QED
        BY <3>1, <4>1
    <3>5. CASE e \notin inlined
      <4>1. PICK t \in emitted : Base(t) = e[2]
        BY <1>1, <3>5, EmittedTarget
      <4>2. Base(Name(t)) = e[2]
        BY <1>1, <2>0, <4>1, BaseTyped DEF IInv
      <4>3. t \in Audited
        BY <3>1, <4>2 DEF Audited
      <4>4. e[2] \in Body(Base(t))
        BY <3>0, <4>1, BodyClosed
      <4>5. QED
        BY <3>1, <4>3, <4>4
    <3>6. QED
      BY <3>4, <3>5
  <2>3. f \in S
    BY <1>1, <2>0, <2>1, <2>2, ReachLeast DEF Traced
  <2>4. PICK s \in Audited : f \in Body(Base(s))
    BY <2>3
  <2>5. <<s, x>> \notin missed
    BY <1>1, <2>4 DEF Readable, Audited
  <2>6. x \in Items
    BY <1>1, <2>0, <2>3, TextTyped DEF Text, IInv
  <2>7. QED
    BY <2>4, <2>5, <2>6 DEF Objects
<1>2. IInv => ObjectsComplete
  BY <1>1 DEF ObjectsComplete
<1>3. QED
  BY <1>2, Invariance, PTL

\* An entry island_reach.py:151 prints as safe to arm runs no abort stub, whatever
\* the compiler inlined, cloned or dropped on the way to it, unless through a call
\* that the patterns do not match in some copy of it.
THEOREM SafeEntries ==
    ASSUME SourceAssumption, ProgramAssumption
    PROVE  Spec => []SafeEntryRunsNoStub
<1>1. ASSUME IInv, audit = "reach", Done, Safe
      PROVE  Reporter \notin Reach(Root, CodeEdges)
  <2> DEFINE S == {g \in Functions \ {Reporter} :
                     \E s \in emitted : Name(s) \in closure /\ g \in Body(Base(s))}
  <2>0. emitted \subseteq Symbols /\ closure \subseteq ByName /\ S \in SUBSET Functions
    BY <1>1 DEF IInv, TypeOK, BinaryInv
  <2>1. Root \in S
    <3>1. Plain(Root) \in closure /\ Plain(Root) \in emitted
      BY <1>1 DEF SourceAssumption, IInv, WorklistInv, BinaryInv, Emissions, Done
    <3>2. Name(Plain(Root)) = Plain(Root) /\ Base(Plain(Root)) = Root
      BY <1>1, TextTyped, PlainTyped DEF SourceAssumption, NamesAgree, IInv
    <3>3. QED
      BY <3>1, <3>2, BodyClosed DEF SourceAssumption
  <2>2. Closed(S, CodeEdges)
    <3> SUFFICES ASSUME NEW e \in CodeEdges, e[1] \in S PROVE e[2] \in S
      BY DEF Closed
    <3>1. PICK s \in emitted : Name(s) \in closure /\ e[1] \in Body(Base(s))
      OBVIOUS
    <3>2. /\ Base(s) \in Functions /\ Name(s) \in Symbols
          /\ e[1] \in Functions /\ e[2] \in Functions /\ e = <<e[1], e[2]>>
      BY <1>1, <2>0, <3>1, BaseTyped DEF IInv, TypeOK, CodeEdges
    <3>3. CASE e \in inlined
      <4>1. e[2] # Reporter
        BY <1>1, <3>3 DEF CallEdges, Copies, IInv, BinaryInv
      <4>2. QED
        BY <3>1, <3>2, <3>3, <4>1, BodyClosed
    <3>4. CASE e \notin inlined
      <4>1. e[2] \in program.calls[e[1]] /\ <<s, e[2]>> \notin missed
        <5>1. ASSUME NEW m \in program.uses[e[1]], Readable(e[1], m)
              PROVE  FALSE
          <6>1. <<s, m>> \notin missed
            BY <3>1, <5>1 DEF Readable
          <6>2. Name(s) \in Indirect
            BY <3>1, <5>1, <6>1 DEF Indirect
          <6>3. QED
            BY <1>1, <3>1, <6>2 DEF Safe
        <5>2. QED
          BY <3>1, <3>4, <5>1 DEF CodeEdges, Readable
      <4>2. Name(SymbolOf(e[2])) \in CallsOf(Name(s))
        BY <3>1, <3>2, <3>4, <4>1 DEF CallsOf, Called
      <4>3. Name(SymbolOf(e[2])) \in closure
        BY <1>1, <3>1, <4>2 DEF NextOf, ReachNext, IInv, WorklistInv, Done
      <4>4. PICK t \in emitted : t = SymbolOf(e[2])
        <5>1. ASSUME e[2] \notin Static PROVE SymbolOf(e[2]) \in emitted
          BY <1>1, <3>2, <5>1 DEF SymbolOf, IInv, BinaryInv, Emissions
        <5>2. ASSUME e[2] \in Static PROVE SymbolOf(e[2]) \in emitted
          <6>1. e \in CallEdges(program)
            BY <3>2, <4>1, <5>2 DEF SourceAssumption, CallEdges
          <6>2. emitted \cap ({e[2]} \X Forms) # {}
            BY <1>1, <3>4, <6>1 DEF IInv, BinaryInv, Copies
          <6>3. QED
            BY <6>2 DEF SymbolOf, Plain, Forms
        <5>3. QED
          BY <5>1, <5>2
      <4>5. e[2] \in Body(Base(t))
        BY <1>1, <3>2, <4>4, SymbolOfTyped, BodyClosed DEF IInv
      <4>6. e[2] # Reporter
        <5>1. ASSUME e[2] = Reporter PROVE FALSE
          <6>1. Name(SymbolOf(Reporter)) = Plain(Reporter)
            <7>1. <<Reporter, "clone">> \notin emitted
              BY <1>1 DEF SourceAssumption, IInv, BinaryInv, Emissions, Plain
            <7>2. QED
              BY <1>1, <3>2, <5>1, <7>1, PlainTyped, TextTyped DEF SymbolOf, NamesAgree, IInv
          <6>2. Name(s) \in Stubs
            BY <3>1, <4>2, <5>1, <6>1 DEF Stubs, ByName
          <6>3. QED
            BY <1>1, <3>1, <6>2 DEF Safe
        <5>2. QED
          BY <5>1
      <4>7. QED
        BY <3>2, <4>3, <4>4, <4>5, <4>6
    <3>5. QED
      BY <3>3, <3>4
  <2>3. QED
    BY <2>0, <2>1, <2>2, ReachLeast
<1>2. IInv => SafeEntryRunsNoStub
  BY <1>1 DEF SafeEntryRunsNoStub
<1>3. QED
  BY <1>2, Invariance, PTL
=============================================================================
