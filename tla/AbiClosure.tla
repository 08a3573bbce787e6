----------------------------- MODULE AbiClosure -----------------------------
(***************************************************************************)
(* island_abi_closure_audit.py: does the native half of a cut see the same *)
(* bytes as the guest half?  One translation unit is compiled twice, by    *)
(* the guest's compiler (MS bit-field layout) and by an ARM compiler; each *)
(* compiler describes its aggregates in its own DWARF dialect.  The audit  *)
(* decodes both, seeds a worklist with the aggregates the reachable        *)
(* functions name, follows the embedded members and compares the layouts.  *)
(*                                                                         *)
(* The aggregates are 1..3; a type embeds only later ones, as C demands,   *)
(* and is compiled by the rules Place states, from which the DWARF is      *)
(* encoded: what the audit computes is then compared with the truth.       *)
(***************************************************************************)
EXTENDS Integers, Sequences, FiniteSets, SequencesExt

CONSTANTS
    Nameless,    \* the aggregates that have no tag
    Owned,       \* the aggregates the audit's tables class guest-owned or shared
    UnionBits    \* whether a union may hold a bit-field

AbiClosureAssumption ==
    /\ Nameless \subseteq 1..3 /\ Owned \subseteq 1..3 /\ UnionBits \in BOOLEAN

VARIABLES
    src,      \* the source: each aggregate's kind and members
    arm,      \* the layout rule the ARM compiler really follows
    there,    \* both object files exist
    il, al,   \* the decoded layouts, by type; <<>> before they are read
    seeds,    \* the aggregates the reachable functions name
    reach, stack,
    rc        \* the exit code; -1 while running

vars == <<src, arm, there, il, al, seeds, reach, stack, rc>>

Types == 1..3
Named == Types \ Nameless
Base(s) == [m |-> "base", s |-> s, w |-> 0, t |-> 0]
Bit(s, w) == [m |-> "bit", s |-> s, w |-> w, t |-> 0]
Of(m, t) == [m |-> m, s |-> 4, w |-> 0, t |-> t]
Leads(t) == IF t = 3 THEN {Base(1), Bit(1, 4), Bit(4, 4)} ELSE {Base(1), Bit(4, 4)}
Scalars == {Base(4), Bit(1, 4), Bit(4, 4)}
Refs(t) == {Of(m, u) : m \in {"emb", "arr", "ptr"}, u \in {v \in Types : v > t}}

\* A source the compilers accept: two members each, the last type a leaf.
Aggregates(t) ==
    {a \in [kind : {"struct", "union"},
            mem : {<<x, y>> : x \in Leads(t), y \in Scalars \cup Refs(t)}] :
        (a.kind = "union" /\ ~UnionBits) => \A i \in 1..2 : a.mem[i].m # "bit"}

-----------------------------------------------------------------------------
(* The compilers.                                                          *)

RoundUp(x, n) == ((x + n - 1) \div n) * n
Larger(x, y) == IF x > y THEN x ELSE y

\* What a member takes and demands, given the layouts L of what it embeds.
BitsOf(L, m) ==
    CASE m.m \in {"base", "bit", "ptr"} -> 8 * m.s
      [] m.m = "emb" -> 8 * L[m.t].size
      [] m.m = "arr" -> 16 * L[m.t].size
AlignOf(L, m) == IF m.m \in {"emb", "arr"} THEN L[m.t].align ELSE m.s

\* One member placed after those before it.  MS closes a bit-field's storage
\* unit when the next member is not a bit-field of the same size; the ARM ABI
\* packs a bit-field wherever its container still has room.
Place(abi, L, a, m) ==
    LET unit == 8 * m.s
        free == IF abi = "ms" /\ a.u # 0 THEN a.e ELSE a.p
        at == CASE m.m # "bit" -> RoundUp(free, 8 * AlignOf(L, m))
                [] m.m = "bit" /\ abi = "ms" ->
                     IF a.u = unit /\ a.p + m.w <= a.e THEN a.p ELSE RoundUp(free, unit)
                [] OTHER -> IF (a.p % unit) + m.w <= unit THEN a.p ELSE RoundUp(a.p, unit)
    IN [p |-> at + (IF m.m = "bit" THEN m.w ELSE BitsOf(L, m)),
        u |-> IF m.m = "bit" THEN unit ELSE 0,
        e |-> IF at = a.p /\ a.u # 0 THEN a.e ELSE at + unit,
        at |-> Append(a.at, at),
        align |-> Larger(a.align, AlignOf(L, m))]

Empty == [p |-> 0, u |-> 0, e |-> 0, at |-> <<>>, align |-> 1]

LayOut(abi, L, def) ==
    IF def.kind = "struct"
    THEN LET a == FoldLeft(LAMBDA acc, m : Place(abi, L, acc, m), Empty, def.mem)
             end == IF abi = "ms" /\ a.u # 0 THEN a.e ELSE a.p
         IN [size |-> RoundUp(end, 8 * a.align) \div 8, align |-> a.align, at |-> a.at]
    ELSE LET align == Larger(AlignOf(L, def.mem[1]), AlignOf(L, def.mem[2]))
             end == Larger(BitsOf(L, def.mem[1]), BitsOf(L, def.mem[2]))
         IN [size |-> RoundUp(end, 8 * align) \div 8, align |-> align, at |-> <<0, 0>>]

\* The layouts, from the last aggregate to the first.
Compiled(abi, s) ==
    LET third == LayOut(abi, <<>>, s[3])
        second == LayOut(abi, (3 :> third), s[2])
        first == LayOut(abi, (3 :> third) @@ (2 :> second), s[1])
    IN <<first, second, third>>

\* Every leaf of an aggregate: its path, its bit and how many bits it takes.
Shift(set, name, by) == {<<<<name>> \o x[1], x[2] + by, x[3]>> : x \in set}
Leaves(L, s) ==
    LET leaf[t \in Types] ==
          UNION {LET m == s[t].mem[i]
                     at == L[t].at[i]
                 IN CASE m.m = "emb" -> Shift(leaf[m.t], i, at)
                      [] m.m = "arr" -> Shift(leaf[m.t], i, at)
                                          \cup Shift(leaf[m.t], i + 2, at + 8 * L[m.t].size)
                      [] OTHER -> {<<<<i>>, at, IF m.m = "bit" THEN m.w ELSE 8 * m.s>>}
                 : i \in 1..2}
    IN leaf

\* DWARF.  None: an attribute that is not there.  The guest's
\* producer gives a bit-field a storage byte and an offset from its most
\* significant bit, and gives a union's members no location at all; the ARM
\* producer gives absolute bit offsets and explicit zeros.
None == -1
Encode(side, L, s, t, i) ==
    LET m == s[t].mem[i]
        at == L[t].at[i]
        unit == 8 * m.s
        base == [tag |-> m.m, target |-> m.t, size |-> m.s, width |-> m.w,
                 loc |-> None, off |-> None, abs |-> None]
        located == IF s[t].kind = "union" THEN None ELSE ((at \div unit) * unit) \div 8
    IN CASE m.m # "bit" /\ side = "i386" ->
              [base EXCEPT !.loc = IF s[t].kind = "union" THEN None ELSE at \div 8]
         [] m.m # "bit" /\ side = "arm" -> [base EXCEPT !.loc = at \div 8]
         [] m.m = "bit" /\ side = "i386" ->
              [base EXCEPT !.loc = located, !.off = unit - (at % unit) - m.w]
         [] OTHER -> [base EXCEPT !.abs = at]

-----------------------------------------------------------------------------
(* The audit.                                                              *)

\* A member's canonical position.
Decode(d) ==
    IF d.tag = "bit"
    THEN <<"bit", IF d.abs = None /\ d.loc # None
                  THEN d.loc * 8 + d.size * 8 - d.off - d.width ELSE d.abs, d.width>>
    ELSE <<"byte", IF d.loc = None THEN 0 ELSE d.loc, 0>>

\* embedded_aggregate_target of every member: a nameless aggregate has no
\* name to return, and a pointer does not embed what it points to.
Embeds(s, t) ==
    {s[t].mem[i].t : i \in {j \in 1..2 : s[t].mem[j].m \in {"emb", "arr"}}} \ Nameless

\* Mutant: an array aligns as a scalar of unknown size.
InferredAlignNoArray(s, t) ==
    LET inf[x \in Types \X SUBSET Types] ==
          IF x[1] \in x[2] THEN [a |-> 1, seen |-> x[2]]
          ELSE FoldLeft(LAMBDA acc, m :
                   IF m.m = "emb"
                   THEN LET sub == inf[<<m.t, acc.seen>>]
                        IN [a |-> Larger(acc.a, sub.a), seen |-> sub.seen]
                   ELSE [acc EXCEPT !.a = Larger(@, IF m.m = "arr" THEN 1 ELSE m.s)],
                 [a |-> 1, seen |-> x[2] \cup {x[1]}], s[x[1]].mem)
    IN inf[<<t, {}>>].a

\* inferred_align: one seen set is shared by the whole descent, so that an
\* aggregate met a second time counts as 1.
InferredAlign(s, t) ==
    LET inf[x \in Types \X SUBSET Types] ==
          IF x[1] \in x[2] THEN [a |-> 1, seen |-> x[2]]
          ELSE FoldLeft(LAMBDA acc, m :
                   IF m.m \in {"emb", "arr"}
                   THEN LET sub == inf[<<m.t, acc.seen>>]
                        IN [a |-> Larger(acc.a, sub.a), seen |-> sub.seen]
                   ELSE [acc EXCEPT !.a = Larger(@, m.s)],
                 [a |-> 1, seen |-> x[2] \cup {x[1]}], s[x[1]].mem)
    IN inf[<<t, {}>>].a

\* layouts: what the audit reads of one object file.
Layouts(side, abi, s) ==
    LET L == Compiled(abi, s)
    IN [t \in Named |-> [size |-> L[t].size, align |-> InferredAlign(s, t),
                         members |-> <<Decode(Encode(side, L, s, t, 1)),
                                       Decode(Encode(side, L, s, t, 2))>>,
                         edges |-> Embeds(s, t)]]

\* changed: the size, the alignment or a member differs.
Changed(t) == <<il[t].size, il[t].align, il[t].members>>
                # <<al[t].size, al[t].align, al[t].members>>

Hard == {t \in reach : Changed(t) /\ t \in Owned}

Init ==
    /\ src \in {<<a, b, c>> : a \in Aggregates(1), b \in Aggregates(2), c \in Aggregates(3)}
    /\ arm \in {"gnu", "ms"}
    /\ there \in BOOLEAN
    /\ il = <<>> /\ al = <<>>
    /\ seeds = {} /\ reach = {} /\ stack = {}
    /\ rc = -1

\* The unit's objects are read and its functions' words seed the worklist.
Seed ==
    /\ rc = -1 /\ il = <<>> /\ there
    /\ il' = Layouts("i386", "ms", src)
    /\ al' = Layouts("arm", arm, src)
    /\ seeds' \in SUBSET Named
    /\ stack' = seeds'
    /\ UNCHANGED <<src, arm, there, reach, rc>>

\* An object that is not there leaves the whole audit without a verdict.
MissingObject ==
    /\ rc = -1 /\ ~there
    /\ rc' = 2
    /\ UNCHANGED <<src, arm, there, il, al, seeds, reach, stack>>

\* One turn of the worklist.
Visit ==
    /\ rc = -1 /\ il # <<>>
    /\ \E t \in stack :
         /\ reach' = reach \cup {t}
         /\ stack' = (stack \ {t}) \cup (il[t].edges \ (reach \cup {t}))
    /\ UNCHANGED <<src, arm, there, il, al, seeds, rc>>

\* The verdict, once the worklist is empty.
Verdict ==
    /\ rc = -1 /\ il # <<>> /\ stack = {}
    /\ rc' = IF Hard # {} THEN 1 ELSE 0
    /\ UNCHANGED <<src, arm, there, il, al, seeds, reach, stack>>

Next == Seed \/ MissingObject \/ Visit \/ Verdict

Spec == Init /\ [][Next]_vars

-----------------------------------------------------------------------------
TypeOK ==
    /\ arm \in {"gnu", "ms"} /\ there \in BOOLEAN
    /\ seeds \subseteq Named /\ reach \subseteq Named /\ stack \subseteq Named
    /\ rc \in {-1, 0, 1, 2}
    /\ rc \in {0, 1} => stack = {} /\ seeds \subseteq reach

Truth(abi) == Compiled(abi, src)
SameBytes(t) ==
    /\ Leaves(Truth("ms"), src)[t] = Leaves(Truth(arm), src)[t]
    /\ Truth("ms")[t].size = Truth(arm)[t].size

\* However deep the descent and however often an aggregate is met in it, the
\* alignment inferred from the members is the one the compiler used.
AlignIsTrue ==
    il # <<>> /\ rc = -1 /\ reach = {} =>
        \A t \in Named : il[t].align = Truth("ms")[t].align /\ al[t].align = Truth(arm)[t].align

\* When a leaf of an aggregate some function names sits elsewhere in the two
\* builds, at any depth of embedding, a row of the report says so.
DifferenceIsRecorded ==
    rc \in {0, 1} => \A t \in seeds : ~SameBytes(t) => \E u \in reach : Changed(u)

\* A row that differs is about bytes that differ: the two producers' dialects
\* never make equal layouts look different.
NoFalseAlarm ==
    rc \in {0, 1} => \A u \in reach :
        Changed(u) => (~SameBytes(u) \/ Truth("ms")[u].align # Truth(arm)[u].align)

=============================================================================
