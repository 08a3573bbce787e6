----------------------------- MODULE SourceScan -----------------------------
(***************************************************************************)
(* The two readers of the WineD3D sources that the island audits join with *)
(* the binary: functions_by_file() of island_icall_audit.py, which works   *)
(* on the lines as written, and scan_functions() of island_gl_reach.py,    *)
(* which works on preprocessed text.  Neither is a parser: both count      *)
(* braces.  A file grows here line by line, as C in the style of WineD3D   *)
(* may be written, and both readers follow it.                             *)
(*                                                                         *)
(* A line is [col0, toks]: does it start in column 0, and its tokens.  A   *)
(* token is a name or one of the punctuators; "quoted" is a literal and    *)
(* "comment" a comment, both with a brace inside.                          *)
(***************************************************************************)
EXTENDS Integers, Sequences, FiniteSets, SequencesExt

CONSTANTS Names,      \* the functions of the file
          MaxLines,   \* bound on the file's length
          MaxDepth    \* bound on the nesting of blocks

Puncts == {"(", ")", "{", "}", ";", "=", "quoted", "comment", "if", "attribute", "type"}
Words == Names \cup {"if", "attribute", "type"}
NamesAssumption == Names \cap (Puncts \cup {"none", "clipped"}) = {}

NoName == "none"
Clipped == "clipped"   \* a word without its first letter: no name of the file

VARIABLES
    lines,     \* the number of lines written
    place,     \* where the writer is: "file", "split", "signature", "table", "body"
    nest,      \* the writer's depth of braces
    writing,   \* the function being written
    defined,   \* the functions written so far, each with the functions it calls
    byFile,    \* functions_by_file(): cur, depth, seen, calls of cur, out
    scan       \* scan_functions(): depth, current, text before it, calls, definitions

vars == <<lines, place, nest, writing, defined, byFile, scan>>

-----------------------------------------------------------------------------
(* functions_by_file() *)

\* mask_c_lines(): literals and comments become blanks before braces count.
Mask(toks) == SelectSeq(toks, LAMBDA t : t \notin {"quoted", "comment"})

Count(toks, t) == Cardinality({i \in DOMAIN toks : toks[i] = t})
Has(toks, t) == Count(toks, t) > 0
FirstParen(toks) == CHOOSE i \in DOMAIN toks :
                        toks[i] = "(" /\ \A j \in 1..(i - 1) : toks[j] # "("

\* FUNC_DEF: words up to a parenthesis, no semicolon on the line; the word before
\* the parenthesis, unless it is a keyword or starts with "__".  One letter of the
\* line goes before the word it captures: of a line that opens with the word, as a
\* decoration does, that is the word's first ("_attribute__" passes).
Candidate(line) ==
    LET toks == Mask(line.toks)
    IN IF line.col0 /\ ~Has(toks, ";") /\ Len(toks) > 1 /\ toks[1] \in Words /\ toks[2] = "("
       THEN Clipped
       ELSE
       IF /\ line.col0 /\ Has(toks, "(") /\ ~Has(toks, ";")
          /\ FirstParen(toks) > 1
          /\ \A j \in 1..(FirstParen(toks) - 1) : toks[j] \in Words
          /\ toks[FirstParen(toks) - 1] \notin {"if", "attribute"}
       THEN toks[FirstParen(toks) - 1]
       ELSE NoName

\* The callees a reader of a body finds: a word and a parenthesis.
CallsIn(toks) == {toks[i] : i \in {j \in 1..(Len(toks) - 1) :
                                      toks[j] \in Names /\ toks[j + 1] = "("}}

\* out.setdefault(): the first definition of a name stays.
Recorded(out, f, calls) ==
    IF f \in DOMAIN out THEN out
    ELSE [g \in DOMAIN out \cup {f} |-> IF g = f THEN calls ELSE out[g]]

\* Mutant: a split prototype stays open.
ReadLine_NoDeclarations(st, line) ==
    LET toks == Mask(line.toks)
        cand == Candidate(line)
        grown == st.depth + Count(toks, "{") - Count(toks, "}")
        seen == st.seen \/ Has(toks, "{")
    IN CASE st.cur = NoName /\ cand = NoName -> st
         [] cand # NoName /\ ~(st.cur # NoName /\ st.seen) ->
              [st EXCEPT !.cur = cand, !.depth = 0, !.seen = FALSE, !.calls = {}]
         [] OTHER ->
              IF seen /\ grown <= 0
              THEN [st EXCEPT !.cur = NoName, !.out = Recorded(@, st.cur, st.calls)]
              ELSE [st EXCEPT !.depth = grown, !.seen = seen]

ReadLine(st, line) ==
    LET toks == Mask(line.toks)
        cand == Candidate(line)
        grown == st.depth + Count(toks, "{") - Count(toks, "}")
        seen == st.seen \/ Has(toks, "{")
        calls == st.calls \cup CallsIn(line.toks)
    IN CASE st.cur = NoName /\ cand = NoName -> st
         [] \/ st.cur = NoName /\ cand # NoName
            \/ st.cur # NoName /\ ~st.seen /\ cand # NoName ->
              [st EXCEPT !.cur = cand, !.depth = 0, !.seen = FALSE,
                         !.calls = CallsIn(line.toks)]
         [] st.cur # NoName /\ ~st.seen /\ cand = NoName /\ Last(<<";">> \o toks) = ";" ->
              [st EXCEPT !.cur = NoName]
         [] OTHER ->
              IF seen /\ grown <= 0
              THEN [st EXCEPT !.cur = NoName, !.out = Recorded(@, st.cur, calls)]
              ELSE [st EXCEPT !.depth = grown, !.seen = seen, !.calls = calls]

-----------------------------------------------------------------------------
(* scan_functions() *)

\* The identifier left of the parenthesis that the last one of text closes.
SignatureName(text) ==
    LET j == Len(text)
        Opens(k) == /\ text[k] = "("
                    /\ Count(SubSeq(text, k, j), "(") = Count(SubSeq(text, k, j), ")")
        k == CHOOSE m \in 1..j : Opens(m) /\ \A n \in (m + 1)..j : ~Opens(n)
    IN IF k > 1 /\ text[k - 1] \in Words THEN text[k - 1] ELSE NoName

ScanToken(st, t) ==
    CASE t = "quoted" \/ t = "comment" -> st
      [] t = "{" ->
           [st EXCEPT !.depth = @ + 1,
                      !.current = IF st.depth = 0 /\ st.text # <<>> /\ Last(st.text) = ")"
                                  THEN SignatureName(st.text) ELSE @,
                      !.body = IF st.depth = 0 THEN <<>> ELSE @]
      [] t = "}" ->
           IF st.depth = 1 /\ st.current # NoName
           THEN [st EXCEPT !.depth = 0, !.current = NoName, !.text = <<>>,
                           !.calls[st.current] = @ \cup CallsIn(st.body),
                           !.definitions = @ \cup {st.current}]
           ELSE [st EXCEPT !.depth = @ - 1, !.text = IF st.depth = 1 THEN <<>> ELSE @]
      [] st.depth = 0 -> [st EXCEPT !.text = IF t = ";" THEN <<>> ELSE Append(@, t)]
      [] OTHER -> [st EXCEPT !.body = Append(@, t)]

ScanLine(st, line) == FoldLeft(ScanToken, st, line.toks)

-----------------------------------------------------------------------------
(* The writer: C as WineD3D is written.  A definition starts in column 0    *)
(* and its opening brace stands on a line of its own.                        *)

Init == /\ lines = 0 /\ place = "file" /\ nest = 0 /\ writing = NoName
        /\ defined = [f \in {} |-> {}]
        /\ byFile = [cur |-> NoName, depth |-> 0, seen |-> FALSE, calls |-> {},
                     out |-> [f \in {} |-> {}]]
        /\ scan = [depth |-> 0, current |-> NoName, text |-> <<>>, body |-> <<>>,
                   calls |-> [f \in Names |-> {}], definitions |-> {}]

Write(col0, toks) ==
    /\ lines < MaxLines
    /\ lines' = lines + 1
    /\ byFile' = ReadLine(byFile, [col0 |-> col0, toks |-> toks])
    /\ scan' = ScanLine(scan, [col0 |-> col0, toks |-> toks])

At(p, q) == place = p /\ place' = q

Prototype(f) == /\ At("file", "file")
                /\ Write(TRUE, <<"type", f, "(", "type", ")", ";">>)
                /\ UNCHANGED <<nest, writing, defined>>

Attribute == /\ At("file", "file")
             /\ Write(TRUE, <<"attribute", "(", "(", "type", ")", ")">>)
             /\ UNCHANGED <<nest, writing, defined>>

Table == /\ At("file", "table")
         /\ Write(TRUE, <<"type", "type", "=", "{">>)
         /\ nest' = 1 /\ UNCHANGED <<writing, defined>>

\* The first line of a definition whose parameters go on, or a complete one.
Signature(f) ==
    /\ place = "file" /\ f \notin DOMAIN defined
    /\ writing' = f /\ UNCHANGED <<nest, defined>>
    /\ \/ place' = "split" /\ Write(TRUE, <<"type", f, "(", "type">>)
       \/ place' = "signature"
          /\ Write(TRUE, <<"type", f, "(", "(", "type", ")", "type", ")">>)

\* A prototype may be split as a definition is: only its end tells.
Parameters(definition) ==
    /\ place = "split"
    /\ place' = IF definition THEN "signature" ELSE "file"
    /\ writing' = IF definition THEN writing ELSE NoName
    /\ Write(FALSE, IF definition THEN <<"type", ")">> ELSE <<"type", ")", ";">>)
    /\ UNCHANGED <<nest, defined>>

Brace == /\ At("signature", "body")
         /\ Write(TRUE, <<"{">>)
         /\ nest' = 1 /\ UNCHANGED <<writing, defined>>

Called(g) == [f \in DOMAIN defined \cup {writing} |->
                IF f = writing
                THEN (IF f \in DOMAIN defined THEN defined[f] ELSE {}) \cup g
                ELSE defined[f]]

Statement(g, literal) ==
    /\ At("body", "body")
    /\ Write(FALSE, IF literal THEN <<g, "(", "quoted", ")", ";">>
                               ELSE <<g, "(", ")", ";", "comment">>)
    /\ defined' = Called({g}) /\ UNCHANGED <<nest, writing>>

Block == /\ At("body", "body") /\ nest < MaxDepth
         /\ Write(FALSE, <<"if", "(", "type", ")", "{">>)
         /\ nest' = nest + 1 /\ defined' = Called({}) /\ UNCHANGED writing

Row == /\ At("table", "table")
       /\ Write(FALSE, <<"{", "quoted", "type", "}">>)
       /\ UNCHANGED <<nest, writing, defined>>

Close ==
    /\ place \in {"table", "body"}
    /\ nest' = nest - 1
    /\ place' = IF nest = 1 THEN "file" ELSE place
    /\ Write(nest = 1, IF place = "table" THEN <<"}", ";">> ELSE <<"}">>)
    /\ writing' = IF nest = 1 THEN NoName ELSE writing
    /\ defined' = IF place = "body" THEN Called({}) ELSE defined

Next == \/ \E f \in Names : Prototype(f) \/ Signature(f)
        \/ \E d \in BOOLEAN : Parameters(d)
        \/ \E g \in Names, l \in BOOLEAN : Statement(g, l)
        \/ Attribute \/ Table \/ Brace \/ Block \/ Row \/ Close

Spec == Init /\ [][Next]_vars

-----------------------------------------------------------------------------
TypeOK == /\ lines \in 0..MaxLines
          /\ place \in {"file", "split", "signature", "table", "body"}
          /\ nest \in 0..MaxDepth
          /\ writing \in Names \cup {NoName}
          /\ DOMAIN defined \subseteq Names
          /\ DOMAIN byFile.out \subseteq Names \cup {"type", Clipped}
          /\ scan.definitions \subseteq Names

\* island_icall_audit.py:144: between definitions no function of the file is
\* missing from the map or swallowed by its predecessor, and none of the calls of
\* its body is: braces in literals and comments, decoration lines, split
\* signatures, prototypes and tables do not shift an extent.
ExtentsFound ==
    place = "file" =>
        \A f \in DOMAIN defined : f \in DOMAIN byFile.out
                                  /\ defined[f] \subseteq byFile.out[f]

\* The reader never stays inside a function that ended: between definitions it
\* holds nothing open but a decoration line, which the next candidate replaces, and
\* of that no brace.
NoExtentLeaks ==
    place = "file" => byFile.cur = NoName \/ (byFile.cur = Clipped /\ ~byFile.seen)

\* island_gl_reach.py:182: between definitions the preprocessed reader has exactly
\* the functions of the file, with exactly their calls.
ScanExact ==
    place = "file" =>
        /\ scan.definitions = DOMAIN defined
        /\ \A f \in DOMAIN defined : scan.calls[f] = defined[f]

=============================================================================
