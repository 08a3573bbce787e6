----------------------------- MODULE ListenerAbi -----------------------------
(***************************************************************************)
(* audit_listener_abi.py and the bridge it audits.  For one listener class *)
(* the protocol's header gives callbacks in order, each with a signature;  *)
(* Box86 has a struct of fields, a native callback for each with its own   *)
(* parameters and the format it passes on, and an initialiser.  When the   *)
(* compositor sends an event libwayland calls the native table's entry of  *)
(* that number with the protocol's arguments; the callback calls the guest *)
(* table's word of its own field.  The guest's table follows the protocol. *)
(*                                                                         *)
(* An audit that passes should mean that every event that may be sent      *)
(* reaches the guest's callback of that event with its arguments.          *)
(***************************************************************************)
EXTENDS Naturals, Sequences, FiniteSets

CONSTANTS
    Names,      \* names a callback can have
    Sigs,       \* signatures
    Gated,      \* the allow-list: <<name, signature>> the port may omit
    Missing     \* no callback, no format

ListenerAbiAssumption ==
    /\ Gated \subseteq Names \X Sigs /\ Missing \notin Names \cup Sigs

VARIABLES
    required,   \* the class is one Wine installs
    protocol,   \* the header's callbacks, or <<>>
    fields,     \* the struct: callbacks with name, parameters and format, or <<>>
    init,       \* the initialiser's names
    verdict,    \* "none", "pass" or "fail"
    called      \* the last event: its number, the guest word called and its arguments

vars == <<required, protocol, fields, init, verdict, called>>

Upto(n, S) == UNION {[1..k -> S] : k \in 0..n}
Distinct(s, F(_)) == \A i, j \in DOMAIN s : F(s[i]) = F(s[j]) => i = j
First(x) == x[1]
NameOf(x) == x.name
IsGated(c) == <<c[1], c[2]>> \in Gated

\* Protocols grow at their end: what is newer than the bound version is last.
Protocols ==
    {p \in Upto(3, Names \X Sigs) :
        /\ Distinct(p, First)
        /\ \A i, j \in DOMAIN p : (i < j /\ IsGated(p[i])) => IsGated(p[j])}
Fields == {f \in Upto(2, [name : Names, params : Sigs \cup {Missing}, format : Sigs \cup {Missing}]) :
              /\ Distinct(f, NameOf)
              /\ \A i \in DOMAIN f : f[i].params = Missing => f[i].format = Missing}

Init ==
    /\ required \in BOOLEAN
    /\ protocol \in Protocols /\ fields \in Fields
    /\ init \in Upto(2, {fields[i].name : i \in DOMAIN fields})
    /\ verdict = "none" /\ called = <<>>

\* What the headers and the source say of a name.
Wanted(n) == IF \E i \in DOMAIN protocol : protocol[i][1] = n
             THEN (CHOOSE c \in {protocol[i] : i \in DOMAIN protocol} : c[1] = n)[2] ELSE Missing
Got(n) == IF \E i \in DOMAIN fields : fields[i].name = n
          THEN (CHOOSE f \in {fields[i] : i \in DOMAIN fields} : f.name = n).params ELSE Missing

Common == protocol # <<>> /\ fields # <<>>
Named == {protocol[i][1] : i \in DOMAIN protocol} \cup {fields[i].name : i \in DOMAIN fields}
Observed == {<<n, Wanted(n), Got(n)>> : n \in {m \in Named : Common /\ Wanted(m) # Got(m)}}
Allowed == {<<g[1], g[2], Missing>> : g \in Gated}
\* Mutant: the struct's order is not compared.
OrderAsIs == {fields[i].name : i \in DOMAIN fields} \subseteq {protocol[i][1] : i \in DOMAIN protocol}
\* The struct lists the protocol's callbacks in order, the gated ones left out.
OrderHolds ==
    [i \in DOMAIN fields |-> fields[i].name]
      = LET kept == SelectSeq(protocol, LAMBDA c : ~IsGated(c)) IN [i \in DOMAIN kept |-> kept[i][1]]
InitHolds == init = [i \in DOMAIN fields |-> fields[i].name]
FormatsHold == \A i \in DOMAIN fields : fields[i].format = fields[i].params

\* The audit's conditions; the allow-list must be observed to the letter.
Passes ==
    /\ required => protocol # <<>> /\ fields # <<>>
    /\ Common => OrderHolds /\ InitHolds /\ FormatsHold
    /\ Observed = Allowed

Audit ==
    /\ verdict = "none"
    /\ verdict' = IF Passes THEN "pass" ELSE "fail"
    /\ UNCHANGED <<required, protocol, fields, init, called>>

\* Event i: the native callback is init[i]; with the wrong parameters it reads
\* other arguments, without one or past the table's end nothing sane runs.
Outcome(i) ==
    LET sent == protocol[i][2]
        f == CHOOSE x \in {fields[j] : j \in DOMAIN fields} : x.name = init[i]
        word == CHOOSE j \in DOMAIN fields : fields[j].name = init[i]
    IN IF i \notin DOMAIN init \/ f.params # sent \/ f.format # sent \/ word \notin DOMAIN protocol
       THEN <<i, Missing, Missing>>
       ELSE <<i, protocol[word][1], sent>>

\* The compositor sends an event the bound version has.
Event(i) ==
    /\ verdict = "pass" /\ Common /\ ~IsGated(protocol[i])
    /\ called' = Outcome(i)
    /\ UNCHANGED <<required, protocol, fields, init, verdict>>

Next == Audit \/ \E i \in DOMAIN protocol : Event(i)

Spec == Init /\ [][Next]_vars

-----------------------------------------------------------------------------
TypeOK ==
    /\ verdict \in {"none", "pass", "fail"} /\ required \in BOOLEAN
    /\ called # <<>> => verdict = "pass"
    /\ verdict = "pass" /\ required => Common

\* After an audit that passed, every event the bound version has calls the
\* guest's callback of that event with the arguments that were sent.
EventsReachTheirCallback ==
    called # <<>> => called = <<called[1], protocol[called[1]][1], protocol[called[1]][2]>>

\* The allow-list stays exact: when an audit passes, each omission it allows is
\* one of the protocol's and is really left out of the bridge.
AllowListIsExact ==
    verdict = "pass" => \A g \in Gated :
        /\ \E i \in DOMAIN protocol : protocol[i] = g
        /\ \A i \in DOMAIN fields : fields[i].name # g[1]

\* A bridge that does right by every event and omits only what is gated passes.
RightBridgePasses ==
    verdict = "fail" =>
        \/ protocol = <<>> \/ fields = <<>>
        \/ {c \in {protocol[i] : i \in DOMAIN protocol} : IsGated(c)} # Gated
        \/ fields # LET kept == SelectSeq(protocol, LAMBDA c : ~IsGated(c))
                    IN [i \in DOMAIN kept |-> [name |-> kept[i][1], params |-> kept[i][2], format |-> kept[i][2]]]
        \/ init # [i \in DOMAIN fields |-> fields[i].name]
=============================================================================
