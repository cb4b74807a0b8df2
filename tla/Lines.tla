---- MODULE Lines ----
(***************************************************************************)
(* What is in a session file (packages/engine/src/parse-jsonl.ts,            *)
(* snapshot.ts, session-adapters.ts), stated by positions: an event is a      *)
(* line that holds one valid object, closed by a newline or by the end of     *)
(* the file; an error is a closed line that is neither valid nor blank, at    *)
(* the offset where it starts.                                               *)
(***************************************************************************)
EXTENDS Naturals, SequencesExt

CONSTANT None

NL == <<"nl">>
End == <<"end">>      \* the brace that closes a line's object
Turn == <<"turn">>    \* the rest of a codex event
Native == <<"native">>  \* the rest of an event only dsh writes
IsMeta(sym) == sym[1] = "meta"   \* <<"meta", id, is a subagent's>>

\* parseJsonlLine accepts the line: one object, complete.
Valid(line) == Len(line) = 2 /\ line[1] \notin {NL, End} /\ line[2] = End

Codex(events) == Native \notin Range(events)
Metas(events) == {i \in DOMAIN events : IsMeta(events[i])}

\* extractSessionInfo: the first session_meta names the session.
Info(events) ==
    IF Metas(events) = {} THEN [id |-> None, sub |-> FALSE]
    ELSE LET first == events[Min(Metas(events))] IN [id |-> first[2], sub |-> first[3]]

\* What the snapshot's turns are computed from: the ledger's identity and food.
LedgerOf(events) ==
    IF Codex(events)
    THEN [id |-> Info(events).id, sub |-> Info(events).sub, fed |-> events]
    ELSE [id |-> None, sub |-> FALSE, fed |-> <<>>]   \* parsed by an adapter

LineStarts(c) == {1} \cup {i + 1 : i \in {j \in 1..Len(c) : c[j] = NL}}
LineEnd(c, s) ==
    CHOOSE e \in s..(Len(c) + 1) :
        /\ e = Len(c) + 1 \/ c[e] = NL
        /\ \A i \in s..(e - 1) : c[i] # NL
LineAt(c, s) == SubSeq(c, s, LineEnd(c, s) - 1)

ValidLines(c) == {s \in LineStarts(c) : Valid(LineAt(c, s))}
WrongLines(c) == {s \in LineStarts(c) : /\ LineEnd(c, s) <= Len(c)
                                        /\ LineAt(c, s) # <<>>
                                        /\ ~Valid(LineAt(c, s))}

\* The positions of a set, in the order of the file.
InOrder(S) == [i \in 1..Cardinality(S) |-> CHOOSE s \in S : Cardinality({p \in S : p < s}) = i - 1]

Full(c) ==
    LET valid == InOrder(ValidLines(c))
        wrong == InOrder(WrongLines(c))
        events == [i \in DOMAIN valid |-> c[valid[i]]]
    IN  [events |-> events,
         errors |-> [i \in DOMAIN wrong |-> wrong[i] - 1],
         ledger |-> LedgerOf(events)]

====
