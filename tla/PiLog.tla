---- MODULE PiLog ----
(***************************************************************************)
(* pi's sessions as the engine reads them                                    *)
(* (packages/engine/src/session-adapters.ts, parseNativeSession): the calls   *)
(* of a log, without those it has from the session it was forked from, each   *)
(* with the prompt it answers and the time it took.                           *)
(***************************************************************************)
EXTENDS PiTiming

Entries(log) == {log[i] : i \in DOMAIN log}
Ids(log) == {e.id : e \in Entries(log)}

InheritedBroken(f) ==   \* of a fork's entries, those of its own
    LET Parents(g) == IF forkedFrom[g] \in present THEN Ids(logs[forkedFrom[g]]) ELSE {}
    IN  IF forkedFrom[f] \in present THEN Ids(logs[forkedFrom[f]]) \ Parents(forkedFrom[f]) ELSE {}

\* The entries a fork has in common with the file it came from, while that exists.
Inherited(f) == IF forkedFrom[f] \in present THEN Ids(logs[forkedFrom[f]]) ELSE {}

\* The measurement that names the entry, or one that names none but the response:
\* of several the last.
Measures(t) == t.body.kind = "timing"
NamesEntry(t, a) == Measures(t) /\ t.body.message = a.id
NamesResponse(t, a) ==
    Measures(t) /\ t.body.message = Null /\ t.body.response # Null /\ t.body.response = a.body.response
LastOf(log, found) == log[CHOOSE i \in found : \A j \in found : j <= i].body
TimingOf(log, a) ==
    LET named == {i \in DOMAIN log : NamesEntry(log[i], a)}
        same == {i \in DOMAIN log : NamesResponse(log[i], a)}
    IN  IF named # {} THEN LastOf(log, named) ELSE IF same # {} THEN LastOf(log, same) ELSE Null

\* piEntryWindow
Window(t) == IF t.own \notin {Null, 0} THEN t.own ELSE IF t.span > 0 THEN t.span ELSE Null

Positive(x) == IF x = 0 THEN Null ELSE x

\* The prompt each entry goes on from: its own, or that of its parent if that came before it.
ParentsOf(log, i, remembered) == {j \in remembered : j < i /\ log[j].id = log[i].parent}
PromptBy(log, remembered) ==
    LET prompt[i \in DOMAIN log] ==
            LET parents == ParentsOf(log, i, remembered)
            IN  IF log[i].body.kind = "user" THEN log[i].id
                ELSE IF parents = {} THEN Null ELSE prompt[CHOOSE j \in parents : TRUE]
    IN  prompt
ContextsBroken(log) == PromptBy(log, {i \in DOMAIN log : ~Measures(log[i])})   \* only messages are remembered
Contexts(log) == PromptBy(log, DOMAIN log)

\* The turns of a file: its messages, and the compactions, which cost tokens too.
IsCall(e) == e.body.kind \in {"assistant", "compaction"}
TurnAt(log, i) ==
    LET a == log[i]
        t == TimingOf(log, a)
        Ttft == IF t = Null THEN Null ELSE t.ttft
        Duration == IF a.body.own # Null THEN Positive(a.body.own) ELSE IF t = Null THEN Null ELSE Window(t)
    IN  [id |-> a.id, prompt |-> Contexts(log)[i],
         ttft |-> IF a.body.kind = "assistant" THEN Ttft ELSE Null,
         duration |-> IF a.body.kind = "assistant" THEN Duration ELSE Null]
Turns(f) == {TurnAt(logs[f], i) : i \in {i \in DOMAIN logs[f] : IsCall(logs[f][i]) /\ logs[f][i].id \notin Inherited(f)}}

---------------------------------------------------------------------------
EntryOf(f, id) == CHOOSE e \in Entries(logs[f]) : e.id = id

\* README of the extension: a request is timed as it was itself, from the attempt
\* that made the message to its first token, whatever retries, stopped turns,
\* compactions and switches of the extension came before or between; and one that
\* was measured to the end has its measurement (the handlers and TimingOf).
TimingIsOwn ==
    \A f \in present : \A t \in Turns(f) :
        LET e == EntryOf(f, t.id)
            a == e.body
        IN  a.kind = "assistant" =>
                /\ t.ttft \in {Null, a.wait}
                /\ IF a.own # Null THEN t.duration = Positive(a.own) ELSE t.duration \in {Null, a.span}
                /\ e.id \in timed /\ a.made = f => t.ttft = a.wait

\* What a request cost is counted, in the session it was made in while that is
\* there, and in a fork only once the file it came from is gone (inherited).
SpendCountedOnce ==
    \A f \in present : \A e \in {e \in Entries(logs[f]) : IsCall(e)} :
        LET made == e.body.made
            counting == {g \in present : \E t \in Turns(g) : t.id = e.id}
        IN  /\ counting # {}
            /\ made \in present => made \in counting
            /\ \A g \in counting : made = g \/ forkedFrom[g] \notin present

\* The prompt an entry goes on from, by the parents of its branch.
LastSaid(f) ==
    LET said[i \in Ids(logs[f]) \cup {Null}] ==
            IF i = Null THEN Null
            ELSE LET e == EntryOf(f, i) IN IF e.body.kind = "user" THEN i ELSE said[e.parent]
    IN  said

\* A call answers the last prompt on its own branch, though prompts of other
\* branches and measurements of other calls lie between them in the file (contexts).
PromptIsOfBranch == \A f \in present : \A t \in Turns(f) : t.prompt = LastSaid(f)[t.id]

====
