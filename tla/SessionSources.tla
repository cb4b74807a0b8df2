---- MODULE SessionSources ----
(***************************************************************************)
(* What the store knows of each session from its own log: logs grow and go,   *)
(* and the store reads them in any order (packages/engine/src/store.ts,       *)
(* ingest.ts).  What happened is kept as names of events; Event gives the     *)
(* rest of them.                                                              *)
(***************************************************************************)
EXTENDS SessionLog

CONSTANTS
    Sessions,
    SourceOf,     \* session -> its kind
    Families,     \* the functions from sessions to their parents, or None
    Histories,    \* the functions from sessions to the names in their logs at first
    NamesOf,      \* session -> the names that may be written to its log
    Event,        \* name -> the event, its time and its key still to be filled in
    UserChoices,  \* session -> the sets of toggles a user may turn on
    Removable,    \* the sessions whose file may go
    LiveFor,      \* how long a file is live after a write
    Start, MaxTime, MaxWrites

\* What may be in a log.  output is what a task reads of a token count, usage what
\* the ledger reads: None if it does not take the count (no total, more cached than
\* read), whatever the output.  A count is "new"; an "echo", which repeats the last
\* one with an output word for word; or the "same" as the last that the ledger took,
\* in other words or after one that it did not take.
EventOK(e) ==
    /\ {"at", "key", "raw", "ordinal", "kind", "again", "output"} \subseteq DOMAIN e
    /\ e.again \in {"new", "same", "echo"} /\ e.output \in Nat \cup {None}
    /\ e.kind = "request" => /\ {"tools", "usage"} \subseteq DOMAIN e
                             /\ DOMAIN e.tools = 1..Len(e.tools) /\ Len(e.tools) \in Nat
                             /\ e.usage # None => e.usage.output \in Nat /\ e.output = e.usage.output

ASSUME SourcesAssumption ==
    /\ None \notin Int
    /\ \A name \in DOMAIN Event : EventOK(Event[name])
    /\ \A h \in Histories : \A s \in Sessions : h[s] \in Seq(DOMAIN Event)
    /\ \A s \in Sessions : NamesOf[s] \subseteq DOMAIN Event
    /\ Start \in Nat

VARIABLES
    now,
    parent,    \* the parent each log names
    log,       \* session -> its file, a sequence of [name, at]; empty if there is none
    touched,   \* session -> the time its file was last written
    order,         \* the ids of the store's sources, in the order they came
    sources,       \* id -> what is known from its own log
    fingerprints,  \* id -> the file as it was read
    toggles        \* id -> the toggles that are on

files == <<now, parent, log, touched>>
held == <<order, sources, fingerprints, toggles>>
vars == <<files, held>>

---------------------------------------------------------------------------
\* A log's events.  What the ledger compares of a count, its numbers, is its key, and
\* what a task compares, its words, is its raw: two that repeat each other have one.
KeyAt(l, i) == Cardinality({j \in 1..i : LET e == Event[l[j].name]
                                         IN  e.kind = "request" /\ e.usage # None /\ e.again = "new"})
RawAt(l, i) == Cardinality({j \in 1..i : LET e == Event[l[j].name]
                                         IN  e.kind = "request" /\ e.output # None /\ e.again # "echo"})
EventsOf(l) ==
    [i \in DOMAIN l |->
        [Event[l[i].name] EXCEPT !.at = l[i].at, !.ordinal = i, !.key = KeyAt(l, i), !.raw = RawAt(l, i)]]

IsLive(s) == touched[s] + LiveFor > now
Present(s) == log[s] # <<>>
Writes == MapThenSumSet(LAMBDA s : Len(SelectSeq(log[s], LAMBDA e : e.at >= Start)), Sessions)

NoneYet == [s \in {} |-> None]
Put(f, s, v) == [x \in DOMAIN f \cup {s} |-> IF x = s THEN v ELSE f[x]]
Without(f, s) == [x \in DOMAIN f \ {s} |-> f[x]]

Init ==
    /\ now = Start
    /\ parent \in Families
    /\ \E h \in Histories : log = [s \in Sessions |-> [i \in DOMAIN h[s] |-> [name |-> h[s][i], at |-> i]]]
    /\ touched = [s \in Sessions |-> Len(log[s])]
    /\ order = <<>>
    /\ sources = NoneYet /\ fingerprints = NoneYet /\ toggles = NoneYet

---------------------------------------------------------------------------
Tick == now < MaxTime /\ now' = now + 1 /\ UNCHANGED <<parent, log, touched, held>>

Write(s, name) ==
    /\ Present(s)
    /\ Writes < MaxWrites
    /\ log' = [log EXCEPT ![s] = Append(@, [name |-> name, at |-> now])]
    /\ touched' = [touched EXCEPT ![s] = now]
    /\ UNCHANGED <<now, parent, held>>

Delete(s) ==
    /\ s \in Removable /\ Present(s) /\ log' = [log EXCEPT ![s] = <<>>]
    /\ UNCHANGED <<now, parent, touched, held>>

\* ingestSession of the file as it is
Read(s) == AnalyseSession(s, SourceOf[s], parent[s], EventsOf(log[s]), IsLive(s))

IngestPath(s) ==
    /\ Present(s)
    /\ s \in DOMAIN fingerprints => fingerprints[s] # log[s]
    /\ order' = IF s \in Range(order) THEN order ELSE Append(order, s)
    /\ sources' = Put(sources, s, Read(s))
    /\ fingerprints' = Put(fingerprints, s, log[s])
    /\ toggles' = IF s \in DOMAIN toggles THEN toggles ELSE Put(toggles, s, DefaultToggles)
    /\ UNCHANGED files

RemovePath(s) ==
    /\ ~Present(s) /\ s \in Range(order)
    /\ order' = SelectSeq(order, LAMBDA id : id # s)
    /\ sources' = Without(sources, s)
    /\ fingerprints' = Without(fingerprints, s)
    /\ toggles' = Without(toggles, s)
    /\ UNCHANGED files

\* Before it answers, the store looks again at each file: one that came to life
\* or went quiet is read again.
RefreshLiveFlags ==
    LET Turned == {s \in DOMAIN sources : Present(s) /\ IsLive(s) # sources[s].live}
    IN  /\ Turned # {}
        /\ sources' = [s \in DOMAIN sources |-> IF s \in Turned THEN Read(s) ELSE sources[s]]
        /\ fingerprints' = [s \in DOMAIN fingerprints |-> IF s \in Turned THEN log[s] ELSE fingerprints[s]]
        /\ UNCHANGED <<files, order, toggles>>

SetToggles(s, on) ==
    /\ s \in DOMAIN sources /\ toggles[s] # on
    /\ toggles' = [toggles EXCEPT ![s] = on]
    /\ UNCHANGED <<files, order, sources, fingerprints>>

Next ==
    \/ Tick \/ RefreshLiveFlags
    \/ \E s \in Sessions :
        \/ \E name \in NamesOf[s] : Write(s, name)
        \/ Delete(s) \/ IngestPath(s) \/ RemovePath(s)
        \/ \E on \in UserChoices[s] : SetToggles(s, on)

Spec == Init /\ [][Next]_vars

---------------------------------------------------------------------------
\* What a cost comes to; None counts for nothing.
Amount(x) == IF x = None THEN 0 ELSE x

\* A turn that only reads files is a repeat exactly when each of them came out as
\* it did the last time any command of the session read it: a file that changed
\* is not read in vain, nor one that changed back (isReread, updatePathHashes).
OnlyRepeatsAreRereads(turns) ==
    LET Reads(i, k, p) == turns[i].tools[k].name = "exec" /\ p \in Range(ReadPaths(turns[i].tools[k].cmd))
        Same(i, p) ==
            LET first == CHOOSE k \in DOMAIN turns[i].tools :
                            Reads(i, k, p) /\ \A n \in 1..(k - 1) : ~Reads(i, n, p)
                earlier == {j \in 1..(i - 1) : \E k \in DOMAIN turns[j].tools : Reads(j, k, p)}
                latest == CHOOSE j \in earlier : \A n \in earlier : n <= j
                final == CHOOSE k \in DOMAIN turns[latest].tools :
                            Reads(latest, k, p) /\ \A n \in DOMAIN turns[latest].tools : Reads(latest, n, p) => n <= k
            IN  earlier # {} /\ turns[i].tools[first].out = turns[latest].tools[final].out
    IN  \A i \in DOMAIN turns :
            LET paths == UNION {{p \in Range(ReadPaths(t.cmd)) : t.name = "exec"} : t \in Range(turns[i].tools)}
            IN  IsReadOnlyTurn(turns[i]) /\ paths # {} =>
                    (turns[i].bucket = "reread" <=> \A p \in paths : Same(i, p))

RereadsAreRepeats == \A s \in DOMAIN sources : OnlyRepeatsAreRereads(sources[s].turns)

\* A count that tasks may have beside the ledger's: one of the agent's own that the
\* ledger does not take, or whose numbers it has, but not in these words or not last.
Beside(events, i, sub) ==
    /\ events[i].kind = "request" /\ events[i].output # None
    /\ sub => Starts(events, i)
    /\ events[i].usage = None \/ events[i].again = "same"

BesideOutputs(events, sub) == [i \in DOMAIN events |-> IF Beside(events, i, sub) THEN events[i].output ELSE 0]

\* The tokens of an agent's tasks are tokens of its turns, but for those of the counts
\* that extractTaskTimings takes and the ledger does not (Beside): no new count, and
\* none that the log repeats word for word, is in the tasks alone or in them twice,
\* nor one of the copy a subagent's log begins with.  A task that reports its own
\* usage is not compared.
TasksWithinLedger ==
    \A s \in DOMAIN sources :
        LET source == sources[s]
            events == EventsOf(fingerprints[s])
            reports == \E e \in Range(events) : e.kind = "usage"
        IN  reports \/ SumOf([i \in DOMAIN source.tasks |-> Amount(source.tasks[i].output)])
                          <= SumOf([i \in DOMAIN source.turns |-> Amount(source.turns[i].output)])
                               + SumOf(BesideOutputs(events, parent[s] # None))

====
