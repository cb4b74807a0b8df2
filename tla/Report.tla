---- MODULE Report ----
(***************************************************************************)
(* The engine's sessions as the dashboard is told of them: whenever the store *)
(* changes it hangs the sessions under their parents again, and what it then   *)
(* says of each and of all must add up (packages/engine/src/store.ts).         *)
(***************************************************************************)
EXTENDS Overview, SessionSources

CONSTANT Queries   \* with, for the time, how far the logs' clocks are ahead of the engine's

VARIABLE snapshots   \* id -> the source with all that is under it

Stored == [order |-> order, sources |-> sources, toggles |-> toggles]

ReportInit == Init /\ snapshots = NoneYet

\* Every change of the store ends with rebuildAll.
Rebuilt == snapshots' = RebuildAll(Stored')

ReportNext ==
    \/ Tick /\ UNCHANGED snapshots
    \/ RefreshLiveFlags /\ Rebuilt
    \/ \E s \in Sessions :
        \/ \E name \in NamesOf[s] : Write(s, name) /\ UNCHANGED snapshots
        \/ Delete(s) /\ UNCHANGED snapshots
        \/ IngestPath(s) /\ Rebuilt
        \/ RemovePath(s) /\ Rebuilt
        \/ \E on \in UserChoices[s] : SetToggles(s, on) /\ Rebuilt

ReportSpec == ReportInit /\ [][ReportNext]_<<vars, snapshots>>

---------------------------------------------------------------------------
Amounts(c) == <<c.raw, c.unmeasured, Amount(c.credits), Amount(c.usd)>>
Sum(list) == [k \in 1..4 |-> SumOf([i \in DOMAIN list |-> list[i][k]])]
AmountsOf(turns) == [k \in 1..4 |-> MapThenSumSet(LAMBDA t : Amounts(t.cost)[k], turns)]
CostsIn(list) == Sum([i \in DOMAIN list |-> Amounts(list[i].cost)])

RECURSIVE AddsUp(_)
AddsUp(node) ==
    \/ node.kids = <<>>
    \/ Amounts(node.cost) = CostsIn(node.kids) /\ \A i \in DOMAIN node.kids : AddsUp(node.kids[i])

RECURSIVE Under(_)
Under(snap) == {snap.id} \cup UNION {Under(c) : c \in Range(snap.children)}

\* The sessions from which the parents the store holds lead to a session with none.
RECURSIVE Rooted(_, _)
Rooted(s, seen) ==
    s \notin seen /\ (parent[s] \notin DOMAIN sources \/ Rooted(parent[s], seen \cup {s}))

\* A session that is held is under exactly one of the sessions that are listed,
\* in whatever order they came, unless its parents go round in a circle; a
\* session costs what the turns of all sessions under it cost, each once, and in
\* its tree every part is the sum of its own parts (rebuildAll, buildTree).
TreesAddUp ==
    LET roots == Range(Roots(Stored, snapshots))
    IN  \A s \in DOMAIN sources :
            /\ Cardinality({r \in roots : s \in Under(r)}) = (IF Rooted(s, {}) THEN 1 ELSE 0)
            /\ Rooted(s, {}) => /\ Amounts(snapshots[s].cost) = AmountsOf(AllTurns(snapshots[s]))
                                /\ UNION {Range(sources[u].turns) : u \in Under(snapshots[s])} = AllTurns(snapshots[s])
                                /\ AddsUp(snapshots[s].tree)

\* Waste is a set of turns: one that several toggles match is counted once, so a
\* session wastes no more than it costs, and with all toggles on that is what it
\* spent on its agents and on its own turns of a kind that has a toggle (computeWaste).
WasteCountsOnce ==
    LET HasToggle(t) == \/ t.bucket \in {"waiting.poll", "waiting.coord", "reread", "planning", "code"}
                        \/ "compaction_loop" \in t.labels
        Agents(s) == UNION {AllTurns(c) : c \in Range(snapshots[s].children)}
    IN  \A s \in DOMAIN sources :
            LET waste == Amounts(snapshots[s].waste)
            IN  /\ \A k \in 1..4 : waste[k] <= AmountsOf(AllTurns(snapshots[s]))[k]
                /\ toggles[s] = Toggles =>
                    waste = AmountsOf(Agents(s) \cup {t \in AllTurns(snapshots[s]) : HasToggle(t)})

\* The turns a query is about.
Asked(roots, q) ==
    {t \in UNION {AllTurns(r) : r \in {r \in roots : q.source \in {None, r.source}}} :
        /\ q.since # None => q.since <= t.at
        /\ q.until # None => t.at < q.until
        /\ q.model # None => t.model = q.model \/ (t.model = None /\ q.model = Unnamed)}

\* The totals are those of the turns in the window, each once, and so are the
\* days of the chart, the slices and the models; a slice is without the money of
\* requests whose log gives a spend and no tokens.  What is asked for one model
\* is what the list of all says of it (buildOverview).
OverviewAddsUp ==
    LET roots == Roots(Stored, snapshots)
    IN  \A query \in Queries :
            LET q == Options([query EXCEPT !.now = now - @])
                o == BuildOverview(roots, q)
                asked == Asked(Range(roots), q)
            IN  /\ Amounts(o.cost) = AmountsOf(asked)
                /\ o.turns = Cardinality(asked)
                /\ CostsIn(o.days) = Amounts(o.cost)
                /\ SumOf([i \in DOMAIN o.days |-> o.days[i].unpriced]) = o.unpriced
                /\ MapThenSumSet(LAMBDA s : s.raw, o.slices) = o.cost.raw
                /\ \A k \in 1..4 : Amounts(o.waste)[k] <= Amounts(o.cost)[k]
                /\ q.model = None =>
                    /\ MapThenSumSet(LAMBDA m : m.cost.raw, o.models) = o.cost.raw
                    /\ \A m \in o.models :
                        LET one == BuildOverview(roots, [q EXCEPT !.model = m.model])
                        IN  one.cost = m.cost /\ one.turns = m.count /\ one.unpriced = m.unpriced

====
