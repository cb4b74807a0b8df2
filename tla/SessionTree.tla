---- MODULE SessionTree ----
(***************************************************************************)
(* What the engine makes of the sessions it holds, each known from its own   *)
(* log (packages/engine/src/tree.ts, waste.ts, store.ts).  A snapshot holds   *)
(* its children's snapshots.                                                  *)
(***************************************************************************)
EXTENDS SessionLog

CONSTANT Toggles   \* WasteToggleId

---------------------------------------------------------------------------
\* tree.ts

CostOf(snaps) == TotalOf([i \in DOMAIN snaps |-> snaps[i].cost])

RECURSIVE BuildTree(_, _)
BuildTree(turns, children) ==
    LET Child(c) == [label |-> "child", cost |-> c.cost, kids |-> BuildTree(c.turns, c.children).kids]
    IN  TreeOf(turns, AgentsNode(CostOf(children), [i \in DOMAIN children |-> Child(children[i])]))

\* An agent that wrote nothing and polled or read again for four fifths of its tokens.
IsIdleChild(child) ==
    LET own == SumTurns(child.turns).raw
    IN  /\ own # 0
        /\ RawIn(child.turns, "code") = 0
        /\ 10 * (RawIn(child.turns, "waiting.poll") + RawIn(child.turns, "reread")) >= 8 * own

---------------------------------------------------------------------------
\* waste.ts

\* walkTurns
RECURSIVE AllTurns(_)
AllTurns(snap) == Range(snap.turns) \cup UNION {AllTurns(c) : c \in Range(snap.children)}

IsOwnTurnWaste(turn, on) ==
    \/ "poll" \in on /\ turn.bucket = "waiting.poll"
    \/ "coord" \in on /\ turn.bucket = "waiting.coord"
    \/ turn.bucket \in on \cap {"reread", "planning", "code"}
    \/ "compaction_loop" \in on /\ "compaction_loop" \in turn.labels

\* collectChildTurns: the turns of the idle agents under a child, or of the others.
RECURSIVE ChildTurns(_, _)
ChildTurns(child, idle) ==
    (IF IsIdleChild(child) = idle THEN Range(child.turns) ELSE {})
      \cup UNION {ChildTurns(c, idle) : c \in Range(child.children)}

OfAgents(snap, idle) == UNION {ChildTurns(c, idle) : c \in Range(snap.children)}

\* computeWaste
WasteTurns(snap, on) ==
    {t \in AllTurns(snap) : IsOwnTurnWaste(t, on)}
      \cup (IF "idle_subagents" \in on THEN OfAgents(snap, TRUE) ELSE {})
      \cup (IF "healthy_subagents" \in on THEN OfAgents(snap, FALSE) ELSE {})

SumOfSet(turns) == Normalized(FoldSet(LAMBDA t, sum : AddKnownCost(t.cost, sum), Unknown, turns))

WasteBroken(snap, on) ==   \* a turn once for each reason
    AddKnownCost(SumOfSet({t \in AllTurns(snap) : IsOwnTurnWaste(t, on)}),
                 IF "idle_subagents" \in on THEN SumOfSet(OfAgents(snap, TRUE)) ELSE Unknown)

\* Each turn once, however many toggles match it.
Waste(snap, on) == SumOfSet(WasteTurns(snap, on))

---------------------------------------------------------------------------
\* performance.ts: the tasks of an agent and of those under it, or for a source
\* that records none, its requests and those of its children.

RECURSIVE CollectTaskTimings(_)
CollectTaskTimings(snap) ==
    snap.tasks \o FlattenSeq([i \in DOMAIN snap.children |-> CollectTaskTimings(snap.children[i])])

PerformanceSamples(snap) ==
    LET Of(c) == RequestTimings(c.turns)
    IN  IF snap.tasks # <<>> THEN AsTasks(CollectTaskTimings(snap))
        ELSE Of(snap) \o FlattenSeq([i \in DOMAIN snap.children |-> Of(snap.children[i])])

---------------------------------------------------------------------------
\* store.ts: a store is [order, sources, toggles], the sources by id and in the order they came.

RECURSIVE LatestActivity(_)
LatestActivity(snap) ==
    LET times == ({snap.last} \cup {LatestActivity(c) : c \in Range(snap.children)}) \ {None}
    IN  IF times = {} THEN None ELSE CHOOSE t \in times : \A u \in times : u <= t

RebuildDerived(snap) ==
    LET tree == BuildTree(snap.turns, snap.children)
    IN  [snap EXCEPT !.tree = tree, !.cost = tree.cost, !.waste = Waste(snap, snap.on),
                     !.live = @ \/ \E c \in Range(snap.children) : c.live,
                     !.last = LatestActivity(snap), !.performance = Summary(PerformanceSamples(snap))]

ChildrenOfBroken(st, id) ==   \* only those that came after their parent
    LET After(c) == \E i, j \in DOMAIN st.order : i < j /\ st.order[i] = id /\ st.order[j] = c
    IN  SelectSeq(st.order, LAMBDA c : st.sources[c].parent = id /\ After(c))

ChildrenOf(st, id) == SelectSeq(st.order, LAMBDA c : st.sources[c].parent = id)

\* build: the snapshot of a session, and all that are built by then.
RECURSIVE Build(_, _, _, _)
Build(st, id, building, rebuilt) ==
    LET Attach(acc, c) == LET b == Build(st, c, building \cup {id}, acc.rebuilt)
                          IN  [children |-> Append(acc.children, b.snap), rebuilt |-> b.rebuilt]
        found == FoldLeft(Attach, [children |-> <<>>, rebuilt |-> rebuilt], ChildrenOf(st, id))
        snap == RebuildDerived([st.sources[id] EXCEPT !.children = found.children, !.on = st.toggles[id]])
    IN  IF id \in DOMAIN rebuilt THEN [snap |-> rebuilt[id], rebuilt |-> rebuilt]
        ELSE IF id \in building THEN [snap |-> st.sources[id], rebuilt |-> rebuilt]
        ELSE [snap |-> snap, rebuilt |-> (id :> snap) @@ found.rebuilt]

\* rebuildAll
RebuildAll(st) ==
    FoldLeft(LAMBDA rebuilt, id : Build(st, id, {}, rebuilt).rebuilt, [id \in {} |-> None], st.order)

\* peekRootIds: also the sessions whose parent the store does not hold.
IsRoot(st, id) == st.sources[id].parent \notin DOMAIN st.sources

\* rootSnapshots: the live ones first, then the latest.
Roots(st, snapshots) ==
    LET When(snap) == IF snap.last = None THEN -1 ELSE snap.last
        Before(a, b) == IF a.live # b.live THEN a.live ELSE When(a) > When(b)
        roots == SelectSeq(st.order, LAMBDA id : IsRoot(st, id))
    IN  SortSeq([i \in DOMAIN roots |-> snapshots[roots[i]]], Before)

====
