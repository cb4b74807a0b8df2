---- MODULE SessionLog ----
(***************************************************************************)
(* What the engine makes of one session's log (packages/engine/src/ledger.ts, *)
(* tree.ts, snapshot.ts).  A log is a sequence of events [kind, at, key, ...]; *)
(* a request event is a turn with what was recorded of its usage, and its key *)
(* is that of the count the ledger took last if it has the same numbers.  A    *)
(* node of a tree is [label, cost, kids].                                     *)
(***************************************************************************)
EXTENDS Turns, Timing

CONSTANT DefaultToggles   \* the toggles that are on in DEFAULT_WASTE_TOGGLES

Events(log, kind) == SelectSeq(log, LAMBDA e : e.kind = kind)

---------------------------------------------------------------------------
\* ledger.ts: what of a log counts, an agent's own part of it, a repeated count once.

Starts(log, i) == \E j \in 1..i : log[j].kind = "start"

Own(log, i, codex, sub) ==
    /\ log[i].kind = "request"
    /\ codex => log[i].usage # None
    /\ codex /\ sub => Starts(log, i)

Repeats(log, i, sub) == \E j \in 1..(i - 1) : Own(log, j, TRUE, sub) /\ log[j].key = log[i].key

Counts(log, i, codex, sub) == Own(log, i, codex, sub) /\ ~(codex /\ Repeats(log, i, sub))

\* A count that can be read, but not as a usage, is warned of.
Rejects(log, i, sub) == log[i].kind = "request" /\ log[i].usage = None /\ log[i].output # None /\ (sub => Starts(log, i))

CountedTo(log, codex, sub) ==
    LET counted[i \in 0..Len(log)] ==
            IF i = 0 THEN <<>>
            ELSE IF Counts(log, i, codex, sub) THEN Append(counted[i - 1], log[i]) ELSE counted[i - 1]
    IN  counted

Counted(log, codex, sub) == CountedTo(log, codex, sub)[Len(log)]

TurnOf(s, codex, e) ==
    [id |-> <<s, e.ordinal>>, at |-> e.at, model |-> e.model, tools |-> e.tools, patch |-> e.patch, plan |-> e.plan,
     output |-> IF e.usage = None THEN None ELSE e.usage.output, recorded |-> ~codex /\ e.usage # None,
     cost |-> IF codex THEN PriceUsage(e.usage, e.model, e.fast) ELSE NativeCost(e),
     performance |-> RequestPerformance(e), bucket |-> "other", labels |-> {}]

---------------------------------------------------------------------------
\* tree.ts: buildTree, but for the node of the agents.

Buckets == <<"planning", "reading", "verification", "code", "reread",
             "tooling", "communication", "waiting.poll", "waiting.coord", "other">>

In(turns, bucket) == SelectSeq(turns, LAMBDA t : t.bucket = bucket)

Leaf(turns, bucket) == [label |-> bucket, cost |-> SumTurns(In(turns, bucket)), kids |-> <<>>]

AgentsNode(cost, kids) == [label |-> "subagents", cost |-> cost, kids |-> kids]

TreeOf(turns, agents) ==
    LET polls == Leaf(turns, "waiting.poll")
        coord == Leaf(turns, "waiting.coord")
        waiting == [label |-> "waiting", cost |-> AddKnownCost(polls.cost, coord.cost), kids |-> <<polls, coord>>]
        leaves == [i \in DOMAIN Buckets |-> Leaf(turns, Buckets[i])]
    IN  [label |-> "root", cost |-> AddKnownCost(SumTurns(turns), agents.cost),
         kids |-> SubSeq(leaves, 1, 7) \o <<agents, waiting, leaves[10]>>]

---------------------------------------------------------------------------
\* snapshot.ts: what is known of a session from its own log; source is its kind.
AnalyseSession(s, source, parent, log, live) ==
    LET codex == source = "codex"
        requests == Counted(log, codex, parent # None)
        classified == Classified([i \in DOMAIN requests |-> TurnOf(s, codex, requests[i])])
        compacts == [i \in DOMAIN Events(log, "compact") |-> Events(log, "compact")[i].at]
        turns == Detected(classified, compacts)
    IN  [id |-> s, source |-> source, parent |-> parent, live |-> live, turns |-> turns, children |-> <<>>,
         last |-> IF log = <<>> THEN None ELSE Last(log).at,
         errors |-> Len(Events(log, "torn")),
         warns |-> Events(log, "gap") # <<>> \/ (codex /\ \E i \in DOMAIN log : Rejects(log, i, parent # None)),
         limits |-> SelectSeq([i \in DOMAIN log |-> [at |-> log[i].at, raw |-> log[i].limits]], LAMBDA l : l.raw # None),
         suggestions |-> Suggestions(classified, compacts),
         tasks |-> IF codex THEN TaskTimings(log, parent # None) ELSE <<>>,
         on |-> DefaultToggles, tree |-> TreeOf(turns, AgentsNode(Unknown, <<>>)), cost |-> SumTurns(turns), waste |-> Zero,
         performance |-> Summary(<<>>)]

====
