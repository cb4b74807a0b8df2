---- MODULE Overview ----
(***************************************************************************)
(* What GET /overview adds up (packages/engine/src/overview.ts, server.ts).  *)
(* A query is [source, since, until, model, days, offset, now], None where     *)
(* nothing is asked; a window is from since up to, but without, until.         *)
(***************************************************************************)
EXTENDS SessionTree

CONSTANTS
    DayLength,
    MaxDays,    \* 60
    Unnamed,    \* turnModelKey of a turn without a model
    Earlier, Later   \* the columns at the ends of the chart

ASSUME OverviewAssumption == DayLength \in Nat \ {0} /\ MaxDays \in Nat \ {0}

SliceKeys == {"planning", "reading", "verification", "code", "reread",
              "tooling", "communication", "subagents", "waiting", "other"}

\* The request's parameters as the handler passes them on.
Options(query) ==
    [query EXCEPT !.until = IF None \in {@, query.since} \/ @ <= query.since THEN None ELSE @,
                  !.days  = IF @ = None \/ @ <= 0 THEN 8 ELSE IF @ < MaxDays THEN @ ELSE MaxDays]

ModelKey(turn) == IF turn.model = None THEN Unnamed ELSE turn.model
Matches(turn, model) == model = None \/ ModelKey(turn) = model

InRangeBroken(t, q) ==   \* the end of the window belongs to it
    (q.since # None => t # None /\ t >= q.since) /\ (q.until # None => t # None /\ t <= q.until)

\* turnInRange
InRange(t, q) ==
    (q.since # None => t # None /\ t >= q.since) /\ (q.until # None => t # None /\ t < q.until)

\* inRange: a session that went on after the window still belongs to it.
Included(snap, q) ==
    /\ q.since # None => snap.last # None /\ snap.last >= q.since
    /\ q.until # None => \/ snap.last # None /\ snap.last < q.until
                         \/ \E t \in AllTurns(snap) : InRange(t.at, [q EXCEPT !.since = None])

---------------------------------------------------------------------------
\* walkTurns and flattenTurns: the turns of a session and of those under it.
RECURSIVE Walked(_, _)
Walked(snap, nested) ==
    [i \in DOMAIN snap.turns |-> [turn |-> snap.turns[i], nested |-> nested, flagged |-> snap.warns \/ snap.errors > 0]]
      \o FlattenSeq([i \in DOMAIN snap.children |-> Walked(snap.children[i], TRUE)])

\* filterSessionTurns
Ranged(snap, q) == SelectSeq(Walked(snap, FALSE), LAMBDA w : InRange(w.turn.at, q))

TurnsOf(walked) == [i \in DOMAIN walked |-> walked[i].turn]

WindowedWaste(snap, q) ==
    SumOfSet({t \in WasteTurns(snap, snap.on) : InRange(t.at, q) /\ Matches(t, q.model)})

SliceKey(w) ==
    IF w.nested THEN "subagents"
    ELSE IF w.turn.bucket \in {"waiting.poll", "waiting.coord"} THEN "waiting"
    ELSE IF w.turn.bucket \in SliceKeys THEN w.turn.bucket ELSE "other"

CalendarDay(at, q) == (at + q.offset) \div DayLength

DayRange(q) == CalendarDay(q.now, q) - q.days + 1 .. CalendarDay(q.now, q)

\* The column of the chart that a turn goes to.
DayOf(w, q) ==
    IF CalendarDay(w.turn.at, q) \in DayRange(q) THEN CalendarDay(w.turn.at, q)
    ELSE IF CalendarDay(w.turn.at, q) > CalendarDay(q.now, q) THEN Later ELSE Earlier

\* makeDay
Day(walked, date) ==
    [date |-> date, cost |-> SumTurns(TurnsOf(walked)),
     flagged |-> SumTurns(TurnsOf(SelectSeq(walked, LAMBDA w : w.flagged))),
     unpriced |-> SumOf([i \in DOMAIN walked |-> UnpricedRaw(walked[i].turn)])]

Empty(day) == Zero = day.cost

\* A slice without tokens shows no money.
Slice(walked, key) ==
    LET cost == TotalOf([i \in DOMAIN walked |-> walked[i].turn.cost])
    IN  [key |-> key, raw |-> cost.raw, credits |-> IF cost.raw = 0 THEN 0 ELSE cost.credits,
         usd |-> IF cost.raw = 0 THEN 0 ELSE cost.usd]

Model(turns, model) ==
    [model |-> model, count |-> Len(turns), cost |-> SumTurns(turns),
     unpriced |-> SumOf([i \in DOMAIN turns |-> UnpricedRaw(turns[i])])]

---------------------------------------------------------------------------
\* latestRateLimits: of the limits in the window the latest, and of those the last seen.
RECURSIVE LimitsOf(_)
LimitsOf(snap) ==
    [i \in DOMAIN snap.limits |-> [id |-> snap.id, at |-> snap.limits[i].at, raw |-> snap.limits[i].raw]]
      \o FlattenSeq([i \in DOMAIN snap.children |-> LimitsOf(snap.children[i])])

LatestRateLimits(snaps, q) ==
    LET all == SelectSeq(FlattenSeq([i \in DOMAIN snaps |-> LimitsOf(snaps[i])]), LAMBDA l : InRange(l.at, q))
    IN  FoldLeft(LAMBDA best, l : IF best # None /\ best.at > l.at THEN best ELSE l, None, all)

\* collectQuality
RECURSIVE Quality(_)
Quality(snap) ==
    [warned |-> (IF snap.warns THEN 1 ELSE 0) + SumOf([i \in DOMAIN snap.children |-> Quality(snap.children[i]).warned]),
     errors |-> snap.errors + SumOf([i \in DOMAIN snap.children |-> Quality(snap.children[i]).errors])]

\* The samples of a session: a model's requests, its tasks, or its own requests.
TimedSamples(snap, q) ==
    LET tasks == CollectTaskTimings(snap)
        ofModel == SelectSeq(TurnsOf(Ranged(snap, q)), LAMBDA t : Matches(t, q.model))
        samples == IF tasks # <<>> THEN AsTasks(tasks) ELSE RequestTimings(snap.turns)
    IN  IF q.model # None THEN RequestTimings(ofModel) ELSE SelectSeq(samples, LAMBDA s : InRange(s.ended, q))

---------------------------------------------------------------------------
\* buildOverview of the root snapshots, in their order.
BuildOverview(snaps, q) ==
    LET matching == SelectSeq(snaps, LAMBDA s : q.source \in {None, s.source})
        included == SelectSeq(matching, LAMBDA s : Included(s, q))
        all == FlattenSeq([i \in DOMAIN included |-> Ranged(included[i], q)])
        walked == SelectSeq(all, LAMBDA w : Matches(w.turn, q.model))
        turns == TurnsOf(walked)
        counted == SelectSeq(included, LAMBDA s : \/ q.model = None
                                                  \/ \E w \in Range(Ranged(s, q)) : Matches(w.turn, q.model))
        On(date) == Day(SelectSeq(walked, LAMBDA w : DayOf(w, q) = date), date)
        days == [i \in 1..q.days |-> On(CalendarDay(q.now, q) - q.days + i)]
        beyond == [d \in {Earlier, Later} |-> IF Empty(On(d)) THEN <<>> ELSE <<On(d)>>]
        ofModel == [m \in {ModelKey(w.turn) : w \in Range(all)} |-> SelectSeq(TurnsOf(all), LAMBDA t : ModelKey(t) = m)]
        samples == FlattenSeq([i \in DOMAIN included |-> TimedSamples(included[i], q)])
        unpriced == SumOf([i \in DOMAIN turns |-> UnpricedRaw(turns[i])])
    IN  [sessions |-> Len(counted), turns |-> Len(turns), live |-> \E s \in Range(included) : s.live,
         cost |-> SumTurns(turns),
         waste |-> Normalized(TotalOf([i \in DOMAIN included |-> WindowedWaste(included[i], q)])),
         unpriced |-> unpriced, priced |-> SumTurns(turns).raw - unpriced,
         warned |-> SumOf([i \in DOMAIN counted |-> Quality(counted[i]).warned]),
         errors |-> SumOf([i \in DOMAIN counted |-> Quality(counted[i]).errors]),
         days |-> beyond[Earlier] \o days \o beyond[Later],
         slices |-> {Slice(SelectSeq(walked, LAMBDA w : SliceKey(w) = k), k) : k \in SliceKeys},
         models |-> {Model(ofModel[m], m) : m \in DOMAIN ofModel},
         performance |-> Summary(samples), distribution |-> Distribution(samples),
         limits |-> LatestRateLimits(matching, q)]

====
