---- MODULE Hardware ----
(***************************************************************************)
(* The hardware view (apps/web/src/HardwarePage.tsx): one of the two pages   *)
(* is mounted, or neither while another view is open.  Leaving a page aborts *)
(* its requests and forgets its state; the app's clock goes on.              *)
(***************************************************************************)
EXTENDS TempsPage, PowerPage

CONSTANTS Windows   \* the ranges of one's own a user may enter

ASSUME WindowsAssumption == \A w \in Windows : {w.start, w.end} \subseteq Nat

VARIABLE tab   \* "temps", "power", or "away"

vars == <<world, page, requests, visible, shown, power, tab>>

temps == <<page, requests, visible>>

Init ==
    /\ WorldInit
    /\ Unmounted /\ visible = TRUE
    /\ PowerUnmounted /\ shown = 0
    /\ tab = "away"

Open(to) ==
    /\ tab # to
    /\ tab' = to
    /\ IF to = "temps" THEN Mount ELSE Unmount
    /\ IF to = "power" THEN PowerMount ELSE PowerUnmount
    /\ UNCHANGED <<world, visible, shown>>

\* The app's clock lags behind by up to 30 s, which only the electricity page shows.
Passes ==
    /\ Tick
    /\ shown' = IF tab = "power" THEN shown ELSE now'
    /\ UNCHANGED <<temps, power, tab>>

Clock ==
    /\ tab = "power"
    /\ Render
    /\ UNCHANGED <<world, temps, tab>>

Timer == Poll /\ UNCHANGED <<world, shown, power, tab>>

TempsEngine == Engine /\ UNCHANGED <<now, scraped, page, visible, shown, power, tab>>

TempsArrives ==
    /\ HistoryArrives \/ PollArrives \/ RetryArrives
    /\ UNCHANGED <<world, shown, power, tab>>

Shows ==
    /\ tab = "temps"
    /\ Visibility
    /\ UNCHANGED <<world, shown, power, tab>>

Picks ==
    /\ tab = "power"
    /\ (\E r \in QuickRanges : Choose(r)) \/ ChooseCustom \/ (\E w \in Windows : Apply(w))
    /\ UNCHANGED <<world, temps, tab>>

AnswersPower == PowerEngine /\ UNCHANGED <<now, scraped, temps, tab>>

PowerArrives == (FeedArrives \/ InstantArrives) /\ UNCHANGED <<world, temps, tab>>

Next ==
    \/ \E to \in {"temps", "power", "away"} : Open(to)
    \/ Passes \/ Clock
    \/ (tab = "temps" /\ Timer) \/ TempsEngine \/ TempsArrives \/ Shows
    \/ Picks \/ AnswersPower \/ PowerArrives

\* The timer fires, a poll is answered or lost within its own timeout, and what
\* was answered is delivered.
Fairness ==
    /\ WF_vars(tab = "temps" /\ Timer)
    /\ []<>(poll # Asked)
    /\ WF_vars(TempsArrives)

Spec == Init /\ [][Next]_vars /\ Fairness

---------------------------------------------------------------------------
\* A reading on the temperature page is one its own card and sensor gave, at most
\* SnapWindow seconds before the sample it stands in, and a sensor without one is
\* shown so; and the cards show the very sample the charts have at that second,
\* whatever order history, polls and the second history arrived in (fetchTempSnapshot,
\* fetchTempHistory; mergeTempSamples, setLatest in SystemTemperaturePage.tsx).
ReadingsAreReal ==
    /\ \A t \in DOMAIN samples : \A g \in Range(samples[t].gpus) :
        /\ \A s \in DOMAIN GpuLimits : g.temps[s] # None =>
                \E u \in (t - SnapWindow)..t \cap DOMAIN scraped :
                    /\ [key |-> "gpuTemp", card |-> g.card, sensor |-> s] \in scraped[u]
                    /\ g.temps[s] = Value([key |-> "gpuTemp", card |-> g.card, sensor |-> s], u)
        /\ g.status = "normal" =>
                \A s \in DOMAIN GpuLimits : g.temps[s] # None /\ GpuLimits[s] - g.temps[s] > WarmMargin
    /\ latest # None => latest.t \in DOMAIN samples /\ samples[latest.t] = latest

\* Once a poll has ended the link shown is how the last one ended, though the
\* history and its second read may answer later (the pollOk ref).
LinkFollowsPolls == pollOk # None => link = IF pollOk THEN "up" ELSE "down"

\* The samples of a live range are what its meters read in that window, the greatest
\* of several (seriesToMap), at its own step, and never those of a window left behind
\* (HardwarePowerPage.tsx:124-125);
\* the current power, once its own read has ended, is from just before now, and
\* never the end of a past range (HardwarePowerPage.tsx:241-243).
FeedIsMeasured ==
    /\ \A u \in DOMAIN feed.samples :
        /\ u \in (Active.start - Second + 1)..Active.end
        /\ (u - Sec(Active.start) * Second) % SampleStep(Active) = 0
        /\ \A k \in PowerKeys :
                LET readings == {Value(l, Sec(u)) : l \in {l \in scraped[Sec(u)] : l.key = k}}
                IN  feed.samples[u][k] # None =>
                        feed.samples[u][k] \in readings /\ \A v \in readings : v <= feed.samples[u][k]
    /\ instantReq = Idle /\ instant # None => instant.t > shown - 3 * InstantStep - Second
    /\ PowerLive => CurrentPower.live
    /\ PowerLive /\ instant = None /\ Active.end + SampleStep(Active) < shown =>
            \A k \in PowerKeys : CurrentPower.at[k] = None

\* Energy by its definition: for each unit of the window between two samples that
\* both have a reading, the area under the line between them.
EnergyOf(got, key, w) ==
    LET times == DOMAIN got
        Before(u) == Best({t \in times : t <= u})
        After(u) == -Best({-t : t \in {t \in times : t > u}})
        units == {u \in w.start..(w.end - 1) :
                    /\ \E t \in times : t <= u
                    /\ \E t \in times : t > u
                    /\ None \notin {got[Before(u)][key], got[After(u)][key]}}
        At(u, v) == Between(got, key, Before(u), After(u), v)
        area[n \in 0..Span(w)] ==
            LET u == w.start + n - 1
            IN  IF n = 0 THEN 0 ELSE area[n - 1] + IF u \in units THEN At(u, u) + At(u, u + 1) ELSE 0
    IN  [energy |-> IF units = {} THEN None ELSE area[Span(w)], covered |-> Cardinality(units)]

\* What the page counts of each meter is the energy between its samples inside the
\* window, no more and no less (integrateSeries), nothing left of a window before;
\* the chart's columns keep every reading of the window (bucketizeSamples); and the
\* demonstration covers the whole of it.  A sample without the meter interrupts it;
\* a second at which no meter has a point is no sample, and interrupts nothing: there
\* the code is not what the contract says (MissingInterrupts).
EnergyIsMeasured == tab = "power" =>
    /\ FeedIsMeasured
    /\ \A k \in PowerKeys :
        LET i == Integral(ShownSamples, k, Active)
            e == EnergyOf(ShownSamples, k, Active)
            columns == Buckets(ShownSamples, k, Active)
        IN  /\ i.energy = e.energy /\ i.covered = e.covered /\ i.covered <= Span(Active)
            /\ Demonstrates => i.complete = (Span(Active) > 0)
            /\ UNION Range(columns) =
                   Present({ShownSamples[u][k] : u \in {v \in DOMAIN ShownSamples : v >= Active.start}})

\* (a documented claim) UX-CONTRACT.md:158, "Missing samples interrupt integration":
\* of a meter only the time between two neighbouring seconds of the grid is
\* counted at both of which a scrape found it.
MissingInterrupts == tab = "power" /\ PowerLive =>
    \A k \in PowerKeys :
        LET grid == PowerGrid(Active, SampleStep(Active))
            found == {t \in grid \cap DOMAIN scraped : \E l \in scraped[t] : l.key = k}
            held == {u \in Active.start..(Active.end - 1) :
                        \E a \in found, b \in found : /\ Second * a <= u /\ u < Second * b
                                                      /\ ~\E t \in grid : a < t /\ t < b}
        IN  Integral(ShownSamples, k, Active).covered <= Cardinality(held)

\* While the page is watched and the newest scrape has a temperature, it ends up
\* live and stays so, whatever was lost before (poll's busy flag, its timeouts).
Watched == tab = "temps" /\ visible
HasTemps == Sec(now) \in DOMAIN scraped /\ \E l \in scraped[Sec(now)] : l.key \in TempKeys
GetsLive == <>[](Watched /\ HasTemps) => <>[]Live

====
