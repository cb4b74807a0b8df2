---- MODULE Prometheus ----
(***************************************************************************)
(* The collector the hardware pages read, as the engine uses it: what each   *)
(* exporter's scrapes left at each second, and range queries over it, any of *)
(* which may fail.  Time is counted in units, Second of them to the second,  *)
(* because the pages ask in milliseconds and the engine in seconds.          *)
(***************************************************************************)
EXTENDS Sensors

CONSTANTS
    Idle, Asked, \* a page's request, unless it is an answer on its way back
    Second,      \* units in a second
    MaxTime,     \* bound: the last unit
    MaxFaults,   \* bound: answers that are not whole
    Labels,      \* the series there may be: [key, card, sensor]
    Scrapes,     \* which of them a scrape may find, a set of sets of labels
    Failures,    \* which queries may fail together, a set of sets of keys
    Value(_, _)  \* the reading of a series at a second

ASSUME PrometheusAssumption ==
    /\ Idle # Asked /\ Second \in Nat \ {0} /\ MaxTime \in Nat /\ MaxFaults \in Nat
    /\ IsFiniteSet(Labels) /\ Scrapes \subseteq SUBSET Labels
    /\ \A l \in Labels : /\ l = [key |-> l.key, card |-> l.card, sensor |-> l.sensor]
                         /\ \A t \in 0..MaxTime : Value(l, t) \in Int
    /\ Failures \subseteq SUBSET (TempKeys \cup PowerKeys)

VARIABLES
    now,      \* the clock of engine and browser
    scraped,  \* the labels found at each second so far
    faults    \* history: how many answers were not whole

world == <<now, scraped, faults>>

Answered(r) == r \notin {Idle, Asked}
NoSamples == [t \in {} |-> {}]
Lost == [ok |-> FALSE, connected |-> FALSE, samples |-> NoSamples]

Sec(u) == u \div Second   \* Math.floor(ms / 1000)

WorldInit == now = 0 /\ scraped = [t \in {} |-> {}] /\ faults = 0

Tick ==
    /\ now < MaxTime
    /\ now' = now + 1
    /\ IF (now + 1) % Second # 0 THEN UNCHANGED scraped
       ELSE \E found \in Scrapes :
                scraped' = [t \in DOMAIN scraped \cup {Sec(now + 1)} |->
                                IF t \in DOMAIN scraped THEN scraped[t] ELSE found]
    /\ UNCHANGED faults

\* A series' points on the grid of a query; query_range starts its grid at start.
Points(label, grid) ==
    [t \in {g \in grid \cap DOMAIN scraped : label \in scraped[g]} |-> Value(label, t)]

SeriesOf(key, grid) ==
    LET found == {l \in Labels : l.key = key /\ \E t \in grid \cap DOMAIN scraped : l \in scraped[t]}
    IN  SetToSeq({[card |-> l.card, sensor |-> l.sensor, points |-> Points(l, grid)] : l \in found})

Grid(start, end, step) == {start + step * k : k \in 0..((end - start) \div step)}

\* The queries that fail together, and what that costs of the bound.
Fails(keys, failed) ==
    /\ failed \in {f \cap keys : f \in Failures \cup {{}}}
    /\ IF failed = {} THEN UNCHANGED faults ELSE faults < MaxFaults /\ faults' = faults + 1

Loses == faults < MaxFaults /\ faults' = faults + 1

====
