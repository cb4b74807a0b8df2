---- MODULE Hardware_proofs ----
(***************************************************************************)
(* Proofs about Hardware: for any sensors, scrapes, windows and bounds, the *)
(* link the temperature page shows is how its last poll ended, and each       *)
(* reading on it is one its own sensor gave, whatever order the answers to    *)
(* its requests come in; and the electricity page counts the energy of the   *)
(* samples metered for its window, by the sum of the window's units.          *)
(***************************************************************************)
EXTENDS Hardware, FiniteSetTheorems, WellFoundedInduction, TLAPS

\* A poll's answer says whether the collector was reached.
PollKnows == Answered(poll) => poll.connected \in BOOLEAN

LinkInv ==
    /\ PollKnows
    /\ pollOk # None => pollOk \in BOOLEAN /\ link = IF pollOk THEN "up" ELSE "down"

LEMMA AnswersKnow ==
    /\ Lost.connected \in BOOLEAN
    /\ \A failed : SnapshotAnswer(failed).connected \in BOOLEAN
BY DEF Lost, SnapshotAnswer, Connected

LEMMA InitLink == Init => LinkInv
<1>1. Init => pollOk = None /\ poll = Idle
  BY DEF Init, Unmounted
<1> QED BY <1>1 DEF LinkInv, PollKnows, Answered

\* Opening a page polls afresh, leaving it forgets how polls ended.
LEMMA OpenKeepsLink ==
    ASSUME LinkInv, NEW to, Open(to)
    PROVE  LinkInv'
<1>1. CASE Mount
  BY <1>1 DEF Mount, LinkInv, PollKnows, Answered, page
<1>2. CASE Unmount
  BY <1>2 DEF Unmount, LinkInv, PollKnows, Answered
<1> QED BY <1>1, <1>2 DEF Open

\* The engine's answers change no link, and a poll's own knows what it says.
LEMMA EngineKeepsLink ==
    ASSUME LinkInv, TempsEngine
    PROVE  LinkInv'
<1>1. UNCHANGED <<pollOk, link>>
  BY DEF TempsEngine, page
<1>2. \/ poll' = poll
      \/ \E failed : poll' = SnapshotAnswer(failed)
      \/ poll' = Lost
  BY DEF TempsEngine, Engine
<1>3. PollKnows'
  BY <1>2, AnswersKnow DEF LinkInv, PollKnows, Answered
<1> QED BY <1>1, <1>3 DEF LinkInv

\* A history's answer gives way to the poll that has ended; a poll's answer
\* replaces the one before it; a second history leaves the link alone.
LEMMA ArrivalKeepsLink ==
    ASSUME LinkInv, TempsArrives
    PROVE  LinkInv'
<1>1. CASE HistoryArrives
  <2>1. UNCHANGED <<pollOk, poll>> /\ link' = LinkAfterHistory(hist)
    BY <1>1 DEF HistoryArrives
  <2>2. pollOk # None => link' = link
    BY <2>1 DEF LinkInv, LinkAfterHistory
  <2> QED BY <2>1, <2>2 DEF LinkInv, PollKnows, Answered
<1>2. CASE PollArrives
  <2>1. /\ Answered(poll) /\ poll' = Idle
        /\ pollOk' = poll.connected
        /\ link' = IF poll.connected THEN "up" ELSE "down"
    BY <1>2 DEF PollArrives, Released
  <2> QED BY <2>1 DEF LinkInv, PollKnows, Answered
<1>3. CASE RetryArrives
  BY <1>3 DEF RetryArrives, LinkInv, PollKnows, Answered
<1> QED BY <1>1, <1>2, <1>3 DEF TempsArrives

LEMMA StepKeepsLink == LinkInv /\ [Next]_vars => LinkInv'
<1> SUFFICES ASSUME LinkInv, [Next]_vars PROVE LinkInv'
  OBVIOUS
<1>1. CASE \E to \in {"temps", "power", "away"} : Open(to)
  BY <1>1, OpenKeepsLink
<1>2. CASE Passes \/ Clock \/ Picks \/ AnswersPower \/ PowerArrives \/ UNCHANGED vars
  <2>1. UNCHANGED <<pollOk, link, poll>>
    BY <1>2 DEF Passes, Clock, Picks, AnswersPower, PowerArrives, vars, temps, page, requests
  <2> QED BY <2>1 DEF LinkInv, PollKnows, Answered
<1>3. CASE Timer
  BY <1>3 DEF Timer, Poll, page, LinkInv, PollKnows, Answered
<1>4. CASE TempsEngine
  BY <1>4, EngineKeepsLink
<1>5. CASE TempsArrives
  BY <1>5, ArrivalKeepsLink
<1>6. CASE Shows
  BY <1>6 DEF Shows, Visibility, page, LinkInv, PollKnows, Answered
<1> QED BY <1>1, <1>2, <1>3, <1>4, <1>5, <1>6 DEF Next

\* The link on display is how the last poll ended, though histories asked for
\* before and after it may be answered later (SystemTemperaturePage.tsx, pollOk).
THEOREM LinkIsLastPolls == Spec => []LinkFollowsPolls
<1>1. LinkInv => LinkFollowsPolls
  BY DEF LinkInv, LinkFollowsPolls
<1> QED BY <1>1, InitLink, StepKeepsLink, PTL DEF Spec

---------------------------------------------------------------------------
\* What the engine's readers make of the answers of Prometheus.

\* A set of natural numbers has a least element.
LEMMA LeastExists == ASSUME NEW S \in SUBSET Nat, S # {}
                     PROVE  \E m \in S : \A k \in S : m <= k
<1>1. PICK m \in S : \A k \in S : ~ (<<k, m>> \in OpToRel(<, Nat))
  BY NatLessThanWellFounded, WFMin
<1>2. \A k \in S : ~(k < m)
  BY <1>1 DEF OpToRel
<1> QED BY <1>2

\* A bounded set of numbers has a greatest element.
LEMMA BestIsGreatest ==
    ASSUME NEW S \in SUBSET Int, S # {}, NEW b \in Int, \A x \in S : x <= b
    PROVE  Best(S) \in S /\ \A y \in S : y <= Best(S)
<1> DEFINE Below == {n \in Nat : b - n \in S}
<1>1. PICK m \in Below : \A k \in Below : m <= k
  <2>1. Below \in SUBSET Nat
    OBVIOUS
  <2>2. Below # {}
    <3>1. PICK x \in S : TRUE
      OBVIOUS
    <3>2. b - x \in Nat /\ b - (b - x) = x
      BY <3>1
    <3> QED BY <3>1, <3>2
  <2> HIDE DEF Below
  <2> QED BY <2>1, <2>2, LeastExists
<1>3. b - m \in S
  BY <1>1
<1>4. ASSUME NEW y \in S PROVE y <= b - m
  <2>1. b - y \in Nat /\ b - (b - y) = y
    BY <1>4
  <2>2. m <= b - y
    BY <1>1, <2>1
  <2> QED BY <2>1, <2>2, <1>1
<1> QED BY <1>3, <1>4 DEF Best

\* A finite set written as a list, in whatever order.
LEMMA Listed ==
    ASSUME NEW S, IsFiniteSet(S)
    PROVE  Cardinality(S) \in Nat /\ SetToSeq(S) \in [1..Cardinality(S) -> S]
<1>1. PICK n \in Nat : ExistsBijection(1..n, S)
  BY FS_NatBijection
<1>2. Cardinality(S) = n
  BY <1>1, FS_CountingElements
<1>3. \E f \in [1..n -> S] : IsInjective(f)
  BY <1>1 DEF ExistsBijection, Bijection, Injection, IsInjective
<1> QED BY <1>2, <1>3 DEF SetToSeq

World ==
    /\ now \in Nat
    /\ DOMAIN scraped \subseteq 0..MaxTime
    /\ \A t \in DOMAIN scraped : scraped[t] \subseteq Labels

SeriesTrue(x, key, grid) ==
    \E l \in Labels : l.key = key /\ x.card = l.card /\ x.sensor = l.sensor /\ x.points = Points(l, grid)

\* Each series of a query is one of the collector's, with its points on the grid.
LEMMA SeriesAreTrue ==
    ASSUME World, NEW key, NEW grid
    PROVE  \E n \in Nat : /\ DOMAIN SeriesOf(key, grid) = 1..n
                          /\ \A i \in 1..n : SeriesTrue(SeriesOf(key, grid)[i], key, grid)
<1> DEFINE found == {l \in Labels : l.key = key /\ \E t \in grid \cap DOMAIN scraped : l \in scraped[t]}
           Made(l) == [card |-> l.card, sensor |-> l.sensor, points |-> Points(l, grid)]
           S == {Made(l) : l \in found}
<1>1. IsFiniteSet(found)
  <2>1. found \in SUBSET Labels /\ IsFiniteSet(Labels)
    BY PrometheusAssumption
  <2> HIDE DEF found
  <2> QED BY <2>1, FS_Subset
<1>2. IsFiniteSet(S)
  <2>1. [l \in found |-> Made(l)] \in Surjection(found, S)
    BY DEF Surjection
  <2> HIDE DEF found, S, Made
  <2> QED BY <1>1, <2>1, FS_Surjection
<1>3. \A x \in S : SeriesTrue(x, key, grid)
  BY DEF SeriesTrue
<1>4. SeriesOf(key, grid) = SetToSeq(S)
  BY DEF SeriesOf
<1> HIDE DEF S
<1> QED BY <1>2, <1>3, <1>4, Listed

LEMMA PointsAreTrue ==
    ASSUME World, NEW l \in Labels, NEW grid, NEW t \in DOMAIN Points(l, grid)
    PROVE  /\ t \in grid /\ t \in DOMAIN scraped /\ t \in 0..MaxTime /\ l \in scraped[t]
           /\ Points(l, grid)[t] = Value(l, t) /\ Value(l, t) \in Int
BY PrometheusAssumption DEF Points, World

LabelOf(key, card, sensor) == [key |-> key, card |-> card, sensor |-> sensor]

\* A reading v of a label was scraped at u.
ReadAt(v, label, u) == u \in DOMAIN scraped /\ label \in scraped[u] /\ v = Value(label, u)

\* The reading of a series is one it has at the second asked for, or its last.
LEMMA ReadingIsTrue ==
    ASSUME World, NEW x, NEW key, NEW grid, SeriesTrue(x, key, grid), NEW when \in Int \cup {None}
    PROVE  /\ Reading(x, when) \in Readings
           /\ Reading(x, when) # None =>
                \E u \in DOMAIN x.points : /\ u \in 0..MaxTime /\ (when # None => u = when)
                                           /\ ReadAt(Reading(x, when), LabelOf(key, x.card, x.sensor), u)
<1>1. PICK l \in Labels : l.key = key /\ x.card = l.card /\ x.sensor = l.sensor /\ x.points = Points(l, grid)
  BY DEF SeriesTrue
<1>2. l = LabelOf(key, x.card, x.sensor)
  BY <1>1, PrometheusAssumption DEF LabelOf
<1>3. \A t \in DOMAIN x.points : t \in 0..MaxTime /\ ReadAt(x.points[t], l, t) /\ x.points[t] \in Int
  BY <1>1, PointsAreTrue DEF ReadAt
<1>4. CASE when \in DOMAIN x.points
  BY <1>2, <1>3, <1>4 DEF Reading, Readings
<1>5. CASE when \notin DOMAIN x.points /\ (when # None \/ DOMAIN x.points = {})
  BY <1>5 DEF Reading, Readings
<1>6. CASE when \notin DOMAIN x.points /\ when = None /\ DOMAIN x.points # {}
  <2> DEFINE last == Best(DOMAIN x.points)
  <2>1. last \in DOMAIN x.points
    <3>1. DOMAIN x.points \in SUBSET Int /\ MaxTime \in Int /\ \A t \in DOMAIN x.points : t <= MaxTime
      BY <1>3, PrometheusAssumption
    <3> QED BY <1>6, <3>1, BestIsGreatest
  <2>2. Reading(x, when) = x.points[last]
    BY <1>6 DEF Reading
  <2> HIDE DEF last
  <2> QED BY <1>2, <1>3, <1>6, <2>1, <2>2 DEF Readings
<1> QED BY <1>4, <1>5, <1>6

LEMMA LastIsListed ==
    ASSUME NEW list, NEW n \in Nat, NEW found \in SUBSET (1..n), found # {}
    PROVE  \E i \in found : LastOf(list, found) = list[i]
<1>1. found \in SUBSET Int /\ n \in Int /\ \A i \in found : i <= n
  OBVIOUS
<1>2. Best(found) \in found
  BY <1>1, BestIsGreatest
<1> QED BY <1>2 DEF LastOf

\* The answers to the queries of one sample: for each, a list of true series.
PartsTrue(parts, grid) ==
    /\ DOMAIN parts = TempKeys
    /\ \A k \in TempKeys : \E n \in Nat :
        /\ DOMAIN parts[k] = 1..n
        /\ \A i \in 1..n : SeriesTrue(parts[k][i], k, grid)

LEMMA PartsAreTrue ==
    ASSUME World, NEW failed, NEW start, NEW step
    PROVE  PartsTrue(PartsOf(failed, start, step), Grid(start, Sec(now), step))
<1> DEFINE grid == Grid(start, Sec(now), step)
<1>1. ASSUME NEW k \in TempKeys
      PROVE  \E n \in Nat : /\ DOMAIN PartsOf(failed, start, step)[k] = 1..n
                            /\ \A i \in 1..n : SeriesTrue(PartsOf(failed, start, step)[k][i], k, grid)
  <2> HIDE DEF grid
  <2>1. CASE k \in failed
    <3>1. DOMAIN <<>> = 1..0
      OBVIOUS
    <3>2. \A i \in 1..0 : FALSE
      OBVIOUS
    <3>3. PartsOf(failed, start, step)[k] = <<>>
      BY <2>1 DEF PartsOf
    <3> QED BY <3>1, <3>2, <3>3
  <2>2. CASE k \notin failed
    <3>1. PartsOf(failed, start, step)[k] = SeriesOf(k, grid)
      BY <2>2 DEF PartsOf, grid
    <3> QED BY <3>1, SeriesAreTrue
  <2> QED BY <2>1, <2>2
<1>2. DOMAIN PartsOf(failed, start, step) = TempKeys
  BY DEF PartsOf
<1> QED BY <1>1, <1>2 DEF PartsTrue

\* A sample has points only where the grid meets a scrape.
LEMMA TimestampsAreScraped ==
    ASSUME World, NEW parts, NEW grid, PartsTrue(parts, grid)
    PROVE  Timestamps(parts) \subseteq grid \cap 0..MaxTime
<1> SUFFICES ASSUME NEW t \in Timestamps(parts) PROVE t \in grid /\ t \in 0..MaxTime
  OBVIOUS
<1>1. PICK k \in TempKeys : \E x \in Range(parts[k]) : t \in DOMAIN x.points
  BY DEF Timestamps, PartsTrue
<1>2. PICK i \in DOMAIN parts[k] : t \in DOMAIN parts[k][i].points
  BY <1>1 DEF Range
<1>3. SeriesTrue(parts[k][i], k, grid)
  BY <1>2 DEF PartsTrue
<1> QED BY <1>2, <1>3, PointsAreTrue DEF SeriesTrue

\* A reading v of a label, taken at a second of the answers, and the one asked for.
Taken(v, label, parts, when) ==
    \E u \in Timestamps(parts) : (when # None => u = when) /\ ReadAt(v, label, u)

LEMMA ListedIsTaken ==
    ASSUME World, NEW parts, NEW grid, PartsTrue(parts, grid), NEW when \in Int \cup {None},
           NEW k \in TempKeys, NEW i \in DOMAIN parts[k]
    PROVE  LET x == parts[k][i]
           IN  /\ Reading(x, when) \in Readings
               /\ Reading(x, when) # None => Taken(Reading(x, when), LabelOf(k, x.card, x.sensor), parts, when)
<1> DEFINE x == parts[k][i]
<1>1. SeriesTrue(x, k, grid) /\ x \in Range(parts[k]) /\ k \in DOMAIN parts
  BY DEF PartsTrue, Range
<1>2. DOMAIN x.points \subseteq Timestamps(parts)
  BY <1>1 DEF Timestamps
<1> HIDE DEF x
<1>3. Reading(x, when) \in Readings
  BY <1>1, ReadingIsTrue
<1>4. ASSUME Reading(x, when) # None PROVE Taken(Reading(x, when), LabelOf(k, x.card, x.sensor), parts, when)
  BY <1>1, <1>2, <1>4, ReadingIsTrue DEF Taken
<1> QED BY <1>3, <1>4 DEF x

LEMMA DegreesAreTaken ==
    ASSUME World, NEW parts, NEW grid, PartsTrue(parts, grid), NEW when \in Int \cup {None},
           NEW k \in TempKeys, NEW card, NEW sensor
    PROVE  LET d == Degrees(parts[k], card, sensor, when)
           IN  d \in Readings /\ (d # None => Taken(d, LabelOf(k, card, sensor), parts, when))
<1> DEFINE found == {i \in DOMAIN parts[k] : parts[k][i].card = card /\ parts[k][i].sensor = sensor}
           series == LastOf(parts[k], found)
           d == Degrees(parts[k], card, sensor, when)
<1>1. d = IF series = None THEN None ELSE Reading(series, when)
  BY DEF Degrees
<1>2. CASE series = None
  BY <1>1, <1>2 DEF Readings
<1>3. CASE series # None
  <2>1. found # {}
    <3> HIDE DEF found
    <3> QED BY <1>3 DEF LastOf
  <2>2. PICK i \in found : series = parts[k][i]
    <3>1. PICK n \in Nat : DOMAIN parts[k] = 1..n
      BY DEF PartsTrue
    <3>2. found \in SUBSET (1..n)
      BY <3>1
    <3> HIDE DEF found
    <3> QED BY <2>1, <3>1, <3>2, LastIsListed
  <2>3. i \in DOMAIN parts[k] /\ parts[k][i].card = card /\ parts[k][i].sensor = sensor
    BY <2>2
  <2>4. d = Reading(parts[k][i], when)
    BY <1>1, <1>3, <2>2
  <2> HIDE DEF found, series, d
  <2>5. /\ Reading(parts[k][i], when) \in Readings
        /\ Reading(parts[k][i], when) # None =>
              Taken(Reading(parts[k][i], when), LabelOf(k, parts[k][i].card, parts[k][i].sensor), parts, when)
    BY <2>3, ListedIsTaken
  <2>6. d \in Readings /\ (d # None => Taken(d, LabelOf(k, card, sensor), parts, when))
    BY <2>3, <2>4, <2>5
  <2> QED BY <2>6 DEF d
<1> QED BY <1>2, <1>3

LEMMA ScalarIsReading ==
    ASSUME World, NEW parts, NEW grid, PartsTrue(parts, grid), NEW when \in Int \cup {None},
           NEW k \in TempKeys, NEW card
    PROVE  Scalar(parts[k], card, when) \in Readings
<1> DEFINE found == {i \in DOMAIN parts[k] : parts[k][i].card = card /\ Reading(parts[k][i], when) # None}
           series == LastOf(parts[k], found)
<1>1. Scalar(parts[k], card, when) = IF series = None THEN None ELSE Reading(series, when)
  BY DEF Scalar
<1>2. CASE series = None
  BY <1>1, <1>2 DEF Readings
<1>3. CASE series # None
  <2>1. found # {}
    <3> HIDE DEF found
    <3> QED BY <1>3 DEF LastOf
  <2>2. PICK i \in found : series = parts[k][i]
    <3>1. PICK n \in Nat : DOMAIN parts[k] = 1..n
      BY DEF PartsTrue
    <3>2. found \in SUBSET (1..n)
      BY <3>1
    <3> HIDE DEF found
    <3> QED BY <2>1, <3>1, <3>2, LastIsListed
  <2>3. i \in DOMAIN parts[k] /\ Scalar(parts[k], card, when) = Reading(parts[k][i], when)
    BY <1>1, <1>3, <2>2
  <2> HIDE DEF found, series
  <2> QED BY <2>3, ListedIsTaken
<1> QED BY <1>2, <1>3

\* What a sample of second t may show of a card, after the scrapes found.
RealCard(found, t, g) ==
    /\ \A s \in DOMAIN GpuLimits : g.temps[s] # None =>
            \E u \in (t - SnapWindow)..t \cap DOMAIN found :
                /\ [key |-> "gpuTemp", card |-> g.card, sensor |-> s] \in found[u]
                /\ g.temps[s] = Value([key |-> "gpuTemp", card |-> g.card, sensor |-> s], u)
    /\ g.status = "normal" =>
            \A s \in DOMAIN GpuLimits : g.temps[s] # None /\ GpuLimits[s] - g.temps[s] > WarmMargin

\* A sample and what it shows: its readings are at most SnapWindow seconds old.
RealSample(found, t, x) == x \in Samples /\ x.t = t /\ \A g \in Range(x.gpus) : RealCard(found, t, g)

Within(parts, t, when) ==
    \A u \in Timestamps(parts) : (when # None => u = when) => u \in (t - SnapWindow)..t

LEMMA StatusIsOfReadings ==
    ASSUME NEW degrees \in [DOMAIN GpuLimits -> Readings]
    PROVE  /\ GpuStatus(degrees) \in {"missing", "over", "warm", "normal"}
           /\ GpuStatus(degrees) = "normal" =>
                \A s \in DOMAIN GpuLimits : degrees[s] # None /\ GpuLimits[s] - degrees[s] > WarmMargin
<1>1. GpuStatus(degrees) \in {"missing", "over", "warm", "normal"}
  BY DEF GpuStatus
<1>2. ASSUME GpuStatus(degrees) = "normal", NEW s \in DOMAIN GpuLimits
      PROVE  degrees[s] # None /\ GpuLimits[s] - degrees[s] > WarmMargin
  <2>1. degrees[s] # None /\ ~(GpuLimits[s] - degrees[s] <= WarmMargin)
    BY <1>2 DEF GpuStatus
  <2>2. degrees[s] \in Int /\ GpuLimits[s] \in Int /\ WarmMargin \in Int
    BY <2>1, SensorsAssumption DEF Readings
  <2> QED BY <2>1, <2>2
<1> QED BY <1>1, <1>2

LEMMA GpuIsReal ==
    ASSUME World, NEW parts, NEW grid, PartsTrue(parts, grid), NEW when \in Int \cup {None},
           NEW t, Within(parts, t, when), NEW C, IsFiniteSet(C), NEW c \in C, c \in Cards
    PROVE  LET g == Gpu(parts, C, c, when)
           IN  g \in GpuReadings /\ RealCard(scraped, t, g)
<1> DEFINE degrees == [s \in DOMAIN GpuLimits |-> Degrees(parts["gpuTemp"], c, s, when)]
           g == Gpu(parts, C, c, when)
           id == Cardinality({d \in C : d < c})
           scalars == [k \in Scalars |-> Scalar(parts[k], c, when)]
<1>1. g = [id |-> id, card |-> c, status |-> GpuStatus(degrees), temps |-> degrees, scalars |-> scalars]
  BY DEF Gpu
<1>2. "gpuTemp" \in TempKeys /\ Scalars \subseteq TempKeys
  BY DEF TempKeys
<1>3. ASSUME NEW s \in DOMAIN GpuLimits
      PROVE  degrees[s] \in Readings /\ (degrees[s] # None => Taken(degrees[s], LabelOf("gpuTemp", c, s), parts, when))
  BY <1>2, DegreesAreTaken
<1>4. id \in Nat
  <2>1. {d \in C : d < c} \in SUBSET C
    OBVIOUS
  <2>2. IsFiniteSet({d \in C : d < c})
    BY <2>1, FS_Subset
  <2> QED BY <2>2, FS_CardinalityType
<1>5. scalars \in [Scalars -> Readings]
  BY <1>2, ScalarIsReading
<1>6. degrees \in [DOMAIN GpuLimits -> Readings]
  BY <1>3
<1> HIDE DEF degrees, id, scalars, g
<1>7. g \in GpuReadings
  BY <1>1, <1>4, <1>5, <1>6, StatusIsOfReadings DEF GpuReadings
<1>8. ASSUME NEW s \in DOMAIN GpuLimits, degrees[s] # None
      PROVE  \E u \in (t - SnapWindow)..t \cap DOMAIN scraped :
                /\ LabelOf("gpuTemp", c, s) \in scraped[u]
                /\ degrees[s] = Value(LabelOf("gpuTemp", c, s), u)
  BY <1>3, <1>8 DEF Taken, ReadAt, Within
<1>9. g.temps = degrees /\ g.card = c /\ g.status = GpuStatus(degrees)
  BY <1>1
<1>10. RealCard(scraped, t, g)
  BY <1>6, <1>8, <1>9, StatusIsOfReadings DEF RealCard, LabelOf
<1> QED BY <1>7, <1>10 DEF g

\* A sample put together from true series is real.
LEMMA SampleIsReal ==
    ASSUME World, NEW parts, NEW grid, PartsTrue(parts, grid), NEW when \in Int \cup {None},
           NEW t \in Int, Within(parts, t, when)
    PROVE  RealSample(scraped, t, Sample(parts, t, when))
<1> DEFINE C == {x.card : x \in Range(parts["gpuTemp"])}
           gpus == [c \in C |-> Gpu(parts, C, c, when)]
           cpu == Cpu(parts, when)
<1>1. Sample(parts, t, when) = [t |-> t, cpu |-> cpu, gpus |-> gpus]
  BY DEF Sample, Gpus
<1>2. C \subseteq Cards
  <2>1. \A i \in DOMAIN parts["gpuTemp"] : parts["gpuTemp"][i].card \in Cards
    BY DEF PartsTrue, SeriesTrue, Cards, TempKeys
  <2> QED BY <2>1 DEF Range
<1>3. IsFiniteSet(C)
  <2>1. [l \in Labels |-> l.card] \in Surjection(Labels, Cards)
    BY DEF Surjection, Cards
  <2>2. IsFiniteSet(Cards)
    BY <2>1, PrometheusAssumption, FS_Surjection
  <2> HIDE DEF C
  <2> QED BY <1>2, <2>2, FS_Subset
<1>4. cpu \in [CpuSensors -> Readings]
  BY DegreesAreTaken DEF Cpu, TempKeys
<1> HIDE DEF C, cpu
<1>5. \A c \in C : Gpu(parts, C, c, when) \in GpuReadings /\ RealCard(scraped, t, Gpu(parts, C, c, when))
  BY <1>2, <1>3, GpuIsReal
<1>6. gpus \in [C -> GpuReadings] /\ \A g \in Range(gpus) : RealCard(scraped, t, g)
  BY <1>5 DEF Range
<1> HIDE DEF gpus
<1>7. gpus \in UNION {[B -> GpuReadings] : B \in SUBSET Cards}
  BY <1>2, <1>6
<1> QED BY <1>1, <1>4, <1>6, <1>7 DEF RealSample, Samples

RealSamples(found, got) ==
    /\ got = [t \in DOMAIN got |-> got[t]]
    /\ DOMAIN got \subseteq 0..MaxTime
    /\ \A t \in DOMAIN got : RealSample(found, t, got[t])

LEMMA NoSamplesAreReal == ASSUME NEW found PROVE DOMAIN NoSamples = {} /\ RealSamples(found, NoSamples)
BY DEF NoSamples, RealSamples

\* An answer of GET /temps has one sample, if the collector was reached, and else none.
OneSample(r) ==
    /\ r.connected \in BOOLEAN
    /\ r.connected => \E t \in 0..MaxTime : DOMAIN r.samples = {t}
    /\ ~r.connected => DOMAIN r.samples = {}

LEMMA SecIsInt == ASSUME NEW n \in Nat PROVE Sec(n) \in Nat /\ Sec(n) <= n
BY PrometheusAssumption DEF Sec

LEMMA SnapshotIsReal ==
    ASSUME World, NEW failed
    PROVE  RealSamples(scraped, SnapshotAnswer(failed).samples) /\ OneSample(SnapshotAnswer(failed))
<1> DEFINE start == Sec(now) - SnapWindow
           grid == Grid(start, Sec(now), 1)
           parts == PartsOf(failed, start, 1)
           T == {0} \cup Timestamps(parts)
           t == Best(T)
           x == Sample(parts, t, None)
           r == SnapshotAnswer(failed)
<1>1. Sec(now) \in Int /\ start \in Int /\ SnapWindow \in Nat /\ MaxTime \in Nat
  BY SecIsInt, TempsAssumption, PrometheusAssumption DEF World
<1>2. \A u \in grid : u \in Int /\ start <= u /\ u <= Sec(now)
  <2> SUFFICES ASSUME NEW k \in 0..((Sec(now) - start) \div 1)
               PROVE  start + 1 * k \in Int /\ start <= start + 1 * k /\ start + 1 * k <= Sec(now)
    BY DEF Grid
  <2> HIDE DEF start
  <2> QED BY <1>1
<1>3. PartsTrue(parts, grid)
  BY PartsAreTrue
<1> HIDE DEF grid, parts
<1>4. \A u \in Timestamps(parts) : u \in 0..MaxTime /\ start <= u /\ u <= Sec(now)
  BY <1>2, <1>3, TimestampsAreScraped
<1>5. t \in T /\ \A u \in T : u <= t
  <2>1. T \in SUBSET Int /\ T # {} /\ MaxTime \in Int /\ \A u \in T : u <= MaxTime
    BY <1>1, <1>4
  <2> HIDE DEF T
  <2>2. Best(T) \in T /\ \A u \in T : u <= Best(T)
    BY <2>1, BestIsGreatest
  <2> QED BY <2>2
<1> HIDE DEF t
<1>6. t \in 0..MaxTime
  BY <1>1, <1>4, <1>5
<1>7. Within(parts, t, None)
  <2> SUFFICES ASSUME NEW u \in Timestamps(parts) PROVE u \in (t - SnapWindow)..t
    BY DEF Within
  <2>1. u \in Int /\ u <= t /\ u >= 0 /\ start <= u
    BY <1>4, <1>5
  <2>2. t = 0 \/ t <= Sec(now)
    BY <1>4, <1>5
  <2> QED BY <1>1, <1>6, <2>1, <2>2
<1>8. RealSample(scraped, t, x)
  <2>1. t \in Int /\ None \in Int \cup {None}
    BY <1>6
  <2> QED BY <2>1, <1>3, <1>6, <1>7, SampleIsReal
<1>9. /\ r.connected = Connected(failed) /\ Connected(failed) \in BOOLEAN
      /\ r.samples = IF Connected(failed) THEN [u \in {x.t} |-> x] ELSE NoSamples
  <2>1. x = Snapshot(parts)
    BY DEF Snapshot, t
  <2> QED BY <2>1 DEF SnapshotAnswer, AnswerOf, Connected, parts
<1>10. x.t = t
  BY <1>8 DEF RealSample
<1> HIDE DEF x, r
<1>11. CASE Connected(failed)
  <2>1. DOMAIN r.samples = {t} /\ r.samples[t] = x /\ r.samples = [u \in {t} |-> x]
    BY <1>9, <1>10, <1>11
  <2> QED BY <1>6, <1>8, <1>9, <1>11, <2>1 DEF RealSamples, OneSample, r
<1>12. CASE ~Connected(failed)
  BY <1>9, <1>12, NoSamplesAreReal DEF OneSample, r
<1> QED BY <1>11, <1>12

LEMMA HistoryIsReal ==
    ASSUME World, NEW failed
    PROVE  RealSamples(scraped, HistoryAnswer(failed).samples)
<1> DEFINE start == Sec(now) - HistWindow
           grid == Grid(start, Sec(now), HistStep)
           parts == PartsOf(failed, start, HistStep)
<1>1. PartsTrue(parts, grid)
  BY PartsAreTrue
<1>2. HistoryAnswer(failed).samples = IF Connected(failed) THEN History(parts) ELSE NoSamples
  BY DEF HistoryAnswer, AnswerOf
<1> HIDE DEF grid, parts
<1>3. Timestamps(parts) \subseteq 0..MaxTime
  BY <1>1, TimestampsAreScraped
<1>4. ASSUME NEW t \in Timestamps(parts) PROVE RealSample(scraped, t, Sample(parts, t, t))
  <2>1. t \in Int /\ t # None /\ SnapWindow \in Nat
    BY <1>3, NoneAssumption, TempsAssumption
  <2>2. Within(parts, t, t)
    BY <2>1 DEF Within
  <2> QED BY <1>1, <2>1, <2>2, SampleIsReal
<1>5. RealSamples(scraped, History(parts))
  BY <1>3, <1>4 DEF History, RealSamples
<1> QED BY <1>2, <1>5, NoSamplesAreReal

---------------------------------------------------------------------------
\* The page puts real answers together, in whatever order they come.

Joined(both, base, incoming) ==
    /\ DOMAIN both = DOMAIN base \cup DOMAIN incoming
    /\ \A t \in DOMAIN incoming : both[t] = incoming[t]
    /\ \A t \in DOMAIN base : t \notin DOMAIN incoming => both[t] = base[t]

\* What is put together from real samples is real.
LEMMA MergedIsReal ==
    ASSUME NEW found, NEW base, NEW incoming, RealSamples(found, base), RealSamples(found, incoming)
    PROVE  RealSamples(found, Merged(base, incoming)) /\ Joined(Merged(base, incoming), base, incoming)
BY DEF RealSamples, Merged, Joined

\* A later scrape leaves the earlier ones as they were.
LEMMA RealStaysReal ==
    ASSUME NEW found, NEW more, \A u \in DOMAIN found : u \in DOMAIN more /\ more[u] = found[u],
           NEW got, RealSamples(found, got)
    PROVE  RealSamples(more, got)
<1>1. ASSUME NEW t, NEW g, RealCard(found, t, g) PROVE RealCard(more, t, g)
  BY <1>1 DEF RealCard
<1>2. \A t \in DOMAIN got : RealSample(more, t, got[t])
  BY <1>1 DEF RealSamples, RealSample
<1> QED BY <1>2 DEF RealSamples

AnswersReal ==
    /\ Answered(hist) => RealSamples(scraped, hist.samples)
    /\ Answered(retry) => RealSamples(scraped, retry.samples)
    /\ Answered(poll) => RealSamples(scraped, poll.samples) /\ OneSample(poll)

\* The cards show the charts' sample of that second.
LatestCharted == latest # None => latest \in Samples /\ latest.t \in DOMAIN samples /\ samples[latest.t] = latest

\* Until the first history has come, all there is came from polls: none is newer than the latest.
PolledOnly == hist # Idle => \A t \in DOMAIN samples : latest # None /\ t <= latest.t

\* The second history is asked for only once the first has settled.
InTurn == historySettled \in BOOLEAN /\ (historySettled => hist = Idle) /\ (retry # Idle => historySettled)

OffPage == tab # "temps" =>
    /\ samples = NoSamples /\ latest = None /\ historySettled = FALSE
    /\ hist = Idle /\ poll = Idle /\ retry = Idle

SamplesInv ==
    /\ World /\ RealSamples(scraped, samples)
    /\ AnswersReal /\ LatestCharted /\ PolledOnly /\ InTurn /\ OffPage

LEMMA LostIsReal == ASSUME NEW found PROVE RealSamples(found, Lost.samples) /\ OneSample(Lost)
<1>1. Lost.samples = NoSamples /\ Lost.connected = FALSE
  BY DEF Lost
<1> QED BY <1>1, NoSamplesAreReal DEF OneSample

LEMMA InitSamples == Init => SamplesInv
<1> SUFFICES ASSUME Init PROVE SamplesInv
  OBVIOUS
<1>1. /\ samples = NoSamples /\ latest = None /\ historySettled = FALSE
      /\ hist = Idle /\ poll = Idle /\ retry = Idle
  BY DEF Init, Unmounted
<1>2. World
  BY DEF Init, WorldInit, World
<1>3. RealSamples(scraped, samples)
  BY <1>1, NoSamplesAreReal
<1> QED BY <1>1, <1>2, <1>3 DEF SamplesInv, AnswersReal, LatestCharted, PolledOnly, InTurn, OffPage, Answered

\* Time passes, and a scrape is added to those there are.
LEMMA PassesKeepsSamples ==
    ASSUME SamplesInv, Passes
    PROVE  SamplesInv'
<1>1. /\ now < MaxTime /\ now' = now + 1
      /\ UNCHANGED <<samples, latest, historySettled, hist, poll, retry, tab>>
  BY DEF Passes, Tick, temps, page, requests
<1>2. World' /\ \A u \in DOMAIN scraped : u \in DOMAIN scraped' /\ scraped'[u] = scraped[u]
  <2>1. CASE scraped' = scraped
    BY <1>1, <2>1 DEF SamplesInv, World
  <2>2. ASSUME NEW found \in Scrapes,
               scraped' = [t \in DOMAIN scraped \cup {Sec(now + 1)} |->
                               IF t \in DOMAIN scraped THEN scraped[t] ELSE found]
        PROVE  World' /\ \A u \in DOMAIN scraped : u \in DOMAIN scraped' /\ scraped'[u] = scraped[u]
    <3>1. now + 1 \in Nat /\ now + 1 <= MaxTime /\ MaxTime \in Nat
      BY <1>1, PrometheusAssumption DEF SamplesInv, World
    <3>2. Sec(now + 1) \in 0..MaxTime
      BY <3>1, SecIsInt
    <3>3. found \subseteq Labels
      BY <2>2, PrometheusAssumption
    <3> QED BY <1>1, <2>2, <3>1, <3>2, <3>3 DEF SamplesInv, World
  <2> QED BY <2>1, <2>2 DEF Passes, Tick
<1>3. \A got : RealSamples(scraped, got) => RealSamples(scraped', got)
  BY <1>2, RealStaysReal
<1>4. RealSamples(scraped', samples') /\ AnswersReal'
  BY <1>1, <1>3 DEF SamplesInv, AnswersReal, Answered
<1> QED BY <1>1, <1>2, <1>4 DEF SamplesInv, LatestCharted, PolledOnly, InTurn, OffPage

\* A page is opened as it was left, with nothing on it, and left with nothing on it.
LEMMA OpenKeepsSamples ==
    ASSUME SamplesInv, NEW to, Open(to)
    PROVE  SamplesInv'
<1>1. UNCHANGED <<now, scraped>> /\ tab # to /\ tab' = to
  BY DEF Open, world
<1>2. World'
  BY <1>1 DEF SamplesInv, World
<1>3. CASE to = "temps"
  <2>1. /\ hist' = Asked /\ retry' = Idle /\ poll' \in {Asked, Idle}
        /\ UNCHANGED <<samples, latest, historySettled>>
    BY <1>3 DEF Open, Mount, page
  <2>2. /\ samples' = NoSamples /\ latest' = None /\ historySettled' = FALSE
    BY <1>1, <1>3, <2>1 DEF SamplesInv, OffPage
  <2>3. RealSamples(scraped', samples') /\ DOMAIN samples' = {}
    BY <2>2, NoSamplesAreReal
  <2> QED BY <1>1, <1>2, <1>3, <2>1, <2>2, <2>3
          DEF SamplesInv, AnswersReal, LatestCharted, PolledOnly, InTurn, OffPage, Answered
<1>4. CASE to # "temps"
  <2>1. /\ samples' = NoSamples /\ latest' = None /\ historySettled' = FALSE
        /\ hist' = Idle /\ poll' = Idle /\ retry' = Idle
    BY <1>4 DEF Open, Unmount
  <2>2. RealSamples(scraped', samples')
    BY <2>1, NoSamplesAreReal
  <2> QED BY <1>2, <2>1, <2>2
          DEF SamplesInv, AnswersReal, LatestCharted, PolledOnly, InTurn, OffPage, Answered
<1> QED BY <1>3, <1>4

\* The engine's answer to a request, or its loss, is real.
LEMMA EngineKeepsSamples ==
    ASSUME SamplesInv, TempsEngine
    PROVE  SamplesInv'
<1>1. UNCHANGED <<now, scraped, samples, latest, historySettled, tab>>
  BY DEF TempsEngine, page
<1>2. /\ hist' = hist \/ (hist = Asked /\ \E failed : hist' \in {HistoryAnswer(failed), Lost})
      /\ retry' = retry \/ (retry = Asked /\ \E failed : retry' \in {HistoryAnswer(failed), Lost})
      /\ poll' = poll \/ (poll = Asked /\ \E failed : poll' \in {SnapshotAnswer(failed), Lost})
  BY DEF TempsEngine, Engine
<1>3. \A failed : /\ RealSamples(scraped, HistoryAnswer(failed).samples)
                  /\ RealSamples(scraped, SnapshotAnswer(failed).samples) /\ OneSample(SnapshotAnswer(failed))
  BY HistoryIsReal, SnapshotIsReal DEF SamplesInv
<1>4. RealSamples(scraped, Lost.samples) /\ OneSample(Lost)
  BY LostIsReal
<1>5. Answered(hist') => RealSamples(scraped', hist'.samples)
  BY <1>1, <1>2, <1>3, <1>4 DEF SamplesInv, AnswersReal
<1>6. Answered(retry') => RealSamples(scraped', retry'.samples)
  BY <1>1, <1>2, <1>3, <1>4 DEF SamplesInv, AnswersReal
<1>7. Answered(poll') => RealSamples(scraped', poll'.samples) /\ OneSample(poll')
  BY <1>1, <1>2, <1>3, <1>4 DEF SamplesInv, AnswersReal
<1>8. AnswersReal'
  BY <1>5, <1>6, <1>7 DEF AnswersReal, Answered
<1>9. /\ hist = Idle => hist' = Idle
      /\ retry = Idle => retry' = Idle
      /\ poll = Idle => poll' = Idle
  BY <1>2, PrometheusAssumption
<1> QED BY <1>1, <1>8, <1>9 DEF SamplesInv, World, LatestCharted, PolledOnly, InTurn, OffPage

\* The effect that asks for the second history does so once the first has settled.
LEMMA RetryIsInTurn ==
    ASSUME RetryEffect
    PROVE  retry' = retry \/ retry' = Idle \/ (retry' = Asked /\ historySettled')
BY DEF RetryEffect

\* The first history: a sample a poll has left stays, and the latest with it.
LEMMA HistoryKeepsSamples ==
    ASSUME SamplesInv, HistoryArrives, UNCHANGED <<world, tab>>
    PROVE  SamplesInv'
<1> DEFINE got == hist.samples
           n == Best(DOMAIN got)
<1>1. /\ Answered(hist) /\ hist' = Idle /\ historySettled' = TRUE /\ poll' = poll
      /\ samples' = Merged(got, samples)
      /\ latest' = IF got = NoSamples THEN latest ELSE Newer(Newest(got), TRUE)
      /\ RetryEffect /\ UNCHANGED <<now, scraped, tab>>
  BY DEF HistoryArrives, world
<1>2. RealSamples(scraped, got) /\ RealSamples(scraped, samples)
  BY <1>1 DEF SamplesInv, AnswersReal
<1>3. hist # Idle /\ tab = "temps"
  BY <1>1 DEF Answered, SamplesInv, OffPage
<1> HIDE DEF got
<1>4. /\ RealSamples(scraped, samples')
      /\ DOMAIN samples' = DOMAIN got \cup DOMAIN samples
      /\ \A t \in DOMAIN samples : samples'[t] = samples[t]
      /\ \A t \in DOMAIN got : t \notin DOMAIN samples => samples'[t] = got[t]
  <2>1. RealSamples(scraped, samples') /\ Joined(samples', got, samples)
    BY <1>1, <1>2, MergedIsReal
  <2> QED BY <2>1 DEF Joined
<1>5. LatestCharted'
  <2>1. CASE latest' = latest
    BY <1>4, <2>1 DEF SamplesInv, LatestCharted
  <2>2. CASE latest' # latest
    <3>1. got # NoSamples /\ latest' = Newer(got[n], TRUE)
      BY <1>1, <2>2 DEF Newest
    <3>2. DOMAIN got # {}
      BY <1>2, <3>1 DEF RealSamples, NoSamples
    <3>3. n \in DOMAIN got
      <4>1. DOMAIN got \in SUBSET Int /\ MaxTime \in Int /\ \A t \in DOMAIN got : t <= MaxTime
        BY <1>2, PrometheusAssumption DEF RealSamples
      <4> HIDE DEF got
      <4> QED BY <3>2, <4>1, BestIsGreatest
    <3>4. got[n] \in Samples /\ got[n].t = n
      BY <1>2, <3>3 DEF RealSamples, RealSample
    <3>5. n \in Int
      BY <1>2, <3>3 DEF RealSamples
    <3> HIDE DEF n
    <3>6. latest' = got[n] /\ (latest = None \/ n > latest.t)
      BY <2>2, <3>1, <3>4 DEF Newer
    <3>7. n \notin DOMAIN samples
      <4>1. ASSUME n \in DOMAIN samples PROVE FALSE
        <5>1. latest # None /\ n <= latest.t
          BY <1>3, <4>1 DEF SamplesInv, PolledOnly
        <5>2. latest.t \in Int
          BY <5>1 DEF SamplesInv, LatestCharted, RealSamples
        <5> QED BY <3>5, <3>6, <5>1, <5>2
      <4> QED BY <4>1
    <3> QED BY <1>4, <3>3, <3>4, <3>6, <3>7 DEF LatestCharted
  <2> QED BY <2>1, <2>2
<1>6. retry' = retry \/ retry' = Idle \/ retry' = Asked
  BY <1>1, RetryIsInTurn
<1>7. AnswersReal'
  BY <1>1, <1>6 DEF SamplesInv, AnswersReal, Answered
<1> QED BY <1>1, <1>3, <1>4, <1>5, <1>7 DEF SamplesInv, World, PolledOnly, InTurn, OffPage

\* A poll: its sample replaces that of its second, and is the latest unless it is older.
LEMMA PollKeepsSamples ==
    ASSUME SamplesInv, PollArrives, UNCHANGED <<world, tab>>
    PROVE  SamplesInv'
<1> DEFINE got == poll.samples
<1>1. /\ Answered(poll) /\ poll' = Idle /\ UNCHANGED <<historySettled, hist>>
      /\ samples' = Merged(samples, got)
      /\ latest' = IF poll.connected THEN Newer(Newest(got), FALSE) ELSE latest
      /\ RetryEffect /\ UNCHANGED <<now, scraped, tab>>
  BY DEF PollArrives, Released, world
<1>2. RealSamples(scraped, got) /\ RealSamples(scraped, samples) /\ OneSample(poll)
  BY <1>1 DEF SamplesInv, AnswersReal
<1>3. tab = "temps"
  BY <1>1 DEF Answered, SamplesInv, OffPage
<1>4. retry' = retry \/ retry' = Idle \/ (retry' = Asked /\ historySettled')
  BY <1>1, RetryIsInTurn
<1>5. AnswersReal' /\ InTurn' /\ OffPage' /\ World'
  BY <1>1, <1>3, <1>4 DEF SamplesInv, AnswersReal, Answered, InTurn, OffPage, World
<1> HIDE DEF got
<1>6. /\ RealSamples(scraped, samples')
      /\ DOMAIN samples' = DOMAIN samples \cup DOMAIN got
      /\ \A t \in DOMAIN got : samples'[t] = got[t]
      /\ \A t \in DOMAIN samples : t \notin DOMAIN got => samples'[t] = samples[t]
  <2>1. RealSamples(scraped, samples') /\ Joined(samples', samples, got)
    BY <1>1, <1>2, MergedIsReal
  <2> QED BY <2>1 DEF Joined
<1>7. CASE ~poll.connected
  <2>1. DOMAIN got = {} /\ latest' = latest
    BY <1>1, <1>2, <1>7 DEF OneSample, got
  <2>2. LatestCharted' /\ PolledOnly'
    BY <1>1, <1>6, <2>1 DEF SamplesInv, LatestCharted, PolledOnly
  <2> QED BY <1>1, <1>5, <1>6, <2>2 DEF SamplesInv
<1>8. CASE poll.connected
  <2>1. PICK t \in 0..MaxTime : DOMAIN got = {t}
    BY <1>2, <1>8 DEF OneSample, got
  <2>2. Best(DOMAIN got) = t
    BY <2>1 DEF Best
  <2>3. got[t] \in Samples /\ got[t].t = t /\ got[t] # None
    BY <1>2, <2>1, NoneAssumption DEF RealSamples, RealSample
  <2>4. latest' = Newer(got[t], FALSE)
    BY <1>1, <1>8, <2>2 DEF Newest
  <2>5. latest # None => latest \in Samples /\ latest.t \in DOMAIN samples /\ latest.t \in Int
    BY <1>2 DEF SamplesInv, LatestCharted, RealSamples
  <2>6. t \in Int /\ \A u \in DOMAIN samples : u \in Int
    BY <1>2 DEF RealSamples
  <2>7. CASE latest' = got[t] /\ (latest # None => latest.t <= t)
    <3>1. LatestCharted'
      BY <1>6, <2>1, <2>3, <2>7 DEF LatestCharted
    <3>2. ASSUME hist' # Idle, NEW u \in DOMAIN samples' PROVE latest' # None /\ u <= latest'.t
      <4>1. latest' # None /\ latest'.t = t
        BY <2>3, <2>7
      <4>2. u = t \/ (u \in DOMAIN samples /\ latest # None /\ u <= latest.t)
        BY <1>1, <1>6, <2>1, <3>2 DEF SamplesInv, PolledOnly
      <4> QED BY <2>5, <2>6, <2>7, <4>1, <4>2
    <3>3. PolledOnly'
      BY <3>2 DEF PolledOnly
    <3> QED BY <1>1, <1>5, <1>6, <3>1, <3>3 DEF SamplesInv
  <2>8. CASE latest' = latest /\ latest # None /\ t < latest.t
    <3>1. latest.t \notin DOMAIN got
      BY <2>1, <2>5, <2>6, <2>8
    <3>2. LatestCharted'
      BY <1>6, <2>5, <2>8, <3>1 DEF SamplesInv, LatestCharted
    <3>3. ASSUME hist' # Idle, NEW u \in DOMAIN samples' PROVE u <= latest.t
      <4>1. u = t \/ (u \in DOMAIN samples /\ u <= latest.t)
        BY <1>1, <1>6, <2>1, <3>3 DEF SamplesInv, PolledOnly
      <4> QED BY <2>5, <2>6, <2>8, <4>1
    <3>4. PolledOnly'
      BY <2>8, <3>3 DEF PolledOnly
    <3> QED BY <1>1, <1>5, <1>6, <3>2, <3>4 DEF SamplesInv
  <2> QED BY <2>3, <2>4, <2>5, <2>6, <2>7, <2>8 DEF Newer
<1> QED BY <1>7, <1>8

\* The second history: what there is stays.
LEMMA SecondHistoryKeepsSamples ==
    ASSUME SamplesInv, RetryArrives, UNCHANGED <<world, tab>>
    PROVE  SamplesInv'
<1> DEFINE got == retry.samples
<1>1. /\ Answered(retry) /\ UNCHANGED <<latest, historySettled, hist, poll>>
      /\ samples' = Merged(got, samples)
      /\ RetryEffect \/ retry' = Idle
      /\ UNCHANGED <<now, scraped, tab>>
  BY DEF RetryArrives, world
<1>2. RealSamples(scraped, got) /\ RealSamples(scraped, samples)
  BY <1>1 DEF SamplesInv, AnswersReal
<1>3. tab = "temps" /\ hist = Idle
  BY <1>1 DEF Answered, SamplesInv, OffPage, InTurn
<1> HIDE DEF got
<1>4. /\ RealSamples(scraped, samples')
      /\ DOMAIN samples' = DOMAIN got \cup DOMAIN samples
      /\ \A t \in DOMAIN samples : samples'[t] = samples[t]
  <2>1. RealSamples(scraped, samples') /\ Joined(samples', got, samples)
    BY <1>1, <1>2, MergedIsReal
  <2> QED BY <2>1 DEF Joined
<1>5. retry' = retry \/ retry' = Idle \/ (retry' = Asked /\ historySettled')
  BY <1>1, RetryIsInTurn
<1>6. AnswersReal' /\ InTurn' /\ OffPage' /\ World' /\ PolledOnly'
  BY <1>1, <1>3, <1>5 DEF SamplesInv, AnswersReal, Answered, InTurn, OffPage, World, PolledOnly
<1>7. LatestCharted'
  BY <1>1, <1>4 DEF SamplesInv, LatestCharted
<1> QED BY <1>1, <1>4, <1>6, <1>7 DEF SamplesInv

LEMMA StepKeepsSamples == SamplesInv /\ [Next]_vars => SamplesInv'
<1> SUFFICES ASSUME SamplesInv, [Next]_vars PROVE SamplesInv'
  OBVIOUS
<1>1. CASE \E to \in {"temps", "power", "away"} : Open(to)
  BY <1>1, OpenKeepsSamples
<1>2. CASE Passes
  BY <1>2, PassesKeepsSamples
<1>3. CASE Clock \/ Picks \/ AnswersPower \/ PowerArrives \/ UNCHANGED vars
  <2>1. UNCHANGED <<now, scraped, samples, latest, historySettled, hist, poll, retry, tab>>
    BY <1>3 DEF Clock, Picks, AnswersPower, PowerArrives, vars, temps, page, requests, world
  <2> QED BY <2>1 DEF SamplesInv, World, AnswersReal, LatestCharted, PolledOnly, InTurn, OffPage, Answered
<1>4. CASE (tab = "temps" /\ Timer) \/ Shows
  <2>1. /\ UNCHANGED <<now, scraped, samples, latest, historySettled, hist, retry, tab>>
        /\ poll' = poll \/ poll' = Asked
        /\ tab = "temps"
    BY <1>4 DEF Timer, Poll, Shows, Visibility, page, world
  <2> QED BY <2>1 DEF SamplesInv, World, AnswersReal, LatestCharted, PolledOnly, InTurn, OffPage, Answered
<1>5. CASE TempsEngine
  BY <1>5, EngineKeepsSamples
<1>6. CASE TempsArrives
  BY <1>6, HistoryKeepsSamples, PollKeepsSamples, SecondHistoryKeepsSamples DEF TempsArrives
<1> QED BY <1>1, <1>2, <1>3, <1>4, <1>5, <1>6 DEF Next

\* Each temperature shown is one its own card and sensor gave, at most SnapWindow
\* seconds before the sample it stands in, a status is of all sensors, and the cards
\* show the very sample the charts have, in whatever order the first history, polls and
\* the second history arrive (fetchTempSnapshot, fetchTempHistory, mergeTempSamples).
THEOREM ReadingsAreRealAlways == Spec => []ReadingsAreReal
<1>1. SamplesInv => ReadingsAreReal
  BY DEF SamplesInv, RealSamples, RealSample, RealCard, LatestCharted, ReadingsAreReal
<1> QED BY <1>1, InitSamples, StepKeepsSamples, PTL DEF Spec


---------------------------------------------------------------------------
\* The electricity page: what its feed and its instant read are.

\* A reading of the meters of a kind at a second: the greatest there is.
MetersAt(found, key, t) == {Value(l, t) : l \in {l \in found[t] : l.key = key}}

Metered(found, key, t, v) ==
    /\ t \in DOMAIN found
    /\ v \in MetersAt(found, key, t) /\ v >= 0 /\ \A x \in MetersAt(found, key, t) : x <= v

\* A sample as the engine makes it, of a second of the grid.
MeteredSample(found, u, sample, start, step) ==
    \E t \in 0..MaxTime :
        /\ t \in DOMAIN found /\ u = t * Second /\ t >= Sec(start)
        /\ \E k \in Nat : t - Sec(start) = step * k
        /\ sample = [key \in PowerKeys |-> sample[key]]
        /\ \A key \in PowerKeys : sample[key] # None => Metered(found, key, t, sample[key])

MeteredSamples(found, got, w, step) ==
    /\ got = [u \in DOMAIN got |-> got[u]]
    /\ \A u \in DOMAIN got : MeteredSample(found, u, got[u], w.start, step) /\ u <= w.end

GridStep(step) == Best({1, (2 * step + Second) \div (2 * Second)})

\* The greater of two.
LEMMA BestOf == ASSUME NEW a \in Int, NEW b \in Int PROVE Best({a, b}) = IF a <= b THEN b ELSE a
<1> DEFINE m == IF a <= b THEN b ELSE a
<1>1. m \in {a, b} /\ \A y \in {a, b} : y <= m
  OBVIOUS
<1>2. ASSUME NEW x \in {a, b}, \A y \in {a, b} : y <= x PROVE x = m
  BY <1>2
<1> HIDE DEF m
<1>3. Best({a, b}) = m
  BY <1>1, <1>2 DEF Best
<1> QED BY <1>3 DEF m

\* A greatest element is the best.
LEMMA BestIs == ASSUME NEW S \in SUBSET Int, NEW m \in S, \A y \in S : y <= m PROVE Best(S) = m
<1>1. \A x \in S : (\A y \in S : y <= x) => x = m
  OBVIOUS
<1> QED BY <1>1 DEF Best

\* A second has units, at least one.
LEMMA SecondIs == Second \in Nat /\ Second > 0 /\ MaxTime \in Nat
BY PrometheusAssumption

\* A time is within its second, and no later whole second is before it.
LEMMA SecBounds == ASSUME NEW u \in Int
                   PROVE  /\ Sec(u) \in Int /\ Sec(u) * Second <= u /\ u < Sec(u) * Second + Second
                          /\ \A t \in Int : t * Second <= u => t <= Sec(u)
<1>1. Sec(u) \in Int /\ Sec(u) * Second <= u /\ u < Sec(u) * Second + Second
  BY SecondIs DEF Sec
<1>2. ASSUME NEW t \in Int, t * Second <= u, t > Sec(u) PROVE FALSE
  <2>1. t * Second >= (Sec(u) + 1) * Second
    BY <1>1, <1>2, SecondIs
  <2> QED BY <1>1, <1>2, <2>1, SecondIs
<1> QED BY <1>1, <1>2

\* A whole second is its own.
LEMMA SecOfMultiple == ASSUME NEW t \in Int PROVE Sec(t * Second) = t
<1>1. t * Second \in Int
  BY SecondIs
<1>2. /\ Sec(t * Second) \in Int /\ Sec(t * Second) * Second <= t * Second
      /\ t * Second < Sec(t * Second) * Second + Second /\ t <= Sec(t * Second)
  BY <1>1, SecBounds, SecondIs
<1> DEFINE q == Sec(t * Second)
<1> HIDE DEF q
<1>3. q \in Int /\ q * Second <= t * Second /\ t <= q
  BY <1>2 DEF q
<1>4. q = t
  BY <1>3, SecondIs
<1> QED BY <1>4 DEF q

\* A finite set of numbers has a greatest.
LEMMA FiniteHasBest ==
    ASSUME NEW S \in SUBSET Int, S # {}, IsFiniteSet(S)
    PROVE  Best(S) \in S /\ \A y \in S : y <= Best(S)
<1> DEFINE Above(x) == {y \in S : y > x}
           Sizes == {Cardinality(Above(x)) : x \in S}
<1>1. \A x \in S : IsFiniteSet(Above(x)) /\ Cardinality(Above(x)) \in Nat
  BY FS_Subset, FS_CardinalityType
<1>2. PICK x \in S : \A y \in S : Cardinality(Above(x)) <= Cardinality(Above(y))
  <2>1. Sizes \in SUBSET Nat /\ Sizes # {}
    BY <1>1
  <2>2. PICK m \in Sizes : \A k \in Sizes : m <= k
    <3> HIDE DEF Sizes
    <3> QED BY <2>1, LeastExists
  <2> QED BY <2>2
<1>3. ASSUME NEW y \in S, y > x PROVE FALSE
  <2>1. Above(y) \in SUBSET Above(x) /\ y \in Above(x) /\ y \notin Above(y)
    <3>1. \A z \in S : z \in Int /\ (z > y => z > x)
      BY <1>3
    <3>2. y > x /\ ~(y > y)
      BY <1>3
    <3> QED BY <3>1, <3>2
  <2>2. /\ Cardinality(Above(y)) <= Cardinality(Above(x))
        /\ Cardinality(Above(x)) = Cardinality(Above(y)) => Above(x) = Above(y)
    BY <1>1, <2>1, FS_Subset
  <2>3. Cardinality(Above(x)) <= Cardinality(Above(y)) /\ Cardinality(Above(x)) \in Nat /\ Cardinality(Above(y)) \in Nat
    BY <1>1, <1>2
  <2> HIDE DEF Above
  <2> QED BY <2>1, <2>2, <2>3
<1>4. \A y \in S : y <= x
  BY <1>3
<1>5. x = Best(S)
  BY <1>4, BestIs
<1> QED BY <1>4, <1>5

\* A set put in a list is all there.
LEMMA ListedAll ==
    ASSUME NEW S, IsFiniteSet(S)
    PROVE  /\ DOMAIN SetToSeq(S) = 1..Cardinality(S)
           /\ Range(SetToSeq(S)) = S
<1> DEFINE n == Cardinality(S)
           list == SetToSeq(S)
<1>1. n \in Nat /\ list \in [1..n -> S]
  BY Listed
<1>2. \E f \in [1..n -> S] : IsInjective(f)
  <2>1. ExistsBijection(1..n, S)
    BY FS_CardinalityType
  <2> QED BY <2>1 DEF ExistsBijection, Bijection, Injection, IsInjective
<1>3. IsInjective(list)
  BY <1>2 DEF SetToSeq
<1> HIDE DEF list
<1>4. list \in Injection(1..n, S)
  BY <1>1, <1>3 DEF Injection
<1>5. Cardinality(1..n) = n
  <2>1. 1 \in Int /\ n \in Int /\ (n < 1 => n = 0)
    BY <1>1
  <2> QED BY <2>1, FS_Interval
<1>6. list \in Surjection(1..n, S)
  BY <1>4, <1>5, FS_Injection
<1> QED BY <1>1, <1>6 DEF Surjection, Range, list

\* What a query finds: the points on its grid of each series with that key.
LEMMA SeriesAreAll ==
    ASSUME World, NEW key, NEW grid
    PROVE  /\ \A x \in Range(SeriesOf(key, grid)) : SeriesTrue(x, key, grid)
           /\ \A t \in grid \cap DOMAIN scraped : \A l \in scraped[t] :
                l.key = key => \E x \in Range(SeriesOf(key, grid)) : x.points = Points(l, grid)
<1> DEFINE found == {l \in Labels : l.key = key /\ \E t \in grid \cap DOMAIN scraped : l \in scraped[t]}
           Made(l) == [card |-> l.card, sensor |-> l.sensor, points |-> Points(l, grid)]
           S == {Made(l) : l \in found}
<1>1. IsFiniteSet(found)
  <2>1. found \in SUBSET Labels /\ IsFiniteSet(Labels)
    BY PrometheusAssumption
  <2> HIDE DEF found
  <2> QED BY <2>1, FS_Subset
<1>2. IsFiniteSet(S)
  <2>1. [l \in found |-> Made(l)] \in Surjection(found, S)
    BY DEF Surjection
  <2> HIDE DEF found, S, Made
  <2> QED BY <1>1, <2>1, FS_Surjection
<1>3. \A x \in S : SeriesTrue(x, key, grid)
  BY DEF SeriesTrue
<1>4. SeriesOf(key, grid) = SetToSeq(S)
  BY DEF SeriesOf
<1>5. ASSUME NEW t \in grid \cap DOMAIN scraped, NEW l \in scraped[t], l.key = key
      PROVE  \E x \in S : x.points = Points(l, grid)
  <2>1. l \in found
    BY <1>5 DEF World
  <2>2. Made(l) \in S /\ Made(l).points = Points(l, grid)
    BY <2>1
  <2> QED BY <2>2
<1>6. Range(SeriesOf(key, grid)) = S
  <2> HIDE DEF S
  <2> QED BY <1>2, <1>4, ListedAll
<1> QED BY <1>3, <1>5, <1>6

\* A power query's answer has, at each second, the greatest reading of the meters then.
LEMMA WattsAreMetered ==
    ASSUME World, NEW key, NEW grid
    PROVE  LET watts == Watts(SeriesOf(key, grid))
           IN  \A t \in DOMAIN watts : t \in grid /\ t \in 0..MaxTime /\ Metered(scraped, key, t, watts[t])
<1> DEFINE list == SeriesOf(key, grid)
           Read(t) == {s \in Range(list) : t \in DOMAIN s.points /\ s.points[t] >= 0}
           Got(t) == {s.points[t] : s \in Read(t)}
           D == {t \in UNION {DOMAIN s.points : s \in Range(list)} : Read(t) # {}}
<1> SUFFICES ASSUME NEW t \in DOMAIN Watts(list)
             PROVE  t \in grid /\ t \in 0..MaxTime /\ Metered(scraped, key, t, Watts(list)[t])
  OBVIOUS
<1>1. t \in D /\ Watts(list)[t] = Best(Got(t))
  BY DEF Watts
<1>2. \A s \in Range(list) : \E l \in Labels : l.key = key /\ s.points = Points(l, grid)
  BY SeriesAreAll DEF SeriesTrue
<1>3. /\ \A v \in Got(t) : v \in MetersAt(scraped, key, t) /\ v \in Int /\ v >= 0
      /\ t \in grid /\ t \in DOMAIN scraped /\ t \in 0..MaxTime
      /\ Got(t) # {}
  <2>0. Got(t) # {}
    BY <1>1
  <2>1. ASSUME NEW s \in Read(t)
        PROVE  /\ s.points[t] \in MetersAt(scraped, key, t) /\ s.points[t] \in Int /\ s.points[t] >= 0
               /\ t \in grid /\ t \in DOMAIN scraped /\ t \in 0..MaxTime
    <3>1. PICK l \in Labels : l.key = key /\ s.points = Points(l, grid)
      BY <1>2
    <3>2. t \in DOMAIN Points(l, grid) /\ s.points[t] >= 0
      BY <3>1
    <3>3. /\ t \in grid /\ t \in DOMAIN scraped /\ t \in 0..MaxTime /\ l \in scraped[t]
          /\ Points(l, grid)[t] = Value(l, t) /\ Value(l, t) \in Int
      BY <3>2, PointsAreTrue
    <3> QED BY <3>1, <3>2, <3>3 DEF MetersAt
  <2> QED BY <2>0, <2>1
<1>4. \A v \in MetersAt(scraped, key, t) : v \in Int /\ (v >= 0 => v \in Got(t))
  <2> SUFFICES ASSUME NEW l \in scraped[t], l.key = key
               PROVE  Value(l, t) \in Int /\ (Value(l, t) >= 0 => Value(l, t) \in Got(t))
    BY DEF MetersAt
  <2>1. PICK s \in Range(list) : s.points = Points(l, grid)
    BY <1>3, SeriesAreAll
  <2>2. t \in DOMAIN Points(l, grid) /\ Points(l, grid)[t] = Value(l, t)
    BY <1>3 DEF Points
  <2>3. l \in Labels /\ Value(l, t) \in Int
    BY <1>3, PrometheusAssumption DEF World
  <2> QED BY <2>1, <2>2, <2>3
<1>5. Best(Got(t)) \in Got(t) /\ \A y \in Got(t) : y <= Best(Got(t))
  <2>1. PICK l \in Labels : TRUE
    BY <1>2, <1>1
  <2>2. IsFiniteSet(Labels)
    BY PrometheusAssumption
  <2>3. Got(t) \in SUBSET {Value(m, t) : m \in Labels}
    BY <1>3 DEF MetersAt, World
  <2>4. IsFiniteSet({Value(m, t) : m \in Labels})
    <3>1. [m \in Labels |-> Value(m, t)] \in Surjection(Labels, {Value(m, t) : m \in Labels})
      BY DEF Surjection
    <3> QED BY <2>2, <3>1, FS_Surjection
  <2>5. IsFiniteSet(Got(t))
    BY <2>3, <2>4, FS_Subset
  <2>6. Got(t) \in SUBSET Int
    BY <1>3
  <2> HIDE DEF Got
  <2> QED BY <1>3, <2>5, <2>6, FiniteHasBest
<1> HIDE DEF Got
<1>6. \A x \in MetersAt(scraped, key, t) : x <= Best(Got(t))
  BY <1>3, <1>4, <1>5
<1> QED BY <1>1, <1>3, <1>5, <1>6 DEF Metered

\* The seconds of a grid are those of its window, its step apart.
LEMMA GridIsWithin ==
    ASSUME NEW w, w.start \in Int, w.end \in Int, NEW step \in Int, NEW t \in PowerGrid(w, step)
    PROVE  /\ GridStep(step) \in Nat /\ t \in Int /\ t >= Sec(w.start) /\ t * Second <= w.end
           /\ \E k \in Nat : t - Sec(w.start) = GridStep(step) * k
<1> DEFINE g == GridStep(step)
           a == Sec(w.start)
           b == Sec(w.end)
<1>1. g \in Nat /\ g > 0
  <2>1. (2 * step + Second) \div (2 * Second) \in Int
    BY SecondIs
  <2> QED BY <2>1, BestOf DEF GridStep
<1>2. a \in Int /\ b \in Int /\ b * Second <= w.end
  BY SecBounds
<1>3. PICK k \in 0..((b - a) \div g) : t = a + g * k
  BY DEF PowerGrid, Grid, GridStep
<1> HIDE DEF g, a, b
<1>4. t \in Int /\ t >= a /\ t <= b
  <2>1. (b - a) \div g \in Int /\ g * ((b - a) \div g) <= b - a
    BY <1>1, <1>2
  <2>2. k \in Nat /\ k <= (b - a) \div g
    BY <1>3, <2>1
  <2>3. g * k \in Nat /\ g * k <= g * ((b - a) \div g)
    BY <1>1, <2>1, <2>2
  <2> DEFINE gk == g * k
             q == g * ((b - a) \div g)
  <2>4. t = a + gk /\ gk \in Nat /\ gk <= q /\ q <= b - a /\ q \in Int
    BY <1>1, <1>3, <2>1, <2>3
  <2> HIDE DEF gk, q
  <2> QED BY <1>2, <2>4
<1>5. t * Second <= w.end
  <2>1. t * Second <= b * Second /\ t * Second \in Int /\ b * Second \in Int
    BY <1>2, <1>4, SecondIs
  <2> QED BY <1>2, <2>1
<1>6. k \in Nat /\ t - a = g * k
  <2>1. (b - a) \div g \in Int
    BY <1>1, <1>2
  <2> QED BY <1>1, <1>2, <1>3, <2>1
<1> QED BY <1>1, <1>4, <1>5, <1>6 DEF g, a

\* What the engine answers for a window was metered in it.
LEMMA AnswerIsMetered ==
    ASSUME World, NEW w, w.start \in Int, w.end \in Int, NEW step \in Int, NEW failed
    PROVE  LET answer == PowerAnswer(w, step, failed)
           IN  /\ MeteredSamples(scraped, answer.samples, w, GridStep(step))
               /\ answer = [ok |-> answer.ok, connected |-> answer.connected, samples |-> answer.samples]
               /\ answer.connected \in BOOLEAN /\ answer.ok \in BOOLEAN
<1> DEFINE grid == PowerGrid(w, step)
           maps == [k \in PowerKeys \ failed |-> Watts(SeriesOf(k, grid))]
           made == PowerSamples(maps)
           answer == PowerAnswer(w, step, failed)
<1>1. CASE PowerKeys \ failed = {}
  <2>1. answer = [ok |-> TRUE, connected |-> FALSE, samples |-> NoSamples]
    BY <1>1 DEF PowerAnswer
  <2> QED BY <2>1 DEF NoSamples, MeteredSamples
<1>2. CASE PowerKeys \ failed # {}
  <2>1. /\ answer.samples = [u \in {t * Second : t \in DOMAIN made} |-> made[Sec(u)]]
        /\ answer.connected = TRUE /\ answer.ok = TRUE
        /\ answer = [ok |-> answer.ok, connected |-> answer.connected, samples |-> answer.samples]
    BY <1>2 DEF PowerAnswer
  <2>2. ASSUME NEW t \in DOMAIN made
        PROVE  /\ t \in grid /\ t \in 0..MaxTime /\ t \in DOMAIN scraped
               /\ made[t] = [key \in PowerKeys |-> made[t][key]]
               /\ \A key \in PowerKeys : made[t][key] # None => Metered(scraped, key, t, made[t][key])
    <3>1. \A key \in PowerKeys \ failed : maps[key] = Watts(SeriesOf(key, grid))
      OBVIOUS
    <3>2. \A key \in PowerKeys \ failed : \A x \in DOMAIN maps[key] :
            x \in grid /\ x \in 0..MaxTime /\ Metered(scraped, key, x, maps[key][x])
      BY <3>1, WattsAreMetered
    <3>3. DOMAIN maps = PowerKeys \ failed
      OBVIOUS
    <3> HIDE DEF maps, grid
    <3>4. t \in UNION {DOMAIN maps[k] : k \in DOMAIN maps}
      BY DEF made, PowerSamples, UnionGrid
    <3>5. PICK k \in PowerKeys \ failed : t \in DOMAIN maps[k]
      BY <3>3, <3>4
    <3>6. \A key \in PowerKeys : made[t][key] = IF key \in DOMAIN maps /\ t \in DOMAIN maps[key] THEN maps[key][t] ELSE None
      BY DEF made, PowerSamples
    <3>8. made[t] = [key \in PowerKeys |-> made[t][key]]
      BY DEF made, PowerSamples
    <3> HIDE DEF made
    <3>7. t \in grid /\ t \in 0..MaxTime /\ t \in DOMAIN scraped
      BY <3>2, <3>5 DEF Metered
    <3> QED BY <3>2, <3>3, <3>6, <3>7, <3>8
  <2> HIDE DEF made, answer
  <2>3. ASSUME NEW t \in DOMAIN made
        PROVE  MeteredSample(scraped, t * Second, answer.samples[t * Second], w.start, GridStep(step)) /\ t * Second <= w.end
    <3>1. t \in Int /\ t >= Sec(w.start) /\ t * Second <= w.end /\ \E k \in Nat : t - Sec(w.start) = GridStep(step) * k
      BY <2>2, GridIsWithin
    <3>2. answer.samples[t * Second] = made[t]
      <4>1. Sec(t * Second) = t
        BY <3>1, SecOfMultiple
      <4> QED BY <2>1, <4>1
    <3> HIDE DEF grid
    <3> QED BY <2>2, <3>1, <3>2 DEF MeteredSample
  <2>4. answer.samples = [u \in DOMAIN answer.samples |-> answer.samples[u]]
    BY <2>1
  <2>5. DOMAIN answer.samples = {t * Second : t \in DOMAIN made}
    BY <2>1
  <2> QED BY <2>1, <2>3, <2>4, <2>5 DEF MeteredSamples, answer
<1> QED BY <1>1, <1>2

\* The range is a quick one, or one of the user's own in the past.
RangeOK ==
    \/ \E r \in QuickRanges : range = Quick(r)
    \/ \E a, b \in Nat : range = Custom(a, b) /\ a <= b /\ b <= shown

\* What is on the page, or on its way to it, was metered for the window of now.
FeedOf(found, got, w) == MeteredSamples(found, got, w, GridStep(SampleStep(w)))
FeedRecord == feed = [loading |-> feed.loading, connected |-> feed.connected, url |-> feed.url, samples |-> feed.samples]

FeedOK == FeedRecord /\ FeedOf(scraped, feed.samples, Active) /\ (Answered(feedReq) => FeedOf(scraped, feedReq.samples, Active))

InstantOK ==
    /\ Answered(instantReq) => MeteredSamples(scraped, instantReq.samples, InstantWindow, GridStep(InstantStep))
    /\ instant # None => instant.live = TRUE /\ (instantReq = Idle => instant.t > shown - 3 * InstantStep - Second)

OffPower == tab # "power" =>
    range = Quick(DefaultRange) /\ feed = FirstFeed /\ instant = None /\ feedReq = Idle /\ instantReq = Idle

PowerInv == shown \in 0..now /\ RangeOK /\ FeedOK /\ InstantOK /\ OffPower

\* No sample is wrong where there is none.
LEMMA NothingMetered == ASSUME NEW found, NEW w, NEW step PROVE MeteredSamples(found, NoSamples, w, step)
BY DEF NoSamples, MeteredSamples

\* More scrapes change nothing that was metered.
LEMMA StaysMetered ==
    ASSUME NEW found, NEW more, \A u \in DOMAIN found : u \in DOMAIN more /\ more[u] = found[u],
           NEW got, NEW w, NEW step, MeteredSamples(found, got, w, step)
    PROVE  MeteredSamples(more, got, w, step)
<1>1. \A key, t, v : Metered(found, key, t, v) => Metered(more, key, t, v)
  BY DEF Metered, MetersAt
<1>2. \A u, x : MeteredSample(found, u, x, w.start, step) => MeteredSample(more, u, x, w.start, step)
  BY <1>1 DEF MeteredSample
<1> QED BY <1>2 DEF MeteredSamples

\* Both ladders have rungs, of whole seconds.
Rungs == {s \in Nat \ {0} : s % Second = 0}

LEMMA LaddersOK ==
    /\ SampleSteps \in Seq(Rungs) /\ SampleSteps # <<>>
    /\ SampleSteps \o WideSteps \in Seq(Rungs) /\ SampleSteps \o WideSteps # <<>>
<1>1. SampleSteps \in Seq(Rungs) /\ WideSteps \in Seq(Rungs) /\ SampleSteps # <<>>
  BY PowerAssumption DEF Rungs
<1> HIDE DEF Rungs
<1>2. SampleSteps \o WideSteps \in Seq(Rungs)
  BY <1>1
<1>3. Len(SampleSteps) > 0 /\ Len(SampleSteps \o WideSteps) = Len(SampleSteps) + Len(WideSteps) /\ Len(WideSteps) \in Nat
  BY <1>1
<1>4. SampleSteps \o WideSteps # <<>>
  BY <1>3
<1> QED BY <1>1, <1>2, <1>4

\* What is picked is a rung.
LEMMA PickedIsRung ==
    ASSUME NEW ladder \in Seq(Rungs), ladder # <<>>, NEW least, NEW parts
    PROVE  PickStep(ladder, least, parts) \in Rungs
<1> DEFINE enough == {i \in DOMAIN ladder : ladder[i] >= least /\ ladder[i] * parts[2] >= parts[1]}
<1>1. DOMAIN ladder = 1..Len(ladder) /\ Len(ladder) \in Nat /\ Len(ladder) > 0 /\ \A i \in DOMAIN ladder : ladder[i] \in Rungs
  OBVIOUS
<1>2. CASE enough = {}
  <2>1. PickStep(ladder, least, parts) = Last(ladder)
    BY <1>2 DEF PickStep
  <2> QED BY <1>1, <2>1 DEF Last
<1>3. CASE enough # {}
  <2>1. PickStep(ladder, least, parts) = ladder[CHOOSE i \in enough : \A j \in enough : i <= j]
    BY <1>3 DEF PickStep
  <2>2. enough \in SUBSET Nat /\ enough \subseteq DOMAIN ladder
    BY <1>1
  <2> HIDE DEF enough
  <2>3. \E i \in enough : \A j \in enough : i <= j
    BY <1>3, <2>2, LeastExists
  <2>4. (CHOOSE i \in enough : \A j \in enough : i <= j) \in enough
    BY <2>3
  <2> QED BY <1>1, <2>1, <2>2, <2>4
<1> QED BY <1>2, <1>3

\* Steps and columns are whole seconds, and there is at least one.
LEMMA StepsAreWhole ==
    ASSUME NEW w
    PROVE  /\ SampleStep(w) \in Nat /\ SampleStep(w) > 0 /\ SampleStep(w) % Second = 0
           /\ BucketWidth(w) \in Nat /\ BucketWidth(w) > 0 /\ BucketWidth(w) % Second = 0
<1>1. SampleStep(w) \in Rungs
  BY LaddersOK, PickedIsRung DEF SampleStep
<1>2. BucketWidth(w) \in Rungs
  BY LaddersOK, PickedIsRung DEF BucketWidth
<1> QED BY <1>1, <1>2 DEF Rungs

\* The grid of a feed has the step of its samples.
LEMMA GridStepIs ==
    ASSUME NEW step \in Nat, step > 0, step % Second = 0
    PROVE  GridStep(step) \in Nat /\ GridStep(step) > 0 /\ GridStep(step) * Second = step
<1> DEFINE n == step \div Second
<1>1. n \in Nat /\ step = n * Second
  BY SecondIs
<1>2. n > 0
  BY <1>1, SecondIs
<1> HIDE DEF n
<1>3. (2 * step + Second) \div (2 * Second) = n
  <2>1. 2 * step + Second = n * (2 * Second) + Second /\ 2 * Second \in Nat /\ 2 * Second > Second
    BY <1>1, SecondIs
  <2> DEFINE d == 2 * Second
             x == 2 * step + Second
  <2>2. x = n * d + Second /\ d \in Nat /\ Second < d /\ x \in Int
    BY <2>1, SecondIs
  <2> HIDE DEF d, x
  <2>3. x \div d = n
    <3> DEFINE q == x \div d
    <3>1. q \in Int /\ q * d <= x /\ x < q * d + d
      BY <2>2, SecondIs
    <3> HIDE DEF q
    <3>2. ~(q > n)
      <4> SUFFICES ASSUME q > n PROVE FALSE
        OBVIOUS
      <4>1. q * d >= (n + 1) * d
        BY <1>1, <2>2, <3>1
      <4>2. (n + 1) * d = n * d + d
        BY <1>1, <2>2
      <4> DEFINE nd == n * d
                 qd == q * d
      <4>3. nd \in Int /\ qd \in Int /\ qd >= nd + d /\ x = nd + Second /\ qd <= x
        BY <1>1, <2>2, <3>1, <4>1, <4>2
      <4> HIDE DEF nd, qd
      <4> QED BY <2>2, <4>3, SecondIs
    <3>3. ~(q < n)
      <4> SUFFICES ASSUME q < n PROVE FALSE
        OBVIOUS
      <4>1. (q + 1) * d <= n * d
        BY <1>1, <2>2, <3>1
      <4>2. (q + 1) * d = q * d + d
        BY <2>2, <3>1
      <4> DEFINE nd == n * d
                 qd == q * d
      <4>3. nd \in Int /\ qd \in Int /\ qd + d <= nd /\ x = nd + Second /\ x < qd + d
        BY <1>1, <2>2, <3>1, <4>1, <4>2
      <4> HIDE DEF nd, qd
      <4> QED BY <2>2, <4>3, SecondIs
    <3> QED BY <1>1, <3>1, <3>2, <3>3 DEF q
  <2> QED BY <2>3 DEF d, x
<1>4. GridStep(step) = n
  BY <1>1, <1>2, <1>3, BestOf DEF GridStep
<1> QED BY <1>1, <1>2, <1>4

\* The window of now is one of whole times, and does not end before it starts.
LEMMA ActiveOK ==
    ASSUME shown \in Nat, RangeOK
    PROVE  /\ Active = [start |-> Active.start, end |-> Active.end]
           /\ Active.start \in Int /\ Active.end \in Nat /\ Active.start <= Active.end /\ Active.end <= shown
<1>1. CASE \E r \in QuickRanges : range = Quick(r)
  <2>1. PICK r \in QuickRanges : range = Quick(r)
    BY <1>1
  <2>2. r \in Nat /\ r # None
    BY PowerAssumption, NoneAssumption
  <2>3. range.span = r
    BY <2>1 DEF Quick
  <2>4. Active = [start |-> shown - r, end |-> shown]
    BY <2>2, <2>3 DEF Active, WindowOf
  <2> QED BY <2>2, <2>4
<1>2. CASE \E a, b \in Nat : range = Custom(a, b) /\ a <= b /\ b <= shown
  <2>1. PICK a, b \in Nat : range = Custom(a, b) /\ a <= b /\ b <= shown
    BY <1>2
  <2>2. Active = [start |-> a, end |-> b]
    BY <2>1 DEF Active, WindowOf, Custom
  <2> QED BY <2>1, <2>2
<1> QED BY <1>1, <1>2 DEF RangeOK

\* The page opens with nothing on it.
LEMMA InitPower == Init => PowerInv
<1> SUFFICES ASSUME Init PROVE PowerInv
  OBVIOUS
<1>1. /\ range = Quick(DefaultRange) /\ feed = FirstFeed /\ instant = None
      /\ feedReq = Idle /\ instantReq = Idle /\ shown = 0 /\ now = 0
  BY DEF Init, PowerUnmounted, WorldInit
<1>2. RangeOK
  BY <1>1, PowerAssumption DEF RangeOK
<1>3. FeedOK
  BY <1>1, NothingMetered DEF FeedOK, FeedRecord, FeedOf, FirstFeed, Answered
<1>4. InstantOK
  BY <1>1 DEF InstantOK, Answered
<1> QED BY <1>1, <1>2, <1>3, <1>4 DEF PowerInv, OffPower

\* Time passes while the page keeps its own; off the page there is nothing to keep.
LEMMA PassesKeepsPower ==
    ASSUME SamplesInv, PowerInv, Passes
    PROVE  PowerInv'
<1>1. now \in Nat /\ now' = now + 1 /\ UNCHANGED <<range, feed, instant, feedReq, instantReq, tab>>
  BY DEF Passes, Tick, power, SamplesInv, World
<1>2. \A u \in DOMAIN scraped : u \in DOMAIN scraped' /\ scraped'[u] = scraped[u]
  BY DEF Passes, Tick
<1>3. CASE tab = "power"
  <2>1. shown' = shown
    BY <1>3 DEF Passes
  <2>2. Active' = Active /\ InstantWindow' = InstantWindow
    BY <1>1, <2>1 DEF Active, InstantWindow
  <2>3. \A got, w, step : MeteredSamples(scraped, got, w, step) => MeteredSamples(scraped', got, w, step)
    BY <1>2, StaysMetered
  <2>4. FeedOK'
    BY <1>1, <2>2, <2>3 DEF PowerInv, FeedOK, FeedRecord, FeedOf, Answered
  <2>5. InstantOK'
    BY <1>1, <2>1, <2>2, <2>3 DEF PowerInv, InstantOK, Answered
  <2>6. shown' \in 0..now'
    BY <1>1, <2>1 DEF PowerInv
  <2> QED BY <1>1, <1>3, <2>1, <2>4, <2>5, <2>6 DEF PowerInv, RangeOK, OffPower
<1>4. CASE tab # "power"
  <2>1. shown' \in 0..now'
    BY <1>1, <1>4 DEF Passes
  <2>2. range = Quick(DefaultRange) /\ feed = FirstFeed /\ instant = None /\ feedReq = Idle /\ instantReq = Idle
    BY <1>4 DEF PowerInv, OffPower
  <2>3. RangeOK'
    BY <1>1, <2>2, PowerAssumption DEF RangeOK
  <2>4. FeedOK'
    BY <1>1, <2>2, NothingMetered DEF FeedOK, FeedRecord, FeedOf, FirstFeed, Answered
  <2>5. InstantOK'
    BY <1>1, <2>2 DEF InstantOK, Answered
  <2> QED BY <1>1, <2>1, <2>2, <2>3, <2>4, <2>5 DEF PowerInv, OffPower
<1> QED BY <1>3, <1>4

\* Opening the page starts from nothing, and leaving it forgets all.
LEMMA OpenKeepsPower ==
    ASSUME PowerInv, NEW to, Open(to)
    PROVE  PowerInv'
<1>1. UNCHANGED <<scraped, shown, now>> /\ tab # to /\ tab' = to
  BY DEF Open, world
<1>2. CASE to = "power"
  <2>1. feedReq' = Asked /\ instantReq' = Asked /\ UNCHANGED <<range, feed, instant>>
    BY <1>2 DEF Open, PowerMount
  <2>2. range = Quick(DefaultRange) /\ feed = FirstFeed /\ instant = None
    BY <1>1, <1>2 DEF PowerInv, OffPower
  <2>3. FeedOK'
    BY <1>1, <2>1, <2>2, NothingMetered DEF FeedOK, FeedRecord, FeedOf, FirstFeed, Answered
  <2>4. InstantOK'
    BY <2>1, <2>2 DEF InstantOK, Answered
  <2> QED BY <1>1, <1>2, <2>1, <2>3, <2>4 DEF PowerInv, RangeOK, OffPower
<1>3. CASE to # "power"
  <2>1. /\ range' = Quick(DefaultRange) /\ feed' = FirstFeed /\ instant' = None
        /\ feedReq' = Idle /\ instantReq' = Idle
    BY <1>3 DEF Open, PowerUnmount
  <2>2. RangeOK'
    BY <2>1, PowerAssumption DEF RangeOK
  <2>3. FeedOK'
    BY <2>1, NothingMetered DEF FeedOK, FeedRecord, FeedOf, FirstFeed, Answered
  <2>4. InstantOK'
    BY <2>1 DEF InstantOK, Answered
  <2> QED BY <1>1, <2>1, <2>2, <2>3, <2>4 DEF PowerInv, OffPower
<1> QED BY <1>2, <1>3

\* A window that changes takes its samples and its request with it.
LEMMA WindowKeepsFeed ==
    ASSUME PowerInv, WindowEffect, UNCHANGED scraped
    PROVE  FeedOK'
<1>1. CASE Active' = Active
  BY <1>1 DEF WindowEffect, PowerInv, FeedOK, FeedRecord, FeedOf, Answered
<1>2. CASE Active' # Active
  <2>1. /\ feed' = [feed EXCEPT !.loading = TRUE, !.connected = FALSE, !.samples = NoSamples]
        /\ feedReq' = Asked
    BY <1>2 DEF WindowEffect, Reset
  <2>2. feed' = [loading |-> TRUE, connected |-> FALSE, url |-> feed.url, samples |-> NoSamples]
    <3>1. feed = [loading |-> feed.loading, connected |-> feed.connected, url |-> feed.url, samples |-> feed.samples]
      BY DEF PowerInv, FeedOK, FeedRecord
    <3>2. DOMAIN feed = {"loading", "connected", "url", "samples"}
      BY <3>1
    <3>3. /\ feed' = [f \in DOMAIN feed |-> feed'[f]]
          /\ DOMAIN feed' = DOMAIN feed
          /\ feed'["loading"] = TRUE /\ feed'["connected"] = FALSE
          /\ feed'["url"] = feed["url"] /\ feed'["samples"] = NoSamples
      BY <2>1, <3>1, <3>2
    <3> QED BY <3>2, <3>3
  <2> QED BY <2>1, <2>2, NothingMetered DEF FeedOK, FeedRecord, FeedOf, Answered
<1> QED BY <1>1, <1>2

\* No answer is taken for a request that is idle.
LEMMA AnswerIsNotIdle ==
    ASSUME World, NEW r, r = [ok |-> r.ok, connected |-> r.connected, samples |-> r.samples],
           r.ok \in BOOLEAN, r.connected \in BOOLEAN, NEW w, NEW step, MeteredSamples(scraped, r.samples, w, step)
    PROVE  r # Idle
<1> DEFINE got == r.samples
           Times == {t * Second : t \in 0..MaxTime}
<1>1. DOMAIN got \in SUBSET Times
  BY DEF MeteredSamples, MeteredSample
<1>2. ASSUME NEW u \in DOMAIN got PROVE got[u] \in [PowerKeys -> Int \cup {None}]
  <2>1. PICK t \in 0..MaxTime :
            /\ t \in DOMAIN scraped /\ got[u] = [key \in PowerKeys |-> got[u][key]]
            /\ \A key \in PowerKeys : got[u][key] # None => Metered(scraped, key, t, got[u][key])
    BY DEF MeteredSamples, MeteredSample
  <2>2. \A key \in PowerKeys : got[u][key] # None => got[u][key] \in Int
    BY <2>1, PrometheusAssumption DEF Metered, MetersAt, World
  <2> HIDE DEF got
  <2> QED BY <2>1, <2>2
<1>3. got = [u \in DOMAIN got |-> got[u]]
  BY DEF MeteredSamples
<1>4. got \in Meterings
  <2> HIDE DEF got
  <2>1. got \in [DOMAIN got -> [PowerKeys -> Int \cup {None}]]
    BY <1>2, <1>3
  <2> QED BY <1>1, <2>1 DEF Meterings
<1>5. r \in PowerAnswers
  BY <1>4 DEF PowerAnswers
<1> QED BY <1>5, RequestAssumption

\* A request that is idle or under way has no answer.
LEMMA AskedIsNoAnswer == ~Answered(Asked) /\ ~Answered(Idle) /\ Asked # Idle
BY PrometheusAssumption DEF Answered

\* The user changes the window, or the app's clock does.
LEMMA PicksKeepsPower ==
    ASSUME SamplesInv, PowerInv, Picks \/ Clock
    PROVE  PowerInv'
<1>1. tab = "power" /\ tab' = tab /\ UNCHANGED <<scraped, now>>
  BY DEF Picks, Clock, world
<1>2. CASE Clock
  <2>1. shown' = now /\ instantReq' = Asked /\ UNCHANGED <<range, instant>> /\ WindowEffect
    BY <1>2 DEF Clock, Render
  <2>2. now \in Nat /\ shown \in 0..now /\ shown' \in 0..now' /\ shown <= shown'
    BY <1>1, <2>1 DEF PowerInv, SamplesInv, World
  <2>3. FeedOK'
    BY <1>1, <2>1, WindowKeepsFeed
  <2>4. InstantOK'
    BY <2>1, AskedIsNoAnswer DEF PowerInv, InstantOK
  <2>5. RangeOK'
    BY <2>1, <2>2 DEF PowerInv, RangeOK
  <2> QED BY <1>1, <2>2, <2>3, <2>4, <2>5 DEF PowerInv, OffPower
<1>3. CASE Picks
  <2>1. UNCHANGED <<shown, instant, instantReq>> /\ WindowEffect
    BY <1>3 DEF Picks, Choose, ChooseCustom, Apply
  <2>2. FeedOK'
    BY <1>1, <2>1, WindowKeepsFeed
  <2>3. InstantOK'
    BY <1>1, <2>1 DEF PowerInv, InstantOK, Answered, InstantWindow
  <2>4. RangeOK'
    <3>1. CASE \E r \in QuickRanges : Choose(r)
      BY <3>1 DEF Choose, RangeOK
    <3>2. CASE ChooseCustom
      <4>1. /\ Active.start \in Int /\ Active.end \in Nat /\ Active.start <= Active.end /\ Active.end <= shown
            /\ shown \in Nat
        BY ActiveOK DEF PowerInv, SamplesInv, World
      <4> DEFINE a == Active.start
                 b == Active.end
                 left == IF 0 <= a THEN a ELSE 0
      <4>2. Best({0, a}) = left
        BY <4>1, BestOf
      <4>3. Best({-b, -shown}) = IF -b <= -shown THEN -shown ELSE -b
        <5>1. -b \in Int /\ -shown \in Int
          BY <4>1
        <5> QED BY <5>1, BestOf
      <4>4. -Best({-b, -shown}) = b
        BY <4>1, <4>3
      <4>5. range' = Custom(left, b)
        BY <3>2, <4>2, <4>4 DEF ChooseCustom
      <4>6. left \in Nat /\ b \in Nat /\ left <= b /\ b <= shown'
        BY <2>1, <4>1
      <4> HIDE DEF left, b
      <4> QED BY <4>5, <4>6 DEF RangeOK
    <3>3. CASE \E w \in Windows : Apply(w)
      <4>1. PICK w \in Windows : range' = Custom(w.start, w.end) /\ w.start < w.end /\ w.end <= shown
        BY <3>3 DEF Apply
      <4>2. w.start \in Nat /\ w.end \in Nat
        BY WindowsAssumption
      <4> QED BY <2>1, <4>1, <4>2 DEF RangeOK
    <3> QED BY <1>3, <3>1, <3>2, <3>3 DEF Picks
  <2> QED BY <1>1, <2>1, <2>2, <2>3, <2>4 DEF PowerInv, OffPower
<1> QED BY <1>2, <1>3

\* An answer is of the window asked for, which is still that of now: a change would have aborted it.
LEMMA EngineKeepsPower ==
    ASSUME SamplesInv, PowerInv, AnswersPower
    PROVE  PowerInv'
<1>1. UNCHANGED <<scraped, now, tab, shown, range, feed, instant>>
  BY DEF AnswersPower, PowerEngine
<1>2. World /\ shown \in Nat /\ Active.start \in Int /\ Active.end \in Int
  BY ActiveOK DEF SamplesInv, World, PowerInv
<1>3. Active' = Active /\ InstantWindow' = InstantWindow
  BY <1>1 DEF Active, InstantWindow
<1>4. FeedOf(scraped, Lost.samples, Active) /\ MeteredSamples(scraped, Lost.samples, InstantWindow, GridStep(InstantStep))
  BY NothingMetered DEF Lost, FeedOf
<1>5. CASE /\ feedReq = Asked /\ instantReq' = instantReq
           /\ \/ feedReq' = Lost
              \/ \E failed : feedReq' = PowerAnswer(Active, SampleStep(Active), failed)
  <2>1. FeedOf(scraped, feedReq'.samples, Active)
    <3>1. SampleStep(Active) \in Int
      BY StepsAreWhole
    <3> QED BY <1>2, <1>4, <1>5, <3>1, AnswerIsMetered DEF FeedOf
  <2>2. FeedOK'
    BY <1>1, <1>3, <2>1 DEF PowerInv, FeedOK, FeedRecord, FeedOf
  <2>3. InstantOK'
    BY <1>1, <1>3, <1>5 DEF PowerInv, InstantOK, Answered
  <2>4. tab = "power"
    BY <1>5, AskedIsNoAnswer DEF PowerInv, OffPower
  <2> QED BY <1>1, <2>2, <2>3, <2>4 DEF PowerInv, RangeOK, OffPower
<1>6. CASE /\ instantReq = Asked /\ feedReq' = feedReq
           /\ \/ instantReq' = Lost
              \/ \E failed : instantReq' = PowerAnswer(InstantWindow, InstantStep, failed)
  <2>1. /\ MeteredSamples(scraped, instantReq'.samples, InstantWindow, GridStep(InstantStep))
        /\ instantReq' # Idle
    <3>1. InstantStep \in Int /\ InstantWindow.start \in Int /\ InstantWindow.end \in Int
      BY <1>2, PowerAssumption DEF InstantWindow
    <3>2. MeteredSamples(scraped, instantReq'.samples, InstantWindow, GridStep(InstantStep))
      BY <1>2, <1>4, <1>6, <3>1, AnswerIsMetered
    <3>3. /\ instantReq' = [ok |-> instantReq'.ok, connected |-> instantReq'.connected, samples |-> instantReq'.samples]
          /\ instantReq'.ok \in BOOLEAN /\ instantReq'.connected \in BOOLEAN
      <4>1. CASE instantReq' = Lost
        BY <4>1 DEF Lost
      <4>2. CASE \E failed : instantReq' = PowerAnswer(InstantWindow, InstantStep, failed)
        BY <1>2, <3>1, <4>2, AnswerIsMetered
      <4> QED BY <1>6, <4>1, <4>2
    <3>4. instantReq' # Idle
      BY <1>2, <3>2, <3>3, AnswerIsNotIdle
    <3> QED BY <3>2, <3>4
  <2>2. FeedOK'
    BY <1>1, <1>3, <1>6 DEF PowerInv, FeedOK, FeedRecord, FeedOf, Answered
  <2>3. InstantOK'
    BY <1>1, <1>3, <2>1 DEF PowerInv, InstantOK
  <2>4. tab = "power"
    BY <1>6, AskedIsNoAnswer DEF PowerInv, OffPower
  <2> QED BY <1>1, <2>2, <2>3, <2>4 DEF PowerInv, RangeOK, OffPower
<1> QED BY <1>5, <1>6 DEF AnswersPower, PowerEngine

\* The last sample of an answer is no older than the first second of its window.
LEMMA LastIsRecent ==
    ASSUME NEW found, NEW got, got # NoSamples, NEW w, w.start \in Int, NEW step, MeteredSamples(found, got, w, step)
    PROVE  Best(DOMAIN got) \in DOMAIN got /\ LastSample(got).t \in Int /\ LastSample(got).t > w.start - Second
<1> DEFINE D == DOMAIN got
<1>1. \A u \in D : \E t \in 0..MaxTime : u = t * Second /\ t >= Sec(w.start)
  BY DEF MeteredSamples, MeteredSample
<1>2. D # {}
  BY DEF MeteredSamples, NoSamples
<1>3. MaxTime * Second \in Int /\ \A u \in D : u \in Int /\ u <= MaxTime * Second
  <2> SUFFICES ASSUME NEW t \in 0..MaxTime PROVE t * Second \in Int /\ t * Second <= MaxTime * Second
    BY <1>1, SecondIs
  <2> QED BY SecondIs
<1> HIDE DEF D
<1>4. Best(D) \in D
  BY <1>2, <1>3, BestIsGreatest
<1>5. \A u \in D : u > w.start - Second
  <2> SUFFICES ASSUME NEW t \in 0..MaxTime, t >= Sec(w.start) PROVE t * Second > w.start - Second
    BY <1>1
  <2>1. Sec(w.start) \in Int /\ w.start < Sec(w.start) * Second + Second
    BY SecBounds
  <2>2. t * Second >= Sec(w.start) * Second /\ t * Second \in Int /\ Sec(w.start) * Second \in Int
    BY <2>1, SecondIs
  <2> QED BY <2>1, <2>2, SecondIs
<1>6. LastSample(got).t = Best(D)
  BY DEF LastSample, D
<1> QED BY <1>3, <1>4, <1>5, <1>6 DEF D

\* What arrives is what was metered for the window of now.
LEMMA ArrivalKeepsPower ==
    ASSUME SamplesInv, PowerInv, PowerArrives
    PROVE  PowerInv'
<1>1. UNCHANGED <<scraped, now, tab, shown, range>>
  BY DEF PowerArrives, FeedArrives, InstantArrives, world
<1>2. shown \in Nat
  BY DEF SamplesInv, World, PowerInv
<1>3. Active' = Active /\ InstantWindow' = InstantWindow
  BY <1>1 DEF Active, InstantWindow
<1>4. CASE FeedArrives
  <2>1. /\ Answered(feedReq) /\ feedReq' = Idle /\ UNCHANGED <<instant, instantReq>>
        /\ feed' = [loading |-> FALSE, url |-> feedReq.ok, samples |-> feedReq.samples,
                    connected |-> feedReq.connected /\ Cardinality(DOMAIN feedReq.samples) >= 2]
    BY <1>4 DEF FeedArrives
  <2>2. FeedRecord' /\ feed'.samples = feedReq.samples
    BY <2>1 DEF FeedRecord
  <2>3. FeedOK'
    BY <1>1, <1>3, <2>1, <2>2, AskedIsNoAnswer DEF PowerInv, FeedOK, FeedOf
  <2>4. InstantOK'
    BY <1>1, <1>3, <2>1 DEF PowerInv, InstantOK, Answered
  <2>5. tab = "power"
    BY <2>1, AskedIsNoAnswer DEF PowerInv, OffPower
  <2> QED BY <1>1, <2>3, <2>4, <2>5 DEF PowerInv, RangeOK, OffPower
<1>5. CASE InstantArrives
  <2>1. /\ Answered(instantReq) /\ instantReq' = Idle /\ UNCHANGED <<feed, feedReq>>
        /\ instant' = IF instantReq.connected /\ instantReq.samples # NoSamples
                      THEN LastSample(instantReq.samples) ELSE None
    BY <1>5 DEF InstantArrives
  <2>2. FeedOK'
    BY <1>1, <1>3, <2>1 DEF PowerInv, FeedOK, FeedRecord, FeedOf, Answered
  <2>3. ASSUME instant' # None PROVE instant'.live = TRUE /\ instant'.t > shown' - 3 * InstantStep - Second
    <3>1. instant' = LastSample(instantReq.samples) /\ instantReq.samples # NoSamples
      BY <2>1, <2>3
    <3>2. MeteredSamples(scraped, instantReq.samples, InstantWindow, GridStep(InstantStep))
      BY <2>1 DEF PowerInv, InstantOK
    <3>3. InstantWindow.start = shown - 3 * InstantStep /\ InstantStep \in Nat
      BY PowerAssumption DEF InstantWindow
    <3>4. InstantWindow.start \in Int
      BY <1>2, <3>3
    <3>5. LastSample(instantReq.samples).t > InstantWindow.start - Second
      BY <3>1, <3>2, <3>4, LastIsRecent
    <3>6. LastSample(instantReq.samples).live = TRUE
      BY DEF LastSample
    <3> QED BY <1>1, <3>1, <3>3, <3>5, <3>6
  <2>4. InstantOK'
    BY <2>1, <2>3, AskedIsNoAnswer DEF InstantOK
  <2>5. tab = "power"
    BY <2>1, AskedIsNoAnswer DEF PowerInv, OffPower
  <2> QED BY <1>1, <2>2, <2>4, <2>5 DEF PowerInv, RangeOK, OffPower
<1> QED BY <1>4, <1>5 DEF PowerArrives

\* No step puts on the page what was not metered for the window of now.
LEMMA StepKeepsPower == SamplesInv /\ PowerInv /\ [Next]_vars => PowerInv'
<1> SUFFICES ASSUME SamplesInv, PowerInv, [Next]_vars PROVE PowerInv'
  OBVIOUS
<1>1. CASE \E to \in {"temps", "power", "away"} : Open(to)
  BY <1>1, OpenKeepsPower
<1>2. CASE Passes
  BY <1>2, PassesKeepsPower
<1>3. CASE (tab = "temps" /\ Timer) \/ TempsEngine \/ TempsArrives \/ Shows \/ UNCHANGED vars
  <2>1. UNCHANGED <<now, scraped, shown, range, feed, instant, feedReq, instantReq, tab>>
    BY <1>3 DEF Timer, TempsEngine, TempsArrives, Shows, vars, power, world
  <2> QED BY <2>1 DEF PowerInv, RangeOK, FeedOK, FeedRecord, FeedOf, InstantOK, OffPower, Answered, Active, InstantWindow
<1>4. CASE Picks \/ Clock
  BY <1>4, PicksKeepsPower
<1>5. CASE AnswersPower
  BY <1>5, EngineKeepsPower
<1>6. CASE PowerArrives
  BY <1>6, ArrivalKeepsPower
<1> QED BY <1>1, <1>2, <1>3, <1>4, <1>5, <1>6 DEF Next

\* What the electricity page shows, or what is on its way to it, was metered for the
\* window of now: a change of range, of window or of clock takes the samples and the
\* request with it (HardwarePowerPage.tsx:127-170); and the reading apart from the range
\* is of the last seconds before now (HardwarePowerPage.tsx:175-200).
THEOREM PowerInvAlways == Spec => [](SamplesInv /\ PowerInv)
BY InitSamples, InitPower, StepKeepsSamples, StepKeepsPower, PTL DEF Spec

\* What the invariant says of the feed.
LEMMA FeedIsAsMetered ==
    ASSUME SamplesInv, PowerInv
    PROVE  FeedIsMeasured
<1>1. shown \in Nat /\ Active.start \in Int /\ Active.end \in Nat
  BY ActiveOK DEF SamplesInv, World, PowerInv
<1> DEFINE a == Active.start
           step == SampleStep(Active)
           g == GridStep(step)
<1>2. step \in Nat /\ step > 0 /\ g \in Nat /\ g * Second = step
  BY StepsAreWhole, GridStepIs
<1>3. ASSUME NEW u \in DOMAIN feed.samples
      PROVE  /\ u \in (a - Second + 1)..Active.end
             /\ (u - Sec(a) * Second) % step = 0
             /\ \A k \in PowerKeys : feed.samples[u][k] # None => Metered(scraped, k, Sec(u), feed.samples[u][k])
  <2>1. MeteredSample(scraped, u, feed.samples[u], a, g) /\ u <= Active.end
    BY DEF PowerInv, FeedOK, FeedOf, MeteredSamples
  <2>2. PICK t \in 0..MaxTime :
            /\ u = t * Second /\ t >= Sec(a)
            /\ \E k \in Nat : t - Sec(a) = g * k
            /\ \A key \in PowerKeys : feed.samples[u][key] # None => Metered(scraped, key, t, feed.samples[u][key])
    BY <2>1 DEF MeteredSample
  <2>3. PICK k \in Nat : t - Sec(a) = g * k
    BY <2>2
  <2>4. Sec(a) \in Int /\ a < Sec(a) * Second + Second
    BY <1>1, SecBounds
  <2> HIDE DEF a, step, g
  <2>5. u \in Int /\ u > a - Second
    <3>1. t * Second >= Sec(a) * Second /\ t * Second \in Int /\ Sec(a) * Second \in Int
      BY <2>2, <2>4, SecondIs
    <3> QED BY <1>1, <2>2, <2>4, <3>1, SecondIs DEF a
  <2>6. (u - Sec(a) * Second) % step = 0
    <3>1. u - Sec(a) * Second = (t - Sec(a)) * Second
      BY <2>2, <2>4, SecondIs
    <3>2. (t - Sec(a)) * Second = step * k
      BY <1>2, <2>3, <2>4, SecondIs
    <3>3. (step * k) % step = 0
      BY <1>2
    <3> QED BY <3>1, <3>2, <3>3
  <2>7. Sec(u) = t
    BY <2>2, SecOfMultiple
  <2> QED BY <1>1, <2>1, <2>2, <2>5, <2>6, <2>7, SecondIs DEF a
<1>4. instantReq = Idle /\ instant # None => instant.t > shown - 3 * InstantStep - Second
  BY DEF PowerInv, InstantOK
<1>5. PowerLive => CurrentPower.live
  BY DEF PowerInv, InstantOK, CurrentPower, LastSample
<1>6. PowerLive /\ instant = None /\ Active.end + step < shown => \A k \in PowerKeys : CurrentPower.at[k] = None
  <2>1. Active.end + step < shown => ~Borrows
    BY <1>1, <1>2 DEF Borrows
  <2> QED BY <2>1 DEF CurrentPower
<1> QED BY <1>3, <1>4, <1>5, <1>6 DEF FeedIsMeasured, Metered, MetersAt


---------------------------------------------------------------------------
\* Sums over the units of a window.

\* A set that has 0 and, up to n, the successor of each of its elements.
LEMMA ReachesAll == ASSUME NEW n \in Nat, NEW S, 0 \in S, \A k \in 0..(n - 1) : k \in S => k + 1 \in S
                    PROVE  0..n \subseteq S
<1> DEFINE Missing == {k \in 0..n : k \notin S}
<1> SUFFICES ASSUME Missing # {} PROVE FALSE
  OBVIOUS
<1>1. PICK m \in Missing : \A k \in Missing : m <= k
  <2>1. Missing \in SUBSET Nat
    OBVIOUS
  <2> HIDE DEF Missing
  <2> QED BY <2>1, LeastExists
<1>2. m # 0 /\ m - 1 \in 0..(n - 1) /\ m - 1 \notin Missing
  BY <1>1
<1>3. (m - 1) + 1 \in S
  BY <1>2
<1>4. (m - 1) + 1 = m
  BY <1>1
<1> QED BY <1>1, <1>3, <1>4

\* The sums of the first elements of a list of numbers.
Sums(f, n, d) == f = [i \in 0..n |-> IF i = 0 THEN 0 ELSE f[i - 1] + d[i]]

\* There are such sums, of any list.
LEMMA SumsExist == ASSUME NEW n \in Nat, NEW d PROVE \E f : Sums(f, n, d)
<1> DEFINE S == {m \in 0..n : \E f : Sums(f, m, d)}
<1>1. 0 \in S
  <2> DEFINE f == [i \in 0..0 |-> 0]
  <2>1. f = [i \in 0..0 |-> IF i = 0 THEN 0 ELSE f[i - 1] + d[i]]
    OBVIOUS
  <2> HIDE DEF f
  <2>2. Sums(f, 0, d)
    BY <2>1 DEF Sums
  <2> QED BY <2>2
<1>2. \A m \in 0..(n - 1) : m \in S => m + 1 \in S
  <2> SUFFICES ASSUME NEW m \in 0..(n - 1), NEW f, Sums(f, m, d) PROVE \E g : Sums(g, m + 1, d)
    OBVIOUS
  <2> DEFINE last == f[m] + d[m + 1]
             g == [i \in 0..(m + 1) |-> IF i = m + 1 THEN last ELSE f[i]]
             h == [i \in 0..(m + 1) |-> IF i = 0 THEN 0 ELSE g[i - 1] + d[i]]
  <2>1. f = [i \in 0..m |-> IF i = 0 THEN 0 ELSE f[i - 1] + d[i]]
    BY DEF Sums
  <2> HIDE DEF last
  <2>2. g[m + 1] = last /\ \A i \in 0..m : g[i] = f[i]
    OBVIOUS
  <2>3. g = [i \in 0..(m + 1) |-> g[i]]
    OBVIOUS
  <2> HIDE DEF g
  <2>4. ASSUME NEW i \in 0..(m + 1) PROVE g[i] = h[i]
    <3>1. CASE i = 0
      BY <2>1, <2>2, <3>1
    <3>2. CASE i = m + 1
      <4>1. h[i] = g[m] + d[m + 1]
        BY <3>2
      <4>2. g[m] = f[m]
        BY <2>2
      <4> QED BY <2>2, <3>2, <4>1, <4>2 DEF last
    <3>3. CASE i # 0 /\ i # m + 1
      <4>1. i - 1 \in 0..m /\ i \in 0..m
        BY <3>3
      <4>2. g[i - 1] = f[i - 1] /\ g[i] = f[i]
        BY <2>2, <4>1
      <4>3. f[i] = f[i - 1] + d[i]
        BY <2>1, <3>3, <4>1
      <4>4. h[i] = g[i - 1] + d[i]
        BY <3>3
      <4> QED BY <4>2, <4>3, <4>4
    <3> QED BY <3>1, <3>2, <3>3
  <2>5. g = h
    BY <2>3, <2>4
  <2>6. Sums(g, m + 1, d)
    BY <2>5 DEF Sums
  <2> QED BY <2>6
<1>3. 0..n \subseteq S
  <2> HIDE DEF S
  <2> QED BY <1>1, <1>2, ReachesAll
<1> QED BY <1>3

\* They start at nothing, go on by one element each, and are whole if the elements are.
LEMMA SumsSteps ==
    ASSUME NEW n \in Nat, NEW d, NEW f, Sums(f, n, d), \A i \in 1..n : d[i] \in Int
    PROVE  f[0] = 0 /\ (\A i \in 1..n : f[i] = f[i - 1] + d[i]) /\ \A i \in 0..n : f[i] \in Int
<1>1. f[0] = 0 /\ \A i \in 1..n : f[i] = f[i - 1] + d[i]
  BY DEF Sums
<1> DEFINE S == {i \in 0..n : f[i] \in Int}
<1>2. 0 \in S /\ \A k \in 0..(n - 1) : k \in S => k + 1 \in S
  <2>1. \A k \in 0..(n - 1) : k + 1 \in 1..n /\ (k + 1) - 1 = k
    OBVIOUS
  <2> QED BY <1>1, <2>1
<1>3. 0..n \subseteq S
  <2> HIDE DEF S
  <2> QED BY <1>2, ReachesAll
<1> QED BY <1>1, <1>3

\* What the units from l to r add where the line there starts at c and climbs by m.
LineOf(d, l, r, c, m) == \A i \in (l + 1)..r : d[i] = (c + m * (i - 1 - l)) + (c + m * (i - l))

\* The area under a line, unit by unit, is the trapezoid's.
LEMMA SumOfLine ==
    ASSUME NEW n \in Nat, NEW d, NEW f, Sums(f, n, d), \A i \in 1..n : d[i] \in Int,
           NEW l \in 0..n, NEW r \in l..n, NEW c \in Int, NEW m \in Int, LineOf(d, l, r, c, m)
    PROVE  f[r] = f[l] + (c + (c + m * (r - l))) * (r - l)
<1>1. f[0] = 0 /\ (\A i \in 1..n : f[i] = f[i - 1] + d[i]) /\ \A i \in 0..n : f[i] \in Int
  BY SumsSteps
<1> DEFINE S == {j \in 0..(r - l) : f[l + j] = f[l] + (c + (c + m * j)) * j}
<1>2. 0 \in S
  <2>1. f[l + 0] = f[l] /\ f[l] \in Int /\ (c + (c + m * 0)) * 0 = 0 /\ 0 \in 0..(r - l)
    BY <1>1
  <2> QED BY <2>1
<1>3. \A j \in 0..((r - l) - 1) : j \in S => j + 1 \in S
  <2> SUFFICES ASSUME NEW j \in 0..((r - l) - 1), f[l + j] = f[l] + (c + (c + m * j)) * j
               PROVE  f[l + (j + 1)] = f[l] + (c + (c + m * (j + 1))) * (j + 1)
    BY <1>1
  <2>1. l + (j + 1) \in 1..n /\ (l + (j + 1)) - 1 = l + j /\ l + (j + 1) \in (l + 1)..r
    OBVIOUS
  <2>2. d[l + (j + 1)] = (c + m * j) + (c + m * (j + 1))
    <3>1. d[l + (j + 1)] = (c + m * ((l + (j + 1)) - 1 - l)) + (c + m * ((l + (j + 1)) - l))
      BY <2>1 DEF LineOf
    <3>2. (l + (j + 1)) - 1 - l = j /\ (l + (j + 1)) - l = j + 1
      OBVIOUS
    <3> QED BY <3>1, <3>2
  <2>3. f[l + (j + 1)] = f[l + j] + d[l + (j + 1)]
    BY <1>1, <2>1
  <2>4. (c + (c + m * (j + 1))) * (j + 1) = (c + (c + m * j)) * j + ((c + m * j) + (c + m * (j + 1)))
    <3>1. j \in Int
      OBVIOUS
    <3> QED BY <3>1
  <2> DEFINE x == (c + (c + m * j)) * j
             y == (c + m * j) + (c + m * (j + 1))
  <2>5. x \in Int /\ y \in Int /\ f[l] \in Int
    BY <1>1
  <2>6. f[l + (j + 1)] = (f[l] + x) + y
    BY <2>2, <2>3
  <2>7. (c + (c + m * (j + 1))) * (j + 1) = x + y
    BY <2>4
  <2> HIDE DEF x, y
  <2> QED BY <2>5, <2>6, <2>7
<1>4. 0..(r - l) \subseteq S
  <2>1. r - l \in Nat
    OBVIOUS
  <2> HIDE DEF S
  <2> QED BY <1>2, <1>3, <2>1, ReachesAll
<1>5. r - l \in S /\ l + (r - l) = r
  BY <1>4
<1> QED BY <1>5

\* What is the same everywhere adds up to as much as there are places.
LEMMA SumOfConstant ==
    ASSUME NEW n \in Nat, NEW d, NEW f, Sums(f, n, d), \A i \in 1..n : d[i] \in Int,
           NEW l \in 0..n, NEW r \in l..n, NEW e \in Int, \A i \in (l + 1)..r : d[i] = e
    PROVE  f[r] = f[l] + e * (r - l)
<1>1. f[0] = 0 /\ (\A i \in 1..n : f[i] = f[i - 1] + d[i]) /\ \A i \in 0..n : f[i] \in Int
  BY SumsSteps
<1> DEFINE S == {j \in 0..(r - l) : f[l + j] = f[l] + e * j}
<1>2. 0 \in S
  <2>1. f[l + 0] = f[l] /\ f[l] \in Int /\ e * 0 = 0 /\ 0 \in 0..(r - l)
    BY <1>1
  <2> QED BY <2>1
<1>3. \A j \in 0..((r - l) - 1) : j \in S => j + 1 \in S
  <2> SUFFICES ASSUME NEW j \in 0..((r - l) - 1), f[l + j] = f[l] + e * j
               PROVE  f[l + (j + 1)] = f[l] + e * (j + 1)
    BY <1>1
  <2>1. l + (j + 1) \in 1..n /\ (l + (j + 1)) - 1 = l + j /\ l + (j + 1) \in (l + 1)..r
    OBVIOUS
  <2>2. f[l + (j + 1)] = f[l + j] + e
    BY <1>1, <2>1
  <2>3. e * (j + 1) = e * j + e /\ e * j \in Int /\ f[l] \in Int
    BY <1>1
  <2> QED BY <2>2, <2>3
<1>4. 0..(r - l) \subseteq S
  <2>1. r - l \in Nat
    OBVIOUS
  <2> HIDE DEF S
  <2> QED BY <1>2, <1>3, <2>1, ReachesAll
<1>5. r - l \in S /\ l + (r - l) = r
  BY <1>4
<1> QED BY <1>5

\* A list with a 1 for each of the units.
Marks(d, n, start, units) == \A i \in 1..n : d[i] = IF start + i - 1 \in units THEN 1 ELSE 0

\* Marks add up to the number of units marked.
LEMMA SumOfUnits ==
    ASSUME NEW n \in Nat, NEW start \in Int, NEW units \in SUBSET (start..(start + n - 1)), NEW d, NEW f, Sums(f, n, d), Marks(d, n, start, units)
    PROVE  f[n] = Cardinality(units)
<1> DEFINE Part(i) == {u \in units : u < start + i}
           S == {i \in 0..n : f[i] = Cardinality(Part(i))}
<1>0. \A u \in units : u \in Int /\ start <= u /\ u < start + n
  <2> SUFFICES ASSUME NEW u \in units PROVE u \in Int /\ start <= u /\ u < start + n
    OBVIOUS
  <2>1. u \in start..(start + n - 1)
    OBVIOUS
  <2> QED BY <2>1
<1>1. IsFiniteSet(units) /\ \A i \in 0..n : IsFiniteSet(Part(i))
  <2>1. IsFiniteSet(start..(start + n - 1))
    BY FS_Interval
  <2>2. IsFiniteSet(units)
    BY <2>1, FS_Subset
  <2> QED BY <2>2, FS_Subset
<1>2. f[0] = 0 /\ \A i \in 1..n : f[i] = f[i - 1] + d[i]
  BY DEF Sums
<1>3. 0 \in S
  <2>1. Part(0) = {}
    <3>1. \A u \in units : ~(u < start + 0)
      BY <1>0
    <3> QED BY <3>1
  <2> HIDE DEF Part
  <2> QED BY <1>2, <2>1, FS_EmptySet
<1>4. \A i \in 0..(n - 1) : i \in S => i + 1 \in S
  <2> SUFFICES ASSUME NEW i \in 0..(n - 1), f[i] = Cardinality(Part(i)) PROVE f[i + 1] = Cardinality(Part(i + 1))
    OBVIOUS
  <2>1. i + 1 \in 1..n /\ (i + 1) - 1 = i /\ start + (i + 1) - 1 = start + i
    OBVIOUS
  <2>2. f[i + 1] = f[i] + IF start + i \in units THEN 1 ELSE 0
    BY <1>2, <2>1 DEF Marks
  <2>3. IsFiniteSet(Part(i)) /\ Cardinality(Part(i)) \in Nat
    <3>1. IsFiniteSet(Part(i))
      BY <1>1
    <3> HIDE DEF Part
    <3> QED BY <3>1, FS_CardinalityType
  <2>4. CASE start + i \in units
    <3>1. Part(i + 1) = Part(i) \cup {start + i} /\ start + i \notin Part(i)
      <4>1. \A u \in units : u < start + (i + 1) <=> (u < start + i \/ u = start + i)
        BY <1>0
      <4>2. start + i < start + (i + 1) /\ ~(start + i < start + i)
        OBVIOUS
      <4> QED BY <2>4, <4>1, <4>2
    <3> HIDE DEF Part
    <3>2. Cardinality(Part(i + 1)) = Cardinality(Part(i)) + 1
      BY <2>3, <3>1, FS_AddElement
    <3> QED BY <2>2, <2>4, <3>2
  <2>5. CASE start + i \notin units
    <3>1. Part(i + 1) = Part(i)
      <4>1. \A u \in units : u < start + (i + 1) <=> (u < start + i \/ u = start + i)
        BY <1>0
      <4> QED BY <2>5, <4>1
    <3> HIDE DEF Part
    <3> QED BY <2>2, <2>3, <2>5, <3>1
  <2> QED BY <2>4, <2>5
<1>5. 0..n \subseteq S
  <2> HIDE DEF S
  <2> QED BY <1>3, <1>4, ReachesAll
<1>6. n \in S
  BY <1>5
<1>7. Part(n) = units
  BY <1>0
<1> QED BY <1>6, <1>7

---------------------------------------------------------------------------
\* The samples before and after a time.

BeforeOf(times, u) == Best({t \in times : t <= u})
AfterOf(times, u) == -Best({-t : t \in {t \in times : t > u}})

\* They are the neighbours of a time between them.
LEMMA Neighbours ==
    ASSUME NEW times \in SUBSET Int, NEW a \in times, NEW b \in times, NEW u \in Int, a <= u, u < b,
           \A t \in times : ~(a < t /\ t < b)
    PROVE  BeforeOf(times, u) = a /\ AfterOf(times, u) = b
<1>0. a \in Int /\ b \in Int /\ \A t \in times : t \in Int
  OBVIOUS
<1>1. BeforeOf(times, u) = a
  <2> DEFINE P == {t \in times : t <= u}
  <2>1. P \in SUBSET Int /\ a \in P
    BY <1>0
  <2>2. \A t \in P : t <= a
    <3> SUFFICES ASSUME NEW t \in times, t <= u, a < t PROVE FALSE
      BY <1>0
    <3>1. t \in Int /\ t < b
      BY <1>0
    <3> QED BY <3>1
  <2> HIDE DEF P
  <2>3. Best(P) = a
    BY <2>1, <2>2, BestIs
  <2> QED BY <2>3 DEF BeforeOf, P
<1>2. AfterOf(times, u) = b
  <2> DEFINE Q == {t \in times : t > u}
             N == {-t : t \in Q}
  <2>0. \A t \in Q : b <= t
    <3> SUFFICES ASSUME NEW t \in times, t > u, t < b PROVE FALSE
      BY <1>0
    <3>1. t \in Int /\ a < t
      BY <1>0
    <3> QED BY <3>1
  <2>1. Q \in SUBSET Int /\ b \in Q /\ \A t \in Q : b <= t
    BY <1>0, <2>0
  <2> HIDE DEF Q
  <2>2. N \in SUBSET Int /\ -b \in N /\ \A x \in N : x <= -b
    BY <2>1
  <2> HIDE DEF N
  <2>3. Best(N) = -b
    BY <2>2, BestIs
  <2>4. -(-b) = b
    OBVIOUS
  <2> QED BY <2>3, <2>4 DEF AfterOf, Q, N
<1> QED BY <1>1, <1>2

\* The sample before b, if there is one.
LEMMA Preceding ==
    ASSUME NEW times \in SUBSET Int, IsFiniteSet(times), NEW b \in times, {t \in times : t < b} # {}
    PROVE  LET a == Best({t \in times : t < b})
           IN  a \in times /\ a < b /\ \A t \in times : ~(a < t /\ t < b)
<1> DEFINE E == {t \in times : t < b}
<1>1. E \in SUBSET Int /\ E # {} /\ IsFiniteSet(E)
  BY FS_Subset
<1>2. \A t \in times : t < b => t \in E
  OBVIOUS
<1>3. \A t \in E : t \in times /\ t < b
  OBVIOUS
<1> HIDE DEF E
<1>4. Best(E) \in E /\ \A t \in E : t <= Best(E)
  BY <1>1, FiniteHasBest
<1>5. Best(E) \in times /\ Best(E) < b /\ \A t \in times : ~(Best(E) < t /\ t < b)
  <2>1. b \in Int /\ \A t \in times : t \in Int
    OBVIOUS
  <2>2. Best(E) \in times /\ Best(E) < b
    BY <1>3, <1>4
  <2>3. ASSUME NEW t \in times, Best(E) < t, t < b PROVE FALSE
    <3>1. t \in E /\ t <= Best(E)
      BY <1>2, <1>4, <2>3
    <3>2. t \in Int /\ Best(E) \in Int
      BY <2>1, <2>2
    <3> DEFINE m == Best(E)
    <3>3. m < t /\ t <= m /\ t \in Int /\ m \in Int
      BY <2>3, <3>1, <3>2
    <3> HIDE DEF m
    <3> QED BY <3>3
  <2> QED BY <2>2, <2>3
<1> QED BY <1>5 DEF E

---------------------------------------------------------------------------
\* Energy.

\* The line between two samples, by its slope.
OnLine(got, key, a, b, slope) == got[a][key] \in Int /\ got[b][key] - got[a][key] = slope * (b - a)

\* What is integrated: readings at times, with lines between them through whole numbers.
Readable(got, key) ==
    /\ DOMAIN got \in SUBSET Int /\ IsFiniteSet(DOMAIN got)
    /\ \A a, b \in DOMAIN got : a < b /\ Counts(got, key, a, b) => \E slope \in Int : OnLine(got, key, a, b, slope)

UnitsOf(got, key, w) ==
    {u \in w.start..(w.end - 1) :
        /\ \E t \in DOMAIN got : t <= u
        /\ \E t \in DOMAIN got : t > u
        /\ None \notin {got[BeforeOf(DOMAIN got, u)][key], got[AfterOf(DOMAIN got, u)][key]}}

AreaAt(got, key, u) ==
    Between(got, key, BeforeOf(DOMAIN got, u), AfterOf(DOMAIN got, u), u)
        + Between(got, key, BeforeOf(DOMAIN got, u), AfterOf(DOMAIN got, u), u + 1)

\* What each unit of the window adds.
AreaList(got, key, w) ==
    [i \in 1..Span(w) |->
        IF w.start + i - 1 \in UnitsOf(got, key, w) THEN AreaAt(got, key, w.start + i - 1) ELSE 0]
CoverList(got, key, w) ==
    [i \in 1..Span(w) |-> IF w.start + i - 1 \in UnitsOf(got, key, w) THEN 1 ELSE 0]

\* The energy by its definition is the sum of the units.
LEMMA EnergyIsSum ==
    ASSUME NEW got, NEW key, NEW w, Span(w) \in Nat
    PROVE  \E f : /\ Sums(f, Span(w), AreaList(got, key, w))
                  /\ EnergyOf(got, key, w) =
                        [energy |-> IF UnitsOf(got, key, w) = {} THEN None ELSE f[Span(w)],
                         covered |-> Cardinality(UnitsOf(got, key, w))]
<1> DEFINE n == Span(w)
           units == UnitsOf(got, key, w)
           d == AreaList(got, key, w)
           P(f) == f = [i \in 0..n |-> IF i = 0 THEN 0
                            ELSE f[i - 1] + IF w.start + i - 1 \in units THEN AreaAt(got, key, w.start + i - 1) ELSE 0]
           area == CHOOSE f : P(f)
<1>1. EnergyOf(got, key, w) = [energy |-> IF units = {} THEN None ELSE area[n], covered |-> Cardinality(units)]
  BY DEF EnergyOf, UnitsOf, AreaAt, BeforeOf, AfterOf
<1>2. \A i \in 1..n : d[i] = IF w.start + i - 1 \in units THEN AreaAt(got, key, w.start + i - 1) ELSE 0
  BY DEF AreaList
<1> HIDE DEF units, d, n
<1>3. \A f : P(f) <=> Sums(f, n, d)
  <2> SUFFICES ASSUME NEW f PROVE P(f) <=> Sums(f, n, d)
    OBVIOUS
  <2>1. [i \in 0..n |-> IF i = 0 THEN 0
            ELSE f[i - 1] + IF w.start + i - 1 \in units THEN AreaAt(got, key, w.start + i - 1) ELSE 0]
        = [i \in 0..n |-> IF i = 0 THEN 0 ELSE f[i - 1] + d[i]]
    <3>1. \A i \in 0..n : i = 0 \/ i \in 1..n
      BY DEF n
    <3> QED BY <1>2, <3>1
  <2> QED BY <2>1 DEF Sums
<1>4. \E f : P(f)
  <2>1. \E f : Sums(f, n, d)
    BY SumsExist DEF n
  <2> HIDE DEF P
  <2> QED BY <1>3, <2>1
<1>5. P(area)
  <2> HIDE DEF P
  <2> QED BY <1>4
<1> HIDE DEF P, area
<1>6. Sums(area, n, d)
  BY <1>3, <1>5
<1> QED BY <1>1, <1>6 DEF n, d, units

\* A multiple divides out.
LEMMA DivOfMultiple == ASSUME NEW x \in Int, NEW d \in Int, d > 0 PROVE (x * d) \div d = x
<1> DEFINE p == x * d
           q == p \div d
<1>1. p \in Int /\ q \in Int /\ q * d <= p /\ p < q * d + d
  OBVIOUS
<1> HIDE DEF q
<1>2. ~(q > x)
  <2> SUFFICES ASSUME q > x PROVE FALSE
    OBVIOUS
  <2>1. q * d >= (x + 1) * d /\ (x + 1) * d = x * d + d
    BY <1>1
  <2>2. q * d >= p + d
    BY <2>1
  <2> HIDE DEF p
  <2> DEFINE y == q * d
  <2>3. y \in Int /\ y >= p + d /\ y <= p
    BY <1>1, <2>2
  <2> HIDE DEF y
  <2> QED BY <1>1, <2>3
<1>3. ~(q < x)
  <2> SUFFICES ASSUME q < x PROVE FALSE
    OBVIOUS
  <2>1. (q + 1) * d <= x * d /\ (q + 1) * d = q * d + d
    BY <1>1
  <2>2. q * d + d <= p
    BY <2>1
  <2> HIDE DEF p
  <2> DEFINE y == q * d
  <2>3. y \in Int /\ y + d <= p /\ p < y + d
    BY <1>1, <2>2
  <2> HIDE DEF y
  <2> QED BY <1>1, <2>3
<1> QED BY <1>1, <1>2, <1>3 DEF q

\* A reading between two samples lies on the line through them.
LEMMA BetweenIs == 
    ASSUME NEW got, NEW key, NEW a \in Int, NEW b \in Int, NEW slope \in Int, a < b, OnLine(got, key, a, b, slope)
    PROVE \A u \in Int : Between(got, key, a, b, u) = got[a][key] + slope * (u - a)
<1> SUFFICES ASSUME NEW u \in Int PROVE Between(got, key, a, b, u) = got[a][key] + slope * (u - a)
  OBVIOUS
<1>0. got[a][key] \in Int /\ got[b][key] - got[a][key] = slope * (b - a)
  BY DEF OnLine
<1>1. ((slope * (b - a)) * (u - a)) = (slope * (u - a)) * (b - a) /\ slope * (u - a) \in Int /\ b - a \in Int /\ b - a > 0
  OBVIOUS
<1>2. ((slope * (u - a)) * (b - a)) \div (b - a) = slope * (u - a)
  BY <1>1, DivOfMultiple
<1>3. ((got[b][key] - got[a][key]) * (u - a)) \div (b - a) = slope * (u - a)
  BY <1>0, <1>1, <1>2
<1> QED BY <1>3 DEF Between

Pos(w, t) == IF t <= w.start THEN 0 ELSE IF t >= w.end THEN Span(w) ELSE t - w.start

\* Which units of a window are before a time.
LEMMA PosIs ==
    ASSUME NEW w, w.start \in Int, w.end \in Int, w.start <= w.end, NEW t \in Int
    PROVE  /\ Span(w) \in Nat /\ Pos(w, t) \in 0..Span(w)
           /\ \A s \in Int : t <= s => Pos(w, t) <= Pos(w, s)
           /\ \A i \in 1..Span(w) : i <= Pos(w, t) <=> w.start + i - 1 < t
BY DEF Pos, Span

\* The units between a sample and the next.
LEMMA UnitsBetween ==
    ASSUME NEW got, NEW key, Readable(got, key), NEW w, w.start \in Int, w.end \in Int,
           NEW a \in DOMAIN got, NEW b \in DOMAIN got, a < b, \A t \in DOMAIN got : ~(a < t /\ t < b),
           NEW u \in Int, a <= u, u < b, w.start <= u, u < w.end
    PROVE  /\ u \in UnitsOf(got, key, w) <=> Counts(got, key, a, b)
           /\ \A slope \in Int : Counts(got, key, a, b) /\ OnLine(got, key, a, b, slope) =>
                AreaAt(got, key, u) = (got[a][key] + slope * (u - a)) + (got[a][key] + slope * ((u + 1) - a))
<1> DEFINE times == DOMAIN got
<1>1. times \in SUBSET Int /\ a \in times /\ b \in times /\ \A t \in times : ~(a < t /\ t < b)
  BY DEF Readable
<1>2. BeforeOf(times, u) = a /\ AfterOf(times, u) = b
  <2> HIDE DEF times
  <2> QED BY <1>1, Neighbours
<1>3. u \in UnitsOf(got, key, w) <=> Counts(got, key, a, b)
  BY <1>2 DEF UnitsOf, Counts
<1>4. ASSUME NEW slope \in Int, OnLine(got, key, a, b, slope)
      PROVE  AreaAt(got, key, u) = (got[a][key] + slope * (u - a)) + (got[a][key] + slope * ((u + 1) - a))
  <2>1. a \in Int /\ b \in Int
    BY <1>1
  <2> HIDE DEF times
  <2>2. \A v \in Int : Between(got, key, a, b, v) = got[a][key] + slope * (v - a)
    BY <1>4, <2>1, BetweenIs
  <2>3. u + 1 \in Int
    OBVIOUS
  <2>4. Between(got, key, a, b, u + 1) = got[a][key] + slope * ((u + 1) - a)
    BY <2>2, <2>3
  <2>5. Between(got, key, a, b, u) = got[a][key] + slope * (u - a)
    BY <2>2
  <2> QED BY <1>2, <2>4, <2>5 DEF AreaAt, times
<1> QED BY <1>3, <1>4

\* What is clipped, case by case.
LEMMA ClippedIs ==
    ASSUME NEW w, w.start \in Int, w.end \in Int, NEW a \in Int, NEW b \in Int
    PROVE  /\ Clipped(a, b, w).left = (IF a <= w.start THEN w.start ELSE a)
           /\ Clipped(a, b, w).right = (IF b <= w.end THEN b ELSE w.end)
<1>1. Best({a, w.start}) = IF a <= w.start THEN w.start ELSE a
  BY BestOf
<1>2. Best({-b, -w.end}) = IF -b <= -w.end THEN -w.end ELSE -b
  <2>1. -b \in Int /\ -w.end \in Int
    OBVIOUS
  <2> QED BY <2>1, BestOf
<1>3. -Best({-b, -w.end}) = IF b <= w.end THEN b ELSE w.end
  BY <1>2
<1> QED BY <1>1, <1>3 DEF Clipped


\* A finite set of numbers has a least.
LEMMA FiniteHasLeast ==
    ASSUME NEW S \in SUBSET Int, S # {}, IsFiniteSet(S)
    PROVE  \E b \in S : \A t \in S : b <= t
<1> DEFINE N == {-t : t \in S}
<1>1. IsFiniteSet(N)
  <2>1. [t \in S |-> -t] \in Surjection(S, N)
    BY DEF Surjection
  <2> HIDE DEF N
  <2> QED BY <2>1, FS_Surjection
<1>2. N \in SUBSET Int /\ N # {} /\ (\A t \in S : -t \in N) /\ \A x \in N : \E t \in S : x = -t
  <2>1. \A t \in S : t \in Int /\ -t \in Int
    OBVIOUS
  <2>2. (\A t \in S : -t \in N) /\ \A x \in N : \E t \in S : x = -t
    OBVIOUS
  <2>3. \A x \in N : x \in Int
    BY <2>1, <2>2
  <2> QED BY <2>2, <2>3
<1> HIDE DEF N
<1>3. Best(N) \in N /\ \A y \in N : y <= Best(N)
  BY <1>1, <1>2, FiniteHasBest
<1>4. PICK b \in S : Best(N) = -b
  BY <1>2, <1>3
<1>5. \A t \in S : b <= t
  <2> SUFFICES ASSUME NEW t \in S PROVE b <= t
    OBVIOUS
  <2>1. -t <= -b
    BY <1>2, <1>3, <1>4
  <2> QED BY <2>1
<1> QED BY <1>5

\* A time between two samples is between two that follow each other.
LEMMA Surrounded ==
    ASSUME NEW times \in SUBSET Int, IsFiniteSet(times), NEW u \in Int,
           NEW s \in times, s <= u, NEW e \in times, e > u
    PROVE  \E a, b \in times : a <= u /\ u < b /\ \A t \in times : ~(a < t /\ t < b)
<1> DEFINE P == {t \in times : t <= u}
           a == Best(P)
<1>0. \A t \in times : t \in Int
  OBVIOUS
<1>1. a \in times /\ a <= u /\ \A t \in times : t <= u => t <= a
  <2>1. P \in SUBSET Int /\ P # {} /\ IsFiniteSet(P)
    BY FS_Subset
  <2>2. \A t \in times : t \in P <=> t <= u
    OBVIOUS
  <2>3. P \subseteq times
    OBVIOUS
  <2> HIDE DEF P
  <2>4. Best(P) \in P /\ \A y \in P : y <= Best(P)
    BY <2>1, FiniteHasBest
  <2> QED BY <2>2, <2>3, <2>4
<1> HIDE DEF a
<1> DEFINE Q == {t \in times : t > u}
<1>2. PICK b \in times : b > u /\ \A t \in times : t > u => b <= t
  <2>1. IsFiniteSet(Q) /\ Q \in SUBSET Int /\ Q # {} /\ Q \subseteq times /\ \A t \in Q : t > u
    BY FS_Subset
  <2>2. \A t \in times : t > u => t \in Q
    OBVIOUS
  <2> HIDE DEF Q
  <2>3. \E b \in Q : \A t \in Q : b <= t
    BY <2>1, FiniteHasLeast
  <2> QED BY <2>1, <2>2, <2>3
<1>3. ASSUME NEW t \in times, a < t, t < b PROVE FALSE
  <2>1. t \in Int /\ a \in Int /\ b \in Int
    BY <1>0, <1>1
  <2>2. CASE t <= u
    BY <1>1, <1>3, <2>1, <2>2
  <2>3. CASE t > u
    BY <1>2, <1>3, <2>1, <2>3
  <2> QED BY <2>1, <2>2, <2>3
<1> QED BY <1>1, <1>2, <1>3

\* What a unit adds is whole.
LEMMA ListsAreWhole ==
    ASSUME NEW got, NEW key, Readable(got, key), NEW w, w.start \in Int, w.end \in Int, w.start <= w.end
    PROVE  \A i \in 1..Span(w) : AreaList(got, key, w)[i] \in Int /\ CoverList(got, key, w)[i] \in Int
<1> SUFFICES ASSUME NEW i \in 1..Span(w)
             PROVE  AreaList(got, key, w)[i] \in Int /\ CoverList(got, key, w)[i] \in Int
  OBVIOUS
<1> DEFINE u == w.start + i - 1
           times == DOMAIN got
<1>1. Span(w) = w.end - w.start /\ u \in Int /\ w.start <= u /\ u < w.end
  BY DEF Span
<1>2. AreaList(got, key, w)[i] = (IF u \in UnitsOf(got, key, w) THEN AreaAt(got, key, u) ELSE 0)
  BY DEF AreaList
<1>3. CoverList(got, key, w)[i] = (IF u \in UnitsOf(got, key, w) THEN 1 ELSE 0)
  BY DEF CoverList
<1> HIDE DEF u
<1>4. ASSUME u \in UnitsOf(got, key, w) PROVE AreaAt(got, key, u) \in Int
  <2>1. times \in SUBSET Int /\ IsFiniteSet(times) /\ (\E t \in times : t <= u) /\ \E t \in times : t > u
    BY <1>4 DEF UnitsOf, Readable
  <2> HIDE DEF times
  <2>2. PICK a, b \in times : a <= u /\ u < b /\ \A t \in times : ~(a < t /\ t < b)
    BY <1>1, <2>1, Surrounded
  <2>3. a \in Int /\ b \in Int /\ a < b
    BY <1>1, <2>1, <2>2
  <2>4. /\ Counts(got, key, a, b)
        /\ \A slope \in Int : OnLine(got, key, a, b, slope) =>
                AreaAt(got, key, u) = (got[a][key] + slope * (u - a)) + (got[a][key] + slope * ((u + 1) - a))
    BY <1>1, <1>4, <2>2, <2>3, UnitsBetween DEF times
  <2>5. PICK slope \in Int : OnLine(got, key, a, b, slope)
    BY <2>2, <2>3, <2>4 DEF Readable, times
  <2>6. got[a][key] \in Int
    BY <2>5 DEF OnLine
  <2>7. /\ AreaAt(got, key, u) = (got[a][key] + slope * (u - a)) + (got[a][key] + slope * ((u + 1) - a))
        /\ slope * (u - a) \in Int /\ slope * ((u + 1) - a) \in Int
    BY <1>1, <2>3, <2>4, <2>5
  <2> QED BY <2>6, <2>7
<1> QED BY <1>2, <1>3, <1>4

\* Where a piece between two samples lies among the units of the window.
LEMMA PieceLies ==
    ASSUME NEW w, w.start \in Int, w.end \in Int, w.start <= w.end, NEW a \in Int, NEW b \in Int, a < b
    PROVE  LET piece == Clipped(a, b, w) l == Pos(w, a) r == Pos(w, b)
           IN  /\ l \in 0..Span(w) /\ r \in l..Span(w)
               /\ piece.left \in Int /\ piece.right \in Int
               /\ piece.right <= piece.left => l = r
               /\ piece.right > piece.left =>
                    /\ piece.left = w.start + l /\ piece.right = w.start + r
                    /\ a <= piece.left /\ piece.right <= b /\ piece.right <= w.end
<1>1. /\ Clipped(a, b, w).left = (IF a <= w.start THEN w.start ELSE a)
      /\ Clipped(a, b, w).right = (IF b <= w.end THEN b ELSE w.end)
  BY ClippedIs
<1> DEFINE left == Clipped(a, b, w).left
           right == Clipped(a, b, w).right
<1> HIDE DEF left, right
<1>2. left = (IF a <= w.start THEN w.start ELSE a) /\ right = (IF b <= w.end THEN b ELSE w.end)
  BY <1>1 DEF left, right
<1> QED BY <1>2 DEF left, right, Pos, Span

\* The page's trapezoid between two samples is the sum of the units there.
LEMMA PieceIs ==
    ASSUME NEW got, NEW key, Readable(got, key), NEW w, w.start \in Int, w.end \in Int, w.start <= w.end,
           NEW a \in DOMAIN got, NEW b \in DOMAIN got, a < b, \A t \in DOMAIN got : ~(a < t /\ t < b),
           NEW f, Sums(f, Span(w), AreaList(got, key, w)), NEW c, Sums(c, Span(w), CoverList(got, key, w))
    PROVE  Piece(got, key, a, b, w) =
                [energy |-> f[Pos(w, b)] - f[Pos(w, a)], covered |-> c[Pos(w, b)] - c[Pos(w, a)]]
<1> DEFINE n == Span(w)
           d == AreaList(got, key, w)
           e == CoverList(got, key, w)
           l == Pos(w, a)
           r == Pos(w, b)
           left == Clipped(a, b, w).left
           right == Clipped(a, b, w).right
<1>1. a \in Int /\ b \in Int /\ n \in Nat /\ n = w.end - w.start
  BY DEF Readable, Span
<1>2. /\ l \in 0..n /\ r \in l..n /\ left \in Int /\ right \in Int
      /\ right <= left => l = r
      /\ right > left => left = w.start + l /\ right = w.start + r /\ a <= left /\ right <= b /\ right <= w.end
  BY <1>1, PieceLies
<1>3. (\A i \in 1..n : d[i] \in Int) /\ (\A i \in 1..n : e[i] \in Int)
  BY ListsAreWhole
<1>4. Sums(f, n, d) /\ Sums(c, n, e)
  OBVIOUS
<1>5. Piece(got, key, a, b, w) =
        IF ~Counts(got, key, a, b) \/ right <= left THEN [energy |-> 0, covered |-> 0]
        ELSE [energy  |-> (Between(got, key, a, b, left) + Between(got, key, a, b, right)) * (right - left),
              covered |-> right - left]
  BY DEF Piece
<1>6. ASSUME NEW i \in (l + 1)..r, right > left
      PROVE  LET u == w.start + i - 1
             IN  /\ u \in Int /\ a <= u /\ u < b /\ w.start <= u /\ u < w.end
                 /\ d[i] = (IF u \in UnitsOf(got, key, w) THEN AreaAt(got, key, u) ELSE 0)
                 /\ e[i] = (IF u \in UnitsOf(got, key, w) THEN 1 ELSE 0)
  <2>1. i \in 1..n
    BY <1>1, <1>2
  <2>2. /\ d[i] = (IF w.start + i - 1 \in UnitsOf(got, key, w) THEN AreaAt(got, key, w.start + i - 1) ELSE 0)
        /\ e[i] = (IF w.start + i - 1 \in UnitsOf(got, key, w) THEN 1 ELSE 0)
    BY <2>1 DEF AreaList, CoverList
  <2> HIDE DEF l, r, left, right, d, e, n
  <2>3. LET u == w.start + i - 1 IN u \in Int /\ a <= u /\ u < b /\ w.start <= u /\ u < w.end
    BY <1>1, <1>2, <1>6
  <2> QED BY <2>2, <2>3
<1> HIDE DEF l, r, left, right, d, e, n
<1>7. f[l] \in Int /\ c[l] \in Int /\ f[r] \in Int /\ c[r] \in Int
  <2>1. (\A i \in 0..n : f[i] \in Int) /\ \A i \in 0..n : c[i] \in Int
    BY <1>1, <1>3, <1>4, SumsSteps
  <2> QED BY <1>1, <1>2, <2>1
<1>8. CASE right <= left
  <2>1. f[r] - f[l] = 0 /\ c[r] - c[l] = 0
    BY <1>2, <1>7, <1>8
  <2> QED BY <1>5, <1>8, <2>1 DEF l, r
<1>9. CASE right > left /\ ~Counts(got, key, a, b)
  <2>1. \A i \in (l + 1)..r : d[i] = 0 /\ e[i] = 0
    BY <1>6, <1>9, UnitsBetween
  <2>2. f[r] = f[l] + 0 * (r - l) /\ c[r] = c[l] + 0 * (r - l)
    BY <1>1, <1>2, <1>3, <1>4, <2>1, SumOfConstant
  <2>3. f[r] - f[l] = 0 /\ c[r] - c[l] = 0
    <3>1. 0 * (r - l) = 0
      BY <1>1, <1>2
    <3> QED BY <1>7, <2>2, <3>1
  <2> QED BY <1>5, <1>9, <2>3 DEF l, r
<1>10. CASE right > left /\ Counts(got, key, a, b)
  <2>1. PICK slope \in Int : OnLine(got, key, a, b, slope)
    BY <1>10 DEF Readable
  <2> DEFINE va == got[a][key]
             from == va + slope * (left - a)
  <2>2. va \in Int
    BY <2>1 DEF OnLine
  <2>3. \A v \in Int : Between(got, key, a, b, v) = va + slope * (v - a)
    BY <1>1, <2>1, BetweenIs
  <2> HIDE DEF va
  <2>4. from \in Int /\ l \in Int /\ r \in Int /\ r - l = right - left
    BY <1>1, <1>2, <1>10, <2>2
  <2>5. ASSUME NEW i \in (l + 1)..r
        PROVE  d[i] = (from + slope * (i - 1 - l)) + (from + slope * (i - l)) /\ e[i] = 1
    <3> DEFINE u == w.start + i - 1
    <3>1. /\ u \in Int /\ a <= u /\ u < b /\ w.start <= u /\ u < w.end
          /\ d[i] = (IF u \in UnitsOf(got, key, w) THEN AreaAt(got, key, u) ELSE 0)
          /\ e[i] = (IF u \in UnitsOf(got, key, w) THEN 1 ELSE 0)
      BY <1>6, <1>10
    <3>2. u = w.start + i - 1
      OBVIOUS
    <3> HIDE DEF u, from
    <3>3. /\ u \in UnitsOf(got, key, w)
          /\ AreaAt(got, key, u) = (got[a][key] + slope * (u - a)) + (got[a][key] + slope * ((u + 1) - a))
      BY <1>1, <1>10, <2>1, <3>1, UnitsBetween
    <3>4. u - a = (left - a) + (i - 1 - l) /\ (u + 1) - a = (left - a) + (i - l) /\ i \in Int
      BY <1>1, <1>2, <1>10, <2>4, <3>2
    <3>5. /\ slope * (u - a) = slope * (left - a) + slope * (i - 1 - l)
          /\ slope * ((u + 1) - a) = slope * (left - a) + slope * (i - l)
      BY <1>1, <1>2, <2>4, <3>4
    <3>6. /\ va + slope * (u - a) = from + slope * (i - 1 - l)
          /\ va + slope * ((u + 1) - a) = from + slope * (i - l)
      <4> DEFINE x == slope * (left - a)
                 y == slope * (i - 1 - l)
                 z == slope * (i - l)
      <4>1. x \in Int /\ y \in Int /\ z \in Int
        BY <1>1, <1>2, <2>4, <3>4
      <4>2. slope * (u - a) = x + y /\ slope * ((u + 1) - a) = x + z /\ from = va + x
        BY <3>5 DEF from
      <4> HIDE DEF x, y, z
      <4>3. va + (x + y) = from + y /\ va + (x + z) = from + z
        BY <2>2, <4>1, <4>2
      <4> QED BY <4>2, <4>3 DEF y, z
    <3> QED BY <3>1, <3>3, <3>6 DEF va
  <2>6. c[r] = c[l] + 1 * (r - l)
    BY <1>1, <1>2, <1>3, <1>4, <2>5, SumOfConstant
  <2>7. f[r] = f[l] + (from + (from + slope * (r - l))) * (r - l)
    <3> HIDE DEF from
    <3>1. LineOf(d, l, r, from, slope)
      BY <2>5 DEF LineOf
    <3> QED BY <1>1, <1>2, <1>3, <1>4, <2>4, <3>1, SumOfLine
  <2>8. Between(got, key, a, b, left) = from /\ Between(got, key, a, b, right) = from + slope * (r - l)
    <3>1. slope * (right - a) = slope * (left - a) + slope * (r - l)
      <4>1. right - a = (left - a) + (r - l)
        BY <1>1, <1>2, <2>4
      <4> QED BY <1>1, <1>2, <2>4, <4>1
    <3>2. Between(got, key, a, b, right) = va + slope * (right - a)
      BY <1>2, <2>3
    <3>3. slope * (left - a) \in Int /\ slope * (r - l) \in Int
      BY <1>1, <1>2, <2>4
    <3>4. Between(got, key, a, b, left) = va + slope * (left - a)
      BY <1>2, <2>3
    <3> DEFINE x == slope * (left - a)
               y == slope * (r - l)
    <3>5. x \in Int /\ y \in Int /\ Between(got, key, a, b, right) = va + (x + y) /\ from = va + x
      BY <3>1, <3>2, <3>3
    <3> HIDE DEF x, y, from
    <3>6. va + (x + y) = from + y
      BY <2>2, <3>5
    <3> QED BY <3>4, <3>5, <3>6 DEF x, y
  <2>9. Piece(got, key, a, b, w) = [energy |-> (from + (from + slope * (r - l))) * (r - l), covered |-> r - l]
    <3> DEFINE atLeft == Between(got, key, a, b, left)
               atRight == Between(got, key, a, b, right)
               end == from + slope * (r - l)
               len == r - l
    <3>1. Piece(got, key, a, b, w) = [energy |-> (atLeft + atRight) * (right - left), covered |-> right - left]
      BY <1>2, <1>5, <1>10
    <3>2. atLeft = from /\ atRight = end /\ right - left = len
      BY <2>4, <2>8
    <3> HIDE DEF atLeft, atRight, end, len, from
    <3>3. Piece(got, key, a, b, w) = [energy |-> (from + end) * len, covered |-> len]
      BY <3>1, <3>2
    <3> QED BY <3>3 DEF end, len
  <2>10. f[r] - f[l] = (from + (from + slope * (r - l))) * (r - l) /\ c[r] - c[l] = r - l
    <3> DEFINE x == (from + (from + slope * (r - l))) * (r - l)
    <3>1. slope * (r - l) \in Int
      BY <2>4
    <3>2. x \in Int
      BY <2>4, <3>1
    <3>3. f[r] = f[l] + x
      BY <2>7
    <3> HIDE DEF x
    <3>4. f[r] - f[l] = x
      BY <1>7, <3>2, <3>3
    <3>5. c[r] - c[l] = r - l
      BY <1>7, <2>4, <2>6
    <3> QED BY <3>4, <3>5 DEF x
  <2> QED BY <2>9, <2>10 DEF l, r
<1> QED BY <1>2, <1>8, <1>9, <1>10

NoUnits(got, key, w, l, r) == \A i \in (l + 1)..r : w.start + i - 1 \notin UnitsOf(got, key, w)

\* Where no unit counts the sums stand still.
LEMMA NothingBetween ==
    ASSUME NEW got, NEW key, Readable(got, key), NEW w, w.start \in Int, w.end \in Int, w.start <= w.end,
           NEW f, Sums(f, Span(w), AreaList(got, key, w)), NEW c, Sums(c, Span(w), CoverList(got, key, w)),
           NEW l \in 0..Span(w), NEW r \in l..Span(w), NoUnits(got, key, w, l, r)
    PROVE  f[r] = f[l] /\ c[r] = c[l]
<1> DEFINE n == Span(w)
           d == AreaList(got, key, w)
           e == CoverList(got, key, w)
<1>1. n \in Nat
  BY DEF Span
<1>2. (\A i \in 1..n : d[i] \in Int) /\ (\A i \in 1..n : e[i] \in Int)
  BY ListsAreWhole
<1>3. \A i \in (l + 1)..r : d[i] = 0 /\ e[i] = 0
  <2> SUFFICES ASSUME NEW i \in (l + 1)..r PROVE d[i] = 0 /\ e[i] = 0
    OBVIOUS
  <2>1. i \in 1..n
    BY <1>1
  <2> QED BY <2>1 DEF AreaList, CoverList, NoUnits
<1> HIDE DEF d, e, n
<1>4. Sums(f, n, d) /\ Sums(c, n, e) /\ l \in 0..n /\ r \in l..n
  BY DEF d, e, n
<1>5. f[r] = f[l] + 0 * (r - l) /\ c[r] = c[l] + 0 * (r - l)
  BY <1>1, <1>2, <1>3, <1>4, SumOfConstant
<1>6. f[l] \in Int /\ c[l] \in Int
  BY <1>1, <1>2, <1>4, SumsSteps
<1>7. 0 * (r - l) = 0
  BY <1>4
<1> QED BY <1>5, <1>6, <1>7

\* What the page has summed up to each sample is the sum of the units before it.
Summed(got, w, f, c) == [b \in DOMAIN got |-> [energy |-> f[Pos(w, b)], covered |-> c[Pos(w, b)]]]

Earlier(got, b) == {t \in DOMAIN got : t < b}
Added(got, key, w, g, b) ==
    IF Earlier(got, b) = {} THEN Nothing
    ELSE Plus(g[Best(Earlier(got, b))], Piece(got, key, Best(Earlier(got, b)), b, w))

\* To the sums before b the page adds the piece that ends there.
LEMMA SummedIsAdded ==
    ASSUME NEW got, NEW key, Readable(got, key), NEW w, w.start \in Int, w.end \in Int, w.start <= w.end,
           NEW f, Sums(f, Span(w), AreaList(got, key, w)), NEW c, Sums(c, Span(w), CoverList(got, key, w)),
           NEW b \in DOMAIN got
    PROVE  Summed(got, w, f, c)[b] = Added(got, key, w, Summed(got, w, f, c), b)
<1> DEFINE times == DOMAIN got
           n == Span(w)
           g == Summed(got, w, f, c)
<1>1. times \in SUBSET Int /\ IsFiniteSet(times) /\ b \in times /\ b \in Int /\ n \in Nat
  BY DEF Readable, Span
<1>2. \A t \in times : g[t] = [energy |-> f[Pos(w, t)], covered |-> c[Pos(w, t)]]
  BY DEF Summed
<1>3. \A t \in times : Pos(w, t) \in 0..n
  BY <1>1, PosIs
<1>4. \A i \in 0..n : f[i] \in Int /\ c[i] \in Int
  <2>1. (\A i \in 1..n : AreaList(got, key, w)[i] \in Int) /\ (\A i \in 1..n : CoverList(got, key, w)[i] \in Int)
    BY ListsAreWhole
  <2> QED BY <1>1, <2>1, SumsSteps
<1>5. CASE Earlier(got, b) = {}
  <2>1. \A i \in 1..Pos(w, b) : w.start + i - 1 \notin UnitsOf(got, key, w)
    <3> SUFFICES ASSUME NEW i \in 1..Pos(w, b), w.start + i - 1 \in UnitsOf(got, key, w) PROVE FALSE
      OBVIOUS
    <3>1. i \in 1..n /\ i <= Pos(w, b)
      BY <1>1, <1>3
    <3>2. w.start + i - 1 < b
      BY <1>1, <3>1, PosIs
    <3>3. PICK t \in times : t <= w.start + i - 1
      BY DEF UnitsOf
    <3>4. t < b
      BY <1>1, <3>1, <3>2, <3>3
    <3> QED BY <1>5, <3>4 DEF Earlier
  <2> DEFINE p == Pos(w, b)
  <2>2. p \in 0..n /\ 0 \in 0..n
    BY <1>1, <1>3
  <2>3. NoUnits(got, key, w, 0, p) /\ p \in 0..Span(w) /\ 0 \in 0..Span(w)
    BY <2>1, <2>2 DEF NoUnits
  <2> HIDE DEF p
  <2>4. f[p] = f[0] /\ c[p] = c[0]
    BY <2>2, <2>3, NothingBetween
  <2>5. f[0] = 0 /\ c[0] = 0
    BY <1>1 DEF Sums
  <2> QED BY <1>2, <1>5, <2>4, <2>5 DEF p, Added, Nothing
<1>6. CASE Earlier(got, b) # {}
  <2> DEFINE a == Best(Earlier(got, b))
  <2>1. a \in times /\ a < b /\ \A t \in times : ~(a < t /\ t < b)
    <3> HIDE DEF times
    <3>1. {t \in times : t < b} = Earlier(got, b)
      BY DEF Earlier, times
    <3> QED BY <1>1, <1>6, <3>1, Preceding
  <2> HIDE DEF a
  <2>2. Piece(got, key, a, b, w) =
            [energy |-> f[Pos(w, b)] - f[Pos(w, a)], covered |-> c[Pos(w, b)] - c[Pos(w, a)]]
    BY <2>1, PieceIs
  <2>3. g[a] = [energy |-> f[Pos(w, a)], covered |-> c[Pos(w, a)]]
    BY <1>2, <2>1
  <2> DEFINE p == Pos(w, a)
             q == Pos(w, b)
  <2>4. f[p] \in Int /\ f[q] \in Int /\ c[p] \in Int /\ c[q] \in Int
    BY <1>1, <1>3, <1>4, <2>1
  <2>5. Plus(g[a], Piece(got, key, a, b, w)) = [energy |-> f[p] + (f[q] - f[p]), covered |-> c[p] + (c[q] - c[p])]
    BY <2>2, <2>3 DEF Plus
  <2>6. f[p] + (f[q] - f[p]) = f[q] /\ c[p] + (c[q] - c[p]) = c[q]
    BY <2>4
  <2>7. Added(got, key, w, g, b) = Plus(g[a], Piece(got, key, a, b, w))
    BY <1>6 DEF Added, a
  <2> HIDE DEF p, q
  <2>8. Added(got, key, w, g, b) = [energy |-> f[q], covered |-> c[q]]
    BY <2>5, <2>6, <2>7
  <2> QED BY <1>2, <2>8 DEF q
<1> QED BY <1>5, <1>6

\* There is only one way to sum them.
LEMMA SummedOneWay ==
    ASSUME NEW got, DOMAIN got \in SUBSET Int, IsFiniteSet(DOMAIN got), NEW key, NEW w, NEW g, NEW h,
           \A b \in DOMAIN got : g[b] = Added(got, key, w, g, b) /\ h[b] = Added(got, key, w, h, b)
    PROVE  \A b \in DOMAIN got : g[b] = h[b]
<1> DEFINE times == DOMAIN got
           Differ == {b \in times : g[b] # h[b]}
<1> SUFFICES ASSUME Differ # {} PROVE FALSE
  OBVIOUS
<1>1. times \in SUBSET Int /\ IsFiniteSet(times)
  OBVIOUS
<1>2. PICK b \in Differ : \A t \in Differ : b <= t
  <2>1. Differ \in SUBSET Int /\ IsFiniteSet(Differ)
    BY <1>1, FS_Subset
  <2> HIDE DEF Differ
  <2> QED BY <2>1, FiniteHasLeast
<1>3. b \in times /\ g[b] # h[b]
  OBVIOUS
<1>4. CASE Earlier(got, b) = {}
  BY <1>3, <1>4 DEF Added
<1>5. CASE Earlier(got, b) # {}
  <2> DEFINE a == Best(Earlier(got, b))
  <2>1. a \in times /\ a < b
    <3> HIDE DEF times
    <3>1. {t \in times : t < b} = Earlier(got, b)
      BY DEF Earlier, times
    <3> QED BY <1>1, <1>3, <1>5, <3>1, Preceding
  <2>2. g[b] = Plus(g[a], Piece(got, key, a, b, w)) /\ h[b] = Plus(h[a], Piece(got, key, a, b, w))
    BY <1>3, <1>5 DEF Added
  <2> HIDE DEF a
  <2>3. a \in Int /\ b \in Int
    BY <1>1, <1>3, <2>1
  <2>4. a \notin Differ
    BY <1>2, <2>1, <2>3
  <2> QED BY <1>3, <2>1, <2>2, <2>4
<1> QED BY <1>4, <1>5

\* What the page counts is the energy by its definition.
LEMMA IntegralIs ==
    ASSUME NEW got, NEW key, Readable(got, key), NEW w, w.start \in Int, w.end \in Int, w.start <= w.end
    PROVE  LET i == Integral(got, key, w) e == EnergyOf(got, key, w)
           IN  /\ i.energy = e.energy /\ i.covered = e.covered /\ i.covered \in Nat /\ i.covered <= Span(w)
               /\ i.complete = (Span(w) > 0 /\ i.covered >= Span(w))
               /\ e.covered = Cardinality(UnitsOf(got, key, w))
<1> DEFINE times == DOMAIN got
           n == Span(w)
           units == UnitsOf(got, key, w)
           P(g) == g = [b \in times |->
                            LET earlier == {t \in times : t < b}
                            IN  IF earlier = {} THEN Nothing
                                ELSE Plus(g[Best(earlier)], Piece(got, key, Best(earlier), b, w))]
           upTo == CHOOSE g : P(g)
           total == IF times = {} THEN Nothing ELSE upTo[Best(times)]
<1>1. Integral(got, key, w) = [energy |-> IF total.covered = 0 THEN None ELSE total.energy,
                               covered |-> total.covered,
                               complete |-> n > 0 /\ total.covered >= n]
  BY DEF Integral
<1>2. times \in SUBSET Int /\ IsFiniteSet(times) /\ n \in Nat /\ n = w.end - w.start
  BY DEF Readable, Span
<1>3. PICK f : /\ Sums(f, n, AreaList(got, key, w))
               /\ EnergyOf(got, key, w) = [energy |-> IF units = {} THEN None ELSE f[n], covered |-> Cardinality(units)]
  BY <1>2, EnergyIsSum
<1>4. PICK c : Sums(c, n, CoverList(got, key, w))
  BY <1>2, SumsExist
<1>5. /\ units \in SUBSET (w.start..(w.start + n - 1)) /\ c[n] = Cardinality(units)
      /\ IsFiniteSet(units) /\ Cardinality(units) \in Nat /\ Cardinality(units) <= n
  <2>1. w.start..(w.end - 1) = w.start..(w.start + n - 1)
    <3>1. w.end - 1 = w.start + n - 1
      BY <1>2
    <3> QED BY <3>1
  <2>2. units \in SUBSET (w.start..(w.start + n - 1))
    <3>1. units \in SUBSET (w.start..(w.end - 1))
      BY DEF UnitsOf
    <3> QED BY <2>1, <3>1
  <2>3. Marks(CoverList(got, key, w), n, w.start, units)
    BY DEF CoverList, Marks
  <2> HIDE DEF units, n
  <2>4. c[n] = Cardinality(units)
    BY <1>2, <1>4, <2>2, <2>3, SumOfUnits
  <2>5. w.start \in Int /\ w.start + n - 1 \in Int
    BY <1>2
  <2>6. IsFiniteSet(w.start..(w.start + n - 1)) /\ Cardinality(w.start..(w.start + n - 1)) <= n
    <3> DEFINE last == w.start + n - 1
    <3>1. IsFiniteSet(w.start..last) /\ Cardinality(w.start..last) = IF w.start > last THEN 0 ELSE last - w.start + 1
      <4> HIDE DEF last
      <4>1. last \in Int
        BY <2>5 DEF last
      <4> QED BY <4>1, FS_Interval
    <3>2. (IF w.start > last THEN 0 ELSE last - w.start + 1) <= n
      BY <1>2
    <3> HIDE DEF last
    <3>3. Cardinality(w.start..last) <= n
      BY <3>1, <3>2
    <3> QED BY <3>1, <3>3 DEF last
  <2>7. IsFiniteSet(units) /\ Cardinality(units) <= Cardinality(w.start..(w.start + n - 1)) /\ Cardinality(units) \in Nat
    <3> DEFINE I == w.start..(w.start + n - 1)
    <3>1. IsFiniteSet(I) /\ units \in SUBSET I
      BY <2>2, <2>6
    <3> HIDE DEF I
    <3>2. IsFiniteSet(units) /\ Cardinality(units) <= Cardinality(I)
      BY <3>1, FS_Subset
    <3> QED BY <3>2, FS_CardinalityType DEF I
  <2>8. Cardinality(w.start..(w.start + n - 1)) \in Nat
    BY <2>6, FS_CardinalityType
  <2> QED BY <1>2, <2>2, <2>4, <2>6, <2>7, <2>8
<1>6. total.covered = Cardinality(units) /\ (units # {} => total.energy = f[n])
  <2>1. CASE times = {}
    <3>1. units = {}
      BY <2>1 DEF UnitsOf
    <3>2. Cardinality(units) = 0
      BY <3>1, FS_EmptySet
    <3> QED BY <2>1, <3>1, <3>2 DEF Nothing
  <2>2. CASE times # {}
    <3> DEFINE G == Summed(got, w, f, c)
    <3>1. \A g, b : (IF {t \in times : t < b} = {} THEN Nothing
                     ELSE Plus(g[Best({t \in times : t < b})], Piece(got, key, Best({t \in times : t < b}), b, w)))
                    = Added(got, key, w, g, b)
      BY DEF Added, Earlier
    <3>2. \A g : P(g) <=> g = [b \in times |-> Added(got, key, w, g, b)]
      BY <3>1
    <3>3. \A b \in times : G[b] = Added(got, key, w, G, b)
      BY <1>3, <1>4, SummedIsAdded
    <3>4. P(G)
      <4>1. G = [b \in times |-> G[b]]
        BY DEF Summed
      <4> HIDE DEF G, P
      <4>2. G = [b \in times |-> Added(got, key, w, G, b)]
        BY <3>3, <4>1
      <4> QED BY <3>2, <4>2
    <3>5. upTo = [b \in times |-> Added(got, key, w, upTo, b)]
      <4>1. P(upTo)
        <5> HIDE DEF P
        <5> QED BY <3>4
      <4> HIDE DEF P, upTo
      <4> QED BY <3>2, <4>1
    <3> HIDE DEF P, upTo
    <3>6. \A b \in times : upTo[b] = Added(got, key, w, upTo, b)
      BY <3>5
    <3>7. \A b \in times : upTo[b] = G[b]
      <4> HIDE DEF G
      <4> QED BY <1>2, <3>3, <3>6, SummedOneWay
    <3> DEFINE last == Best(times)
               p == Pos(w, last)
    <3>8. last \in times /\ last \in Int /\ \A t \in times : t <= last
      <4> HIDE DEF times
      <4> QED BY <1>2, <2>2, FiniteHasBest
    <3>9. p \in 0..n /\ n \in p..n
      BY <1>2, <3>8, PosIs
    <3>10. \A i \in (p + 1)..n : w.start + i - 1 \notin units
      <4> SUFFICES ASSUME NEW i \in (p + 1)..n, w.start + i - 1 \in units PROVE FALSE
        OBVIOUS
      <4>1. i \in 1..n /\ ~(i <= p)
        BY <1>2, <3>9
      <4>2. ~(w.start + i - 1 < last)
        BY <1>2, <3>8, <4>1, PosIs
      <4>3. PICK t \in times : t > w.start + i - 1
        BY DEF UnitsOf
      <4>4. t <= last /\ t \in Int
        BY <1>2, <3>8
      <4> DEFINE x == w.start + i - 1
      <4>5. x \in Int /\ ~(x < last) /\ t > x
        BY <1>2, <4>1, <4>2, <4>3
      <4> HIDE DEF x, last
      <4> QED BY <3>8, <4>4, <4>5
    <3>11. f[n] = f[p] /\ c[n] = c[p]
      <4> HIDE DEF p
      <4>1. NoUnits(got, key, w, p, n)
        BY <3>10 DEF NoUnits
      <4> QED BY <1>3, <1>4, <3>9, <4>1, NothingBetween
    <3>12. G[last] = [energy |-> f[p], covered |-> c[p]]
      BY <3>8 DEF Summed
    <3>13. total = G[last]
      BY <2>2, <3>7, <3>8
    <3> HIDE DEF G, last, p, total
    <3> QED BY <1>5, <3>11, <3>12, <3>13
  <2> QED BY <2>1, <2>2
<1>7. Cardinality(units) = 0 <=> units = {}
  <2> HIDE DEF units
  <2> QED BY <1>5, FS_EmptySet
<1> HIDE DEF total, units, n
<1>8. EnergyOf(got, key, w).covered = Cardinality(units) /\ EnergyOf(got, key, w).energy = IF units = {} THEN None ELSE f[n]
  BY <1>3
<1>9. /\ Integral(got, key, w).covered = Cardinality(units)
      /\ Integral(got, key, w).energy = IF units = {} THEN None ELSE f[n]
      /\ Integral(got, key, w).complete = (n > 0 /\ Integral(got, key, w).covered >= n)
  BY <1>1, <1>6, <1>7
<1> QED BY <1>5, <1>8, <1>9 DEF n, units

\* The readings of a range have lines between them through whole numbers.
LEMMA FeedIsReadable ==
    ASSUME World, NEW got, NEW w, NEW step, MeteredSamples(scraped, got, w, step), NEW key \in PowerKeys
    PROVE  Readable(got, key)
<1> DEFINE times == DOMAIN got
           All == {t * Second : t \in 0..MaxTime}
<1>1. \A u \in times : \E t \in 0..MaxTime :
        u = t * Second /\ t \in DOMAIN scraped /\ (got[u][key] # None => Metered(scraped, key, t, got[u][key]))
  BY DEF MeteredSamples, MeteredSample
<1>2. times \in SUBSET Int /\ IsFiniteSet(times)
  <2>1. IsFiniteSet(0..MaxTime)
    BY SecondIs, FS_Interval
  <2>2. [t \in 0..MaxTime |-> t * Second] \in Surjection(0..MaxTime, All)
    BY DEF Surjection
  <2>3. IsFiniteSet(All)
    <3> HIDE DEF All
    <3> QED BY <2>1, <2>2, FS_Surjection
  <2>4. times \in SUBSET All
    BY <1>1
  <2>5. IsFiniteSet(times)
    <3> HIDE DEF All, times
    <3> QED BY <2>3, <2>4, FS_Subset
  <2>6. \A u \in times : u \in Int
    <3> SUFFICES ASSUME NEW t \in 0..MaxTime PROVE t * Second \in Int
      BY <1>1
    <3> QED BY SecondIs
  <2> QED BY <2>5, <2>6
<1>3. ASSUME NEW a \in times, NEW b \in times, a < b, Counts(got, key, a, b)
      PROVE  \E slope \in Int : OnLine(got, key, a, b, slope)
  <2>1. PICK t \in 0..MaxTime : a = t * Second /\ Metered(scraped, key, t, got[a][key])
    BY <1>1, <1>3 DEF Counts
  <2>2. PICK u \in 0..MaxTime : b = u * Second /\ Metered(scraped, key, u, got[b][key])
    BY <1>1, <1>3 DEF Counts
  <2>3. PICK l \in Labels : l.key = key /\ got[a][key] = Value(l, t)
    BY <2>1 DEF Metered, MetersAt, World
  <2>4. PICK m \in Labels : m.key = key /\ got[b][key] = Value(m, u)
    BY <2>2 DEF Metered, MetersAt, World
  <2>5. t < u
    <3> SUFFICES ASSUME u <= t PROVE FALSE
      BY SecondIs
    <3>1. u * Second <= t * Second
      BY SecondIs
    <3>2. t * Second \in Int /\ u * Second \in Int
      BY SecondIs
    <3> DEFINE x == t * Second
               y == u * Second
    <3>3. x \in Int /\ y \in Int /\ y <= x /\ x < y
      BY <1>3, <2>1, <2>2, <3>1, <3>2
    <3> HIDE DEF x, y
    <3> QED BY <3>3
  <2> DEFINE climb == Value(m, u) - Value(l, t)
             d == (u - t) * Second
             slope == climb \div d
  <2>6. climb % d = 0
    <3>1. /\ l \in {x \in Labels : x.key \in PowerKeys} /\ m \in {x \in Labels : x.key \in PowerKeys}
          /\ l.key = m.key
      BY <2>3, <2>4
    <3> QED BY <2>5, <3>1, UnitAssumption
  <2>7. Value(m, u) \in Int /\ Value(l, t) \in Int
    BY PrometheusAssumption
  <2>8. climb \in Int /\ d \in Int /\ d > 0 /\ b - a = d
    <3>1. (u - t) * Second = u * Second - t * Second
      BY SecondIs
    <3>2. (u - t) * Second > 0
      BY <2>5, SecondIs
    <3> QED BY <2>1, <2>2, <2>7, <3>1, <3>2, SecondIs
  <2>9. got[b][key] - got[a][key] = climb /\ got[a][key] \in Int
    BY <2>3, <2>4, <2>7
  <2> HIDE DEF climb, d
  <2>10. slope \in Int /\ climb = slope * d
    BY <2>6, <2>8
  <2> HIDE DEF slope
  <2> QED BY <2>8, <2>9, <2>10 DEF OnLine
<1> QED BY <1>2, <1>3 DEF Readable

\* Nothing is readable, in the way of a range.
LEMMA NothingIsReadable == ASSUME NEW key PROVE Readable(NoSamples, key)
<1>1. DOMAIN NoSamples = {}
  BY DEF NoSamples
<1> QED BY <1>1, FS_EmptySet DEF Readable

\* The demonstration has a sample at either end of its window.
LEMMA DemoIs ==
    ASSUME NEW w, w.start \in Int, w.end \in Int, w.start <= w.end, NEW step, NEW key \in PowerKeys
    PROVE  /\ DOMAIN Demo(w, step) \in SUBSET (w.start..w.end)
           /\ w.start \in DOMAIN Demo(w, step) /\ w.end \in DOMAIN Demo(w, step)
           /\ \A u \in DOMAIN Demo(w, step) : Demo(w, step)[u][key] = 0
           /\ Readable(Demo(w, step), key)
<1> DEFINE D == {w.start, w.end} \cup {u \in w.start..w.end : u % step = 0}
           got == Demo(w, step)
<1>1. got = [u \in D |-> [k \in PowerKeys |-> 0]]
  BY DEF Demo
<1>2. D \in SUBSET (w.start..w.end) /\ w.start \in D /\ w.end \in D
  <2>1. w.start \in w.start..w.end /\ w.end \in w.start..w.end
    OBVIOUS
  <2> QED BY <2>1
<1> HIDE DEF D, got
<1>3. DOMAIN got = D /\ \A u \in D : got[u][key] = 0
  BY <1>1
<1>4. IsFiniteSet(D) /\ D \in SUBSET Int
  <2>1. IsFiniteSet(w.start..w.end)
    BY FS_Interval
  <2>2. w.start..w.end \subseteq Int
    OBVIOUS
  <2> QED BY <1>2, <2>1, <2>2, FS_Subset
<1>5. ASSUME NEW a \in D, NEW b \in D PROVE OnLine(got, key, a, b, 0)
  <2>1. a \in Int /\ b \in Int
    BY <1>4
  <2>2. 0 * (b - a) = 0
    BY <2>1
  <2> QED BY <1>3, <2>2 DEF OnLine
<1>6. Readable(got, key)
  <2>1. \A a, b \in D : \E slope \in Int : OnLine(got, key, a, b, slope)
    BY <1>5
  <2> QED BY <1>3, <1>4, <2>1 DEF Readable
<1> QED BY <1>2, <1>3, <1>6 DEF got

\* It covers all of its window.
LEMMA DemoCovers ==
    ASSUME NEW w, w.start \in Int, w.end \in Int, w.start <= w.end, NEW step, NEW key \in PowerKeys
    PROVE  Cardinality(UnitsOf(Demo(w, step), key, w)) = Span(w)
<1> DEFINE got == Demo(w, step)
           times == DOMAIN got
           I == w.start..(w.end - 1)
<1>1. /\ times \in SUBSET Int /\ IsFiniteSet(times) /\ w.start \in times /\ w.end \in times
      /\ \A u \in times : got[u][key] = 0
  BY DemoIs DEF Readable
<1>2. ASSUME NEW u \in I PROVE u \in UnitsOf(got, key, w)
  <2>1. u \in Int /\ w.start <= u /\ w.end > u
    OBVIOUS
  <2> HIDE DEF times
  <2>2. PICK a, b \in times : a <= u /\ u < b /\ \A t \in times : ~(a < t /\ t < b)
    BY <1>1, <2>1, Surrounded
  <2>3. BeforeOf(times, u) = a /\ AfterOf(times, u) = b
    BY <1>1, <2>1, <2>2, Neighbours
  <2>4. None \notin {got[BeforeOf(times, u)][key], got[AfterOf(times, u)][key]}
    BY <1>1, <2>2, <2>3, NoneAssumption
  <2> QED BY <1>1, <2>1, <2>4 DEF UnitsOf, times
<1>3. UnitsOf(got, key, w) = I
  <2>1. UnitsOf(got, key, w) \subseteq I
    BY DEF UnitsOf
  <2> QED BY <1>2, <2>1
<1>4. Cardinality(I) = Span(w)
  <2> DEFINE last == w.end - 1
  <2>1. last \in Int
    OBVIOUS
  <2>2. Cardinality(w.start..last) = IF w.start > last THEN 0 ELSE last - w.start + 1
    <3> HIDE DEF last
    <3> QED BY <2>1, FS_Interval
  <2> QED BY <2>2 DEF Span
<1> QED BY <1>3, <1>4

\* The columns keep every reading of the window.
LEMMA ColumnsKeepAll ==
    ASSUME NEW got, DOMAIN got \in SUBSET Int, NEW key, NEW w, w.start \in Int,
           \A u \in DOMAIN got : u > w.start - Second
    PROVE  UNION Range(Buckets(got, key, w)) =
                Present({got[u][key] : u \in {v \in DOMAIN got : v >= w.start}})
<1> DEFINE times == DOMAIN got
           width == BucketWidth(w)
           At(u) == BucketOf(u, w, width)
           columns == Buckets(got, key, w)
<1>1. width \in Nat /\ width >= Second
  <2>1. width \in Nat /\ width > 0 /\ width % Second = 0
    BY StepsAreWhole
  <2> HIDE DEF width
  <2>2. width = (width \div Second) * Second /\ width \div Second \in Int
    BY <2>1, SecondIs
  <2> DEFINE q == width \div Second
  <2>3. q \in Int /\ width = q * Second
    BY <2>2
  <2> HIDE DEF q
  <2>4. q > 0
    <3> SUFFICES ASSUME q <= 0 PROVE FALSE
      BY <2>3
    <3>1. q * Second <= 0
      BY <2>3, SecondIs
    <3> QED BY <2>1, <2>3, <3>1
  <2>5. q * Second >= Second
    BY <2>3, <2>4, SecondIs
  <2> QED BY <2>1, <2>3, <2>5
<1>2. ASSUME NEW u \in times PROVE At(u) = -1 <=> u < w.start
  <2> DEFINE x == u - w.start
             q == x \div width
  <2>1. u \in Int /\ u > w.start - Second
    OBVIOUS
  <2>2. At(u) = q /\ x \in Int /\ x > -Second /\ (x < 0 <=> u < w.start)
    BY <2>1, SecondIs DEF BucketOf
  <2> HIDE DEF width, x
  <2>3. q \in Int /\ q * width <= x /\ x < q * width + width
    BY <1>1, <2>2, SecondIs
  <2> HIDE DEF q, At
  <2>4. CASE x < 0
    <3>1. q < 0
      <4> SUFFICES ASSUME q >= 0 PROVE FALSE
        BY <2>3
      <4>1. q * width >= 0
        BY <1>1, <2>3
      <4> DEFINE qw == q * width
      <4>2. qw \in Int /\ qw <= x /\ qw >= 0
        BY <1>1, <2>3, <4>1
      <4> HIDE DEF qw
      <4> QED BY <2>2, <2>4, <4>2
    <3>2. q > -2
      <4> SUFFICES ASSUME q <= -2 PROVE FALSE
        BY <2>3
      <4>1. q * width <= -2 * width
        BY <1>1, <2>3
      <4> DEFINE qw == q * width
      <4>2. qw \in Int /\ qw <= -2 * width /\ x < qw + width
        BY <1>1, <2>3, <4>1
      <4> HIDE DEF qw
      <4> QED BY <1>1, <2>2, <4>2, SecondIs
    <3> QED BY <2>2, <2>3, <2>4, <3>1, <3>2
  <2>5. CASE x >= 0
    <3>1. q >= 0
      <4> SUFFICES ASSUME q < 0 PROVE FALSE
        BY <2>3
      <4>1. (q + 1) * width <= 0 /\ (q + 1) * width = q * width + width
        BY <1>1, <2>3
      <4> DEFINE qw == q * width
      <4>2. qw \in Int /\ qw + width <= 0 /\ x < qw + width
        BY <1>1, <2>3, <4>1
      <4> HIDE DEF qw
      <4> QED BY <1>1, <2>2, <2>5, <4>2
    <3> QED BY <2>2, <2>3, <2>5, <3>1
  <2> QED BY <2>2, <2>4, <2>5
<1>3. columns = [i \in {At(u) : u \in times} \ {-1} |-> Present({got[u][key] : u \in {v \in times : At(v) = i}})]
  BY DEF Buckets
<1> HIDE DEF At, width
<1>4. Range(columns) = {Present({got[u][key] : u \in {v \in times : At(v) = i}}) : i \in {At(u) : u \in times} \ {-1}}
  BY <1>3 DEF Range
<1> HIDE DEF columns
<1>5. \A u \in times : u >= w.start <=> At(u) # -1
  <2>1. \A u \in times : u \in Int
    OBVIOUS
  <2> QED BY <1>2, <2>1
<1>6. ASSUME NEW v \in UNION Range(columns)
      PROVE  v \in Present({got[u][key] : u \in {x \in times : x >= w.start}})
  <2>1. PICK i \in {At(u) : u \in times} \ {-1} : v \in Present({got[u][key] : u \in {x \in times : At(x) = i}})
    BY <1>4, <1>6
  <2> QED BY <1>5, <2>1 DEF Present
<1>7. ASSUME NEW v \in Present({got[u][key] : u \in {x \in times : x >= w.start}})
      PROVE  v \in UNION Range(columns)
  <2>1. PICK u \in times : u >= w.start /\ v = got[u][key] /\ v # None
    BY <1>7 DEF Present
  <2>2. At(u) \in {At(x) : x \in times} \ {-1} /\ v \in Present({got[y][key] : y \in {x \in times : At(x) = At(u)}})
    BY <1>5, <2>1 DEF Present
  <2> QED BY <1>4, <2>2
<1> QED BY <1>6, <1>7 DEF columns

\* What the invariant says of what is shown.
LEMMA EnergyIsAsMetered ==
    ASSUME SamplesInv, PowerInv
    PROVE  EnergyIsMeasured
<1>1. FeedIsMeasured
  BY FeedIsAsMetered
<1>2. Active.start \in Int /\ Active.end \in Int /\ Active.start <= Active.end
  BY ActiveOK DEF SamplesInv, World, PowerInv
<1>3. ASSUME NEW key \in PowerKeys
      PROVE  /\ Readable(ShownSamples, key)
             /\ \A u \in DOMAIN ShownSamples : u > Active.start - Second
             /\ Demonstrates => Cardinality(UnitsOf(ShownSamples, key, Active)) = Span(Active)
  <2>1. CASE PowerLive
    <3>1. ShownSamples = feed.samples /\ ~Demonstrates
      BY <2>1 DEF ShownSamples, PowerLive, Demonstrates
    <3>2. Readable(feed.samples, key)
      BY FeedIsReadable DEF SamplesInv, PowerInv, FeedOK, FeedOf
    <3>3. \A u \in DOMAIN feed.samples : u > Active.start - Second
      <4> SUFFICES ASSUME NEW u \in DOMAIN feed.samples PROVE u > Active.start - Second
        OBVIOUS
      <4>1. u \in (Active.start - Second + 1)..Active.end
        BY <1>1 DEF FeedIsMeasured
      <4> QED BY <1>2, <4>1, SecondIs
    <3> QED BY <3>1, <3>2, <3>3
  <2>2. CASE ~PowerLive /\ Demonstrates
    <3>1. ShownSamples = Demo(Active, SampleStep(Active))
      BY <2>2 DEF ShownSamples
    <3>2. \A u \in Active.start..Active.end : u > Active.start - Second
      BY <1>2, SecondIs
    <3> QED BY <1>2, <3>1, <3>2, DemoIs, DemoCovers
  <2>3. CASE ~PowerLive /\ ~Demonstrates
    <3>1. ShownSamples = NoSamples
      BY <2>3 DEF ShownSamples
    <3> QED BY <2>3, <3>1, NothingIsReadable DEF NoSamples
  <2> QED BY <2>1, <2>2, <2>3
<1>4. ASSUME NEW key \in PowerKeys
      PROVE  LET i == Integral(ShownSamples, key, Active)
                 e == EnergyOf(ShownSamples, key, Active)
                 columns == Buckets(ShownSamples, key, Active)
             IN  /\ i.energy = e.energy /\ i.covered = e.covered /\ i.covered <= Span(Active)
                 /\ Demonstrates => i.complete = (Span(Active) > 0)
                 /\ UNION Range(columns) =
                        Present({ShownSamples[u][key] : u \in {v \in DOMAIN ShownSamples : v >= Active.start}})
  <2> DEFINE got == ShownSamples
             i == Integral(got, key, Active)
             e == EnergyOf(got, key, Active)
  <2>1. Readable(got, key) /\ DOMAIN got \in SUBSET Int
    BY <1>3 DEF Readable
  <2>2. /\ i.energy = e.energy /\ i.covered = e.covered /\ i.covered \in Nat /\ i.covered <= Span(Active)
        /\ i.complete = (Span(Active) > 0 /\ i.covered >= Span(Active))
        /\ e.covered = Cardinality(UnitsOf(got, key, Active))
    BY <1>2, <2>1, IntegralIs
  <2>3. Demonstrates => i.complete = (Span(Active) > 0)
    <3>1. ASSUME Demonstrates PROVE i.covered = Span(Active)
      BY <1>3, <2>2, <3>1
    <3>2. Span(Active) \in Int
      BY <1>2 DEF Span
    <3>3. ASSUME i.covered = Span(Active) PROVE i.covered >= Span(Active)
      BY <3>2, <3>3
    <3> HIDE DEF i, e
    <3> QED BY <2>2, <3>1, <3>3
  <2>4. UNION Range(Buckets(got, key, Active)) =
            Present({got[u][key] : u \in {v \in DOMAIN got : v >= Active.start}})
    BY <1>2, <1>3, <2>1, ColumnsKeepAll
  <2> QED BY <2>2, <2>3, <2>4
<1> QED BY <1>1, <1>4 DEF EnergyIsMeasured

\* What the electricity page counts of each meter is, for any window, any scrapes, any
\* grid and any order of answers, the area under the lines between the samples that
\* were metered for that window, unit by unit: no piece is counted twice or left out at
\* the window's ends (integrateSeries), no column drops a reading (bucketizeSamples),
\* and none of it is of a window left behind.  Across a second without any sample it
\* counts on, as the code does.
THEOREM EnergyIsMeasuredAlways == Spec => []EnergyIsMeasured
BY PowerInvAlways, EnergyIsAsMetered, PTL

====
