---- MODULE Sensors ----
(***************************************************************************)
(* The engine's hardware readers (packages/engine/src/temps.ts, power.ts):   *)
(* one range query to Prometheus per kind of reading, each of which may       *)
(* fail, put together into samples.  A series is a record of its labels and   *)
(* its points, a function from the seconds it has a point at to the reading.  *)
(***************************************************************************)
EXTENDS Integers, SequencesExt

CONSTANTS
    None,
    GpuLimits,    \* the shutdown limit of each GPU sensor: TEMP_LIMITS
    WarmMargin,   \* WARM_MARGIN_C
    CpuSensors,   \* temp1 (Tctl) and temp3 (Tccd1)
    Scalars,      \* the queries answered by one number per card: fan, power, ...
    PowerKeys     \* cpu, gpu, machine

ASSUME SensorsAssumption ==
    /\ GpuLimits \in [DOMAIN GpuLimits -> Nat] /\ WarmMargin \in Nat
    /\ "gpuTemp" \notin Scalars /\ "cpuTemp" \notin Scalars

TempKeys == {"gpuTemp", "cpuTemp"} \cup Scalars

Best(S) == CHOOSE x \in S : \A y \in S : y <= x
Present(S) == S \ {None}

---------------------------------------------------------------------------
\* temps.ts.  when is a second of the history, or None: the last point there is.

Reading(series, when) ==
    IF when \in DOMAIN series.points THEN series.points[when]
    ELSE IF when # None \/ DOMAIN series.points = {} THEN None
    ELSE series.points[Best(DOMAIN series.points)]

LastOf(list, found) == IF found = {} THEN None ELSE list[Best(found)]

\* tempByCardAndSensor, tempMapAtTs: a later series of the same labels wins.
Degrees(part, card, sensor, when) ==
    LET series == LastOf(part, {i \in DOMAIN part : part[i].card = card /\ part[i].sensor = sensor})
    IN  IF series = None THEN None ELSE Reading(series, when)

\* scalarByCard, scalarByCardAtTs: the last of the card's series that has a reading.
Scalar(part, card, when) ==
    LET series == LastOf(part, {i \in DOMAIN part : part[i].card = card /\ Reading(part[i], when) # None})
    IN  IF series = None THEN None ELSE Reading(series, when)

GpuStatus(temps) ==
    LET Within(margin) == \E s \in DOMAIN GpuLimits : GpuLimits[s] - temps[s] <= margin
    IN  IF \E s \in DOMAIN GpuLimits : temps[s] = None THEN "missing"
        ELSE IF Within(-1) THEN "over" ELSE IF Within(WarmMargin) THEN "warm" ELSE "normal"

Gpu(parts, cards, card, when) ==
    LET temps == [s \in DOMAIN GpuLimits |-> Degrees(parts["gpuTemp"], card, s, when)]
    IN  [id |-> Cardinality({c \in cards : c < card}), card |-> card, status |-> GpuStatus(temps),
         temps |-> temps, scalars |-> [k \in Scalars |-> Scalar(parts[k], card, when)]]

\* buildGpusFromMaps: the cards the temperature query named; the id is the place by label.
Gpus(parts, when) ==
    LET cards == {s.card : s \in Range(parts["gpuTemp"])}
    IN  [c \in cards |-> Gpu(parts, cards, c, when)]

Cpu(parts, when) ==
    [s \in CpuSensors |-> Degrees(parts["cpuTemp"], None, s, when)]

Sample(parts, t, when) == [t |-> t, cpu |-> Cpu(parts, when), gpus |-> Gpus(parts, when)]

Timestamps(parts) == UNION {DOMAIN s.points : s \in UNION {Range(parts[k]) : k \in DOMAIN parts}}

\* aggregateSnapshot: 0 is the time of a sample with nothing in it.
Snapshot(parts) == Sample(parts, Best({0} \cup Timestamps(parts)), None)

\* aggregateAtTimestamp, at every second any query has a point.
History(parts) == [t \in Timestamps(parts) |-> Sample(parts, t, t)]

---------------------------------------------------------------------------
\* power.ts.  maps gives each query that succeeded its points.

UnionGrid(maps) == UNION {DOMAIN maps[k] : k \in DOMAIN maps}

\* fetchPowerRange, once a query succeeded: no point of a series is no reading.
PowerSamples(maps) ==
    [t \in UnionGrid(maps) |->
        [k \in PowerKeys |-> IF k \in DOMAIN maps /\ t \in DOMAIN maps[k] THEN maps[k][t] ELSE None]]

====
