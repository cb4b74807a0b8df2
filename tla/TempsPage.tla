---- MODULE TempsPage ----
(***************************************************************************)
(* The temperature page (apps/web/src/SystemTemperaturePage.tsx): it reads   *)
(* the history once, polls the latest sample while the tab is visible, and   *)
(* may read the history again.  A request is idle, asked, or an answer that  *)
(* has not reached the page yet; leaving the page aborts them all.           *)
(***************************************************************************)
EXTENDS Prometheus

CONSTANTS
    SnapWindow,  \* seconds a snapshot looks back: SNAPSHOT_WINDOW_SEC
    HistWindow,  \* seconds of history asked for: HISTORY_SECONDS
    HistStep,    \* historyStepSec of them
    Stale        \* seconds after which a sample is stale

ASSUME TempsAssumption == {SnapWindow, HistWindow, HistStep, Stale} \subseteq Nat \ {0}

Cards == {l.card : l \in Labels}
Readings == Int \cup {None}
GpuReadings ==
    [id : Nat, card : Cards, status : {"missing", "over", "warm", "normal"},
     temps : [DOMAIN GpuLimits -> Readings], scalars : [Scalars -> Readings]]
Samples ==
    [t : Int, cpu : [CpuSensors -> Readings], gpus : UNION {[C -> GpuReadings] : C \in SUBSET Cards}]

ASSUME NoneAssumption == None \notin Int \cup Samples   \* null is neither a number nor a sample

VARIABLES
    samples,      \* the charted samples, by second
    latest,       \* the sample the cards show, or None
    link,         \* unknown, up, down
    historySettled, pollSettled,
    pollOk,       \* how the last poll ended, None before it has
    retries,      \* historyRetry
    hist, poll, retry,  \* the requests
    visible       \* document.visibilityState

page == <<samples, latest, link, historySettled, pollSettled, pollOk, retries>>
requests == <<hist, poll, retry>>

\* GET /temps and /temps/history: connected unless every query failed.
Connected(failed) == TempKeys \ failed # {}
AnswerOf(failed, answered) == IF Connected(failed) THEN answered ELSE NoSamples

PartsOf(failed, start, step) ==
    [k \in TempKeys |-> IF k \in failed THEN <<>> ELSE SeriesOf(k, Grid(start, Sec(now), step))]

\* fetchTempSnapshot asks at a grid of 15 s over 90 s, fetchTempHistory at one of historyStepSec.
SnapshotAnswer(failed) ==
    LET sample == Snapshot(PartsOf(failed, Sec(now) - SnapWindow, 1))
    IN  [ok |-> TRUE, connected |-> Connected(failed),
         samples |-> AnswerOf(failed, [t \in {sample.t} |-> sample])]

HistoryAnswer(failed) ==
    [ok |-> TRUE, connected |-> Connected(failed),
     samples |-> AnswerOf(failed, History(PartsOf(failed, Sec(now) - HistWindow, HistStep)))]

---------------------------------------------------------------------------
\* The pure parts (hardware-temps.ts)

MergedBroken(base, incoming) ==   \* the sample there is wins
    [t \in DOMAIN base \cup DOMAIN incoming |-> IF t \in DOMAIN base THEN base[t] ELSE incoming[t]]

\* mergeTempSamples: the incoming sample of a second wins.
Merged(base, incoming) ==
    [t \in DOMAIN base \cup DOMAIN incoming |-> IF t \in DOMAIN incoming THEN incoming[t] ELSE base[t]]

IsStale(t) == now - t * Second > Stale * Second

Newest(got) == got[Best(DOMAIN got)]

Newer(sample, strictly) ==
    IF latest = None \/ sample.t > latest.t \/ (~strictly /\ sample.t = latest.t) THEN sample ELSE latest

---------------------------------------------------------------------------
Unmounted ==
    /\ samples = NoSamples /\ latest = None /\ link = "unknown"
    /\ historySettled = FALSE /\ pollSettled = FALSE /\ pollOk = None /\ retries = 0
    /\ hist = Idle /\ poll = Idle /\ retry = Idle

\* The page is put on screen: the history is asked for, and a poll if visible.
Mount ==
    /\ hist' = Asked /\ retry' = Idle
    /\ poll' = IF visible THEN Asked ELSE Idle
    /\ UNCHANGED page

\* Both effects clean up: nothing that was asked for may change the page any more.
Unmount ==
    /\ samples' = NoSamples /\ latest' = None /\ link' = "unknown"
    /\ historySettled' = FALSE /\ pollSettled' = FALSE /\ pollOk' = None /\ retries' = 0
    /\ hist' = Idle /\ poll' = Idle /\ retry' = Idle

\* The engine answers a request from what Prometheus holds, or the answer is lost
\* (timeout, connection, engine down).
Engine ==
    \/ \E failed \in SUBSET TempKeys :
        /\ Fails(TempKeys, failed)
        /\ \/ hist = Asked /\ hist' = HistoryAnswer(failed) /\ UNCHANGED <<poll, retry>>
           \/ poll = Asked /\ poll' = SnapshotAnswer(failed) /\ UNCHANGED <<hist, retry>>
           \/ retry = Asked /\ retry' = HistoryAnswer(failed) /\ UNCHANGED <<hist, poll>>
    \/ /\ Loses
       /\ \/ hist = Asked /\ hist' = Lost /\ UNCHANGED <<poll, retry>>
          \/ poll = Asked /\ poll' = Lost /\ UNCHANGED <<hist, retry>>
          \/ retry = Asked /\ retry' = Lost /\ UNCHANGED <<hist, poll>>

\* The effect that reads the history again runs when one of its inputs changed,
\* and first cancels what its last run had asked for.
RetryEffect ==
    LET Inputs == <<link, historySettled, Cardinality(DOMAIN samples)>>
        due == link' = "up" /\ historySettled' /\ samples' = NoSamples /\ retries = 0
    IN  IF Inputs' = Inputs THEN UNCHANGED <<retry, retries>>
        ELSE /\ retry' = IF due THEN Asked ELSE Idle
             /\ retries' = IF due THEN 1 ELSE retries

\* What the last poll said of the link stands against what the history says.
LinkAfterHistoryBroken(feed) == IF feed.connected THEN "up" ELSE "down"

LinkAfterHistory(feed) ==
    IF feed.connected /\ pollOk # FALSE THEN "up"
    ELSE IF ~feed.connected /\ pollOk # TRUE THEN "down" ELSE link

\* getTempsHistory settles.
HistoryArrives ==
    /\ Answered(hist)
    /\ hist' = Idle
    /\ samples' = Merged(hist.samples, samples)
    /\ latest' = IF hist.samples = NoSamples THEN latest ELSE Newer(Newest(hist.samples), TRUE)
    /\ link' = LinkAfterHistory(hist)
    /\ historySettled' = TRUE
    /\ UNCHANGED <<pollSettled, pollOk, poll, visible>>
    /\ RetryEffect

\* The two-second timer, and the tab becoming visible: only one poll at a time.
Poll ==
    /\ poll = Idle /\ visible
    /\ poll' = Asked
    /\ UNCHANGED <<page, hist, retry, visible>>

ReleasedBroken(r) == IF r.ok THEN Idle ELSE r   \* a read that failed leaves busy set

\* Whatever came of it, the next poll may go.
Released(r) == Idle

\* getTemps settles.
PollArrives ==
    /\ Answered(poll)
    /\ poll' = Released(poll)
    /\ pollOk' = poll.connected
    /\ samples' = Merged(samples, poll.samples)
    /\ latest' = IF poll.connected THEN Newer(Newest(poll.samples), FALSE) ELSE latest
    /\ link' = IF poll.connected THEN "up" ELSE "down"
    /\ pollSettled' = TRUE
    /\ UNCHANGED <<historySettled, hist, visible>>
    /\ RetryEffect

RetryArrives ==
    /\ Answered(retry)
    /\ samples' = Merged(retry.samples, samples)
    /\ UNCHANGED <<latest, link, historySettled, pollSettled, pollOk, hist, poll, visible>>
    /\ IF samples' # samples THEN RetryEffect ELSE retry' = Idle /\ UNCHANGED retries

\* visibilitychange: showing the tab polls at once unless a poll is under way.
Visibility ==
    /\ visible' = ~visible
    /\ poll' = IF visible' /\ poll = Idle THEN Asked ELSE poll
    /\ UNCHANGED <<page, hist, retry>>

---------------------------------------------------------------------------
\* What the page says of itself.
Live == latest # None /\ link # "down" /\ ~IsStale(latest.t)
Offline == latest = None /\ historySettled /\ pollSettled

====
