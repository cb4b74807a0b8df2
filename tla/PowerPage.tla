---- MODULE PowerPage ----
(***************************************************************************)
(* The electricity page (apps/web/src/HardwarePowerPage.tsx with the window, *)
(* grid and energy arithmetic of hardware-power.ts): it reads the samples of *)
(* the range chosen, and apart from them the last samples before now.  The   *)
(* built-in demonstration series stands in where nothing live is known.      *)
(* Energies are doubled, so that a trapezoid's is whole.                     *)
(***************************************************************************)
EXTENDS Prometheus

CONSTANTS
    QuickRanges,  \* the spans of POWER_RANGES, in units
    DefaultRange, \* the one a fresh page shows
    SampleSteps,  \* POWER_SAMPLE_STEPS, in units, ascending
    WideSteps,    \* what POWER_BUCKET_STEPS has beyond them
    MaxSamples,   \* MAX_POWER_SAMPLES
    MaxColumns,   \* MAX_POWER_COLUMNS
    InstantStep,  \* INSTANT_STEP_MS
    MaxSpan       \* 31 days

ASSUME PowerAssumption ==
    /\ QuickRanges \subseteq Nat \ {0} /\ DefaultRange \in QuickRanges
    /\ {SampleSteps, WideSteps} \subseteq Seq({s \in Nat \ {0} : s % Second = 0}) /\ SampleSteps # <<>>
    /\ {MaxSamples, MaxColumns, InstantStep, MaxSpan} \subseteq Nat \ {0}

\* Readings are counted in a unit so small that the line between two of a meter's
\* goes through whole numbers at whole times: the page computes with fractions.
ASSUME UnitAssumption ==
    \A l, m \in {l \in Labels : l.key \in PowerKeys} : \A t, u \in 0..MaxTime :
        l.key = m.key /\ t < u => (Value(m, u) - Value(l, t)) % ((u - t) * Second) = 0

\* What may be answered; a request that is not answered is none of it.
Meterings == UNION {[times -> [PowerKeys -> Int \cup {None}]] : times \in SUBSET {t * Second : t \in 0..MaxTime}}
PowerAnswers == [ok : BOOLEAN, connected : BOOLEAN, samples : Meterings]

ASSUME RequestAssumption == Idle \notin PowerAnswers

VARIABLES
    shown,     \* the now the app last rendered with (useNow)
    range,     \* mode: a quick range by its span, or (span None) from start to end
    feed,      \* [loading, connected, url, samples]
    instant,   \* instantSample, or None
    feedReq, instantReq  \* the requests that have not been aborted

power == <<range, feed, instant, feedReq, instantReq>>

---------------------------------------------------------------------------
\* Windows and grids

Quick(r) == [span |-> r, start |-> 0, end |-> 0]
Custom(start, end) == [span |-> None, start |-> start, end |-> end]

\* resolveQuickWindow, or the window entered
WindowOf(r, t) ==
    IF r.span = None THEN [start |-> r.start, end |-> r.end] ELSE [start |-> t - r.span, end |-> t]

Span(w) == w.end - w.start

\* pickStep: the first rung that is enough, else the last.
PickStep(ladder, least, parts) ==
    LET enough == {i \in DOMAIN ladder : ladder[i] >= least /\ ladder[i] * parts[2] >= parts[1]}
    IN  IF enough = {} THEN Last(ladder) ELSE ladder[CHOOSE i \in enough : \A j \in enough : i <= j]

\* sampleStepMs, chartBucketMs
SampleStep(w) == PickStep(SampleSteps, SampleSteps[1], <<Span(w), MaxSamples>>)
BucketWidth(w) == PickStep(SampleSteps \o WideSteps, SampleStep(w), <<Span(w), MaxColumns>>)

\* The engine refuses a range of no length or of more than 31 days.
ValidRange(w, step) == w.end > w.start /\ step > 0 /\ Span(w) <= MaxSpan

\* GET /power: the seconds of the window, at a step of at least one.
PowerGrid(w, step) == Grid(Sec(w.start), Sec(w.end), Best({1, (2 * step + Second) \div (2 * Second)}))

\* seriesToMap: of several meters the greatest; a reading below nought is none.
Watts(list) ==
    LET Read(t) == {s \in Range(list) : t \in DOMAIN s.points /\ s.points[t] >= 0}
    IN  [t \in {t \in UNION {DOMAIN s.points : s \in Range(list)} : Read(t) # {}} |->
            Best({s.points[t] : s \in Read(t)})]

PowerAnswer(w, step, failed) ==
    LET grid == PowerGrid(w, step)
        maps == [k \in PowerKeys \ failed |-> Watts(SeriesOf(k, grid))]
        samples == PowerSamples(maps)
    IN  IF PowerKeys \ failed = {}
        THEN [ok |-> TRUE, connected |-> FALSE, samples |-> NoSamples]
        ELSE [ok |-> TRUE, connected |-> TRUE,
              samples |-> [u \in {t * Second : t \in DOMAIN samples} |-> samples[Sec(u)]]]

---------------------------------------------------------------------------
\* integrateSeries

\* The reading interpolated at u between the samples at a and b.
Between(samples, key, a, b, u) ==
    samples[a][key] + ((samples[b][key] - samples[a][key]) * (u - a)) \div (b - a)

Counts(samples, key, a, b) == samples[a][key] # None /\ samples[b][key] # None

Clipped(a, b, w) == [left |-> Best({a, w.start}), right |-> -Best({-b, -w.end})]

Piece(samples, key, a, b, w) ==
    LET c == Clipped(a, b, w)
    IN  IF ~Counts(samples, key, a, b) \/ c.right <= c.left THEN [energy |-> 0, covered |-> 0]
        ELSE [energy  |-> (Between(samples, key, a, b, c.left) + Between(samples, key, a, b, c.right))
                              * (c.right - c.left),
              covered |-> c.right - c.left]

Plus(p, q) == [energy |-> p.energy + q.energy, covered |-> p.covered + q.covered]
Nothing == [energy |-> 0, covered |-> 0]

\* The samples in their order, each with the one before it.
Integral(samples, key, w) ==
    LET times == DOMAIN samples
        upTo[b \in times] ==
            LET earlier == {t \in times : t < b}
            IN  IF earlier = {} THEN Nothing
                ELSE Plus(upTo[Best(earlier)], Piece(samples, key, Best(earlier), b, w))
        total == IF times = {} THEN Nothing ELSE upTo[Best(times)]
    IN  [energy |-> IF total.covered = 0 THEN None ELSE total.energy,
         covered |-> total.covered,
         complete |-> Span(w) > 0 /\ total.covered >= Span(w)]

\* bucketizeSamples: the readings of each column of the chart.
BucketOf(u, w, width) == (u - w.start) \div width
Buckets(samples, key, w) ==
    LET width == BucketWidth(w)
    IN  [i \in {BucketOf(u, w, width) : u \in DOMAIN samples} \ {-1} |->
            Present({samples[u][key] : u \in {v \in DOMAIN samples : BucketOf(v, w, width) = i}})]

\* demoPowerAdapter.series: a sample at the window's ends and at each step
\* between; what it reads is left out, and that its meters have gaps of their own.
Demo(w, step) ==
    [u \in {w.start, w.end} \cup {u \in w.start..w.end : u % step = 0} |-> [k \in PowerKeys |-> 0]]

---------------------------------------------------------------------------
FirstFeed == [loading |-> TRUE, connected |-> FALSE, url |-> FALSE, samples |-> NoSamples]

PowerUnmounted ==
    /\ range = Quick(DefaultRange) /\ feed = FirstFeed /\ instant = None
    /\ feedReq = Idle /\ instantReq = Idle

PowerMount == feedReq' = Asked /\ instantReq' = Asked /\ UNCHANGED <<range, feed, instant>>

PowerUnmount ==
    /\ range' = Quick(DefaultRange) /\ feed' = FirstFeed /\ instant' = None
    /\ feedReq' = Idle /\ instantReq' = Idle

ResetBroken == feed' = [feed EXCEPT !.loading = TRUE]   \* the last window's samples stay

\* A new window: the samples of the last one go, what it asked for is aborted.
Reset == feed' = [feed EXCEPT !.loading = TRUE, !.connected = FALSE, !.samples = NoSamples]

Active == WindowOf(range, shown)

\* The feed effect runs when the window or its step changes, the instant one with now.
WindowEffect ==
    IF Active' = Active THEN UNCHANGED <<feed, feedReq>> ELSE Reset /\ feedReq' = Asked

\* The app's clock ticks.
Render ==
    /\ shown # now
    /\ shown' = now
    /\ instantReq' = Asked
    /\ UNCHANGED <<range, instant>>
    /\ WindowEffect

\* switchRange to a quick range
Choose(r) ==
    /\ range' = Quick(r)
    /\ UNCHANGED <<shown, instant, instantReq>>
    /\ WindowEffect

\* switchRange to a range of one's own: the window there was, from the first the
\* page has on and ending now at the latest.
ChooseCustom ==
    /\ range' = Custom(Best({0, Active.start}), -Best({-Active.end, -shown}))
    /\ UNCHANGED <<shown, instant, instantReq>>
    /\ WindowEffect

\* applyCustom, for what validateCustomRange accepts.
Apply(w) ==
    /\ w.start < w.end /\ w.end <= shown /\ Span(w) <= MaxSpan
    /\ range' = Custom(w.start, w.end)
    /\ UNCHANGED <<shown, instant, instantReq>>
    /\ WindowEffect

InstantWindow == [start |-> shown - 3 * InstantStep, end |-> shown]

PowerEngine ==
    /\ \/ \E failed \in SUBSET PowerKeys :
            /\ Fails(PowerKeys, failed)
            /\ \/ /\ feedReq = Asked /\ ValidRange(Active, SampleStep(Active))
                  /\ feedReq' = PowerAnswer(Active, SampleStep(Active), failed)
                  /\ UNCHANGED instantReq
               \/ /\ instantReq = Asked
                  /\ instantReq' = PowerAnswer(InstantWindow, InstantStep, failed)
                  /\ UNCHANGED feedReq
       \/ /\ feedReq = Asked
          /\ IF ValidRange(Active, SampleStep(Active)) THEN Loses ELSE UNCHANGED faults
          /\ feedReq' = Lost /\ UNCHANGED instantReq
       \/ Loses /\ instantReq = Asked /\ instantReq' = Lost /\ UNCHANGED feedReq
    /\ UNCHANGED <<shown, range, feed, instant>>

FeedArrives ==
    /\ Answered(feedReq)
    /\ feedReq' = Idle
    /\ feed' = [loading |-> FALSE, url |-> feedReq.ok, samples |-> feedReq.samples,
                connected |-> feedReq.connected /\ Cardinality(DOMAIN feedReq.samples) >= 2]
    /\ UNCHANGED <<shown, range, instant, instantReq>>

LastSample(got) ==
    LET u == Best(DOMAIN got) IN [t |-> u, live |-> TRUE, at |-> got[u]]

InstantArrives ==
    /\ Answered(instantReq)
    /\ instantReq' = Idle
    /\ instant' = IF instantReq.connected /\ instantReq.samples # NoSamples
                  THEN LastSample(instantReq.samples) ELSE None
    /\ UNCHANGED <<shown, range, feed, feedReq>>

---------------------------------------------------------------------------
\* What the page shows: live samples, none while a known source is read again,
\* or the demonstration.
PowerLive == feed.connected
Demonstrates == ~feed.connected /\ ~(feed.loading /\ feed.url)
ShownSamples ==
    IF PowerLive THEN feed.samples
    ELSE IF Demonstrates THEN Demo(Active, SampleStep(Active)) ELSE NoSamples

\* The end of the range stands in for now if the range ends now.
Borrows == feed.samples # NoSamples /\ Active.end >= shown - SampleStep(Active)

CurrentPower ==
    IF instant # None THEN instant
    ELSE IF ~PowerLive THEN [t |-> shown, live |-> FALSE, at |-> [k \in PowerKeys |-> "demo"]]
    ELSE IF Borrows THEN LastSample(feed.samples)
    ELSE [t |-> shown, live |-> TRUE, at |-> [k \in PowerKeys |-> None]]

====
