---- MODULE Costs ----
(***************************************************************************)
(* What a request costs and how costs add up (packages/engine/src/types.ts,  *)
(* rate-card.ts, native-pricing.ts).  None is an amount nobody knows.  Rates  *)
(* are per token; amounts are counted in quarters, so that a cache write at   *)
(* 1.25 times the input rate is whole.                                        *)
(***************************************************************************)
EXTENDS Integers, SequencesExt

CONSTANTS
    None,
    Card,            \* the dated card: model -> [input, cached, output, fast], fast may be None
    FastMultiplier,  \* of a model on the card that gives none of its own
    UsdPerCredit,
    ApiPrices,       \* model -> [input, cached, output, fast, write]; fast and write may be None
    Aliases,         \* a relay's model -> the model of ApiPrices it is declared to be
    ApiProviders,    \* API_RATE_PROVIDERS
    ClaudeModels     \* the models whose name starts with claude-

ASSUME CostsAssumption ==
    /\ {FastMultiplier, UsdPerCredit} \subseteq Nat
    /\ \A m \in DOMAIN Aliases : Aliases[m] \in DOMAIN ApiPrices

---------------------------------------------------------------------------
Zero == [raw |-> 0, credits |-> 0, usd |-> 0, unmeasured |-> 0]            \* emptyCost
Unknown == [raw |-> 0, credits |-> None, usd |-> None, unmeasured |-> 0]   \* emptyMaybeCost

\* moneyFields: a cost that is zero throughout knows nothing.
Known(c) == IF c.raw = 0 /\ c.credits = 0 /\ c.usd = 0 THEN [c EXCEPT !.credits = None, !.usd = None] ELSE c

\* Known money is kept, what is not known is skipped.
Plus(a, b) == IF a = None THEN b ELSE IF b = None THEN a ELSE a + b

AddKnownCost(a, b) ==
    [raw |-> a.raw + b.raw, unmeasured |-> a.unmeasured + b.unmeasured,
     credits |-> Plus(Known(a).credits, Known(b).credits),
     usd |-> Plus(Known(a).usd, Known(b).usd)]

Normalized(c) == IF c.raw = 0 /\ c.unmeasured = 0 /\ c.usd \in {None, 0} THEN Zero ELSE c

TotalOf(costs) == FoldLeft(AddKnownCost, Unknown, costs)

\* sumTurns
SumTurns(turns) == Normalized(TotalOf([i \in DOMAIN turns |-> turns[i].cost]))

Unpriced(turn) == turn.cost.credits = None /\ turn.cost.usd = None
UnpricedRaw(turn) == IF Unpriced(turn) THEN turn.cost.raw ELSE 0

---------------------------------------------------------------------------
\* usage is [input, cached, write, output], the cached and written part of the input.

\* priceUsage: only a model the card names has a price.
PriceUsage(usage, model, fast) ==
    LET rates == Card[model]
        times == IF ~fast THEN 1 ELSE IF rates.fast = None THEN FastMultiplier ELSE rates.fast
        credits == 4 * times * ((usage.input - usage.cached) * rates.input
                                    + usage.cached * rates.cached + usage.output * rates.output)
        raw == usage.input + usage.output
    IN  IF model \notin DOMAIN Card THEN [Unknown EXCEPT !.raw = raw]
        ELSE [raw |-> raw, credits |-> credits, usd |-> credits * UsdPerCredit, unmeasured |-> 0]

\* apiRateSource
Canonical(model) == IF model \in DOMAIN Aliases /\ model \notin DOMAIN ApiPrices THEN Aliases[model] ELSE model

\* An API's price of a request: its cache writes, those for an hour among them, have rates of their own.
Estimate(usage, rates, ratio, times, hour) ==
    LET long == IF hour < usage.write THEN hour ELSE usage.write
    IN  times * (4 * ((usage.input - usage.cached - usage.write) * rates.input
                          + usage.cached * rates.cached + usage.output * rates.output
                          + long * rates.input * 2)
                 + (usage.write - long) * rates.input * ratio)

\* nativeCost of a request r: the spend it logged, unless that is 0 for a model
\* with a published rate; else the rate's, for a first-party provider or an alias.
NativeCost(r) ==
    LET known == Canonical(r.model) \in DOMAIN ApiPrices
        rates == ApiPrices[Canonical(r.model)]
        logged == IF r.recorded = 0 /\ known THEN None ELSE r.recorded
        priced == \/ r.provider \in ApiProviders \cup {None}
                  \/ Canonical(r.model) # r.model
        ratio == IF rates.write # None THEN rates.write ELSE IF r.model \in ClaudeModels THEN 5 ELSE 4
        times == IF r.fast THEN rates.fast ELSE 1
        estimated == priced /\ r.usage # None /\ known /\ (~r.fast \/ rates.fast # None)
    IN  [raw |-> IF r.usage = None THEN 0 ELSE r.usage.input + r.usage.output,
         credits |-> None,
         usd |-> IF logged # None THEN logged
                 ELSE IF estimated THEN Estimate(r.usage, rates, ratio, times, r.hour) ELSE None,
         unmeasured |-> IF r.usage = None THEN 1 ELSE 0]

====
