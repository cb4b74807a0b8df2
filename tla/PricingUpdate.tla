---- MODULE PricingUpdate ----
(***************************************************************************)
(* How the two rate files and the prices of the sessions stay together:    *)
(* POST /pricing/update (runPricingUpdate in server.ts), the automatic     *)
(* Qwen refresh (startQwenPriceAutoRefresh), the store's refreshPricing    *)
(* and the dump that carries the pricing context it was written under.     *)
(*                                                                         *)
(* Both updaters wait for a publisher and then do the rest in one turn of  *)
(* the event loop.  POST waits twice, for Codex and for Qwen, and writes   *)
(* the Codex card between the two; other requests, the watcher and the     *)
(* dump timer run during a wait, and nothing runs during the turn but a    *)
(* crash, so the turn is cut at each file it writes.                       *)
(*                                                                         *)
(* Data abstraction.  What a rate file holds is the day it was fetched     *)
(* (its as_of); a session's prices are the two days its turns were priced  *)
(* under.  Turns and rates themselves are in other modules.                *)
(***************************************************************************)
EXTENDS Naturals

CONSTANTS
    Watched,      \* session files below the watch paths
    Imported,     \* session files the watcher does not see
    Posts,        \* POST /pricing/update requests that may be in progress at once
    None,         \* neither a day nor a pricing context
    MaxDays,      \* bound: the last day
    MaxDeletes,   \* bound: session files deleted by other programs
    MaxFailures,  \* bound: publishers unreachable, files unreadable or unwritable
    MaxCrashes    \* bound: restarts

ASSUME FilesAssumption == Watched \cap Imported = {}
ASSUME NoneAssumption == None \notin Nat /\ None \notin [codex : Nat, qwen : Nat]
ASSUME PricingBoundsAssumption ==
    MaxDays \in Nat /\ MaxDeletes \in Nat /\ MaxFailures \in Nat /\ MaxCrashes \in Nat

Files   == Watched \cup Imported
Context == [codex : Nat, qwen : Nat]

VARIABLES
    day,       \* today
    card,      \* config/rate-card.json
    prices,    \* config/api-prices.json
    present,   \* session files on disk
    sources,   \* file -> the context its sessions are priced under, or None
    dirty,     \* SessionStore.dumpDirty
    saved,     \* the store dump and its pricingContext
    up,        \* whether the engine runs
    post,      \* where each POST is
    undo,      \* what each POST would restore: codexPrevious, qwenPrevious
    auto,      \* where the automatic refresh is ("idle": running = false)
    autoUndo,  \* its previousContent
    deletes, failures, crashes,
    unmended,  \* history: a rollback could not write its file
    midway     \* history: a dump was written, or an update failed, between a
               \* POST's write of the card and its recalculation

rates    == <<day, card, prices>>
store    == <<sources, dirty, saved>>
requests == <<post, undo>>
tick     == <<auto, autoUndo>>
bounds   == <<deletes, failures, crashes>>
vars == <<rates, present, store, up, requests, tick, bounds, unmended, midway>>

\* pricingCacheContext()
Now == [codex |-> card, qwen |-> prices]

NoUndo == [codex |-> None, qwen |-> None]
NoDump == [ctx |-> None, src |-> [f \in Files |-> None]]
Listed == {f \in Files : sources[f] # None}

\* No updater is inside its turn.
Free == /\ \A r \in Posts : post[r] \in {"idle", "codex", "qwen"}
        /\ auto \in {"idle", "fetch"}

\* A POST waits for Qwen with the new card already written.
Window(r) == post[r] \in {"qwen", "recalc", "undoCodex", "undoQwen"} /\ undo[r].codex # None

Fails == failures < MaxFailures /\ failures' = failures + 1

Init ==
    /\ day = 0 /\ card = 0 /\ prices = 0
    /\ present = Files
    /\ sources = [f \in Files |-> None] /\ dirty = FALSE /\ saved = NoDump
    /\ up = FALSE
    /\ post = [r \in Posts |-> "idle"] /\ undo = [r \in Posts |-> NoUndo]
    /\ auto = "idle" /\ autoUndo = None
    /\ deletes = 0 /\ failures = 0 /\ crashes = 0
    /\ unmended = FALSE /\ midway = FALSE

NewDay ==
    /\ day < MaxDays
    /\ day' = day + 1
    /\ UNCHANGED <<card, prices, present, store, up, requests, tick, bounds, unmended, midway>>

---------------------------------------------------------------------------
\* refreshPricing: every listed file is read again under the current files;
\* one that cannot be read makes it throw before it has changed anything.
Recalculated ==
    /\ Listed \subseteq present
    /\ sources' = [f \in Files |-> IF f \in Listed THEN Now ELSE None]
    /\ dirty' = TRUE
    /\ UNCHANGED <<saved, failures>>

RecalculationThrows ==
    /\ \/ ~(Listed \subseteq present) /\ UNCHANGED failures
       \/ Listed # {} /\ Fails
    /\ UNCHANGED store

---------------------------------------------------------------------------
\* POST /pricing/update
PostDone(r) == post' = [post EXCEPT ![r] = "idle"] /\ undo' = [undo EXCEPT ![r] = NoUndo]

PostBegin(r) ==
    /\ up /\ Free /\ post[r] = "idle"
    /\ post' = [post EXCEPT ![r] = "codex"]
    /\ UNCHANGED <<rates, present, store, up, undo, tick, bounds, unmended, midway>>

\* updateRateCardFromOfficial after its await: the file is read only now.
CodexAnswers(r) ==
    /\ Free /\ post[r] = "codex"
    /\ card' = day
    /\ undo' = [undo EXCEPT ![r].codex = card]
    /\ post' = [post EXCEPT ![r] = "qwen"]
    /\ UNCHANGED <<day, prices, present, store, up, tick, bounds, unmended, midway>>

CodexFails(r) ==
    /\ Free /\ post[r] = "codex"
    /\ Fails
    /\ post' = [post EXCEPT ![r] = "qwen"]
    /\ UNCHANGED <<rates, present, store, up, undo, tick, deletes, crashes, unmended, midway>>

QwenAnswers(r) ==
    /\ Free /\ post[r] = "qwen"
    /\ prices' = day
    /\ undo' = [undo EXCEPT ![r].qwen = prices]
    /\ post' = [post EXCEPT ![r] = "recalc"]
    /\ UNCHANGED <<day, card, present, store, up, tick, bounds, unmended, midway>>

QwenFailsBroken(r) ==   \* one unreachable publisher ends the request
    /\ Free /\ post[r] = "qwen"
    /\ Fails
    /\ PostDone(r)
    /\ UNCHANGED <<rates, present, store, up, tick, deletes, crashes, unmended, midway>>

\* With neither publisher there is nothing to recalculate.
QwenFails(r) ==
    /\ Free /\ post[r] = "qwen"
    /\ Fails
    /\ post' = [post EXCEPT ![r] = IF undo[r].codex = None THEN "idle" ELSE "recalc"]
    /\ UNCHANGED <<rates, present, store, up, undo, tick, deletes, crashes, unmended, midway>>

PostRecalculates(r) ==
    /\ post[r] = "recalc"
    /\ Recalculated
    /\ PostDone(r)
    /\ UNCHANGED <<rates, present, up, tick, deletes, crashes, unmended, midway>>

PostThrows(r) ==
    /\ post[r] = "recalc"
    /\ RecalculationThrows
    /\ post' = [post EXCEPT ![r] = "undoCodex"]
    /\ midway' = (midway \/ Window(r))
    /\ UNCHANGED <<rates, present, up, undo, tick, deletes, crashes, unmended>>

\* restoreRateCard, then restoreApiPrices, each where there is something to restore.
UndoCodex(r) ==
    /\ post[r] = "undoCodex"
    /\ card' = IF undo[r].codex = None THEN card ELSE undo[r].codex
    /\ post' = [post EXCEPT ![r] = "undoQwen"]
    /\ UNCHANGED <<day, prices, present, store, up, undo, tick, bounds, unmended, midway>>

UndoQwen(r) ==
    /\ post[r] = "undoQwen"
    /\ prices' = IF undo[r].qwen = None THEN prices ELSE undo[r].qwen
    /\ PostDone(r)
    /\ UNCHANGED <<day, card, present, store, up, tick, bounds, unmended, midway>>

\* pricing_recalculation_rollback_failed: the first failure skips the second file.
UndoFails(r) ==
    /\ \/ post[r] = "undoCodex" /\ undo[r].codex # None
       \/ post[r] = "undoQwen" /\ undo[r].qwen # None
    /\ Fails
    /\ PostDone(r)
    /\ unmended' = TRUE
    /\ UNCHANGED <<rates, present, store, up, tick, deletes, crashes, midway>>

---------------------------------------------------------------------------
\* The automatic refresh: runTick and tick.
TickBeginBroken ==   \* stale only once a whole day is missing
    /\ up /\ Free /\ auto = "idle"
    /\ prices + 1 < day
    /\ auto' = "fetch"
    /\ UNCHANGED <<rates, present, store, up, requests, autoUndo, bounds, unmended, midway>>

TickBegin ==
    /\ up /\ Free /\ auto = "idle"
    /\ prices # day
    /\ auto' = "fetch"
    /\ UNCHANGED <<rates, present, store, up, requests, autoUndo, bounds, unmended, midway>>

TickAnswers ==
    /\ Free /\ auto = "fetch"
    /\ prices' = day
    /\ autoUndo' = prices
    /\ auto' = "recalc"
    /\ UNCHANGED <<day, card, present, store, up, requests, bounds, unmended, midway>>

TickFails ==
    /\ Free /\ auto = "fetch"
    /\ Fails
    /\ auto' = "idle"
    /\ UNCHANGED <<rates, present, store, up, requests, autoUndo, deletes, crashes, unmended, midway>>

TickRecalculates ==
    /\ auto = "recalc"
    /\ Recalculated
    /\ auto' = "dump" /\ autoUndo' = None
    /\ UNCHANGED <<rates, present, up, requests, deletes, crashes, unmended, midway>>

TickThrows ==
    /\ auto = "recalc"
    /\ RecalculationThrows
    /\ auto' = "undo"
    /\ UNCHANGED <<rates, present, up, requests, autoUndo, deletes, crashes, unmended, midway>>

TickUndo ==
    /\ auto = "undo"
    /\ prices' = autoUndo
    /\ auto' = "idle" /\ autoUndo' = None
    /\ UNCHANGED <<day, card, present, store, up, requests, bounds, unmended, midway>>

TickUndoFails ==
    /\ auto = "undo"
    /\ Fails
    /\ auto' = "idle" /\ autoUndo' = None
    /\ unmended' = TRUE
    /\ UNCHANGED <<rates, present, store, up, requests, deletes, crashes, midway>>

---------------------------------------------------------------------------
\* The rest of the engine.

\* dump(), from the debounce timer, the interval or the exit hook; or as the
\* automatic refresh's onUpdate.
WriteDump ==
    /\ saved' = [ctx |-> Now, src |-> sources]
    /\ dirty' = FALSE
    /\ midway' = (midway \/ \E r \in Posts : Window(r))
    /\ UNCHANGED <<rates, present, sources, up, requests, autoUndo, bounds, unmended>>

Dump == up /\ Free /\ dirty /\ WriteDump /\ UNCHANGED auto
TickDump == auto = "dump" /\ WriteDump /\ auto' = "idle"

\* A file another program has written is ingested and priced.
Ingest(f) ==
    /\ up /\ Free
    /\ f \in present
    /\ sources' = [sources EXCEPT ![f] = Now]
    /\ dirty' = TRUE
    /\ UNCHANGED <<rates, present, saved, up, requests, tick, bounds, unmended, midway>>

Delete(f) ==
    /\ f \in present /\ deletes < MaxDeletes
    /\ present' = present \ {f}
    /\ deletes' = deletes + 1
    /\ UNCHANGED <<rates, store, up, requests, tick, failures, crashes, unmended, midway>>

\* The watcher finds a watched file gone.
Remove(f) ==
    /\ up /\ Free
    /\ f \in Watched \ present /\ f \in Listed
    /\ sources' = [sources EXCEPT ![f] = None]
    /\ dirty' = TRUE
    /\ UNCHANGED <<rates, present, saved, up, requests, tick, bounds, unmended, midway>>

\* The process stops anywhere, inside a turn too.
Crash ==
    /\ up /\ crashes < MaxCrashes
    /\ crashes' = crashes + 1
    /\ up' = FALSE
    /\ sources' = [f \in Files |-> None] /\ dirty' = FALSE
    /\ post' = [r \in Posts |-> "idle"] /\ undo' = [r \in Posts |-> NoUndo]
    /\ auto' = "idle" /\ autoUndo' = None
    /\ UNCHANGED <<rates, present, saved, deletes, failures, unmended, midway>>

BootBroken(reused) ==   \* a dump is accepted whatever its pricing context
    /\ ~up
    /\ up' = TRUE
    /\ sources' = [f \in Files |-> IF f \notin present THEN None
                                   ELSE IF f \in reused /\ saved.src[f] # None THEN saved.src[f] ELSE Now]
    /\ dirty' = (sources' # saved.src)
    /\ UNCHANGED <<rates, present, saved, requests, tick, bounds, unmended, midway>>

\* Boot: a dump of another pricing context is deleted; a file the dump does not
\* describe as it is now (not in reused) is parsed and priced.
Boot(reused) ==
    LET kept == IF saved.ctx = Now THEN saved ELSE NoDump IN
    /\ ~up
    /\ up' = TRUE
    /\ saved' = kept
    /\ sources' = [f \in Files |-> IF f \notin present THEN None
                                   ELSE IF f \in reused /\ kept.src[f] # None THEN kept.src[f] ELSE Now]
    /\ dirty' = (sources' # kept.src)
    /\ UNCHANGED <<rates, present, requests, tick, bounds, unmended, midway>>

---------------------------------------------------------------------------
Post(r) == \/ PostBegin(r) \/ CodexAnswers(r) \/ CodexFails(r) \/ QwenAnswers(r) \/ QwenFails(r)
           \/ PostRecalculates(r) \/ PostThrows(r) \/ UndoCodex(r) \/ UndoQwen(r) \/ UndoFails(r)

Tick == \/ TickBegin \/ TickAnswers \/ TickFails
        \/ TickRecalculates \/ TickThrows \/ TickUndo \/ TickUndoFails \/ TickDump

Next == \/ NewDay \/ Dump \/ Crash \/ Tick
        \/ \E r \in Posts : Post(r)
        \/ \E f \in Files : Ingest(f) \/ Delete(f) \/ Remove(f)
        \/ \E reused \in SUBSET Files : Boot(reused)

\* A turn runs to its end, a publisher answers or the request times out
\* (AbortController), a stopped engine is started, and the hourly tick gets its
\* turn between other callbacks.  A POST owes nothing, and neither does the
\* watcher: a file deleted before it was observed is never dropped (watch.ts:167).
Turn == ~Free /\ (Tick \/ \E r \in Posts : Post(r))

Fairness ==
    /\ WF_vars(Turn)
    /\ SF_vars(TickBegin) /\ SF_vars(TickAnswers \/ TickFails)
    /\ WF_vars(\E reused \in SUBSET Files : Boot(reused))

Spec == Init /\ [][Next]_vars /\ Fairness

---------------------------------------------------------------------------
\* README, "then re-prices local sessions": whenever a callback other than an
\* updater's own turn runs, the listed sessions show the Qwen rates on file and
\* so does a dump that would be accepted, whatever was ingested during the
\* waits, rolled back, or lost in a crash.
QwenPricesCurrent ==
    Free /\ ~unmended =>
        /\ \A f \in Listed : sources[f].qwen = prices
        /\ saved.ctx = Now => \A f \in Files : saved.src[f] # None => saved.src[f].qwen = prices

\* The same for the Codex card while no POST has it written and not yet
\* recalculated, and none was dumped or rolled back in between.
CodexPricesSettled ==
    Free /\ ~unmended /\ ~midway /\ (\A r \in Posts : ~Window(r)) =>
        /\ \A f \in Listed : sources[f].codex = card
        /\ saved.ctx = Now => \A f \in Files : saved.src[f] # None => saved.src[f].codex = card

\* qwen-pricing.ts:431, "A stale card stays auditable; the next tick retries",
\* and README, "refreshes Qwen rates on startup and hourly whenever the card's
\* Qwen date is not today's date": the Qwen section is brought to today's date.
\* Only where each listed file is there, though: one that is gone and that nothing
\* drops (an import, or a log deleted before the watcher observed it) makes every
\* recalculation throw (store.ts:526) and every tick roll its rates back.
QwenKeepsUp == <>[](Listed \subseteq present) => <>[](prices = day)

====
