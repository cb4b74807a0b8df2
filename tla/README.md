# Token Analyser in TLA+

Token Analyser watches the session logs that coding agents (Codex, Claude Code, Cursor, pi, DSH) leave on disk,
computes token and cost figures for each session, and shows them in a dashboard. These modules model the parts of
its engine (`src/packages/engine/src`) and dashboard (`src/apps/web/src`) where order, failure and concurrency decide
whether the figures are right. TLC checks them on small instances; the TLA+ proof system proves some of the results
for every instance.

## 1. Inventory

| Part | Code | State | Operations | What makes it correct |
|---|---|---|---|---|
| Session store | `store.ts` | sessions by id, toggles, file fingerprints, dirty flag | ingest, refresh, pricing pass, live re-read, remove, patch, dump, load | a fingerprint stands for exactly the sessions shown; Cursor's database wins over its transcripts; toggles survive; a clean store is a saved store |
| Store dump | `store-dump.ts`, `store-db.ts` | SQLite tables, pricing context | write in one transaction, read, discard | a restart from it equals a fresh read |
| Boot and server | `server.ts` | deferred files, SSE clients, imports directory | boot sequence, REST handlers, change events | every path into the store reports and leaves it consistent |
| Watcher | `watch.ts` | debounce timers, observed signatures | event, timer, scan, remove | the store converges to the disk |
| Prices | `pricing-update.ts`, `qwen-pricing.ts`, `rate-card.ts`, `native-pricing.ts` | two rate files | POST update, automatic refresh, rollback | sessions are priced under the rates on file |
| Live reader | `ingest.ts`, `parse-jsonl.ts`, `cache.ts`, `zstd-jsonl.ts` | offset, rest and events of each live file | append read, full read, cache | an append read gives what a full read would |
| Ledger | `ledger.ts` | baselines, open tools, turns | consume, snapshot | tokens counted once, in the right turn |
| Tree, waste, overview | `tree.ts`, `waste.ts`, `classify.ts`, `overview.ts`, `performance.ts`, `snapshot.ts` | none | pure | parts add up to the whole |
| Adapters | `detect.ts`, `session-adapters.ts`, `cursor-store.ts`, `exec-command.ts` | none | pure translation of log formats | |
| Dashboard | `App.tsx`, `api.ts`, `session-navigation.ts`, views | list, detail, overview, reads in flight, selection | event, poll, import, select, price update | shows the selected scope, and the latest state once quiet |
| pi extension | `integrations/pi/request-timing.ts` | the attempt under way, the request to be written | hooks of the agent | a measurement is of the attempt that made its message |
| Hardware readers | `power.ts`, `temps.ts` | none | range queries to Prometheus, put together into samples | a reading is one its own sensor gave |
| Hardware pages | `SystemTemperaturePage.tsx`, `HardwarePowerPage.tsx`, `hardware-temps.ts`, `hardware-power.ts` | samples, link, window, feed, requests in flight | history, poll, second history; range and instant reads | what is shown was measured when and where it says; energy is of the window shown |

The engine is one JavaScript process: between two awaits nothing else of it runs. What does run at any moment is
other programs writing and deleting the files it reads, and the process being stopped. So the interleavings that
matter are: a write between a read and the stat that fingerprints it; the order of store operations over many turns of
the event loop; the awaits of the two publishers during a price update; and restarts anywhere. In the dashboard it is
the order in which answers to overlapping requests arrive. The hardware pages add a collector that misses scrapes and
queries that fail one by one; pi adds retries, stopped turns and sessions that fork.

The hazards, each with its line and the properties that cover it, are in `PROJECT.json`.

## 2. Plan

1. `SessionStore` (core), with boot, dump, crash. *Done; all its invariants and action properties proved.*
2. `Watcher`, which extends `SessionStore` with the events and timers that drive it; convergence. *Done; shown to
   implement `SessionStore`, its invariant proved.*
3. `PricingUpdate`, the two rate files against the sessions and the dump. *Done, its invariants proved.*
4. `Reads` and `Dashboard`, the coalesced reads, polling, imports, price updates and selection in the browser over an
   abstract engine; `WasteToggles`, which extends it with optimistic toggles. *Done, but for the overview;
   all invariants and the action property proved.*
5. `LiveRead`: the incremental reader refines `FullRead`, a read without memory. *Done; the refinement and the
   invariants proved.*
6. `Ledger`: the builder of turns against the log's writer. *Done, its invariants proved.*
7. `Costs`, `Turns`, `Timing`, `SessionLog` and over them `SessionSources`: what is known of each session from its own
   log. *Done, its invariants proved.* `SessionTree` and `Overview`, composed with it by `Report`: what is derived from the
   sessions together. *Done, but for the context profile; walks trees, which the prover does not take.*
8. `PiTiming`, and `PiLog` over it: the pi extension and what the engine reads of its sessions. *Done, its invariants
   proved.*
9. `Prometheus`, `Sensors`, `TempsPage`, `PowerPage`, composed by `Hardware`. *Done; its invariants proved.*
10. The overview's reads in the dashboard, and the adapters of Claude, Cursor and DSH.

## 3. The modules

### SessionStore

The catalogue and everything that writes it, from an empty or dumped start to a running engine.

*Data.* A file's content is the number of the write that produced it and the session ids it holds; a `.jsonl` holds
one of those it may ever name (`MayName`: a codex log is "unknown" until its `session_meta` arrives,
`snapshot.ts:46`), a `state.vscdb` any number. So any re-read may find a transcript renamed. A fingerprint is that
number, so the comparison of inode, size and times in `fingerprintsMatch` never takes two writes for one (a rewrite
within the clock's resolution is a hazard left to `LiveRead`). A parsed session is the file and the number parsed;
turns, prices and the parent tree are left to other modules. A toggle map is absent, the default, or set by the user.
`MayHold` says which sessions a database may come to hold; `OnlyIn` are those that a single one may, about which
`DbSessionsListed` is stated: with two databases that hold the same session the code shows either.

*State.* `sources`, `toggles`, `fps`, `dirty` are the fields of the class; `saved` is the dump; `op`, `cur`, `got`,
`todo`, `scope`, `nsrc`, `ntog`, `nfps`, `nmut` are the local variables of the operation in progress; `stage` is the
position of `main`; `heavy` the files it defers.

*Actions.* Every operation is cut where it reads the file system twice: `ReadFile` up to and including the parse,
`IngestCommit` from there with the second stat, and the same for `RefreshRead`/`RefreshKeep`,
`PricingRead`/`PricingKeep`, `ListRead`/`ListCommit`. Between them `Write` and `Delete` may run, and `Crash`. The
failure of each read or stat is an action of its own (`RefreshStatFails`, `RefreshReadFails`, `RefreshRestatFails`,
`IngestThrows`, `PricingThrows`). `LoadDump`, the light and heavy refreshes, the imports (newest first) and `Listen`
follow `main`; `DeferredNext` is `refreshNext`. `ListCommit(old)` is `refreshLiveFlags`: where the transcript names
another session by now, the one listed as `old` moves there with its toggles, over whatever is listed under that id
(`store.ts:361-369`).

*What is excused.* The code cannot notice a write between its read and its second stat. The history variable `raced`
records that this happened, and the properties about fingerprints are stated while it has not. They still have to hold
through everything else, which is what the mutants show. Two more history variables record what a live re-read does
without the store's other rules: `moved` has the ids it moved a session from or to since the last dump, for it
schedules none; `usurped` those it took from a database, for it does not ask who is listed under the new id.
`CleanDumpIsComplete` and `DbSessionsListed` leave out these ids and no others, and `Renames` is the one step in which
`DbPrecedence` and `UserTogglesKept` let a session or its toggles be taken over.

### Watcher

Extends the store with `watch.ts`: file system events, debounce timers, the startup scan and the repeating scan. In a
running engine `startServer` has replaced `store.ingestPath` by a wrapper that catches errors, so `Remember` runs
after a failed ingest too. `periodic` is chosen at the start: with a recursive watcher there is no repeating scan and
no event is lost; without one, events may be lost and the scan repeats. During boot nothing watches. Convergence
(`Fresh`) is stated for sessions that a single file may hold (`Sole`), for the same reason as in the store.

*Fairness.* The event loop completes an operation it has begun (weak fairness of the steps of an operation, of the
start and of `Remember`). A timer or callback that is due may be postponed by requests, which disable it and enable it
again, so each callback has strong fairness. Requests, dumps, and the writes of other programs have none: convergence
is about programs that stop writing. The file watched may come to name another session.

### PricingUpdate

The two rate files, POST `/pricing/update` (two awaits, the card written between them), the hourly refresh of Qwen
(one await), `refreshPricing`, dumps with their pricing context, crashes and boots. A rate file's content is the day
it was fetched, because both updaters write `as_of` and the Qwen section is stale when that is not today. A session's
prices are the two days it was priced under. The turn after the last await is cut at every file it writes, so a crash
may fall between two of them; other callbacks may not.

*Fairness.* A turn ends; a publisher answers or the request is aborted by its timer; a stopped engine is started
again; the tick gets its turn. A POST is never obliged to progress, and neither is the watcher to drop a file that is
gone: one deleted before it was observed (`watch.ts:167`), or an import, stays listed. Then every recalculation throws
(`store.ts:526`) and every tick rolls its rates back, so `QwenKeepsUp` is about runs in which each listed file is
there from some time on. Failures are bounded (`MaxFailures`): a publisher that is never reachable leaves the card
stale, as documented.

*What is excused.* `midway`: a dump was written while a POST had the card written and not recalculated, or its
recalculation failed in that window; `unmended`: a rollback could not write its file, which the code reports as
`pricing_recalculation_rollback_failed`. No excuse but `unmended` is needed for the Qwen side: its write and its
recalculation are in one turn. That is the difference between the two updaters that `QwenPricesCurrent` and
`CodexPricesSettled` state.

### Reads, Dashboard

`Reads` is the discipline `App.tsx` applies to each kind of read: a request takes a number from a counter, a caller
may join the read under way, and an answer whose number is no longer the counter's is dropped. A read is a record:
`data` is `None` until the engine answers, then what it answered, and the browser may handle it any time later;
`current` stands for the comparison of numbers; `awaited` for the promise a price update waits on. Superseded reads
stay in the set until they settle, for a price update may still wait for one.

`Dashboard` applies it to the list and to the open session.

*Data.* The engine is a version per session (0: absent), a clock that stamps changes, and the waste rules. A list is
the versions at the time of the answer. A scope stands for a source and a range; its sessions are fixed, so a session
does not drift out of a range as time passes. The order of the list is not modelled: `Resolve` may take any visible
session for the first. Views other than the session page do the same to this state, and are all `"overview"`.

*Actions.* A React update and the effects it triggers are one step (`Enter`: the selection settles, a new selection is
read, leaving retires the read), because no answer is handled in between. Navigation is `Select`, `OpenSessions`,
`OpenOverview`, `SetRange`, `HandleSourceChange` and `RestoreNavigation` (popstate). Events of the stream, its
reconnection and the 30-second poll make the same two calls, and nothing in the browser tells an event that was lost
from one never sent: they are all `Revalidate`, at any moment. `Retry` stands for the retry buttons. A read is
answered by the engine (`AnswerList`, `AnswerDetail`), then committed (`CommitList`, `CommitDetail`) or fails at
either point (`ReadFails`). Imports and price updates are sent, stored and acknowledged in three steps, or fail. The
read of the overview that a price update waits for ends either way (`bad`).

*Fairness.* Answers and their handling are weakly fair: a request is answered or aborted by its timer (20 s).
`Revalidate` is strongly fair, because the interval keeps firing while the tab is open, but an occasion may find the
read under way and join it. Users, the engine's changes and failures have none.

### WasteToggles

Extends `Dashboard` with `WasteToggles.tsx`. A click shows the optimistic set of rules, sends all of them and disables
the boxes; the acknowledgement, or the read after a failure, is shown only if the component that sent it is still
mounted (it is keyed by session). `patches` are the requests under way. `held` and `settled` are history: the sets of
rules the engine has had, and the choices the user has seen confirmed. `Elsewhere` is a step of the dashboard, which
may unmount the component.

### Lines, FullRead, LiveRead

`Lines` is what a file's lines are: sets of positions (`ValidLines`, `WrongLines`, `Metas`) and what stands there,
from first to last (`InOrder`). It says what the parse of a whole file is without scanning it, so it shares nothing
with the code's loop. `FullRead` is the abstract specification: a read returns the parse, its constant operator
`Full`, of the whole file as it is when it is read. It has two variables, the content and the last answer, and is
without memory.

`LiveRead` is `ingestFile` and what it keeps: the live state of a file (`held`: offset, tail without newline, events,
errors, ledger builder) and the rows of the parse cache. `Promise == Whole!Spec` states that it implements `FullRead`,
which it instantiates (`Whole == INSTANCE FullRead WITH ...`) with the parse that `Lines` defines.

*Data.* A line is made of symbols: the beginning of an object (a `session_meta` with its id, another codex event, an
event only DSH writes), the brace that closes it, and the newline. So a file can end in the middle of an object, after
an object and before its newline, in a blank line, or contain a line that does not parse. A snapshot is its events,
its errors, and the identity and events its ledger was built from. A rate card is one of two.

*Actions.* Another program writes symbol by symbol, touches, truncates, replaces or removes the file; `Age` is the two
minutes passing. A read is `Begin` (the stat, the cache key, and the cache for a historical file), then `ReadOn` or
`ReadWhole`; the file may change in between, and the second half may find it gone (`Fail`). `how` says for whom: the
watcher and refreshes allow appending, imports do not, and `reprice` is `refreshPricing`, which reads whole.

*What is excused.* `swapped`: the file was replaced or cut short between the stat and the read, and nothing is
promised of that one read; everything held or cached after it still has to be right. A file cut short under its inode
and regrown past the size the engine knows, with no read in between, is not seen by the code; `ingest.ts:105` says the
watched files are append-only, and `Write` leaves that case out. `torn` records a truncation until the next read that
starts over. Compressed files are always read whole. The two stats of one read are one step.

### Ledger

`LedgerBuilder`, one operator for each event it reacts to, and codex as the other actor, writing its log line by line
and keeping its own account (`requests`, `current`, `lost`) of what it did. The log of a subagent begins with a copy
of its parent's, up to its own `task_started`. Counts may be repeated (codex logs them again with new rate limits), be
unreadable, or be missing because their line was torn; outputs may come any time after their calls, also after the
count that closed the turn, and one without a call id only where a single call waits.

*Data.* What codex has shown and spent so far (`Shown`, `Spent`) are recursive functions over its account of requests,
so that the builder's loops are compared with a definition of the sum. A usage is one number for the counters the code
compares. A tier is recorded as fast, as not fast, or not at all. Call ids are numbers in the order of the calls, so a
tool and its output are told apart by whose they are.

### Costs, Turns, Timing, SessionLog, SessionSources, SessionTree, Overview, Report

The pure part of the engine, from the events of a session's log to what the dashboard lists. Six of the modules have
the operators of some files and no state:

- `Costs`: the price of a turn from the card, a published rate or the log itself, and sums in which an unknown amount
  (`None`) stays apart from zero.
- `Turns`: buckets (`classify.ts`, with the reading of shell commands of `exec-command.ts`), rereads and what
  `detect.ts` suggests.
- `Timing`: the performance of requests and of Codex's tasks (`performance.ts`).
- `SessionLog`: what one log gives (`AnalyseSession`): the events that are the session's own, the counts among them that
  are new, the turns of those, the tasks, and the tree of its buckets and idle agents.
- `SessionTree`: the tree of a session with its children, its waste under toggles, and `rebuildAll`, which hangs children
  under parents that may be missing or in a circle.
- `Overview`: the totals, slices, days, models, limits and quality of the sessions in a window.

`SessionSources` has the state: logs that grow and go, read in any order, and the store's sources, toggles and
fingerprints. Its actions are `IngestPath`, `RemovePath`, `RefreshLiveFlags` and `SetToggles`; the two-stat windows of
`SessionStore` are not repeated here. `Report` adds the snapshots: each action of `SessionSources` that changes the
store is here together with the rebuild that ends it in the code, so a behaviour of `ReportSpec` is one of
`SessionSources!Spec` as far as the sources go. The module is on its own because `SessionTree`, `Overview` and
`Report` have RECURSIVE operators and it has none, so that theorems can be about it.

*Data.* An event is a name; `Event` gives its usage, tools and model. Money is counted in whole units. The properties
state each sum by sets of turns or positions in the log, and never by the operator that computes it.

A token count is read twice, by rules of their own. The ledger (`ledger.ts:236-262`) takes its usage or rejects it,
and knows a repeat by its numbers (`key`); a task (`performance.ts:134-146`) takes any count with an output, and knows
a repeat of the last one by its words (`raw`). `EventOK` ties the two only where the ledger takes the count: there
both see one output. A count may repeat the last word for word (`again = "echo"`), or repeat its numbers in other
words or after a count the ledger rejected (`"same"`). What tasks may then count and the ledger does not is `Beside`:
`TasksWithinLedger` allows a task these counts and no others.

### Sensors, Prometheus, TempsPage, PowerPage, Hardware

`Prometheus` is the collector: each second's scrape has some of the series, and a query of the engine gives their
points on its grid, or fails. `Sensors` puts the answers of the queries together as `temps.ts` and `power.ts` do:
a sample takes a reading at its own second or the last one within the window asked for. The cards of a sample are a
function from the card's label; the place in the sorted list is its `id`.

`TempsPage` is the temperature page: the history once, a poll by a timer while the tab is visible and no poll is under
way, a second history when the link is up and the charts are empty once the first has settled. A request is `Idle`,
`Asked`, or the answer on its way back. `PowerPage` is the electricity page: the window (quick or custom), the grid
the engine is asked for, the greatest reading of several meters, the feed of that window, the instant read, the
integration, and the demonstration series. `Hardware` mounts one of them at a time; leaving a page aborts its
requests.

*Data.* A reading is a number of units so small that the line between two readings of a meter goes through whole
numbers at whole times (`UnitAssumption`): the page computes the areas with fractions, which such a choice of unit
makes whole.

*Fairness.* While the page is open and visible its timer fires; a poll is answered or lost (it has a timeout of its
own); an answer is delivered. Nothing obliges the collector to have readings, so `GetsLive` is conditional on it.

### PiTiming, PiLog

`PiTiming` has pi as the environment, which emits the extension's events: turns of one request that may be tried again
and then of tools, compactions (a request that makes no message) between turns or while tools run, turns the user
stops, restarts with or without `session_shutdown`, branches to an earlier entry, and forks to another file.
`pending`, `ready` and `enabled` are the extension's variables. `build` says what this version of pi and its provider
record; a restart sets `enabled` again. A fork's file begins with a prefix of its parent's.

An entry of a log is its id, its parent and its body, which is what the extension or pi wrote; null (`Null`) is no
number and no record. `PiInit`, `PiNext` and `PiSpec` have names of their own so that `MCLogs` can have both this and
`Ledger`: there one agent, chosen at the start, writes its logs and the other does nothing.

`PiLog` is `parseNativeSession` for pi: the entries inherited from the file forked from, the join of measurements by
entry id and then by response id, and the prompt of each entry by its parent's context. `timed` is history: the
messages that must have a measurement, because the extension was on for the attempt that made them, the turn ended,
and there is a name to join by. `made`, `wait` and `span` of an entry are history too.

## 4. Runs

| Run | Expect | Shows |
|---|---|---|
| `store` | pass | the store's invariants and action properties |
| `watcher` | pass | observed files are handled; the catalogue converges to the disk |
| `watcher_retry` | violation | a failed read is not retried |
| `pricing` | pass | prices agree with the rate files once settled; the Qwen date catches up where each listed file is there |
| `dashboard` | pass | no older list over a newer, imports stay listed, no loading without a read, the screen catches up |
| `toggles` | pass | rules on display were saved, are being saved, or are marked as not saved |
| `toggles_lost` | violation | a late read makes the next click undo a confirmed choice |
| `liveread` | pass | each read returns what a full read would; what is held fits the file; no old prices after a recalculation |
| `logs` | pass | codex: turns are the requests made, with their own prompt, tier, patch and tools, and a loss is marked; pi: a request is counted once, with its own time and the prompt of its branch |
| `report` | pass | trees, waste and the overview add up to the turns in the logs, tasks to no more but for the counts only they take; a reread repeats a read |
| `hardware` | pass | readings are real, the link follows the polls, energy is measured, the page gets live |
| `hardware_outage` | violation | energy is counted across an outage of the whole collector |

`hardware_outage` checks `MissingInterrupts`, what `UX-CONTRACT.md:158-159` says of missing samples: they interrupt
the integration. A meter that misses a scrape the others had does; a scrape with nothing in it leaves no sample at all
(`power.ts:154`), and the page goes on from the sample before (`hardware-power.ts:370`). `EnergyIsMeasured`, in the
run `hardware`, says what the energy then is.

More disagreements are known and have no run of their own:

- A dump written while a POST waits for Qwen carries the new card's context with sessions priced under the old
  (`store.ts:273`; it is what `midway` excuses).
- A price update may report that every surface was refreshed while the open session, whose read it joined, shows the
  old prices until the next poll (`App.tsx:400`).
- An import that changed keeps its old session under its new fingerprint (`store.ts:599` against the comment at 123).
- A transcript whose database is gone stays hidden, for its fingerprint remains (`store.ts:410`, 550-568).
- A listed file that is gone makes every recalculation throw and the new rates be rolled back (`store.ts:526`,
  `qwen-pricing.ts:431`). The watcher drops a file it has observed; an import, or a log deleted before it was observed
  (`watch.ts:167`), is never dropped, and the rates stay as they are. It is the premise of `QwenKeepsUp`.
- A live re-read that finds a log renamed schedules no dump, puts the toggles of the old id over those a user may have set
  for the new one, and takes the new id from a database without asking (`store.ts:361-369`). An ingest, a refresh or a
  pricing pass that finds it renamed gives the session default toggles instead, unless the new id has some.
- A pricing pass asks only the map it is building whether a database owns a session, so a transcript gets one that the
  database no longer has when it is read again.
- A task counts the output of counts that the ledger rejects, and of repeats in other words (`performance.ts:134-146`
  against `ledger.ts:236-262`).
- Sessions whose parents form a circle are in no list (`store.ts:185`); `TreesAddUp` excuses them.
- The second history is meant for a first that failed (`SystemTemperaturePage.tsx:400`), but a poll that brings the link
  up also adds its sample, and with a sample none is asked for (406): it is asked for only after a first history that was
  connected and empty.
- A slice of the overview without raw spend shows 0 dollars where the total is unknown; the unfiltered performance of a
  source without tasks takes the root's own requests only, while a model filter takes its subagents' too; a Codex
  session filtered by model has no speed of its own, for ledger turns do not say that usage was recorded.
- A turn that reads one path twice is compared by its first read only (`classify.ts:179`).
- When a pi file is deleted, each fork of it counts the entries it copied.

*Bounds.* `store`: one transcript, one database and one import, all of which can hold session `x`, and the database
also `y` (`MayHold`); the transcript may name `y` too: every pair of kinds of file competes for an id, the database
gains and loses sessions, and the transcript may be renamed onto a database's session and back. Three writes or
deletions, one restart and one patch; three are needed for the longest known hazards (transcript, database, removal of
the database) and more change no guard, as only the latest version of a file and the versions in memory and in the
dump matter. `watcher`: one file, which may be renamed, since events, timers and signatures of different files do not
interact; three writes, one restart, and no failed read, for convergence after one is what `watcher_retry` refutes,
with one. `pricing`: two overlapping POSTs, a watched file and an import, either of which may be deleted, one day
change, one failure, one deletion, one crash. `dashboard`: two sessions, a scope that shows both and one that shows
one; two things the user does and one that the world does (a change, a removal, a failure), in any combination;
imports and price updates count as things the user does. Two overlapping operations of the user are what the counters
and joins are there for: an import against a forced refresh, a price update against a change of selection. The reads
themselves are not bounded. `toggles`: two sessions, one rule, two clicks or navigations, two failed requests (the
save and the read after it); `toggles_lost` needs two rules and no failure. `liveread`: five things that happen to the
file (`MaxChanges`), one that happens elsewhere (a rate change, a restart, a pruning: `MaxOthers`), and any number of
reads; at most one symbol is written between a stat and its read (`MaxRace`). Five are a line closed by its newline
and another complete one, or a line read in two pieces, a replacement by a part of it and the line after that, or two
lines and the file ageing into the cache. One session id is enough for the ledger to change hands, from the unnamed
session to it. `logs`, the half about codex: logs of up to seven lines, two of which may set a tier: two requests with
a prompt, a call and an output each and one more line, or a parent's request, the start of the subagent and its own.
Usages 1 and 2 lie on the two sides of the slack of the checksum. `report`: four sessions of two sources, in a line of
descent or a circle; two histories of up to five events which between them have each bucket, an idle agent, polling,
rereads, a compaction loop, a task, each way to a price, and in a task a count repeated word for word, one the ledger
rejects and one repeated in other words; one more event out of those that matter at the end, a day of three ticks,
three queries (one whose window is inside the logs, one that is empty, one of another clock). `hardware`: two cards
with two sensors, two meters of the processor, scrapes that are whole, partial or empty, three seconds, one query that
fails or answer that is lost; quick windows of 4 and 5 half-seconds and windows of one's own, so that grids and
windows do not line up; `hardware_outage` has the same. `logs`, the half about pi: four entries (two prompts and their
calls, or a call, its measurement and another call), one tick within a request, and two detours: compactions,
switches, restarts, turns stopped after their request was sent, branches or forks; deletions and retries are not
bounded. Three kinds of pi: one that records everything, one that names no response, one that names no entry.

Deadlock is checked in every run but `logs` and `report`, where it is the end of the log, of time or of the
bounds.

## 5. Proofs

Each proof module is about any sizes, files, sessions and bounds: what a run shows on its small instance, its theorems
say of every instance. The invariants were given to TLC, whole or by their parts, before they were proved. What they
assume is named in the modules and evaluated by TLC in every run.

`SessionStore_proofs`, from `PathsAssumption` (kinds of files are disjoint, what a transcript may name are sessions)
and `BoundsAssumption`. None of the invariants is inductive alone: an operation cut at its reads has built half of its
result. `IInv`, from which `TypeCorrect`, `TogglesMatchSourcesAlways` and `FingerprintIsOfSourceAlways` follow, adds
what holds in between:

- `ContentOK`: a transcript that is present holds exactly one session, of an id it may name, and so does the content
  read; the imports operations stay within imports; each map lists a transcript under an id it may name.
- `OneName`: unless a write was missed (`raced`) each map lists a transcript once, however often it was renamed; otherwise a
  live re-read would move one of its sessions and leave another behind, under a fingerprint that is not its own.
- `VisitOnce`: a pass visits each file once; files still to visit, being read or out of its scope have no entry yet in
  the maps it builds, and other operations have nothing left to visit.
- `Described`: a fingerprint describes the sessions of its file also in the maps being built, so that the pass may put
  them in place of the old ones at any time. It needs `ContentOK` (a session taken over is of the file whose fingerprint
  is recorded) and `VisitOnce` (it is not taken over twice, from two versions).
- `TogglesOK`: the toggles being built are those of exactly the sessions being built.

The claims about steps need what ties those maps to the catalogue they will replace. `StepInv` adds `TogglesCarried`
(a session in the map being built has the catalogue's toggles), `OwnerRead` (a pricing pass visits files that own a
session) and `DbFirst` (the map a refresh builds gives no transcript a session that a database owns); from it follow
`UserTogglesKeptAlways`, `ImportKeepsExistingAlways` and `DbPrecedenceAlways`, the live re-read by `RelistMoves`,
which says once what it does to sessions, toggles and fingerprints (`Moves`). `StoreInv` adds `Versions` (nothing
listed, saved or being built is newer than the disk), `Growing` (a session being built is no older than the one it
will replace) and `RowsOK` (a database owns only what it may hold), for `NeverOlderAlways`. `ListedOK` says of the
catalogue, the dump and the map being built alike that a database whose fingerprint is current has its sessions there
but for those `usurped`, for `DbSessionsListedAlways`; it needs that a file's present parse is of sessions the file
holds (`FoundOK`), that a pricing pass which has read a database has each of its sessions (`Priced`), for the map it
builds is all it asks, and that only sessions a renamed transcript may come to are taken (`UsurpedOK`). `CleanOK` says
that a refresh which has changed nothing has built nothing else, for `CleanDumpIsCompleteAlways`.

Its last part is about `Watcher`. It first proves that each step of the watched engine is a step of the store
(`StepOfStore`), so `WatcherRunsStore`: `WSpec => Spec`, and all of the above holds while files are watched.
`ObservedIsHandledAlways` is by `WatchInv`: nothing is observed while the engine boots (`Quiescent`), a callback's
ingest is the only operation until its file is remembered (`OneTurn`), by then its sessions are those on disk or an
event or timer is due (`TurnHandled`), and a pricing pass will put back each session that is up to date (`Repriced`).
With `FailuresAssumption`.

`PricingUpdate_proofs` proves `QwenPricesCurrentAlways` and `CodexPricesSettledAlways` by `PriceInv`: one updater is
in its turn at a time, and has something to restore only from its write on (`TurnsOK`); at each point of a turn the
listed sessions show the rates on file or those to be restored (`QwenShown`, `CodexShown`), and the dump those of its
own context. The difference between the two is that a POST has written the card an await before its turn, and in
between any price may show. With `FilesAssumption`, `NoneAssumption` and `PricingBoundsAssumption`.

`Dashboard_proofs`, from `DashboardAssumption` (each session is in a scope; null is neither an id nor a session):

- `ListNeverGoesBack` and `ConfirmedImportStaysListed` follow from `ListInv`, of which the heart is `ReadsFresh`: at most
  one read of the list counts, and once answered it is neither older than the list nor without an acknowledged import.
  The lemma `RefreshedReads` proves the discipline of `Reads` for every caller at once: joining or superseding leaves at
  most one current read, and a read that counts with an answer already counted with that answer.
  `ImportAcknowledged` retires every read before it starts one, which is why a late answer cannot erase the import.
- `LoadingIsRealAlways`: `DetailInv` says of the open session that its one current read is of the session selected, whose
  panel shows loading or the last error (`OfSelected`), and that a panel shows loading only over such a read and ready
  only over its data (`Honest`).
- `UpdateReachesListAlways`: by `UpdateInv`, while a price update waits the list, or the read of it that counts, is from
  after the recalculation (`Reached`), and at most one read of a kind is waited for.
- `TypesAlways`.

Its last part is about `WasteToggles`: `UnsavedIsFlaggedAlways` by `ToggleInv`, where `AllHad` says that whatever is
on its way from the engine carries rules the engine had, and `Waited` that a save waited for is of the session on
display. As each step of the dashboard keeps `ListInv` and `DetailInv`, and saving puts in the list what the engine
answered, imports stay listed here too (`TogglesKeepImports`).

`LiveRead_proofs` proves the incremental reader right for files of any length. Its first half is about the readers:
`EventsTo` and `ErrorsTo` say what is to be found in the first n symbols, one more symbol adds at most one entry, and
so a reader that stopped anywhere and one that goes on from there have together found what one reader of the whole has
(`ReadSoFar`). Its second half is `ReadInv`: what is held in memory (`HeldOK`), in the cache (`RowOK`) and by the read
under way (`StatOK`) is tied to the file by inode, time and size: whatever has the file's inode and time has its size
or its parse. The file may have grown under the same inode, been cut short (`torn`), or been replaced, and the
invariant says for each what the next stat will make the code do. From it, `HeldFitsAlways`, and step by step the
refinement `PromiseKept`: `Spec => Promise`. `PricedCurrentAlways` has an invariant of its own (`StatInv`, `RowInv`,
`BuilderInv`): what may be answered without a parse was priced under the current card. With `LiveReadAssumption` and
`NoneAssumption`.

`Ledger_proofs` proves `TurnsAreRequestsAlways` and `WarnsOfLossAlways` by `LedgerInv`: what the builder knows, in
each state of the log, of its open window, the tier in force, the last count and the running sum, as functions of
codex's own account. `ToolsAreTheirTurnsAlways` is by `ToolsInv`: each call is waiting in the window, waiting for a
turn that was closed, or answered in the turn of its request, and in one of them only. With `LedgerAssumption`.

`SessionSources_proofs` is about logs of any events and any length, read by any number of sessions. `SourcesInv` says
that what is held of a session is what its file gave as it was read (`FromFile`), which may be long gone, and that
each file is a list of known events; so what remains is about `AnalyseSession`, on any log:

- `RereadsAreRepeatsAlways`: the classifier goes through the turns with the outputs it knows for each path; the
  property looks back for the last turn that read the path. `KnownHashes` is the closed form that ties the two: after i
  turns, the output known for a path is that of the last tool that read it in the last turn that read it (`Learned`), and
  of a path not read nothing is known. `ToldAtFirst` and `UpdateIs` do the same inside a turn, whose tools may read the
  path several times.
- `TasksWithinLedgerAlways`: the timings go by the task a count names or the one active, the ledger by none, and each
  decides for itself which counts it takes, which repeat, and where the part of the log copied from a parent ends; tasks
  overlap, start again under one id and end twice. `WithinLedger` says that at each event the tokens of the finished tasks
  and the shares of those under way, each kept at the event that started it, are within what the ledger has counted so far
  and what was `Beside` it (`BesideSteps`); a step starts a share (`WithinStart`), adds a count to one and to that total
  (`WithinUse`) or moves one to the finished (`WithinDone`). That what a task counts the ledger counts too, or is beside
  it, is `UseCounts`, by `ArmedIs` (both begin with the first task) and `LastIs` (what the timings compare with is the last
  of the session's own counts with an output).

With `SourcesAssumption`: null is no integer, and an event has the fields its kind needs (`EventOK`), where a usage
the ledger takes has the output a task reads, and nothing is said of the output of a count it does not take. TLC
evaluates it in the run `report`.

`Hardware_proofs`: `LinkIsLastPolls` by `LinkInv`, which adds that the answer of a poll says whether the collector was
reached (`PollKnows`); so a history that arrives after a poll has ended leaves the link alone. `ReadingsAreRealAlways`
goes from the collector up: series are the collector's (`SeriesAreTrue`), readings are points of theirs
(`ReadingIsTrue`), samples are put together from them (`SampleIsReal`), and so is each answer. `SamplesInv` then
follows answers to the screen: until the first history has come, no sample is newer than the latest (`PolledOnly`),
and the second is asked for only after it (`InTurn`); without these a history could replace the card's sample in the
charts by its own of the same second. It assumes of the collector that its series are finitely many and their readings
numbers (`PrometheusAssumption`), and that null is neither a number nor a sample (`NoneAssumption`).

`EnergyIsMeasuredAlways` has two halves. The first is `PowerInv`: what the electricity page holds, and what is on its
way to it, is for each second of the grid of the window of *now* the greatest reading of the meters scraped then
(`MeteredSamples`). It is inductive because whatever changes the window also drops the samples and the request
(`WindowKeepsFeed`), because the engine answers for the window there is (`EngineKeepsPower`), and because a scrape
once made stays (`StaysMetered`). The second half is arithmetic: the page goes from sample to sample and adds a
trapezoid clipped to the window (`Piece`), while `EnergyOf` goes through the units of the window one by one. Both are
differences of one list of sums: `EnergyIsSum` for the definition, `PieceIs` for a trapezoid, by `SumOfLine`, so the
page's sums up to a sample are those of the units before it (`SummedIsAdded`), and there is one way to add them up
(`SummedOneWay`). The demonstration covers its window (`DemoCovers`); the columns keep every reading since they are at
least a second wide and no sample is a second before the window (`ColumnsKeepAll`). A second without any sample is not
in those lists, and the line goes over it: what is proved is the code's sum, and `hardware_outage` shows where the
documentation says otherwise. Assumed are whole seconds on the ladders of steps (`PowerAssumption`, as in
`POWER_SAMPLE_STEPS`, and `POWER_BUCKET_STEPS` with four wider ones for the columns), the unit above
(`UnitAssumption`), windows that start at 0 or later (`WindowsAssumption`), and that a request which is idle is not an
answer (`RequestAssumption`).

`PiLog_proofs`, from `PiTimingAssumption` (`Null` is no number and none of the records the extension holds), has one
inductive invariant, `TimingInv`. Of the logs it says that ids grow along a file and mean the same entry in all files
(`IdsGrow`), that a call is in the file it was made in and comes to another only with the beginning of the file that
was forked (`CallsAreCopied`), and that a parent is before its entry (`ParentsAreBefore`); of the extension, that what
is pending during a request is its last attempt (`PendingIsOwn`), that what is ready is of the message with its
response and, until the turn ends, of the message it made (`ReadyIsOwn`); and of what was written, that it agrees with
every message it can be joined to in any file (`MeasurementsAgree`), and is there for each that must have it
(`TimedAreMeasured`). None of the last four is inductive alone: that a compaction while tools run writes what is ready
under the response only is why `ReadyIsOwn` is about both names. `TimingIsOwnAlways` follows; so does
`SpendCountedOnceAlways`, since of the files there are with a call the first counts it; and `PromptIsOfBranchAlways`,
since the prompts by position, as the engine remembers them, and those by parents are both given by the entries before
(`PromptsExist`, `SaidExists`), so a first place where they differ has none to differ from.

Sums, lists and files are built element by element by recursive functions. The induction theorems of the library take
an operator the provers cannot supply, so induction is by least elements here: a set of numbers of steps has a least
one (`LeastExists` or `LeastOf`, from the well-foundedness of the naturals), the least step at which a claim fails has
one before it, and so it never fails (`HasAll`, `ChainExists`).

Only model-checked:

- liveness (`Converges`, `DropsGoneFiles`, `QwenKeepsUp`, `ShowsLatest`, `GetsLive`), which the prover does not do, and
  what the three runs that expect a violation refute;
- `TreesAddUp`, `WasteCountsOnce` and `OverviewAddsUp`: `SessionTree`, `Overview` and `Report` walk trees with RECURSIVE
  operators, which the prover does not take, and trees are data without a bound on their depth.

## 6. Not modelled

In `LiveRead`, compressed files and the migration of the file cache of older versions; in `Ledger`, the model, effort,
times, performance and price of a turn and the text of prompts and tools (`Report` has turns with their price and
time). The adapters of Claude, Cursor and DSH, which rename fields record by record; the context profile; the parsing
of price pages; rendering; the command line and scripts. In `PiTiming`, response headers and the first raw chunk,
which are recorded the same way as the first token. SQLite is taken to keep its transactions. Users editing the rate
files or `config.json` by hand while the engine runs. Imports of a database by path (`POST /import` with a JSON body),
whose ingest is the same code as a deferred one. The HTTP layer around the handlers modelled. The overview of the
dashboard, which is read under the discipline of `Reads`, and its filters; paging and search in the list.

Some simplifications stand inside modelled parts. A query finds the points of a series that were scraped, without
Prometheus's staleness markers and its own lookback; the electricity page's row for what the machine draws beyond
processor and graphics card (`otherPoints`) is left out; it is integrated like the others. In `LiveRead` an inode is
never used again, and mtime and ctime are one time. In `hardware` the clock stops at `MaxTime`, and that the page
*stays* live is shown up to there; that a lost poll does not keep it from getting live is the other half of
`GetsLive`.
