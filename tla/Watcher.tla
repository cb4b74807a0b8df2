---- MODULE Watcher ----
(***************************************************************************)
(* The file watcher (packages/engine/src/watch.ts) over the session store, *)
(* as the engine wires them: startServer first replaces store.ingestPath   *)
(* by a wrapper that reports errors and returns undefined (server.ts       *)
(* wireStoreChangeEvents), and the watcher calls the wrapper.              *)
(*                                                                         *)
(* The store's actions are SessionStore's; what this module decides is     *)
(* when a watched file is ingested: file system events (which may be lost) *)
(* arm a debounce timer, scans compare each file's signature with the one  *)
(* last observed.  turn holds the file whose ingest has returned while its *)
(* rememberFile has not yet run: another program may write in between, no  *)
(* other callback may.                                                     *)
(***************************************************************************)
EXTENDS SessionStore

CONSTANT MaxFailures   \* bound: reads of an existing file that fail

ASSUME FailuresAssumption == MaxFailures \in Nat

VARIABLES
    periodic,   \* whether scanForSessions repeats every second
    events,     \* paths with a file system event not yet delivered
    pending,    \* paths with a debounce timer running
    observed,   \* observedFiles: path -> signature, 0: none
    toScan,     \* paths the running scan has still to look at
    turn,       \* file to remember when the ingest returns, or NoPath
    failures,   \* failed reads of existing files so far
    slipped,    \* history: a file changed between its ingest and rememberFile
    missed      \* history: a file vanished while this process booted, unwatched

watch == <<events, pending, observed, toScan, turn>>
past  == <<failures, slipped, missed>>
wvars == <<vars, periodic, watch, past>>

Watchable == Logs \cup Dbs
Free == turn = NoPath

WInit ==
    /\ Init
    /\ periodic \in BOOLEAN
    /\ events = {} /\ pending = {} /\ toScan = {}
    /\ observed = [p \in Watchable |-> 0]
    /\ turn = NoPath
    /\ failures = 0 /\ slipped = FALSE /\ missed = FALSE

\* Another program's write or deletion raises an event in a running engine.
\* Where the scan repeats the event may be lost (macOS, a directory not yet
\* watched); while the engine boots nothing watches.
WExternal ==
    \E p \in Paths :
        /\ Delete(p) \/ \E ids \in SUBSET Ids : Write(p, ids)
        /\ \/ stage = "up" /\ events' = events \cup ({p} \cap Watchable)
           \/ (stage # "up" \/ periodic) /\ events' = events
        /\ slipped' = (slipped \/ (turn = p /\ op = "idle"))
        /\ missed' = (missed \/ (stage \notin {"down", "up"} /\ disk'[p] = Gone))
        /\ UNCHANGED <<periodic, pending, observed, toScan, turn, failures>>

NoticeBroken(p) ==   \* a file observed before is left to the scan, which may not repeat
    /\ Free /\ Running
    /\ p \in events
    /\ events' = events \ {p}
    /\ pending' = IF observed[p] # 0 THEN pending ELSE pending \cup {p}
    /\ UNCHANGED <<vars, periodic, observed, toScan, turn, past>>

\* The fs.watch callback: scheduleIngest arms the timer, or arms it again.
Notice(p) ==
    /\ Free /\ Running
    /\ p \in events
    /\ events' = events \ {p}
    /\ pending' = pending \cup {p}
    /\ UNCHANGED <<vars, periodic, observed, toScan, turn, past>>

ForgetBroken(p) ==   \* the watcher forgets the file, the store is not told
    /\ disk[p] = Gone
    /\ observed' = [observed EXCEPT ![p] = 0]
    /\ UNCHANGED <<vars, turn>>

\* The file is gone: forget it and its sessions.
Forget(p) ==
    /\ RemovePath(p)
    /\ observed' = [observed EXCEPT ![p] = 0]
    /\ UNCHANGED turn

\* ingestIfSession when the timer fires.  An unchanged file is not read.
Fire(p) ==
    /\ Free /\ Running
    /\ p \in pending
    /\ pending' = pending \ {p}
    /\ \/ Forget(p)
       \/ IngestRead(p) /\ turn' = p /\ UNCHANGED observed
       \/ Unchanged(p) /\ OwnsAny(p) /\ turn' = p /\ UNCHANGED <<vars, observed>>
    /\ UNCHANGED <<periodic, events, toScan, past>>

\* rememberFile, after ingestPath returned: with or without an error, for the
\* wrapper has caught it.
Remember ==
    /\ turn # NoPath /\ Running
    /\ observed' = [observed EXCEPT ![turn] = disk[turn].ver]
    /\ turn' = NoPath
    /\ UNCHANGED <<vars, periodic, events, pending, toScan, past>>

ScanFileBroken(p) ==   \* a file seen for the first time is observed, not scheduled
    /\ Free /\ Running
    /\ p \in toScan
    /\ toScan' = toScan \ {p}
    /\ \/ /\ disk[p] # Gone
          /\ observed' = [observed EXCEPT ![p] = disk[p].ver]
          /\ pending' = IF observed[p] \in {0, disk[p].ver} THEN pending ELSE pending \cup {p}
          /\ UNCHANGED <<vars, turn>>
       \/ /\ disk[p] = Gone /\ observed[p] # 0
          /\ Forget(p)
          /\ UNCHANGED pending
       \/ /\ disk[p] = Gone /\ observed[p] = 0
          /\ UNCHANGED <<vars, observed, pending, turn>>
    /\ UNCHANGED <<periodic, events, past>>

\* scanForSessions, one file of it: schedule it if its signature changed,
\* forget it if it was observed and is gone.
ScanFile(p) ==
    /\ Free /\ Running
    /\ p \in toScan
    /\ toScan' = toScan \ {p}
    /\ \/ /\ disk[p] # Gone
          /\ observed' = [observed EXCEPT ![p] = disk[p].ver]
          /\ pending' = IF observed[p] = disk[p].ver THEN pending ELSE pending \cup {p}
          /\ UNCHANGED <<vars, turn>>
       \/ /\ disk[p] = Gone /\ observed[p] # 0
          /\ Forget(p)
          /\ UNCHANGED pending
       \/ /\ disk[p] = Gone /\ observed[p] = 0
          /\ UNCHANGED <<vars, observed, pending, turn>>
    /\ UNCHANGED <<periodic, events, past>>

\* The interval.
ScanTick ==
    /\ Free /\ Running
    /\ periodic /\ toScan = {}
    /\ toScan' = Watchable
    /\ UNCHANGED <<vars, periodic, events, pending, observed, turn, past>>

---------------------------------------------------------------------------
\* Operations of the store that the watcher does not start.
OtherOps ==
    /\ Free
    /\ \/ \E p \in Paths : UploadRead(p) \/ ListRead(p) \/ DeferredNext(p)
       \/ Patch \/ PricingBegin \/ Dump
    /\ UNCHANGED <<periodic, watch, past>>

\* An operation in progress goes on, whoever started it; boot reads nothing
\* through the watcher.
JobSteps ==
    /\ \/ IngestCommit \/ \E id \in Ids : ListCommit(id)
       \/ PricingKeep \/ PricingThrows \/ PricingFinish
       \/ \E e \in todo : PricingRead(e) \/ RefreshReuse(e) \/ RefreshRead(e) \/ RefreshStatFails(e)
                          \/ ImportRead(e) \/ ImportSkip(e)
       \/ RefreshKeep \/ RefreshReadFails \/ RefreshRestatFails \/ RefreshFinish
       \/ \E late \in SUBSET Logs : LoadDump(late)
    /\ UNCHANGED <<periodic, watch, past>>

ReadFails ==
    /\ IngestThrows
    /\ failures' = IF disk[cur] = Gone THEN failures ELSE failures + 1
    /\ failures' <= MaxFailures
    /\ UNCHANGED <<periodic, watch, slipped, missed>>

\* watchSessions starts once the server listens; its first scan is due then.
Start ==
    /\ Listen
    /\ toScan' = Watchable
    /\ UNCHANGED <<periodic, events, pending, observed, turn, past>>

Stop ==
    /\ Crash
    /\ events' = {} /\ pending' = {} /\ toScan' = {} /\ turn' = NoPath
    /\ observed' = [p \in Watchable |-> 0]
    /\ missed' = FALSE
    /\ UNCHANGED <<periodic, failures, slipped>>

Watch == Remember \/ ScanTick \/ \E p \in Watchable : Notice(p) \/ Fire(p) \/ ScanFile(p)

WNext == WExternal \/ Watch \/ OtherOps \/ JobSteps \/ ReadFails \/ Start \/ Stop

\* The event loop runs an operation in progress to its end and gives every due
\* timer and event its turn between other callbacks, so a callback that is due
\* again and again between requests runs (strong fairness).  Requests, dumps
\* and other programs owe nothing.
Fairness ==
    /\ WF_wvars(JobSteps) /\ WF_wvars(Start) /\ WF_wvars(Remember)
    /\ SF_wvars(ScanTick)
    /\ \A p \in Watchable : SF_wvars(Notice(p)) /\ SF_wvars(Fire(p)) /\ SF_wvars(ScanFile(p))

WSpec == WInit /\ [][WNext]_wvars /\ Fairness

---------------------------------------------------------------------------
\* The sessions of a file on disk are those of its present content.  A session
\* several watched files may hold is excepted: the store keeps one of them, a
\* database's before a transcript's; and one an import may be renamed to.
May(p) == IF p \in Dbs THEN MayHold(p) ELSE MayName(p)
Sole(p, id) == /\ \A q \in Watchable : id \in May(q) => q = p
               /\ \A q \in Imports : id \in MayName(q) => MayName(q) = {id}
Fresh(p) == \A id \in disk[p].ids : Sole(p, id) => sources[id] = Parsed(p, disk[p])[id]
AllFresh == \A p \in Watchable : Fresh(p)

\* What the watcher cannot make good: a write between a read and the store's
\* own stat, one between the ingest and rememberFile whose event is lost, and a
\* failed read.
Excused == raced \/ (periodic /\ slipped) \/ failures > 0

\* The scan skips a file whose signature it has observed, so an observed file
\* must be ingested already, or its event or timer be due.
ObservedIsHandled ==
    \A p \in Watchable : disk[p] # Gone /\ observed[p] = disk[p].ver =>
        p \in pending \/ p \in events \/ turn = p \/ Fresh(p) \/ Excused

\* server.ts:1023, "use the per-directory watcher plus its stat-based scan for
\* reliable ingestion": once other programs stop writing, the catalogue comes
\* to show every watched file as it is on disk.
Converges == <>[](AllFresh \/ Excused)

\* store.ts:323, "Watcher / next list will retry": the same where only a read
\* failed, and the scan repeats.
RetriesFailedReads == <>[](AllFresh \/ raced \/ slipped \/ ~periodic)

\* watch.ts:65, "store.removePath(fullPath)" for a file that no longer exists: a
\* session whose file is gone leaves the catalogue, where no event is lost and
\* the file did not vanish while the engine booted.
DropsGoneFiles == ~periodic => <>[](missed \/ \A p \in Watchable : OwnsAny(p) => disk[p] # Gone)

====
