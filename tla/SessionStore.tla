---- MODULE SessionStore ----
(***************************************************************************)
(* The engine's in-memory session catalogue (packages/engine/src/store.ts) *)
(* with the session files it reads, the dump it restarts from, and the     *)
(* boot sequence that rebuilds it (main in server.ts).                     *)
(*                                                                         *)
(* JavaScript runs one store operation at a time, so at most one operation *)
(* is in progress (variable op); but an operation reads files that other   *)
(* programs write, so a write may fall between the moment a file is read   *)
(* and the moment its fingerprint is recorded.  Every operation is cut at  *)
(* exactly those points.  The state a JS turn assigns is only visible when *)
(* the turn ends, so it is assigned in one step.                           *)
(*                                                                         *)
(* Data abstraction.  A file's content is the version number of the write  *)
(* that produced it and the ids of the sessions it holds; its fingerprint  *)
(* (inode, size, mtime and those of the WAL and SHM) is that version, so   *)
(* two writes never share one.  A parsed session is the file it came from  *)
(* and the version that was parsed.  Turns and prices are in other modules.*)
(***************************************************************************)
EXTENDS Naturals, FiniteSets

CONSTANTS
    Logs,        \* .jsonl files below the watch paths, each one session
    Dbs,         \* Cursor state.vscdb files, each any number of sessions
    Imports,     \* .jsonl files of the imports directory
    Ids,         \* session ids
    MayName(_),  \* the session ids a .jsonl file may ever hold, one at a time
    MayHold(_),  \* the session ids a Cursor database may ever hold
    NoPath,      \* not a path
    MaxWrites,   \* bound: writes and deletions by other programs, and uploads
    MaxCrashes,  \* bound: times the engine stops and is started again
    MaxPatches   \* bound: PATCHes of a session's toggles

Paths == Logs \cup Dbs \cup Imports
Jsonl == Logs \cup Imports

ASSUME PathsAssumption ==
    /\ Logs \cap Dbs = {} /\ Imports \cap Dbs = {} /\ Logs \cap Imports = {}
    /\ NoPath \notin Paths
    /\ \A p \in Jsonl : MayName(p) \subseteq Ids
ASSUME BoundsAssumption == MaxWrites \in Nat /\ MaxCrashes \in Nat /\ MaxPatches \in Nat

VARIABLES
    disk,      \* path -> content; version 0: no such file
    writes,    \* versions handed out so far
    patches,   \* PATCHes so far
    crashes,   \* restarts so far
    saved,     \* the store dump (SQLite, replaced in one transaction)
    stage,     \* where the process is in its life
    sources,   \* SessionStore.sources: id -> parsed session
    toggles,   \* SessionStore.toggles: id -> waste toggles
    fps,       \* SessionStore.fingerprints: path -> version, 0: none
    dirty,     \* SessionStore.dumpDirty
    heavy,     \* files boot puts off until after the light ones
    op,        \* the store operation in progress
    cur,       \* the file it has read and not yet taken in
    got,       \* the content it read from cur
    todo,      \* files it has still to visit, with their mtime when listed
    scope,     \* refresh: every file it was given
    nsrc, ntog, nfps, nmut,  \* refresh, refreshPricing: the maps being built
    raced,     \* history: a file changed between its read and its fingerprint
    moved,     \* history: ids a live re-read moved a session from or to since the last dump
    usurped    \* history: ids a live re-read took from a database

env  == <<disk, writes>>
mem  == <<sources, toggles, fps, dirty>>
next == <<nsrc, ntog, nfps, nmut>>
job  == <<op, cur, got, todo, scope, next>>
vars == <<env, patches, crashes, saved, stage, mem, heavy, job, raced, moved, usurped>>

Gone    == [ver |-> 0, ids |-> {}]
Content == [ver : Nat, ids : SUBSET Ids]
Absent  == [path |-> NoPath, ver |-> 0]
Session == [path : Paths, ver : Nat] \cup {Absent}
\* A toggle map is absent, DEFAULT_WASTE_TOGGLES, or one the user has set.
Toggle  == {"unset", "default", "custom"}
Stages  == {"down", "light", "heavy", "imports", "up"}
Ops     == {"idle", "ingest", "import", "upload", "list", "refresh", "pricing"}

NoSources == [id \in Ids |-> Absent]
NoToggles == [id \in Ids |-> "unset"]
NoFps     == [p \in Paths |-> 0]
NoDump    == [src |-> NoSources, tog |-> NoToggles, fps |-> NoFps]

\* Definitions marked "Broken" are the bugs each property is shown to catch; no
\* action uses them.
EntryBroken(p) == [path |-> p, mtime |-> NoPath]   \* a listing that lost its mtime
Entry(p)   == [path |-> p, mtime |-> disk[p].ver]
Existing(S) == {p \in S : disk[p].ver # 0}

---------------------------------------------------------------------------
\* fingerprintsMatch(recorded, fileFingerprint(p))
Unchanged(p) == disk[p].ver # 0 /\ fps[p] = disk[p].ver

\* What ingestSessions returns for a content read from p.
Parsed(p, c) == [id \in Ids |-> IF id \in c.ids THEN [path |-> p, ver |-> c.ver] ELSE Absent]

\* sourcesForPath
OwnedBy(p) == [id \in Ids |-> IF sources[id].path = p THEN sources[id] ELSE Absent]
OwnsAny(p) == \E id \in Ids : sources[id].path = p

YieldsToDbBroken(p, incumbent) == FALSE   \* the transcript is always taken

\* A vscdb session is not replaced by the transcript of the same session.
YieldsToDb(p, incumbent) == incumbent.path \in Dbs /\ p \notin Dbs

IncumbentBroken(id, s) == s[id]   \* the map being built alone decides

\* keepSource, for every snapshot of snaps that is present.
Incumbent(id, s) == IF s[id] # Absent THEN s[id] ELSE sources[id]
Kept(snaps, s) == {id \in Ids : snaps[id] # Absent /\ ~YieldsToDb(snaps[id].path, Incumbent(id, s))}
KeepTogglesBroken(snaps, s, t) == [id \in Ids |-> IF id \in Kept(snaps, s) THEN "default" ELSE t[id]]
KeepSources(snaps, s)    == [id \in Ids |-> IF id \in Kept(snaps, s) THEN snaps[id] ELSE s[id]]
KeepToggles(snaps, s, t) == [id \in Ids |-> IF id \notin Kept(snaps, s) THEN t[id]
                                            ELSE IF toggles[id] = "unset" THEN "default" ELSE toggles[id]]

---------------------------------------------------------------------------
Init ==
    /\ disk \in [Paths -> {Gone}]
    /\ writes = 0 /\ patches = 0 /\ crashes = 0
    /\ saved = NoDump
    /\ stage = "down"
    /\ sources = NoSources /\ toggles = NoToggles /\ fps = NoFps /\ dirty = FALSE
    /\ heavy = {}
    /\ op = "idle" /\ cur = NoPath /\ got = Gone /\ todo = {} /\ scope = {}
    /\ nsrc = NoSources /\ ntog = NoToggles /\ nfps = NoFps /\ nmut = FALSE
    /\ raced = FALSE /\ moved = {} /\ usurped = {}

\* Another program creates, appends to or replaces a file.
Write(p, ids) ==
    /\ writes < MaxWrites
    /\ p \in Jsonl => \E id \in MayName(p) : ids = {id}
    /\ p \in Dbs => ids \subseteq MayHold(p)
    /\ writes' = writes + 1
    /\ disk' = [disk EXCEPT ![p] = [ver |-> writes + 1, ids |-> ids]]
    /\ UNCHANGED <<patches, crashes, saved, stage, mem, heavy, job, raced, moved, usurped>>

\* Another program deletes a file.
Delete(p) ==
    /\ disk[p] # Gone /\ writes < MaxWrites
    /\ writes' = writes + 1
    /\ disk' = [disk EXCEPT ![p] = Gone]
    /\ UNCHANGED <<patches, crashes, saved, stage, mem, heavy, job, raced, moved, usurped>>

---------------------------------------------------------------------------
\* One file: ingestPath, in a running engine or over the boot's import files.
Running == op = "idle" /\ stage = "up"

\* The operation returns; the boot loop over the imports goes on to its next file.
JobDone == op' = (IF op = "import" THEN "import" ELSE "idle") /\ cur' = NoPath /\ got' = Gone
JobKilled == op' = "idle" /\ cur' = NoPath /\ got' = Gone

\* The first half: the fingerprint does not match (or matches and owns no
\* session, which falls through), and the file is read.  A write between the
\* two is one before both: it could only make the match fail.
ReadFile(p, o) ==
    /\ disk[p] # Gone
    /\ ~(Unchanged(p) /\ OwnsAny(p))
    /\ op' = o /\ cur' = p /\ got' = disk[p]

IngestRead(p) ==
    /\ Running
    /\ ReadFile(p, "ingest")
    /\ UNCHANGED <<env, patches, crashes, saved, stage, mem, heavy, todo, scope, next, raced, moved, usurped>>

\* Import by upload: a fresh name in the imports directory is written, then
\* ingested with skipExisting.
UploadRead(p) ==
    /\ Running
    /\ p \in Imports /\ disk[p] = Gone
    /\ writes < MaxWrites
    /\ writes' = writes + 1
    /\ \E id \in MayName(p) : disk' = [disk EXCEPT ![p] = [ver |-> writes + 1, ids |-> {id}]]
    /\ op' = "upload" /\ cur' = p /\ got' = disk'[p]
    /\ UNCHANGED <<patches, crashes, saved, stage, mem, heavy, todo, scope, next, raced, moved, usurped>>

\* The read throws: the wrapper reports it; a failed upload is deleted.
IngestThrows ==
    /\ op \in {"ingest", "import", "upload"} /\ cur # NoPath
    /\ JobDone
    /\ disk' = IF op = "upload" THEN [disk EXCEPT ![cur] = Gone] ELSE disk
    /\ UNCHANGED <<writes, patches, crashes, saved, stage, mem, heavy, todo, scope, next, raced, moved, usurped>>

SkipsBroken(id) == op = "import" /\ sources[id] # Absent   \* an upload replaces

\* skipExisting: the catalogue's session stays.
Skips(id) == op \in {"import", "upload"} /\ sources[id] # Absent
Taken == {id \in got.ids : ~Skips(id) /\ ~YieldsToDb(cur, sources[id])}
Dropped == {id \in Ids \ got.ids : sources[id].path = cur}

\* The second half of ingestPath, with rememberFingerprint's own stat.
IngestCommit ==
    /\ op \in {"ingest", "import", "upload"} /\ cur # NoPath
    /\ sources' = [id \in Ids |-> IF id \in Taken THEN Parsed(cur, got)[id]
                                  ELSE IF id \in Dropped THEN Absent ELSE sources[id]]
    /\ toggles' = [id \in Ids |-> IF id \in Taken /\ toggles[id] = "unset" THEN "default"
                                  ELSE IF id \in Dropped THEN "unset" ELSE toggles[id]]
    /\ fps' = [fps EXCEPT ![cur] = disk[cur].ver]
    /\ dirty' = TRUE
    /\ raced' = (raced \/ disk[cur] # got)
    /\ JobDone
    /\ UNCHANGED <<env, patches, crashes, saved, stage, heavy, todo, scope, next, moved, usurped>>

RemovePathBroken(p) ==   \* the toggles stay behind
    /\ Running
    /\ p \in Logs \cup Dbs /\ disk[p] = Gone
    /\ sources' = [id \in Ids |-> IF sources[id].path = p THEN Absent ELSE sources[id]]
    /\ fps' = [fps EXCEPT ![p] = 0]
    /\ dirty' = (dirty \/ OwnsAny(p))
    /\ UNCHANGED <<env, patches, crashes, saved, stage, toggles, heavy, job, raced, moved, usurped>>

\* The watcher finds a watched file gone.
RemovePath(p) ==
    /\ Running
    /\ p \in Logs \cup Dbs /\ disk[p] = Gone
    /\ sources' = [id \in Ids |-> IF sources[id].path = p THEN Absent ELSE sources[id]]
    /\ toggles' = [id \in Ids |-> IF sources[id].path = p THEN "unset" ELSE toggles[id]]
    /\ fps' = [fps EXCEPT ![p] = 0]
    /\ dirty' = (dirty \/ OwnsAny(p))
    /\ UNCHANGED <<env, patches, crashes, saved, stage, heavy, job, raced, moved, usurped>>

SetTogglesBroken(id, value) ==   \* no dump is scheduled
    /\ Running
    /\ patches < MaxPatches
    /\ sources[id] # Absent
    /\ patches' = patches + 1
    /\ toggles' = [toggles EXCEPT ![id] = value]
    /\ UNCHANGED <<env, crashes, saved, stage, sources, fps, dirty, heavy, job, raced, moved, usurped>>

SetToggles(id, value) ==
    /\ Running
    /\ patches < MaxPatches
    /\ sources[id] # Absent
    /\ patches' = patches + 1
    /\ toggles' = [toggles EXCEPT ![id] = value]
    /\ dirty' = TRUE
    /\ UNCHANGED <<env, crashes, saved, stage, sources, fps, heavy, job, raced, moved, usurped>>

\* list() or get(): a small transcript whose live flag flips (the clock does
\* that, so any may) is read again, without a dump being scheduled.
ListRead(p) ==
    /\ Running
    /\ p \in Jsonl /\ OwnsAny(p) /\ disk[p] # Gone
    /\ op' = "list" /\ cur' = p /\ got' = disk[p]
    /\ UNCHANGED <<env, patches, crashes, saved, stage, mem, heavy, todo, scope, next, raced, moved, usurped>>

\* The log may name its session otherwise by now (a codex log is "unknown" until
\* its session_meta arrives): the session listed as old moves to the new id, with
\* its toggles, over whatever is listed there, a database's session included.
ListCommit(old) ==
    \E new \in got.ids :
        LET carried == IF toggles[old] # "unset" THEN toggles[old] ELSE toggles[new] IN
        /\ op = "list" /\ cur # NoPath
        /\ sources[old].path = cur
        /\ sources' = [sources EXCEPT ![old] = Absent, ![new] = Parsed(cur, got)[new]]
        /\ toggles' = [toggles EXCEPT ![old] = "unset", ![new] = IF carried = "unset" THEN "default" ELSE carried]
        /\ fps' = [fps EXCEPT ![cur] = disk[cur].ver]
        /\ raced' = (raced \/ disk[cur] # got)
        /\ moved' = IF new = old THEN moved ELSE moved \cup {old, new}
        /\ usurped' = IF sources[new].path \in Dbs THEN usurped \cup {new} ELSE usurped
        /\ JobDone
        /\ UNCHANGED <<env, patches, crashes, saved, stage, dirty, heavy, todo, scope, next>>

---------------------------------------------------------------------------
\* refreshPricing: every owned file is read again; one that cannot be read
\* throws and leaves the store as it was.
StartMaps == nsrc' = NoSources /\ ntog' = NoToggles /\ nfps' = NoFps /\ nmut' = FALSE

PricingBegin ==
    /\ Running
    /\ op' = "pricing"
    /\ todo' = {Entry(p) : p \in {q \in Paths : OwnsAny(q)}}
    /\ StartMaps
    /\ UNCHANGED <<env, patches, crashes, saved, stage, mem, heavy, cur, got, scope, raced, moved, usurped>>

PricingRead(e) ==
    /\ op = "pricing" /\ cur = NoPath /\ e \in todo
    /\ disk[e.path] # Gone
    /\ cur' = e.path /\ got' = disk[e.path] /\ todo' = todo \ {e}
    /\ UNCHANGED <<env, patches, crashes, saved, stage, mem, heavy, op, scope, next, raced, moved, usurped>>

\* Only the map being built decides between a vscdb and a transcript here.
PricingKeep ==
    LET taken == {id \in got.ids : ~YieldsToDb(cur, nsrc[id])} IN
    /\ op = "pricing" /\ cur # NoPath
    /\ nsrc' = [id \in Ids |-> IF id \in taken THEN Parsed(cur, got)[id] ELSE nsrc[id]]
    /\ ntog' = [id \in Ids |-> IF id \notin taken THEN ntog[id]
                               ELSE IF toggles[id] = "unset" THEN "default" ELSE toggles[id]]
    /\ nfps' = [nfps EXCEPT ![cur] = disk[cur].ver]
    /\ raced' = (raced \/ disk[cur] # got)
    /\ cur' = NoPath /\ got' = Gone
    /\ UNCHANGED <<env, patches, crashes, saved, stage, mem, heavy, op, todo, scope, nmut, moved, usurped>>

PricingThrows ==
    /\ op = "pricing" /\ (cur # NoPath \/ todo # {})
    /\ JobDone /\ todo' = {} /\ StartMaps
    /\ UNCHANGED <<env, patches, crashes, saved, stage, mem, heavy, scope, raced, moved, usurped>>

PricingFinish ==
    /\ op = "pricing" /\ cur = NoPath /\ todo = {}
    /\ sources' = nsrc /\ toggles' = ntog /\ fps' = nfps /\ dirty' = TRUE
    /\ JobDone /\ StartMaps
    /\ UNCHANGED <<env, patches, crashes, saved, stage, heavy, todo, scope, raced, moved, usurped>>

---------------------------------------------------------------------------
\* The dump: debounce timer, minute interval or exit hook.
Dump ==
    /\ Running
    /\ dirty
    /\ saved' = [src |-> sources, tog |-> toggles, fps |-> fps]
    /\ dirty' = FALSE /\ moved' = {}
    /\ UNCHANGED <<env, patches, crashes, stage, sources, toggles, fps, heavy, job, raced, usurped>>

\* The process stops at any moment, with or without its exit hook.
Crash ==
    /\ stage # "down" /\ crashes < MaxCrashes
    /\ crashes' = crashes + 1
    /\ stage' = "down"
    /\ sources' = NoSources /\ toggles' = NoToggles /\ fps' = NoFps /\ dirty' = FALSE /\ moved' = {}
    /\ heavy' = {}
    /\ JobKilled /\ todo' = {} /\ scope' = {} /\ StartMaps
    /\ UNCHANGED <<env, patches, saved, raced, usurped>>

BeginRefresh(S) ==
    /\ op' = "refresh"
    /\ todo' = {Entry(p) : p \in S}
    /\ scope' = S
    /\ StartMaps

LoadDumpBroken(late) ==   \* the dump is loaded again over a live catalogue
    /\ stage \in {"down", "up"} /\ op = "idle"
    /\ late \subseteq Existing(Logs)
    /\ saved.src = NoSources => late = {}
    /\ sources' = saved.src /\ toggles' = saved.tog /\ fps' = saved.fps
    /\ heavy' = late \cup Existing(Dbs)
    /\ stage' = "light"
    /\ BeginRefresh(Existing(Logs) \ late)
    /\ UNCHANGED <<env, patches, crashes, saved, dirty, cur, got, raced, moved, usurped>>

\* Boot: the dump is loaded and the light files are refreshed.  With a warm
\* dump any transcript may be large enough to be put off.
LoadDump(late) ==
    /\ stage = "down"
    /\ late \subseteq Existing(Logs)
    /\ saved.src = NoSources => late = {}
    /\ sources' = saved.src /\ toggles' = saved.tog /\ fps' = saved.fps
    /\ heavy' = late \cup Existing(Dbs)
    /\ stage' = "light"
    /\ BeginRefresh(Existing(Logs) \ late)
    /\ UNCHANGED <<env, patches, crashes, saved, dirty, cur, got, raced, moved, usurped>>

\* One path of refresh: reused, read again, or failed.
RefreshReuse(e) ==
    LET p == e.path IN
    /\ op = "refresh" /\ cur = NoPath /\ e \in todo
    /\ Unchanged(p)
    /\ nsrc' = KeepSources(OwnedBy(p), nsrc)
    /\ ntog' = KeepToggles(OwnedBy(p), nsrc, ntog)
    /\ nfps' = [nfps EXCEPT ![p] = disk[p].ver]
    /\ todo' = todo \ {e}
    /\ UNCHANGED <<env, patches, crashes, saved, stage, mem, heavy, op, cur, got, scope, nmut, raced, moved, usurped>>

RefreshRead(e) ==
    LET p == e.path IN
    /\ op = "refresh" /\ cur = NoPath /\ e \in todo
    /\ disk[p] # Gone /\ ~Unchanged(p)
    /\ cur' = p /\ got' = disk[p] /\ todo' = todo \ {e} /\ nmut' = TRUE
    /\ UNCHANGED <<env, patches, crashes, saved, stage, mem, heavy, op, scope, nsrc, ntog, nfps, raced, moved, usurped>>

RefreshKeep ==
    LET snaps == Parsed(cur, got) IN
    /\ op = "refresh" /\ cur # NoPath
    /\ disk[cur] # Gone
    /\ nsrc' = KeepSources(snaps, nsrc)
    /\ ntog' = KeepToggles(snaps, nsrc, ntog)
    /\ nfps' = [nfps EXCEPT ![cur] = disk[cur].ver]
    /\ raced' = (raced \/ disk[cur] # got)
    /\ cur' = NoPath /\ got' = Gone
    /\ UNCHANGED <<env, patches, crashes, saved, stage, mem, heavy, op, todo, scope, nmut, moved, usurped>>

KeepOldBroken(p, s, t) ==   \* the old sessions under the present fingerprint
    /\ nsrc' = KeepSources(OwnedBy(p), s)
    /\ ntog' = KeepToggles(OwnedBy(p), s, t)
    /\ nfps' = [nfps EXCEPT ![p] = disk[p].ver]

\* The catch: what the store (the dump) had for the path is kept.
KeepOld(p, s, t) ==
    /\ nsrc' = KeepSources(OwnedBy(p), s)
    /\ ntog' = KeepToggles(OwnedBy(p), s, t)
    /\ nfps' = [nfps EXCEPT ![p] = IF fps[p] # 0 THEN fps[p] ELSE @]

\* The first stat fails.
RefreshStatFails(e) ==
    /\ op = "refresh" /\ cur = NoPath /\ e \in todo
    /\ disk[e.path] = Gone
    /\ KeepOld(e.path, nsrc, ntog)
    /\ todo' = todo \ {e}
    /\ UNCHANGED <<env, patches, crashes, saved, stage, mem, heavy, op, cur, got, scope, nmut, raced, moved, usurped>>

\* The read fails.
RefreshReadFails ==
    /\ op = "refresh" /\ cur # NoPath
    /\ KeepOld(cur, nsrc, ntog)
    /\ cur' = NoPath /\ got' = Gone
    /\ UNCHANGED <<env, patches, crashes, saved, stage, mem, heavy, op, todo, scope, nmut, raced, moved, usurped>>

\* The file vanishes after its sessions were kept and before the second stat.
RefreshRestatFails ==
    LET snaps == Parsed(cur, got) IN
    /\ op = "refresh" /\ cur # NoPath
    /\ disk[cur] = Gone
    /\ KeepOld(cur, KeepSources(snaps, nsrc), KeepToggles(snaps, nsrc, ntog))
    /\ cur' = NoPath /\ got' = Gone
    /\ raced' = TRUE
    /\ UNCHANGED <<env, patches, crashes, saved, stage, mem, heavy, op, todo, scope, nmut, moved, usurped>>

\* A session of a file outside this refresh stays while its file exists.
Survivors == [id \in Ids |->
    IF nsrc[id] = Absent /\ sources[id] # Absent /\ sources[id].path \notin scope /\ disk[sources[id].path] # Gone
    THEN sources[id] ELSE Absent]

RefreshFinish ==
    LET same(s) == \A id \in Ids : (s[id] = Absent) <=> (sources[id] = Absent)
        keptFps == [p \in Paths |-> IF nfps[p] = 0 /\ p \notin scope THEN fps[p] ELSE nfps[p]]
        cold    == saved.src = NoSources
    IN
    /\ op = "refresh" /\ cur = NoPath /\ todo = {}
    /\ sources' = KeepSources(Survivors, nsrc)
    /\ toggles' = KeepToggles(Survivors, nsrc, ntog)
    /\ fps' = keptFps
    /\ dirty' = (dirty \/ nmut \/ ~same(sources') \/ keptFps # fps)
    /\ IF stage = "light" /\ cold /\ heavy # {}
       THEN stage' = "heavy" /\ heavy' = {} /\ BeginRefresh(heavy)
       ELSE /\ stage' = "imports" /\ op' = "import"
            /\ todo' = {Entry(p) : p \in Existing(Imports)}
            /\ scope' = {} /\ StartMaps /\ UNCHANGED heavy
    /\ UNCHANGED <<env, patches, crashes, saved, cur, got, raced, moved, usurped>>

\* loadImportedSessions: newest file first, unchanged and unreadable ones
\* skipped; then the server listens.
Newest(e) == e \in todo /\ \A f \in todo : f.mtime <= e.mtime

ImportRead(e) ==
    /\ op = "import" /\ cur = NoPath
    /\ Newest(e)
    /\ todo' = todo \ {e}
    /\ ReadFile(e.path, "import")
    /\ UNCHANGED <<env, patches, crashes, saved, stage, mem, heavy, scope, next, raced, moved, usurped>>

ImportSkip(e) ==
    /\ op = "import" /\ cur = NoPath
    /\ Newest(e)
    /\ disk[e.path] = Gone \/ (Unchanged(e.path) /\ OwnsAny(e.path))
    /\ todo' = todo \ {e}
    /\ UNCHANGED <<env, patches, crashes, saved, stage, mem, heavy, op, cur, got, scope, next, raced, moved, usurped>>

Listen ==
    /\ op = "import" /\ cur = NoPath /\ todo = {}
    /\ stage' = "up" /\ op' = "idle"
    /\ UNCHANGED <<env, patches, crashes, saved, mem, heavy, cur, got, todo, scope, next, raced, moved, usurped>>

\* refreshNext: a file boot put off is ingested once the server listens.
DeferredNext(p) ==
    /\ Running
    /\ p \in heavy
    /\ heavy' = heavy \ {p}
    /\ \/ ReadFile(p, "ingest")
       \/ /\ disk[p] = Gone \/ (Unchanged(p) /\ OwnsAny(p))
          /\ UNCHANGED <<op, cur, got>>
    /\ UNCHANGED <<env, patches, crashes, saved, stage, mem, todo, scope, next, raced, moved, usurped>>

---------------------------------------------------------------------------
External == \E p \in Paths : Delete(p) \/ \E ids \in SUBSET Ids : Write(p, ids)

Ingest == \/ \E p \in Paths : IngestRead(p) \/ UploadRead(p) \/ RemovePath(p) \/ ListRead(p) \/ DeferredNext(p)
          \/ IngestThrows \/ IngestCommit \/ \E id \in Ids : ListCommit(id)

Patch == \E id \in Ids, value \in {"default", "custom"} : SetToggles(id, value)

Pricing == PricingBegin \/ PricingKeep \/ PricingThrows \/ PricingFinish \/ \E e \in todo : PricingRead(e)

Boot == \/ \E late \in SUBSET Logs : LoadDump(late)
        \/ \E e \in todo : RefreshReuse(e) \/ RefreshRead(e) \/ RefreshStatFails(e) \/ ImportRead(e) \/ ImportSkip(e)
        \/ RefreshKeep \/ RefreshReadFails \/ RefreshRestatFails \/ RefreshFinish \/ Listen

Next == External \/ Ingest \/ Patch \/ Pricing \/ Boot \/ Dump \/ Crash

Spec == Init /\ [][Next]_vars

---------------------------------------------------------------------------
TypeOK ==
    /\ disk \in [Paths -> Content] /\ writes \in Nat /\ patches \in Nat /\ crashes \in Nat
    /\ saved \in [src : [Ids -> Session], tog : [Ids -> Toggle], fps : [Paths -> Nat]]
    /\ stage \in Stages
    /\ sources \in [Ids -> Session] /\ toggles \in [Ids -> Toggle] /\ fps \in [Paths -> Nat]
    /\ dirty \in BOOLEAN
    /\ heavy \subseteq Paths
    /\ op \in Ops /\ cur \in Paths \cup {NoPath} /\ got \in Content
    /\ todo \subseteq [path : Paths, mtime : Nat] /\ scope \subseteq Paths
    /\ nsrc \in [Ids -> Session] /\ ntog \in [Ids -> Toggle] /\ nfps \in [Paths -> Nat] /\ nmut \in BOOLEAN
    /\ raced \in BOOLEAN /\ moved \subseteq Ids /\ usurped \subseteq Ids

\* Every session has a toggle map and every toggle map a session, in memory
\* and in the dump: a toggle left behind would reappear on a later session of
\* the same id, a missing one would show the defaults as the user's choice.
TogglesMatch(s, t) == \A id \in Ids : s[id] = Absent <=> t[id] = "unset"
TogglesMatchSources == TogglesMatch(sources, toggles) /\ TogglesMatch(saved.src, saved.tog)

\* store.ts:123, "fingerprint of the file used for the current source(s)":
\* unless a file changed between its read and its fingerprint (raced), the
\* fingerprint of a watched file is that of the very version its sessions were
\* parsed from, through failed refreshes, pricing passes, dumps and restarts.
Describes(src, f, P) == \A id \in Ids : src[id].path \in P => f[src[id].path] = src[id].ver
FingerprintIsOfSource == ~raced => /\ Describes(sources, fps, Logs \cup Dbs)
                                   /\ Describes(saved.src, saved.fps, Logs \cup Dbs)

\* A vscdb file whose fingerprint matches is skipped by every later ingest and
\* refresh, so each session it holds must already be in the catalogue, under a
\* vscdb file; a transcript of the same session may never have taken its place.
\* A session two databases may hold is excepted: when the one it was last read
\* from loses it or goes, nothing reads the other again (globalStorage and each
\* workspaceStorage directory have a database, session-files.ts:18), and so is
\* one a live re-read has taken (usurped, store.ts:369).
OnlyIn(d, id) == \A e \in Dbs : id \in MayHold(e) => e = d
DbSessionsListed == ~raced =>
    \A d \in Dbs : Unchanged(d) =>
        \A id \in disk[d].ids \ usurped : OnlyIn(d, id) => sources[id].path \in Dbs

\* store.ts:129, dumpDirty is "True after a mutation that should be persisted to
\* the store dump": while it is false the dump has the same sessions, from the
\* same files, with the same toggles, so a crash loses only what can be parsed
\* again.  Not so for a session that a live re-read has moved to another id since
\* the last dump: refreshLiveFlags schedules none, and a crash forgets the move
\* with the toggles that came with it.
CleanDumpIsComplete == stage # "down" /\ ~dirty =>
    \A id \in Ids \ moved : saved.tog[id] = toggles[id] /\ saved.src[id].path = sources[id].path

\* While the process lives no ingest, refresh, pricing pass or live re-read
\* replaces a session by an older parse of the same file.
NeverOlder == [][\A id \in Ids :
    sources[id] # Absent /\ sources'[id].path = sources[id].path => sources'[id].ver >= sources[id].ver]_vars

\* A live re-read has found that the file of the session old names another one.
Renames(old, new) ==
    /\ op = "list" /\ new \in got.ids \ {old}
    /\ sources[old].path = cur /\ sources'[old] = Absent /\ sources'[new].path = cur

\* store.ts:293, "Prefer Cursor's state.vscdb over agent-transcript JSONL": a
\* session a vscdb file owns may disappear with it, but a transcript gets it only
\* where a live re-read finds the transcript renamed to it (store.ts:369 does not
\* ask who is listed there), or where a pricing pass, reading every file again,
\* has not found it in the database (or leaves the database to be read again).
DbPrecedence == [][\A id \in Ids, d \in Dbs : sources[id].path = d =>
    \/ sources'[id].path \in Dbs \cup {NoPath}
    \/ \E old \in Ids : Renames(old, id)
    \/ op = "pricing" /\ (raced \/ id \notin disk[d].ids \/ ~Unchanged(d)')]_vars

\* A toggle the user set stays until the user patches it again, whatever
\* replaces or re-prices the session meanwhile; where a live re-read renames the
\* session it goes along, over the toggles of the id it comes to.
UserTogglesKept == [][\A id \in Ids :
    toggles[id] = "custom" /\ patches' = patches =>
        /\ \A new \in Ids : Renames(id, new) => toggles'[new] = "custom"
        /\ sources'[id] = Absent \/ toggles'[id] = "custom" \/ \E old \in Ids : Renames(old, id)]_vars

\* store.ts:114, "Keep an already-loaded canonical session when an import has
\* the same id": neither an upload nor the boot's imports alter a session, other
\* than to drop one that its own file no longer holds.
ImportKeepsExisting == [][stage' # "down" /\ op \in {"import", "upload"} =>
    \A id \in Ids \ Dropped : sources[id] # Absent => sources'[id] = sources[id] /\ toggles'[id] = toggles[id]]_vars

====
