---- MODULE SessionStore_proofs ----
(***************************************************************************)
(* Proofs about SessionStore, for any number of files, sessions, writes    *)
(* and restarts: type correctness; that a fingerprint is that of the       *)
(* version its sessions were parsed from; what no ingest, import, refresh  *)
(* or pricing pass may do to a session; what the catalogue and the dump    *)
(* always list.  The maps a refresh or a pricing pass builds are swapped   *)
(* in at its end, so each claim about a step needs an invariant that       *)
(* relates those maps to the catalogue they will replace.                  *)
(*                                                                         *)
(* The last part is about Watcher: the engine with its watcher is an       *)
(* engine, so all that is proved of the store holds while files are        *)
(* watched; and no observed file is forgotten, which is what the scan,     *)
(* that skips observed files, relies on.                                   *)
(***************************************************************************)
EXTENDS Watcher, TLAPS

Watched == Logs \cup Dbs
Waiting == {e.path : e \in todo}

\* A live re-read of one session.
Relist == \E old \in Ids : ListCommit(old)

\* A transcript holds one session, of an id that it may name, an uploaded or
\* boot-loaded file is an import, and a live re-read is of a transcript.
OwnId(s) == \A id \in Ids : s[id].path \in Jsonl => id \in MayName(s[id].path)
Names(p, c) == \E id \in MayName(p) : c.ids = {id}
ContentOK ==
    /\ \A p \in Jsonl : disk[p] # Gone => Names(p, disk[p])
    /\ cur \in Jsonl => Names(cur, got)
    /\ op \in {"import", "upload"} => cur \in Imports \cup {NoPath}
    /\ op = "import" => Waiting \subseteq Imports
    /\ op = "list" => cur \in Jsonl
    /\ OwnId(sources) /\ OwnId(saved.src) /\ OwnId(nsrc)

\* refresh and refreshPricing visit each of their files once: a file still to
\* visit, or being visited, has no entry in the maps being built, nor has a
\* file outside refresh's scope.  Other operations have no files to visit.
NotYet(p) == nfps[p] = 0 /\ \A id \in Ids : nsrc[id].path # p
VisitOnce ==
    /\ \A e, f \in todo : e.path = f.path => e = f
    /\ cur \notin Waiting
    /\ op \in {"refresh", "pricing"} => \A p \in Paths : p \in Waiting \/ p = cur => NotYet(p)
    /\ op = "refresh" => /\ Waiting \subseteq scope /\ cur \in scope \cup {NoPath}
                         /\ \A p \in Paths \ scope : NotYet(p)
    /\ op \notin {"refresh", "pricing", "import"} => todo = {}
    /\ op = "idle" => cur = NoPath
    /\ stage = "down" => op = "idle"

\* What is claimed of the catalogue and of the dump holds of the maps being built.
Described ==
    ~raced => /\ Describes(sources, fps, Watched)
              /\ Describes(saved.src, saved.fps, Watched)
              /\ Describes(nsrc, nfps, Watched)

\* A transcript is listed once, however often it has come to name another session.
OneEach(s) == \A a, b \in Ids : s[a].path \in Jsonl /\ s[b].path = s[a].path => a = b
OneName == ~raced => OneEach(sources) /\ OneEach(saved.src) /\ OneEach(nsrc)

TogglesOK == TogglesMatchSources /\ TogglesMatch(nsrc, ntog)

IInv == TypeOK /\ ContentOK /\ VisitOnce /\ OneName /\ Described /\ TogglesOK

USE PathsAssumption, BoundsAssumption

LEMMA EmptyTypes == /\ NoSources \in [Ids -> Session] /\ NoToggles \in [Ids -> Toggle]
                    /\ NoFps \in [Paths -> Nat] /\ Gone \in Content
  BY DEF NoSources, NoToggles, NoFps, Gone, Session, Content, Toggle, Absent

LEMMA TypeInit == Init => TypeOK
<1> SUFFICES ASSUME Init PROVE TypeOK
  OBVIOUS
<1>1. disk \in [Paths -> Content]
  BY EmptyTypes DEF Init
<1>2. saved \in [src : [Ids -> Session], tog : [Ids -> Toggle], fps : [Paths -> Nat]]
  BY EmptyTypes DEF Init, NoDump
<1> QED BY <1>1, <1>2, EmptyTypes DEF Init, TypeOK, Stages, Ops

LEMMA ParsedType == ASSUME NEW p \in Paths, NEW c \in Content
                    PROVE  Parsed(p, c) \in [Ids -> Session]
  BY DEF Parsed, Session, Content, Absent

LEMMA OwnedType == ASSUME TypeOK, NEW p \in Paths
                   PROVE  OwnedBy(p) \in [Ids -> Session]
  BY DEF OwnedBy, Session, TypeOK, Absent

LEMMA KeepType == ASSUME TypeOK, NEW snaps \in [Ids -> Session], NEW s \in [Ids -> Session], NEW t \in [Ids -> Toggle]
                  PROVE  /\ KeepSources(snaps, s) \in [Ids -> Session]
                         /\ KeepToggles(snaps, s, t) \in [Ids -> Toggle]
  BY DEF KeepSources, KeepToggles, TypeOK, Toggle

\* Each operation on one file, and the environment's steps, keep the types.
LEMMA TypeFileSteps ==
  ASSUME TypeOK, External \/ Ingest \/ Patch \/ Dump \/ Crash
  PROVE  TypeOK'
<1> USE DEF env, mem, next, job, TypeOK, Content, Toggle, Stages, Ops
<1>1. CASE External
  BY <1>1 DEF External, Write, Delete, Gone, Jsonl, Paths
<1>2. ASSUME NEW p \in Paths, IngestRead(p) PROVE TypeOK'
  BY <1>2 DEF IngestRead, ReadFile
<1>3. ASSUME NEW p \in Paths, UploadRead(p) PROVE TypeOK'
  BY <1>3 DEF UploadRead, Jsonl
<1>4. ASSUME NEW p \in Paths, RemovePath(p) PROVE TypeOK'
  BY <1>4 DEF RemovePath, Session, Absent, OwnsAny
<1>5. ASSUME NEW p \in Paths, ListRead(p) PROVE TypeOK'
  BY <1>5 DEF ListRead
<1>6. ASSUME NEW p \in Paths, DeferredNext(p) PROVE TypeOK'
  BY <1>6 DEF DeferredNext, ReadFile
<1>7. CASE IngestThrows
  BY <1>7 DEF IngestThrows, JobDone, Gone
<1>8. CASE IngestCommit
  <2>1. Parsed(cur, got) \in [Ids -> Session]
    BY <1>8, ParsedType DEF IngestCommit
  <2> QED BY <1>8, <2>1 DEF IngestCommit, JobDone, Gone, Session
<1>9. CASE Relist
  <2>1. PICK old \in Ids : ListCommit(old)
    BY <1>9 DEF Relist
  <2>2. Parsed(cur, got) \in [Ids -> Session]
    BY <2>1, ParsedType DEF ListCommit
  <2>3. sources' \in [Ids -> Session] /\ toggles' \in [Ids -> Toggle]
    <3>1. PICK new \in Ids, carried \in Toggle \ {"unset"} :
            /\ sources' = [sources EXCEPT ![old] = Absent, ![new] = Parsed(cur, got)[new]]
            /\ toggles' = [toggles EXCEPT ![old] = "unset", ![new] = carried]
      BY <2>1 DEF ListCommit
    <3>2. Absent \in Session /\ Parsed(cur, got)[new] \in Session
      BY <2>2 DEF Session
    <3>3. sources' \in [Ids -> Session]
      BY <3>1, <3>2
    <3> QED BY <3>1, <3>3
  <2>4. fps' \in [Paths -> Nat] /\ raced' \in BOOLEAN /\ moved' \subseteq Ids /\ usurped' \subseteq Ids
    BY <2>1 DEF ListCommit
  <2>5. op' \in Ops /\ cur' \in Paths \cup {NoPath} /\ got' \in Content
    BY <2>1, EmptyTypes DEF ListCommit, JobDone
  <2>6. UNCHANGED <<env, patches, crashes, saved, stage, dirty, heavy, todo, scope, next>>
    BY <2>1 DEF ListCommit
  <2> QED BY <2>3, <2>4, <2>5, <2>6
<1>10. CASE Patch
  BY <1>10 DEF Patch, SetToggles
<1>11. CASE Dump
  BY <1>11 DEF Dump
<1>12. CASE Crash
  <2>1. got' \in Content /\ UNCHANGED <<env, patches, saved, raced, usurped>> /\ crashes' \in Nat /\ moved' = {}
    BY <1>12, EmptyTypes DEF Crash, JobKilled
  <2>2. /\ sources' \in [Ids -> Session] /\ toggles' \in [Ids -> Toggle] /\ fps' \in [Paths -> Nat]
        /\ nsrc' \in [Ids -> Session] /\ ntog' \in [Ids -> Toggle] /\ nfps' \in [Paths -> Nat]
    BY <1>12, EmptyTypes DEF Crash, StartMaps
  <2>3. nmut' \in BOOLEAN /\ dirty' \in BOOLEAN
    BY <1>12 DEF Crash, StartMaps
  <2>4. op' \in Ops /\ cur' \in Paths \cup {NoPath} /\ stage' \in Stages
    BY <1>12 DEF Crash, JobKilled
  <2>5. heavy' \subseteq Paths /\ todo' \subseteq [path : Paths, mtime : Nat] /\ scope' \subseteq Paths
    BY <1>12 DEF Crash
  <2> QED BY <2>1, <2>2, <2>3, <2>4, <2>5
<1> QED BY <1>1, <1>2, <1>3, <1>4, <1>5, <1>6, <1>7, <1>8, <1>9, <1>10, <1>11, <1>12 DEF Ingest, Relist

LEMMA StartMapsType == ASSUME StartMaps
                       PROVE  /\ nsrc' \in [Ids -> Session] /\ ntog' \in [Ids -> Toggle]
                              /\ nfps' \in [Paths -> Nat] /\ nmut' \in BOOLEAN
  BY EmptyTypes DEF StartMaps

LEMMA EntryType == ASSUME TypeOK, NEW S \in SUBSET Paths
                   PROVE  {Entry(p) : p \in S} \in SUBSET [path : Paths, mtime : Nat]
  BY DEF TypeOK, Entry, Content

LEMMA TypePricingSteps == ASSUME TypeOK, Pricing PROVE TypeOK'
<1> USE DEF env, mem, next, job, TypeOK, Content, Toggle, Stages, Ops
<1>1. CASE PricingBegin
  <2> DEFINE owned == {q \in Paths : OwnsAny(q)}
  <2>1. {Entry(p) : p \in owned} \in SUBSET [path : Paths, mtime : Nat]
    BY EntryType
  <2> QED BY <1>1, <2>1, StartMapsType DEF PricingBegin
<1>2. ASSUME NEW e \in todo, PricingRead(e) PROVE TypeOK'
  BY <1>2 DEF PricingRead
<1>3. CASE PricingKeep
  <2>1. Parsed(cur, got) \in [Ids -> Session]
    BY <1>3, ParsedType DEF PricingKeep
  <2>2. nsrc' \in [Ids -> Session] /\ ntog' \in [Ids -> Toggle]
    BY <1>3, <2>1 DEF PricingKeep
  <2> QED BY <1>3, <2>2, EmptyTypes DEF PricingKeep
<1>4. CASE PricingThrows
  BY <1>4, StartMapsType, EmptyTypes DEF PricingThrows, JobDone
<1>5. CASE PricingFinish
  <2>1. op' \in Ops /\ cur' \in Paths \cup {NoPath} /\ got' \in Content
    BY <1>5, EmptyTypes DEF PricingFinish, JobDone
  <2>2. dirty' \in BOOLEAN
    BY <1>5 DEF PricingFinish
  <2> QED BY <1>5, <2>1, <2>2, StartMapsType DEF PricingFinish
<1> QED BY <1>1, <1>2, <1>3, <1>4, <1>5 DEF Pricing

LEMMA KeepOldType == ASSUME TypeOK, NEW p \in Paths, NEW s \in [Ids -> Session], NEW t \in [Ids -> Toggle],
                            KeepOld(p, s, t)
                     PROVE  nsrc' \in [Ids -> Session] /\ ntog' \in [Ids -> Toggle] /\ nfps' \in [Paths -> Nat]
<1>1. nsrc' \in [Ids -> Session] /\ ntog' \in [Ids -> Toggle]
  BY OwnedType, KeepType DEF KeepOld
<1> QED BY <1>1 DEF KeepOld, TypeOK

LEMMA TypeBootSteps == ASSUME TypeOK, Boot PROVE TypeOK'
<1> USE DEF env, mem, next, job, TypeOK, Content, Toggle, Stages, Ops
<1>1. ASSUME NEW late \in SUBSET Logs, LoadDump(late) PROVE TypeOK'
  <2> DEFINE S == Existing(Logs) \ late
  <2>1. S \in SUBSET Paths /\ heavy' \in SUBSET Paths
    BY <1>1 DEF LoadDump, Existing, Paths
  <2>2. {Entry(p) : p \in S} \in SUBSET [path : Paths, mtime : Nat]
    BY <2>1, EntryType
  <2>3. op' \in Ops /\ todo' \subseteq [path : Paths, mtime : Nat] /\ scope' \subseteq Paths /\ StartMaps
    BY <1>1, <2>1, <2>2 DEF LoadDump, BeginRefresh
  <2>4. sources' \in [Ids -> Session] /\ toggles' \in [Ids -> Toggle] /\ fps' \in [Paths -> Nat] /\ stage' \in Stages
    BY <1>1 DEF LoadDump
  <2> QED BY <1>1, <2>1, <2>3, <2>4, StartMapsType DEF LoadDump
<1>2. ASSUME NEW e \in todo, RefreshReuse(e) PROVE TypeOK'
  <2>1. e.path \in Paths
    OBVIOUS
  <2>2. nsrc' \in [Ids -> Session] /\ ntog' \in [Ids -> Toggle]
    BY <1>2, <2>1, OwnedType, KeepType DEF RefreshReuse
  <2> QED BY <1>2, <2>1, <2>2 DEF RefreshReuse
<1>3. ASSUME NEW e \in todo, RefreshRead(e) PROVE TypeOK'
  BY <1>3 DEF RefreshRead
<1>4. ASSUME NEW e \in todo, RefreshStatFails(e) PROVE TypeOK'
  <2>1. nsrc' \in [Ids -> Session] /\ ntog' \in [Ids -> Toggle] /\ nfps' \in [Paths -> Nat]
    BY <1>4, KeepOldType DEF RefreshStatFails
  <2> QED BY <1>4, <2>1 DEF RefreshStatFails
<1>5. ASSUME NEW e \in todo, ImportRead(e) PROVE TypeOK'
  BY <1>5 DEF ImportRead, ReadFile
<1>6. ASSUME NEW e \in todo, ImportSkip(e) PROVE TypeOK'
  BY <1>6 DEF ImportSkip
<1>7. CASE RefreshKeep
  <2>1. Parsed(cur, got) \in [Ids -> Session]
    BY <1>7, ParsedType DEF RefreshKeep
  <2>2. nsrc' \in [Ids -> Session] /\ ntog' \in [Ids -> Toggle]
    BY <1>7, <2>1, KeepType DEF RefreshKeep
  <2> QED BY <1>7, <2>2, EmptyTypes DEF RefreshKeep
<1>8. CASE RefreshReadFails
  <2>1. nsrc' \in [Ids -> Session] /\ ntog' \in [Ids -> Toggle] /\ nfps' \in [Paths -> Nat]
    BY <1>8, KeepOldType DEF RefreshReadFails
  <2> QED BY <1>8, <2>1, EmptyTypes DEF RefreshReadFails
<1>9. CASE RefreshRestatFails
  <2>1. Parsed(cur, got) \in [Ids -> Session]
    BY <1>9, ParsedType DEF RefreshRestatFails
  <2>2. nsrc' \in [Ids -> Session] /\ ntog' \in [Ids -> Toggle] /\ nfps' \in [Paths -> Nat]
    BY <1>9, <2>1, KeepType, KeepOldType DEF RefreshRestatFails
  <2> QED BY <1>9, <2>2, EmptyTypes DEF RefreshRestatFails
<1>10. CASE RefreshFinish
  <2>1. Survivors \in [Ids -> Session]
    BY DEF Survivors, Session
  <2>2. sources' \in [Ids -> Session] /\ toggles' \in [Ids -> Toggle]
    BY <1>10, <2>1, KeepType DEF RefreshFinish
  <2>3. fps' \in [Paths -> Nat]
    BY <1>10 DEF RefreshFinish
  <2>4. dirty' \in BOOLEAN /\ stage' \in Stages
    BY <1>10 DEF RefreshFinish
  <2>5. Existing(Imports) \in SUBSET Paths
    BY DEF Existing, Paths
  <2>6. {Entry(p) : p \in heavy} \in SUBSET [path : Paths, mtime : Nat]
    BY EntryType
  <2>7. {Entry(p) : p \in Existing(Imports)} \in SUBSET [path : Paths, mtime : Nat]
    BY <2>5, EntryType
  <2>8. /\ op' \in Ops /\ todo' \subseteq [path : Paths, mtime : Nat] /\ scope' \subseteq Paths
        /\ heavy' \subseteq Paths /\ StartMaps
    BY <1>10, <2>6, <2>7 DEF RefreshFinish, BeginRefresh
  <2> QED BY <1>10, <2>2, <2>3, <2>4, <2>8, StartMapsType DEF RefreshFinish
<1>11. CASE Listen
  BY <1>11 DEF Listen
<1> QED BY <1>1, <1>2, <1>3, <1>4, <1>5, <1>6, <1>7, <1>8, <1>9, <1>10, <1>11 DEF Boot

LEMMA TypeStep == TypeOK /\ [Next]_vars => TypeOK'
<1>1. ASSUME TypeOK, UNCHANGED vars PROVE TypeOK'
  BY <1>1 DEF vars, env, mem, next, job, TypeOK
<1> QED BY <1>1, TypeFileSteps, TypePricingSteps, TypeBootSteps DEF Next

\* Every variable keeps its type, for any set of files, sessions and bounds.
THEOREM TypeCorrect == Spec => []TypeOK
  BY TypeInit, TypeStep, PTL DEF Spec

---------------------------------------------------------------------------
\* Steps that only read a file, move on, or belong to other programs.
Quiet == \/ External
         \/ \E p \in Paths : IngestRead(p) \/ UploadRead(p) \/ ListRead(p) \/ DeferredNext(p)
         \/ IngestThrows \/ Listen
         \/ \E e \in todo : PricingRead(e) \/ RefreshRead(e) \/ ImportRead(e) \/ ImportSkip(e)

LEMMA QuietKeepsMaps ==
  ASSUME Quiet
  PROVE  UNCHANGED <<sources, toggles, fps, saved, nsrc, ntog, nfps, raced, moved, usurped>>
  BY DEF Quiet, External, Write, Delete, IngestRead, UploadRead, ListRead, DeferredNext, IngestThrows, Listen,
         PricingRead, RefreshRead, ImportRead, ImportSkip, mem, next, job

\* The steps of Next that assign the catalogue, the dump or the maps being built.
LEMMA NextCases ==
  ASSUME Next
  PROVE  \/ Quiet \/ Patch \/ Dump \/ Crash
         \/ (\E p \in Paths : RemovePath(p)) \/ IngestCommit \/ Relist
         \/ PricingBegin \/ PricingKeep \/ PricingThrows \/ PricingFinish
         \/ (\E late \in SUBSET Logs : LoadDump(late))
         \/ (\E e \in todo : RefreshReuse(e)) \/ (\E e \in todo : RefreshStatFails(e))
         \/ RefreshKeep \/ RefreshReadFails \/ RefreshRestatFails \/ RefreshFinish
  BY DEF Next, Ingest, Relist, Pricing, Boot, Quiet

\* What a live re-read does: the transcript listed as old is listed as new.
Moves(old, new) ==
    /\ op = "list" /\ cur \in Jsonl /\ got.ids = {new} /\ sources[old].path = cur
    /\ sources'[new] = [path |-> cur, ver |-> got.ver] /\ toggles'[new] # "unset"
    /\ toggles[old] # "unset" => toggles'[new] = toggles[old]
    /\ new # old => sources'[old] = Absent /\ toggles'[old] = "unset"
    /\ \A id \in Ids \ {old, new} : sources'[id] = sources[id] /\ toggles'[id] = toggles[id]
    /\ moved' = IF new = old THEN moved ELSE moved \cup {old, new}
    /\ usurped' = IF sources[new].path \in Dbs THEN usurped \cup {new} ELSE usurped
    /\ fps' = [fps EXCEPT ![cur] = disk[cur].ver] /\ raced' = (raced \/ disk[cur] # got)

LEMMA RelistMoves ==
  ASSUME TypeOK, ContentOK, Relist
  PROVE  /\ \E old, new \in Ids : Moves(old, new)
         /\ JobDone /\ UNCHANGED <<env, patches, crashes, saved, stage, dirty, heavy, todo, scope, next>>
<1>1. PICK old \in Ids, new \in got.ids :
        LET carried == IF toggles[old] # "unset" THEN toggles[old] ELSE toggles[new] IN
        /\ op = "list" /\ cur # NoPath /\ sources[old].path = cur
        /\ sources' = [sources EXCEPT ![old] = Absent, ![new] = Parsed(cur, got)[new]]
        /\ toggles' = [toggles EXCEPT ![old] = "unset", ![new] = IF carried = "unset" THEN "default" ELSE carried]
        /\ fps' = [fps EXCEPT ![cur] = disk[cur].ver] /\ raced' = (raced \/ disk[cur] # got)
        /\ moved' = IF new = old THEN moved ELSE moved \cup {old, new}
        /\ usurped' = IF sources[new].path \in Dbs THEN usurped \cup {new} ELSE usurped
        /\ JobDone /\ UNCHANGED <<env, patches, crashes, saved, stage, dirty, heavy, todo, scope, next>>
  BY DEF Relist, ListCommit
<1>2. new \in Ids /\ cur \in Jsonl /\ got.ids = {new}
  BY <1>1 DEF TypeOK, Content, ContentOK, Names
<1>3. Parsed(cur, got)[new] = [path |-> cur, ver |-> got.ver]
  BY <1>1, <1>2 DEF Parsed
<1>4. sources'[new] = [path |-> cur, ver |-> got.ver] /\ (new # old => sources'[old] = Absent)
  BY <1>1, <1>2, <1>3 DEF TypeOK
<1>5. /\ toggles'[new] # "unset" /\ (toggles[old] # "unset" => toggles'[new] = toggles[old])
      /\ new # old => toggles'[old] = "unset"
  BY <1>1, <1>2 DEF TypeOK
<1>6. \A id \in Ids \ {old, new} : sources'[id] = sources[id] /\ toggles'[id] = toggles[id]
  BY <1>1, <1>2 DEF TypeOK
<1>7. Moves(old, new)
  BY <1>1, <1>2, <1>4, <1>5, <1>6 DEF Moves
<1> QED BY <1>1, <1>2, <1>7

LEMMA EmptyMatch == TogglesMatch(NoSources, NoToggles)
  BY DEF TogglesMatch, NoSources, NoToggles

LEMMA KeepMatch ==
  ASSUME NEW snaps, NEW s, NEW t, TogglesMatch(s, t)
  PROVE  TogglesMatch(KeepSources(snaps, s), KeepToggles(snaps, s, t))
  BY DEF TogglesMatch, KeepSources, KeepToggles, Kept

LEMMA TogglesInit == Init => TogglesOK
  BY EmptyMatch DEF Init, TogglesOK, TogglesMatchSources, NoDump

LEMMA TogglesStep ==
  ASSUME TypeOK, ContentOK, TogglesOK, [Next]_vars
  PROVE  TogglesOK'
<1> USE DEF TogglesOK, TogglesMatchSources
<1>1. CASE Quiet \/ UNCHANGED vars
  BY <1>1, QuietKeepsMaps DEF vars, mem, next, job, TogglesMatch
<1>2. CASE Patch
  BY <1>2 DEF Patch, SetToggles, job, next, TogglesMatch, TypeOK
<1>3. CASE Dump
  BY <1>3 DEF Dump, job, next, TogglesMatch
<1>4. CASE Crash
  BY <1>4, EmptyMatch DEF Crash, StartMaps, TogglesMatch
<1>5. ASSUME NEW p \in Paths, RemovePath(p) PROVE TogglesOK'
  BY <1>5 DEF RemovePath, job, next, TogglesMatch, Absent
<1>6. CASE IngestCommit
  BY <1>6 DEF IngestCommit, TypeOK, next, TogglesMatch, Taken, Dropped, Parsed, Absent
<1>7. CASE Relist
  <2>1. PICK old \in Ids, new \in Ids : Moves(old, new)
    BY <1>7, RelistMoves
  <2>2. sources'[new] # Absent /\ (new # old => sources'[old] = Absent)
    BY <2>1 DEF Moves, Absent, Paths, Jsonl
  <2>3. TogglesMatch(sources', toggles')
    BY <2>1, <2>2 DEF Moves, TogglesMatch
  <2> QED BY <1>7, <2>3, RelistMoves DEF next, TogglesMatch
<1>8. CASE PricingBegin \/ PricingThrows
  BY <1>8, EmptyMatch DEF PricingBegin, PricingThrows, StartMaps, mem, TogglesMatch
<1>9. CASE PricingKeep
  BY <1>9 DEF PricingKeep, TypeOK, mem, TogglesMatch, Parsed, Absent
<1>10. CASE PricingFinish
  BY <1>10, EmptyMatch DEF PricingFinish, StartMaps, TogglesMatch
<1>11. ASSUME NEW late \in SUBSET Logs, LoadDump(late) PROVE TogglesOK'
  BY <1>11, EmptyMatch DEF LoadDump, BeginRefresh, StartMaps, TogglesMatch
<1>12. ASSUME NEW e \in todo, RefreshReuse(e) PROVE TogglesOK'
  BY <1>12, KeepMatch DEF RefreshReuse, mem, TogglesMatch
<1>13. ASSUME NEW e \in todo, RefreshStatFails(e) PROVE TogglesOK'
  BY <1>13, KeepMatch DEF RefreshStatFails, KeepOld, mem, TogglesMatch
<1>14. CASE RefreshKeep
  BY <1>14, KeepMatch DEF RefreshKeep, mem, TogglesMatch
<1>15. CASE RefreshReadFails
  BY <1>15, KeepMatch DEF RefreshReadFails, KeepOld, mem, TogglesMatch
<1>16. CASE RefreshRestatFails
  BY <1>16, KeepMatch DEF RefreshRestatFails, KeepOld, mem, TogglesMatch
<1>17. CASE RefreshFinish
  <2>1. TogglesMatch(nsrc', ntog')
    BY <1>17, EmptyMatch DEF RefreshFinish, BeginRefresh, StartMaps, TogglesMatch
  <2>2. TogglesMatch(sources', toggles')
    BY <1>17, KeepMatch DEF RefreshFinish, TogglesMatch
  <2> QED BY <1>17, <2>1, <2>2 DEF RefreshFinish, TogglesMatch
<1> QED BY NextCases, <1>1, <1>2, <1>3, <1>4, <1>5, <1>6, <1>7, <1>8, <1>9, <1>10, <1>11, <1>12, <1>13, <1>14, <1>15, <1>16, <1>17

---------------------------------------------------------------------------
LEMMA OwnIdParsed == ASSUME cur \in Jsonl => Names(cur, got)
                     PROVE  OwnId(Parsed(cur, got))
  BY DEF OwnId, Names, Parsed, Absent, Paths, Jsonl

LEMMA OwnIdKept == ASSUME NEW snaps, NEW s, OwnId(snaps), OwnId(s)
                   PROVE  OwnId(KeepSources(snaps, s))
  BY DEF OwnId, KeepSources

LEMMA OwnIdOwned == ASSUME OwnId(sources), NEW p PROVE OwnId(OwnedBy(p))
  BY DEF OwnId, OwnedBy, Absent, Paths, Jsonl

LEMMA OwnIdEmpty == OwnId(NoSources)
  BY DEF OwnId, NoSources, Absent, Paths, Jsonl

LEMMA ContentInit == Init => ContentOK
<1> SUFFICES ASSUME Init PROVE ContentOK
  OBVIOUS
<1>1. OwnId(sources) /\ OwnId(nsrc)
  BY OwnIdEmpty DEF Init
<1>2. OwnId(saved.src)
  BY OwnIdEmpty DEF Init, NoDump
<1>3. \A p \in Jsonl : disk[p] = Gone
  BY DEF Init, Paths, Jsonl
<1> QED BY <1>1, <1>2, <1>3 DEF Init, ContentOK, Paths, Jsonl

\* The environment and the reads keep what a transcript holds.
LEMMA ContentQuiet ==
  ASSUME TypeOK, ContentOK, Quiet
  PROVE  ContentOK'
<1> USE DEF TypeOK
<1>1. OwnId(sources)' /\ OwnId(saved.src)' /\ OwnId(nsrc)'
  BY QuietKeepsMaps DEF ContentOK, OwnId
<1>2. ASSUME NEW p \in Paths, NEW ids \in SUBSET Ids, Write(p, ids) PROVE ContentOK'
  BY <1>1, <1>2 DEF ContentOK, Names, Write, job, Waiting
<1>3. ASSUME NEW p \in Paths, Delete(p) PROVE ContentOK'
  BY <1>1, <1>3 DEF ContentOK, Delete, job, Waiting
<1>4. ASSUME NEW p \in Paths, IngestRead(p) \/ ListRead(p) PROVE ContentOK'
  BY <1>1, <1>4 DEF ContentOK, IngestRead, ListRead, ReadFile, env, Waiting
<1>5. ASSUME NEW p \in Paths, DeferredNext(p) PROVE ContentOK'
  BY <1>1, <1>5 DEF ContentOK, DeferredNext, Running, ReadFile, env, Waiting
<1>6. ASSUME NEW p \in Paths, UploadRead(p) PROVE ContentOK'
  BY <1>1, <1>6 DEF ContentOK, Names, UploadRead, Waiting, Jsonl
<1>7. CASE IngestThrows
  BY <1>1, <1>7 DEF ContentOK, IngestThrows, JobDone, Waiting, Paths, Jsonl, Gone
<1>8. CASE Listen
  BY <1>1, <1>8 DEF ContentOK, Listen, env, Waiting
<1>9. ASSUME NEW e \in todo, PricingRead(e) \/ RefreshRead(e) PROVE ContentOK'
  BY <1>1, <1>9 DEF ContentOK, PricingRead, RefreshRead, env, Waiting
<1>10. ASSUME NEW e \in todo, ImportRead(e) PROVE ContentOK'
  BY <1>1, <1>10 DEF ContentOK, ImportRead, ReadFile, env, Waiting, Jsonl
<1>11. ASSUME NEW e \in todo, ImportSkip(e) PROVE ContentOK'
  BY <1>1, <1>11 DEF ContentOK, ImportSkip, env, Waiting
<1> QED BY <1>2, <1>3, <1>4, <1>5, <1>6, <1>7, <1>8, <1>9, <1>10, <1>11 DEF Quiet, External

LEMMA ContentStep ==
  ASSUME TypeOK, ContentOK, [Next]_vars
  PROVE  ContentOK'
<1> USE DEF ContentOK, Waiting
<1>1. NoPath \notin Jsonl
  BY DEF Paths, Jsonl
<1>2. CASE UNCHANGED vars
  BY <1>2 DEF vars, env, mem, next, job, OwnId
<1>3. CASE Patch \/ Dump
  BY <1>3 DEF Patch, SetToggles, Dump, env, job, next, OwnId
<1>4. CASE Crash
  BY <1>1, <1>4, OwnIdEmpty DEF Crash, JobKilled, StartMaps, env, OwnId
<1>5. ASSUME NEW p \in Paths, RemovePath(p) PROVE ContentOK'
  BY <1>1, <1>5 DEF RemovePath, env, job, next, OwnId, Absent
<1>6. CASE IngestCommit
  <2>1. OwnId(sources')
    BY <1>1, <1>6, OwnIdParsed DEF IngestCommit, OwnId, Absent
  <2> QED BY <1>1, <1>6, <2>1 DEF IngestCommit, JobDone, env, next, OwnId
<1>7. CASE Relist
  <2>1. OwnId(sources')
    <3>1. PICK old \in Ids, new \in Ids : Moves(old, new)
      BY <1>7, RelistMoves
    <3>2. new \in MayName(cur) /\ Absent.path \notin Jsonl
      BY <1>1, <3>1 DEF Moves, Names, Absent
    <3>3. \A id \in Ids : sources'[id] \in {sources[id], Absent} \/ (id = new /\ sources'[id].path = cur)
      BY <3>1 DEF Moves
    <3> QED BY <3>2, <3>3 DEF OwnId
  <2> QED BY <1>1, <1>7, <2>1, RelistMoves DEF JobDone, env, next, OwnId
<1>8. CASE PricingBegin \/ PricingThrows
  BY <1>1, <1>8, OwnIdEmpty DEF PricingBegin, PricingThrows, JobDone, StartMaps, env, mem, OwnId
<1>9. CASE PricingKeep
  <2>1. OwnId(nsrc')
    BY <1>9, OwnIdParsed DEF PricingKeep, OwnId
  <2> QED BY <1>1, <1>9, <2>1 DEF PricingKeep, env, mem, OwnId
<1>10. CASE PricingFinish
  BY <1>1, <1>10, OwnIdEmpty DEF PricingFinish, JobDone, StartMaps, env, OwnId
<1>11. ASSUME NEW late \in SUBSET Logs, LoadDump(late) PROVE ContentOK'
  BY <1>11, OwnIdEmpty DEF LoadDump, BeginRefresh, StartMaps, env, OwnId
<1>12. ASSUME NEW e \in todo, RefreshReuse(e) PROVE ContentOK'
  BY <1>12, OwnIdKept, OwnIdOwned DEF RefreshReuse, env, mem, OwnId
<1>13. ASSUME NEW e \in todo, RefreshStatFails(e) PROVE ContentOK'
  BY <1>13, OwnIdKept, OwnIdOwned DEF RefreshStatFails, KeepOld, env, mem, OwnId
<1>14. CASE RefreshKeep
  BY <1>1, <1>14, OwnIdKept, OwnIdParsed DEF RefreshKeep, env, mem, OwnId
<1>15. CASE RefreshReadFails
  BY <1>1, <1>15, OwnIdKept, OwnIdOwned DEF RefreshReadFails, KeepOld, env, mem, OwnId
<1>16. CASE RefreshRestatFails
  BY <1>1, <1>16, OwnIdKept, OwnIdOwned, OwnIdParsed DEF RefreshRestatFails, KeepOld, env, mem, OwnId
<1>17. CASE RefreshFinish
  <2>1. OwnId(Survivors)
    BY <1>1 DEF Survivors, OwnId, Absent
  <2>2. OwnId(sources')
    BY <1>17, <2>1, OwnIdKept DEF RefreshFinish, OwnId
  <2>3. OwnId(nsrc') /\ OwnId(saved'.src) /\ UNCHANGED <<disk, cur, got>>
    BY <1>17, OwnIdEmpty DEF RefreshFinish, BeginRefresh, StartMaps, env, OwnId
  <2>4. cur' = NoPath /\ (op' = "refresh" \/ (op' = "import" /\ Waiting' \subseteq Imports))
    BY <1>17 DEF RefreshFinish, BeginRefresh, Entry, Existing
  <2> QED BY <1>1, <2>2, <2>3, <2>4
<1> QED BY NextCases, ContentQuiet, <1>2, <1>3, <1>4, <1>5, <1>6, <1>7, <1>8, <1>9, <1>10, <1>11, <1>12, <1>13, <1>14, <1>15, <1>16, <1>17

---------------------------------------------------------------------------
LEMMA NotYetEmpty == ASSUME NEW p \in Paths, StartMaps
                     PROVE  NotYet(p)'
  BY DEF NotYet, StartMaps, NoSources, NoFps, Absent

LEMMA EntryOnce == ASSUME NEW S \in SUBSET Paths
                   PROVE  /\ \A e, f \in {Entry(p) : p \in S} : e.path = f.path => e = f
                          /\ {e.path : e \in {Entry(p) : p \in S}} = S
<1>1. \A p : Entry(p).path = p
  BY DEF Entry
<1>2. ASSUME NEW p \in S PROVE p \in {e.path : e \in {Entry(q) : q \in S}}
  BY <1>1
<1>3. ASSUME NEW p \in {e.path : e \in {Entry(q) : q \in S}} PROVE p \in S
  BY <1>1, <1>3
<1>4. \A e, f \in {Entry(p) : p \in S} : e.path = f.path => e = f
  BY <1>1
<1> QED BY <1>2, <1>3, <1>4

\* A file's own sessions and its parse are under its own path.
LEMMA KeptIs == ASSUME NEW snaps, NEW s
                PROVE  \A id \in Ids : KeepSources(snaps, s)[id] \in {snaps[id], s[id]}
  BY DEF KeepSources

LEMMA OwnedPath == ASSUME NEW p PROVE \A id \in Ids : OwnedBy(p)[id].path \in {p, NoPath}
  BY DEF OwnedBy, Absent

LEMMA ParsedPath == ASSUME NEW p, NEW c PROVE \A id \in Ids : Parsed(p, c)[id].path \in {p, NoPath}
  BY DEF Parsed, Absent

LEMMA VisitInit == Init => VisitOnce
  BY DEF Init, VisitOnce, Waiting

LEMMA VisitQuiet ==
  ASSUME TypeOK, VisitOnce, Quiet
  PROVE  VisitOnce'
<1> USE DEF VisitOnce, Waiting, NotYet
<1>1. ASSUME NEW p \in Paths, NEW ids \in SUBSET Ids, Write(p, ids) \/ Delete(p) PROVE VisitOnce'
  BY <1>1 DEF Write, Delete, job, next
<1>2. ASSUME NEW p \in Paths, IngestRead(p) \/ ListRead(p) \/ UploadRead(p) PROVE VisitOnce'
  BY <1>2 DEF IngestRead, ListRead, UploadRead, Running, ReadFile
<1>3. ASSUME NEW p \in Paths, DeferredNext(p) PROVE VisitOnce'
  BY <1>3 DEF DeferredNext, Running, ReadFile, next
<1>4. CASE IngestThrows
  BY <1>4 DEF IngestThrows, JobDone, TypeOK
<1>5. CASE Listen
  BY <1>5 DEF Listen
<1>6. ASSUME NEW e \in todo, PricingRead(e) PROVE VisitOnce'
  BY <1>6 DEF PricingRead, TypeOK, next, mem
<1>7. ASSUME NEW e \in todo, RefreshRead(e) PROVE VisitOnce'
  BY <1>7 DEF RefreshRead, TypeOK
<1>8. ASSUME NEW e \in todo, ImportRead(e) \/ ImportSkip(e) PROVE VisitOnce'
  BY <1>8 DEF ImportRead, ImportSkip, ReadFile, TypeOK
<1> QED BY <1>1, <1>2, <1>3, <1>4, <1>5, <1>6, <1>7, <1>8 DEF Quiet, External

\* Keeping a file's old sessions after a failure, or its new parse, only gives
\* entries to that file.
OnlyTouches(p) ==
    /\ \A q \in Paths : q # p => nfps'[q] = nfps[q]
    /\ \A q \in Paths : q # p => ((\A id \in Ids : nsrc[id].path # q) => \A id \in Ids : nsrc'[id].path # q)

LEMMA VisitKept ==
  ASSUME TypeOK, VisitOnce, op = "refresh", op' = op, scope' = scope, stage' = stage, cur' = NoPath,
         NEW p, p \in scope, p \notin Waiting', todo' \subseteq todo, OnlyTouches(p)
  PROVE  VisitOnce'
<1> USE DEF VisitOnce, NotYet, OnlyTouches
<1>1. \A e, f \in todo' : e.path = f.path => e = f
  OBVIOUS
<1>2. NoPath \notin Waiting'
  BY DEF TypeOK, Waiting
<1>3. Waiting' \subseteq scope'
  BY DEF Waiting
<1>4. \A q \in Paths : q \in Waiting' => NotYet(q)'
  BY DEF Waiting
<1>5. \A q \in Paths \ scope : NotYet(q)'
  OBVIOUS
<1> QED BY <1>1, <1>2, <1>3, <1>4, <1>5

LEMMA VisitStep ==
  ASSUME TypeOK, VisitOnce, [Next]_vars
  PROVE  VisitOnce'
<1> USE DEF VisitOnce
<1>1. CASE UNCHANGED vars
  BY <1>1 DEF vars, mem, next, job, Waiting, NotYet
<1>2. CASE Patch \/ Dump
  BY <1>2 DEF Patch, SetToggles, Dump, job, next, Waiting, NotYet
<1>3. CASE Crash
  BY <1>3 DEF Crash, JobKilled, Waiting
<1>4. ASSUME NEW p \in Paths, RemovePath(p) PROVE VisitOnce'
  BY <1>4 DEF RemovePath, job, next, Waiting, NotYet
<1>5. CASE IngestCommit
  BY <1>5 DEF IngestCommit, JobDone, Waiting, TypeOK
<1>6. CASE Relist
  BY <1>6 DEF Relist, ListCommit, JobDone, Waiting, TypeOK
<1>7. CASE PricingBegin
  <2> DEFINE S == {q \in Paths : OwnsAny(q)}
  <2>1. todo' = {Entry(p) : p \in S} /\ cur' = NoPath /\ op' = "pricing" /\ StartMaps /\ stage' # "down"
    BY <1>7 DEF PricingBegin, Running
  <2>2. \A e, f \in todo' : e.path = f.path => e = f
    BY <2>1, EntryOnce
  <2>3. Waiting' = S
    BY <2>1, EntryOnce DEF Waiting
  <2> QED BY <2>1, <2>2, <2>3, NotYetEmpty
<1>8. CASE PricingThrows \/ PricingFinish
  BY <1>8 DEF PricingThrows, PricingFinish, JobDone, Waiting
<1>9. CASE PricingKeep
  <2>1. \A q \in Paths : q \in Waiting' => q # cur /\ q \in Waiting
    BY <1>9 DEF PricingKeep, Waiting
  <2>2. \A q \in Waiting : NotYet(q)
    BY <1>9 DEF PricingKeep, TypeOK, Waiting
  <2>3. \A q \in Paths : q # cur /\ NotYet(q) => NotYet(q)'
    BY <1>9 DEF PricingKeep, NotYet, Parsed, Absent, TypeOK
  <2>4. NoPath \notin Waiting'
    BY <1>9 DEF PricingKeep, Waiting, TypeOK
  <2> QED BY <1>9, <2>1, <2>2, <2>3, <2>4 DEF PricingKeep, mem
<1>10. ASSUME NEW late \in SUBSET Logs, LoadDump(late) PROVE VisitOnce'
  <2> DEFINE S == Existing(Logs) \ late
  <2>1. todo' = {Entry(p) : p \in S} /\ scope' = S /\ cur' = NoPath /\ op' = "refresh" /\ StartMaps /\ stage' = "light"
    BY <1>10 DEF LoadDump, BeginRefresh
  <2>2. S \in SUBSET Paths
    BY DEF Existing, Paths
  <2>3. \A e, f \in todo' : e.path = f.path => e = f
    BY <2>1, <2>2, EntryOnce
  <2>4. Waiting' = S
    BY <2>1, <2>2, EntryOnce DEF Waiting
  <2> QED BY <2>1, <2>2, <2>3, <2>4, NotYetEmpty
<1>11. ASSUME NEW e \in todo, RefreshReuse(e) PROVE VisitOnce'
  <2>1. e.path \in scope /\ e.path \notin Waiting' /\ todo' \subseteq todo
    BY <1>11 DEF RefreshReuse, Waiting
  <2>2. OnlyTouches(e.path)
    <3>1. \A q \in Paths : q # e.path => nfps'[q] = nfps[q]
      BY <1>11 DEF RefreshReuse, TypeOK
    <3>2. \A id \in Ids : nsrc'[id] \in {OwnedBy(e.path)[id], nsrc[id]}
      BY <1>11, KeptIs DEF RefreshReuse
    <3>3. \A id \in Ids : nsrc'[id] = nsrc[id] \/ nsrc'[id].path \in {e.path, NoPath}
      BY <3>2, OwnedPath
    <3> QED BY <3>1, <3>3 DEF OnlyTouches
  <2>3. op = "refresh" /\ op' = op /\ scope' = scope /\ stage' = stage /\ cur' = NoPath
    BY <1>11 DEF RefreshReuse
  <2> HIDE DEF VisitOnce
  <2> QED BY <2>1, <2>2, <2>3, VisitKept
<1>12. ASSUME NEW e \in todo, RefreshStatFails(e) PROVE VisitOnce'
  <2>1. e.path \in scope /\ e.path \notin Waiting' /\ todo' \subseteq todo
    BY <1>12 DEF RefreshStatFails, Waiting
  <2>2. OnlyTouches(e.path)
    <3>1. \A q \in Paths : q # e.path => nfps'[q] = nfps[q]
      BY <1>12 DEF RefreshStatFails, KeepOld, TypeOK
    <3>2. \A id \in Ids : nsrc'[id] \in {OwnedBy(e.path)[id], nsrc[id]}
      BY <1>12, KeptIs DEF RefreshStatFails, KeepOld
    <3>3. \A id \in Ids : nsrc'[id] = nsrc[id] \/ nsrc'[id].path \in {e.path, NoPath}
      BY <3>2, OwnedPath
    <3> QED BY <3>1, <3>3 DEF OnlyTouches
  <2>3. op = "refresh" /\ op' = op /\ scope' = scope /\ stage' = stage /\ cur' = NoPath
    BY <1>12 DEF RefreshStatFails
  <2> HIDE DEF VisitOnce
  <2> QED BY <2>1, <2>2, <2>3, VisitKept
<1>13. CASE RefreshKeep
  <2>1. cur \in scope /\ cur \notin Waiting' /\ todo' \subseteq todo
    BY <1>13 DEF RefreshKeep, Waiting
  <2>2. OnlyTouches(cur)
    <3>1. \A q \in Paths : q # cur => nfps'[q] = nfps[q]
      BY <1>13 DEF RefreshKeep, TypeOK
    <3>2. \A id \in Ids : nsrc'[id] \in {Parsed(cur, got)[id], nsrc[id]}
      BY <1>13, KeptIs DEF RefreshKeep
    <3>3. \A id \in Ids : nsrc'[id] = nsrc[id] \/ nsrc'[id].path \in {cur, NoPath}
      BY <3>2, ParsedPath
    <3> QED BY <3>1, <3>3 DEF OnlyTouches
  <2>3. op = "refresh" /\ op' = op /\ scope' = scope /\ stage' = stage /\ cur' = NoPath
    BY <1>13 DEF RefreshKeep
  <2> HIDE DEF VisitOnce
  <2> QED BY <2>1, <2>2, <2>3, VisitKept
<1>14. CASE RefreshReadFails
  <2>1. cur \in scope /\ cur \notin Waiting' /\ todo' \subseteq todo
    BY <1>14 DEF RefreshReadFails, Waiting
  <2>2. OnlyTouches(cur)
    <3>1. \A q \in Paths : q # cur => nfps'[q] = nfps[q]
      BY <1>14 DEF RefreshReadFails, KeepOld, TypeOK
    <3>2. \A id \in Ids : nsrc'[id] \in {OwnedBy(cur)[id], nsrc[id]}
      BY <1>14, KeptIs DEF RefreshReadFails, KeepOld
    <3>3. \A id \in Ids : nsrc'[id] = nsrc[id] \/ nsrc'[id].path \in {cur, NoPath}
      BY <3>2, OwnedPath
    <3> QED BY <3>1, <3>3 DEF OnlyTouches
  <2>3. op = "refresh" /\ op' = op /\ scope' = scope /\ stage' = stage /\ cur' = NoPath
    BY <1>14 DEF RefreshReadFails
  <2> HIDE DEF VisitOnce
  <2> QED BY <2>1, <2>2, <2>3, VisitKept
<1>15. CASE RefreshRestatFails
  <2>1. cur \in scope /\ cur \notin Waiting' /\ todo' \subseteq todo
    BY <1>15 DEF RefreshRestatFails, Waiting
  <2>2. OnlyTouches(cur)
    <3>1. \A q \in Paths : q # cur => nfps'[q] = nfps[q]
      BY <1>15 DEF RefreshRestatFails, KeepOld, TypeOK
    <3>2. \A id \in Ids : nsrc'[id] \in {OwnedBy(cur)[id], Parsed(cur, got)[id], nsrc[id]}
      BY <1>15, KeptIs DEF RefreshRestatFails, KeepOld
    <3>3. \A id \in Ids : nsrc'[id] = nsrc[id] \/ nsrc'[id].path \in {cur, NoPath}
      BY <3>2, OwnedPath, ParsedPath
    <3> QED BY <3>1, <3>3 DEF OnlyTouches
  <2>3. op = "refresh" /\ op' = op /\ scope' = scope /\ stage' = stage /\ cur' = NoPath
    BY <1>15 DEF RefreshRestatFails
  <2> HIDE DEF VisitOnce
  <2> QED BY <2>1, <2>2, <2>3, VisitKept
<1>16. CASE RefreshFinish
  <2>1. cur' = NoPath /\ StartMaps /\ stage' # "down"
    BY <1>16 DEF RefreshFinish, BeginRefresh
  <2>2. PICK S \in SUBSET Paths : /\ todo' = {Entry(p) : p \in S}
                                  /\ (op' = "refresh" /\ scope' = S) \/ op' = "import"
    BY <1>16 DEF RefreshFinish, BeginRefresh, Existing, Paths, TypeOK
  <2>3. \A e, f \in todo' : e.path = f.path => e = f
    BY <2>2, EntryOnce
  <2>4. Waiting' = S
    BY <2>2, EntryOnce DEF Waiting
  <2> QED BY <2>1, <2>2, <2>3, <2>4, NotYetEmpty
<1> QED BY NextCases, VisitQuiet, <1>1, <1>2, <1>3, <1>4, <1>5, <1>6, <1>7, <1>8, <1>9, <1>10, <1>11, <1>12, <1>13, <1>14, <1>15, <1>16

---------------------------------------------------------------------------
LEMMA OneInit == Init => OneName
  BY DEF Init, NoDump, OneName, OneEach, NoSources, Absent, Paths, Jsonl

LEMMA EmptyOne == OneEach(NoSources)
  BY DEF OneEach, NoSources, Absent, Paths, Jsonl

LEMMA KeptNew == ASSUME NEW snaps, NEW s
                 PROVE  \A id \in Ids : \/ KeepSources(snaps, s)[id] = s[id]
                                        \/ snaps[id] # Absent /\ KeepSources(snaps, s)[id] = snaps[id]
  BY DEF KeepSources, Kept

LEMMA OwnedIs == ASSUME NEW p, NEW id \in Ids, OwnedBy(p)[id] # Absent
                 PROVE  OwnedBy(p)[id] = sources[id] /\ sources[id].path = p
  BY DEF OwnedBy

LEMMA ParsedIs == ASSUME NEW p, NEW c, NEW id \in Ids, Parsed(p, c)[id] # Absent
                  PROVE  /\ Parsed(p, c)[id].path = p /\ Parsed(p, c)[id].ver = c.ver
                         /\ id \in c.ids
  BY DEF Parsed

\* A file that had no entry in the map being built gets one at most.
LEMMA OneFile ==
  ASSUME OneEach(nsrc), NEW p, NEW S, p \in Jsonl => \A a, b \in S : a = b,
         \A id \in Ids : nsrc[id].path # p,
         \A id \in Ids : nsrc'[id] = nsrc[id] \/ (nsrc'[id].path = p /\ id \in S)
  PROVE  OneEach(nsrc')
<1> SUFFICES ASSUME NEW a \in Ids, NEW b \in Ids, nsrc'[a].path \in Jsonl, nsrc'[b].path = nsrc'[a].path
             PROVE  a = b
  BY DEF OneEach
<1>1. CASE nsrc'[a].path = p
  <2>1. a \in S /\ b \in S
    BY <1>1
  <2> QED BY <1>1, <2>1
<1>2. CASE nsrc'[a].path # p
  BY <1>2 DEF OneEach
<1> QED BY <1>1, <1>2

LEMMA OneOld ==
  ASSUME OneEach(sources), OneEach(nsrc), NEW p \in Paths, NotYet(p), nsrc' = KeepSources(OwnedBy(p), nsrc)
  PROVE  OneEach(nsrc')
<1> DEFINE S == {id \in Ids : sources[id].path = p}
<1>1. p \in Jsonl => \A a, b \in S : a = b
  BY DEF OneEach
<1>2. \A id \in Ids : nsrc'[id] = nsrc[id] \/ (nsrc'[id].path = p /\ id \in S)
  BY KeptNew, OwnedIs
<1>3. \A id \in Ids : nsrc[id].path # p
  BY DEF NotYet
<1> HIDE DEF S
<1> QED BY <1>1, <1>2, <1>3, OneFile

\* A step that takes in a file whose name has changed leaves it listed once: the
\* session it was listed as has gone, unless the file vanished meanwhile (raced).
LEMMA OneStep ==
  ASSUME TypeOK, ContentOK, VisitOnce, OneName, [Next]_vars, ~raced'
  PROVE  OneName'
<1> USE DEF OneName
<1>1. CASE Quiet \/ UNCHANGED vars
  BY <1>1, QuietKeepsMaps DEF vars, mem, next, job, OneEach
<1>2. CASE Patch \/ Dump
  BY <1>2 DEF Patch, SetToggles, Dump, job, next, OneEach
<1>3. CASE Crash
  BY <1>3, EmptyOne DEF Crash, StartMaps, OneEach
<1>4. ASSUME NEW p \in Paths, RemovePath(p) PROVE OneName'
  <2>1. OneEach(sources')
    BY <1>4 DEF RemovePath, OneEach, Absent, Paths, Jsonl
  <2> QED BY <1>4, <2>1 DEF RemovePath, job, next, OneEach
<1>5. CASE IngestCommit
  <2>1. ~raced /\ cur \in Paths
    BY <1>5 DEF IngestCommit, TypeOK
  <2>2. \A id \in Ids : \/ sources'[id] = Absent
                        \/ sources'[id].path = cur /\ id \in got.ids
                        \/ sources'[id] = sources[id] /\ sources[id].path # cur
    BY <1>5 DEF IngestCommit, Taken, Dropped, Parsed
  <2>3. cur \in Jsonl => \A a, b \in got.ids : a = b
    BY DEF ContentOK, Names
  <2>4. Absent.path \notin Jsonl
    BY DEF Absent, Paths, Jsonl
  <2>5. OneEach(sources')
    BY <2>1, <2>2, <2>3, <2>4 DEF OneEach
  <2> QED BY <1>5, <2>1, <2>5 DEF IngestCommit, next, OneEach
<1>6. CASE Relist
  <2>1. PICK old \in Ids, new \in Ids : Moves(old, new)
    BY <1>6, RelistMoves
  <2>2. ~raced /\ Absent.path \notin Jsonl
    BY <2>1 DEF Moves, Absent, Paths, Jsonl
  <2>3. \A id \in Ids : \/ sources'[id] = Absent
                        \/ sources'[id].path = cur /\ id = new
                        \/ sources'[id] = sources[id] /\ sources[id].path # cur
    BY <2>1, <2>2 DEF Moves, OneEach
  <2>4. OneEach(sources')
    BY <2>2, <2>3 DEF OneEach
  <2> QED BY <1>6, <2>2, <2>4, RelistMoves DEF next, OneEach
<1>7. CASE PricingBegin \/ PricingThrows
  BY <1>7, EmptyOne DEF PricingBegin, PricingThrows, StartMaps, mem, OneEach
<1>8. CASE PricingKeep
  <2>1. ~raced /\ cur \in Paths /\ NotYet(cur)
    BY <1>8 DEF PricingKeep, TypeOK, VisitOnce
  <2>2. \A id \in Ids : nsrc'[id] = nsrc[id] \/ (nsrc'[id].path = cur /\ id \in got.ids)
    BY <1>8 DEF PricingKeep, Parsed
  <2>3. OneEach(nsrc')
    BY <2>1, <2>2, OneFile DEF ContentOK, Names, NotYet
  <2> QED BY <1>8, <2>1, <2>3 DEF PricingKeep, mem, OneEach
<1>9. CASE PricingFinish
  BY <1>9, EmptyOne DEF PricingFinish, StartMaps, OneEach
<1>10. ASSUME NEW late \in SUBSET Logs, LoadDump(late) PROVE OneName'
  BY <1>10, EmptyOne DEF LoadDump, BeginRefresh, StartMaps, OneEach
<1>11. ASSUME NEW e \in todo, RefreshReuse(e) \/ RefreshStatFails(e) PROVE OneName'
  <2>1. /\ ~raced /\ e.path \in Paths /\ NotYet(e.path)
        /\ nsrc' = KeepSources(OwnedBy(e.path), nsrc)
    BY <1>11 DEF RefreshReuse, RefreshStatFails, KeepOld, TypeOK, VisitOnce, Waiting
  <2>2. OneEach(nsrc')
    BY <2>1, OneOld
  <2> QED BY <1>11, <2>1, <2>2 DEF RefreshReuse, RefreshStatFails, mem, OneEach
<1>12. CASE RefreshKeep
  <2>1. ~raced /\ cur \in Paths /\ NotYet(cur)
    BY <1>12 DEF RefreshKeep, TypeOK, VisitOnce
  <2>2. \A id \in Ids : nsrc'[id] = nsrc[id] \/ (nsrc'[id].path = cur /\ id \in got.ids)
    BY <1>12, KeptNew, ParsedIs DEF RefreshKeep
  <2>3. OneEach(nsrc')
    BY <2>1, <2>2, OneFile DEF ContentOK, Names, NotYet
  <2> QED BY <1>12, <2>1, <2>3 DEF RefreshKeep, mem, OneEach
<1>13. CASE RefreshReadFails
  <2>1. ~raced /\ cur \in Paths /\ NotYet(cur) /\ nsrc' = KeepSources(OwnedBy(cur), nsrc)
    BY <1>13 DEF RefreshReadFails, KeepOld, TypeOK, VisitOnce
  <2>2. OneEach(nsrc')
    BY <2>1, OneOld
  <2> QED BY <1>13, <2>1, <2>2 DEF RefreshReadFails, mem, OneEach
<1>14. CASE RefreshRestatFails
  BY <1>14 DEF RefreshRestatFails
<1>15. CASE RefreshFinish
  <2>1. ~raced /\ UNCHANGED saved /\ (nsrc' = NoSources \/ UNCHANGED nsrc)
    BY <1>15 DEF RefreshFinish, BeginRefresh, StartMaps
  <2>2. \A id \in Ids : \/ sources'[id] = nsrc[id]
                        \/ sources'[id] = sources[id] /\ sources[id].path \notin scope
    BY <1>15, KeptNew DEF RefreshFinish, Survivors
  <2>3. \A id \in Ids : nsrc[id].path \in Jsonl => nsrc[id].path \in scope
    BY <1>15 DEF RefreshFinish, VisitOnce, NotYet, Jsonl, Paths
  <2>4. OneEach(sources')
    BY <2>1, <2>2, <2>3 DEF OneEach
  <2> QED BY <2>1, <2>4, EmptyOne
<1> QED BY NextCases, <1>1, <1>2, <1>3, <1>4, <1>5, <1>6, <1>7, <1>8, <1>9, <1>10, <1>11, <1>12, <1>13, <1>14, <1>15

---------------------------------------------------------------------------
LEMMA EmptyDescribed == ASSUME NEW f PROVE Describes(NoSources, f, Watched)
  BY DEF Describes, NoSources, Absent, Watched, Paths

LEMMA DescribedInit == Init => Described
<1> SUFFICES ASSUME Init PROVE Described
  OBVIOUS
<1>1. saved.src = NoSources
  BY DEF Init, NoDump
<1> QED BY <1>1, EmptyDescribed DEF Init, Described

\* A file that had no entry in the maps being built gets entries of one version
\* and that version's fingerprint.
LEMMA DescribeFile ==
  ASSUME TypeOK, Describes(nsrc, nfps, Watched), NEW p \in Paths, NEW v,
         \A id \in Ids : nsrc[id].path # p,
         \A id \in Ids : nsrc'[id] = nsrc[id] \/ (nsrc'[id].path = p /\ (p \in Watched => nsrc'[id].ver = v)),
         nfps' = [nfps EXCEPT ![p] = v]
  PROVE  Describes(nsrc', nfps', Watched)
<1> SUFFICES ASSUME NEW id \in Ids, nsrc'[id].path \in Watched
             PROVE  nfps'[nsrc'[id].path] = nsrc'[id].ver
  BY DEF Describes
<1>1. CASE nsrc'[id] = nsrc[id]
  <2>1. nsrc[id].path \in Paths /\ nsrc[id].path # p
    BY <1>1 DEF Watched, Paths
  <2>2. nfps[nsrc[id].path] = nsrc[id].ver
    BY <1>1 DEF Describes
  <2> QED BY <1>1, <2>1, <2>2 DEF TypeOK
<1>2. CASE nsrc'[id].path = p /\ (p \in Watched => nsrc'[id].ver = v)
  BY <1>2 DEF TypeOK
<1> QED BY <1>1, <1>2

\* What refresh keeps of the old store for a file whose stat or read failed.
LEMMA DescribedOld ==
  ASSUME TypeOK, Describes(sources, fps, Watched), Describes(nsrc, nfps, Watched),
         NEW p \in Paths, NotYet(p), KeepOld(p, nsrc, ntog)
  PROVE  Describes(nsrc', nfps', Watched)
<1>1. \A id \in Ids : nsrc'[id] = nsrc[id] \/ (nsrc'[id].path = p /\ (p \in Watched => nsrc'[id].ver = fps[p]))
  BY KeptNew, OwnedIs DEF KeepOld, Describes
<1>2. nfps' = [nfps EXCEPT ![p] = fps[p]]
  BY DEF KeepOld, NotYet, TypeOK
<1> QED BY <1>1, <1>2, DescribeFile DEF NotYet

LEMMA DescribedStep ==
  ASSUME TypeOK, ContentOK, VisitOnce, OneName, Described, [Next]_vars, ~raced'
  PROVE  Described'
<1>1. CASE Quiet \/ UNCHANGED vars
  BY <1>1, QuietKeepsMaps DEF Described, vars, mem, next, job, Describes
<1>2. CASE Patch \/ Dump
  BY <1>2 DEF Described, Patch, SetToggles, Dump, job, next, Describes
<1>3. CASE Crash
  BY <1>3, EmptyDescribed DEF Described, Crash, StartMaps, Describes
<1>4. ASSUME NEW p \in Paths, RemovePath(p) PROVE Described'
  <2>1. Describes(sources, fps, Watched)'
    BY <1>4 DEF Described, RemovePath, Describes, TypeOK, Absent, Watched, Paths
  <2> QED BY <1>4, <2>1 DEF Described, RemovePath, job, next, Describes
<1>5. CASE IngestCommit
  <2>1. ~raced /\ disk[cur] = got /\ cur \in Paths
    BY <1>5 DEF IngestCommit, TypeOK
  <2>2. ASSUME NEW id \in Ids, sources'[id].path \in Watched
        PROVE  fps'[sources'[id].path] = sources'[id].ver
    <3>1. CASE id \in Taken
      BY <1>5, <2>1, <3>1 DEF IngestCommit, Taken, Parsed, TypeOK
    <3>2. CASE id \in Dropped
      BY <1>5, <2>2, <3>2 DEF IngestCommit, Taken, Dropped, Absent, Watched, Paths
    <3>3. CASE id \notin Taken /\ id \notin Dropped
      <4>1. sources'[id] = sources[id]
        BY <1>5, <3>3 DEF IngestCommit
      <4>2. sources[id].path # cur
        BY <1>5, <2>2, <3>3, <4>1 DEF ContentOK, IngestCommit, Taken, Dropped, Skips, YieldsToDb, Watched
      <4>3. fps[sources[id].path] = sources[id].ver /\ sources[id].path \in Paths
        BY <2>1, <2>2, <4>1 DEF Described, Describes, Watched, Paths
      <4> QED BY <1>5, <4>1, <4>2, <4>3 DEF IngestCommit, TypeOK
    <3> QED BY <3>1, <3>2, <3>3
  <2> QED BY <1>5, <2>1, <2>2 DEF Described, IngestCommit, next, Describes
<1>6. CASE Relist
  <2>1. PICK old \in Ids, new \in Ids : Moves(old, new)
    BY <1>6, RelistMoves
  <2>2. ~raced /\ disk[cur] = got /\ cur \in Paths /\ Absent.path \notin Watched
    BY <2>1 DEF Moves, Jsonl, Paths, Absent, Watched
  <2>3. ASSUME NEW id \in Ids, sources'[id].path \in Watched
        PROVE  fps'[sources'[id].path] = sources'[id].ver
    <3>1. CASE id = new
      BY <2>1, <2>2, <3>1 DEF Moves, TypeOK
    <3>2. CASE id # new
      <4>1. sources'[id] = sources[id] /\ sources[id].path # cur
        BY <2>1, <2>2, <2>3, <3>2 DEF Moves, OneName, OneEach
      <4>2. fps[sources[id].path] = sources[id].ver /\ sources[id].path \in Paths
        BY <2>2, <2>3, <4>1 DEF Described, Describes, Watched, Paths
      <4> QED BY <2>1, <4>1, <4>2 DEF Moves, TypeOK
    <3> QED BY <3>1, <3>2
  <2> QED BY <1>6, <2>2, <2>3, RelistMoves DEF Described, next, Describes
<1>7. CASE PricingBegin \/ PricingThrows
  BY <1>7, EmptyDescribed DEF Described, PricingBegin, PricingThrows, StartMaps, mem, Describes
<1>8. CASE PricingKeep
  <2>1. ~raced /\ disk[cur] = got /\ cur \in Paths /\ NotYet(cur)
    BY <1>8 DEF PricingKeep, TypeOK, VisitOnce
  <2>2. \A id \in Ids : nsrc'[id] = nsrc[id] \/ (nsrc'[id].path = cur /\ (cur \in Watched => nsrc'[id].ver = got.ver))
    BY <1>8 DEF PricingKeep, Parsed
  <2>3. nfps' = [nfps EXCEPT ![cur] = got.ver]
    BY <1>8, <2>1 DEF PricingKeep
  <2>4. Describes(nsrc', nfps', Watched)
    BY <2>1, <2>2, <2>3, DescribeFile DEF Described, NotYet
  <2> QED BY <1>8, <2>1, <2>4 DEF Described, PricingKeep, mem, Describes
<1>9. CASE PricingFinish
  BY <1>9, EmptyDescribed DEF Described, PricingFinish, StartMaps, Describes
<1>10. ASSUME NEW late \in SUBSET Logs, LoadDump(late) PROVE Described'
  BY <1>10, EmptyDescribed DEF Described, LoadDump, BeginRefresh, StartMaps, Describes
<1>11. ASSUME NEW e \in todo, RefreshReuse(e) PROVE Described'
  <2>1. ~raced /\ e.path \in Paths /\ NotYet(e.path) /\ fps[e.path] = disk[e.path].ver
    BY <1>11 DEF RefreshReuse, TypeOK, VisitOnce, Unchanged, Waiting
  <2>2. \A id \in Ids : nsrc'[id] = nsrc[id] \/ (nsrc'[id].path = e.path /\ (e.path \in Watched => nsrc'[id].ver = fps[e.path]))
    BY <1>11, <2>1, KeptNew, OwnedIs DEF RefreshReuse, Described, Describes
  <2>3. nfps' = [nfps EXCEPT ![e.path] = fps[e.path]]
    BY <1>11, <2>1 DEF RefreshReuse
  <2>4. Describes(nsrc', nfps', Watched)
    BY <2>1, <2>2, <2>3, DescribeFile DEF Described, NotYet
  <2> QED BY <1>11, <2>1, <2>4 DEF Described, RefreshReuse, mem, Describes
<1>12. ASSUME NEW e \in todo, RefreshStatFails(e) PROVE Described'
  <2>1. ~raced /\ e.path \in Paths /\ NotYet(e.path) /\ KeepOld(e.path, nsrc, ntog)
    BY <1>12 DEF RefreshStatFails, TypeOK, VisitOnce, Waiting
  <2>2. Describes(nsrc', nfps', Watched)
    BY <2>1, DescribedOld DEF Described
  <2> QED BY <1>12, <2>1, <2>2 DEF Described, RefreshStatFails, mem, Describes
<1>13. CASE RefreshKeep
  <2>1. ~raced /\ disk[cur] = got /\ cur \in Paths /\ NotYet(cur)
    BY <1>13 DEF RefreshKeep, TypeOK, VisitOnce
  <2>2. \A id \in Ids : nsrc'[id] = nsrc[id] \/ (nsrc'[id].path = cur /\ (cur \in Watched => nsrc'[id].ver = got.ver))
    BY <1>13, KeptNew, ParsedIs DEF RefreshKeep
  <2>3. nfps' = [nfps EXCEPT ![cur] = got.ver]
    BY <1>13, <2>1 DEF RefreshKeep
  <2>4. Describes(nsrc', nfps', Watched)
    BY <2>1, <2>2, <2>3, DescribeFile DEF Described, NotYet
  <2> QED BY <1>13, <2>1, <2>4 DEF Described, RefreshKeep, mem, Describes
<1>14. CASE RefreshReadFails
  <2>1. ~raced /\ cur \in Paths /\ NotYet(cur) /\ KeepOld(cur, nsrc, ntog)
    BY <1>14 DEF RefreshReadFails, TypeOK, VisitOnce
  <2>2. Describes(nsrc', nfps', Watched)
    BY <2>1, DescribedOld DEF Described
  <2> QED BY <1>14, <2>1, <2>2 DEF Described, RefreshReadFails, mem, Describes
<1>15. CASE RefreshRestatFails
  BY <1>15 DEF RefreshRestatFails
<1>16. CASE RefreshFinish
  <2>1. Describes(nsrc', nfps', Watched) /\ Describes(saved'.src, saved'.fps, Watched) /\ ~raced
    <3>1. /\ UNCHANGED <<saved, raced>> /\ (nsrc' = NoSources \/ UNCHANGED <<nsrc, nfps>>)
      BY <1>16 DEF RefreshFinish, BeginRefresh, StartMaps
    <3>2. ~raced /\ Describes(nsrc, nfps, Watched) /\ Describes(saved.src, saved.fps, Watched)
      BY <3>1 DEF Described
    <3> QED BY <3>1, <3>2, EmptyDescribed
  <2>2. ASSUME NEW id \in Ids, sources'[id].path \in Watched
        PROVE  fps'[sources'[id].path] = sources'[id].ver
    <3> DEFINE q == sources'[id].path
    <3>1. q \in Paths /\ fps'[q] = IF nfps[q] = 0 /\ q \notin scope THEN fps[q] ELSE nfps[q]
      BY <1>16, <2>2 DEF RefreshFinish, Watched, Paths
    <3>2. CASE sources'[id] = nsrc[id]
      <4>1. q \in scope /\ nfps[q] = nsrc[id].ver
        BY <1>16, <2>1, <2>2, <3>1, <3>2 DEF VisitOnce, NotYet, RefreshFinish, Described, Describes
      <4> QED BY <3>1, <3>2, <4>1
    <3>3. CASE Survivors[id] # Absent /\ sources'[id] = Survivors[id]
      <4>1. q \notin scope /\ sources'[id] = sources[id]
        BY <3>3 DEF Survivors
      <4>2. nfps[q] = 0
        BY <1>16, <3>1, <4>1 DEF VisitOnce, NotYet, RefreshFinish
      <4> QED BY <2>1, <2>2, <3>1, <4>1, <4>2 DEF Described, Describes
    <3> QED BY <1>16, <3>2, <3>3, KeptNew DEF RefreshFinish
  <2> QED BY <2>1, <2>2 DEF Described, Describes
<1> QED BY NextCases, <1>1, <1>2, <1>3, <1>4, <1>5, <1>6, <1>7, <1>8, <1>9, <1>10, <1>11, <1>12, <1>13, <1>14, <1>15, <1>16

---------------------------------------------------------------------------
LEMMA IInvInit == Init => IInv
  BY TypeInit, ContentInit, VisitInit, OneInit, DescribedInit, TogglesInit DEF IInv

LEMMA IInvStep == IInv /\ [Next]_vars => IInv'
<1> SUFFICES ASSUME IInv, [Next]_vars PROVE IInv'
  OBVIOUS
<1>1. TypeOK' /\ ContentOK' /\ VisitOnce' /\ TogglesOK'
  BY TypeStep, ContentStep, VisitStep, TogglesStep DEF IInv
<1>2. CASE raced'
  BY <1>1, <1>2 DEF IInv, OneName, Described
<1>3. CASE ~raced'
  BY <1>1, <1>3, OneStep, DescribedStep DEF IInv
<1> QED BY <1>2, <1>3

LEMMA IInvAlways == Spec => []IInv
  BY IInvInit, IInvStep, PTL DEF Spec

\* Every session has a toggle map and every toggle map a session, in memory and
\* in the dump, across ingests, refreshes, pricing passes, crashes and restarts.
THEOREM TogglesMatchSourcesAlways == Spec => []TogglesMatchSources
<1>1. IInv => TogglesMatchSources
  BY DEF IInv, TogglesOK
<1> QED BY <1>1, IInvAlways, PTL

\* store.ts:123: unless a file changed between its read and its fingerprint,
\* the recorded fingerprint of a watched file is that of the version its
\* sessions were parsed from; the same holds of the dump a restart loads.
THEOREM FingerprintIsOfSourceAlways == Spec => []FingerprintIsOfSource
<1>1. IInv => FingerprintIsOfSource
  BY DEF IInv, Described, FingerprintIsOfSource, Watched
<1> QED BY <1>1, IInvAlways, PTL

---------------------------------------------------------------------------
\* A refresh or a pricing pass builds its maps beside the catalogue.
Building == op \in {"refresh", "pricing"}

\* The toggles a map being built carries are those of the catalogue.
Carried(id) == IF toggles[id] = "unset" THEN "default" ELSE toggles[id]
TogglesCarried == Building => \A id \in Ids : nsrc[id] # Absent => ntog[id] = Carried(id)

\* A stopped process has no catalogue.
DownIsEmpty == stage = "down" => sources = NoSources /\ toggles = NoToggles

\* refreshPricing only visits files that own a session.
OwnerRead == op = "pricing" => \A p \in Paths : p \in Waiting \/ p = cur => OwnsAny(p)

\* The map a refresh builds never gives a transcript a session a database owns.
DbFirst == op = "refresh" => \A id \in Ids : sources[id].path \in Dbs => nsrc[id].path \in Dbs \cup {NoPath}

LEMMA AbsentHasNoPath == ASSUME NEW s \in Session
                         PROVE  s.path = NoPath <=> s = Absent
  BY DEF Session, Absent, Paths

LEMMA NothingKept == Absent.path = NoPath /\ \A id \in Ids : NoSources[id] = Absent
  BY DEF NoSources, Absent

---------------------------------------------------------------------------
LEMMA CarriedInit == Init => TogglesCarried /\ DownIsEmpty /\ OwnerRead /\ DbFirst
  BY DEF Init, TogglesCarried, DownIsEmpty, OwnerRead, DbFirst, Building

\* Keeping snapshots carries the toggles of each session it takes.
LEMMA KeepCarries ==
  ASSUME NEW snaps, NEW s, NEW t, \A id \in Ids : s[id] # Absent => t[id] = Carried(id)
  PROVE  \A id \in Ids : KeepSources(snaps, s)[id] # Absent => KeepToggles(snaps, s, t)[id] = Carried(id)
  BY DEF KeepSources, KeepToggles, Carried, Kept

\* The steps that build maps; every other step starts afresh or has none.
Builds == \/ PricingKeep \/ RefreshKeep \/ RefreshReadFails \/ RefreshRestatFails
          \/ \E e \in todo : RefreshReuse(e) \/ RefreshStatFails(e)

LEMMA BuildsKeep ==
  ASSUME Builds
  PROVE  UNCHANGED <<sources, toggles, fps, dirty, saved, disk, writes, stage, op, nmut, patches>>
  BY DEF Builds, PricingKeep, RefreshKeep, RefreshReadFails, RefreshRestatFails, RefreshReuse,
         RefreshStatFails, mem, env

\* While maps are being built the catalogue stands still: every step that
\* leaves them in place is quiet, and the others throw them away.
LEMMA NotBuilding ==
  ASSUME VisitOnce, [Next]_vars, ~Builds
  PROVE  \/ UNCHANGED <<sources, toggles, fps, nsrc, ntog, nfps, nmut, op, stage>>
         \/ ~Building'
         \/ nsrc' = NoSources /\ ntog' = NoToggles /\ nfps' = NoFps /\ nmut' = FALSE
         \/ \E e \in todo : RefreshRead(e)
<1>1. CASE UNCHANGED vars
  BY <1>1 DEF vars, mem, next, job
<1>2. CASE Quiet
  <2>1. ASSUME NEW p \in Paths, IngestRead(p) \/ UploadRead(p) \/ ListRead(p) \/ DeferredNext(p) PROVE ~Building'
    BY <2>1 DEF IngestRead, UploadRead, ListRead, DeferredNext, ReadFile, Running, Building
  <2>2. CASE IngestThrows \/ Listen \/ \E e \in todo : ImportRead(e) \/ ImportSkip(e)
    BY <2>2 DEF IngestThrows, JobDone, Listen, ImportRead, ImportSkip, ReadFile, Building
  <2>3. CASE External
    BY <2>3 DEF External, Write, Delete, mem, job, next
  <2>4. ASSUME NEW e \in todo, PricingRead(e)
        PROVE  UNCHANGED <<sources, toggles, fps, nsrc, ntog, nfps, nmut, op, stage>>
    BY <2>4 DEF PricingRead, mem, next
  <2> QED BY <1>2, <2>1, <2>2, <2>3, <2>4 DEF Quiet
<1>3. CASE Patch \/ Dump \/ \E p \in Paths : RemovePath(p)
  BY <1>3 DEF Patch, SetToggles, Dump, RemovePath, Running, Building, job
<1>4. CASE Crash \/ IngestCommit \/ Relist
  BY <1>4 DEF Crash, JobKilled, IngestCommit, Relist, ListCommit, JobDone, Building
<1>5. CASE PricingBegin \/ PricingThrows \/ PricingFinish \/ \E late \in SUBSET Logs : LoadDump(late)
  BY <1>5 DEF PricingBegin, PricingThrows, PricingFinish, LoadDump, BeginRefresh, StartMaps
<1>6. CASE RefreshFinish
  BY <1>6 DEF RefreshFinish, BeginRefresh, StartMaps
<1> QED BY NextCases, <1>1, <1>2, <1>3, <1>4, <1>5, <1>6 DEF Builds

LEMMA ReadKeepsMaps ==
  ASSUME NEW e \in todo, RefreshRead(e)
  PROVE  UNCHANGED <<sources, toggles, fps, nsrc, ntog, nfps, op, stage>>
  BY DEF RefreshRead, mem

LEMMA CarriedStep ==
  ASSUME TypeOK, VisitOnce, TogglesCarried, [Next]_vars
  PROVE  TogglesCarried'
<1>1. CASE Builds
  <2> SUFFICES ASSUME NEW id \in Ids, nsrc'[id] # Absent, \A i \in Ids : nsrc[i] # Absent => ntog[i] = Carried(i)
               PROVE  ntog'[id] = Carried(id)
    BY <1>1, BuildsKeep DEF TogglesCarried, Building, Carried, Builds, PricingKeep, RefreshKeep,
       RefreshReadFails, RefreshRestatFails, RefreshReuse, RefreshStatFails
  <2>1. CASE PricingKeep
    BY <2>1 DEF PricingKeep, Carried
  <2>2. CASE RefreshKeep
    BY <2>2, KeepCarries DEF RefreshKeep
  <2>3. CASE RefreshReadFails
    BY <2>3, KeepCarries DEF RefreshReadFails, KeepOld
  <2>4. CASE RefreshRestatFails
    BY <2>4, KeepCarries DEF RefreshRestatFails, KeepOld
  <2>5. ASSUME NEW e \in todo, RefreshReuse(e) PROVE ntog'[id] = Carried(id)
    BY <2>5, KeepCarries DEF RefreshReuse
  <2>6. ASSUME NEW e \in todo, RefreshStatFails(e) PROVE ntog'[id] = Carried(id)
    BY <2>6, KeepCarries DEF RefreshStatFails, KeepOld
  <2> QED BY <1>1, <2>1, <2>2, <2>3, <2>4, <2>5, <2>6 DEF Builds
<1>2. CASE ~Builds
  BY <1>2, NotBuilding, ReadKeepsMaps, NothingKept DEF TogglesCarried, Building, Carried
<1> QED BY <1>1, <1>2

LEMMA DownStep ==
  ASSUME DownIsEmpty, VisitOnce, [Next]_vars
  PROVE  DownIsEmpty'
<1> USE DEF DownIsEmpty, VisitOnce
<1>1. CASE stage' # "down"
  BY <1>1
<1>2. CASE Crash
  BY <1>2 DEF Crash
<1>3. CASE UNCHANGED vars
  BY <1>3 DEF vars, mem
<1>4. CASE Next /\ ~Crash /\ stage' = "down"
  <2>1. stage = "down" /\ op = "idle"
    BY <1>4 DEF Next, External, Write, Delete, Ingest, IngestRead, UploadRead, RemovePath, ListRead, DeferredNext,
       IngestThrows, IngestCommit, Relist, ListCommit, Patch, SetToggles, Pricing, PricingBegin, PricingKeep, PricingThrows,
       PricingFinish, PricingRead, Boot, LoadDump, RefreshReuse, RefreshRead, RefreshStatFails, ImportRead, ImportSkip,
       RefreshKeep, RefreshReadFails, RefreshRestatFails, RefreshFinish, Listen, Dump, Running
  <2>2. External
    BY <1>4, <2>1 DEF Next, Ingest, IngestRead, UploadRead, RemovePath, ListRead, DeferredNext,
       IngestThrows, IngestCommit, Relist, ListCommit, Patch, SetToggles, Pricing, PricingBegin, PricingKeep, PricingThrows,
       PricingFinish, PricingRead, Boot, LoadDump, RefreshReuse, RefreshRead, RefreshStatFails, ImportRead, ImportSkip,
       RefreshKeep, RefreshReadFails, RefreshRestatFails, RefreshFinish, Listen, Dump, Running
  <2> QED BY <2>1, <2>2 DEF External, Write, Delete, mem
<1> QED BY <1>1, <1>2, <1>3, <1>4

LEMMA PricingSteps ==
  ASSUME [Next]_vars, op' = "pricing"
  PROVE  UNCHANGED vars \/ External \/ PricingBegin \/ PricingKeep \/ \E e \in todo : PricingRead(e)
<1>1. CASE Ingest
  BY <1>1 DEF Ingest, IngestRead, UploadRead, RemovePath, ListRead, DeferredNext, IngestThrows, IngestCommit,
     Relist, ListCommit, ReadFile, JobDone, Running, job
<1>2. CASE Patch \/ Dump \/ Crash
  BY <1>2 DEF Patch, SetToggles, Dump, Crash, JobKilled, Running, job
<1>3. CASE PricingThrows \/ PricingFinish
  BY <1>3 DEF PricingThrows, PricingFinish, JobDone
<1>4. CASE Boot
  BY <1>4 DEF Boot, LoadDump, BeginRefresh, RefreshReuse, RefreshRead, RefreshStatFails, ImportRead, ImportSkip,
     ReadFile, RefreshKeep, RefreshReadFails, RefreshRestatFails, RefreshFinish, Listen
<1> QED BY <1>1, <1>2, <1>3, <1>4 DEF Next, Pricing

LEMMA OwnerStep ==
  ASSUME TypeOK, VisitOnce, OwnerRead, [Next]_vars
  PROVE  OwnerRead'
<1> USE DEF OwnerRead, OwnsAny, Waiting
<1> SUFFICES ASSUME op' = "pricing", NEW p \in Paths, p \in Waiting' \/ p = cur' PROVE OwnsAny(p)'
  OBVIOUS
<1>1. CASE UNCHANGED vars \/ External
  BY <1>1 DEF vars, External, Write, Delete, mem, job
<1>2. CASE PricingBegin
  <2>1. cur' = NoPath
    BY <1>2 DEF PricingBegin, Running, VisitOnce
  <2>2. PICK e \in todo' : e.path = p
    BY <2>1
  <2>3. PICK q \in Paths : OwnsAny(q) /\ e = Entry(q)
    BY <1>2, <2>2 DEF PricingBegin
  <2> QED BY <1>2, <2>2, <2>3 DEF PricingBegin, mem, Entry
<1>3. CASE PricingKeep
  BY <1>3 DEF PricingKeep, mem
<1>4. ASSUME NEW e \in todo, PricingRead(e) PROVE OwnsAny(p)'
  BY <1>4 DEF PricingRead, mem
<1> QED BY <1>1, <1>2, <1>3, <1>4, PricingSteps

\* keepSource asks the map being built, then the catalogue: a session a
\* database owns in either is not handed to a transcript.
LEMMA KeepDbFirst ==
  ASSUME TypeOK, NEW snaps \in [Ids -> Session], NEW s \in [Ids -> Session],
         \A id \in Ids : sources[id].path \in Dbs => s[id].path \in Dbs \cup {NoPath}
  PROVE  \A id \in Ids : sources[id].path \in Dbs => KeepSources(snaps, s)[id].path \in Dbs \cup {NoPath}
<1> SUFFICES ASSUME NEW id \in Ids, sources[id].path \in Dbs
             PROVE  KeepSources(snaps, s)[id].path \in Dbs \cup {NoPath}
  OBVIOUS
<1>1. s[id] # Absent => s[id].path \in Dbs
  BY AbsentHasNoPath
<1>2. Incumbent(id, s).path \in Dbs
  BY <1>1 DEF Incumbent
<1> QED BY <1>2 DEF KeepSources, Kept, YieldsToDb

LEMMA DbFirstStep ==
  ASSUME TypeOK, VisitOnce, DbFirst, [Next]_vars
  PROVE  DbFirst'
<1>1. CASE Builds /\ op = "refresh"
  <2> SUFFICES ASSUME \A id \in Ids : sources[id].path \in Dbs => nsrc[id].path \in Dbs \cup {NoPath}
               PROVE  \A id \in Ids : sources[id].path \in Dbs => nsrc'[id].path \in Dbs \cup {NoPath}
    BY <1>1, BuildsKeep DEF DbFirst
  <2>1. ~PricingKeep
    BY <1>1 DEF PricingKeep
  <2>2. Parsed(cur, got) \in [Ids -> Session] \/ cur = NoPath
    BY ParsedType DEF TypeOK
  <2>3. CASE RefreshKeep
    BY <2>2, <2>3, KeepDbFirst DEF RefreshKeep, TypeOK
  <2>4. ASSUME NEW p \in Paths, NEW s \in [Ids -> Session], NEW t, KeepOld(p, s, t),
               \A id \in Ids : sources[id].path \in Dbs => s[id].path \in Dbs \cup {NoPath}
        PROVE  \A id \in Ids : sources[id].path \in Dbs => nsrc'[id].path \in Dbs \cup {NoPath}
    BY <2>4, OwnedType, KeepDbFirst DEF KeepOld
  <2>5. CASE RefreshReadFails
    BY <2>4, <2>5 DEF RefreshReadFails, TypeOK
  <2>6. CASE RefreshRestatFails
    <3>1. KeepSources(Parsed(cur, got), nsrc) \in [Ids -> Session] /\ cur \in Paths
      BY <2>2, <2>6 DEF RefreshRestatFails, KeepSources, TypeOK
    <3>2. \A id \in Ids : sources[id].path \in Dbs => KeepSources(Parsed(cur, got), nsrc)[id].path \in Dbs \cup {NoPath}
      BY <2>2, <2>6, KeepDbFirst DEF RefreshRestatFails, TypeOK
    <3> QED BY <2>4, <2>6, <3>1, <3>2 DEF RefreshRestatFails
  <2>7. ASSUME NEW e \in todo, RefreshReuse(e)
        PROVE  \A id \in Ids : sources[id].path \in Dbs => nsrc'[id].path \in Dbs \cup {NoPath}
    <3>1. OwnedBy(e.path) \in [Ids -> Session]
      BY OwnedType DEF TypeOK
    <3> QED BY <2>7, <3>1, KeepDbFirst DEF RefreshReuse, TypeOK
  <2>8. ASSUME NEW e \in todo, RefreshStatFails(e)
        PROVE  \A id \in Ids : sources[id].path \in Dbs => nsrc'[id].path \in Dbs \cup {NoPath}
    BY <2>4, <2>8 DEF RefreshStatFails, TypeOK
  <2> QED BY <1>1, <2>1, <2>3, <2>5, <2>6, <2>7, <2>8 DEF Builds
<1>2. CASE Builds /\ op # "refresh"
  BY <1>2, BuildsKeep DEF DbFirst
<1>3. CASE ~Builds
  <2>1. CASE nsrc' = NoSources
    BY <2>1, NothingKept DEF DbFirst
  <2>2. CASE nsrc' # NoSources
    BY <1>3, <2>2, NotBuilding, ReadKeepsMaps DEF DbFirst, Building
  <2> QED BY <2>1, <2>2
<1> QED BY <1>1, <1>2, <1>3

---------------------------------------------------------------------------
\* What the step properties need of the states they start from.
StepInv == IInv /\ TogglesCarried /\ DownIsEmpty /\ OwnerRead /\ DbFirst

LEMMA StepInvAlways == Spec => []StepInv
<1>1. Init => StepInv
  BY IInvInit, CarriedInit DEF StepInv
<1>2. StepInv /\ [Next]_vars => StepInv'
  BY IInvStep, CarriedStep, DownStep, OwnerStep, DbFirstStep DEF StepInv, IInv
<1> QED BY <1>1, <1>2, PTL DEF Spec

\* The steps that change which sessions are listed, or their toggles.
Lists == \/ Patch \/ Crash \/ IngestCommit \/ Relist \/ PricingFinish \/ RefreshFinish
         \/ (\E p \in Paths : RemovePath(p)) \/ (\E late \in SUBSET Logs : LoadDump(late))

LEMMA OnlyListsChange ==
  ASSUME [Next]_vars, ~Lists
  PROVE  UNCHANGED <<sources, toggles>>
<1>1. CASE Quiet
  BY <1>1, QuietKeepsMaps
<1>2. CASE UNCHANGED vars
  BY <1>2 DEF vars, mem
<1>3. CASE Builds
  BY <1>3, BuildsKeep
<1>4. CASE Dump \/ PricingBegin \/ PricingThrows
  BY <1>4 DEF Dump, PricingBegin, PricingThrows, mem
<1> QED BY NextCases, <1>1, <1>2, <1>3, <1>4 DEF Lists, Builds

\* Neither an upload nor the boot's imports alter a session (store.ts:114) that
\* its own file still holds: skipExisting leaves nothing to take of a session
\* that is listed, and one of another file is not dropped.
THEOREM ImportKeepsExistingAlways == Spec => ImportKeepsExisting
<1>1. ASSUME StepInv, [Next]_vars, stage' # "down", op \in {"import", "upload"}, NEW id \in Ids \ Dropped,
             sources[id] # Absent
      PROVE  sources'[id] = sources[id] /\ toggles'[id] = toggles[id]
  <2>1. CASE IngestCommit
    <3>1. id \notin Taken
      BY <1>1 DEF Taken, Skips
    <3> QED BY <1>1, <2>1, <3>1 DEF IngestCommit
  <2>2. CASE Lists /\ ~IngestCommit
    BY <1>1, <2>2 DEF Lists, Patch, SetToggles, Running, Crash, Relist, ListCommit, PricingFinish, RefreshFinish, RemovePath,
       LoadDump, StepInv, IInv, VisitOnce
  <2> QED BY <1>1, <2>1, <2>2, OnlyListsChange
<1>2. StepInv /\ [Next]_vars => [stage' # "down" /\ op \in {"import", "upload"} =>
    \A id \in Ids \ Dropped : sources[id] # Absent => sources'[id] = sources[id] /\ toggles'[id] = toggles[id]]_vars
  BY <1>1
<1> QED BY <1>2, StepInvAlways, PTL DEF Spec, ImportKeepsExisting

\* A step that renames a session is a live re-read that finds it renamed.
LEMMA RenamesMoves ==
  ASSUME StepInv, [Next]_vars, NEW old \in Ids, NEW new \in Ids, Renames(old, new)
  PROVE  Moves(old, new)
<1> USE DEF StepInv, IInv
<1>1. op = "list" /\ sources'[new].path = cur /\ sources'[old] = Absent /\ sources[old].path = cur
      /\ cur \in Paths /\ new \in got.ids /\ new # old
  BY DEF Renames, ContentOK, Paths, Jsonl
<1>2. sources' # sources
  BY <1>1, NothingKept DEF Paths
<1>3. ~Crash
  BY <1>1, NothingKept DEF Crash, Paths
<1>4. Relist
  <2>1. Lists
    BY <1>2, OnlyListsChange
  <2> QED BY <1>1, <1>3, <2>1 DEF Lists, Patch, SetToggles, Running, IngestCommit, PricingFinish, RefreshFinish,
          RemovePath, LoadDump, VisitOnce
<1>5. PICK a \in Ids, b \in Ids : Moves(a, b)
  BY <1>4, RelistMoves
<1>6. b = new
  BY <1>1, <1>5 DEF Moves
<1>7. a = old
  BY <1>1, <1>5, <1>6, NothingKept DEF Moves, Paths
<1> QED BY <1>5, <1>6, <1>7

\* A toggle the user set stays until the user patches it again, for as long as
\* the process keeps the session: an ingest only fills in a missing map, and a
\* refresh or a pricing pass carries the catalogue's own maps into those it swaps
\* in.  A live re-read that finds the session renamed takes the toggles along, and
\* only such a one may put others in their place (store.ts:361).
THEOREM UserTogglesKeptAlways == Spec => UserTogglesKept
<1>0. StepInv => TypeOK /\ ContentOK
  BY DEF StepInv, IInv
<1>1. ASSUME StepInv, [Next]_vars, NEW id \in Ids, toggles[id] = "custom", patches' = patches, sources'[id] # Absent
      PROVE  toggles'[id] = "custom" \/ \E old \in Ids : Renames(old, id)
  <2> USE DEF StepInv, IInv
  <2>1. CASE Patch
    BY <1>1, <2>1 DEF Patch, SetToggles
  <2>2. CASE Crash
    BY <1>1, <2>2, NothingKept DEF Crash
  <2>3. CASE IngestCommit
    <3>1. id \notin Dropped
      BY <1>1, <2>3 DEF IngestCommit, Taken, Dropped
    <3> QED BY <1>1, <2>3, <3>1 DEF IngestCommit
  <2>4. CASE Relist
    <3>1. PICK old \in Ids, new \in Ids : Moves(old, new)
      BY <1>0, <1>1, <2>4, RelistMoves
    <3>2. CASE id = new /\ old # new
      <4>1. Renames(old, id)
        BY <3>1, <3>2 DEF Moves, Renames
      <4> QED BY <4>1
    <3>3. CASE id = new /\ old = new
      BY <1>1, <3>1, <3>3 DEF Moves
    <3>4. CASE id # new
      BY <1>1, <3>1, <3>4 DEF Moves
    <3> QED BY <3>2, <3>3, <3>4
  <2>5. CASE PricingFinish
    <3>1. nsrc[id] # Absent /\ Building /\ toggles' = ntog
      BY <1>1, <2>5 DEF PricingFinish, Building
    <3> QED BY <1>1, <3>1 DEF TogglesCarried, Carried
  <2>6. CASE RefreshFinish
    <3>1. \A i \in Ids : nsrc[i] # Absent => ntog[i] = Carried(i)
      BY <1>1, <2>6 DEF RefreshFinish, TogglesCarried, Building
    <3>2. toggles'[id] = Carried(id)
      BY <1>1, <2>6, <3>1, KeepCarries DEF RefreshFinish
    <3> QED BY <1>1, <3>2 DEF Carried
  <2>7. ASSUME NEW p \in Paths, RemovePath(p) PROVE toggles'[id] = "custom"
    BY <1>1, <2>7 DEF RemovePath
  <2>8. ASSUME NEW late \in SUBSET Logs, LoadDump(late) PROVE FALSE
    BY <1>1, <2>8 DEF LoadDump, DownIsEmpty, NoToggles
  <2> QED BY <1>1, <2>1, <2>2, <2>3, <2>4, <2>5, <2>6, <2>7, <2>8, OnlyListsChange DEF Lists
<1>2. ASSUME StepInv, [Next]_vars, NEW id \in Ids, toggles[id] = "custom", NEW new \in Ids, Renames(id, new)
      PROVE  toggles'[new] = "custom"
  BY <1>2, RenamesMoves DEF Moves
<1>3. StepInv /\ [Next]_vars => [\A id \in Ids :
    toggles[id] = "custom" /\ patches' = patches =>
        /\ \A new \in Ids : Renames(id, new) => toggles'[new] = "custom"
        /\ sources'[id] = Absent \/ toggles'[id] = "custom" \/ \E old \in Ids : Renames(old, id)]_vars
  BY <1>1, <1>2
<1> QED BY <1>3, StepInvAlways, PTL DEF Spec, UserTogglesKept

---------------------------------------------------------------------------
\* What the version numbers say: no parse is newer than the writes made, nor,
\* while its file is there, than the file.
Aged(x, d, w) == x.path \in Paths => x.ver <= w /\ (d[x.path] # Gone => x.ver <= d[x.path].ver)
Ages(s, d, w) == \A id \in Ids : Aged(s[id], d, w)
Recorded(f, w) == \A p \in Paths : f[p] <= w

\* What a read file would be taken in as.
ReadNow == [path |-> cur, ver |-> got.ver]

Versions ==
    /\ Recorded([p \in Paths |-> disk[p].ver], writes)
    /\ Ages(sources, disk, writes) /\ Ages(saved.src, disk, writes) /\ Ages(nsrc, disk, writes)
    /\ Recorded(fps, writes) /\ Recorded(saved.fps, writes) /\ Recorded(nfps, writes)
    /\ Aged(ReadNow, disk, writes)
    /\ \A id \in Ids : sources[id].path = cur => sources[id].ver <= got.ver

\* A session of the map being built is no older than the one it will replace.
Growing == Building => \A id \in Ids : nsrc[id].path = sources[id].path => sources[id].ver <= nsrc[id].ver

\* A database only holds, and only owns, sessions it may hold.
OwnRows(s) == \A id \in Ids : s[id].path \in Dbs => id \in MayHold(s[id].path)
RowsOK ==
    /\ \A d \in Dbs : disk[d].ids \subseteq MayHold(d)
    /\ cur \in Dbs => got.ids \subseteq MayHold(cur)
    /\ OwnRows(sources) /\ OwnRows(saved.src) /\ OwnRows(nsrc)

\* Where each session of the catalogue, of the map being built and of the dump
\* comes from, whatever the step.
TakenFromRead(x, id) == cur \in Paths /\ id \in got.ids /\ x = ReadNow
LEMMA ParsedOrigin ==
  ASSUME cur \in Paths, NEW id \in Ids
  PROVE  Parsed(cur, got)[id] = Absent \/ TakenFromRead(Parsed(cur, got)[id], id)
  BY DEF Parsed, TakenFromRead, ReadNow

LEMMA SourcesFrom ==
  ASSUME TypeOK, ContentOK, [Next]_vars, NEW id \in Ids
  PROVE  \/ sources'[id] \in {Absent, sources[id]} \/ TakenFromRead(sources'[id], id)
         \/ stage = "down" /\ sources'[id] = saved.src[id]
         \/ Building /\ sources'[id] = nsrc[id]
<1>1. CASE Patch \/ ~Lists
  BY <1>1, OnlyListsChange DEF Patch, SetToggles
<1>2. CASE Crash
  BY <1>2, NothingKept DEF Crash
<1>3. CASE IngestCommit
  BY <1>3, ParsedOrigin DEF IngestCommit, TypeOK
<1>4. CASE Relist
  BY <1>4, RelistMoves DEF Moves, TakenFromRead, ReadNow, Jsonl, Paths
<1>5. CASE PricingFinish
  BY <1>5 DEF PricingFinish, Building
<1>6. CASE RefreshFinish
  BY <1>6, KeptIs DEF RefreshFinish, Survivors, Building
<1>7. ASSUME NEW p \in Paths, RemovePath(p) PROVE sources'[id] \in {Absent, sources[id]}
  BY <1>7 DEF RemovePath
<1>8. ASSUME NEW late \in SUBSET Logs, LoadDump(late) PROVE stage = "down" /\ sources'[id] = saved.src[id]
  BY <1>8 DEF LoadDump
<1> QED BY <1>1, <1>2, <1>3, <1>4, <1>5, <1>6, <1>7, <1>8 DEF Lists

LEMMA BuiltFrom ==
  ASSUME TypeOK, VisitOnce, [Next]_vars, NEW id \in Ids
  PROVE  \/ Builds /\ nsrc'[id] = sources[id]
         \/ Builds /\ TakenFromRead(nsrc'[id], id)
         \/ nsrc'[id] = Absent \/ nsrc'[id] = nsrc[id]
<1>1. CASE PricingKeep
  <2>1. cur \in Paths
    BY <1>1 DEF PricingKeep, TypeOK
  <2> QED BY <1>1, <2>1, ParsedOrigin DEF PricingKeep, Builds
<1>2. CASE RefreshKeep
  <2>1. cur \in Paths
    BY <1>2 DEF RefreshKeep, TypeOK
  <2> QED BY <1>2, <2>1, ParsedOrigin, KeptIs DEF RefreshKeep, Builds
<1>3. \A p : OwnedBy(p)[id] \in {Absent, sources[id]}
  BY DEF OwnedBy
<1>4. CASE RefreshReadFails
  BY <1>3, <1>4, KeptIs DEF RefreshReadFails, KeepOld, Builds
<1>5. CASE RefreshRestatFails
  <2>1. cur \in Paths
    BY <1>5 DEF RefreshRestatFails, TypeOK
  <2>2. \/ nsrc'[id] = OwnedBy(cur)[id] \/ nsrc'[id] = Parsed(cur, got)[id] \/ nsrc'[id] = nsrc[id]
    BY <1>5, KeptIs DEF RefreshRestatFails, KeepOld
  <2> QED BY <1>3, <1>5, <2>1, <2>2, ParsedOrigin DEF Builds
<1>6. ASSUME NEW e \in todo, RefreshReuse(e)
      PROVE  nsrc'[id] \in {Absent, sources[id], nsrc[id]}
  BY <1>3, <1>6, KeptIs DEF RefreshReuse
<1>7. ASSUME NEW e \in todo, RefreshStatFails(e)
      PROVE  nsrc'[id] \in {Absent, sources[id], nsrc[id]}
  BY <1>3, <1>7, KeptIs DEF RefreshStatFails, KeepOld
<1>8. CASE ~Builds
  <2>1. nsrc' = nsrc \/ nsrc' = NoSources
    BY <1>8, NextCases, QuietKeepsMaps DEF Builds, vars, next, job, Patch, SetToggles, Dump, Crash, RemovePath,
       IngestCommit, Relist, ListCommit, PricingBegin, PricingThrows, PricingFinish, LoadDump, BeginRefresh, RefreshFinish,
       StartMaps
  <2> QED BY <2>1, NothingKept
<1> QED BY <1>1, <1>2, <1>4, <1>5, <1>6, <1>7, <1>8 DEF Builds

LEMMA SavedFrom ==
  ASSUME [Next]_vars
  PROVE  saved' = saved \/ saved' = [src |-> sources, tog |-> toggles, fps |-> fps]
  BY NextCases, QuietKeepsMaps, BuildsKeep DEF vars, Builds, Patch, SetToggles, Dump, Crash, RemovePath, IngestCommit,
     Relist, ListCommit, PricingBegin, PricingThrows, PricingFinish, LoadDump, RefreshFinish

LEMMA PrintsFrom ==
  ASSUME TypeOK, [Next]_vars, NEW p \in Paths
  PROVE  /\ fps'[p] \in {0, fps[p], saved.fps[p], nfps[p], disk[p].ver}
         /\ nfps'[p] \in {0, nfps[p], fps[p], disk[p].ver}
<1> USE DEF TypeOK
<1>1. CASE Quiet \/ UNCHANGED vars
  BY <1>1, QuietKeepsMaps DEF vars, mem, next, job
<1>2. CASE Patch \/ Dump \/ IngestCommit \/ Relist \/ \E q \in Paths : RemovePath(q)
  BY <1>2 DEF Patch, SetToggles, Dump, IngestCommit, Relist, ListCommit, RemovePath, job, next
<1>3. CASE Crash \/ PricingBegin \/ PricingThrows \/ PricingFinish \/ \E late \in SUBSET Logs : LoadDump(late)
  BY <1>3 DEF Crash, PricingBegin, PricingThrows, PricingFinish, LoadDump, BeginRefresh, StartMaps, NoFps, mem
<1>4. CASE RefreshFinish
  BY <1>4 DEF RefreshFinish, BeginRefresh, StartMaps, NoFps
<1>5. CASE PricingKeep \/ RefreshKeep
  BY <1>5 DEF PricingKeep, RefreshKeep, mem
<1>6. ASSUME NEW q \in Paths, NEW s, NEW t, KeepOld(q, s, t), fps' = fps
      PROVE  fps'[p] = fps[p] /\ nfps'[p] \in {nfps[p], fps[p]}
  BY <1>6 DEF KeepOld
<1>7. CASE RefreshReadFails \/ RefreshRestatFails
  BY <1>6, <1>7 DEF RefreshReadFails, RefreshRestatFails, mem
<1>8. ASSUME NEW e \in todo, RefreshReuse(e)
      PROVE  fps'[p] = fps[p] /\ nfps'[p] \in {nfps[p], disk[p].ver}
  BY <1>8 DEF RefreshReuse, mem
<1>9. ASSUME NEW e \in todo, RefreshStatFails(e)
      PROVE  fps'[p] = fps[p] /\ nfps'[p] \in {nfps[p], fps[p]}
  BY <1>6, <1>9 DEF RefreshStatFails, mem
<1> QED BY NextCases, <1>1, <1>2, <1>3, <1>4, <1>5, <1>7, <1>8, <1>9

\* A file changes only to a version never handed out before, or goes.
Later(d, e, w, v) ==
    /\ v = w \/ v = w + 1
    /\ \A p \in Paths : \/ e[p] \in {d[p], Gone}
                        \/ v = w + 1 /\ e[p].ver = v
LEMMA DiskLater ==
  ASSUME TypeOK, [Next]_vars
  PROVE  Later(disk, disk', writes, writes')
<1> USE DEF Later, TypeOK
<1>1. CASE UNCHANGED <<disk, writes>>
  BY <1>1
<1>2. ASSUME NEW p \in Paths, NEW ids \in SUBSET Ids, Write(p, ids) \/ Delete(p) \/ UploadRead(p)
      PROVE  Later(disk, disk', writes, writes')
  BY <1>2 DEF Write, Delete, UploadRead
<1>3. CASE IngestThrows
  BY <1>3 DEF IngestThrows
<1>4. CASE Quiet
  BY <1>1, <1>2, <1>3, <1>4 DEF Quiet, External, IngestRead, ListRead, DeferredNext, Listen, PricingRead,
     RefreshRead, ImportRead, ImportSkip, env
<1>5. CASE ~Quiet
  BY <1>1, <1>5, NextCases, BuildsKeep DEF vars, Builds, Patch, SetToggles, Dump, Crash, RemovePath, IngestCommit,
     Relist, ListCommit, PricingBegin, PricingThrows, PricingFinish, LoadDump, RefreshFinish, env
<1> QED BY <1>4, <1>5

LEMMA AgedLater ==
  ASSUME NEW d \in [Paths -> Content], NEW e \in [Paths -> Content], NEW w \in Nat, NEW v \in Nat, Later(d, e, w, v),
         NEW x \in [path : Paths \cup {NoPath}, ver : Nat], Aged(x, d, w)
  PROVE  Aged(x, e, v)
  BY DEF Aged, Later, Content

\* What is read is what the file holds, and the catalogue stands still until it
\* has been taken in.
LEMMA ReadFrom ==
  ASSUME TypeOK, VisitOnce, [Next]_vars
  PROVE  \/ cur' = NoPath
         \/ cur' = cur /\ got' = got /\ sources' = sources
         \/ cur' \in Paths /\ disk'[cur'] # Gone /\ got' = disk'[cur'] /\ sources' = sources
<1> USE DEF TypeOK
<1>1. CASE UNCHANGED vars \/ External
  BY <1>1 DEF vars, External, Write, Delete, mem, job
<1>2. ASSUME NEW p \in Paths, IngestRead(p) \/ ListRead(p)
      PROVE  cur' = p /\ disk'[p] # Gone /\ got' = disk'[p] /\ sources' = sources
  BY <1>2 DEF IngestRead, ListRead, ReadFile, env, mem
<1>3. ASSUME NEW p \in Paths, UploadRead(p)
      PROVE  cur' = p /\ disk'[p] # Gone /\ got' = disk'[p] /\ sources' = sources
  BY <1>3 DEF UploadRead, Gone, mem
<1>4. ASSUME NEW p \in Paths, DeferredNext(p)
      PROVE  \/ cur' = cur /\ got' = got /\ sources' = sources
             \/ cur' = p /\ disk'[p] # Gone /\ got' = disk'[p] /\ sources' = sources
  BY <1>4 DEF DeferredNext, ReadFile, env, mem
<1>5. CASE IngestThrows
  BY <1>5 DEF IngestThrows, JobDone
<1>6. CASE Listen \/ \E e \in todo : ImportSkip(e)
  BY <1>6 DEF Listen, ImportSkip, mem
<1>7. ASSUME NEW e \in todo, PricingRead(e) \/ RefreshRead(e) \/ ImportRead(e)
      PROVE  cur' \in Paths /\ disk'[cur'] # Gone /\ got' = disk'[cur'] /\ sources' = sources
  BY <1>7 DEF PricingRead, RefreshRead, ImportRead, ReadFile, env, mem
<1>8. CASE Quiet
  BY <1>1, <1>2, <1>3, <1>4, <1>5, <1>6, <1>7, <1>8 DEF Quiet
<1>9. CASE Patch \/ Dump
  BY <1>9 DEF Patch, SetToggles, Dump, job
<1>10. CASE Crash \/ IngestCommit \/ Relist \/ PricingThrows \/ PricingFinish \/ PricingKeep \/ RefreshKeep
            \/ RefreshReadFails \/ RefreshRestatFails
  BY <1>10 DEF Crash, JobKilled, IngestCommit, Relist, ListCommit, PricingThrows, PricingFinish, JobDone, PricingKeep,
     RefreshKeep, RefreshReadFails, RefreshRestatFails
<1>11. CASE PricingBegin \/ \E e \in todo : RefreshReuse(e) \/ RefreshStatFails(e)
  BY <1>11 DEF PricingBegin, RefreshReuse, RefreshStatFails, mem
<1>12. CASE RefreshFinish
  BY <1>12 DEF RefreshFinish
<1>13. ASSUME NEW p \in Paths, RemovePath(p) PROVE cur' = NoPath
  BY <1>13 DEF RemovePath, Running, VisitOnce, job
<1>14. ASSUME NEW late \in SUBSET Logs, LoadDump(late) PROVE cur' = NoPath
  BY <1>14 DEF LoadDump, VisitOnce
<1> QED BY NextCases, <1>1, <1>8, <1>9, <1>10, <1>11, <1>12, <1>13, <1>14

LEMMA VersionsInit == Init => Versions /\ Growing /\ RowsOK
<1> SUFFICES ASSUME Init PROVE Versions /\ Growing /\ RowsOK
  OBVIOUS
<1>1. \A p \in Paths : disk[p] = Gone
  BY DEF Init
<1>2. sources = NoSources /\ nsrc = NoSources /\ saved.src = NoSources
  BY DEF Init, NoDump
<1>3. fps = NoFps /\ nfps = NoFps /\ saved.fps = NoFps /\ writes = 0
  BY DEF Init, NoDump
<1>4. cur = NoPath /\ ~Building
  BY DEF Init, Building
<1>5. \A s \in {sources, nsrc, saved.src} : Ages(s, disk, writes) /\ OwnRows(s)
  BY <1>2, NothingKept DEF Ages, Aged, OwnRows, Paths
<1>6. \A f \in {fps, nfps, saved.fps} : Recorded(f, writes)
  BY <1>3 DEF Recorded, NoFps
<1>7. Recorded([p \in Paths |-> disk[p].ver], writes) /\ \A d \in Dbs : disk[d].ids = {}
  BY <1>1, <1>3 DEF Recorded, Gone, Paths
<1>8. Aged(ReadNow, disk, writes) /\ cur \notin Dbs
  BY <1>4 DEF Aged, ReadNow, Paths
<1>9. \A id \in Ids : sources[id].path = cur => sources[id].ver <= got.ver
  BY <1>2 DEF Init, NoSources, Absent, Gone
<1> QED BY <1>4, <1>5, <1>6, <1>7, <1>8, <1>9 DEF Versions, Growing, RowsOK

LEMMA AgesStep ==
  ASSUME TypeOK, ContentOK, VisitOnce, Versions, [Next]_vars
  PROVE  Ages(sources, disk, writes)' /\ Ages(saved.src, disk, writes)' /\ Ages(nsrc, disk, writes)'
<1>1. Later(disk, disk', writes, writes') /\ TypeOK'
  BY DiskLater, TypeStep
<1>2. ASSUME NEW x \in [path : Paths \cup {NoPath}, ver : Nat], Aged(x, disk, writes)
      PROVE  Aged(x, disk', writes')
  BY <1>1, <1>2, AgedLater DEF TypeOK
<1>3. \A x \in Session : x \in [path : Paths \cup {NoPath}, ver : Nat]
  BY DEF Session, Absent
<1>4. Aged(Absent, disk', writes')
  BY DEF Aged, Absent, Paths
<1>5. Aged(ReadNow, disk', writes')
  BY <1>2 DEF Versions, ReadNow, TypeOK, Content
<1> SUFFICES ASSUME NEW id \in Ids
             PROVE  /\ Aged(sources'[id], disk', writes') /\ Aged(saved'.src[id], disk', writes')
                    /\ Aged(nsrc'[id], disk', writes')
  BY DEF Ages
<1>6. \A x \in {sources[id], saved.src[id], nsrc[id]} : Aged(x, disk', writes')
  <2>1. \A x \in {sources[id], saved.src[id], nsrc[id]} : x \in Session /\ Aged(x, disk, writes)
    BY DEF Versions, Ages, TypeOK
  <2> QED BY <1>2, <1>3, <2>1
<1>7. Aged(sources'[id], disk', writes')
  BY <1>4, <1>5, <1>6, SourcesFrom DEF TakenFromRead
<1>8. Aged(nsrc'[id], disk', writes')
  BY <1>4, <1>5, <1>6, BuiltFrom DEF TakenFromRead
<1>9. Aged(saved'.src[id], disk', writes')
  BY <1>6, SavedFrom
<1> QED BY <1>7, <1>8, <1>9

LEMMA VersionsStep ==
  ASSUME TypeOK, ContentOK, VisitOnce, Versions, [Next]_vars
  PROVE  Versions'
<1>1. Later(disk, disk', writes, writes') /\ TypeOK'
  BY DiskLater, TypeStep
<1>2. Ages(sources, disk, writes)' /\ Ages(saved.src, disk, writes)' /\ Ages(nsrc, disk, writes)'
  BY AgesStep
<1>3. \A p \in Paths : disk[p].ver \in Nat /\ disk'[p].ver \in Nat /\ disk[p].ver <= writes
  BY <1>1 DEF TypeOK, Content, Versions, Recorded
<1>4. Recorded([p \in Paths |-> disk'[p].ver], writes')
  BY <1>1, <1>3 DEF Recorded, Later, Gone, TypeOK
<1>5. ASSUME NEW p \in Paths PROVE fps'[p] <= writes' /\ nfps'[p] <= writes' /\ saved'.fps[p] <= writes'
  <2>1. \A n \in {0, fps[p], nfps[p], saved.fps[p], disk[p].ver} : n <= writes'
    BY <1>1, <1>3 DEF Versions, Recorded, Later, TypeOK
  <2> QED BY <2>1, PrintsFrom, SavedFrom
<1>6. Aged(ReadNow, disk, writes)' /\ \A id \in Ids : sources'[id].path = cur' => sources'[id].ver <= got'.ver
  <2>1. CASE cur' = NoPath
    <3>1. \A id \in Ids : sources'[id].path = NoPath => sources'[id].ver = 0
      BY <1>1, AbsentHasNoPath DEF TypeOK, Absent
    <3> QED BY <1>1, <2>1, <3>1 DEF Aged, ReadNow, Paths, TypeOK, Content
  <2>2. CASE cur' = cur /\ got' = got /\ sources' = sources
    <3>1. ReadNow \in [path : Paths \cup {NoPath}, ver : Nat]
      BY DEF ReadNow, TypeOK, Content
    <3>2. disk \in [Paths -> Content] /\ disk' \in [Paths -> Content] /\ writes \in Nat /\ writes' \in Nat
      BY <1>1 DEF TypeOK
    <3>3. Aged(ReadNow, disk', writes')
      BY <1>1, <3>1, <3>2, AgedLater DEF Versions
    <3> QED BY <2>2, <3>3 DEF Versions, ReadNow
  <2>3. CASE cur' \in Paths /\ disk'[cur'] # Gone /\ got' = disk'[cur']
    BY <1>1, <1>2, <1>4, <2>3 DEF Ages, Aged, ReadNow, Recorded, TypeOK, Content
  <2> QED BY <2>1, <2>2, <2>3, ReadFrom
<1> QED BY <1>2, <1>4, <1>5, <1>6 DEF Versions, Recorded

LEMMA GrowingStep ==
  ASSUME TypeOK, ContentOK, VisitOnce, Versions, Growing, [Next]_vars
  PROVE  Growing'
<1>1. CASE Builds
  <2> SUFFICES ASSUME NEW id \in Ids, nsrc'[id].path = sources[id].path,
                      \A i \in Ids : nsrc[i].path = sources[i].path => sources[i].ver <= nsrc[i].ver
               PROVE  sources[id].ver <= nsrc'[id].ver
    BY <1>1, BuildsKeep DEF Growing, Building, Builds, PricingKeep, RefreshKeep,
       RefreshReadFails, RefreshRestatFails, RefreshReuse, RefreshStatFails
  <2>1. sources[id] \in Session /\ sources[id].ver \in Nat
    BY DEF TypeOK, Session, Absent
  <2>2. CASE nsrc'[id] = Absent
    BY <2>1, <2>2, AbsentHasNoPath DEF Absent
  <2>3. CASE TakenFromRead(nsrc'[id], id)
    BY <2>3 DEF TakenFromRead, ReadNow, Versions
  <2> QED BY <2>1, <2>2, <2>3, BuiltFrom
<1>2. CASE ~Builds
  <2>1. CASE nsrc' = NoSources
    <3>1. \A id \in Ids : sources'[id].path = NoPath => sources'[id].ver = 0
      BY TypeStep, AbsentHasNoPath DEF TypeOK, Absent
    <3>2. \A id \in Ids : nsrc'[id].path = NoPath /\ nsrc'[id].ver = 0
      BY <2>1 DEF NoSources, Absent
    <3> QED BY <3>1, <3>2 DEF Growing
  <2>2. CASE nsrc' # NoSources
    BY <1>2, <2>2, NotBuilding, ReadKeepsMaps DEF Growing, Building
  <2> QED BY <2>1, <2>2
<1> QED BY <1>1, <1>2

LEMMA RowsStep ==
  ASSUME TypeOK, ContentOK, VisitOnce, RowsOK, [Next]_vars
  PROVE  RowsOK'
<1>1. \A d \in Dbs : disk'[d].ids \subseteq MayHold(d)
  <2>1. ASSUME NEW p \in Paths, NEW ids \in SUBSET Ids, Write(p, ids) \/ Delete(p) \/ UploadRead(p), NEW d \in Dbs
        PROVE  disk'[d].ids \subseteq MayHold(d)
    BY <2>1 DEF Write, Delete, UploadRead, RowsOK, TypeOK, Gone, Paths
  <2>2. CASE IngestThrows
    BY <2>2 DEF IngestThrows, RowsOK, TypeOK, Gone, Paths
  <2>3. CASE Quiet
    BY <2>1, <2>2, <2>3 DEF Quiet, External, IngestRead, ListRead, DeferredNext, Listen, PricingRead,
       RefreshRead, ImportRead, ImportSkip, env, RowsOK
  <2>4. CASE ~Quiet
    BY <2>4, NextCases, BuildsKeep DEF vars, Builds, Patch, SetToggles, Dump, Crash, RemovePath, IngestCommit,
       Relist, ListCommit, PricingBegin, PricingThrows, PricingFinish, LoadDump, RefreshFinish, env, RowsOK
  <2> QED BY <2>3, <2>4
<1>2. cur' \in Dbs => got'.ids \subseteq MayHold(cur')
  BY <1>1, ReadFrom DEF RowsOK, Paths
<1>3. ASSUME NEW id \in Ids, NEW x, x \in {Absent, sources[id], saved.src[id], nsrc[id]} \/ TakenFromRead(x, id)
      PROVE  x.path \in Dbs => id \in MayHold(x.path)
  BY <1>3, NothingKept DEF RowsOK, OwnRows, TakenFromRead, ReadNow, Paths
<1>4. \A id \in Ids : /\ sources'[id] \in {Absent, sources[id], saved.src[id], nsrc[id]} \/ TakenFromRead(sources'[id], id)
                      /\ nsrc'[id] \in {Absent, sources[id], saved.src[id], nsrc[id]} \/ TakenFromRead(nsrc'[id], id)
                      /\ saved'.src[id] \in {sources[id], saved.src[id]}
  BY SourcesFrom, BuiltFrom, SavedFrom
<1>5. OwnRows(sources') /\ OwnRows(nsrc') /\ OwnRows(saved'.src)
  BY <1>3, <1>4 DEF OwnRows
<1> QED BY <1>1, <1>2, <1>5 DEF RowsOK, OwnRows

\* A parse of the version a file has now is of a session the file holds.
Found(x, id, d) == x.path \in Paths /\ d[x.path] # Gone /\ x.ver = d[x.path].ver => id \in d[x.path].ids
AllFound(s, d) == \A id \in Ids : Found(s[id], id, d)
FoundOK ==
    /\ AllFound(sources, disk) /\ AllFound(saved.src, disk) /\ AllFound(nsrc, disk)
    /\ \A id \in got.ids : Found(ReadNow, id, disk)

LEMMA FoundInit == Init => FoundOK
<1> SUFFICES ASSUME Init PROVE FoundOK
  OBVIOUS
<1>1. \A s : \A id \in Ids : s[id] = Absent => Found(s[id], id, disk)
  BY DEF Found, Absent, Paths
<1>2. got.ids = {}
  BY DEF Init, Gone
<1> QED BY <1>1, <1>2, NothingKept DEF Init, NoDump, FoundOK, AllFound

LEMMA FoundLater ==
  ASSUME NEW d \in [Paths -> Content], NEW e \in [Paths -> Content], NEW w \in Nat, NEW v \in Nat, Later(d, e, w, v),
         NEW x \in [path : Paths \cup {NoPath}, ver : Nat], Aged(x, d, w), NEW id, Found(x, id, d)
  PROVE  Found(x, id, e)
  BY DEF Aged, Found, Later, Content

LEMMA FoundStep ==
  ASSUME TypeOK, ContentOK, VisitOnce, Versions, FoundOK, [Next]_vars
  PROVE  FoundOK'
<1>1. Later(disk, disk', writes, writes') /\ TypeOK'
  BY DiskLater, TypeStep
<1>2. ASSUME NEW x \in [path : Paths \cup {NoPath}, ver : Nat], Aged(x, disk, writes), NEW id, Found(x, id, disk)
      PROVE  Found(x, id, disk')
  BY <1>1, <1>2, FoundLater DEF TypeOK
<1>3. \A x \in Session : x \in [path : Paths \cup {NoPath}, ver : Nat]
  BY DEF Session, Absent
<1>4. \A id : Found(Absent, id, disk')
  BY DEF Found, Absent, Paths
<1>5. \A id \in got.ids : Found(ReadNow, id, disk')
  BY <1>2 DEF FoundOK, Versions, ReadNow, TypeOK, Content
<1>6. ASSUME NEW id \in Ids
      PROVE  Found(sources'[id], id, disk') /\ Found(saved'.src[id], id, disk') /\ Found(nsrc'[id], id, disk')
  <2>1. \A x \in {sources[id], saved.src[id], nsrc[id]} : x \in Session /\ Aged(x, disk, writes) /\ Found(x, id, disk)
    BY DEF Versions, Ages, FoundOK, AllFound, TypeOK
  <2>2. \A x \in {sources[id], saved.src[id], nsrc[id]} : Found(x, id, disk')
    BY <1>2, <1>3, <2>1
  <2>3. Found(sources'[id], id, disk')
    BY <1>4, <1>5, <2>2, SourcesFrom DEF TakenFromRead
  <2>4. Found(nsrc'[id], id, disk')
    BY <1>4, <1>5, <2>2, BuiltFrom DEF TakenFromRead
  <2> QED BY <2>2, <2>3, <2>4, SavedFrom
<1>7. \A id \in got'.ids : Found(ReadNow, id, disk)'
  <2>1. CASE cur' = NoPath
    BY <2>1 DEF Found, ReadNow, Paths
  <2>2. CASE cur' = cur /\ got' = got
    BY <1>5, <2>2 DEF ReadNow
  <2>3. CASE cur' \in Paths /\ got' = disk'[cur']
    BY <2>3 DEF Found, ReadNow
  <2> QED BY <2>1, <2>2, <2>3, ReadFrom
<1> QED BY <1>6, <1>7 DEF FoundOK, AllFound

\* A pricing pass that has read a database, and whose record of it still holds,
\* has each of its sessions.
Priced == op = "pricing" /\ ~raced => \A d \in Dbs : disk[d].ver # 0 /\ nfps[d] = disk[d].ver =>
              \A id \in disk[d].ids : nsrc[id].path \in Dbs

LEMMA PricedStep ==
  ASSUME TypeOK, Versions, Priced, [Next]_vars
  PROVE  Priced'
<1> SUFFICES ASSUME op' = "pricing", ~raced', NEW d \in Dbs, disk'[d].ver # 0, nfps'[d] = disk'[d].ver,
                    NEW id \in disk'[d].ids
             PROVE  nsrc'[id].path \in Dbs
  BY DEF Priced
<1>0. d \in Paths /\ nfps[d] \in Nat /\ nfps[d] <= writes /\ writes \in Nat
  BY DEF Paths, TypeOK, Versions, Recorded
<1>1. CASE UNCHANGED vars
  BY <1>1 DEF vars, env, job, next, Priced
<1>2. CASE External
  <2>1. UNCHANGED <<op, nsrc, nfps, raced>>
    BY <1>2 DEF External, Write, Delete, job, next
  <2>2. disk'[d] = disk[d]
    BY <1>0, <2>1, DiskLater DEF Later, Gone
  <2> QED BY <2>1, <2>2 DEF Priced
<1>3. CASE PricingBegin
  BY <1>0, <1>3 DEF PricingBegin, StartMaps, NoFps
<1>4. ASSUME NEW e \in todo, PricingRead(e) PROVE nsrc'[id].path \in Dbs
  BY <1>4 DEF PricingRead, next, env, Priced
<1>5. CASE PricingKeep
  <2>1. op = "pricing" /\ ~raced /\ disk' = disk /\ disk[cur] = got /\ cur \in Paths /\ id \in Ids
    BY <1>0, <1>5 DEF PricingKeep, env, TypeOK, Content
  <2>2. CASE d = cur
    BY <1>5, <2>1, <2>2 DEF PricingKeep, YieldsToDb, Parsed
  <2>3. CASE d # cur
    <3>1. nsrc[id].path \in Dbs
      BY <1>0, <1>5, <2>1, <2>3 DEF PricingKeep, Priced, TypeOK
    <3> QED BY <1>5, <2>1, <3>1 DEF PricingKeep, YieldsToDb, Parsed
  <2> QED BY <2>2, <2>3
<1> QED BY <1>1, <1>2, <1>3, <1>4, <1>5, PricingSteps

\* Every invariant the remaining theorems rest on.
StoreInv == StepInv /\ Versions /\ Growing /\ RowsOK /\ FoundOK /\ Priced

LEMMA StoreInvAlways == Spec => []StoreInv
<1>1. Init => Versions /\ Growing /\ RowsOK /\ FoundOK /\ Priced
  BY VersionsInit, FoundInit DEF Init, Priced
<1>2. StepInv /\ Versions /\ Growing /\ RowsOK /\ FoundOK /\ Priced /\ [Next]_vars
        => Versions' /\ Growing' /\ RowsOK' /\ FoundOK' /\ Priced'
  BY VersionsStep, GrowingStep, RowsStep, FoundStep, PricedStep DEF StepInv, IInv
<1> QED BY <1>1, <1>2, StepInvAlways, PTL DEF Spec, StoreInv

\* While the process lives no ingest, refresh, pricing pass or live re-read puts
\* an older parse of a file in the place of a newer one, although each may read
\* the file long before it takes the content in.
THEOREM NeverOlderAlways == Spec => NeverOlder
<1>1. ASSUME StoreInv, [Next]_vars, NEW id \in Ids, sources[id] # Absent, sources'[id].path = sources[id].path
      PROVE  sources'[id].ver >= sources[id].ver
  <2> USE DEF StoreInv, StepInv, IInv
  <2>1. sources[id].path # NoPath /\ sources[id].ver \in Nat /\ sources'[id].ver \in Nat
    BY <1>1, AbsentHasNoPath, TypeStep DEF TypeOK, Session, Absent
  <2>2. sources'[id] # Absent
    BY <1>1, <2>1, NothingKept
  <2>3. stage # "down"
    BY <1>1, NothingKept DEF DownIsEmpty
  <2>4. CASE TakenFromRead(sources'[id], id)
    BY <1>1, <2>1, <2>4 DEF TakenFromRead, ReadNow, Versions
  <2>5. CASE Building /\ sources'[id] = nsrc[id]
    BY <1>1, <2>1, <2>5 DEF Growing
  <2> QED BY <1>1, <2>1, <2>2, <2>3, <2>4, <2>5, SourcesFrom
<1>2. StoreInv /\ [Next]_vars => [\A id \in Ids :
    sources[id] # Absent /\ sources'[id].path = sources[id].path => sources'[id].ver >= sources[id].ver]_vars
  BY <1>1
<1> QED BY <1>2, StoreInvAlways, PTL DEF Spec, NeverOlder

\* store.ts:293: through ingests, both refreshes of a boot, uploads and removals no
\* step hands a session a database owns to a transcript; of the operations that do
\* not ask the catalogue, a live re-read does so where the transcript has been
\* renamed to the session, and a pricing pass only where the database has lost the
\* session or has changed since the pass read it.
THEOREM DbPrecedenceAlways == Spec => DbPrecedence
<1>0. StoreInv => TypeOK /\ ContentOK
  BY DEF StoreInv, StepInv, IInv
<1>1. ASSUME StoreInv, [Next]_vars, NEW id \in Ids, NEW d \in Dbs, sources[id].path = d
      PROVE  \/ sources'[id].path \in Dbs \cup {NoPath}
             \/ \E old \in Ids : Renames(old, id)
             \/ op = "pricing" /\ (raced \/ id \notin disk[d].ids \/ ~Unchanged(d)')
  <2> USE DEF StoreInv, StepInv, IInv
  <2>1. CASE Patch
    BY <1>1, <2>1 DEF Patch, SetToggles
  <2>2. CASE Crash
    BY <2>2, NothingKept DEF Crash
  <2>3. CASE IngestCommit
    <3>1. CASE id \in Taken
      BY <1>1, <2>3, <3>1 DEF IngestCommit, Taken, YieldsToDb, Parsed
    <3> QED BY <1>1, <2>3, <3>1, NothingKept DEF IngestCommit
  <2>4. CASE Relist
    <3>1. PICK old \in Ids, new \in Ids : Moves(old, new)
      BY <1>0, <1>1, <2>4, RelistMoves
    <3>2. id # old
      BY <1>1, <3>1 DEF Moves, Jsonl, Paths
    <3>3. CASE id = new
      <4>1. Renames(old, id)
        BY <3>1, <3>2, <3>3 DEF Moves, Renames
      <4> QED BY <4>1
    <3>4. CASE id # new
      BY <1>1, <3>1, <3>2, <3>4 DEF Moves
    <3> QED BY <3>3, <3>4
  <2>5. CASE PricingFinish
    <3>1. op = "pricing" /\ sources' = nsrc /\ fps' = nfps /\ disk' = disk /\ raced' = raced
      BY <2>5 DEF PricingFinish, env
    <3>2. Unchanged(d)' /\ ~raced /\ id \in disk[d].ids => nsrc[id].path \in Dbs
      BY <1>1, <2>5, <3>1 DEF PricingFinish, Unchanged, Priced
    <3> QED BY <3>1, <3>2
  <2>6. CASE RefreshFinish
    <3>1. Survivors \in [Ids -> Session] /\ nsrc \in [Ids -> Session]
      BY <1>1 DEF Survivors, Session, TypeOK
    <3>2. \A i \in Ids : sources[i].path \in Dbs => nsrc[i].path \in Dbs \cup {NoPath}
      BY <1>1, <2>6 DEF RefreshFinish, DbFirst
    <3> QED BY <1>1, <2>6, <3>1, <3>2, KeepDbFirst DEF RefreshFinish
  <2>7. ASSUME NEW p \in Paths, RemovePath(p) PROVE sources'[id].path \in Dbs \cup {NoPath}
    BY <1>1, <2>7, NothingKept DEF RemovePath
  <2>8. ASSUME NEW late \in SUBSET Logs, LoadDump(late) PROVE FALSE
    BY <1>1, <2>8, NothingKept DEF LoadDump, DownIsEmpty, Paths
  <2> QED BY <1>1, <2>1, <2>2, <2>3, <2>4, <2>5, <2>6, <2>7, <2>8, OnlyListsChange DEF Lists
<1>2. StoreInv /\ [Next]_vars => [\A id \in Ids, d \in Dbs : sources[id].path = d =>
    \/ sources'[id].path \in Dbs \cup {NoPath}
    \/ \E old \in Ids : Renames(old, id)
    \/ op = "pricing" /\ (raced \/ id \notin disk[d].ids \/ ~Unchanged(d)')]_vars
  BY <1>1
<1> QED BY <1>2, StoreInvAlways, PTL DEF Spec, DbPrecedence

---------------------------------------------------------------------------
\* What is claimed of the catalogue's database sessions, of the dump's and of
\* those of the map being built, but for sessions u.
Listed(s, f, d, u) == \A b \in Dbs : d[b].ver # 0 /\ f[b] = d[b].ver =>
                          \A id \in d[b].ids \ u : OnlyIn(b, id) => s[id].path \in Dbs
ListedOK == ~raced => /\ Listed(sources, fps, disk, usurped)
                      /\ Listed(saved.src, saved.fps, disk, usurped)
                      /\ Listed(nsrc, nfps, disk, usurped)

LEMMA NothingRecorded ==
  ASSUME TypeOK
  PROVE  \A s, u : Listed(s, NoFps, disk, u)
  BY DEF Listed, NoFps, Paths

\* A written database no longer has the fingerprint any map records.
LEMMA ListedLater ==
  ASSUME TypeOK, TypeOK', Later(disk, disk', writes, writes'), NEW f \in [Paths -> Nat], Recorded(f, writes),
         NEW s, NEW u, Listed(s, f, disk, u)
  PROVE  Listed(s, f, disk', u)
<1> SUFFICES ASSUME NEW b \in Dbs, disk'[b].ver # 0, f[b] = disk'[b].ver, NEW id \in disk'[b].ids \ u, OnlyIn(b, id)
             PROVE  s[id].path \in Dbs
  BY DEF Listed
<1>1. b \in Paths /\ f[b] \in Nat /\ f[b] <= writes /\ writes \in Nat
  BY DEF Paths, Recorded, TypeOK
<1>2. disk'[b] = disk[b]
  BY <1>1 DEF Later, Gone
<1> QED BY <1>2 DEF Listed

\* keepSource leaves a database's session with a database, and takes one.
LEMMA KeepListed ==
  ASSUME NEW snaps, NEW s, NEW id \in Ids, s[id].path \in Dbs \/ snaps[id].path \in Dbs
  PROVE  KeepSources(snaps, s)[id].path \in Dbs
  BY DEF KeepSources, Kept, YieldsToDb, Incumbent, Absent, Paths

LEMMA OwnedListed ==
  ASSUME RowsOK, NEW b \in Dbs, NEW id \in Ids, OnlyIn(b, id), sources[id].path \in Dbs
  PROVE  sources[id].path = b /\ OwnedBy(b)[id].path = b
  BY DEF RowsOK, OwnRows, OnlyIn, OwnedBy

LEMMA KeepOldListed ==
  ASSUME TypeOK, RowsOK, NEW p \in Paths, NEW s, NEW t, NEW u, KeepOld(p, s, t), disk' = disk,
         Listed(sources, fps, disk, u), Listed(s, nfps, disk, u)
  PROVE  Listed(nsrc', nfps', disk', u)
<1> SUFFICES ASSUME NEW b \in Dbs, disk[b].ver # 0, nfps'[b] = disk[b].ver, NEW id \in disk[b].ids \ u, OnlyIn(b, id)
             PROVE  nsrc'[id].path \in Dbs
  BY DEF Listed
<1>1. b \in Paths /\ id \in Ids
  BY DEF Paths, TypeOK, Content
<1>2. CASE nfps'[b] = nfps[b]
  BY <1>1, <1>2, KeepListed DEF KeepOld, Listed
<1>3. CASE b = p /\ nfps'[b] = fps[b]
  BY <1>1, <1>3, OwnedListed, KeepListed DEF KeepOld, Listed
<1> QED BY <1>1, <1>2, <1>3 DEF KeepOld, TypeOK

\* What a live re-read takes from a database stays taken, and the transcript it
\* came to may name another session too.
UsurpedOK == \A id \in usurped : \E p \in Jsonl : id \in MayName(p) /\ MayName(p) # {id}

LEMMA UsurpedIs ==
  ASSUME [Next]_vars
  PROVE  usurped' = usurped \/ Relist
<1>1. CASE Ingest
  BY <1>1 DEF Ingest, IngestRead, UploadRead, RemovePath, ListRead, DeferredNext, IngestThrows, IngestCommit, Relist
<1>2. CASE Pricing
  BY <1>2 DEF Pricing, PricingBegin, PricingRead, PricingKeep, PricingThrows, PricingFinish
<1>3. CASE Boot
  BY <1>3 DEF Boot, LoadDump, RefreshReuse, RefreshRead, RefreshStatFails, ImportRead, ImportSkip, RefreshKeep,
     RefreshReadFails, RefreshRestatFails, RefreshFinish, Listen
<1>4. CASE External \/ Patch \/ Dump \/ Crash \/ UNCHANGED vars
  BY <1>4 DEF External, Write, Delete, Patch, SetToggles, Dump, Crash, vars
<1> QED BY <1>1, <1>2, <1>3, <1>4 DEF Next

LEMMA UsurpedStay ==
  ASSUME [Next]_vars
  PROVE  usurped \subseteq usurped'
  BY UsurpedIs DEF Relist, ListCommit

LEMMA UsurpedStep ==
  ASSUME TypeOK, ContentOK, UsurpedOK, [Next]_vars
  PROVE  UsurpedOK'
<1>1. CASE Relist
  <2>1. PICK old \in Ids, new \in Ids : Moves(old, new)
    BY <1>1, RelistMoves
  <2>2. cur \in Jsonl /\ new \in MayName(cur) /\ old \in MayName(cur)
    BY <2>1 DEF Moves, ContentOK, Names, OwnId
  <2>3. sources[new].path \in Dbs => old # new
    BY <2>1 DEF Moves, Jsonl, Paths
  <2> QED BY <2>1, <2>2, <2>3 DEF Moves, UsurpedOK
<1>2. CASE usurped' = usurped
  BY <1>2 DEF UsurpedOK
<1> QED BY <1>1, <1>2, UsurpedIs

LEMMA ListedStep ==
  ASSUME TypeOK, ContentOK, VisitOnce, OwnerRead, DbFirst, Versions, RowsOK, ListedOK, [Next]_vars, ~raced'
  PROVE  ListedOK'
<1> SUFFICES ASSUME NEW u, u = usurped'
             PROVE  /\ Listed(sources', fps', disk', u) /\ Listed(nsrc', nfps', disk', u)
                    /\ Listed(saved'.src, saved'.fps, disk', u)
  BY DEF ListedOK
<1>1. ~raced
  BY NextCases, QuietKeepsMaps DEF vars, Patch, SetToggles, Dump, Crash, RemovePath, IngestCommit, Relist, ListCommit,
     PricingBegin, PricingKeep, PricingThrows, PricingFinish, LoadDump, RefreshReuse, RefreshStatFails, RefreshKeep,
     RefreshReadFails, RefreshRestatFails, RefreshFinish
<1>2. Listed(sources, fps, disk, u) /\ Listed(saved.src, saved.fps, disk, u) /\ Listed(nsrc, nfps, disk, u)
  BY <1>1, UsurpedStay DEF ListedOK, Listed
<1>3. /\ Listed(sources, fps, disk', u) /\ Listed(saved.src, saved.fps, disk', u) /\ Listed(nsrc, nfps, disk', u)
      /\ \A s : Listed(s, NoFps, disk', u)
  <2>1. Later(disk, disk', writes, writes') /\ TypeOK'
    BY DiskLater, TypeStep
  <2>2. fps \in [Paths -> Nat] /\ saved.fps \in [Paths -> Nat] /\ nfps \in [Paths -> Nat]
    BY DEF TypeOK
  <2>3. \A s : Listed(s, NoFps, disk', u)
    BY DEF Listed, NoFps, Paths
  <2> QED BY <1>2, <2>1, <2>2, <2>3, ListedLater DEF Versions
<1>4. Listed(saved'.src, saved'.fps, disk', u)
  BY <1>3, SavedFrom
<1> SUFFICES Listed(sources', fps', disk', u) /\ Listed(nsrc', nfps', disk', u)
  BY <1>4
<1> USE DEF Listed
<1>5. CASE Quiet \/ UNCHANGED vars
  BY <1>3, <1>5, QuietKeepsMaps DEF vars, mem, next, job
<1>6. CASE Patch \/ Dump
  BY <1>3, <1>6 DEF Patch, SetToggles, Dump, job, next
<1>7. CASE Crash \/ PricingBegin \/ PricingThrows
  BY <1>3, <1>7 DEF Crash, PricingBegin, PricingThrows, StartMaps, mem
<1>8. CASE PricingFinish
  BY <1>3, <1>8 DEF PricingFinish, StartMaps
<1>9. ASSUME NEW late \in SUBSET Logs, LoadDump(late)
      PROVE  Listed(sources', fps', disk', u) /\ Listed(nsrc', nfps', disk', u)
  BY <1>3, <1>9 DEF LoadDump, BeginRefresh, StartMaps
<1> HIDE DEF Listed
<1>10. ASSUME NEW p \in Paths, RemovePath(p)
       PROVE  Listed(sources', fps', disk', u) /\ Listed(nsrc', nfps', disk', u)
  <2>1. ASSUME NEW b \in Dbs, disk[b].ver # 0, fps'[b] = disk[b].ver, NEW id \in disk[b].ids \ u, OnlyIn(b, id)
        PROVE  sources'[id].path \in Dbs
    <3>1. b \in Paths /\ id \in Ids /\ b # p
      BY <1>10, <2>1 DEF RemovePath, Gone, Paths, TypeOK, Content
    <3>2. sources[id].path = b
      BY <1>2, <1>10, <2>1, <3>1, OwnedListed DEF RemovePath, Listed, TypeOK
    <3> QED BY <1>10, <3>1, <3>2 DEF RemovePath
  <2> QED BY <1>3, <1>10, <2>1 DEF RemovePath, Listed, env, job, next
<1>11. CASE IngestCommit
  <2>1. cur \in Paths /\ disk[cur] = got
    BY <1>11 DEF IngestCommit, TypeOK
  <2>2. ASSUME NEW b \in Dbs, disk[b].ver # 0, fps'[b] = disk[b].ver, NEW id \in disk[b].ids \ u, OnlyIn(b, id)
        PROVE  sources'[id].path \in Dbs
    <3>1. b \in Paths /\ id \in Ids
      BY DEF Paths, TypeOK, Content
    <3>2. CASE b = cur
      <4>1. id \in Taken
        BY <1>11, <2>1, <3>2 DEF Taken, Skips, YieldsToDb, ContentOK, Paths
      <4> QED BY <1>11, <2>1, <3>1, <3>2, <4>1 DEF IngestCommit, Taken, Parsed
    <3>3. CASE b # cur
      <4>1. sources[id].path = b
        BY <1>2, <1>11, <2>1, <2>2, <3>1, <3>3, OwnedListed DEF IngestCommit, Listed, TypeOK
      <4> QED BY <1>11, <3>1, <3>3, <4>1 DEF IngestCommit, Taken, Dropped, YieldsToDb, Parsed
    <3> QED BY <3>2, <3>3
  <2> QED BY <1>3, <1>11, <2>2 DEF IngestCommit, Listed, env, next
<1>12. CASE Relist
  <2>1. PICK old \in Ids, new \in Ids : Moves(old, new)
    BY <1>12, RelistMoves
  <2>2. ASSUME NEW b \in Dbs, disk[b].ver # 0, fps'[b] = disk[b].ver, NEW id \in disk[b].ids \ u, OnlyIn(b, id)
        PROVE  sources'[id].path \in Dbs
    <3>1. b \in Paths /\ id \in Ids /\ b # cur /\ cur \notin Dbs
      BY <2>1 DEF Moves, Paths, Jsonl, TypeOK, Content
    <3>2. sources[id].path \in Dbs
      BY <1>2, <2>1, <2>2, <3>1 DEF Moves, Listed, TypeOK
    <3>3. id # old /\ id # new
      BY <2>1, <2>2, <3>1, <3>2 DEF Moves
    <3> QED BY <2>1, <3>1, <3>2, <3>3 DEF Moves
  <2>3. disk' = disk /\ nsrc' = nsrc /\ nfps' = nfps
    BY <1>12, RelistMoves DEF env, next
  <2> QED BY <1>3, <2>2, <2>3 DEF Listed
<1>13. CASE PricingKeep
  <2>1. cur \in Paths /\ disk[cur] = got
    BY <1>13 DEF PricingKeep, TypeOK
  <2>2. ASSUME NEW b \in Dbs, disk[b].ver # 0, nfps'[b] = disk[b].ver, NEW id \in disk[b].ids \ u, OnlyIn(b, id)
        PROVE  nsrc'[id].path \in Dbs
    <3>1. b \in Paths /\ id \in Ids
      BY DEF Paths, TypeOK, Content
    <3>2. CASE b = cur
      BY <1>13, <2>1, <3>1, <3>2 DEF PricingKeep, YieldsToDb, Parsed
    <3>3. CASE b # cur
      <4>1. nsrc[id].path \in Dbs
        BY <1>2, <1>13, <2>1, <2>2, <3>1, <3>3 DEF PricingKeep, Listed, TypeOK
      <4> QED BY <1>13, <3>1, <4>1 DEF PricingKeep, YieldsToDb, Parsed
    <3> QED BY <3>2, <3>3
  <2> QED BY <1>3, <1>13, <2>2 DEF PricingKeep, Listed, env, mem
<1>14. ASSUME NEW e \in todo, RefreshReuse(e)
       PROVE  Listed(sources', fps', disk', u) /\ Listed(nsrc', nfps', disk', u)
  <2>1. e.path \in Paths /\ fps[e.path] = disk[e.path].ver
    BY <1>14 DEF RefreshReuse, Unchanged, TypeOK
  <2>2. ASSUME NEW b \in Dbs, disk[b].ver # 0, nfps'[b] = disk[b].ver, NEW id \in disk[b].ids \ u, OnlyIn(b, id)
        PROVE  nsrc'[id].path \in Dbs
    <3>1. b \in Paths /\ id \in Ids
      BY DEF Paths, TypeOK, Content
    <3>2. CASE b = e.path
      BY <1>2, <1>14, <2>1, <2>2, <3>1, <3>2, OwnedListed, KeepListed DEF RefreshReuse, Listed
    <3>3. CASE b # e.path
      BY <1>2, <1>14, <2>1, <2>2, <3>1, <3>3, KeepListed DEF RefreshReuse, Listed, TypeOK
    <3> QED BY <3>2, <3>3
  <2> QED BY <1>3, <1>14, <2>2 DEF RefreshReuse, Listed, env, mem
<1>15. ASSUME NEW e \in todo, RefreshStatFails(e)
       PROVE  Listed(sources', fps', disk', u) /\ Listed(nsrc', nfps', disk', u)
  <2>1. e.path \in Paths /\ KeepOld(e.path, nsrc, ntog) /\ disk' = disk /\ sources' = sources /\ fps' = fps
    BY <1>15 DEF RefreshStatFails, TypeOK, env, mem
  <2> QED BY <1>2, <2>1, KeepOldListed
<1>16. CASE RefreshReadFails
  <2>1. cur \in Paths /\ KeepOld(cur, nsrc, ntog) /\ disk' = disk /\ sources' = sources /\ fps' = fps
    BY <1>16 DEF RefreshReadFails, TypeOK, env, mem
  <2> QED BY <1>2, <2>1, KeepOldListed
<1>17. CASE RefreshRestatFails
  BY <1>17 DEF RefreshRestatFails
<1>18. CASE RefreshKeep
  <2>1. cur \in Paths /\ disk[cur] = got
    BY <1>18 DEF RefreshKeep, TypeOK
  <2>2. ASSUME NEW b \in Dbs, disk[b].ver # 0, nfps'[b] = disk[b].ver, NEW id \in disk[b].ids \ u, OnlyIn(b, id)
        PROVE  nsrc'[id].path \in Dbs
    <3>1. b \in Paths /\ id \in Ids
      BY DEF Paths, TypeOK, Content
    <3>2. CASE b = cur
      <4>1. Parsed(cur, got)[id].path \in Dbs
        BY <2>1, <3>1, <3>2 DEF Parsed
      <4> QED BY <1>18, <3>1, <4>1, KeepListed DEF RefreshKeep
    <3>3. CASE b # cur
      BY <1>2, <1>18, <2>1, <2>2, <3>1, <3>3, KeepListed DEF RefreshKeep, Listed, TypeOK
    <3> QED BY <3>2, <3>3
  <2> QED BY <1>3, <1>18, <2>2 DEF RefreshKeep, Listed, env, mem
<1>19. CASE RefreshFinish
  <2>1. ASSUME NEW b \in Dbs, disk[b].ver # 0, fps'[b] = disk[b].ver, NEW id \in disk[b].ids \ u, OnlyIn(b, id)
        PROVE  sources'[id].path \in Dbs
    <3>1. b \in Paths /\ id \in Ids
      BY DEF Paths, TypeOK, Content
    <3>2. fps'[b] = IF nfps[b] = 0 /\ b \notin scope THEN fps[b] ELSE nfps[b]
      BY <1>19, <3>1 DEF RefreshFinish
    <3>3. CASE nfps[b] = 0 /\ b \notin scope
      <4>1. sources[id].path = b /\ disk[b] # Gone
        <5>1. sources[id].path \in Dbs
          BY <1>2, <2>1, <3>2, <3>3 DEF Listed
        <5> QED BY <2>1, <3>1, <5>1, OwnedListed DEF Gone
      <4>2. CASE nsrc[id] = Absent
        <5>1. Survivors[id].path \in Dbs
          BY <3>1, <3>3, <4>1, <4>2 DEF Survivors, Absent, Paths
        <5> QED BY <1>19, <3>1, <5>1, KeepListed DEF RefreshFinish
      <4>3. CASE nsrc[id] # Absent
        <5>1. nsrc[id].path \in Dbs
          BY <1>19, <3>1, <4>1, <4>3, AbsentHasNoPath DEF DbFirst, Building, RefreshFinish, TypeOK
        <5> QED BY <1>19, <3>1, <5>1, KeepListed DEF RefreshFinish
      <4> QED BY <4>2, <4>3
    <3>4. CASE fps'[b] = nfps[b]
      <4>1. nsrc[id].path \in Dbs
        BY <1>2, <2>1, <3>4 DEF Listed
      <4> QED BY <1>19, <3>1, <4>1, KeepListed DEF RefreshFinish
    <3> QED BY <3>2, <3>3, <3>4
  <2>2. disk' = disk /\ nfps' = NoFps
    BY <1>19 DEF RefreshFinish, BeginRefresh, StartMaps, env
  <2> QED BY <1>3, <2>1, <2>2 DEF Listed
<1> QED BY NextCases, <1>5, <1>6, <1>7, <1>8, <1>9, <1>10, <1>11, <1>12, <1>13, <1>14, <1>15, <1>16, <1>17, <1>18, <1>19

---------------------------------------------------------------------------
\* Until a refresh reads a file, it has kept nothing but the catalogue's own.
Untouched == op = "refresh" /\ ~nmut => /\ cur = NoPath
                                        /\ \A id \in Ids : nsrc[id] \in {Absent, sources[id]}
CleanOK == CleanDumpIsComplete /\ Untouched

LEMMA CleanInit == Init => ListedOK /\ CleanOK
<1> SUFFICES ASSUME Init PROVE ListedOK /\ CleanOK
  OBVIOUS
<1>1. TypeOK /\ fps = NoFps /\ saved.fps = NoFps /\ nfps = NoFps
  BY TypeInit DEF Init, NoDump
<1>2. ListedOK
  BY <1>1, NothingRecorded DEF ListedOK
<1>3. CleanOK
  BY DEF Init, CleanOK, CleanDumpIsComplete, Untouched
<1> QED BY <1>2, <1>3

LEMMA RefreshSteps ==
  ASSUME VisitOnce, [Next]_vars, op' = "refresh"
  PROVE  \/ UNCHANGED vars \/ External \/ RefreshKeep \/ RefreshReadFails \/ RefreshRestatFails
         \/ \E e \in todo : RefreshReuse(e) \/ RefreshRead(e) \/ RefreshStatFails(e)
         \/ nsrc' = NoSources /\ cur' = NoPath
<1>1. CASE Ingest
  BY <1>1 DEF Ingest, IngestRead, UploadRead, RemovePath, ListRead, DeferredNext, IngestThrows, IngestCommit,
     Relist, ListCommit, ReadFile, JobDone, Running, job
<1>2. CASE Patch \/ Dump \/ Crash
  BY <1>2 DEF Patch, SetToggles, Dump, Crash, JobKilled, Running, job
<1>3. CASE Pricing
  BY <1>3 DEF Pricing, PricingBegin, PricingRead, PricingKeep, PricingThrows, PricingFinish, JobDone
<1>4. CASE \E late \in SUBSET Logs : LoadDump(late)
  BY <1>4 DEF LoadDump, BeginRefresh, StartMaps, VisitOnce
<1>5. CASE RefreshFinish
  BY <1>5 DEF RefreshFinish, BeginRefresh, StartMaps
<1>6. CASE Listen \/ \E e \in todo : ImportRead(e) \/ ImportSkip(e)
  BY <1>6 DEF Listen, ImportRead, ImportSkip, ReadFile
<1> QED BY <1>1, <1>2, <1>3, <1>4, <1>5, <1>6 DEF Next, Boot

LEMMA UntouchedStep ==
  ASSUME TypeOK, VisitOnce, Untouched, [Next]_vars
  PROVE  Untouched'
<1> SUFFICES ASSUME op' = "refresh", ~nmut'
             PROVE  cur' = NoPath /\ \A id \in Ids : nsrc'[id] \in {Absent, sources'[id]}
  BY DEF Untouched
<1>1. CASE UNCHANGED vars \/ External
  BY <1>1 DEF vars, External, Write, Delete, mem, job, next, Untouched
<1>2. CASE nsrc' = NoSources /\ cur' = NoPath
  BY <1>2, NothingKept
<1>3. CASE RefreshKeep \/ RefreshReadFails \/ RefreshRestatFails
  BY <1>3 DEF RefreshKeep, RefreshReadFails, RefreshRestatFails, Untouched
<1>4. \A p : \A id \in Ids : OwnedBy(p)[id] \in {Absent, sources[id]}
  BY DEF OwnedBy
<1>5. ASSUME NEW e \in todo, RefreshReuse(e) \/ RefreshStatFails(e)
      PROVE  cur' = NoPath /\ \A id \in Ids : nsrc'[id] \in {Absent, sources'[id]}
  <2>1. cur' = NoPath /\ sources' = sources /\ ~nmut /\ op = "refresh"
    BY <1>5 DEF RefreshReuse, RefreshStatFails, mem
  <2>2. \A id \in Ids : nsrc'[id] \in {OwnedBy(e.path)[id], nsrc[id]}
    BY <1>5, KeptIs DEF RefreshReuse, RefreshStatFails, KeepOld
  <2> QED BY <1>4, <2>1, <2>2 DEF Untouched
<1>6. ASSUME NEW e \in todo, RefreshRead(e) PROVE FALSE
  BY <1>6 DEF RefreshRead
<1> QED BY <1>1, <1>2, <1>3, <1>5, <1>6, RefreshSteps

\* A refresh that leaves the catalogue clean has changed no session and no toggle.
LEMMA CleanRefresh ==
  ASSUME TypeOK, ContentOK, TogglesOK, TogglesCarried, Untouched, RefreshFinish, ~dirty'
  PROVE  sources' = sources /\ toggles' = toggles
<1>1. TypeOK' /\ TogglesOK'
  BY TypeStep, TogglesStep DEF Next, Boot
<1>2. ~nmut /\ (\A id \in Ids : (sources'[id] = Absent) <=> (sources[id] = Absent)) /\ op = "refresh"
  BY DEF RefreshFinish
<1>3. \A id \in Ids : sources'[id] \in {Absent, sources[id]}
  BY <1>2, KeptIs DEF RefreshFinish, Survivors, Untouched
<1>4. \A id \in Ids : sources'[id] = sources[id]
  BY <1>2, <1>3
<1>5. sources' = sources
  BY <1>1, <1>4 DEF TypeOK
<1>6. ASSUME NEW id \in Ids PROVE toggles'[id] = toggles[id]
  <2>1. CASE sources[id] = Absent
    BY <1>1, <1>5, <2>1 DEF TogglesOK, TogglesMatchSources, TogglesMatch
  <2>2. CASE sources[id] # Absent
    <3>1. \A i \in Ids : nsrc[i] # Absent => ntog[i] = Carried(i)
      BY <1>2 DEF TogglesCarried, Building
    <3>2. toggles'[id] = Carried(id)
      <4>1. \A i \in Ids : KeepSources(Survivors, nsrc)[i] # Absent =>
                KeepToggles(Survivors, nsrc, ntog)[i] = Carried(i)
        BY <3>1, KeepCarries
      <4>2. sources' = KeepSources(Survivors, nsrc) /\ toggles' = KeepToggles(Survivors, nsrc, ntog)
        BY DEF RefreshFinish
      <4> QED BY <1>4, <2>2, <4>1, <4>2
    <3> QED BY <2>2, <3>2 DEF Carried, TogglesOK, TogglesMatchSources, TogglesMatch
  <2> QED BY <2>1, <2>2
<1> QED BY <1>1, <1>5, <1>6 DEF TypeOK

LEMMA CleanStep ==
  ASSUME StepInv, CleanOK, [Next]_vars
  PROVE  CleanOK'
<1> USE DEF StepInv, IInv, CleanOK
<1> SUFFICES ASSUME stage' # "down", ~dirty'
             PROVE  \A id \in Ids \ moved' : saved'.tog[id] = toggles'[id] /\ saved'.src[id].path = sources'[id].path
  BY UntouchedStep DEF CleanDumpIsComplete
<1>1. CASE Quiet \/ UNCHANGED vars
  <2>1. dirty' = dirty /\ (stage # "down" \/ External)
    BY <1>1 DEF Quiet, vars, External, Write, Delete, IngestRead, UploadRead, ListRead, DeferredNext, Running,
       IngestThrows, Listen, PricingRead, RefreshRead, ImportRead, ImportSkip, mem, VisitOnce
  <2>2. External => stage' = stage
    BY DEF External, Write, Delete
  <2>3. moved' = moved
    BY <1>1 DEF Quiet, vars, External, Write, Delete, IngestRead, UploadRead, ListRead, DeferredNext,
       IngestThrows, Listen, PricingRead, RefreshRead, ImportRead, ImportSkip
  <2> QED BY <1>1, <2>1, <2>2, <2>3, QuietKeepsMaps DEF CleanDumpIsComplete, vars, mem
<1>2. CASE Patch \/ Crash \/ IngestCommit \/ PricingFinish
  BY <1>2 DEF Patch, SetToggles, Crash, IngestCommit, PricingFinish
<1>3. CASE Dump
  BY <1>3 DEF Dump
<1>4. ASSUME NEW late \in SUBSET Logs, LoadDump(late)
      PROVE  \A id \in Ids \ moved' : saved'.tog[id] = toggles'[id] /\ saved'.src[id].path = sources'[id].path
  BY <1>4 DEF LoadDump
<1>5. CASE RefreshFinish
  BY <1>5, CleanRefresh DEF RefreshFinish, CleanDumpIsComplete, VisitOnce
<1>6. CASE Builds \/ PricingBegin \/ PricingThrows
  <2>1. UNCHANGED <<sources, toggles, saved, dirty, stage, moved>>
    BY <1>6, BuildsKeep DEF PricingBegin, PricingThrows, mem, Builds, PricingKeep, RefreshKeep, RefreshReadFails,
       RefreshRestatFails, RefreshReuse, RefreshStatFails
  <2> QED BY <2>1 DEF CleanDumpIsComplete
<1>7. CASE Relist
  <2>1. PICK old \in Ids, new \in Ids : Moves(old, new)
    BY <1>7, RelistMoves
  <2>2. UNCHANGED <<saved, dirty, stage>>
    BY <1>7, RelistMoves
  <2>3. toggles[old] # "unset"
    <3>1. sources[old] # Absent
      BY <2>1, NothingKept DEF Moves, Jsonl, Paths
    <3> QED BY <3>1 DEF TogglesOK, TogglesMatchSources, TogglesMatch
  <2>4. ASSUME NEW id \in Ids \ moved'
        PROVE  id \notin moved /\ toggles'[id] = toggles[id] /\ sources'[id].path = sources[id].path
    BY <2>1, <2>3, <2>4 DEF Moves
  <2> QED BY <2>2, <2>4 DEF CleanDumpIsComplete
<1>8. ASSUME NEW p \in Paths, RemovePath(p)
      PROVE  \A id \in Ids \ moved' : saved'.tog[id] = toggles'[id] /\ saved'.src[id].path = sources'[id].path
  <2>1. \A id \in Ids : sources[id].path # p
    BY <1>8 DEF RemovePath, OwnsAny
  <2>2. sources' = sources /\ toggles' = toggles
    BY <1>8, <2>1 DEF RemovePath, TypeOK
  <2> QED BY <1>8, <2>2 DEF RemovePath, CleanDumpIsComplete
<1> QED BY NextCases, <1>1, <1>2, <1>3, <1>4, <1>5, <1>6, <1>7, <1>8 DEF Builds

LEMMA ListsInvAlways == Spec => [](StoreInv /\ ListedOK /\ CleanOK /\ UsurpedOK)
<1>1. Init => ListedOK /\ CleanOK /\ UsurpedOK
  BY CleanInit DEF Init, UsurpedOK
<1>2. StoreInv /\ ListedOK /\ CleanOK /\ [Next]_vars => ListedOK' /\ CleanOK'
  <2> SUFFICES ASSUME StoreInv, ListedOK, CleanOK, [Next]_vars PROVE ListedOK' /\ CleanOK'
    OBVIOUS
  <2>1. CASE raced'
    BY <2>1, CleanStep DEF StoreInv, ListedOK
  <2>2. CASE ~raced'
    BY <2>2, CleanStep, ListedStep DEF StoreInv, StepInv, IInv
  <2> QED BY <2>1, <2>2
<1>3. StoreInv /\ UsurpedOK /\ [Next]_vars => UsurpedOK'
  BY UsurpedStep DEF StoreInv, StepInv, IInv
<1> QED BY <1>1, <1>2, <1>3, StoreInvAlways, PTL DEF Spec

\* A database whose fingerprint matches is not opened again, so, unless a file
\* changed between its read and its fingerprint, each of its sessions is in the
\* catalogue under a database; for any number of files and restarts, and for
\* every session that only one database may hold and no live re-read has taken.
THEOREM DbSessionsListedAlways == Spec => []DbSessionsListed
<1>1. ListedOK => DbSessionsListed
  BY DEF ListedOK, Listed, DbSessionsListed, Unchanged
<1> QED BY <1>1, ListsInvAlways, PTL

\* While dumpDirty is false a restart would load the same sessions, from the
\* same files, with the same toggles: no operation that changes them, and no
\* refresh that drops one, fails to flag it, but a live re-read that moves a
\* session to another id; until the next dump it leaves the two ids unsaved.
THEOREM CleanDumpIsCompleteAlways == Spec => []CleanDumpIsComplete
<1>1. CleanOK => CleanDumpIsComplete
  BY DEF CleanOK
<1> QED BY <1>1, ListsInvAlways, PTL

---------------------------------------------------------------------------
\* The store while its files are watched.

USE PathsAssumption, BoundsAssumption, FailuresAssumption

\* Whatever the watcher does to the store is one of the store's operations.
LEMMA StepOfStore == [WNext]_wvars => [Next]_vars
<1>1. WExternal => Next
  BY DEF WExternal, Next, External
<1>2. ASSUME NEW p \in Watchable, Notice(p) \/ Fire(p) \/ ScanFile(p) PROVE [Next]_vars
  <2>1. p \in Paths
    BY DEF Watchable, Paths
  <2> QED BY <1>2, <2>1 DEF Notice, Fire, ScanFile, Forget, Next, Ingest
<1>3. Remember \/ ScanTick => UNCHANGED vars
  BY DEF Remember, ScanTick
<1>4. OtherOps => Next
  BY DEF OtherOps, Next, Ingest, Pricing
<1>5. JobSteps => Next
  BY DEF JobSteps, Next, Ingest, Pricing, Boot
<1>6. ReadFails \/ Start \/ Stop => Next
  BY DEF ReadFails, Start, Stop, Next, Ingest, Boot
<1>7. UNCHANGED wvars => UNCHANGED vars
  BY DEF wvars
<1> QED BY <1>1, <1>2, <1>3, <1>4, <1>5, <1>6, <1>7 DEF WNext, Watch

\* The engine with its watcher implements the store it watches for: every
\* property proved of the store holds of it (server.ts wireStoreChangeEvents,
\* which replaces ingestPath by a wrapper, adds no way to change the store).
THEOREM WatcherRunsStore == WSpec => Spec
<1>1. WInit => Init
  BY DEF WInit
<1> QED BY <1>1, StepOfStore, PTL DEF WSpec, Spec

-----------------------------------------------------------------------------
\* The watcher's own state.  A written file has a version; none observed is
\* newer than the last write.
WatchTypes ==
    /\ events \subseteq Watchable /\ pending \subseteq Watchable /\ heavy \subseteq Watchable
    /\ observed \in [Watchable -> Nat] /\ \A p \in Watchable : observed[p] <= writes
    /\ turn \in Watchable \cup {NoPath}
    /\ failures \in Nat
    /\ \A p \in Paths : disk[p] # Gone => disk[p].ver # 0

\* Nothing is watched while the engine is down or boots.
Quiescent == stage # "up" => turn = NoPath /\ \A p \in Watchable : observed[p] = 0

\* A callback's ingest is the only operation while its file is to be
\* remembered; what a running engine ingests without skipping is watched.
OneTurn ==
    /\ stage = "up" => op \in {"idle", "ingest", "upload", "list", "pricing"}
    /\ turn # NoPath => op = "idle" \/ (op = "ingest" /\ cur = turn)
    /\ op = "ingest" => cur \in Watchable

\* Of the file to be remembered, once its ingest has returned.
Due(p) == p \in pending \/ p \in events \/ Fresh(p) \/ Excused
TurnHandled == turn # NoPath /\ op = "idle" /\ disk[turn] # Gone => Due(turn)

\* A pricing pass will put back each session that is up to date.
Current(p, id) == id \in disk[p].ids /\ Sole(p, id) /\ sources[id] = Parsed(p, disk[p])[id]
Repriced == op = "pricing" /\ ~raced => \A p \in Watchable, id \in Ids :
    Current(p, id) => nsrc[id] = sources[id] \/ (nsrc[id] = Absent /\ (p \in Waiting \/ p = cur))

WatchInv == WatchTypes /\ Quiescent /\ OneTurn /\ TurnHandled /\ Repriced /\ ObservedIsHandled
Store == StoreInv /\ ListedOK /\ UsurpedOK

LEMMA WatchInit == WInit => WatchInv
<1> SUFFICES ASSUME WInit PROVE WatchInv
  OBVIOUS
<1>1. \A p \in Paths : disk[p] = Gone
  BY DEF WInit, Init
<1>2. WatchTypes
  BY <1>1 DEF WInit, Init, WatchTypes
<1>3. Quiescent /\ OneTurn /\ TurnHandled /\ Repriced
  BY DEF WInit, Init, Quiescent, OneTurn, TurnHandled, Repriced
<1>4. ObservedIsHandled
  BY <1>1 DEF ObservedIsHandled, Watchable, Paths
<1> QED BY <1>2, <1>3, <1>4 DEF WatchInv

\* How each step moves what is observed and what is due.
LEMMA WrittenFilesHaveVersions ==
  ASSUME TypeOK, WatchTypes, [Next]_vars
  PROVE  \A p \in Paths : disk'[p] # Gone => disk'[p].ver # 0
<1>1. Later(disk, disk', writes, writes')
  BY DiskLater
<1> QED BY <1>1 DEF Later, WatchTypes, TypeOK

LEMMA HeavyIsWatched ==
  ASSUME heavy \subseteq Watchable, [Next]_vars
  PROVE  heavy' \subseteq Watchable
<1>1. CASE Boot
  <2>1. CASE \E late \in SUBSET Logs : LoadDump(late)
    BY <2>1 DEF LoadDump, Existing, Watchable
  <2>2. CASE RefreshFinish
    BY <2>2 DEF RefreshFinish
  <2> QED BY <1>1, <2>1, <2>2 DEF Boot, RefreshReuse, RefreshRead, RefreshStatFails, ImportRead, ImportSkip,
          RefreshKeep, RefreshReadFails, RefreshRestatFails, Listen
<1>2. CASE Ingest
  BY <1>2 DEF Ingest, IngestRead, UploadRead, RemovePath, ListRead, DeferredNext, IngestThrows, IngestCommit, Relist, ListCommit
<1>3. CASE Pricing
  BY <1>3 DEF Pricing, PricingBegin, PricingKeep, PricingThrows, PricingFinish, PricingRead
<1>4. CASE External \/ Patch \/ Dump \/ Crash \/ UNCHANGED vars
  BY <1>4 DEF External, Write, Delete, Patch, SetToggles, Dump, Crash, vars
<1> QED BY <1>1, <1>2, <1>3, <1>4 DEF Next

LEMMA WatchTypesStep ==
  ASSUME TypeOK, Versions, WatchTypes, [WNext]_wvars
  PROVE  WatchTypes'
<1>1. heavy' \subseteq Watchable /\ \A p \in Paths : disk'[p] # Gone => disk'[p].ver # 0
  BY StepOfStore, HeavyIsWatched, WrittenFilesHaveVersions DEF WatchTypes
<1>2. writes \in Nat /\ writes' \in Nat /\ writes <= writes'
  BY StepOfStore, DiskLater DEF Later, TypeOK
<1>3. failures' \in Nat
  BY DEF WatchTypes, wvars, past, WNext, WExternal, Watch, Notice, Fire, ScanFile, Remember, ScanTick, OtherOps,
     JobSteps, ReadFails, Start, Stop
<1>4. events' \subseteq Watchable /\ pending' \subseteq Watchable /\ turn' \in Watchable \cup {NoPath}
  BY DEF WatchTypes, wvars, watch, WNext, WExternal, Watch, Notice, Fire, Forget, ScanFile, Remember, ScanTick, OtherOps,
     JobSteps, ReadFails, Start, Stop
<1>5. observed' \in [Watchable -> Nat] /\ \A p \in Watchable : observed'[p] <= writes'
  <2>1. CASE UNCHANGED observed
    BY <1>2, <2>1 DEF WatchTypes
  <2>2. ASSUME NEW p \in Watchable, Forget(p) PROVE observed' = [observed EXCEPT ![p] = 0]
    BY <2>2 DEF Forget
  <2>3. ASSUME NEW p \in Watchable, observed' = [observed EXCEPT ![p] = 0]
        PROVE  observed' \in [Watchable -> Nat] /\ \A q \in Watchable : observed'[q] <= writes'
    BY <1>2, <2>3 DEF WatchTypes
  <2>4. ASSUME NEW p \in Watchable, observed' = [observed EXCEPT ![p] = disk[p].ver]
        PROVE  observed' \in [Watchable -> Nat] /\ \A q \in Watchable : observed'[q] <= writes'
    <3>1. disk[p].ver \in Nat /\ disk[p].ver <= writes
      BY DEF TypeOK, Content, Versions, Recorded, Watchable, Paths
    <3> QED BY <1>2, <2>4, <3>1 DEF WatchTypes
  <2>5. ASSUME NEW p \in Watchable, Notice(p) \/ Fire(p) \/ ScanFile(p)
        PROVE  observed' \in [Watchable -> Nat] /\ \A q \in Watchable : observed'[q] <= writes'
    BY <2>1, <2>2, <2>3, <2>4, <2>5 DEF Notice, Fire, ScanFile
  <2>6. CASE Remember
    BY <2>4, <2>6 DEF Remember, WatchTypes
  <2>7. CASE Stop
    BY <1>2, <2>7 DEF Stop
  <2>8. CASE WExternal \/ ScanTick \/ OtherOps \/ JobSteps \/ ReadFails \/ Start \/ UNCHANGED wvars
    BY <2>1, <2>8 DEF WExternal, ScanTick, OtherOps, JobSteps, ReadFails, Start, wvars, watch
  <2> QED BY <2>5, <2>6, <2>7, <2>8 DEF WNext, Watch
<1> QED BY <1>1, <1>3, <1>4, <1>5 DEF WatchTypes

LEMMA QuiescentStep ==
  ASSUME WatchTypes, Quiescent, OneTurn, [WNext]_wvars
  PROVE  Quiescent'
<1> SUFFICES ASSUME stage' # "up" PROVE turn' = NoPath /\ \A p \in Watchable : observed'[p] = 0
  BY DEF Quiescent
<1>1. CASE Stop
  BY <1>1 DEF Stop
<1>2. CASE UNCHANGED <<stage, turn, observed>>
  BY <1>2 DEF Quiescent
<1>3. ASSUME NEW p \in Watchable, Notice(p) \/ Fire(p) \/ ScanFile(p) PROVE FALSE
  BY <1>3 DEF Notice, Fire, ScanFile, Forget, RemovePath, IngestRead, Running, vars
<1>4. CASE Remember \/ ScanTick
  BY <1>4 DEF Remember, ScanTick, Running, vars
<1>5. CASE WExternal \/ OtherOps \/ ReadFails
  <2>1. UNCHANGED stage
    BY <1>5 DEF WExternal, Write, Delete, OtherOps, UploadRead, ListRead, DeferredNext, Patch, SetToggles,
       PricingBegin, Dump, ReadFails, IngestThrows
  <2> QED BY <1>2, <1>5, <2>1 DEF WExternal, OtherOps, ReadFails, watch
<1>6. CASE JobSteps
  <2>1. UNCHANGED <<turn, observed>>
    BY <1>6 DEF JobSteps, watch
  <2>2. stage # "up" \/ UNCHANGED stage
    BY <1>6 DEF JobSteps, IngestCommit, Relist, ListCommit, PricingKeep, PricingThrows, PricingFinish, PricingRead, RefreshReuse,
       RefreshRead, RefreshStatFails, ImportRead, ImportSkip, RefreshKeep, RefreshReadFails, RefreshRestatFails,
       RefreshFinish, LoadDump, OneTurn
  <2> QED BY <2>1, <2>2 DEF Quiescent
<1>7. CASE Start
  BY <1>7 DEF Start, Listen
<1>8. CASE UNCHANGED wvars
  BY <1>2, <1>8 DEF wvars, vars, watch
<1> QED BY <1>1, <1>3, <1>4, <1>5, <1>6, <1>7, <1>8 DEF WNext, Watch

LEMMA OneTurnStep ==
  ASSUME TypeOK, VisitOnce, WatchTypes, Quiescent, OneTurn, [WNext]_wvars
  PROVE  OneTurn'
<1>1. ASSUME UNCHANGED <<stage, turn, op, cur>> PROVE OneTurn'
  BY <1>1 DEF OneTurn
<1>2. CASE Stop
  BY <1>2 DEF Stop, Crash, JobKilled, OneTurn
<1>3. ASSUME NEW p \in Watchable, Notice(p) \/ Fire(p) \/ ScanFile(p) PROVE OneTurn'
  <2>1. CASE Forget(p)
    BY <1>3, <2>1 DEF Forget, RemovePath, Notice, Fire, ScanFile, job, OneTurn, Free, vars
  <2>2. CASE UNCHANGED vars
    BY <1>3, <2>2 DEF Notice, Fire, ScanFile, vars, job, OneTurn, Free, Running, Forget
  <2>3. CASE IngestRead(p)
    BY <1>3, <2>3 DEF Notice, Fire, ScanFile, IngestRead, ReadFile, OneTurn, Free, Running, Forget, RemovePath, vars, job
  <2> QED BY <1>3, <2>1, <2>2, <2>3 DEF Notice, Fire, ScanFile
<1>4. CASE Remember \/ ScanTick
  BY <1>4 DEF Remember, ScanTick, vars, job, OneTurn
<1>5. CASE WExternal
  BY <1>1, <1>5 DEF WExternal, Write, Delete, job
<1>6. CASE OtherOps
  <2>1. turn' = NoPath
    BY <1>6 DEF OtherOps, Free, watch
  <2>2. CASE Patch \/ Dump \/ PricingBegin
    BY <1>6, <2>1, <2>2 DEF Patch, SetToggles, Dump, PricingBegin, OneTurn, job, OtherOps, Free
  <2>3. ASSUME NEW p \in Paths, UploadRead(p) \/ ListRead(p) PROVE OneTurn'
    BY <1>6, <2>1, <2>3 DEF UploadRead, ListRead, OneTurn
  <2>4. ASSUME NEW p \in Paths, DeferredNext(p) PROVE OneTurn'
    BY <1>6, <2>1, <2>4 DEF DeferredNext, ReadFile, Running, OneTurn, WatchTypes
  <2> QED BY <1>6, <2>2, <2>3, <2>4 DEF OtherOps
<1>7. CASE ReadFails
  BY <1>7 DEF ReadFails, IngestThrows, JobDone, watch, OneTurn
<1>8. CASE JobSteps
  <2>1. turn' = turn
    BY <1>8 DEF JobSteps, watch
  <2>2. CASE IngestCommit \/ Relist
    BY <2>1, <2>2 DEF IngestCommit, Relist, ListCommit, JobDone, OneTurn
  <2>3. CASE PricingKeep \/ PricingThrows \/ PricingFinish \/ \E e \in todo : PricingRead(e)
    BY <2>1, <2>3 DEF PricingKeep, PricingThrows, PricingFinish, PricingRead, JobDone, OneTurn
  <2>4. CASE \/ \E e \in todo : RefreshReuse(e) \/ RefreshRead(e) \/ RefreshStatFails(e) \/ ImportRead(e) \/ ImportSkip(e)
             \/ RefreshKeep \/ RefreshReadFails \/ RefreshRestatFails
    <3>1. op \in {"refresh", "import"} /\ op' = op /\ stage' = stage
      BY <2>4 DEF RefreshReuse, RefreshRead, RefreshStatFails, ImportRead, ImportSkip, ReadFile, RefreshKeep,
         RefreshReadFails, RefreshRestatFails
    <3> QED BY <2>1, <3>1 DEF OneTurn
  <2>5. CASE RefreshFinish
    <3>1. op = "refresh" /\ op' \in {"refresh", "import"} /\ stage' # "up"
      BY <2>5 DEF RefreshFinish, BeginRefresh
    <3> QED BY <2>1, <3>1 DEF OneTurn
  <2>6. ASSUME NEW late \in SUBSET Logs, LoadDump(late) PROVE OneTurn'
    <3>1. stage = "down" /\ op' = "refresh" /\ stage' # "up"
      BY <2>6 DEF LoadDump, BeginRefresh
    <3> QED BY <2>1, <3>1 DEF OneTurn, Quiescent
  <2> QED BY <1>8, <2>2, <2>3, <2>4, <2>5, <2>6 DEF JobSteps, Relist
<1>9. CASE Start
  BY <1>9 DEF Start, Listen, OneTurn, Quiescent
<1>10. CASE UNCHANGED wvars
  BY <1>1, <1>10 DEF wvars, vars, watch, job
<1> QED BY <1>2, <1>3, <1>4, <1>5, <1>6, <1>7, <1>8, <1>9, <1>10 DEF WNext, Watch

-----------------------------------------------------------------------------
(* What keeps a session up to date, and what makes a file so. *)

LEMMA CurrentIs ==
  ASSUME NEW p \in Watchable, NEW id \in Ids, Current(p, id)
  PROVE  sources[id] = [path |-> p, ver |-> disk[p].ver] /\ sources[id].path = p /\ p \in Paths /\ p # NoPath
  BY DEF Current, Parsed, Watchable, Paths

\* What a file holds it may hold; an import may name no other session.
LEMMA HeldByRead ==
  ASSUME Store, NEW p \in Watchable, NEW id \in Ids, Sole(p, id), cur # p, cur # NoPath, id \in got.ids
  PROVE  cur \in Imports /\ MayName(cur) = {id}
<1>1. cur \in Paths
  BY DEF Store, StoreInv, StepInv, IInv, TypeOK
<1>2. CASE cur \in Watchable
  <2>1. got.ids \subseteq May(cur)
    BY <1>2 DEF Store, StoreInv, StepInv, IInv, ContentOK, Names, RowsOK, May, Watchable, Jsonl
  <2> QED BY <1>2, <2>1 DEF Sole
<1>3. CASE cur \in Imports
  <2>1. id \in MayName(cur)
    BY <1>3 DEF Store, StoreInv, StepInv, IInv, ContentOK, Names, Jsonl
  <2> QED BY <1>3, <2>1 DEF Sole
<1> QED BY <1>1, <1>2, <1>3 DEF Paths, Watchable

\* A pricing pass reaches each file it has to, and puts back what is current.
LEMMA RepricedStep ==
  ASSUME Store, WatchTypes, Repriced, [Next]_vars
  PROVE  Repriced'
<1> SUFFICES ASSUME op' = "pricing", ~raced', NEW p \in Watchable, NEW id \in Ids, Current(p, id)'
             PROVE  nsrc'[id] = sources'[id] \/ (nsrc'[id] = Absent /\ (p \in Waiting' \/ p = cur'))
  BY DEF Repriced
<1>1. CASE UNCHANGED vars
  BY <1>1 DEF vars, mem, job, next, env, Repriced, Current, Waiting
<1>2. CASE External
  <2>1. UNCHANGED <<sources, nsrc, todo, cur, op, raced>>
    BY <1>2 DEF External, Write, Delete, mem, job, next
  <2>2. disk'[p] = disk[p]
    <3>1. p \in Paths /\ Later(disk, disk', writes, writes')
      BY DiskLater DEF Store, StoreInv, StepInv, IInv, Watchable, Paths
    <3>2. sources[id] = [path |-> p, ver |-> disk'[p].ver] /\ id \in disk'[p].ids
      BY <2>1 DEF Current, Parsed
    <3>3. sources[id].ver <= writes /\ writes \in Nat /\ sources[id].ver \in Nat
      BY <3>1, <3>2 DEF Store, StoreInv, StepInv, IInv, Versions, Ages, Aged, TypeOK, Session, Absent
    <3> QED BY <3>1, <3>2, <3>3 DEF Later, Gone
  <2> QED BY <2>1, <2>2 DEF Repriced, Current, Waiting
<1>3. CASE PricingBegin
  <2>1. Current(p, id) /\ UNCHANGED sources
    BY <1>3 DEF PricingBegin, Current, env, mem
  <2>2. p \in Paths /\ OwnsAny(p)
    BY <2>1, CurrentIs DEF OwnsAny
  <2>3. Entry(p) \in todo' /\ Entry(p).path = p
    BY <1>3, <2>2 DEF PricingBegin, Entry
  <2>4. p \in Waiting'
    BY <2>3 DEF Waiting
  <2>5. nsrc'[id] = Absent
    BY <1>3 DEF PricingBegin, StartMaps, NoSources
  <2> QED BY <2>4, <2>5
<1>4. ASSUME NEW e \in todo, PricingRead(e)
      PROVE  nsrc'[id] = sources'[id] \/ (nsrc'[id] = Absent /\ (p \in Waiting' \/ p = cur'))
  <2>1. Current(p, id) /\ op = "pricing" /\ ~raced /\ cur = NoPath /\ UNCHANGED <<sources, nsrc>>
    BY <1>4 DEF PricingRead, Current, env, mem, next
  <2>2. p # cur
    BY <2>1, CurrentIs
  <2>3. ASSUME p \in Waiting PROVE p \in Waiting' \/ p = cur'
    <3>1. PICK f \in todo : f.path = p
      BY <2>3 DEF Waiting
    <3>2. cur' = e.path /\ todo' = todo \ {e}
      BY <1>4 DEF PricingRead
    <3> QED BY <3>1, <3>2 DEF Waiting
  <2> QED BY <2>1, <2>2, <2>3 DEF Repriced
<1>5. CASE PricingKeep
  <2>1. /\ Current(p, id) /\ op = "pricing" /\ ~raced /\ cur # NoPath /\ UNCHANGED <<sources, todo>>
        /\ disk[cur] = got
    BY <1>5 DEF PricingKeep, Current, env, mem
  <2>2. nsrc[id] = sources[id] \/ (nsrc[id] = Absent /\ (p \in Waiting \/ p = cur))
    BY <2>1 DEF Repriced
  <2>3. nsrc'[id] = IF id \in got.ids /\ ~YieldsToDb(cur, nsrc[id]) THEN Parsed(cur, got)[id] ELSE nsrc[id]
    BY <1>5 DEF PricingKeep
  <2>4. CASE cur = p
    <3>1. id \in got.ids /\ Parsed(cur, got)[id] = sources[id]
      BY <2>1, <2>4 DEF Current
    <3>2. nsrc[id].path \in {p, NoPath}
      <4>1. sources[id].path = p
        BY <2>1, CurrentIs
      <4>2. nsrc[id] = Absent => nsrc[id].path = NoPath
        BY DEF Absent
      <4> QED BY <2>2, <4>1, <4>2
    <3>3. ~YieldsToDb(cur, nsrc[id])
      BY <2>4, <3>2 DEF YieldsToDb, Paths
    <3> QED BY <2>1, <2>3, <3>1, <3>3
  <2>5. CASE cur # p
    <3>1. id \notin got.ids
      <4> SUFFICES ASSUME id \in got.ids PROVE FALSE
        OBVIOUS
      <4>1. cur \in Imports /\ MayName(cur) = {id}
        BY <2>1, <2>5, HeldByRead DEF Current
      <4>2. PICK i \in Ids : sources[i].path = cur
        BY <2>1, <4>1 DEF Store, StoreInv, StepInv, OwnerRead, OwnsAny, Paths
      <4>3. i = id
        BY <4>1, <4>2 DEF Store, StoreInv, StepInv, IInv, ContentOK, OwnId, Jsonl
      <4> QED BY <2>1, <2>5, <4>2, <4>3, CurrentIs
    <3>2. UNCHANGED nsrc[id] /\ UNCHANGED Waiting
      BY <2>1, <2>3, <3>1 DEF Waiting
    <3> QED BY <2>1, <2>2, <2>5, <3>2
  <2> QED BY <2>4, <2>5
<1> QED BY <1>1, <1>2, <1>3, <1>4, <1>5, PricingSteps

LEMMA RelistSteps == ASSUME Store, Relist PROVE \E old, new \in Ids : Moves(old, new)
  BY RelistMoves DEF Store, StoreInv, StepInv, IInv

\* A running store's steps leave a current session current, unless it notices
\* that it raced with a writer.
LEMMA CurrentKept ==
  ASSUME Store, OneTurn, Repriced, [Next]_vars, stage = "up", stage' = "up", ~raced', raced' \/ ~raced,
         NEW p \in Watchable, NEW id \in Ids, Current(p, id), disk[p] # Gone
  PROVE  sources'[id] = sources[id]
<1>0. sources[id] = [path |-> p, ver |-> disk[p].ver] /\ sources[id].path = p /\ p \in Paths /\ p # NoPath
  BY CurrentIs
<1>1. CASE Patch \/ ~Lists
  BY <1>1, OnlyListsChange DEF Patch, SetToggles
<1>2. CASE (IngestCommit \/ Relist) /\ cur = p
  <2>1. disk[cur] = got
    BY <1>2, RelistSteps DEF IngestCommit, Moves
  <2>2. Parsed(cur, got)[id] = sources[id] /\ id \in got.ids
    BY <1>2, <2>1 DEF Current
  <2>3. CASE IngestCommit
    BY <2>2, <2>3 DEF IngestCommit, Dropped
  <2>4. CASE Relist
    BY <2>2, <2>4, RelistSteps DEF Moves, Parsed
  <2> QED BY <1>2, <2>3, <2>4
<1>3. CASE IngestCommit /\ cur # p
  <2>1. cur # NoPath
    BY <1>3 DEF IngestCommit
  <2>2. id \notin Dropped
    BY <1>0, <1>3 DEF Dropped
  <2>3. id \notin Taken
    <3>1. ASSUME id \in got.ids PROVE Skips(id)
      <4>1. cur \in Imports
        BY <1>3, <2>1, <3>1, HeldByRead DEF Current
      <4>2. op # "ingest"
        BY <4>1 DEF OneTurn, Watchable
      <4>3. sources[id] # Absent
        BY <1>0, NothingKept
      <4> QED BY <1>3, <4>2, <4>3 DEF IngestCommit, Skips
    <3> QED BY <3>1 DEF Taken
  <2> QED BY <1>3, <2>2, <2>3 DEF IngestCommit
<1>4. CASE Relist /\ cur # p
  <2>1. PICK old \in Ids, new \in Ids : Moves(old, new)
    BY <1>4, RelistSteps
  <2>2. ASSUME id = new PROVE FALSE
    <3>0. cur \in Jsonl /\ sources[old].path = cur /\ id \in got.ids /\ cur # NoPath
      BY <2>1, <2>2 DEF Moves, Jsonl, Paths
    <3>1. MayName(cur) = {id}
      BY <1>4, <3>0, HeldByRead DEF Current
    <3>2. old = id
      BY <3>0, <3>1 DEF Store, StoreInv, StepInv, IInv, ContentOK, OwnId
    <3> QED BY <1>0, <1>4, <3>0, <3>2
  <2> QED BY <1>0, <1>4, <2>1, <2>2 DEF Moves
<1>5. CASE PricingFinish
  <2>1. p # cur /\ p \notin Waiting /\ ~raced
    BY <1>0, <1>5 DEF PricingFinish, Waiting
  <2> QED BY <1>5, <2>1 DEF PricingFinish, Repriced
<1>6. CASE RefreshFinish
  BY <1>6 DEF RefreshFinish, OneTurn
<1>7. ASSUME NEW q \in Paths, RemovePath(q) PROVE sources'[id] = sources[id]
  BY <1>0, <1>7 DEF RemovePath, Gone
<1>8. ASSUME NEW late \in SUBSET Logs, LoadDump(late) PROVE FALSE
  BY <1>8 DEF LoadDump
<1>9. ~Crash
  BY DEF Crash
<1> QED BY <1>1, <1>2, <1>3, <1>4, <1>5, <1>6, <1>7, <1>8, <1>9 DEF Lists

\* What a skipped file (store.ts:586) is taken for, it is.
LEMMA UnchangedIsFresh ==
  ASSUME Store, ~raced, NEW p \in Watchable, Unchanged(p), OwnsAny(p)
  PROVE  Fresh(p)
<1> USE DEF Store, StoreInv, StepInv, IInv
<1> SUFFICES ASSUME NEW id \in disk[p].ids, Sole(p, id) PROVE sources[id] = Parsed(p, disk[p])[id]
  BY DEF Fresh
<1>1. p \in Paths /\ id \in Ids /\ sources[id] \in Session /\ disk[p] # Gone
  BY DEF TypeOK, Content, Watchable, Paths, Unchanged, Gone
<1>2. sources[id].path = p
  <2>1. CASE p \in Logs
    <3>1. PICK i \in Ids : sources[i].path = p
      BY DEF OwnsAny
    <3>2. sources[i].ver = disk[p].ver
      BY <2>1, <3>1 DEF Described, Describes, Watched, Unchanged
    <3>3. i \in disk[p].ids
      BY <1>1, <3>1, <3>2 DEF FoundOK, AllFound, Found
    <3> QED BY <1>1, <2>1, <3>1, <3>3 DEF ContentOK, Names, Jsonl
  <2>2. CASE p \in Dbs
    <3>1. OnlyIn(p, id)
      BY DEF OnlyIn, Sole, May, Watchable
    <3>2. id \notin usurped
      BY <2>2 DEF UsurpedOK, Sole, May, Watchable, Jsonl
    <3>3. sources[id].path \in Dbs
      BY <2>2, <3>1, <3>2 DEF ListedOK, Listed, Unchanged
    <3> QED BY <1>1, <3>1, <3>3 DEF RowsOK, OwnRows, OnlyIn
  <2> QED BY <2>1, <2>2 DEF Watchable
<1>3. sources[id].ver = disk[p].ver
  BY <1>1, <1>2 DEF Described, Describes, Watched, Watchable, Unchanged
<1> QED BY <1>1, <1>2, <1>3 DEF Parsed, Session, Absent, Paths

\* So is a file that was read and taken in before it changed again.
LEMMA IngestedIsFresh ==
  ASSUME Store, OneTurn, IngestCommit, op = "ingest", ~raced', NEW p, p = cur
  PROVE  Fresh(p)'
<1> USE DEF Store, StoreInv, StepInv, IInv
<1>1. cur \in Watchable /\ got = disk[cur] /\ disk' = disk /\ cur \in Paths
  BY DEF OneTurn, IngestCommit, env, Watchable, Paths
<1> SUFFICES ASSUME NEW id \in disk[p].ids, Sole(p, id)
             PROVE  sources'[id] = Parsed(p, disk[p])[id]
  BY <1>1 DEF Fresh
<1>2. id \in Ids /\ sources[id].path \in Paths \cup {NoPath}
  BY <1>1 DEF TypeOK, Content, Session, Absent
<1>3. ~YieldsToDb(cur, sources[id])
  <2> SUFFICES ASSUME sources[id].path \in Dbs PROVE cur \in Dbs
    BY DEF YieldsToDb
  <2>1. id \in May(sources[id].path) /\ sources[id].path \in Watchable
    BY <1>2 DEF RowsOK, OwnRows, May, Watchable
  <2>2. sources[id].path = cur
    BY <2>1 DEF Sole
  <2> QED BY <2>2
<1>4. id \in Taken
  BY <1>1, <1>3 DEF Taken, Skips
<1> QED BY <1>1, <1>2, <1>4 DEF IngestCommit

-----------------------------------------------------------------------------
(* The files observed. *)

LEMMA RacedStays == ASSUME [Next]_vars PROVE raced => raced'
  BY NextCases, QuietKeepsMaps, BuildsKeep DEF vars, Builds, Patch, SetToggles, Dump, Crash, RemovePath, IngestCommit,
     Relist, ListCommit, PricingBegin, PricingThrows, PricingFinish, LoadDump, RefreshFinish, PricingKeep, RefreshKeep,
     RefreshReadFails, RefreshRestatFails, RefreshReuse, RefreshStatFails, KeepOld

LEMMA ExcusedStays == ASSUME WatchTypes, [WNext]_wvars PROVE Excused => Excused'
<1>1. raced => raced'
  BY StepOfStore, RacedStays
<1>2. failures > 0 => failures' > 0
  BY DEF WatchTypes, wvars, past, WNext, WExternal, Watch, Notice, Fire, ScanFile, Remember, ScanTick, OtherOps,
     JobSteps, ReadFails, Start, Stop
<1>3. slipped => slipped'
  BY DEF wvars, past, WNext, WExternal, Watch, Notice, Fire, ScanFile, Remember, ScanTick, OtherOps,
     JobSteps, ReadFails, Start, Stop
<1>4. periodic' = periodic
  BY DEF wvars, past, WNext, WExternal, Watch, Notice, Fire, ScanFile, Remember, ScanTick, OtherOps,
     JobSteps, ReadFails, Start, Stop
<1> QED BY <1>1, <1>2, <1>3, <1>4 DEF Excused

\* A file on disk that stays as it is stays fresh in a running engine.
LEMMA FreshKept ==
  ASSUME Store, OneTurn, Repriced, [WNext]_wvars, stage = "up", stage' = "up", ~Excused',
         NEW p \in Watchable, disk[p] # Gone, disk'[p] = disk[p], Fresh(p)
  PROVE  Fresh(p)'
<1>1. [Next]_vars /\ ~raced' /\ ~raced
  BY StepOfStore, RacedStays DEF Excused
<1> SUFFICES ASSUME NEW id \in disk[p].ids, Sole(p, id) PROVE sources'[id] = Parsed(p, disk[p])[id]
  BY DEF Fresh
<1>2. id \in Ids
  BY DEF Store, StoreInv, StepInv, IInv, TypeOK, Content, Watchable, Paths
<1>3. Current(p, id)
  BY <1>2 DEF Fresh, Current
<1> QED BY <1>1, <1>2, <1>3, CurrentKept DEF Current

\* A step of another program touches one file, and no other is its concern.
LEMMA ExternalStep ==
  ASSUME TypeOK, WExternal
  PROVE  \E p \in Paths :
             /\ \A q \in Paths \ {p} : disk'[q] = disk[q]
             /\ \/ stage = "up" /\ events' = events \cup ({p} \cap Watchable)
                \/ (stage # "up" \/ periodic) /\ events' = events
             /\ slipped' = (slipped \/ (turn = p /\ op = "idle"))
<1>1. PICK p \in Paths :
        /\ Delete(p) \/ \E ids \in SUBSET Ids : Write(p, ids)
        /\ \/ stage = "up" /\ events' = events \cup ({p} \cap Watchable)
           \/ (stage # "up" \/ periodic) /\ events' = events
        /\ slipped' = (slipped \/ (turn = p /\ op = "idle"))
  BY DEF WExternal
<1>2. \A q \in Paths \ {p} : disk'[q] = disk[q]
  BY <1>1 DEF Delete, Write, TypeOK
<1> QED BY <1>1, <1>2

\* When its ingest has returned, the file to be remembered has been taken in,
\* or whatever changed it since has left its event.
LEMMA TurnHandledStep ==
  ASSUME Store, WatchTypes, Quiescent, OneTurn, Repriced, TurnHandled, [WNext]_wvars
  PROVE  TurnHandled'
<1> SUFFICES ASSUME NEW t, t = turn', t # NoPath, op' = "idle", disk'[t] # Gone, ~Excused'
             PROVE  t \in pending' \/ t \in events' \/ Fresh(t)'
  BY DEF TurnHandled, Due
<1>0. ~Excused /\ TypeOK
  BY ExcusedStays DEF Store, StoreInv, StepInv, IInv
<1>1. ASSUME UNCHANGED <<vars, turn>>, pending \subseteq pending', events \subseteq events'
      PROVE  t \in pending' \/ t \in events' \/ Fresh(t)'
  BY <1>0, <1>1 DEF vars, env, mem, job, TurnHandled, Due, Fresh
<1>2. CASE UNCHANGED wvars
  BY <1>1, <1>2 DEF wvars, watch
<1>3. CASE WExternal
  <2>1. /\ turn = t /\ op = "idle" /\ stage = "up" /\ pending' = pending /\ periodic' = periodic
        /\ UNCHANGED sources
    BY <1>3 DEF WExternal, Write, Delete, job, mem, Quiescent
  <2>2. PICK p \in Paths :
             /\ \A q \in Paths \ {p} : disk'[q] = disk[q]
             /\ \/ events' = events \cup ({p} \cap Watchable)
                \/ periodic /\ events' = events
             /\ slipped' = (slipped \/ (turn = p /\ op = "idle"))
    BY <1>0, <1>3, <2>1, ExternalStep
  <2>3. t \in Watchable /\ t \in Paths
    BY <2>1 DEF WatchTypes, Watchable, Paths
  <2>4. CASE t = p
    BY <2>1, <2>2, <2>3, <2>4 DEF Excused
  <2>5. CASE t # p
    <3>1. disk'[t] = disk[t]
      BY <2>2, <2>3, <2>5
    <3> QED BY <1>0, <2>1, <2>2, <3>1 DEF TurnHandled, Due, Fresh
  <2> QED BY <2>4, <2>5
<1>4. ASSUME NEW p \in Watchable, Notice(p) \/ Fire(p) \/ ScanFile(p)
      PROVE  t \in pending' \/ t \in events' \/ Fresh(t)'
  <2>1. CASE Fire(p) /\ Unchanged(p) /\ OwnsAny(p) /\ turn' = p /\ UNCHANGED vars
    <3>1. Fresh(p)
      BY <1>0, <2>1, UnchangedIsFresh DEF Excused
    <3> QED BY <2>1, <3>1 DEF Fresh, vars, env, mem
  <2> QED BY <1>4, <2>1 DEF Notice, Fire, ScanFile, Forget, Free, IngestRead, ReadFile
<1>5. CASE Remember \/ OtherOps \/ Stop
  BY <1>5 DEF Remember, OtherOps, Stop, Free, watch
<1>6. CASE ScanTick
  BY <1>1, <1>6 DEF ScanTick
<1>7. CASE JobSteps
  <2>1. turn = t /\ stage = "up"
    BY <1>7 DEF JobSteps, watch, Quiescent
  <2>2. op \in {"idle", "ingest"}
    BY <2>1 DEF OneTurn
  <2>3. IngestCommit /\ op = "ingest"
    BY <1>7, <2>1, <2>2 DEF JobSteps, Relist, ListCommit, PricingKeep, PricingThrows, PricingFinish, PricingRead, RefreshReuse,
       RefreshRead, RefreshStatFails, ImportRead, ImportSkip, RefreshKeep, RefreshReadFails, RefreshRestatFails,
       RefreshFinish, LoadDump, IngestCommit
  <2>4. t = cur
    BY <2>1, <2>3 DEF OneTurn
  <2> QED BY <2>3, <2>4, IngestedIsFresh DEF Excused
<1>8. CASE ReadFails
  <2>1. turn = t /\ op = "ingest" /\ cur = t
    BY <1>8 DEF ReadFails, IngestThrows, watch, OneTurn
  <2>2. disk' = disk
    BY <1>8, <2>1 DEF ReadFails, IngestThrows
  <2> QED BY <1>8, <2>1, <2>2 DEF ReadFails, WatchTypes, Excused
<1>9. CASE Start
  BY <1>9 DEF Start, Listen, Quiescent, OneTurn
<1> QED BY <1>2, <1>3, <1>4, <1>5, <1>6, <1>7, <1>8, <1>9 DEF WNext, Watch

\* Where a step leaves alone what was observed, no file is forgotten: a file
\* that is as it was observed has not changed either.
LEMMA ObservedKept ==
  ASSUME Store, WatchTypes, Quiescent, OneTurn, Repriced, ObservedIsHandled, [WNext]_wvars, stage' = "up",
         NEW p \in Watchable, disk'[p] # Gone, observed'[p] = disk'[p].ver, observed'[p] = observed[p],
         p \in pending => p \in pending' \/ turn' = p,
         p \in events => p \in events' \/ p \in pending', turn' = turn \/ turn = NoPath
  PROVE  p \in pending' \/ p \in events' \/ turn' = p \/ Fresh(p)' \/ Excused'
<1>0. p \in Paths /\ p # NoPath /\ TypeOK
  BY DEF Watchable, Paths, Store, StoreInv, StepInv, IInv
<1>1. disk'[p] = disk[p]
  <2>1. Later(disk, disk', writes, writes')
    BY <1>0, StepOfStore, DiskLater
  <2>2. observed[p] \in Nat /\ observed[p] <= writes /\ writes \in Nat
    BY <1>0 DEF WatchTypes, TypeOK
  <2>3. disk'[p] \in {disk[p], Gone} \/ disk'[p].ver = writes + 1
    BY <1>0, <2>1 DEF Later
  <2>4. observed[p] # writes + 1
    BY <2>2
  <2> QED BY <2>3, <2>4
<1>2. stage = "up"
  BY <1>0, <1>1 DEF Quiescent, WatchTypes
<1>3. p \in pending \/ p \in events \/ turn = p \/ Fresh(p) \/ Excused
  BY <1>1 DEF ObservedIsHandled
<1> QED BY <1>0, <1>1, <1>2, <1>3, ExcusedStays, FreshKept

LEMMA ObservedStep ==
  ASSUME Store, WatchTypes, Quiescent, OneTurn, TurnHandled, Repriced, ObservedIsHandled, Quiescent', WatchTypes',
         [WNext]_wvars
  PROVE  ObservedIsHandled'
<1> SUFFICES ASSUME NEW p \in Watchable, disk'[p] # Gone, observed'[p] = disk'[p].ver
             PROVE  p \in pending' \/ p \in events' \/ turn' = p \/ Fresh(p)' \/ Excused'
  BY DEF ObservedIsHandled
<1>0. stage' = "up"
  BY DEF Quiescent, WatchTypes, Watchable, Paths
<1>1. CASE WExternal \/ OtherOps \/ JobSteps \/ ReadFails \/ ScanTick \/ Start \/ UNCHANGED wvars
  <2>1. UNCHANGED <<observed, pending, turn>> /\ events \subseteq events'
    BY <1>1 DEF WExternal, OtherOps, JobSteps, ReadFails, ScanTick, Start, wvars, watch
  <2> QED BY <1>0, <2>1, ObservedKept
<1>2. CASE Remember
  <2>1. CASE turn = p
    <3>1. op = "idle" /\ disk' = disk /\ UNCHANGED <<pending, events, sources>> /\ Due(p)
      BY <1>2, <2>1 DEF Remember, Running, TurnHandled, vars, env, mem
    <3> QED BY <1>2, <3>1, ExcusedStays DEF Due, Fresh
  <2>2. CASE turn # p
    <3>1. UNCHANGED <<vars, pending, events>> /\ observed'[p] = observed[p] /\ turn # NoPath
      BY <1>2, <2>2 DEF Remember, WatchTypes
    <3>2. p \in pending \/ p \in events \/ Fresh(p) \/ Excused
      BY <2>2, <3>1 DEF ObservedIsHandled, vars, env
    <3> QED BY <3>1, <3>2, ExcusedStays DEF Fresh, vars, env, mem
  <2> QED BY <2>1, <2>2
<1>3. ASSUME NEW q \in Watchable, Notice(q)
      PROVE  p \in pending' \/ p \in events' \/ turn' = p \/ Fresh(p)' \/ Excused'
  BY <1>0, <1>3, ObservedKept DEF Notice
<1>4. ASSUME NEW q \in Watchable, Forget(q) PROVE q # p /\ observed'[p] = observed[p]
  BY <1>4 DEF Forget, RemovePath, WatchTypes, env
<1>5. ASSUME NEW q \in Watchable, Fire(q)
      PROVE  p \in pending' \/ p \in events' \/ turn' = p \/ Fresh(p)' \/ Excused'
  <2>1. turn' = q \/ Forget(q)
    BY <1>5 DEF Fire
  <2>2. CASE p = q
    BY <1>4, <2>1, <2>2
  <2>3. CASE p # q
    BY <1>0, <1>4, <1>5, <2>3, ObservedKept DEF Fire, Free
  <2> QED BY <2>2, <2>3
<1>6. ASSUME NEW q \in Watchable, ScanFile(q)
      PROVE  p \in pending' \/ p \in events' \/ turn' = p \/ Fresh(p)' \/ Excused'
  <2>1. turn = NoPath /\ UNCHANGED <<events, turn>> /\ pending \subseteq pending'
    BY <1>6 DEF ScanFile, Free, Forget
  <2>2. CASE observed'[p] = observed[p]
    BY <1>0, <2>1, <2>2, ObservedKept
  <2>3. CASE observed'[p] # observed[p]
    BY <1>4, <1>6, <2>3 DEF ScanFile, WatchTypes
  <2> QED BY <2>2, <2>3
<1>7. CASE Stop
  BY <1>0, <1>7 DEF Stop, Crash
<1> QED BY <1>1, <1>2, <1>3, <1>5, <1>6, <1>7 DEF WNext, Watch

-----------------------------------------------------------------------------

LEMMA WatchInvAlways == WSpec => []WatchInv
<1>1. WatchInv /\ Store /\ [WNext]_wvars => WatchInv'
  BY StepOfStore, WatchTypesStep, QuiescentStep, OneTurnStep, TurnHandledStep, RepricedStep, ObservedStep
     DEF WatchInv, Store, StoreInv, StepInv, IInv
<1>2. StoreInv /\ ListedOK /\ CleanOK /\ UsurpedOK => Store
  BY DEF Store
<1> QED BY WatchInit, <1>1, <1>2, WatcherRunsStore, ListsInvAlways, PTL DEF WSpec

\* The scan skips a file whose signature it has observed.  So an observed file
\* is in the catalogue as it is on disk, or its event, timer or ingest is due:
\* for any number of files, databases among them, whatever is written, deleted
\* or stopped meanwhile, save for the races the code cannot see (Excused).
THEOREM ObservedIsHandledAlways == WSpec => []ObservedIsHandled
<1>1. WatchInv => ObservedIsHandled
  BY DEF WatchInv
<1> QED BY <1>1, WatchInvAlways, PTL

====
