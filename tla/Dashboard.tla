---- MODULE Dashboard ----
(***************************************************************************)
(* The sessions of the dashboard (apps/web/src/App.tsx, api.ts) against an *)
(* engine that is only a version per session: overlapping reads of the     *)
(* list and of the open session, the event stream, the poll every 30       *)
(* seconds, imports, price updates, and the selection, which follows the   *)
(* list.  The overview, read under the same discipline, is left out.       *)
(*                                                                         *)
(* A React update and the effects it triggers are one step, as the browser *)
(* handles no answer in between.                                           *)
(***************************************************************************)
EXTENDS Reads, Integers, FiniteSets

CONSTANTS
    Ids, Scopes,
    InScope(_),      \* sessions of a scope: a source and a range
    HomeScope(_),    \* the scope an import opens: its source, all time
    Initially,       \* the sets of sessions the engine may start with
    Openings,        \* [view, selected, scope] a tab may open in or go back to
    Rules,           \* waste rules a session may have switched on
    MaxUser,         \* bound: navigation, refreshes, imports, price updates
    MaxWorld         \* bound: changes of the engine, requests that fail

\* A session is seen in the scope its import opens; an answer is never None.
ASSUME DashboardAssumption ==
    /\ None \notin Ids \cup [id : Ids, rev : Nat, rules : SUBSET Rules]
    /\ \A s \in Scopes : InScope(s) \subseteq Ids
    /\ \A i \in Ids : HomeScope(i) \in Scopes /\ i \in InScope(HomeScope(i))
    /\ Initially \subseteq SUBSET Ids
    /\ Openings \subseteq [view : {"overview", "sessions"}, selected : Ids \cup {None}, scope : Scopes]

VARIABLES
    engine,          \* [clock, rev, rules]: changes so far, session -> version (0: none)
    ui,              \* [view, selected, preferred, scope]
    list,            \* sessions: [loaded, asOf, rev]
    snapshot, load,  \* the open session, and how its last read went
    listError,       \* the list shows that it could not be read
    listReads, detailReads,
    importing, imported, confirmed,
    update, notice,
    used             \* how often each bounded kind of thing happened (saves: WasteToggles)

shown  == <<ui, list, listError, snapshot, load>>
reads  == <<listReads, detailReads>>
imports == <<importing, imported, confirmed>>
pricing == <<update, notice>>
vars == <<engine, shown, reads, imports, pricing, used>>

Spend(k, max) == used[k] < max /\ used' = [used EXCEPT ![k] = @ + 1]

-----------------------------------------------------------------------------
(* Answers, and the requests that get them. *)

ListNow == [asOf |-> engine.clock, rev |-> engine.rev]
DetailNow(id) == [id |-> id, rev |-> engine.rev[id], rules |-> engine.rules[id]]

RefreshList(rs, force, awaited) == listReads' = Refreshed(rs, "all", force, awaited)

\* There is no forced read of a session: a price update too awaits the read
\* under way.  A session re-read after an error keeps showing the error meanwhile.
RefreshSession(rs, id, was, awaited) ==
    /\ detailReads' = Refreshed(rs, id, FALSE, awaited)
    /\ load' = IF Joinable(rs, id) # {} \/ was = [id |-> id, status |-> "error"] THEN was
               ELSE [id |-> id, status |-> "loading"]

DetailOpen == ui.view = "sessions" /\ ui.selected # None

-----------------------------------------------------------------------------
(* The selection and the effects that follow it. *)

Visible(scope, rev) == {i \in InScope(scope) : rev[i] # 0}

\* resolveSelectedSession: keep a visible selection, else the list's first; the
\* order of the list is not modelled, so any visible session may be first.
Resolve(id, visible) ==
    IF visible = {} THEN {None} ELSE IF id \in visible THEN {id} ELSE visible

Settle(next, lst) ==
    IF next.view # "sessions" \/ (next.preferred # None /\ ~lst.loaded) THEN {next}
    ELSE {[next EXCEPT !.selected = i, !.preferred = None] :
              i \in Resolve(next.selected, Visible(next.scope, lst.rev))}

\* The effects of a new navigation state or list: the selection settles; a new
\* selection or view reads its session, or retires the read of the last one.
Enter(next, lst, snap, rs, was) ==
    \E n \in Settle(next, lst) :
        /\ ui' = n
        /\ list' = lst
        /\ snapshot' = IF n.selected = None THEN None ELSE snap
        /\ IF n.selected = ui.selected /\ n.view = ui.view
           THEN detailReads' = rs /\ load' = was
           ELSE IF n.selected # None /\ n.view = "sessions"
           THEN RefreshSession(rs, n.selected, was, FALSE)
           ELSE detailReads' = Superseded(rs) /\ load' = was

Navigate(next) ==
    /\ Spend("user", MaxUser)
    /\ Enter(next, list, snapshot, detailReads, load)
    /\ UNCHANGED <<engine, listError, listReads, imports, pricing>>

Select(id) ==
    /\ id \in Visible(ui.scope, list.rev)
    /\ Navigate([ui EXCEPT !.view = "sessions", !.selected = id, !.preferred = None])

OpenSessions ==
    /\ ui.view # "sessions"
    /\ \E i \in Resolve(ui.selected, Visible(ui.scope, list.rev)) :
           Navigate([ui EXCEPT !.view = "sessions", !.selected = i])

OpenOverview == ui.view # "overview" /\ Navigate([ui EXCEPT !.view = "overview"])

SetRange(s) == s # ui.scope /\ Navigate([ui EXCEPT !.scope = s])

HandleSourceChange(s) ==
    /\ s # ui.scope
    /\ \E i \in Resolve(None, Visible(s, list.rev)) :
           Navigate([ui EXCEPT !.scope = s, !.selected = i, !.preferred = None])

\* popstate: a state the tab had before.
RestoreNavigation ==
    \E o \in Openings :
        Navigate([view |-> o.view, selected |-> o.selected, scope |-> o.scope,
                  preferred |-> o.selected])

-----------------------------------------------------------------------------
(* The engine. *)

Changed(ids) ==
    engine' = [engine EXCEPT !.clock = @ + 1,
                   !.rev = [i \in Ids |-> IF i \in ids THEN engine.clock + 1 ELSE @[i]]]

ChangeSession(id) ==
    /\ Spend("world", MaxWorld)
    /\ Changed({id})
    /\ UNCHANGED <<shown, reads, imports, pricing>>

RemoveSession(id) ==
    /\ engine.rev[id] # 0
    /\ Spend("world", MaxWorld)
    /\ engine' = [engine EXCEPT !.clock = @ + 1, !.rev[id] = 0, !.rules[id] = {}]
    /\ confirmed' = confirmed \ {id}
    /\ UNCHANGED <<shown, reads, importing, imported, pricing>>

-----------------------------------------------------------------------------
(* Polling.  Every 30 seconds (useNow), on every event of the stream and when  *)
(* the stream opens again, the dashboard reads what it shows.  The stream does *)
(* not announce a change of prices or what a listing finds changed on disk,    *)
(* and loses events when it breaks; so an event is only one more occasion to   *)
(* read, at a moment of which nothing is assumed.                              *)

RevalidateBroken ==   \* the open session is left out
    /\ RefreshList(listReads, FALSE, FALSE)
    /\ UNCHANGED <<engine, shown, detailReads, imports, pricing, used>>

Revalidate ==
    /\ RefreshList(listReads, FALSE, FALSE)
    /\ IF DetailOpen THEN RefreshSession(detailReads, ui.selected, load, FALSE)
       ELSE UNCHANGED <<detailReads, load>>
    /\ UNCHANGED <<engine, ui, list, listError, snapshot, imports, pricing, used>>

RefreshAll ==
    /\ Spend("user", MaxUser)
    /\ RefreshList(listReads, TRUE, FALSE)
    /\ IF ui.selected # None THEN RefreshSession(detailReads, ui.selected, load, FALSE)
       ELSE UNCHANGED <<detailReads, load>>
    /\ UNCHANGED <<engine, ui, list, listError, snapshot, imports, pricing>>

\* The buttons the session page offers with an error.
Retry ==
    /\ ui.view = "sessions"
    /\ \/ /\ listError \/ load.status = "missing"
          /\ RefreshList(listReads, FALSE, FALSE)
          /\ UNCHANGED <<detailReads, load>>
       \/ /\ DetailOpen /\ load.status = "error"
          /\ RefreshSession(detailReads, ui.selected, load, FALSE)
          /\ UNCHANGED listReads
    /\ UNCHANGED <<engine, ui, list, listError, snapshot, imports, pricing, used>>

-----------------------------------------------------------------------------
(* The life of a read: answered by the engine, then settled in the browser. *)

AnswerList ==
    \E r \in listReads :
        /\ r.data = None
        /\ listReads' = Answered(listReads, r, ListNow)
        /\ UNCHANGED <<engine, shown, detailReads, imports, pricing, used>>

AnswerDetail ==
    \E r \in detailReads :
        /\ r.data = None
        /\ detailReads' = Answered(detailReads, r, DetailNow(r.key))
        /\ UNCHANGED <<engine, shown, listReads, imports, pricing, used>>

\* A price update reports when the last read it awaits has settled.
Settled(kind, r, ok) ==
    IF ~r.awaited THEN UNCHANGED pricing
    ELSE LET left == update.waiting \ {kind}
             bad == update.failed \/ ~ok
         IN /\ update' = [update EXCEPT !.waiting = left, !.failed = bad,
                              !.state = IF left = {} THEN "none" ELSE @]
            /\ notice' = IF left # {} THEN notice ELSE IF bad THEN "partial" ELSE "all"

CommitListBroken(r) ==   \* any answer is shown, also of a superseded read
    /\ r.data # None
    /\ Enter(ui, [loaded |-> TRUE, asOf |-> r.data.asOf, rev |-> r.data.rev],
             snapshot, detailReads, load)
    /\ listError' = FALSE
    /\ listReads' = listReads \ {r}
    /\ Settled("list", r, TRUE)
    /\ UNCHANGED <<engine, imports, used>>

CommitList(r) ==
    /\ r.data # None
    /\ IF r.current
       THEN /\ Enter(ui, [loaded |-> TRUE, asOf |-> r.data.asOf, rev |-> r.data.rev],
                     snapshot, detailReads, load)
            /\ listError' = FALSE
       ELSE UNCHANGED <<shown, detailReads>>
    /\ listReads' = listReads \ {r}
    /\ Settled("list", r, TRUE)
    /\ UNCHANGED <<engine, imports, used>>

\* A session the engine no longer has is answered by 404.
ShowDetail(r) ==
    IF r.data.rev = 0
    THEN snapshot' = None /\ load' = [id |-> r.key, status |-> "missing"]
    ELSE snapshot' = r.data /\ load' = [id |-> r.key, status |-> "ready"]

CommitDetailBroken(r) ==   \* the answer is shown whatever is selected by now
    /\ r.data # None
    /\ ShowDetail(r)
    /\ detailReads' = detailReads \ {r}
    /\ Settled("detail", r, TRUE)
    /\ UNCHANGED <<engine, ui, list, listError, listReads, imports, used>>

CommitDetail(r) ==
    /\ r.data # None
    /\ IF r.current /\ r.key = ui.selected THEN ShowDetail(r)
       ELSE UNCHANGED <<snapshot, load>>
    /\ detailReads' = detailReads \ {r}
    /\ Settled("detail", r, TRUE)
    /\ UNCHANGED <<engine, ui, list, listError, listReads, imports, used>>

\* A request that fails, or is aborted after 20 seconds, before or after the
\* engine answered it.  The data on display stay.
FailList(r) ==
    /\ listError' = (listError \/ r.current)
    /\ listReads' = listReads \ {r}
    /\ Settled("list", r, FALSE)
    /\ UNCHANGED <<load, detailReads>>

FailDetail(r) ==
    LET mine == r.current /\ r.key = ui.selected
    IN  /\ load' = IF mine THEN [id |-> r.key, status |-> "error"] ELSE load
        /\ detailReads' = detailReads \ {r}
        /\ Settled("detail", r, ~mine)
        /\ UNCHANGED <<listError, listReads>>

ReadFails ==
    /\ Spend("world", MaxWorld)
    /\ \/ \E r \in listReads : FailList(r)
       \/ \E r \in detailReads : FailDetail(r)
    /\ UNCHANGED <<engine, ui, list, snapshot, imports>>

SettleList == \E r \in listReads : CommitList(r)
SettleDetail == \E r \in detailReads : CommitDetail(r)

-----------------------------------------------------------------------------
(* Imports: sent from the session list, one at a time. *)

ImportSend(id) ==
    /\ importing.state \notin {"sent", "stored"} /\ ui.view = "sessions"
    /\ Spend("user", MaxUser)
    /\ importing' = [state |-> "sent", snap |-> [id |-> id, rev |-> 0, rules |-> {}]]
    /\ UNCHANGED <<engine, shown, reads, imported, confirmed, pricing>>

\* The engine keeps a session it already has.
ImportStored ==
    LET id == importing.snap.id
    IN  /\ importing.state = "sent"
        /\ IF engine.rev[id] = 0 THEN Changed({id}) ELSE UNCHANGED engine
        /\ importing' = [state |-> "stored",
                         snap |-> [id |-> id, rev |-> engine'.rev[id], rules |-> engine'.rules[id]]]
        /\ UNCHANGED <<shown, reads, imported, confirmed, pricing, used>>

ImportFails ==
    /\ importing.state \in {"sent", "stored"}
    /\ Spend("world", MaxWorld)
    /\ importing' = [importing EXCEPT !.state = "error"]
    /\ UNCHANGED <<engine, shown, reads, imported, confirmed, pricing>>

\* openImportedSession: whatever detail was on its way is retired.
ShowImported(snap, lst) ==
    Enter([view |-> "sessions", selected |-> snap.id, preferred |-> snap.id,
           scope |-> HomeScope(snap.id)],
          lst, snap, Superseded(detailReads), [id |-> snap.id, status |-> "ready"])

\* The acknowledged session enters the list, the list read under way is retired.
ImportAcknowledgedWith(retired) ==
    LET snap == importing.snap
        lst  == [list EXCEPT !.loaded = TRUE, !.rev[snap.id] = snap.rev]
    IN  /\ importing.state = "stored"
        /\ importing' = [importing EXCEPT !.state = "success"]
        /\ imported' = snap
        /\ confirmed' = confirmed \cup ({snap.id} \cap {i \in Ids : engine.rev[i] # 0})
        /\ IF ui.view = "sessions" THEN ShowImported(snap, lst)
           ELSE Enter(ui, lst, snapshot, detailReads, load)
        /\ RefreshList(retired, FALSE, FALSE)
        /\ UNCHANGED <<engine, listError, pricing, used>>

ImportAcknowledgedBroken == ImportAcknowledgedWith(listReads)   \* no listRequest.current += 1
ImportAcknowledged == ImportAcknowledgedWith(Superseded(listReads))

\* The button the overview offers after an import that ended there.
OpenImported ==
    /\ ui.view = "overview" /\ importing.state = "success"
    /\ ShowImported(imported, list)
    /\ UNCHANGED <<engine, listError, listReads, imports, pricing, used>>

-----------------------------------------------------------------------------
(* Price updates: sent from the overview; then all on display is read again. *)

UpdateSend ==
    /\ ui.view = "overview" /\ update.state = "none"
    /\ Spend("user", MaxUser)
    /\ update' = [update EXCEPT !.state = "sent"]
    /\ notice' = "pending"
    /\ UNCHANGED <<engine, shown, reads, imports>>

UpdateStored ==
    /\ update.state = "sent"
    /\ Changed({i \in Ids : engine.rev[i] # 0})
    /\ update' = [update EXCEPT !.state = "stored", !.at = engine.clock + 1]
    /\ UNCHANGED <<shown, reads, imports, notice, used>>

UpdateFails ==
    /\ update.state \in {"sent", "stored"}
    /\ Spend("world", MaxWorld)
    /\ update' = [update EXCEPT !.state = "none"]
    /\ notice' = "error"
    /\ UNCHANGED <<engine, shown, reads, imports>>

UpdateAcknowledgedWith(force) ==
    /\ update.state = "stored"
    /\ \E bad \in BOOLEAN :   \* how the read of the overview ends
           update' = [update EXCEPT !.state = "reading", !.failed = bad,
                          !.waiting = {"list"} \cup (IF DetailOpen THEN {"detail"} ELSE {})]
    /\ IF DetailOpen THEN RefreshSession(detailReads, ui.selected, load, TRUE)
       ELSE UNCHANGED <<detailReads, load>>
    /\ RefreshList(listReads, force, TRUE)
    /\ UNCHANGED <<engine, ui, list, listError, snapshot, imports, notice, used>>

UpdateAcknowledgedBroken == UpdateAcknowledgedWith(FALSE)   \* joins the list read under way
UpdateAcknowledged == UpdateAcknowledgedWith(TRUE)

-----------------------------------------------------------------------------

Init ==
    /\ engine \in [clock : {1}, rev : {[i \in Ids |-> IF i \in s THEN 1 ELSE 0] : s \in Initially}, rules : {[i \in Ids |-> {}]}]
    /\ ui \in {[view |-> o.view, selected |-> o.selected, scope |-> o.scope,
                preferred |-> IF o.view = "sessions" THEN o.selected ELSE None] : o \in Openings}
    /\ list = [loaded |-> FALSE, asOf |-> 0, rev |-> [i \in Ids |-> 0]]
    /\ snapshot = None
    /\ load = IF DetailOpen THEN [id |-> ui.selected, status |-> "loading"]
              ELSE [id |-> None, status |-> "none"]
    /\ listError = FALSE
    /\ listReads = {Request("all")}
    /\ detailReads = IF DetailOpen THEN {Request(ui.selected)} ELSE {}
    /\ importing = [state |-> "none", snap |-> None] /\ imported = None /\ confirmed = {}
    /\ update = [state |-> "none", at |-> 0, waiting |-> {}, failed |-> FALSE]
    /\ notice = "none"
    /\ used = [user |-> 0, world |-> 0, saves |-> 0]

User ==
    \/ \E id \in Ids : Select(id)
    \/ OpenSessions \/ OpenOverview
    \/ \E s \in Scopes : SetRange(s) \/ HandleSourceChange(s)
    \/ RestoreNavigation
    \/ OpenImported
    \/ RefreshAll \/ Retry
    \/ \E id \in Ids : ImportSend(id)
    \/ UpdateSend

Engine ==
    \/ \E id \in Ids : ChangeSession(id) \/ RemoveSession(id)
    \/ ImportStored \/ UpdateStored

Network == ReadFails \/ ImportFails \/ UpdateFails

Browser ==
    \/ Revalidate
    \/ AnswerList \/ AnswerDetail \/ SettleList \/ SettleDetail
    \/ ImportAcknowledged \/ UpdateAcknowledged

Next == User \/ Engine \/ Network \/ Browser

\* A request is answered or times out, an answer is handled; the interval fires
\* again and again, but finds a read under way as often as not.
Fairness ==
    /\ WF_vars(AnswerList) /\ WF_vars(SettleList)
    /\ WF_vars(AnswerDetail) /\ WF_vars(SettleDetail)
    /\ SF_vars(Revalidate)

Spec == Init /\ [][Next]_vars /\ Fairness

-----------------------------------------------------------------------------

Read == [key : {"all"} \cup Ids, current : BOOLEAN, awaited : BOOLEAN,
         data : {None} \cup [asOf : Nat, rev : [Ids -> Nat]]
                \cup [id : Ids, rev : Nat, rules : SUBSET Rules]]

\* The variables keep their types, and at most one read of a kind is current.
TypeOK ==
    /\ engine \in [clock : Nat, rev : [Ids -> Nat], rules : [Ids -> SUBSET Rules]]
    /\ ui \in [view : {"overview", "sessions"}, selected : Ids \cup {None},
               preferred : Ids \cup {None}, scope : Scopes]
    /\ list \in [loaded : BOOLEAN, asOf : Nat, rev : [Ids -> Nat]]
    /\ snapshot = None \/ snapshot \in [id : Ids, rev : Nat, rules : SUBSET Rules]
    /\ load \in [id : Ids \cup {None}, status : {"none", "loading", "ready", "missing", "error"}]
    /\ listError \in BOOLEAN
    /\ \A rs \in {listReads, detailReads} :
           /\ \A r \in rs : r.data = None \/ r \in Read
           /\ Cardinality({r \in rs : r.current}) <= 1
    /\ imported = None \/ imported.id \in Ids
    /\ confirmed \subseteq Ids
    /\ update.waiting \subseteq {"list", "detail"}
    /\ notice \in {"none", "pending", "all", "partial", "error"}

\* A session the server has acknowledged as imported is on the list until the
\* engine loses it: no read begun before may erase it (App.tsx handleImport).
ConfirmedImportListed == \A i \in confirmed : list.rev[i] # 0

\* Reads never put an older list in place of a newer one, whatever order the
\* answers arrive in.
ListNeverOlder == [][list'.asOf >= list.asOf]_vars

\* A panel that shows that it is loading has a read under way behind it, so it
\* cannot wait for an answer that is to be ignored; a session reported as read
\* is the one on display.
LoadingIsReal ==
    /\ ~list.loaded => listError \/ \E r \in listReads : r.current
    /\ DetailOpen =>
           /\ load.id = ui.selected
           /\ load.status = "loading" => \E r \in detailReads : r.current /\ r.key = ui.selected
           /\ load.status = "ready" => snapshot # None /\ snapshot.id = ui.selected

\* A price update that reports success for everything leaves no older list
\* behind, unless a newer read of it is under way or has failed.
UpdateReachesList ==
    notice = "all" => list.asOf >= update.at \/ listError \/ \E r \in listReads : r.current

\* Once the engine is quiet the dashboard shows it, also when announcements were
\* never made, were lost, or joined a read answered before the change.
UpToDate ==
    /\ list.rev = engine.rev
    /\ DetailOpen => snapshot = DetailNow(ui.selected)
ShowsLatest == <>[]UpToDate

====
