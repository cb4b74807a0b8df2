---- MODULE Dashboard_proofs ----
(***************************************************************************)
(* Proofs about Dashboard and about WasteToggles over it, for any sessions,  *)
(* scopes and bounds: reads do not put an older list in place of a newer     *)
(* one; an import that was acknowledged stays on the list; a panel that is   *)
(* loading has a read that will end it; a price update reports on a list     *)
(* read after it; waste rules on display that the engine never had are on    *)
(* their way to it, or the reader is told.                                   *)
(***************************************************************************)
EXTENDS WasteToggles, FiniteSetTheorems, TLAPS

ListData == [asOf : Nat, rev : [Ids -> Nat]]
ListRead == [key : {"all"}, current : BOOLEAN, awaited : BOOLEAN, data : {None} \cup ListData]
Snap == [id : Ids, rev : Nat, rules : SUBSET Rules]
ImportStates == {"none", "sent", "stored", "success", "error"}

ListTypes ==
    /\ engine \in [clock : Nat, rev : [Ids -> Nat], rules : [Ids -> SUBSET Rules]]
    /\ list \in [loaded : BOOLEAN, asOf : Nat, rev : [Ids -> Nat]]
    /\ listReads \subseteq ListRead
    /\ importing \in [state : ImportStates, snap : {None} \cup Snap]
    /\ importing.state \in {"sent", "stored"} => importing.snap \in Snap
    /\ confirmed \subseteq Ids

OneCurrent(rs) == \A r, s \in rs : r.current /\ s.current => r = s

\* The answer of a read, had the engine given it, is not from the future; if
\* the read counts, it is not older than the list, and has what was imported.
FreshRead(r) ==
    r.data # None =>
        /\ r.data.asOf <= engine.clock
        /\ r.current => /\ list.asOf <= r.data.asOf
                        /\ \A i \in confirmed : r.data.rev[i] # 0

ReadsFresh ==
    /\ OneCurrent(listReads)
    /\ list.asOf <= engine.clock
    /\ \A r \in listReads : FreshRead(r)

ImportsKept ==
    /\ importing.state = "stored" => importing.snap.rev # 0
    /\ \A i \in confirmed : engine.rev[i] # 0 /\ list.rev[i] # 0

ListInv == ListTypes /\ ReadsFresh /\ ImportsKept

-----------------------------------------------------------------------------
(* The discipline of Reads, for the list. *)

LEMMA SupersededReads ==
  ASSUME NEW rs, rs \subseteq ListRead
  PROVE  /\ Superseded(rs) \subseteq ListRead
         /\ \A r \in Superseded(rs) :
                ~r.current /\ \E s \in rs : r.data = s.data
  BY DEF Superseded, ListRead

\* Whatever the caller, what remains is at most one current read; a read with
\* an answer was there before with that answer, current if it is now.
LEMMA RefreshedReads ==
  ASSUME NEW rs, rs \subseteq ListRead, OneCurrent(rs),
         NEW force \in BOOLEAN, NEW awaited \in BOOLEAN
  PROVE  LET new == Refreshed(rs, "all", force, awaited)
         IN  /\ new \subseteq ListRead
             /\ OneCurrent(new)
             /\ \A r \in new : r.data # None =>
                    \E s \in rs : r.data = s.data /\ (r.current => s.current)
<1> DEFINE read == IF ~force /\ Joinable(rs, "all") # {} THEN rs
                   ELSE Superseded(rs) \cup {Request("all")}
           Mark(r) == [r EXCEPT !.awaited = @ \/ (awaited /\ r.current)]
           new == {Mark(r) : r \in read}
<1>1. /\ read \subseteq ListRead
      /\ OneCurrent(read)
      /\ \A r \in read : r.data # None =>
             \E s \in rs : r.data = s.data /\ (r.current => s.current)
  <2>1. Request("all") \in ListRead /\ Request("all").data = None
    BY DEF Request, ListRead
  <2> QED BY <2>1, SupersededReads DEF OneCurrent
<1>2. new = Refreshed(rs, "all", force, awaited)
  BY DEF Refreshed
<1> HIDE DEF read
<1>3. \A r \in read : Mark(r) \in ListRead /\ Mark(r).data = r.data /\ Mark(r).current = r.current
  BY <1>1 DEF ListRead
<1> HIDE DEF Mark
<1>4. new \subseteq ListRead
  BY <1>3
<1>5. OneCurrent(new)
  <2> SUFFICES ASSUME NEW r \in read, NEW s \in read, Mark(r).current, Mark(s).current
               PROVE  Mark(r) = Mark(s)
    BY DEF OneCurrent
  <2>1. r.current /\ s.current
    BY <1>3
  <2> QED BY <1>1, <2>1 DEF OneCurrent
<1>6. \A r \in new : r.data # None =>
          \E s \in rs : r.data = s.data /\ (r.current => s.current)
  BY <1>1, <1>3
<1> QED BY <1>2, <1>4, <1>5, <1>6

-----------------------------------------------------------------------------
(* The steps that matter to the list. *)

\* An answer's effects reach the list only as the list given.
LEMMA EnterSetsList ==
  ASSUME NEW nav, NEW lst, NEW snap, NEW rs, NEW was, Enter(nav, lst, snap, rs, was)
  PROVE  list' = lst
  BY DEF Enter

\* What a request for the list leaves of the invariant.
LEMMA RequestKeepsInv ==
  ASSUME ListInv, NEW force \in BOOLEAN, NEW awaited \in BOOLEAN,
         RefreshList(listReads, force, awaited), UNCHANGED <<engine, list, importing, confirmed>>
  PROVE  ListInv'
<1>1. /\ listReads' \subseteq ListRead
      /\ OneCurrent(listReads')
      /\ \A r \in listReads' : r.data # None =>
             \E s \in listReads : r.data = s.data /\ (r.current => s.current)
  BY RefreshedReads DEF ListInv, ListTypes, ReadsFresh, RefreshList
<1>2. \A r \in listReads' : FreshRead(r)'
  <2> SUFFICES ASSUME NEW r \in listReads', r.data # None PROVE FreshRead(r)'
    BY DEF FreshRead
  <2>1. PICK s \in listReads : r.data = s.data /\ (r.current => s.current)
    BY <1>1
  <2> QED BY <2>1 DEF ListInv, ReadsFresh, FreshRead
<1> QED BY <1>1, <1>2 DEF ListInv, ListTypes, ReadsFresh, ImportsKept

\* The engine moves on, and keeps what it has.
LEMMA ChangeOfEngine ==
  ASSUME ListTypes, NEW ids, Changed(ids)
  PROVE  /\ engine' \in [clock : Nat, rev : [Ids -> Nat], rules : [Ids -> SUBSET Rules]]
         /\ engine'.clock = engine.clock + 1
         /\ \A i \in Ids : engine.rev[i] # 0 \/ i \in ids => engine'.rev[i] # 0
<1> DEFINE revs == [i \in Ids |-> IF i \in ids THEN engine.clock + 1 ELSE engine.rev[i]]
<1>1. engine' = [engine EXCEPT !.clock = engine.clock + 1, !.rev = revs]
  BY DEF Changed
<1>2. revs \in [Ids -> Nat] /\ \A i \in Ids : engine.rev[i] # 0 \/ i \in ids => revs[i] # 0
  BY DEF ListTypes
<1> HIDE DEF revs
<1>3. engine' = [clock |-> engine.clock + 1, rev |-> revs, rules |-> engine.rules]
  BY <1>1 DEF ListTypes
<1> QED BY <1>2, <1>3 DEF ListTypes

LEMMA ChangeKeepsInv ==
  ASSUME ListInv, NEW ids, Changed(ids), UNCHANGED <<list, listReads, importing, confirmed>>
  PROVE  ListInv'
<1>1. /\ engine' \in [clock : Nat, rev : [Ids -> Nat], rules : [Ids -> SUBSET Rules]]
      /\ engine'.clock = engine.clock + 1
      /\ \A i \in Ids : engine.rev[i] # 0 => engine'.rev[i] # 0
  BY ChangeOfEngine DEF ListInv
<1>2. \A r \in listReads' : FreshRead(r)'
  BY <1>1 DEF ListInv, ListTypes, ReadsFresh, FreshRead, ListRead, ListData
<1>3. list.asOf <= engine'.clock
  BY <1>1 DEF ListInv, ListTypes, ReadsFresh
<1> QED BY <1>1, <1>2, <1>3 DEF ListInv, ListTypes, ReadsFresh, ImportsKept

LEMMA RemoveKeepsInv ==
  ASSUME ListInv, NEW id \in Ids, RemoveSession(id)
  PROVE  ListInv'
<1>1. /\ engine' \in [clock : Nat, rev : [Ids -> Nat], rules : [Ids -> SUBSET Rules]]
      /\ engine'.clock = engine.clock + 1
      /\ \A i \in Ids \ {id} : engine'.rev[i] = engine.rev[i]
  <2>1. engine' = [engine EXCEPT !.clock = @ + 1, !.rev[id] = 0, !.rules[id] = {}]
    BY DEF RemoveSession
  <2>2. engine' = [clock |-> engine.clock + 1, rev |-> [engine.rev EXCEPT ![id] = 0],
                   rules |-> [engine.rules EXCEPT ![id] = {}]]
    BY <2>1 DEF ListInv, ListTypes
  <2>3. /\ [engine.rev EXCEPT ![id] = 0] \in [Ids -> Nat]
        /\ [engine.rules EXCEPT ![id] = {}] \in [Ids -> SUBSET Rules]
        /\ \A i \in Ids \ {id} : [engine.rev EXCEPT ![id] = 0][i] = engine.rev[i]
        /\ engine.clock \in Nat
    BY DEF ListInv, ListTypes
  <2> QED BY <2>2, <2>3
<1>2. confirmed' = confirmed \ {id} /\ UNCHANGED <<list, listReads, importing>>
  BY DEF RemoveSession, shown, reads
<1>3. \A r \in listReads' : FreshRead(r)'
  BY <1>1, <1>2 DEF ListInv, ListTypes, ReadsFresh, FreshRead, ListRead, ListData
<1>4. ListTypes'
  BY <1>1, <1>2 DEF ListInv, ListTypes
<1>5. ReadsFresh'
  BY <1>1, <1>2, <1>3 DEF ListInv, ListTypes, ReadsFresh
<1>6. ImportsKept'
  BY <1>1, <1>2 DEF ListInv, ListTypes, ImportsKept
<1> QED BY <1>4, <1>5, <1>6 DEF ListInv

\* The engine answers with the list of this moment.
LEMMA AnswerKeepsInv == ASSUME ListInv, AnswerList PROVE ListInv'
<1>1. PICK r \in listReads :
          r.data = None /\ listReads' = (listReads \ {r}) \cup {[r EXCEPT !.data = ListNow]}
  BY DEF AnswerList, Answered
<1>2. UNCHANGED <<engine, list, importing, confirmed>>
  BY DEF AnswerList, shown, imports
<1> DEFINE a == [r EXCEPT !.data = ListNow]
<1>3. a \in ListRead /\ a.current = r.current /\ a.data = ListNow
  BY <1>1 DEF ListInv, ListTypes, ListRead, ListNow, ListData
<1>4. listReads' = (listReads \ {r}) \cup {a}
  BY <1>1
<1> HIDE DEF a
<1>5. \A s : s = a => FreshRead(s)'
  <2>1. ListNow.asOf = engine.clock /\ ListNow.rev = engine.rev
    BY DEF ListNow
  <2>2. engine.clock \in Nat /\ list.asOf <= engine.clock /\ \A i \in confirmed : engine.rev[i] # 0
    BY DEF ListInv, ListTypes, ReadsFresh, ImportsKept
  <2> QED BY <1>2, <1>3, <2>1, <2>2 DEF FreshRead
<1>6. \A s \in listReads' : FreshRead(s)'
  BY <1>2, <1>4, <1>5 DEF ListInv, ReadsFresh, FreshRead
<1>7. OneCurrent(listReads')
  BY <1>1, <1>3, <1>4 DEF ListInv, ReadsFresh, OneCurrent
<1> QED BY <1>2, <1>3, <1>4, <1>6, <1>7 DEF ListInv, ListTypes, ReadsFresh, ImportsKept

\* An answer is shown when its read counts.  No other read does then.
LEMMA CommitKeepsInv == ASSUME ListInv, NEW r \in listReads, CommitList(r)
                        PROVE  ListInv' /\ list'.asOf >= list.asOf
<1>1. r.data # None /\ listReads' = listReads \ {r} /\ UNCHANGED <<engine, importing, confirmed>>
  BY DEF CommitList, imports
<1>2. r \in ListRead /\ FreshRead(r) /\ r.data \in ListData
  BY <1>1 DEF ListInv, ListTypes, ReadsFresh, ListRead
<1>3. CASE r.current
  <2>1. list' = [loaded |-> TRUE, asOf |-> r.data.asOf, rev |-> r.data.rev]
    BY <1>3, EnterSetsList DEF CommitList
  <2>2. list' \in [loaded : BOOLEAN, asOf : Nat, rev : [Ids -> Nat]]
    BY <1>2, <2>1 DEF ListData
  <2>3. list'.asOf >= list.asOf /\ list'.asOf <= engine.clock
    BY <1>1, <1>2, <1>3, <2>1 DEF FreshRead, ListData, ListInv, ListTypes
  <2>4. \A s \in listReads' : ~s.current
    BY <1>1, <1>3 DEF ListInv, ReadsFresh, OneCurrent
  <2>5. \A s \in listReads' : FreshRead(s)'
    BY <1>1, <2>4 DEF ListInv, ReadsFresh, FreshRead
  <2>6. ImportsKept'
    BY <1>1, <1>2, <1>3, <2>1 DEF FreshRead, ListInv, ImportsKept
  <2> QED BY <1>1, <2>2, <2>3, <2>5, <2>6 DEF ListInv, ListTypes, ReadsFresh, OneCurrent
<1>4. CASE ~r.current
  <2>1. UNCHANGED list
    BY <1>4 DEF CommitList, shown
  <2> QED BY <1>1, <2>1 DEF ListInv, ListTypes, ReadsFresh, OneCurrent, FreshRead, ImportsKept
<1> QED BY <1>3, <1>4

\* The acknowledged import enters the list; every read that was under way is
\* retired, and one that starts now has no answer yet.
LEMMA ImportKeepsInv == ASSUME ListInv, ImportAcknowledged
                        PROVE  ListInv' /\ list'.asOf = list.asOf
<1> DEFINE snap == importing.snap
           retired == Superseded(listReads)
<1>1. /\ importing.state = "stored"
      /\ importing' = [importing EXCEPT !.state = "success"]
      /\ confirmed' = confirmed \cup ({snap.id} \cap {i \in Ids : engine.rev[i] # 0})
      /\ listReads' = Refreshed(retired, "all", FALSE, FALSE)
      /\ UNCHANGED engine
  BY DEF ImportAcknowledged, ImportAcknowledgedWith, RefreshList
<1>2. list' = [list EXCEPT !.loaded = TRUE, !.rev[snap.id] = snap.rev]
  BY EnterSetsList DEF ImportAcknowledged, ImportAcknowledgedWith, ShowImported
<1>3. snap \in Snap /\ snap.rev # 0
  BY <1>1 DEF ListInv, ListTypes, ImportsKept
<1>4. /\ list' \in [loaded : BOOLEAN, asOf : Nat, rev : [Ids -> Nat]]
      /\ list'.asOf = list.asOf
      /\ list'.rev = [list.rev EXCEPT ![snap.id] = snap.rev]
  BY <1>2, <1>3 DEF ListInv, ListTypes, Snap
<1>5. retired \subseteq ListRead /\ \A r \in retired : ~r.current /\ \E s \in listReads : r.data = s.data
  BY SupersededReads DEF ListInv, ListTypes
<1> HIDE DEF retired
<1>6. /\ listReads' \subseteq ListRead
      /\ OneCurrent(listReads')
      /\ \A r \in listReads' : r.data # None =>
             \E s \in retired : r.data = s.data /\ (r.current => s.current)
  BY <1>1, <1>5, RefreshedReads DEF OneCurrent
<1>7. \A r \in listReads' : FreshRead(r)'
  <2> SUFFICES ASSUME NEW r \in listReads', r.data # None PROVE FreshRead(r)'
    BY DEF FreshRead
  <2>1. PICK s \in listReads : r.data = s.data /\ ~r.current
    BY <1>5, <1>6
  <2>2. r.data.asOf <= engine.clock
    BY <2>1 DEF FreshRead, ListInv, ReadsFresh
  <2> QED BY <1>1, <2>1, <2>2 DEF FreshRead
<1>8. importing' = [state |-> "success", snap |-> snap]
  BY <1>1 DEF ListInv, ListTypes
<1>9. ListTypes'
  BY <1>1, <1>3, <1>4, <1>6, <1>8 DEF ListInv, ListTypes, ImportStates
<1>10. ImportsKept'
  BY <1>1, <1>3, <1>4, <1>8 DEF ListInv, ListTypes, ImportsKept, Snap
<1>11. ReadsFresh'
  BY <1>1, <1>4, <1>6, <1>7 DEF ListInv, ReadsFresh
<1> QED BY <1>4, <1>9, <1>10, <1>11 DEF ListInv

\* The upload, before it is acknowledged, does not touch the list.
LEMMA UploadKeepsInv ==
  ASSUME ListInv, (\E id \in Ids : ImportSend(id)) \/ ImportStored \/ ImportFails
  PROVE  ListInv' /\ list'.asOf = list.asOf
<1>1. UNCHANGED <<list, listReads, confirmed>>
  BY DEF ImportSend, ImportStored, ImportFails, shown, reads
<1>2. CASE \E id \in Ids : ImportSend(id)
  <2>1. PICK id \in Ids : importing' = [state |-> "sent", snap |-> [id |-> id, rev |-> 0, rules |-> {}]]
    BY <1>2 DEF ImportSend
  <2>2. [id |-> id, rev |-> 0, rules |-> {}] \in Snap
    BY DEF Snap
  <2>3. UNCHANGED engine
    BY <1>2 DEF ImportSend
  <2> QED BY <1>1, <2>1, <2>2, <2>3
          DEF ListInv, ListTypes, ImportStates, ReadsFresh, FreshRead, ImportsKept
<1>3. CASE ImportStored
  <2> DEFINE id == importing.snap.id
  <2>1. /\ importing.state = "sent"
        /\ importing' = [state |-> "stored",
                          snap |-> [id |-> id, rev |-> engine'.rev[id], rules |-> engine'.rules[id]]]
        /\ IF engine.rev[id] = 0 THEN Changed({id}) ELSE UNCHANGED engine
    BY <1>3 DEF ImportStored
  <2>2. id \in Ids
    BY <2>1 DEF ListInv, ListTypes, Snap
  <2> HIDE DEF id
  <2>3. /\ engine' \in [clock : Nat, rev : [Ids -> Nat], rules : [Ids -> SUBSET Rules]]
        /\ engine.clock <= engine'.clock
        /\ \A i \in Ids : engine.rev[i] # 0 => engine'.rev[i] # 0
        /\ engine'.rev[id] # 0
    BY <2>1, <2>2, ChangeOfEngine DEF ListInv, ListTypes
  <2>4. [id |-> id, rev |-> engine'.rev[id], rules |-> engine'.rules[id]] \in Snap
    BY <2>2, <2>3 DEF Snap
  <2>5. ListTypes'
    BY <1>1, <2>1, <2>3, <2>4 DEF ListInv, ListTypes, ImportStates
  <2>6. ImportsKept'
    BY <1>1, <2>1, <2>3 DEF ListInv, ListTypes, ImportsKept
  <2>7. \A r \in listReads' : FreshRead(r)'
    BY <1>1, <2>3 DEF ListInv, ListTypes, ReadsFresh, FreshRead, ListRead, ListData
  <2>8. list'.asOf <= engine'.clock
    BY <1>1, <2>3 DEF ListInv, ListTypes, ReadsFresh
  <2> QED BY <1>1, <2>5, <2>6, <2>7, <2>8 DEF ListInv, ReadsFresh
<1>4. CASE ImportFails
  <2>1. importing' = [state |-> "error", snap |-> importing.snap] /\ UNCHANGED engine
    BY <1>4 DEF ImportFails, ListInv, ListTypes
  <2> QED BY <1>1, <2>1 DEF ListInv, ListTypes, ImportStates, ReadsFresh, FreshRead, ImportsKept
<1> QED BY <1>1, <1>2, <1>3, <1>4

\* A read that fails is forgotten.
LEMMA FailureKeepsInv == ASSUME ListInv, ReadFails PROVE ListInv' /\ list'.asOf = list.asOf
<1>1. listReads' \subseteq listReads /\ UNCHANGED <<engine, list, importing, confirmed>>
  BY DEF ReadFails, FailList, FailDetail, imports
<1> QED BY <1>1 DEF ListInv, ListTypes, ReadsFresh, OneCurrent, FreshRead, ImportsKept

-----------------------------------------------------------------------------
(* Every step. *)

LEMMA InitInv == Init => ListInv
<1> SUFFICES ASSUME Init PROVE ListInv
  OBVIOUS
<1>1. /\ engine.clock = 1 /\ engine \in [clock : Nat, rev : [Ids -> Nat], rules : [Ids -> SUBSET Rules]]
      /\ list = [loaded |-> FALSE, asOf |-> 0, rev |-> [i \in Ids |-> 0]]
      /\ listReads = {Request("all")} /\ importing = [state |-> "none", snap |-> None] /\ confirmed = {}
  BY DEF Init
<1>2. Request("all") \in ListRead /\ Request("all").data = None
  BY DEF Request, ListRead
<1> QED BY <1>1, <1>2 DEF ListInv, ListTypes, ImportStates, ReadsFresh, OneCurrent, FreshRead, ImportsKept

\* What the selection, the open session and price updates do beside the list.
LEMMA StepKeepsInv == ListInv /\ [Next]_vars => ListInv' /\ list'.asOf >= list.asOf
<1> SUFFICES ASSUME ListInv, [Next]_vars PROVE ListInv' /\ list'.asOf >= list.asOf
  OBVIOUS
<1>0. list.asOf \in Nat
  BY DEF ListInv, ListTypes
<1>1. ASSUME UNCHANGED <<engine, list, listReads, importing, confirmed>>
      PROVE  ListInv' /\ list'.asOf = list.asOf
  BY <1>1 DEF ListInv, ListTypes, ReadsFresh, OneCurrent, FreshRead, ImportsKept
<1>2. CASE UNCHANGED vars
  BY <1>0, <1>1, <1>2 DEF vars, shown, reads, imports
<1>3. CASE \/ \E id \in Ids : Select(id)
           \/ OpenSessions \/ OpenOverview
           \/ \E s \in Scopes : SetRange(s) \/ HandleSourceChange(s)
           \/ RestoreNavigation
  <2>1. PICK n : Navigate(n)
    BY <1>3 DEF Select, OpenSessions, OpenOverview, SetRange, HandleSourceChange, RestoreNavigation
  <2>2. UNCHANGED <<engine, list, listReads, importing, confirmed>>
    BY <2>1, EnterSetsList DEF Navigate, imports
  <2> QED BY <1>0, <1>1, <2>2
<1>4. CASE OpenImported
  <2>1. UNCHANGED <<engine, list, listReads, importing, confirmed>>
    BY <1>4, EnterSetsList DEF OpenImported, ShowImported, imports
  <2> QED BY <1>0, <1>1, <2>1
<1>5. CASE RefreshAll \/ Revalidate \/ UpdateAcknowledged
  <2>1. \E force, awaited \in BOOLEAN : RefreshList(listReads, force, awaited)
    BY <1>5 DEF RefreshAll, Revalidate, UpdateAcknowledged, UpdateAcknowledgedWith
  <2>2. UNCHANGED <<engine, list, importing, confirmed>>
    BY <1>5 DEF RefreshAll, Revalidate, UpdateAcknowledged, UpdateAcknowledgedWith, imports
  <2> QED BY <1>0, <2>1, <2>2, RequestKeepsInv
<1>6. CASE Retry
  <2>1. UNCHANGED <<engine, list, importing, confirmed>>
    BY <1>6 DEF Retry, imports
  <2>2. RefreshList(listReads, FALSE, FALSE) \/ UNCHANGED listReads
    BY <1>6 DEF Retry
  <2>3. CASE RefreshList(listReads, FALSE, FALSE)
    <3>1. ListInv'
      BY <2>1, <2>3, RequestKeepsInv, Zenon
    <3> QED BY <1>0, <2>1, <3>1
  <2>4. CASE UNCHANGED listReads
    BY <1>0, <1>1, <2>1, <2>4
  <2> QED BY <2>2, <2>3, <2>4
<1>7. CASE UpdateSend \/ UpdateFails
  <2>1. UNCHANGED <<engine, list, listReads, importing, confirmed>>
    BY <1>7 DEF UpdateSend, UpdateFails, shown, reads, imports
  <2> QED BY <1>0, <1>1, <2>1
<1>8. CASE (\E id \in Ids : ChangeSession(id)) \/ UpdateStored
  <2>1. (\E ids : Changed(ids)) /\ UNCHANGED <<list, listReads, importing, confirmed>>
    BY <1>8 DEF ChangeSession, UpdateStored, shown, reads, imports
  <2> QED BY <1>0, <2>1, ChangeKeepsInv
<1>9. CASE \E id \in Ids : RemoveSession(id)
  <2>1. UNCHANGED list
    BY <1>9 DEF RemoveSession, shown
  <2> QED BY <1>0, <1>9, <2>1, RemoveKeepsInv
<1>10. CASE AnswerList
  <2>1. UNCHANGED list
    BY <1>10 DEF AnswerList, shown
  <2> QED BY <1>0, <1>10, <2>1, AnswerKeepsInv
<1>11. CASE AnswerDetail \/ SettleDetail
  <2>1. UNCHANGED <<engine, list, listReads, importing, confirmed>>
    BY <1>11 DEF AnswerDetail, SettleDetail, CommitDetail, shown, imports
  <2> QED BY <1>0, <1>1, <2>1
<1>12. CASE SettleList
  BY <1>12, CommitKeepsInv DEF SettleList
<1>13. CASE ImportAcknowledged
  BY <1>0, <1>13, ImportKeepsInv
<1>14. CASE (\E id \in Ids : ImportSend(id)) \/ ImportStored \/ ImportFails
  BY <1>0, <1>14, UploadKeepsInv
<1>15. CASE ReadFails
  BY <1>0, <1>15, FailureKeepsInv
<1> QED BY <1>2, <1>3, <1>4, <1>5, <1>6, <1>7, <1>8, <1>9, <1>10, <1>11, <1>12, <1>13, <1>14, <1>15
        DEF Next, User, Engine, Network, Browser

LEMMA ListInvAlways == Spec => []ListInv
<1>1. ListInv /\ [Next]_vars => ListInv'
  BY StepKeepsInv
<1> QED BY InitInv, <1>1, PTL DEF Spec

-----------------------------------------------------------------------------

\* A session the server acknowledged as imported stays on the list until the
\* engine loses it, whatever reads were under way (App.tsx handleImport).
THEOREM ConfirmedImportStaysListed == Spec => []ConfirmedImportListed
<1>1. ListInv => ConfirmedImportListed
  BY DEF ListInv, ImportsKept, ConfirmedImportListed
<1> QED BY <1>1, ListInvAlways, PTL

\* The list on display never goes back, however many reads overlap and in
\* whatever order their answers arrive (App.tsx refreshList).
THEOREM ListNeverGoesBack == Spec => ListNeverOlder
<1>1. ListInv /\ [Next]_vars => [list'.asOf >= list.asOf]_vars
  BY StepKeepsInv
<1> QED BY <1>1, ListInvAlways, PTL DEF Spec, ListNeverOlder

-----------------------------------------------------------------------------
(* Types, the open session's reads, and price updates. *)

ReadOf(K, D) == [key : K, current : BOOLEAN, awaited : BOOLEAN, data : {None} \cup D]
AreReads(rs, K, D) == rs \subseteq ReadOf(K, D)
Lone(rs) == \A r, s \in rs : r.awaited /\ s.awaited => r = s

LEMMA SupersededKeeps ==
  ASSUME NEW K, NEW D, NEW rs, rs \subseteq ReadOf(K, D)
  PROVE  /\ Superseded(rs) \subseteq ReadOf(K, D)
         /\ \A r \in Superseded(rs) :
                /\ ~r.current
                /\ \E s \in rs : r.key = s.key /\ r.data = s.data /\ r.awaited = s.awaited
         /\ Lone(rs) => Lone(Superseded(rs))
<1>1. \A s \in rs : /\ [s EXCEPT !.current = FALSE] \in ReadOf(K, D)
                    /\ ~[s EXCEPT !.current = FALSE].current
                    /\ [s EXCEPT !.current = FALSE].key = s.key
                    /\ [s EXCEPT !.current = FALSE].data = s.data
                    /\ [s EXCEPT !.current = FALSE].awaited = s.awaited
  BY DEF ReadOf
<1> DEFINE Retired(s) == [s EXCEPT !.current = FALSE]
<1>2. Superseded(rs) = {Retired(s) : s \in rs}
  BY DEF Superseded
<1> HIDE DEF Retired
<1>3. \A s \in rs : /\ Retired(s) \in ReadOf(K, D) /\ ~Retired(s).current
                    /\ Retired(s).key = s.key /\ Retired(s).data = s.data /\ Retired(s).awaited = s.awaited
  BY <1>1 DEF Retired
<1>4. Lone(rs) => Lone(Superseded(rs))
  BY <1>2, <1>3 DEF Lone
<1> QED BY <1>2, <1>3, <1>4

\* Whatever a read joins or retires, exactly one is current then, with the key
\* asked for; an answer it has was there before; and only it becomes awaited.
LEMMA RequestJoins ==
  ASSUME NEW K, NEW D, NEW rs, AreReads(rs, K, D), OneCurrent(rs),
         NEW key \in K, NEW force \in BOOLEAN, NEW awaited \in BOOLEAN
  PROVE  LET new == Refreshed(rs, key, force, awaited)
         IN  /\ new \subseteq ReadOf(K, D)
             /\ OneCurrent(new)
             /\ \A r \in new : r.current => r.key = key
             /\ \E r \in new : r.current
             /\ \A r \in new : r.data # None =>
                    \E s \in rs : r.key = s.key /\ r.data = s.data /\ (r.current => ~force /\ s.current)
             /\ \A r \in new : r.awaited => (awaited /\ r.current) \/ \E s \in rs : s.awaited
             /\ Lone(rs) /\ (awaited => \A s \in rs : ~s.awaited) => Lone(new)
<1> DEFINE joins == ~force /\ Joinable(rs, key) # {}
           read == IF joins THEN rs ELSE Superseded(rs) \cup {Request(key)}
           Mark(r) == [r EXCEPT !.awaited = @ \/ (awaited /\ r.current)]
           new == {Mark(r) : r \in read}
<1>0. rs \subseteq ReadOf(K, D)
  BY DEF AreReads
<1>1. /\ read \subseteq ReadOf(K, D)
      /\ OneCurrent(read)
      /\ \A r \in read : r.current => r.key = key
      /\ \E r \in read : r.current
      /\ \A r \in read : r.data # None =>
             \E s \in rs : r.key = s.key /\ r.data = s.data /\ (r.current => ~force /\ s.current)
      /\ \A r \in read : r.awaited => \E s \in rs : s.awaited
      /\ Lone(rs) => Lone(read)
  <2>1. CASE joins
    <3>1. PICK j \in rs : j.current /\ j.key = key
      BY <2>1 DEF Joinable
    <3> QED BY <1>0, <2>1, <3>1 DEF OneCurrent
  <2>2. CASE ~joins
    <3>1. /\ Request(key) \in ReadOf(K, D) /\ Request(key).current /\ Request(key).key = key
          /\ Request(key).data = None /\ ~Request(key).awaited
      BY DEF Request, ReadOf
    <3>2. read = Superseded(rs) \cup {Request(key)}
      BY <2>2
    <3> QED BY <1>0, <3>1, <3>2, SupersededKeeps DEF OneCurrent, Lone
  <2> QED BY <2>1, <2>2
<1>2. new = Refreshed(rs, key, force, awaited)
  BY DEF Refreshed
<1> HIDE DEF read
<1>3. \A r \in read : /\ Mark(r) \in ReadOf(K, D)
                      /\ Mark(r).key = r.key /\ Mark(r).data = r.data /\ Mark(r).current = r.current
                      /\ Mark(r).awaited = (r.awaited \/ (awaited /\ r.current))
  BY <1>1 DEF ReadOf
<1> HIDE DEF Mark
<1>4. new \subseteq ReadOf(K, D) /\ (\A r \in new : r.current => r.key = key) /\ \E r \in new : r.current
  BY <1>1, <1>3
<1>5. OneCurrent(new)
  <2> SUFFICES ASSUME NEW r \in read, NEW s \in read, Mark(r).current, Mark(s).current
               PROVE  Mark(r) = Mark(s)
    BY DEF OneCurrent
  <2>1. r.current /\ s.current
    BY <1>3
  <2> QED BY <1>1, <2>1 DEF OneCurrent
<1>6. \A r \in new : r.data # None =>
          \E s \in rs : r.key = s.key /\ r.data = s.data /\ (r.current => ~force /\ s.current)
  BY <1>1, <1>3
<1>7. \A r \in new : r.awaited => (awaited /\ r.current) \/ \E s \in rs : s.awaited
  <2> SUFFICES ASSUME NEW r \in read, Mark(r).awaited
               PROVE  (awaited /\ Mark(r).current) \/ \E s \in rs : s.awaited
    OBVIOUS
  <2>1. r.awaited \/ (awaited /\ r.current)
    BY <1>3
  <2>2. r.awaited => \E s \in rs : s.awaited
    BY <1>1
  <2> QED BY <1>3, <2>1, <2>2
<1>8. ASSUME Lone(rs), awaited => \A s \in rs : ~s.awaited PROVE Lone(new)
  <2> SUFFICES ASSUME NEW r \in read, NEW s \in read, Mark(r).awaited, Mark(s).awaited
               PROVE  Mark(r) = Mark(s)
    BY DEF Lone
  <2>1. CASE awaited
    <3>1. r.current /\ s.current
      BY <1>1, <1>3, <1>8, <2>1
    <3> QED BY <1>1, <3>1 DEF OneCurrent
  <2>2. CASE ~awaited
    <3>1. r.awaited /\ s.awaited
      BY <1>3, <2>2
    <3> QED BY <1>1, <1>8, <3>1 DEF Lone
  <2> QED BY <2>1, <2>2
<1> QED BY <1>2, <1>4, <1>5, <1>6, <1>7, <1>8

Nav == [view : {"overview", "sessions"}, selected : Ids \cup {None}, preferred : Ids \cup {None}, scope : Scopes]
Outcome == [id : Ids \cup {None}, status : {"none", "loading", "ready", "missing", "error"}]
DetailRead == {r \in ReadOf(Ids, Snap) : r.data # None => r.data.id = r.key}

\* A read that counts is of the selected session, whose panel shows that it is
\* loading, or the error of the last read.
OfSelected(rs, was) == \A r \in rs : r.current =>
    r.key = ui.selected /\ was.id = ui.selected /\ was.status \in {"loading", "error"}

\* What the panel of the open session shows, given its reads and its data.
Honest(rs, snap, was) ==
    /\ was.id = ui.selected
    /\ was.status = "loading" => \E r \in rs : r.current /\ r.key = ui.selected
    /\ was.status = "ready" => snap # None /\ snap.id = ui.selected

DetailTypes ==
    /\ ui \in Nav /\ load \in Outcome
    /\ snapshot \in {None} \cup Snap /\ imported \in {None} \cup Snap
    /\ importing.state = "success" => imported \in Snap
    /\ detailReads \subseteq DetailRead

DetailInv ==
    /\ DetailTypes
    /\ OneCurrent(detailReads)
    /\ OfSelected(detailReads, load)
    /\ DetailOpen => Honest(detailReads, snapshot, load)

LEMMA DetailReads ==
  ASSUME NEW rs, rs \subseteq DetailRead
  PROVE  rs \subseteq ReadOf(Ids, Snap) /\ Superseded(rs) \subseteq DetailRead /\ OneCurrent(Superseded(rs))
<1>1. rs \subseteq ReadOf(Ids, Snap)
  BY DEF DetailRead
<1> QED BY <1>1, SupersededKeeps DEF DetailRead, OneCurrent

\* A request for a session leaves its panel loading, or with its old error, and
\* one read of it that counts.
LEMMA SessionRequest ==
  ASSUME NEW rs, rs \subseteq DetailRead, OneCurrent(rs), NEW was \in Outcome, NEW id \in Ids, NEW awaited \in BOOLEAN,
         OfSelected(rs, was), RefreshSession(rs, id, was, awaited)
  PROVE  /\ detailReads' \subseteq DetailRead /\ OneCurrent(detailReads')
         /\ load' \in Outcome /\ load'.id = id /\ load'.status \in {"loading", "error"}
         /\ \A r \in detailReads' : r.current => r.key = id
         /\ \E r \in detailReads' : r.current /\ r.key = id
<1>1. /\ detailReads' \subseteq ReadOf(Ids, Snap) /\ OneCurrent(detailReads')
      /\ \A r \in detailReads' : r.current => r.key = id
      /\ \E r \in detailReads' : r.current
      /\ \A r \in detailReads' : r.data # None => \E s \in rs : r.key = s.key /\ r.data = s.data
  <2>1. AreReads(rs, Ids, Snap)
    BY DetailReads DEF AreReads
  <2>2. PICK force \in BOOLEAN : ~force /\ detailReads' = Refreshed(rs, id, force, awaited)
    BY DEF RefreshSession
  <2> QED BY <2>1, <2>2, RequestJoins
<1>2. detailReads' \subseteq DetailRead
  BY <1>1 DEF DetailRead
<1>3. CASE Joinable(rs, id) # {}
  <2>1. PICK r \in rs : r.current /\ r.key = id
    BY <1>3 DEF Joinable
  <2> QED BY <1>1, <1>2, <1>3, <2>1 DEF RefreshSession, OfSelected
<1>4. CASE was = [id |-> id, status |-> "error"]
  BY <1>1, <1>2, <1>4 DEF RefreshSession
<1>5. CASE Joinable(rs, id) = {} /\ was # [id |-> id, status |-> "error"]
  <2>1. load' = [id |-> id, status |-> "loading"]
    BY <1>5 DEF RefreshSession
  <2> QED BY <1>1, <1>2, <2>1 DEF Outcome
<1> QED BY <1>3, <1>4, <1>5

LEMMA SettleTypes ==
  ASSUME NEW nav \in Nav, NEW lst, NEW n \in Settle(nav, lst)
  PROVE  /\ n \in Nav /\ n.view = nav.view
         /\ nav.selected \in Visible(nav.scope, lst.rev) => n.selected = nav.selected
<1>1. CASE n = nav
  BY <1>1
<1>2. CASE n # nav
  <2>1. PICK i \in Resolve(nav.selected, Visible(nav.scope, lst.rev)) :
            n = [nav EXCEPT !.selected = i, !.preferred = None]
    BY <1>2 DEF Settle
  <2>2. nav.scope \in Scopes
    BY DEF Nav
  <2>3. Visible(nav.scope, lst.rev) \subseteq Ids
    BY <2>2, DashboardAssumption DEF Visible
  <2>4. i \in Ids \cup {None} /\ (nav.selected \in Visible(nav.scope, lst.rev) => i = nav.selected)
    BY <2>1, <2>3 DEF Resolve
  <2> QED BY <2>1, <2>4 DEF Nav
<1> QED BY <1>1, <1>2

\* A navigation, a new list or an import keeps the panel honest, if it would be
\* where the selection does not change.
LEMMA EnterKeepsDetail ==
  ASSUME NEW nav \in Nav, NEW lst, NEW snap \in {None} \cup Snap, NEW rs, rs \subseteq DetailRead, OneCurrent(rs),
         NEW was \in Outcome, OfSelected(rs, was), ui \in Nav,
         \A n \in Settle(nav, lst) : n.selected = ui.selected /\ n.view = ui.view /\ DetailOpen => Honest(rs, snap, was),
         Enter(nav, lst, snap, rs, was)
  PROVE  /\ ui' \in Nav /\ load' \in Outcome /\ snapshot' \in {None} \cup Snap
         /\ detailReads' \subseteq DetailRead /\ OneCurrent(detailReads')
         /\ OfSelected(detailReads, load)' /\ (DetailOpen => Honest(detailReads, snapshot, load))'
<1>1. PICK n \in Settle(nav, lst) :
          /\ ui' = n
          /\ snapshot' = IF n.selected = None THEN None ELSE snap
          /\ IF n.selected = ui.selected /\ n.view = ui.view
             THEN detailReads' = rs /\ load' = was
             ELSE IF n.selected # None /\ n.view = "sessions"
             THEN RefreshSession(rs, n.selected, was, FALSE)
             ELSE detailReads' = Superseded(rs) /\ load' = was
  BY DEF Enter
<1>2. n \in Nav /\ snapshot' \in {None} \cup Snap
  BY <1>1, SettleTypes
<1>3. CASE n.selected = ui.selected /\ n.view = ui.view
  BY <1>1, <1>2, <1>3 DEF OfSelected, Honest, DetailOpen
<1>4. CASE ~(n.selected = ui.selected /\ n.view = ui.view) /\ n.selected # None /\ n.view = "sessions"
  <2>1. n.selected \in Ids
    BY <1>2, <1>4 DEF Nav
  <2>2. RefreshSession(rs, n.selected, was, FALSE)
    BY <1>1, <1>4
  <2>3. /\ detailReads' \subseteq DetailRead /\ OneCurrent(detailReads')
        /\ load' \in Outcome /\ load'.id = n.selected /\ load'.status \in {"loading", "error"}
        /\ \A r \in detailReads' : r.current => r.key = n.selected
        /\ \E r \in detailReads' : r.current /\ r.key = n.selected
    BY <2>1, <2>2, SessionRequest
  <2> QED BY <1>1, <1>2, <2>3 DEF OfSelected, Honest
<1>5. CASE ~(n.selected = ui.selected /\ n.view = ui.view) /\ ~(n.selected # None /\ n.view = "sessions")
  <2>1. detailReads' = Superseded(rs) /\ load' = was
    BY <1>1, <1>5
  <2>2. Superseded(rs) \subseteq DetailRead /\ OneCurrent(Superseded(rs)) /\ \A r \in Superseded(rs) : ~r.current
    BY DetailReads, SupersededKeeps
  <2> QED BY <1>1, <1>2, <1>5, <2>1, <2>2 DEF OfSelected, DetailOpen
<1> QED BY <1>3, <1>4, <1>5

-----------------------------------------------------------------------------
(* The steps that matter to the open session. *)

LEMMA NavigateKeepsDetail == ASSUME DetailInv, NEW nav \in Nav, Navigate(nav) PROVE DetailInv'
<1>1. Enter(nav, list, snapshot, detailReads, load) /\ UNCHANGED <<importing, imported>>
  BY DEF Navigate, imports
<1>2. /\ ui' \in Nav /\ load' \in Outcome /\ snapshot' \in {None} \cup Snap
      /\ detailReads' \subseteq DetailRead /\ OneCurrent(detailReads')
      /\ OfSelected(detailReads, load)' /\ (DetailOpen => Honest(detailReads, snapshot, load))'
  BY <1>1, EnterKeepsDetail DEF DetailInv, DetailTypes
<1> QED BY <1>1, <1>2 DEF DetailInv, DetailTypes

LEMMA ResolvesToSession ==
  ASSUME NEW id, NEW s \in Scopes, NEW rev, NEW i \in Resolve(id, Visible(s, rev))
  PROVE  i \in Ids \cup {None}
  BY DashboardAssumption DEF Resolve, Visible

\* Every navigation of the user is one between navigation states.
LEMMA Navigations ==
  ASSUME ui \in Nav,
         \/ \E id \in Ids : Select(id)
         \/ OpenSessions \/ OpenOverview
         \/ \E s \in Scopes : SetRange(s) \/ HandleSourceChange(s)
         \/ RestoreNavigation
  PROVE  \E nav \in Nav : Navigate(nav)
<1>1. CASE \E id \in Ids : Select(id)
  <2>1. PICK id \in Ids : Navigate([ui EXCEPT !.view = "sessions", !.selected = id, !.preferred = None])
    BY <1>1 DEF Select
  <2>2. [ui EXCEPT !.view = "sessions", !.selected = id, !.preferred = None] \in Nav
    BY DEF Nav
  <2> QED BY <2>1, <2>2
<1>2. CASE OpenSessions
  <2>1. PICK i \in Resolve(ui.selected, Visible(ui.scope, list.rev)) :
            Navigate([ui EXCEPT !.view = "sessions", !.selected = i])
    BY <1>2 DEF OpenSessions
  <2>2. i \in Ids \cup {None}
    BY ResolvesToSession DEF Nav
  <2>3. [ui EXCEPT !.view = "sessions", !.selected = i] \in Nav
    BY <2>2 DEF Nav
  <2> QED BY <2>1, <2>3
<1>3. CASE OpenOverview
  <2>1. [ui EXCEPT !.view = "overview"] \in Nav
    BY DEF Nav
  <2> QED BY <1>3, <2>1 DEF OpenOverview
<1>4. CASE \E s \in Scopes : SetRange(s)
  <2>1. PICK s \in Scopes : Navigate([ui EXCEPT !.scope = s])
    BY <1>4 DEF SetRange
  <2>2. [ui EXCEPT !.scope = s] \in Nav
    BY DEF Nav
  <2> QED BY <2>1, <2>2
<1>5. CASE \E s \in Scopes : HandleSourceChange(s)
  <2>0. PICK s \in Scopes : HandleSourceChange(s)
    BY <1>5
  <2>1. PICK i \in Resolve(None, Visible(s, list.rev)) :
            Navigate([ui EXCEPT !.scope = s, !.selected = i, !.preferred = None])
    BY <2>0 DEF HandleSourceChange
  <2>2. i \in Ids \cup {None}
    BY ResolvesToSession
  <2>3. [ui EXCEPT !.scope = s, !.selected = i, !.preferred = None] \in Nav
    BY <2>2 DEF Nav
  <2> QED BY <2>1, <2>3
<1>6. CASE RestoreNavigation
  <2>1. PICK o \in Openings :
            Navigate([view |-> o.view, selected |-> o.selected, scope |-> o.scope, preferred |-> o.selected])
    BY <1>6 DEF RestoreNavigation
  <2>2. [view |-> o.view, selected |-> o.selected, scope |-> o.scope, preferred |-> o.selected] \in Nav
    BY DashboardAssumption DEF Nav
  <2> QED BY <2>1, <2>2
<1> QED BY <1>1, <1>2, <1>3, <1>4, <1>5, <1>6

\* The session imported is opened as it was answered: the list has it, so the
\* selection stays on it.
LEMMA ImportedShown ==
  ASSUME DetailTypes, NEW snap \in Snap, NEW lst, ShowImported(snap, lst),
         ui.view = "overview" \/ lst.rev[snap.id] # 0
  PROVE  /\ ui' \in Nav /\ load' \in Outcome /\ snapshot' \in {None} \cup Snap
         /\ detailReads' \subseteq DetailRead /\ OneCurrent(detailReads')
         /\ OfSelected(detailReads, load)' /\ (DetailOpen => Honest(detailReads, snapshot, load))'
<1> DEFINE nav == [view |-> "sessions", selected |-> snap.id, preferred |-> snap.id, scope |-> HomeScope(snap.id)]
           was == [id |-> snap.id, status |-> "ready"]
<1>1. /\ snap.id \in Ids /\ nav \in Nav /\ was \in Outcome
      /\ nav.view = "sessions" /\ nav.selected = snap.id /\ nav.scope = HomeScope(snap.id)
      /\ was.id = snap.id /\ was.status = "ready"
  BY DashboardAssumption DEF Snap, Nav, Outcome
<1>2. Enter(nav, lst, snap, Superseded(detailReads), was)
  BY DEF ShowImported
<1>3. /\ Superseded(detailReads) \subseteq DetailRead /\ OneCurrent(Superseded(detailReads))
      /\ \A r \in Superseded(detailReads) : ~r.current
  BY DetailReads, SupersededKeeps DEF DetailTypes
<1>4. snap # None
  BY DashboardAssumption DEF Snap
<1> HIDE DEF nav, was
<1>5. ASSUME NEW n \in Settle(nav, lst), n.selected = ui.selected, n.view = ui.view
      PROVE  Honest(Superseded(detailReads), snap, was)
  <2>1. n.view = "sessions" /\ (nav.selected \in Visible(nav.scope, lst.rev) => n.selected = nav.selected)
    BY <1>1, <1>5, SettleTypes
  <2>2. snap.id \in Visible(HomeScope(snap.id), lst.rev)
    BY <1>1, <1>5, <2>1, DashboardAssumption DEF Visible
  <2>3. ui.selected = snap.id
    BY <1>1, <1>5, <2>1, <2>2
  <2> QED BY <1>1, <1>4, <2>3 DEF Honest
<1>6. OfSelected(Superseded(detailReads), was)
  BY <1>3 DEF OfSelected
<1>7. snap \in {None} \cup Snap /\ ui \in Nav
  BY DEF DetailTypes
<1> QED BY <1>1, <1>2, <1>3, <1>5, <1>6, <1>7, EnterKeepsDetail

LEMMA OpenImportedKeepsDetail == ASSUME DetailInv, OpenImported PROVE DetailInv'
<1>1. imported \in Snap /\ ui.view = "overview" /\ ShowImported(imported, list) /\ UNCHANGED <<importing, imported>>
  BY DEF OpenImported, DetailInv, DetailTypes, imports
<1>2. /\ ui' \in Nav /\ load' \in Outcome /\ snapshot' \in {None} \cup Snap
      /\ detailReads' \subseteq DetailRead /\ OneCurrent(detailReads')
      /\ OfSelected(detailReads, load)' /\ (DetailOpen => Honest(detailReads, snapshot, load))'
  BY <1>1, ImportedShown DEF DetailInv
<1> QED BY <1>1, <1>2 DEF DetailInv, DetailTypes

LEMMA ImportKeepsDetail == ASSUME ListInv, DetailInv, ImportAcknowledged PROVE DetailInv'
<1> DEFINE snap == importing.snap
           lst  == [list EXCEPT !.loaded = TRUE, !.rev[snap.id] = snap.rev]
<1>1. /\ importing.state = "stored" /\ imported' = snap
      /\ IF ui.view = "sessions" THEN ShowImported(snap, lst)
         ELSE Enter(ui, lst, snapshot, detailReads, load)
  BY DEF ImportAcknowledged, ImportAcknowledgedWith
<1>2. snap \in Snap /\ snap.rev # 0
  BY <1>1 DEF ListInv, ListTypes, ImportsKept
<1>3. lst.rev[snap.id] # 0
  BY <1>2 DEF ListInv, ListTypes, Snap
<1> HIDE DEF snap, lst
<1>4. /\ ui' \in Nav /\ load' \in Outcome /\ snapshot' \in {None} \cup Snap
      /\ detailReads' \subseteq DetailRead /\ OneCurrent(detailReads')
      /\ OfSelected(detailReads, load)' /\ (DetailOpen => Honest(detailReads, snapshot, load))'
  <2>1. CASE ui.view = "sessions"
    BY <1>1, <1>2, <1>3, <2>1, ImportedShown DEF DetailInv
  <2>2. CASE ui.view # "sessions"
    BY <1>1, <2>2, EnterKeepsDetail DEF DetailInv, DetailTypes, DetailOpen
  <2> QED BY <2>1, <2>2
<1> QED BY <1>1, <1>2, <1>4 DEF DetailInv, DetailTypes

\* The selection stays; the read of the selected session is joined or begun.
LEMMA SessionRequestKeepsDetail ==
  ASSUME DetailInv, NEW awaited \in BOOLEAN, ui.selected # None,
         RefreshSession(detailReads, ui.selected, load, awaited), UNCHANGED <<ui, snapshot, importing, imported>>
  PROVE  DetailInv'
<1>1. ui.selected \in Ids
  BY DEF DetailInv, DetailTypes, Nav
<1>2. /\ detailReads' \subseteq DetailRead /\ OneCurrent(detailReads')
      /\ load' \in Outcome /\ load'.id = ui.selected /\ load'.status \in {"loading", "error"}
      /\ \A r \in detailReads' : r.current => r.key = ui.selected
      /\ \E r \in detailReads' : r.current /\ r.key = ui.selected
  BY <1>1, SessionRequest DEF DetailInv, DetailTypes
<1>3. DetailTypes'
  BY <1>2 DEF DetailInv, DetailTypes
<1> QED BY <1>2, <1>3 DEF DetailInv, OfSelected, Honest

LEMMA AnswerKeepsDetail == ASSUME ListTypes, DetailInv, AnswerDetail PROVE DetailInv'
<1>1. PICK r \in detailReads :
          r.data = None /\ detailReads' = (detailReads \ {r}) \cup {[r EXCEPT !.data = DetailNow(r.key)]}
  BY DEF AnswerDetail, Answered
<1>2. UNCHANGED <<ui, load, snapshot, importing, imported>>
  BY DEF AnswerDetail, shown, imports
<1> DEFINE a == [r EXCEPT !.data = DetailNow(r.key)]
<1>3. r \in DetailRead /\ r.key \in Ids
  BY DEF DetailInv, DetailTypes, DetailRead, ReadOf
<1>4. DetailNow(r.key) \in Snap /\ DetailNow(r.key).id = r.key
  BY <1>3 DEF DetailNow, Snap, ListTypes
<1>5. a \in DetailRead /\ a.current = r.current /\ a.key = r.key
  BY <1>3, <1>4 DEF DetailRead, ReadOf
<1>6. detailReads' = (detailReads \ {r}) \cup {a}
  BY <1>1
<1> HIDE DEF a
<1>7. DetailTypes'
  BY <1>2, <1>5, <1>6 DEF DetailInv, DetailTypes
<1>8. OneCurrent(detailReads')
  BY <1>5, <1>6 DEF DetailInv, OneCurrent
<1>9. OfSelected(detailReads, load)' /\ (DetailOpen => Honest(detailReads, snapshot, load))'
  BY <1>2, <1>5, <1>6 DEF DetailInv, OfSelected, Honest, DetailOpen
<1> QED BY <1>7, <1>8, <1>9 DEF DetailInv

\* When the read that counts is settled, no other one counts; when another is,
\* the panel and the read it waits for stay.
LEMMA SettledKeepsDetail ==
  ASSUME DetailInv, NEW r \in detailReads, detailReads' = detailReads \ {r},
         UNCHANGED <<ui, importing, imported>>,
         \/ UNCHANGED <<snapshot, load>> /\ ~(r.current /\ r.key = ui.selected)
         \/ /\ r.current /\ load'.id = ui.selected /\ load' \in Outcome
            /\ load'.status \in {"ready", "missing", "error"}
            /\ snapshot' \in {None} \cup Snap
            /\ load'.status = "ready" => snapshot' # None /\ snapshot'.id = ui.selected
  PROVE  DetailInv'
<1>1. DetailTypes'
  BY DEF DetailInv, DetailTypes
<1>2. OneCurrent(detailReads')
  BY DEF DetailInv, OneCurrent
<1>3. CASE UNCHANGED <<snapshot, load>> /\ ~(r.current /\ r.key = ui.selected)
  BY <1>1, <1>2, <1>3 DEF DetailInv, OfSelected, Honest, DetailOpen
<1>4. CASE /\ r.current /\ load'.id = ui.selected
           /\ load'.status \in {"ready", "missing", "error"}
           /\ load'.status = "ready" => snapshot' # None /\ snapshot'.id = ui.selected
  <2>1. \A x \in detailReads' : ~x.current
    BY <1>4 DEF DetailInv, OneCurrent
  <2> QED BY <1>1, <1>2, <1>4, <2>1 DEF DetailInv, OfSelected, Honest, DetailOpen
<1> QED BY <1>3, <1>4

LEMMA CommitKeepsDetail == ASSUME DetailInv, NEW r \in detailReads, CommitDetail(r) PROVE DetailInv'
<1>1. r.data # None /\ detailReads' = detailReads \ {r} /\ UNCHANGED <<ui, importing, imported>>
  BY DEF CommitDetail, imports
<1>2. r.key \in Ids /\ r.data \in Snap /\ r.data.id = r.key
  BY <1>1 DEF DetailInv, DetailTypes, DetailRead, ReadOf
<1>3. CASE r.current /\ r.key = ui.selected
  <2>1. IF r.data.rev = 0 THEN snapshot' = None /\ load' = [id |-> r.key, status |-> "missing"]
        ELSE snapshot' = r.data /\ load' = [id |-> r.key, status |-> "ready"]
    BY <1>3 DEF CommitDetail, ShowDetail
  <2>2. /\ load'.id = ui.selected /\ load' \in Outcome
        /\ load'.status \in {"ready", "missing", "error"} /\ snapshot' \in {None} \cup Snap
        /\ load'.status = "ready" => snapshot' # None /\ snapshot'.id = ui.selected
    BY <1>1, <1>2, <1>3, <2>1 DEF Outcome
  <2> QED BY <1>1, <1>3, <2>2, SettledKeepsDetail
<1>4. CASE ~(r.current /\ r.key = ui.selected)
  <2>1. UNCHANGED <<snapshot, load>>
    BY <1>4 DEF CommitDetail
  <2> QED BY <1>1, <1>4, <2>1, SettledKeepsDetail
<1> QED BY <1>3, <1>4

LEMMA FailureKeepsDetail == ASSUME DetailInv, ReadFails PROVE DetailInv'
<1>1. UNCHANGED <<ui, snapshot, importing, imported>>
  BY DEF ReadFails, imports
<1>2. CASE \E r \in listReads : FailList(r)
  <2>1. UNCHANGED <<load, detailReads>>
    BY <1>2 DEF FailList
  <2> QED BY <1>1, <2>1 DEF DetailInv, DetailTypes, OfSelected, Honest, DetailOpen
<1>3. CASE \E r \in detailReads : FailDetail(r)
  <2>1. PICK r \in detailReads : FailDetail(r)
    BY <1>3
  <2>2. /\ load' = IF r.current /\ r.key = ui.selected THEN [id |-> r.key, status |-> "error"] ELSE load
        /\ detailReads' = detailReads \ {r}
    BY <2>1 DEF FailDetail
  <2>3. CASE r.current /\ r.key = ui.selected
    <3>1. load' = [id |-> r.key, status |-> "error"] /\ r.key \in Ids /\ snapshot \in {None} \cup Snap
      BY <2>2, <2>3 DEF DetailInv, DetailTypes, DetailRead, ReadOf
    <3>2. load'.id = ui.selected /\ load' \in Outcome /\ load'.status = "error"
      BY <2>3, <3>1 DEF Outcome
    <3> QED BY <1>1, <2>2, <2>3, <3>1, <3>2, SettledKeepsDetail
  <2>4. CASE ~(r.current /\ r.key = ui.selected)
    BY <1>1, <2>2, <2>4, SettledKeepsDetail
  <2> QED BY <2>3, <2>4
<1> QED BY <1>2, <1>3 DEF ReadFails

LEMMA InitDetail == Init => DetailInv
<1> SUFFICES ASSUME Init PROVE DetailInv
  OBVIOUS
<1>1. ui \in Nav /\ load \in Outcome
  <2>1. PICK o \in Openings :
            ui = [view |-> o.view, selected |-> o.selected, scope |-> o.scope,
                  preferred |-> IF o.view = "sessions" THEN o.selected ELSE None]
    BY DEF Init
  <2>2. ui \in Nav
    BY <2>1, DashboardAssumption DEF Nav
  <2>3. load = IF DetailOpen THEN [id |-> ui.selected, status |-> "loading"] ELSE [id |-> None, status |-> "none"]
    BY DEF Init
  <2> QED BY <2>2, <2>3 DEF Nav, Outcome
<1>2. snapshot = None /\ imported = None /\ importing.state = "none"
  BY DEF Init
<1>3. CASE DetailOpen
  <2>1. load = [id |-> ui.selected, status |-> "loading"] /\ detailReads = {Request(ui.selected)}
    BY <1>3 DEF Init
  <2>2. ui.selected \in Ids
    BY <1>1, <1>3 DEF Nav, DetailOpen
  <2>3. /\ Request(ui.selected) \in DetailRead
        /\ Request(ui.selected).current /\ Request(ui.selected).key = ui.selected
    BY <2>2 DEF Request, DetailRead, ReadOf
  <2> QED BY <1>1, <1>2, <2>1, <2>3 DEF DetailInv, DetailTypes, OneCurrent, OfSelected, Honest
<1>4. CASE ~DetailOpen
  <2>1. detailReads = {}
    BY <1>4 DEF Init
  <2> QED BY <1>1, <1>2, <1>4, <2>1 DEF DetailInv, DetailTypes, OneCurrent, OfSelected
<1> QED BY <1>3, <1>4

LEMMA StepKeepsDetail == ListInv /\ DetailInv /\ [Next]_vars => DetailInv'
<1> SUFFICES ASSUME ListInv, DetailInv, [Next]_vars PROVE DetailInv'
  OBVIOUS
<1>1. ASSUME UNCHANGED <<ui, load, snapshot, detailReads, imported>>,
             importing'.state = "success" => importing.state = "success"
      PROVE  DetailInv'
  BY <1>1 DEF DetailInv, DetailTypes, OfSelected, Honest, DetailOpen
<1>2. CASE UNCHANGED vars
  BY <1>1, <1>2 DEF vars, shown, reads, imports
<1>3. CASE \/ \E id \in Ids : Select(id)
           \/ OpenSessions \/ OpenOverview
           \/ \E s \in Scopes : SetRange(s) \/ HandleSourceChange(s)
           \/ RestoreNavigation
  <2>1. ui \in Nav
    BY DEF DetailInv, DetailTypes
  <2> QED BY <1>3, <2>1, Navigations, NavigateKeepsDetail
<1>4. CASE OpenImported
  BY <1>4, OpenImportedKeepsDetail
<1>5. CASE RefreshAll \/ Revalidate \/ Retry \/ UpdateAcknowledged
  <2>1. UNCHANGED <<ui, snapshot, importing, imported>>
    BY <1>5 DEF RefreshAll, Revalidate, Retry, UpdateAcknowledged, UpdateAcknowledgedWith, imports
  <2>2. \/ UNCHANGED <<detailReads, load>>
        \/ ui.selected # None /\ \E awaited \in BOOLEAN : RefreshSession(detailReads, ui.selected, load, awaited)
    BY <1>5 DEF RefreshAll, Revalidate, Retry, UpdateAcknowledged, UpdateAcknowledgedWith, DetailOpen
  <2>3. CASE UNCHANGED <<detailReads, load>>
    BY <1>1, <2>1, <2>3
  <2> QED BY <2>1, <2>2, <2>3, SessionRequestKeepsDetail
<1>6. CASE UpdateSend \/ UpdateStored \/ UpdateFails
  BY <1>1, <1>6 DEF UpdateSend, UpdateStored, UpdateFails, shown, reads, imports
<1>7. CASE \E id \in Ids : ChangeSession(id) \/ RemoveSession(id)
  BY <1>1, <1>7 DEF ChangeSession, RemoveSession, shown, reads, imports
<1>8. CASE AnswerList
  BY <1>1, <1>8 DEF AnswerList, shown, imports
<1>9. CASE AnswerDetail
  BY <1>9, AnswerKeepsDetail DEF ListInv
<1>10. CASE SettleList
  <2>1. PICK r \in listReads : CommitList(r)
    BY <1>10 DEF SettleList
  <2>2. UNCHANGED <<importing, imported>>
    BY <2>1 DEF CommitList, imports
  <2>3. CASE r.current
    <3>1. Enter(ui, [loaded |-> TRUE, asOf |-> r.data.asOf, rev |-> r.data.rev], snapshot, detailReads, load)
      BY <2>1, <2>3 DEF CommitList
    <3>2. /\ ui' \in Nav /\ load' \in Outcome /\ snapshot' \in {None} \cup Snap
          /\ detailReads' \subseteq DetailRead /\ OneCurrent(detailReads')
          /\ OfSelected(detailReads, load)' /\ (DetailOpen => Honest(detailReads, snapshot, load))'
      BY <3>1, EnterKeepsDetail DEF DetailInv, DetailTypes
    <3> QED BY <2>2, <3>2 DEF DetailInv, DetailTypes
  <2>4. CASE ~r.current
    <3>1. UNCHANGED <<ui, load, snapshot, detailReads>>
      BY <2>1, <2>4 DEF CommitList, shown
    <3> QED BY <1>1, <2>2, <3>1
  <2> QED BY <2>3, <2>4
<1>11. CASE SettleDetail
  BY <1>11, CommitKeepsDetail DEF SettleDetail
<1>12. CASE ImportAcknowledged
  BY <1>12, ImportKeepsDetail
<1>13. CASE (\E id \in Ids : ImportSend(id)) \/ ImportStored \/ ImportFails
  <2>1. UNCHANGED <<ui, load, snapshot, detailReads, imported>>
    BY <1>13 DEF ImportSend, ImportStored, ImportFails, shown, reads
  <2>2. importing'.state # "success"
    BY <1>13 DEF ImportSend, ImportStored, ImportFails, ListInv, ListTypes
  <2> QED BY <1>1, <2>1, <2>2
<1>14. CASE ReadFails
  BY <1>14, FailureKeepsDetail
<1> QED BY <1>2, <1>3, <1>4, <1>5, <1>6, <1>7, <1>8, <1>9, <1>10, <1>11, <1>12, <1>13, <1>14
        DEF Next, User, Engine, Network, Browser

LEMMA DetailInvAlways == Spec => []DetailInv
<1>1. ListInv /\ DetailInv /\ [Next]_vars => DetailInv'
  BY StepKeepsDetail
<1> QED BY InitDetail, <1>1, ListInvAlways, PTL DEF Spec

-----------------------------------------------------------------------------
(* What the list shows, and what a price update may report. *)

\* The list is loaded and no older than t, or is seen to have failed, or a read
\* under way will bring one; which brings one no older than t.
Reached(t) ==
    /\ (list.loaded /\ list.asOf >= t) \/ listError \/ \E r \in listReads : r.current
    /\ \A r \in listReads : r.current /\ r.data # None => r.data.asOf >= t

LEMMA ListReadsAre == ASSUME ListTypes PROVE AreReads(listReads, {"all"}, ListData)
  BY DEF ListTypes, AreReads, ListRead, ReadOf

LEMMA RequestReaches ==
  ASSUME NEW rs, AreReads(rs, {"all"}, ListData), OneCurrent(rs), NEW t, NEW force \in BOOLEAN, NEW awaited \in BOOLEAN,
         RefreshList(rs, force, awaited),
         force \/ \A r \in rs : r.current /\ r.data # None => r.data.asOf >= t
  PROVE  /\ \E r \in listReads' : r.current
         /\ \A r \in listReads' : r.current /\ r.data # None => r.data.asOf >= t
<1>1. PICK key \in {"all"} : listReads' = Refreshed(rs, key, force, awaited)
  BY DEF RefreshList
<1>2. /\ \E r \in listReads' : r.current
      /\ \A r \in listReads' : r.data # None =>
             \E s \in rs : r.key = s.key /\ r.data = s.data /\ (r.current => ~force /\ s.current)
  BY <1>1, RequestJoins
<1>3. ASSUME NEW r \in listReads', r.current, r.data # None PROVE r.data.asOf >= t
  <2>1. PICK s \in rs : r.data = s.data /\ ~force /\ s.current
    BY <1>2, <1>3
  <2> QED BY <1>3, <2>1
<1> QED BY <1>2, <1>3

\* A read that ends shows what it brought, or that it failed; or another counts.
LEMMA CommitReaches ==
  ASSUME ListInv, NEW t \in Nat, Reached(t), NEW r \in listReads, CommitList(r)
  PROVE  Reached(t)'
<1>1. r.data # None /\ listReads' = listReads \ {r}
  BY DEF CommitList
<1>2. CASE r.current
  <2>1. list' = [loaded |-> TRUE, asOf |-> r.data.asOf, rev |-> r.data.rev]
    BY <1>2, EnterSetsList DEF CommitList
  <2>2. r.data.asOf >= t
    BY <1>1, <1>2 DEF Reached
  <2>3. \A s \in listReads' : ~s.current
    BY <1>1, <1>2 DEF ListInv, ReadsFresh, OneCurrent
  <2> QED BY <2>1, <2>2, <2>3 DEF Reached
<1>3. CASE ~r.current
  <2>1. UNCHANGED <<list, listError>>
    BY <1>3 DEF CommitList, shown
  <2> QED BY <1>1, <1>3, <2>1 DEF Reached
<1> QED BY <1>2, <1>3

LEMMA StepReaches ==
  ASSUME ListInv, NEW t \in Nat, t <= engine.clock, Reached(t), [Next]_vars
  PROVE  Reached(t)'
<1>1. ASSUME UNCHANGED <<list, listError, listReads>> PROVE Reached(t)'
  BY <1>1 DEF Reached
<1>2. CASE UNCHANGED vars
  BY <1>1, <1>2 DEF vars, shown, reads
<1>3. CASE \/ \E id \in Ids : Select(id)
           \/ OpenSessions \/ OpenOverview
           \/ \E s \in Scopes : SetRange(s) \/ HandleSourceChange(s)
           \/ RestoreNavigation
  <2>1. PICK n : Navigate(n)
    BY <1>3 DEF Select, OpenSessions, OpenOverview, SetRange, HandleSourceChange, RestoreNavigation
  <2> QED BY <1>1, <2>1, EnterSetsList DEF Navigate
<1>4. CASE OpenImported
  BY <1>1, <1>4, EnterSetsList DEF OpenImported, ShowImported
<1>5. CASE RefreshAll \/ Revalidate \/ Retry \/ UpdateAcknowledged
  <2>1. UNCHANGED <<list, listError>>
    BY <1>5 DEF RefreshAll, Revalidate, Retry, UpdateAcknowledged, UpdateAcknowledgedWith
  <2>2. UNCHANGED listReads \/ \E force, awaited \in BOOLEAN : RefreshList(listReads, force, awaited)
    BY <1>5 DEF RefreshAll, Revalidate, Retry, UpdateAcknowledged, UpdateAcknowledgedWith
  <2>3. CASE \E force, awaited \in BOOLEAN : RefreshList(listReads, force, awaited)
    <3>1. PICK force \in BOOLEAN, awaited \in BOOLEAN : RefreshList(listReads, force, awaited)
      BY <2>3
    <3>2. /\ \E r \in listReads' : r.current
          /\ \A r \in listReads' : r.current /\ r.data # None => r.data.asOf >= t
      BY <3>1, ListReadsAre, RequestReaches DEF Reached, ListInv, ReadsFresh
    <3> QED BY <3>2 DEF Reached
  <2> QED BY <1>1, <2>1, <2>2, <2>3
<1>6. CASE UpdateSend \/ UpdateStored \/ UpdateFails
  BY <1>1, <1>6 DEF UpdateSend, UpdateStored, UpdateFails, shown, reads
<1>7. CASE \E id \in Ids : ChangeSession(id) \/ RemoveSession(id)
  BY <1>1, <1>7 DEF ChangeSession, RemoveSession, shown, reads
<1>8. CASE AnswerList
  <2>1. PICK r \in listReads :
            r.data = None /\ listReads' = (listReads \ {r}) \cup {[r EXCEPT !.data = ListNow]}
    BY <1>8 DEF AnswerList, Answered
  <2>2. UNCHANGED <<list, listError>>
    BY <1>8 DEF AnswerList, shown
  <2> DEFINE a == [r EXCEPT !.data = ListNow]
  <2>3. a.current = r.current /\ a.data = ListNow
    BY DEF ListInv, ListTypes, ListRead
  <2>4. listReads' = (listReads \ {r}) \cup {a} /\ ListNow.asOf >= t
    BY <2>1 DEF ListNow, ListInv, ListTypes
  <2> HIDE DEF a
  <2> QED BY <2>2, <2>3, <2>4 DEF Reached
<1>9. CASE AnswerDetail \/ SettleDetail
  BY <1>1, <1>9 DEF AnswerDetail, SettleDetail, CommitDetail, shown
<1>10. CASE SettleList
  BY <1>10, CommitReaches DEF SettleList
<1>11. CASE ImportAcknowledged
  <2> DEFINE retired == Superseded(listReads)
  <2>1. RefreshList(retired, FALSE, FALSE)
    BY <1>11 DEF ImportAcknowledged, ImportAcknowledgedWith
  <2>2. \A r \in retired : ~r.current
    BY SupersededReads DEF ListInv, ListTypes
  <2>3. AreReads(retired, {"all"}, ListData) /\ OneCurrent(retired)
    <3>1. listReads \subseteq ReadOf({"all"}, ListData)
      BY ListReadsAre DEF ListInv, AreReads
    <3> QED BY <2>2, <3>1, SupersededKeeps DEF AreReads, OneCurrent
  <2> HIDE DEF retired
  <2>4. /\ \E r \in listReads' : r.current
        /\ \A r \in listReads' : r.current /\ r.data # None => r.data.asOf >= t
    BY <2>1, <2>2, <2>3, RequestReaches
  <2> QED BY <2>4 DEF Reached
<1>12. CASE (\E id \in Ids : ImportSend(id)) \/ ImportStored \/ ImportFails
  BY <1>1, <1>12 DEF ImportSend, ImportStored, ImportFails, shown, reads
<1>13. CASE ReadFails
  <2>1. UNCHANGED list
    BY <1>13 DEF ReadFails
  <2>2. CASE \E r \in listReads : FailList(r)
    BY <2>1, <2>2 DEF FailList, Reached
  <2>3. CASE \E r \in detailReads : FailDetail(r)
    BY <1>1, <2>1, <2>3 DEF FailDetail
  <2> QED BY <1>13, <2>2, <2>3 DEF ReadFails
<1> QED BY <1>2, <1>3, <1>4, <1>5, <1>6, <1>7, <1>8, <1>9, <1>10, <1>11, <1>12, <1>13
        DEF Next, User, Engine, Network, Browser

LEMMA InitReaches == Init => Reached(0)
  BY DEF Init, Reached, Request

LEMMA ListAlwaysComes == Spec => []Reached(0)
<1>1. ListInv /\ Reached(0) /\ [Next]_vars => Reached(0)'
  BY StepReaches DEF ListInv, ListTypes
<1> QED BY InitReaches, <1>1, ListInvAlways, PTL DEF Spec

\* A panel that shows that it is loading has a read under way behind it, and a
\* session reported as read is the one on display, however navigation, reads
\* that overlap, imports and failures interleave (App.tsx refreshSession,
\* openImportedSession, handleImport).
THEOREM LoadingIsRealAlways == Spec => []LoadingIsReal
<1>1. DetailInv /\ Reached(0) => LoadingIsReal
  BY DEF DetailInv, OfSelected, Honest, Reached, LoadingIsReal
<1> QED BY <1>1, DetailInvAlways, ListAlwaysComes, PTL

-----------------------------------------------------------------------------
(* Price updates. *)

Awaits(rs) == \E r \in rs : r.awaited

\* At most one read of a kind is waited for, by the update that waits for that
\* kind; the update that reports success has ended.
UpdateTypes ==
    /\ update \in [state : {"none", "sent", "stored", "reading"}, at : Nat,
                   waiting : SUBSET {"list", "detail"}, failed : BOOLEAN]
    /\ notice \in {"none", "pending", "all", "partial", "error"}
    /\ update.at <= engine.clock
    /\ notice = "all" => update.state = "none"
    /\ Lone(listReads) /\ (Awaits(listReads) => update.state = "reading" /\ "list" \in update.waiting)
    /\ Lone(detailReads) /\ (Awaits(detailReads) => update.state = "reading" /\ "detail" \in update.waiting)

UpdateReaches == update.state = "reading" \/ notice = "all" => Reached(update.at)

UpdateInv == UpdateTypes /\ UpdateReaches

\* Reads that await nothing that was not awaited before.
Follows(new, rs) == (Lone(rs) => Lone(new)) /\ (Awaits(new) => Awaits(rs))

LEMMA SupersededFollows ==
  ASSUME NEW K, NEW D, NEW rs, AreReads(rs, K, D)
  PROVE  Follows(Superseded(rs), rs)
  BY SupersededKeeps DEF AreReads, Follows, Awaits

LEMMA RequestFollows ==
  ASSUME NEW K, NEW D, NEW rs, AreReads(rs, K, D), OneCurrent(rs), NEW key \in K, NEW force \in BOOLEAN
  PROVE  Follows(Refreshed(rs, key, force, FALSE), rs)
<1>1. PICK awaited \in BOOLEAN : ~awaited /\ Refreshed(rs, key, force, FALSE) = Refreshed(rs, key, force, awaited)
  OBVIOUS
<1>2. /\ \A r \in Refreshed(rs, key, force, awaited) : r.awaited => (awaited /\ r.current) \/ \E s \in rs : s.awaited
      /\ Lone(rs) /\ (awaited => \A s \in rs : ~s.awaited) => Lone(Refreshed(rs, key, force, awaited))
  BY RequestJoins
<1> QED BY <1>1, <1>2 DEF Follows, Awaits

LEMMA DetailReadsAre == ASSUME NEW rs, rs \subseteq DetailRead PROVE AreReads(rs, Ids, Snap)
  BY DEF DetailRead, AreReads

LEMMA SessionRequestFollows ==
  ASSUME NEW rs, rs \subseteq DetailRead, OneCurrent(rs), NEW id \in Ids, NEW was, RefreshSession(rs, id, was, FALSE)
  PROVE  Follows(detailReads', rs)
  BY DetailReadsAre, RequestFollows DEF RefreshSession

LEMMA EnterFollows ==
  ASSUME NEW nav \in Nav, NEW lst, NEW snap, NEW rs, rs \subseteq DetailRead, OneCurrent(rs), NEW was,
         Enter(nav, lst, snap, rs, was)
  PROVE  Follows(detailReads', rs)
<1>1. PICK n \in Settle(nav, lst) :
          \/ detailReads' = rs
          \/ n.selected # None /\ RefreshSession(rs, n.selected, was, FALSE)
          \/ detailReads' = Superseded(rs)
  BY DEF Enter
<1>2. CASE n.selected # None /\ RefreshSession(rs, n.selected, was, FALSE)
  <2>1. n.selected \in Ids
    BY <1>2, SettleTypes DEF Nav
  <2> QED BY <1>2, <2>1, SessionRequestFollows
<1>3. CASE detailReads' = rs
  BY <1>3 DEF Follows
<1>4. CASE detailReads' = Superseded(rs)
  BY <1>4, DetailReadsAre, SupersededFollows
<1> QED BY <1>1, <1>2, <1>3, <1>4

\* A step that leaves the update alone, and awaits no more reads.
LEMMA UpdateWaits ==
  ASSUME UpdateTypes, UNCHANGED pricing, Follows(listReads', listReads), Follows(detailReads', detailReads),
         update.at <= engine'.clock
  PROVE  UpdateTypes'
  BY DEF UpdateTypes, Follows, pricing

\* A read that ends, awaited or not, and what the update then waits for.
LEMMA SettledKeepsUpdate ==
  ASSUME UpdateTypes, UNCHANGED engine, NEW ok \in BOOLEAN, NEW r,
         \/ /\ r \in listReads /\ listReads' = listReads \ {r} /\ Settled("list", r, ok)
            /\ Follows(detailReads', detailReads)
         \/ /\ r \in detailReads /\ detailReads' = detailReads \ {r} /\ Settled("detail", r, ok)
            /\ Follows(listReads', listReads)
  PROVE  UpdateTypes' /\ update'.at = update.at
                      /\ (update'.state = "reading" \/ notice' = "all" => update.state = "reading" \/ notice = "all")
<1>1. PICK kind \in {"list", "detail"} :
          /\ Settled(kind, r, ok)
          /\ kind = "list" => r \in listReads /\ listReads' = listReads \ {r} /\ Follows(detailReads', detailReads)
          /\ kind = "detail" => r \in detailReads /\ detailReads' = detailReads \ {r} /\ Follows(listReads', listReads)
  OBVIOUS
<1>2. Follows(listReads', listReads) /\ Follows(detailReads', detailReads)
  BY <1>1 DEF Follows, Lone, Awaits
<1>3. CASE ~r.awaited
  <2>1. UNCHANGED pricing
    BY <1>1, <1>3 DEF Settled
  <2>2. UpdateTypes'
    BY <1>2, <2>1, UpdateWaits DEF UpdateTypes
  <2> QED BY <2>1, <2>2 DEF pricing
<1>4. CASE r.awaited
  <2> DEFINE left == update.waiting \ {kind}
             bad  == update.failed \/ ~ok
  <2>1. update.state = "reading"
    BY <1>1, <1>4 DEF UpdateTypes, Awaits
  <2>2. /\ update' = [update EXCEPT !.waiting = left, !.failed = bad, !.state = IF left = {} THEN "none" ELSE @]
        /\ notice' = IF left # {} THEN notice ELSE IF bad THEN "partial" ELSE "all"
    BY <1>1, <1>4 DEF Settled
  <2>3. update.state \in {"none", "sent", "stored", "reading"} /\ update.at \in Nat /\ update.waiting \in SUBSET {"list", "detail"}
        /\ update.failed \in BOOLEAN
    BY DEF UpdateTypes
  <2>4. left \in SUBSET {"list", "detail"} /\ bad \in BOOLEAN
    BY <2>3
  <2> HIDE DEF left, bad
  <2>5. /\ update'.state = (IF left = {} THEN "none" ELSE update.state) /\ update'.at = update.at
        /\ update'.waiting = left
        /\ update' \in [state : {"none", "sent", "stored", "reading"}, at : Nat,
                        waiting : SUBSET {"list", "detail"}, failed : BOOLEAN]
    BY <2>2, <2>3, <2>4 DEF UpdateTypes
  <2>6. kind = "list" => ~Awaits(listReads') /\ (Awaits(detailReads') => "detail" \in left)
    BY <1>1, <1>2, <1>4 DEF UpdateTypes, Lone, Awaits, Follows, left
  <2>7. kind = "detail" => ~Awaits(detailReads') /\ (Awaits(listReads') => "list" \in left)
    BY <1>1, <1>2, <1>4 DEF UpdateTypes, Lone, Awaits, Follows, left
  <2>8. /\ Awaits(listReads') => update'.state = "reading" /\ "list" \in update'.waiting
        /\ Awaits(detailReads') => update'.state = "reading" /\ "detail" \in update'.waiting
    BY <2>1, <2>5, <2>6, <2>7
  <2>9. Lone(listReads') /\ Lone(detailReads')
    BY <1>2 DEF UpdateTypes, Follows
  <2>10. /\ notice' \in {"none", "pending", "all", "partial", "error"}
         /\ notice' = "all" => update'.state = "none"
    BY <2>1, <2>2, <2>5 DEF UpdateTypes
  <2>11. update'.at <= engine'.clock
    BY <2>5 DEF UpdateTypes
  <2> QED BY <2>1, <2>5, <2>8, <2>9, <2>10, <2>11 DEF UpdateTypes
<1> QED BY <1>3, <1>4

\* The reads an acknowledged update begins are the only ones awaited, and that of
\* the list starts anew.
LEMMA AcknowledgedKeepsUpdate ==
  ASSUME ListInv, DetailInv, UpdateTypes, UpdateAcknowledged
  PROVE  UpdateInv'
<1>1. update.state = "stored" /\ RefreshList(listReads, TRUE, TRUE) /\ UNCHANGED <<engine, list, listError, notice>>
  BY DEF UpdateAcknowledged, UpdateAcknowledgedWith
<1>2. ~Awaits(listReads) /\ ~Awaits(detailReads) /\ notice # "all"
  BY <1>1 DEF UpdateTypes
<1>3. PICK bad \in BOOLEAN :
          update' = [update EXCEPT !.state = "reading", !.failed = bad,
                         !.waiting = {"list"} \cup (IF DetailOpen THEN {"detail"} ELSE {})]
  BY DEF UpdateAcknowledged, UpdateAcknowledgedWith
<1>4. /\ update'.state = "reading" /\ update'.at = update.at
      /\ "list" \in update'.waiting /\ (DetailOpen => "detail" \in update'.waiting)
      /\ update' \in [state : {"none", "sent", "stored", "reading"}, at : Nat,
                      waiting : SUBSET {"list", "detail"}, failed : BOOLEAN]
  BY <1>3 DEF UpdateTypes
<1>5. Lone(listReads')
  <2>1. AreReads(listReads, {"all"}, ListData) /\ OneCurrent(listReads)
    BY ListReadsAre DEF ListInv, ReadsFresh
  <2>2. PICK key \in {"all"}, force \in BOOLEAN, awaited \in BOOLEAN : listReads' = Refreshed(listReads, key, force, awaited)
    BY <1>1 DEF RefreshList
  <2>3. Lone(listReads) /\ \A s \in listReads : ~s.awaited
    BY <1>2 DEF UpdateTypes, Awaits
  <2> QED BY <2>1, <2>2, <2>3, RequestJoins
<1>6. Lone(detailReads') /\ (Awaits(detailReads') => DetailOpen)
  <2>1. CASE DetailOpen
    <3>1. AreReads(detailReads, Ids, Snap) /\ OneCurrent(detailReads)
      BY DetailReadsAre DEF DetailInv, DetailTypes
    <3>2. ui.selected \in Ids
      BY <2>1 DEF DetailOpen, DetailInv, DetailTypes, Nav
    <3>3. PICK force \in BOOLEAN, awaited \in BOOLEAN : detailReads' = Refreshed(detailReads, ui.selected, force, awaited)
      BY <2>1 DEF UpdateAcknowledged, UpdateAcknowledgedWith, RefreshSession
    <3>4. Lone(detailReads) /\ \A s \in detailReads : ~s.awaited
      BY <1>2 DEF UpdateTypes, Awaits
    <3> QED BY <2>1, <3>1, <3>2, <3>3, <3>4, RequestJoins
  <2>2. CASE ~DetailOpen
    BY <1>2, <2>2 DEF UpdateAcknowledged, UpdateAcknowledgedWith, UpdateTypes
  <2> QED BY <2>1, <2>2
<1>7. UpdateTypes'
  BY <1>1, <1>2, <1>4, <1>5, <1>6 DEF UpdateTypes
<1>8. Reached(update.at)'
  <2>1. AreReads(listReads, {"all"}, ListData) /\ OneCurrent(listReads)
    BY ListReadsAre DEF ListInv, ReadsFresh
  <2>2. PICK force \in BOOLEAN, awaited \in BOOLEAN : force /\ RefreshList(listReads, force, awaited)
    BY <1>1
  <2>3. /\ \E r \in listReads' : r.current
        /\ \A r \in listReads' : r.current /\ r.data # None => r.data.asOf >= update'.at
    BY <2>1, <2>2, RequestReaches
  <2> QED BY <2>3 DEF Reached
<1> QED BY <1>7, <1>8 DEF UpdateInv, UpdateReaches

LEMMA InitUpdate == Init => UpdateInv
<1> SUFFICES ASSUME Init PROVE UpdateInv
  OBVIOUS
<1>1. /\ update = [state |-> "none", at |-> 0, waiting |-> {}, failed |-> FALSE] /\ notice = "none"
      /\ listReads = {Request("all")} /\ engine.clock = 1
      /\ detailReads = {Request(ui.selected)} \/ detailReads = {}
  BY DEF Init
<1>2. ~Awaits(listReads) /\ ~Awaits(detailReads) /\ Lone(listReads) /\ Lone(detailReads)
  BY <1>1 DEF Awaits, Lone, Request
<1> QED BY <1>1, <1>2 DEF UpdateInv, UpdateTypes, UpdateReaches

\* The reads of the list that are begun without an update to report.
LEMMA ListFollows ==
  ASSUME ListInv, NEW force \in BOOLEAN,
         RefreshList(listReads, force, FALSE) \/ RefreshList(Superseded(listReads), force, FALSE)
  PROVE  Follows(listReads', listReads)
<1>1. PICK key \in {"all"} : \/ listReads' = Refreshed(listReads, key, force, FALSE)
                             \/ listReads' = Refreshed(Superseded(listReads), key, force, FALSE)
  BY DEF RefreshList
<1>2. AreReads(listReads, {"all"}, ListData) /\ OneCurrent(listReads)
  BY ListReadsAre DEF ListInv, ReadsFresh
<1>3. AreReads(Superseded(listReads), {"all"}, ListData) /\ OneCurrent(Superseded(listReads))
  BY <1>2, SupersededKeeps DEF AreReads, OneCurrent
<1>4. Follows(Superseded(listReads), listReads)
  BY <1>2, SupersededFollows
<1>5. CASE listReads' = Refreshed(listReads, key, force, FALSE)
  BY <1>2, <1>5, RequestFollows
<1>6. CASE listReads' = Refreshed(Superseded(listReads), key, force, FALSE)
  <2>1. Follows(listReads', Superseded(listReads))
    BY <1>3, <1>6, RequestFollows
  <2> QED BY <1>4, <2>1 DEF Follows
<1> QED BY <1>1, <1>5, <1>6

LEMMA DetailFollows ==
  ASSUME DetailInv,
         UNCHANGED detailReads \/ (ui.selected # None /\ RefreshSession(detailReads, ui.selected, load, FALSE))
  PROVE  Follows(detailReads', detailReads)
<1>1. CASE UNCHANGED detailReads
  BY <1>1 DEF Follows
<1>2. CASE ui.selected # None /\ RefreshSession(detailReads, ui.selected, load, FALSE)
  <2>1. ui.selected \in Ids
    BY <1>2 DEF DetailInv, DetailTypes, Nav
  <2> QED BY <1>2, <2>1, SessionRequestFollows DEF DetailInv, DetailTypes
<1> QED BY <1>1, <1>2

LEMMA ShowImportedFollows ==
  ASSUME DetailInv, NEW snap \in Snap, NEW lst, ShowImported(snap, lst)
  PROVE  Follows(detailReads', detailReads)
<1> DEFINE nav == [view |-> "sessions", selected |-> snap.id, preferred |-> snap.id, scope |-> HomeScope(snap.id)]
<1>1. nav \in Nav
  BY DashboardAssumption DEF Nav, Snap
<1>2. Enter(nav, lst, snap, Superseded(detailReads), [id |-> snap.id, status |-> "ready"])
  BY DEF ShowImported
<1> HIDE DEF nav
<1>3. Superseded(detailReads) \subseteq DetailRead /\ OneCurrent(Superseded(detailReads))
  BY DetailReads DEF DetailInv, DetailTypes
<1>4. Follows(detailReads', Superseded(detailReads))
  BY <1>1, <1>2, <1>3, EnterFollows
<1>5. Follows(Superseded(detailReads), detailReads)
  BY DetailReadsAre, SupersededFollows DEF DetailInv, DetailTypes
<1> QED BY <1>4, <1>5 DEF Follows

\* The answer of a read is awaited as its request was.
LEMMA AnswerFollows ==
  ASSUME NEW K, NEW D, NEW rs, AreReads(rs, K, D), NEW r \in rs, NEW data
  PROVE  Follows(Answered(rs, r, data), rs)
<1> DEFINE a == [r EXCEPT !.data = data]
<1>1. a.awaited = r.awaited
  BY DEF AreReads, ReadOf
<1>2. Answered(rs, r, data) = (rs \ {r}) \cup {a}
  BY DEF Answered
<1> HIDE DEF a
<1> QED BY <1>1, <1>2 DEF Follows, Lone, Awaits

LEMMA StepKeepsUpdate == ListInv /\ DetailInv /\ UpdateInv /\ [Next]_vars => UpdateInv'
<1> SUFFICES ASSUME ListInv, DetailInv, UpdateInv, [Next]_vars PROVE UpdateInv'
  OBVIOUS
<1>0. /\ UpdateTypes /\ update.at \in Nat /\ update.at <= engine.clock /\ engine.clock \in Nat
      /\ ui \in Nav /\ detailReads \subseteq DetailRead /\ OneCurrent(detailReads)
  BY DEF UpdateInv, UpdateTypes, ListInv, ListTypes, DetailInv, DetailTypes
<1>1. ASSUME UpdateTypes', update'.at = update.at,
             update'.state = "reading" \/ notice' = "all" => update.state = "reading" \/ notice = "all"
      PROVE  UpdateInv'
  <2>1. Reached(update.at) => \A t : t = update.at => Reached(t)'
    BY <1>0, StepReaches
  <2>2. Reached(update.at) => Reached(update.at)'
    BY <1>1, <2>1 DEF Reached
  <2> QED BY <1>1, <2>2 DEF UpdateInv, UpdateReaches
<1>2. ASSUME UNCHANGED pricing, Follows(listReads', listReads), Follows(detailReads', detailReads),
             UNCHANGED engine \/ engine'.clock = engine.clock + 1
      PROVE  UpdateInv'
  <2>1. update.at <= engine'.clock
    BY <1>0, <1>2
  <2>2. UpdateTypes'
    BY <1>0, <1>2, <2>1, UpdateWaits
  <2> QED BY <1>1, <1>2, <2>2 DEF pricing
<1>3. /\ UNCHANGED listReads => Follows(listReads', listReads)
      /\ UNCHANGED detailReads => Follows(detailReads', detailReads)
  BY DEF Follows
<1>4. CASE UNCHANGED vars
  BY <1>2, <1>3, <1>4 DEF vars, reads
<1>5. CASE \/ \E id \in Ids : Select(id)
           \/ OpenSessions \/ OpenOverview
           \/ \E s \in Scopes : SetRange(s) \/ HandleSourceChange(s)
           \/ RestoreNavigation
  <2>1. PICK nav \in Nav : Navigate(nav)
    BY <1>0, <1>5, Navigations
  <2>2. Follows(detailReads', detailReads)
    BY <1>0, <2>1, EnterFollows DEF Navigate
  <2> QED BY <1>2, <1>3, <2>1, <2>2 DEF Navigate
<1>6. CASE OpenImported
  <2>1. imported \in Snap /\ ShowImported(imported, list) /\ UNCHANGED <<engine, listReads, pricing>>
    BY <1>6 DEF OpenImported, DetailInv, DetailTypes
  <2> QED BY <1>2, <1>3, <2>1, ShowImportedFollows
<1>7. CASE RefreshAll \/ Revalidate \/ Retry
  <2>1. UNCHANGED <<engine, pricing>>
    BY <1>7 DEF RefreshAll, Revalidate, Retry
  <2>2. UNCHANGED listReads \/ \E force \in BOOLEAN : RefreshList(listReads, force, FALSE)
    BY <1>7 DEF RefreshAll, Revalidate, Retry
  <2>3. UNCHANGED detailReads \/ (ui.selected # None /\ RefreshSession(detailReads, ui.selected, load, FALSE))
    BY <1>7 DEF RefreshAll, Revalidate, Retry, DetailOpen
  <2>4. Follows(listReads', listReads) /\ Follows(detailReads', detailReads)
    BY <1>3, <2>2, <2>3, ListFollows, DetailFollows
  <2> QED BY <1>2, <2>1, <2>4
<1>8. CASE UpdateSend
  <2>1. /\ update' = [update EXCEPT !.state = "sent"] /\ notice' = "pending" /\ update.state = "none"
        /\ UNCHANGED <<engine, listReads, detailReads>>
    BY <1>8 DEF UpdateSend, reads
  <2> QED BY <2>1 DEF UpdateInv, UpdateTypes, UpdateReaches
<1>9. CASE UpdateStored
  <2>1. /\ update' = [update EXCEPT !.state = "stored", !.at = engine.clock + 1] /\ update.state = "sent"
        /\ UNCHANGED <<notice, listReads, detailReads>> /\ \E ids : Changed(ids)
    BY <1>9 DEF UpdateStored, reads
  <2>2. engine'.clock = engine.clock + 1
    BY <2>1, ChangeOfEngine DEF ListInv
  <2> DEFINE now == engine.clock + 1
  <2>3. /\ update'.state = "stored" /\ update'.at = now
        /\ update' \in [state : {"none", "sent", "stored", "reading"}, at : Nat,
                        waiting : SUBSET {"list", "detail"}, failed : BOOLEAN]
    <3>1. now \in Nat /\ update' = [update EXCEPT !.state = "stored", !.at = now]
      BY <1>0, <2>1
    <3>2. update \in [state : {"none", "sent", "stored", "reading"}, at : Nat,
                       waiting : SUBSET {"list", "detail"}, failed : BOOLEAN]
      BY <1>0 DEF UpdateTypes
    <3> HIDE DEF now
    <3> QED BY <3>1, <3>2
  <2>4. notice # "all" /\ ~Awaits(listReads) /\ ~Awaits(detailReads) /\ Lone(listReads) /\ Lone(detailReads)
    BY <1>0, <2>1 DEF UpdateTypes
  <2>5. ~Awaits(listReads') /\ ~Awaits(detailReads') /\ Lone(listReads') /\ Lone(detailReads')
    BY <2>1, <2>4
  <2>6. update'.at <= engine'.clock /\ notice' # "all" /\ notice' \in {"none", "pending", "all", "partial", "error"}
    BY <1>0, <2>1, <2>2, <2>3, <2>4 DEF UpdateTypes
  <2> QED BY <2>3, <2>5, <2>6 DEF UpdateInv, UpdateTypes, UpdateReaches
<1>10. CASE UpdateFails
  <2>1. /\ update' = [update EXCEPT !.state = "none"] /\ notice' = "error" /\ update.state \in {"sent", "stored"}
        /\ UNCHANGED <<engine, listReads, detailReads>>
    BY <1>10 DEF UpdateFails, reads
  <2> QED BY <2>1 DEF UpdateInv, UpdateTypes, UpdateReaches
<1>11. CASE UpdateAcknowledged
  BY <1>0, <1>11, AcknowledgedKeepsUpdate
<1>12. CASE \E id \in Ids : ChangeSession(id) \/ RemoveSession(id)
  <2>1. UNCHANGED <<listReads, detailReads, pricing>>
    BY <1>12 DEF ChangeSession, RemoveSession, reads
  <2>2. engine'.clock = engine.clock + 1
    BY <1>12, ChangeOfEngine DEF ChangeSession, RemoveSession, ListInv, ListTypes
  <2> QED BY <1>2, <1>3, <2>1, <2>2
<1>13. CASE AnswerList
  <2>1. Follows(listReads', listReads)
    BY <1>13, ListReadsAre, AnswerFollows DEF AnswerList, ListInv
  <2> QED BY <1>2, <1>3, <1>13, <2>1 DEF AnswerList
<1>14. CASE AnswerDetail
  <2>1. Follows(detailReads', detailReads)
    BY <1>0, <1>14, DetailReadsAre, AnswerFollows DEF AnswerDetail
  <2> QED BY <1>2, <1>3, <1>14, <2>1 DEF AnswerDetail
<1>15. CASE SettleList
  <2>1. PICK r \in listReads : CommitList(r)
    BY <1>15 DEF SettleList
  <2>2. Follows(detailReads', detailReads)
    BY <1>0, <1>3, <2>1, EnterFollows DEF CommitList
  <2>3. PICK ok \in BOOLEAN : Settled("list", r, ok)
    BY <2>1 DEF CommitList
  <2>4. listReads' = listReads \ {r} /\ UNCHANGED engine
    BY <2>1 DEF CommitList
  <2> QED BY <1>0, <1>1, <2>2, <2>3, <2>4, SettledKeepsUpdate
<1>16. CASE SettleDetail
  <2>1. PICK r \in detailReads, ok \in BOOLEAN :
            Settled("detail", r, ok) /\ detailReads' = detailReads \ {r} /\ UNCHANGED <<engine, listReads>>
    BY <1>16 DEF SettleDetail, CommitDetail
  <2> QED BY <1>0, <1>1, <1>3, <2>1, SettledKeepsUpdate
<1>17. CASE ReadFails
  <2>1. UNCHANGED engine
    BY <1>17 DEF ReadFails
  <2>2. CASE \E r \in listReads : FailList(r)
    <3>1. PICK r \in listReads, ok \in BOOLEAN :
              Settled("list", r, ok) /\ listReads' = listReads \ {r} /\ UNCHANGED detailReads
      BY <2>2 DEF FailList
    <3> QED BY <1>0, <1>1, <1>3, <2>1, <3>1, SettledKeepsUpdate
  <2>3. CASE \E r \in detailReads : FailDetail(r)
    <3>1. PICK r \in detailReads, ok \in BOOLEAN :
              Settled("detail", r, ok) /\ detailReads' = detailReads \ {r} /\ UNCHANGED listReads
      BY <2>3 DEF FailDetail
    <3> QED BY <1>0, <1>1, <1>3, <2>1, <3>1, SettledKeepsUpdate
  <2> QED BY <1>17, <2>2, <2>3 DEF ReadFails
<1>18. CASE ImportAcknowledged
  <2>1. /\ RefreshList(Superseded(listReads), FALSE, FALSE) /\ UNCHANGED <<engine, pricing>>
        /\ importing.state = "stored"
    BY <1>18 DEF ImportAcknowledged, ImportAcknowledgedWith
  <2>2. importing.snap \in Snap
    BY <2>1 DEF ListInv, ListTypes
  <2>3. \/ \E lst : ShowImported(importing.snap, lst)
        \/ \E lst : Enter(ui, lst, snapshot, detailReads, load)
    BY <1>18 DEF ImportAcknowledged, ImportAcknowledgedWith
  <2>4. Follows(detailReads', detailReads)
    BY <1>0, <2>2, <2>3, ShowImportedFollows, EnterFollows
  <2>5. Follows(listReads', listReads)
    BY <2>1, ListFollows
  <2> QED BY <1>2, <2>1, <2>4, <2>5
<1>19. CASE (\E id \in Ids : ImportSend(id)) \/ ImportStored \/ ImportFails
  <2>1. UNCHANGED <<listReads, detailReads, pricing>>
    BY <1>19 DEF ImportSend, ImportStored, ImportFails, reads
  <2>2. UNCHANGED engine \/ \E ids : Changed(ids)
    BY <1>19 DEF ImportSend, ImportStored, ImportFails
  <2>3. UNCHANGED engine \/ engine'.clock = engine.clock + 1
    BY <2>2, ChangeOfEngine DEF ListInv
  <2> QED BY <1>2, <1>3, <2>1, <2>3
<1> QED BY <1>4, <1>5, <1>6, <1>7, <1>8, <1>9, <1>10, <1>11, <1>12, <1>13, <1>14, <1>15, <1>16, <1>17, <1>18, <1>19
        DEF Next, User, Engine, Network, Browser

LEMMA UpdateInvAlways == Spec => []UpdateInv
<1>1. ListInv /\ DetailInv /\ UpdateInv /\ [Next]_vars => UpdateInv'
  BY StepKeepsUpdate
<1> QED BY InitUpdate, <1>1, ListInvAlways, DetailInvAlways, PTL DEF Spec

\* A price update that reports success for everything leaves no older list
\* behind, unless a newer read of it is under way or has failed: it does not
\* report on a read answered before the prices changed (App.tsx updateModelPrices).
THEOREM UpdateReachesListAlways == Spec => []UpdateReachesList
<1>1. UpdateInv => UpdateReachesList
  BY DEF UpdateInv, UpdateReaches, Reached, UpdateReachesList
<1> QED BY <1>1, UpdateInvAlways, PTL

-----------------------------------------------------------------------------
(* Types. *)

ErrorType == listError \in BOOLEAN

LEMMA ErrorStep == ListInv /\ ErrorType /\ [Next]_vars => ErrorType'
<1> SUFFICES ASSUME ListInv, listError \in BOOLEAN, [Next]_vars PROVE listError' \in BOOLEAN
  BY DEF ErrorType
<1>1. UNCHANGED listError \/ SettleList \/ ReadFails
  BY DEF Next, User, Engine, Network, Browser, vars, shown, Select, OpenSessions, OpenOverview, SetRange,
         HandleSourceChange, RestoreNavigation, Navigate, OpenImported, RefreshAll, Retry, Revalidate, ImportSend,
         ImportStored, ImportFails, ImportAcknowledged, ImportAcknowledgedWith, UpdateSend, UpdateStored, UpdateFails,
         UpdateAcknowledged, UpdateAcknowledgedWith, ChangeSession, RemoveSession, AnswerList, AnswerDetail,
         SettleDetail, CommitDetail
<1>2. SettleList => listError' \in BOOLEAN
  BY DEF SettleList, CommitList, shown
<1>3. ReadFails => listError' \in BOOLEAN
  <2>1. CASE \E r \in listReads : FailList(r)
    BY <2>1 DEF FailList, ListInv, ListTypes, ListRead
  <2>2. CASE \E r \in detailReads : FailDetail(r)
    BY <2>2 DEF FailDetail
  <2> QED BY <2>1, <2>2 DEF ReadFails
<1> QED BY <1>1, <1>2, <1>3

LEMMA AtMostOne ==
  ASSUME NEW rs, OneCurrent(rs)
  PROVE  Cardinality({r \in rs : r.current}) <= 1
<1> DEFINE now == {r \in rs : r.current}
<1>1. CASE now = {}
  BY <1>1, FS_EmptySet
<1>2. CASE now # {}
  <2>1. PICK r : r \in now
    BY <1>2
  <2>2. now = {r}
    BY <2>1 DEF OneCurrent
  <2>3. Cardinality(now) = 1
    BY <2>2, FS_Singleton
  <2> QED BY <2>3
<1> QED BY <1>1, <1>2

\* The variables keep their types, and at most one read of a kind is current:
\* the counter of a kind is the id of one request (App.tsx listRequest,
\* sessionRequest).
THEOREM TypesAlways == Spec => []TypeOK
<1>1. ListInv /\ DetailInv /\ UpdateInv /\ ErrorType => TypeOK
  <2> SUFFICES ASSUME ListInv, DetailInv, UpdateInv, listError \in BOOLEAN PROVE TypeOK
    BY DEF ErrorType
  <2>1. \A r \in listReads : r.data = None \/ r \in Read
    BY DEF ListInv, ListTypes, ListRead, ListData, Read
  <2>2. \A r \in detailReads : r.data = None \/ r \in Read
    BY DEF DetailInv, DetailTypes, DetailRead, ReadOf, Snap, Read
  <2>3. Cardinality({r \in listReads : r.current}) <= 1 /\ Cardinality({r \in detailReads : r.current}) <= 1
    BY AtMostOne DEF ListInv, ReadsFresh, DetailInv
  <2>4. \A rs \in {listReads, detailReads} :
           /\ \A r \in rs : r.data = None \/ r \in Read
           /\ Cardinality({r \in rs : r.current}) <= 1
    BY <2>1, <2>2, <2>3
  <2>5. /\ engine \in [clock : Nat, rev : [Ids -> Nat], rules : [Ids -> SUBSET Rules]]
        /\ list \in [loaded : BOOLEAN, asOf : Nat, rev : [Ids -> Nat]]
        /\ confirmed \subseteq Ids
    BY DEF ListInv, ListTypes
  <2>6. /\ ui \in [view : {"overview", "sessions"}, selected : Ids \cup {None},
                   preferred : Ids \cup {None}, scope : Scopes]
        /\ snapshot = None \/ snapshot \in [id : Ids, rev : Nat, rules : SUBSET Rules]
        /\ load \in [id : Ids \cup {None}, status : {"none", "loading", "ready", "missing", "error"}]
        /\ imported = None \/ imported.id \in Ids
    BY DEF DetailInv, DetailTypes, Nav, Outcome, Snap
  <2>7. update.waiting \subseteq {"list", "detail"} /\ notice \in {"none", "pending", "all", "partial", "error"}
    BY DEF UpdateInv, UpdateTypes
  <2> QED BY <2>4, <2>5, <2>6, <2>7 DEF TypeOK
<1>2. Init => ErrorType
  BY DEF Init, ErrorType
<1> QED BY <1>1, <1>2, ErrorStep, ListInvAlways, DetailInvAlways, UpdateInvAlways, PTL DEF Spec

---------------------------------------------------------------------------
\* Waste toggles.  Whatever reaches the display from the engine (an answer to a
\* read, to a save, to an import) carries rules the engine had; so only a click
\* shows others, and until its save ends, the component that shows them stays
\* mounted or is left.

Had(d) == d # None => d.rules \in held[d.id]

Patch == [id : Ids, rule : Rules, rules : SUBSET Rules, stage : {"sent", "stored", "reread"},
          mounted : BOOLEAN, data : {None} \cup Snap]

PatchTypes ==
    /\ patches \subseteq Patch
    /\ saveError \in BOOLEAN
    /\ held \in [Ids -> SUBSET SUBSET Rules]
    /\ \A p \in patches : /\ p.stage = "stored" => p.data # None
                          /\ p.data # None => p.data.id = p.id

\* A save that is waited for is of the session on display.
Waited == \A p \in patches : p.mounted => Mounted(p.id)

\* What comes from the engine, the engine had.
AllHad ==
    /\ \A i \in Ids : {} \in held[i] /\ engine.rules[i] \in held[i]
    /\ \A p \in patches : Had(p.data)
    /\ \A r \in detailReads : Had(r.data)
    /\ Had(importing.snap) /\ Had(imported)

ToggleInv == ListInv /\ DetailInv /\ PatchTypes /\ Waited /\ AllHad /\ UnsavedIsFlagged

-----------------------------------------------------------------------------
(* Reads answered before. *)

Carries(new, rs) == \A r \in new : r.data # None => \E s \in rs : r.data = s.data

LEMMA SessionRequestCarries ==
  ASSUME NEW rs, rs \subseteq DetailRead, OneCurrent(rs), NEW id \in Ids, NEW was, NEW awaited \in BOOLEAN,
         RefreshSession(rs, id, was, awaited)
  PROVE  Carries(detailReads', rs)
<1>1. PICK force \in BOOLEAN : detailReads' = Refreshed(rs, id, force, awaited)
  BY DEF RefreshSession
<1>2. AreReads(rs, Ids, Snap)
  BY DetailReadsAre
<1> QED BY <1>1, <1>2, RequestJoins DEF Carries

LEMMA SupersededCarries == ASSUME NEW rs, rs \subseteq DetailRead PROVE Carries(Superseded(rs), rs)
<1>1. AreReads(rs, Ids, Snap)
  BY DetailReadsAre
<1> QED BY <1>1, SupersededKeeps DEF AreReads, Carries

\* What a navigation, a new list or an import displays: the session given, as
\* before or as it is being read again.
EntersWith(snap, was) ==
    /\ snapshot' \in {None, snap}
    /\ \/ ~DetailOpen'
       \/ load'.status \in {"loading", "error"}
       \/ load' = was /\ ui'.view = ui.view /\ ui'.selected = ui.selected

LEMMA EnterShows ==
  ASSUME NEW nav \in Nav, NEW lst, NEW snap, NEW rs, rs \subseteq DetailRead, OneCurrent(rs),
         NEW was \in Outcome, OfSelected(rs, was), Enter(nav, lst, snap, rs, was)
  PROVE  EntersWith(snap, was) /\ Carries(detailReads', rs)
<1>1. PICK n \in Settle(nav, lst) :
          /\ ui' = n
          /\ snapshot' = IF n.selected = None THEN None ELSE snap
          /\ IF n.selected = ui.selected /\ n.view = ui.view
             THEN detailReads' = rs /\ load' = was
             ELSE IF n.selected # None /\ n.view = "sessions"
             THEN RefreshSession(rs, n.selected, was, FALSE)
             ELSE detailReads' = Superseded(rs) /\ load' = was
  BY DEF Enter
<1>2. n \in Nav
  BY SettleTypes
<1>3. CASE n.selected = ui.selected /\ n.view = ui.view
  BY <1>1, <1>3 DEF EntersWith, Carries
<1>4. CASE ~(n.selected = ui.selected /\ n.view = ui.view) /\ n.selected # None /\ n.view = "sessions"
  <2>1. n.selected \in Ids /\ RefreshSession(rs, n.selected, was, FALSE)
    BY <1>1, <1>2, <1>4 DEF Nav
  <2>2. load'.status \in {"loading", "error"}
    BY <2>1, SessionRequest
  <2>3. PICK awaited \in BOOLEAN : RefreshSession(rs, n.selected, was, awaited)
    BY <2>1
  <2>4. Carries(detailReads', rs)
    BY <2>1, <2>3, SessionRequestCarries
  <2> QED BY <1>1, <2>2, <2>4 DEF EntersWith
<1>5. CASE ~(n.selected = ui.selected /\ n.view = ui.view) /\ ~(n.selected # None /\ n.view = "sessions")
  BY <1>1, <1>5, SupersededCarries DEF EntersWith, DetailOpen
<1> QED BY <1>3, <1>4, <1>5

\* The display after any step of the rest of the dashboard: what the engine had,
\* a session being read, or what it was.
Displays ==
    \/ Had(snapshot') \/ ~DetailOpen'
    \/ snapshot' = snapshot /\ load'.status \in {"loading", "error"}
    \/ snapshot' = snapshot /\ load' = load /\ ui'.view = ui.view /\ ui'.selected = ui.selected

ReadsHad == \A r \in detailReads' : Had(r.data)

LEMMA CarriesHad == ASSUME AllHad, NEW rs, Carries(detailReads', rs), Carries(rs, detailReads) PROVE ReadsHad
  BY DEF AllHad, Carries, Had, ReadsHad

\* A session on display stays, or one that the engine had takes its place.
LEMMA EnterDisplays ==
  ASSUME DetailInv, AllHad, NEW nav \in Nav, NEW lst, Enter(nav, lst, snapshot, detailReads, load)
  PROVE  Displays /\ ReadsHad
<1>1. EntersWith(snapshot, load) /\ Carries(detailReads', detailReads)
  BY EnterShows DEF DetailInv, DetailTypes
<1>2. ReadsHad
  BY <1>1 DEF AllHad, Carries, Had, ReadsHad
<1>3. Displays
  <2>1. CASE snapshot' = None
    BY <2>1 DEF Displays, Had
  <2>2. CASE snapshot' = snapshot
    BY <1>1, <2>2 DEF EntersWith, Displays
  <2> QED BY <1>1, <2>1, <2>2 DEF EntersWith
<1> QED BY <1>2, <1>3

LEMMA ImportedDisplays ==
  ASSUME DetailInv, AllHad, NEW snap \in Snap, Had(snap), NEW lst, ShowImported(snap, lst)
  PROVE  Displays /\ ReadsHad
<1> DEFINE nav == [view |-> "sessions", selected |-> snap.id, preferred |-> snap.id, scope |-> HomeScope(snap.id)]
           was == [id |-> snap.id, status |-> "ready"]
<1>1. nav \in Nav /\ was \in Outcome
  BY DashboardAssumption DEF Nav, Outcome, Snap
<1>2. Enter(nav, lst, snap, Superseded(detailReads), was)
  BY DEF ShowImported
<1> HIDE DEF nav, was
<1>3. /\ Superseded(detailReads) \subseteq DetailRead /\ OneCurrent(Superseded(detailReads))
      /\ OfSelected(Superseded(detailReads), was)
  <2>1. AreReads(detailReads, Ids, Snap)
    BY DetailReadsAre DEF DetailInv, DetailTypes
  <2>2. \A r \in Superseded(detailReads) : ~r.current
    BY <2>1, SupersededKeeps DEF AreReads
  <2> QED BY <2>2, DetailReads DEF DetailInv, DetailTypes, OfSelected
<1>4. EntersWith(snap, was) /\ Carries(detailReads', Superseded(detailReads))
  BY <1>1, <1>2, <1>3, EnterShows
<1>5. Carries(Superseded(detailReads), detailReads)
  BY SupersededCarries DEF DetailInv, DetailTypes
<1>6. ReadsHad
  BY <1>4, <1>5, CarriesHad
<1>7. Displays
  BY <1>4 DEF EntersWith, Displays, Had
<1> QED BY <1>6, <1>7

LEMMA CommitDisplays ==
  ASSUME DetailInv, AllHad, NEW r \in detailReads, CommitDetail(r)
  PROVE  Displays /\ ReadsHad
<1>1. detailReads' = detailReads \ {r} /\ UNCHANGED ui
  BY DEF CommitDetail
<1>2. ReadsHad
  BY <1>1 DEF AllHad, ReadsHad
<1>3. CASE r.current /\ r.key = ui.selected
  <2>1. snapshot' = None \/ snapshot' = r.data
    BY <1>3 DEF CommitDetail, ShowDetail
  <2> QED BY <1>2, <2>1 DEF Displays, AllHad, Had
<1>4. CASE ~(r.current /\ r.key = ui.selected)
  <2>1. UNCHANGED <<snapshot, load>>
    BY <1>4 DEF CommitDetail
  <2> QED BY <1>1, <1>2, <2>1 DEF Displays
<1> QED BY <1>3, <1>4

LEMMA RequestDisplays ==
  ASSUME DetailInv, AllHad, NEW awaited \in BOOLEAN, ui.selected # None,
         RefreshSession(detailReads, ui.selected, load, awaited), UNCHANGED <<ui, snapshot>>
  PROVE  Displays /\ ReadsHad
<1>1. ui.selected \in Ids
  BY DEF DetailInv, DetailTypes, Nav
<1>2. load'.status \in {"loading", "error"}
  BY <1>1, SessionRequest DEF DetailInv, DetailTypes
<1>3. Carries(detailReads', detailReads)
  BY <1>1, SessionRequestCarries DEF DetailInv, DetailTypes
<1> QED BY <1>2, <1>3 DEF Displays, AllHad, Carries, Had, ReadsHad

LEMMA NextDisplays ==
  ASSUME ListInv, DetailInv, AllHad, Next
  PROVE  Displays /\ ReadsHad
<1>1. ASSUME UNCHANGED <<ui, load, snapshot, detailReads>> PROVE Displays /\ ReadsHad
  BY <1>1 DEF Displays, AllHad, ReadsHad
<1>2. ui \in Nav
  BY DEF DetailInv, DetailTypes
<1>3. CASE \/ \E id \in Ids : Select(id)
           \/ OpenSessions \/ OpenOverview
           \/ \E s \in Scopes : SetRange(s) \/ HandleSourceChange(s)
           \/ RestoreNavigation
  <2>1. PICK nav \in Nav : Navigate(nav)
    BY <1>2, <1>3, Navigations
  <2> QED BY <2>1, EnterDisplays DEF Navigate
<1>4. CASE OpenImported
  <2>1. imported \in Snap /\ Had(imported) /\ ShowImported(imported, list)
    BY <1>4 DEF OpenImported, DetailInv, DetailTypes, AllHad
  <2> QED BY <2>1, ImportedDisplays
<1>5. CASE RefreshAll \/ Revalidate \/ Retry \/ UpdateAcknowledged
  <2>1. UNCHANGED <<ui, snapshot>>
    BY <1>5 DEF RefreshAll, Revalidate, Retry, UpdateAcknowledged, UpdateAcknowledgedWith
  <2>2. \/ UNCHANGED <<detailReads, load>>
        \/ ui.selected # None /\ \E awaited \in BOOLEAN : RefreshSession(detailReads, ui.selected, load, awaited)
    BY <1>5 DEF RefreshAll, Revalidate, Retry, UpdateAcknowledged, UpdateAcknowledgedWith, DetailOpen
  <2> QED BY <1>1, <2>1, <2>2, RequestDisplays
<1>6. CASE \/ UpdateSend \/ UpdateStored \/ UpdateFails
           \/ \E id \in Ids : ChangeSession(id) \/ RemoveSession(id) \/ ImportSend(id)
           \/ ImportStored \/ ImportFails
  BY <1>1, <1>6 DEF UpdateSend, UpdateStored, UpdateFails, ChangeSession, RemoveSession,
                   ImportSend, ImportStored, ImportFails, shown, reads
<1>7. CASE AnswerList
  BY <1>1, <1>7 DEF AnswerList, shown
<1>8. CASE AnswerDetail
  <2>1. PICK r \in detailReads :
            detailReads' = (detailReads \ {r}) \cup {[r EXCEPT !.data = DetailNow(r.key)]}
    BY <1>8 DEF AnswerDetail, Answered
  <2>2. r.key \in Ids /\ [r EXCEPT !.data = DetailNow(r.key)].data = DetailNow(r.key)
    BY DEF DetailInv, DetailTypes, DetailRead, ReadOf
  <2>3. Had(DetailNow(r.key))
    BY <2>2 DEF Had, DetailNow, AllHad
  <2>4. ReadsHad
    BY <2>1, <2>2, <2>3 DEF ReadsHad, AllHad
  <2>5. UNCHANGED <<ui, load, snapshot>>
    BY <1>8 DEF AnswerDetail, shown
  <2> QED BY <2>4, <2>5 DEF Displays
<1>9. CASE SettleList
  <2>1. PICK r \in listReads : CommitList(r)
    BY <1>9 DEF SettleList
  <2>2. CASE r.current
    <3>1. \E lst : Enter(ui, lst, snapshot, detailReads, load)
      BY <2>1, <2>2 DEF CommitList
    <3> QED BY <1>2, <3>1, EnterDisplays
  <2>3. CASE ~r.current
    BY <1>1, <2>1, <2>3 DEF CommitList, shown
  <2> QED BY <2>2, <2>3
<1>10. CASE SettleDetail
  BY <1>10, CommitDisplays DEF SettleDetail
<1>11. CASE ReadFails
  <2>1. UNCHANGED <<ui, snapshot>>
    BY <1>11 DEF ReadFails
  <2>2. CASE \E r \in listReads : FailList(r)
    BY <1>1, <2>1, <2>2 DEF FailList
  <2>3. CASE \E r \in detailReads : FailDetail(r)
    <3>1. detailReads' \subseteq detailReads /\ (UNCHANGED load \/ load'.status = "error")
      BY <2>3 DEF FailDetail
    <3> QED BY <2>1, <3>1 DEF Displays, ReadsHad, AllHad
  <2> QED BY <1>11, <2>2, <2>3 DEF ReadFails
<1>12. CASE ImportAcknowledged
  <2>1. /\ importing.snap \in Snap /\ Had(importing.snap)
        /\ \/ \E lst : ShowImported(importing.snap, lst)
           \/ \E lst : Enter(ui, lst, snapshot, detailReads, load)
    BY <1>12 DEF ImportAcknowledged, ImportAcknowledgedWith, ListInv, ListTypes, AllHad
  <2> QED BY <1>2, <2>1, ImportedDisplays, EnterDisplays
<1> QED BY <1>3, <1>4, <1>5, <1>6, <1>7, <1>8, <1>9, <1>10, <1>11, <1>12 DEF Next, User, Engine, Network, Browser

\* What the engine has and an import carries.
LEMMA NextImports ==
  ASSUME ListInv, AllHad, Next
  PROVE  /\ \A i \in Ids : engine'.rules[i] \in held[i]
         /\ Had(importing'.snap) /\ Had(imported')
<1>1. ASSUME engine'.rules = engine.rules, UNCHANGED <<importing, imported>>
      PROVE  /\ \A i \in Ids : engine'.rules[i] \in held[i]
             /\ Had(importing'.snap) /\ Had(imported')
  BY <1>1 DEF AllHad
<1>2. ASSUME NEW ids, Changed(ids) PROVE engine'.rules = engine.rules
  <2>1. engine' = [engine EXCEPT !.clock = engine.clock + 1,
                       !.rev = [i \in Ids |-> IF i \in ids THEN engine.clock + 1 ELSE engine.rev[i]]]
    BY <1>2 DEF Changed
  <2> QED BY <2>1 DEF ListInv, ListTypes
<1>3. CASE (\E id \in Ids : ChangeSession(id)) \/ UpdateStored
  BY <1>1, <1>2, <1>3 DEF ChangeSession, UpdateStored, imports
<1>4. CASE \E id \in Ids : RemoveSession(id)
  <2>1. PICK id \in Ids : RemoveSession(id)
    BY <1>4
  <2>2. engine' = [engine EXCEPT !.clock = @ + 1, !.rev[id] = 0, !.rules[id] = {}]
    BY <2>1 DEF RemoveSession
  <2>3. engine'.rules = [engine.rules EXCEPT ![id] = {}]
    BY <2>2 DEF ListInv, ListTypes
  <2>4. \A i \in Ids : engine'.rules[i] \in held[i]
    BY <2>3 DEF ListInv, ListTypes, AllHad
  <2>5. UNCHANGED <<importing, imported>>
    BY <2>1 DEF RemoveSession
  <2> QED BY <2>4, <2>5 DEF AllHad
<1>5. CASE \E id \in Ids : ImportSend(id)
  <2>1. PICK id \in Ids : importing' = [state |-> "sent", snap |-> [id |-> id, rev |-> 0, rules |-> {}]]
    BY <1>5 DEF ImportSend
  <2>2. UNCHANGED <<engine, imported>>
    BY <1>5 DEF ImportSend
  <2>3. Had(importing'.snap)
    BY <2>1 DEF Had, AllHad
  <2> QED BY <2>2, <2>3 DEF AllHad
<1>6. CASE ImportStored
  <2> DEFINE id == importing.snap.id
  <2>1. /\ importing' = [state |-> "stored",
                          snap |-> [id |-> id, rev |-> engine'.rev[id], rules |-> engine'.rules[id]]]
        /\ UNCHANGED imported /\ (UNCHANGED engine \/ Changed({id})) /\ importing.state = "sent"
    BY <1>6 DEF ImportStored
  <2>2. engine'.rules = engine.rules
    BY <1>2, <2>1
  <2>3. id \in Ids
    BY <2>1 DEF ListInv, ListTypes, Snap
  <2> HIDE DEF id
  <2>4. Had(importing'.snap)
    BY <2>1, <2>2, <2>3 DEF Had, AllHad
  <2> QED BY <2>1, <2>2, <2>4 DEF AllHad
<1>7. CASE ImportFails
  <2>1. importing' = [importing EXCEPT !.state = "error"] /\ UNCHANGED <<engine, imported>>
    BY <1>7 DEF ImportFails
  <2>2. importing'.snap = importing.snap
    BY <2>1 DEF ListInv, ListTypes
  <2> QED BY <2>1, <2>2 DEF AllHad
<1>8. CASE ImportAcknowledged
  <2>1. importing' = [importing EXCEPT !.state = "success"] /\ imported' = importing.snap /\ UNCHANGED engine
    BY <1>8 DEF ImportAcknowledged, ImportAcknowledgedWith
  <2>2. importing'.snap = importing.snap
    BY <2>1 DEF ListInv, ListTypes
  <2> QED BY <2>1, <2>2 DEF AllHad
<1>9. UNCHANGED <<engine, importing, imported>>
      \/ (\E id \in Ids : ChangeSession(id)) \/ UpdateStored \/ (\E id \in Ids : RemoveSession(id))
      \/ (\E id \in Ids : ImportSend(id)) \/ ImportStored \/ ImportFails \/ ImportAcknowledged
  BY DEF Next, User, Engine, Network, Browser, Select, OpenSessions, OpenOverview, SetRange, HandleSourceChange,
         RestoreNavigation, Navigate, OpenImported, RefreshAll, Retry, Revalidate, UpdateSend, UpdateFails,
         UpdateAcknowledged, UpdateAcknowledgedWith, ReadFails, AnswerList, AnswerDetail, SettleList, CommitList,
         SettleDetail, CommitDetail, imports
<1> QED BY <1>1, <1>3, <1>4, <1>5, <1>6, <1>7, <1>8, <1>9

-----------------------------------------------------------------------------
(* The steps. *)

\* A component that is left stays left, and a display it does not stand behind
\* is one the engine had, or is being read.
LEMMA ElsewhereKeepsInv == ASSUME ToggleInv, Elsewhere PROVE ToggleInv'
<1> DEFINE After(p) == [p EXCEPT !.mounted = @ /\ Mounted(p.id)']
<1>1. /\ Next /\ patches' = {After(p) : p \in patches} /\ UNCHANGED held
      /\ saveError' = (saveError /\ \E i \in Ids : Mounted(i) /\ Mounted(i)')
  BY DEF Elsewhere
<1>2. ListInv' /\ DetailInv'
  BY <1>1, StepKeepsInv, StepKeepsDetail DEF ToggleInv
<1>3. \A p \in patches :
          /\ After(p) \in Patch /\ After(p).id = p.id /\ After(p).data = p.data /\ After(p).stage = p.stage
          /\ After(p).mounted = (p.mounted /\ Mounted(p.id)')
  <2>1. \A i : Mounted(i)' \in BOOLEAN
    BY DEF Mounted
  <2> QED BY <2>1 DEF ToggleInv, PatchTypes, Patch
<1> HIDE DEF After
<1>4. PatchTypes'
  BY <1>1, <1>3 DEF ToggleInv, PatchTypes
<1>5. Waited'
  <2> SUFFICES ASSUME NEW q \in patches', q.mounted PROVE Mounted(q.id)'
    BY DEF Waited
  <2>1. PICK p \in patches : q = After(p)
    BY <1>1
  <2>2. q.id = p.id /\ Mounted(p.id)'
    BY <1>3, <2>1
  <2> QED BY <2>2 DEF Mounted
<1>6. Displays /\ ReadsHad
  BY <1>1, NextDisplays DEF ToggleInv
<1>7. AllHad'
  <2>1. /\ \A i \in Ids : engine'.rules[i] \in held[i]
        /\ Had(importing'.snap) /\ Had(imported')
    BY <1>1, NextImports DEF ToggleInv
  <2>2. \A p \in patches' : Had(p.data)
    BY <1>1, <1>3 DEF ToggleInv, AllHad
  <2> QED BY <1>1, <1>6, <2>1, <2>2 DEF ToggleInv, AllHad, ReadsHad, Had
<1>8. UnsavedIsFlagged'
  <2> SUFFICES ASSUME NEW i \in Ids, Mounted(i)', snapshot'.rules \notin held[i]
               PROVE  saveError' \/ (\E p \in patches' : p.mounted) \/ load'.status \in {"loading", "error"}
    BY <1>1 DEF UnsavedIsFlagged
  <2>1. ~Had(snapshot') /\ DetailOpen'
    BY DashboardAssumption DEF Mounted, Had, DetailOpen
  <2>2. CASE load'.status \in {"loading", "error"}
    BY <2>2
  <2>3. CASE snapshot' = snapshot /\ load' = load /\ ui'.view = ui.view /\ ui'.selected = ui.selected
    <3>1. Mounted(i)
      BY <2>3 DEF Mounted
    <3>2. saveError \/ (\E p \in patches : p.mounted) \/ load.status \in {"loading", "error"}
      BY <2>3, <3>1 DEF ToggleInv, UnsavedIsFlagged
    <3>3. CASE \E p \in patches : p.mounted
      <4>1. PICK p \in patches : p.mounted
        BY <3>3
      <4>2. p.id = i
        BY <3>1, <4>1 DEF ToggleInv, Waited, Mounted
      <4>3. After(p) \in patches' /\ After(p).mounted
        BY <1>1, <1>3, <4>1, <4>2
      <4> QED BY <4>3
    <3> QED BY <1>1, <2>3, <3>1, <3>2, <3>3
  <2> QED BY <1>6, <2>1, <2>2, <2>3 DEF Displays
<1> QED BY <1>2, <1>4, <1>5, <1>7, <1>8 DEF ToggleInv

\* The engine stores a save: one more set of rules it has had.
LEMMA PatchStoredKeepsInv == ASSUME ToggleInv, NEW p \in patches, PatchStored(p) PROVE ToggleInv'
<1> DEFINE data == [id |-> p.id, rev |-> engine.clock + 1, rules |-> p.rules]
           q == [p EXCEPT !.stage = "stored", !.data = data]
<1>1. /\ engine' = [engine EXCEPT !.clock = @ + 1, !.rev[p.id] = engine.clock + 1, !.rules[p.id] = p.rules]
      /\ patches' = (patches \ {p}) \cup {q}
      /\ held' = [held EXCEPT ![p.id] = @ \cup {p.rules}]
      /\ UNCHANGED <<snapshot, ui, list, listError, load, listReads, detailReads, importing, imported, confirmed, saveError>>
  BY DEF PatchStored, Others, Unsettled, reads, imports
<1>2. p \in Patch /\ p.id \in Ids /\ p.rules \in SUBSET Rules /\ engine.clock \in Nat
  BY DEF ToggleInv, PatchTypes, Patch, ListInv, ListTypes
<1>3. data \in Snap /\ data # None /\ data.id = p.id /\ data.rules = p.rules
  BY <1>2, DashboardAssumption DEF Snap
<1> HIDE DEF data
<1>4. q \in Patch /\ q.id = p.id /\ q.mounted = p.mounted /\ q.data = data
  BY <1>2, <1>3 DEF Patch
<1> HIDE DEF q
<1>5. /\ engine'.clock = engine.clock + 1
      /\ engine'.rev = [engine.rev EXCEPT ![p.id] = engine.clock + 1]
      /\ engine'.rules = [engine.rules EXCEPT ![p.id] = p.rules]
      /\ engine' \in [clock : Nat, rev : [Ids -> Nat], rules : [Ids -> SUBSET Rules]]
  <2>1. /\ [engine.rev EXCEPT ![p.id] = engine.clock + 1] \in [Ids -> Nat]
        /\ [engine.rules EXCEPT ![p.id] = p.rules] \in [Ids -> SUBSET Rules]
    BY <1>2 DEF ToggleInv, ListInv, ListTypes
  <2>2. engine' = [clock |-> engine.clock + 1, rev |-> [engine.rev EXCEPT ![p.id] = engine.clock + 1],
                   rules |-> [engine.rules EXCEPT ![p.id] = p.rules]]
    BY <1>1 DEF ToggleInv, ListInv, ListTypes
  <2> QED BY <1>2, <2>1, <2>2
<1>6. ListInv'
  <2>1. \A i \in Ids : engine.rev[i] # 0 => engine'.rev[i] # 0
    BY <1>2, <1>5 DEF ToggleInv, ListInv, ListTypes
  <2>2. \A r \in listReads' : FreshRead(r)'
    BY <1>1, <1>5 DEF ToggleInv, ListInv, ListTypes, ReadsFresh, FreshRead, ListRead, ListData
  <2>3. list.asOf <= engine'.clock
    BY <1>5 DEF ToggleInv, ListInv, ListTypes, ReadsFresh
  <2>4. ListTypes'
    BY <1>1, <1>5 DEF ToggleInv, ListInv, ListTypes
  <2>5. ImportsKept' /\ ReadsFresh'
    BY <1>1, <2>1, <2>2, <2>3 DEF ToggleInv, ListInv, ListTypes, ReadsFresh, ImportsKept
  <2> QED BY <2>4, <2>5 DEF ListInv
<1>7. DetailInv'
  BY <1>1 DEF ToggleInv, DetailInv, DetailTypes, OfSelected, Honest, DetailOpen
<1>8. held' \in [Ids -> SUBSET SUBSET Rules] /\ p.rules \in held'[p.id] /\ \A i \in Ids : held[i] \subseteq held'[i]
  BY <1>1, <1>2 DEF ToggleInv, PatchTypes
<1>9. PatchTypes'
  BY <1>1, <1>3, <1>4, <1>8 DEF ToggleInv, PatchTypes
<1>10. Waited'
  BY <1>1, <1>4 DEF ToggleInv, Waited, Mounted
<1>11. AllHad'
  <2>1. ASSUME NEW d, d = None \/ d.id \in Ids, Had(d) PROVE Had(d)'
    BY <1>8, <2>1 DEF Had
  <2>2. \A i \in Ids : {} \in held'[i] /\ engine'.rules[i] \in held'[i]
    BY <1>2, <1>5, <1>8 DEF ToggleInv, ListInv, ListTypes, AllHad
  <2>3. \A r \in detailReads' : Had(r.data)'
    <3>1. \A r \in detailReads : (r.data = None \/ r.data.id \in Ids) /\ Had(r.data)
      BY DEF ToggleInv, DetailInv, DetailTypes, DetailRead, ReadOf, Snap, AllHad
    <3> QED BY <1>1, <1>8, <3>1 DEF Had
  <2>4. \A x \in patches' : Had(x.data)'
    <3>1. \A x \in patches : (x.data = None \/ x.data.id \in Ids) /\ Had(x.data)
      BY DEF ToggleInv, PatchTypes, Patch, Snap, AllHad
    <3> QED BY <1>1, <1>2, <1>3, <1>4, <1>8, <3>1 DEF Had
  <2>5. Had(importing.snap)' /\ Had(imported)'
    <3>1. /\ importing.snap = None \/ importing.snap.id \in Ids
          /\ imported = None \/ imported.id \in Ids
          /\ Had(importing.snap) /\ Had(imported)
      BY DEF ToggleInv, ListInv, ListTypes, DetailInv, DetailTypes, Snap, AllHad
    <3> QED BY <1>1, <1>8, <3>1 DEF Had
  <2> QED BY <2>2, <2>3, <2>4, <2>5 DEF AllHad
<1>12. UnsavedIsFlagged'
  <2> SUFFICES ASSUME NEW i \in Ids, Mounted(i)', snapshot'.rules \notin held'[i]
               PROVE  saveError' \/ (\E x \in patches' : x.mounted) \/ load'.status \in {"loading", "error"}
    BY DEF UnsavedIsFlagged
  <2>1. Mounted(i) /\ snapshot.rules \notin held[i]
    BY <1>1, <1>8 DEF Mounted
  <2> QED BY <1>1, <1>4, <2>1 DEF ToggleInv, UnsavedIsFlagged
<1> QED BY <1>6, <1>7, <1>9, <1>10, <1>11, <1>12 DEF ToggleInv

\* What the component does beside the engine's storing: it shows a choice that is
\* waited for, shows what the engine had, or goes on flagging what it shows.
LEMMA ComponentKeepsInv ==
  ASSUME ToggleInv,
         UNCHANGED <<engine, ui, list, load, listReads, detailReads, importing, imported, confirmed, held>>,
         snapshot' = snapshot \/ (snapshot' \in Snap /\ snapshot'.id = ui.selected),
         PatchTypes', \A q \in patches' : Had(q.data) /\ (q.mounted => Mounted(q.id)),
         \/ Had(snapshot')
         \/ \E q \in patches' : q.mounted
         \/ snapshot' = snapshot /\ (saveError \/ (\E p \in patches : p.mounted) => saveError')
  PROVE  ToggleInv'
<1>1. ListInv'
  BY DEF ToggleInv, ListInv, ListTypes, ReadsFresh, OneCurrent, FreshRead, ImportsKept
<1>2. DetailInv'
  <2>1. snapshot' = snapshot \/ (snapshot' # None /\ snapshot' \in Snap /\ snapshot'.id = ui.selected)
    BY DashboardAssumption DEF Snap
  <2> QED BY <2>1 DEF ToggleInv, DetailInv, DetailTypes, OfSelected, Honest, DetailOpen
<1>3. Waited'
  <2>1. snapshot' = snapshot \/ (snapshot' # None /\ snapshot'.id = ui.selected)
    BY DashboardAssumption DEF Snap
  <2> QED BY <2>1 DEF Waited, Mounted
<1>4. AllHad'
  BY DEF ToggleInv, AllHad, Had
<1>5. UnsavedIsFlagged'
  <2> SUFFICES ASSUME NEW i \in Ids, Mounted(i)', snapshot'.rules \notin held[i]
               PROVE  saveError' \/ (\E x \in patches' : x.mounted) \/ load'.status \in {"loading", "error"}
    BY DEF UnsavedIsFlagged
  <2>1. ~Had(snapshot')
    BY DEF Mounted, Had
  <2>2. CASE snapshot' = snapshot /\ (saveError \/ (\E p \in patches : p.mounted) => saveError')
    <3>1. Mounted(i)
      BY <2>2 DEF Mounted
    <3> QED BY <2>2, <3>1 DEF ToggleInv, UnsavedIsFlagged
  <2> QED BY <2>1, <2>2
<1> QED BY <1>1, <1>2, <1>3, <1>4, <1>5 DEF ToggleInv

LEMMA ChangeKeepsToggles == ASSUME ToggleInv, NEW id \in Ids, NEW rule \in Rules, HandleChange(id, rule) PROVE ToggleInv'
<1> DEFINE optimistic == Toggled(snapshot.rules, rule)
           q == [id |-> id, rule |-> rule, rules |-> optimistic, stage |-> "sent", mounted |-> TRUE, data |-> None]
<1>1. /\ Mounted(id) /\ snapshot' = [snapshot EXCEPT !.rules = optimistic] /\ patches' = patches \cup {q}
      /\ saveError' = FALSE
      /\ UNCHANGED <<engine, ui, list, load, listReads, detailReads, importing, imported, confirmed, held>>
  BY DEF HandleChange, reads, imports
<1>2. snapshot \in Snap /\ snapshot.id = ui.selected /\ ui.selected = id
  BY <1>1 DEF Mounted, ToggleInv, DetailInv, DetailTypes
<1>3. optimistic \in SUBSET Rules
  BY <1>2 DEF Toggled, Snap
<1> HIDE DEF optimistic
<1>4. snapshot' \in Snap /\ snapshot'.id = ui.selected
  BY <1>1, <1>2, <1>3 DEF Snap
<1>5. q \in Patch /\ q.mounted /\ q.id = id /\ q.data = None /\ q.stage = "sent"
  BY <1>3 DEF Patch
<1> HIDE DEF q
<1>6. PatchTypes'
  BY <1>1, <1>5 DEF ToggleInv, PatchTypes
<1>7. \A x \in patches' : Had(x.data) /\ (x.mounted => Mounted(x.id))
  BY <1>1, <1>5 DEF ToggleInv, AllHad, Had, Waited
<1> QED BY <1>1, <1>4, <1>5, <1>6, <1>7, ComponentKeepsInv

LEMMA SaveKeepsInv == ASSUME ToggleInv, NEW p \in patches, Save(p) PROVE ToggleInv'
<1>1. /\ p \in Patch /\ Had(p.data) /\ (p.mounted => Mounted(p.id))
      /\ p.stage = "stored" => p.data # None
      /\ p.data # None => p.data \in Snap /\ p.data.id = p.id
  BY DEF ToggleInv, PatchTypes, Patch, AllHad, Waited
<1>2. CASE PatchStored(p)
  BY <1>2, PatchStoredKeepsInv
<1>3. CASE PatchAcknowledged(p) \/ RereadShown(p)
  <2>1. /\ p.data # None /\ snapshot' = (IF p.mounted THEN p.data ELSE snapshot) /\ patches' = patches \ {p}
        /\ ~p.mounted => saveError' = saveError
        /\ saveError' \in BOOLEAN
        /\ UNCHANGED <<engine, ui, list, load, listReads, detailReads, importing, imported, confirmed, held>>
    BY <1>1, <1>3 DEF PatchAcknowledged, RereadShown, Others, Shown, Unsettled, reads, imports, ToggleInv, PatchTypes
  <2>2. PatchTypes'
    BY <2>1 DEF ToggleInv, PatchTypes
  <2>3. \A q \in patches' : Had(q.data) /\ (q.mounted => Mounted(q.id))
    BY <2>1 DEF ToggleInv, AllHad, Waited
  <2>4. CASE p.mounted
    <3>1. snapshot' \in Snap /\ snapshot'.id = ui.selected /\ Had(snapshot')
      BY <1>1, <2>1, <2>4 DEF Mounted
    <3> QED BY <2>1, <2>2, <2>3, <3>1, ComponentKeepsInv
  <2>5. CASE ~p.mounted
    <3>1. (\E q \in patches : q.mounted) => \E q \in patches' : q.mounted
      BY <2>1, <2>5
    <3>2. \/ \E q \in patches' : q.mounted
          \/ snapshot' = snapshot /\ (saveError \/ (\E q \in patches : q.mounted) => saveError')
      BY <2>1, <2>5, <3>1
    <3> QED BY <2>1, <2>2, <2>3, <2>5, <3>2, ComponentKeepsInv
  <2> QED BY <2>4, <2>5
<1>4. CASE PatchLost(p)
  <2> DEFINE q == [p EXCEPT !.stage = "reread", !.data = None]
  <2>1. /\ patches' = (patches \ {p}) \cup (IF p.mounted THEN {q} ELSE {})
        /\ UNCHANGED <<snapshot, saveError, engine, ui, list, load, listReads, detailReads, importing, imported, confirmed, held>>
    BY <1>4 DEF PatchLost, Others, Unsettled, reads, imports
  <2>2. q \in Patch /\ q.id = p.id /\ q.mounted = p.mounted /\ q.data = None /\ q.stage = "reread"
    BY <1>1 DEF Patch
  <2> HIDE DEF q
  <2>3. PatchTypes'
    BY <2>1, <2>2 DEF ToggleInv, PatchTypes
  <2>4. \A x \in patches' : Had(x.data) /\ (x.mounted => Mounted(x.id))
    BY <1>1, <2>1, <2>2 DEF ToggleInv, AllHad, Waited, Had
  <2>5. \/ \E x \in patches' : x.mounted
        \/ saveError \/ (\E x \in patches : x.mounted) => saveError'
    BY <2>1, <2>2
  <2> QED BY <2>1, <2>3, <2>4, <2>5, ComponentKeepsInv
<1>5. CASE RereadAnswered(p)
  <2> DEFINE q == [p EXCEPT !.data = DetailNow(p.id)]
  <2>1. /\ p.stage = "reread" /\ patches' = (patches \ {p}) \cup {q}
        /\ UNCHANGED <<snapshot, saveError, engine, ui, list, load, listReads, detailReads, importing, imported, confirmed, held>>
    BY <1>5 DEF RereadAnswered, Others, Unsettled, reads, imports
  <2>2. DetailNow(p.id) \in Snap /\ DetailNow(p.id).id = p.id /\ Had(DetailNow(p.id))
    BY <1>1 DEF Patch, DetailNow, Snap, Had, ToggleInv, AllHad, ListInv, ListTypes
  <2>3. q \in Patch /\ q.id = p.id /\ q.mounted = p.mounted /\ q.data = DetailNow(p.id) /\ q.stage = "reread"
    BY <1>1, <2>1, <2>2 DEF Patch
  <2> HIDE DEF q
  <2>4. PatchTypes'
    BY <2>1, <2>2, <2>3 DEF ToggleInv, PatchTypes
  <2>5. \A x \in patches' : Had(x.data) /\ (x.mounted => Mounted(x.id))
    BY <1>1, <2>1, <2>2, <2>3 DEF ToggleInv, AllHad, Waited
  <2>6. \/ \E x \in patches' : x.mounted
        \/ saveError \/ (\E x \in patches : x.mounted) => saveError'
    BY <2>1, <2>3
  <2> QED BY <2>1, <2>4, <2>5, <2>6, ComponentKeepsInv
<1>6. CASE RereadLost(p)
  <2>1. /\ patches' = patches \ {p} /\ saveError' = (saveError \/ p.mounted)
        /\ UNCHANGED <<snapshot, engine, ui, list, load, listReads, detailReads, importing, imported, confirmed, held>>
    BY <1>6 DEF RereadLost, Others, Unsettled, reads, imports
  <2>2. PatchTypes'
    BY <1>1, <2>1 DEF ToggleInv, PatchTypes, Patch
  <2>3. \A q \in patches' : Had(q.data) /\ (q.mounted => Mounted(q.id))
    BY <2>1 DEF ToggleInv, AllHad, Waited
  <2>4. \/ \E x \in patches' : x.mounted
        \/ saveError \/ (\E x \in patches : x.mounted) => saveError'
    BY <2>1
  <2> QED BY <2>1, <2>2, <2>3, <2>4, ComponentKeepsInv
<1> QED BY <1>2, <1>3, <1>4, <1>5, <1>6 DEF Save

LEMMA StepKeepsToggles == ToggleInv /\ [TNext]_tvars => ToggleInv'
<1> SUFFICES ASSUME ToggleInv, [TNext]_tvars PROVE ToggleInv'
  OBVIOUS
<1>1. CASE UNCHANGED tvars
  <2>1. UNCHANGED <<snapshot, saveError, patches, engine, ui, list, load, listReads, detailReads, importing, imported, confirmed, held>>
    BY <1>1 DEF tvars, vars, shown, reads, imports
  <2>2. PatchTypes' /\ \A q \in patches' : Had(q.data) /\ (q.mounted => Mounted(q.id))
    BY <2>1 DEF ToggleInv, PatchTypes, AllHad, Waited
  <2> QED BY <2>1, <2>2, ComponentKeepsInv
<1> QED BY <1>1, ElsewhereKeepsInv, ChangeKeepsToggles, SaveKeepsInv DEF TNext

LEMMA InitToggles == TInit => ToggleInv
<1> SUFFICES ASSUME TInit PROVE ToggleInv
  OBVIOUS
<1>1. /\ Init /\ patches = {} /\ saveError = FALSE /\ held = [i \in Ids |-> {{}}]
  BY DEF TInit
<1>2. ListInv /\ DetailInv
  BY <1>1, InitInv, InitDetail
<1>3. /\ engine.rules = [i \in Ids |-> {}] /\ importing.snap = None /\ imported = None /\ snapshot = None
      /\ \A r \in detailReads : r.data = None
  BY <1>1 DEF Init, Request
<1> QED BY <1>1, <1>2, <1>3 DEF ToggleInv, PatchTypes, Waited, AllHad, Had, UnsavedIsFlagged, Mounted

\* No failure, navigation or late answer leaves a choice that was not saved
\* looking like one that was (WasteToggles.tsx handleChange, App.tsx SessionView).
THEOREM UnsavedIsFlaggedAlways == TSpec => []UnsavedIsFlagged
<1>1. ToggleInv => UnsavedIsFlagged
  BY DEF ToggleInv
<1>2. ToggleInv /\ [TNext]_tvars => ToggleInv'
  BY StepKeepsToggles
<1> QED BY InitToggles, <1>1, <1>2, PTL DEF TSpec

\* The component breaks nothing the dashboard promises without it: with clicks,
\* saves and the reads that follow a failed one, an acknowledged import stays on
\* the list (WasteToggles.tsx onUpdate, App.tsx handleImport).
THEOREM TogglesKeepImports == TSpec => []ConfirmedImportListed
<1>1. ToggleInv => ConfirmedImportListed
  BY DEF ToggleInv, ListInv, ImportsKept, ConfirmedImportListed
<1>2. ToggleInv /\ [TNext]_tvars => ToggleInv'
  BY StepKeepsToggles
<1> QED BY InitToggles, <1>1, <1>2, PTL DEF TSpec

====
