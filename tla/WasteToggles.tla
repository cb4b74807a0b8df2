---- MODULE WasteToggles ----
(***************************************************************************)
(* The waste rules of the open session (apps/web/src/WasteToggles.tsx) in  *)
(* the dashboard: a click shows its choice at once, sends the complete set *)
(* of rules and waits; an answer is shown if the component that sent it is *)
(* still mounted; a failed save is followed by a read of what the engine   *)
(* has.                                                                    *)
(*                                                                         *)
(* SessionView is mounted under the id of its session, so a patch knows    *)
(* whether its component is still there.  While it is, no second click is  *)
(* taken; after the session is left and opened again there may be.         *)
(***************************************************************************)
EXTENDS Dashboard

CONSTANT MaxSaveFailures   \* bound: requests of this component that fail

VARIABLES
    patches,     \* saves under way: [id, rule, rules, stage, mounted, data]
    saveError,   \* the mounted component shows that a save failed
    held,        \* history: session -> the sets of rules the engine has had
    settled      \* history: session -> rules whose last choice was seen saved

tvars == <<vars, patches, saveError, held, settled>>

Mounted(id) ==
    /\ ui.view = "sessions" /\ ui.selected = id
    /\ snapshot # None /\ snapshot.id = id

TInit ==
    /\ Init
    /\ patches = {} /\ saveError = FALSE
    /\ held = [i \in Ids |-> {{}}]
    /\ settled = [i \in Ids |-> {}]

\* A step of the rest of the dashboard may unmount the component.
Elsewhere ==
    /\ Next
    /\ patches' = {[p EXCEPT !.mounted = @ /\ Mounted(p.id)'] : p \in patches}
    /\ saveError' = (saveError /\ \E i \in Ids : Mounted(i) /\ Mounted(i)')
    /\ settled' = [i \in Ids |-> IF engine'.rev[i] = 0 THEN {} ELSE settled[i]]
    /\ UNCHANGED held

Toggled(rules, rule) == IF rule \in rules THEN rules \ {rule} ELSE rules \cup {rule}

\* handleChange: the checkbox is disabled while the component waits.
HandleChange(id, rule) ==
    LET optimistic == Toggled(snapshot.rules, rule)
    IN  /\ Mounted(id)
        /\ ~\E p \in patches : p.mounted
        /\ Spend("user", MaxUser)
        /\ snapshot' = [snapshot EXCEPT !.rules = optimistic]
        /\ patches' = patches \cup {[id |-> id, rule |-> rule, rules |-> optimistic,
                                     stage |-> "sent", mounted |-> TRUE, data |-> None]}
        /\ saveError' = FALSE
        /\ settled' = [settled EXCEPT ![id] = @ \ {rule}]
        /\ UNCHANGED <<engine, ui, list, listError, load, reads, imports, pricing, held>>

Others(p) == patches \ {p}
Shown(p, data) == IF p.mounted THEN data ELSE snapshot
Unsettled == <<ui, list, listError, load, reads, imports, pricing>>

\* The PATCH handler (server.ts): the session is looked up, its rules replaced.
PatchStored(p) ==
    /\ p.stage = "sent" /\ engine.rev[p.id] # 0
    /\ engine' = [engine EXCEPT !.clock = @ + 1, !.rev[p.id] = engine.clock + 1,
                                !.rules[p.id] = p.rules]
    /\ patches' = Others(p) \cup {[p EXCEPT !.stage = "stored",
                       !.data = [id |-> p.id, rev |-> engine.clock + 1, rules |-> p.rules]]}
    /\ held' = [held EXCEPT ![p.id] = @ \cup {p.rules}]
    /\ UNCHANGED <<snapshot, Unsettled, saveError, settled, used>>

PatchAcknowledged(p) ==
    /\ p.stage = "stored"
    /\ snapshot' = Shown(p, p.data)
    /\ patches' = Others(p)
    /\ saveError' = (saveError /\ ~p.mounted)
    /\ settled' = IF p.mounted THEN [settled EXCEPT ![p.id] = @ \cup {p.rule}] ELSE settled
    /\ UNCHANGED <<engine, Unsettled, held, used>>

\* The request fails, before or after it was stored, or the session is not
\* found.  A component still mounted then reads the session.
PatchLost(p) ==
    /\ \/ p.stage \in {"sent", "stored"} /\ Spend("saves", MaxSaveFailures)
       \/ p.stage = "sent" /\ engine.rev[p.id] = 0 /\ UNCHANGED used
    /\ patches' = Others(p) \cup
           (IF p.mounted THEN {[p EXCEPT !.stage = "reread", !.data = None]} ELSE {})
    /\ UNCHANGED <<engine, snapshot, Unsettled, saveError, held, settled>>

RereadAnswered(p) ==
    /\ p.stage = "reread" /\ p.data = None /\ engine.rev[p.id] # 0
    /\ patches' = Others(p) \cup {[p EXCEPT !.data = DetailNow(p.id)]}
    /\ UNCHANGED <<engine, snapshot, Unsettled, saveError, held, settled, used>>

\* The rules read replace those displayed; unless they are those sent the save failed.
RereadShown(p) ==
    /\ p.stage = "reread" /\ p.data # None
    /\ snapshot' = Shown(p, p.data)
    /\ saveError' = IF p.mounted THEN p.data.rules # p.rules ELSE saveError
    /\ patches' = Others(p)
    /\ UNCHANGED <<engine, Unsettled, held, settled, used>>

RereadLostBroken(p) ==   \* the second failure is swallowed
    /\ p.stage = "reread"
    /\ \/ Spend("saves", MaxSaveFailures)
       \/ p.data = None /\ engine.rev[p.id] = 0 /\ UNCHANGED used
    /\ patches' = Others(p)
    /\ UNCHANGED <<engine, snapshot, Unsettled, saveError, held, settled>>

\* That read fails too: the unsaved choice stays on display, with the error.
RereadLost(p) ==
    /\ p.stage = "reread"
    /\ \/ Spend("saves", MaxSaveFailures)
       \/ p.data = None /\ engine.rev[p.id] = 0 /\ UNCHANGED used
    /\ patches' = Others(p)
    /\ saveError' = (saveError \/ p.mounted)
    /\ UNCHANGED <<engine, snapshot, Unsettled, held, settled>>

Save(p) ==
    \/ PatchStored(p) \/ PatchAcknowledged(p) \/ PatchLost(p)
    \/ RereadAnswered(p) \/ RereadShown(p) \/ RereadLost(p)

TNext ==
    \/ Elsewhere
    \/ \E id \in Ids, rule \in Rules : HandleChange(id, rule)
    \/ \E p \in patches : Save(p)

TSpec == TInit /\ [][TNext]_tvars

-----------------------------------------------------------------------------

\* Rules on display that the engine never had are on their way to it, or the
\* reader is told: by the component, by the loading of the session, or by the
\* error of that.  No failure, navigation or late answer leaves a choice that
\* was not saved looking like one that was.
UnsavedIsFlagged ==
    \A i \in Ids :
        Mounted(i) /\ snapshot.rules \notin held[i] =>
            saveError \/ (\E p \in patches : p.mounted) \/ load.status \in {"loading", "error"}

\* (a documented claim) A choice the engine confirmed and the user did not touch
\* since is never undone: a later request carries it (the comment in handleChange).
SavedChoiceKept ==
    [][\A i \in Ids : \A r \in settled[i] \cap settled'[i] :
           (r \in engine.rules[i]) = (r \in engine'.rules[i])]_tvars

====
