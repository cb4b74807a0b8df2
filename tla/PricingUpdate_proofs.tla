---- MODULE PricingUpdate_proofs ----
(***************************************************************************)
(* Proofs about PricingUpdate: for any number of overlapping POSTs, files, *)
(* days, failures and restarts, the prices the sessions show and the dump  *)
(* carries are those of the rate files whenever another callback runs.     *)
(***************************************************************************)
EXTENDS PricingUpdate, TLAPS

InTurn == {"recalc", "undoCodex", "undoQwen"}
PriceType == Context \cup {None}
DayType == Nat \cup {None}

TypesOK ==
    /\ day \in Nat /\ card \in Nat /\ prices \in Nat
    /\ sources \in [Files -> PriceType]
    /\ saved \in [ctx : PriceType, src : [Files -> PriceType]]
    /\ post \in [Posts -> {"idle", "codex", "qwen"} \cup InTurn]
    /\ undo \in [Posts -> [codex : DayType, qwen : DayType]]
    /\ auto \in {"idle", "fetch", "recalc", "undo", "dump"} /\ autoUndo \in DayType

\* One updater is in its turn at a time, none runs in a stopped engine; a POST has
\* nothing to restore of Qwen's until its turn, nor of Codex's until its write.
TurnsOK ==
    /\ \A r, s \in Posts : post[r] \in InTurn /\ post[s] \in InTurn => r = s
    /\ (\E r \in Posts : post[r] \in InTurn) => auto \in {"idle", "fetch"}
    /\ ~up => auto = "idle" /\ \A r \in Posts : post[r] = "idle"
    /\ \A r \in Posts : /\ post[r] \notin InTurn => undo[r].qwen = None
                        /\ post[r] \in {"idle", "codex"} => undo[r].codex = None
    /\ auto \in {"recalc", "undo"} => autoUndo \in Nat

\* Under which Qwen day the listed sessions are priced, at each point of a turn.
ShowQwen(v) == \A f \in Listed : sources[f].qwen = v
QwenBefore(r) == IF undo[r].qwen = None THEN prices ELSE undo[r].qwen
QwenShown ==
    ~unmended => /\ Free \/ auto = "dump" => ShowQwen(prices)
                 /\ \A r \in Posts : post[r] \in InTurn => ShowQwen(QwenBefore(r))
                 /\ auto \in {"recalc", "undo"} => ShowQwen(autoUndo)
                 /\ \A f \in Files : saved.src[f] # None =>
                        saved.ctx # None /\ saved.src[f].qwen = saved.ctx.qwen

\* The same of Codex: while a POST is between its write of the card and its
\* recalculation any price may show, and a rollback there has set midway.
ShowCodex(v) == \A f \in Listed : sources[f].codex = v
CodexShown ==
    ~midway => /\ (\A r \in Posts : ~Window(r)) => ShowCodex(card)
               /\ \A r \in Posts : Window(r) => post[r] \in {"qwen", "recalc"}
               /\ \A f \in Files : saved.src[f] # None =>
                      saved.ctx # None /\ saved.src[f].codex = saved.ctx.codex

PriceInv == TypesOK /\ TurnsOK /\ QwenShown /\ CodexShown

USE FilesAssumption, NoneAssumption, PricingBoundsAssumption

\* A day is not None, nor is a pricing context.
LEMMA NoneApart == None \notin Nat /\ None \notin Context
  BY DEF Context

LEMMA TypesStep ==
  ASSUME TypesOK, TurnsOK, [Next]_vars
  PROVE  TypesOK'
<1> USE DEF TypesOK, InTurn, PriceType, DayType, Context, Now, NoUndo, rates, store, requests, tick, bounds
<1>1. CASE UNCHANGED vars
  BY <1>1 DEF vars
<1>2. CASE NewDay
  BY <1>2 DEF NewDay
<1>3. CASE Dump
  BY <1>3 DEF Dump, WriteDump
<1>4. CASE Crash
  BY <1>4 DEF Crash
<1>5. CASE TickBegin
  BY <1>5 DEF TickBegin
<1>6. CASE TickAnswers
  BY <1>6 DEF TickAnswers
<1>7. CASE TickFails
  BY <1>7 DEF TickFails, Fails
<1>8. CASE TickRecalculates
  BY <1>8 DEF TickRecalculates, Recalculated
<1>9. CASE TickThrows
  BY <1>9 DEF TickThrows, RecalculationThrows, Fails
<1>10. CASE TickUndo
  BY <1>10 DEF TickUndo, TurnsOK
<1>11. CASE TickUndoFails
  BY <1>11 DEF TickUndoFails, Fails
<1>12. CASE TickDump
  BY <1>12 DEF TickDump, WriteDump
<1>13. ASSUME NEW r \in Posts, PostBegin(r) PROVE TypesOK'
  BY <1>13 DEF PostBegin
<1>14. ASSUME NEW r \in Posts, CodexAnswers(r) PROVE TypesOK'
  BY <1>14 DEF CodexAnswers
<1>15. ASSUME NEW r \in Posts, CodexFails(r) PROVE TypesOK'
  BY <1>15 DEF CodexFails, Fails
<1>16. ASSUME NEW r \in Posts, QwenAnswers(r) PROVE TypesOK'
  BY <1>16 DEF QwenAnswers
<1>17. ASSUME NEW r \in Posts, QwenFails(r) PROVE TypesOK'
  BY <1>17 DEF QwenFails, Fails
<1>18. ASSUME NEW r \in Posts, PostRecalculates(r) PROVE TypesOK'
  BY <1>18 DEF PostRecalculates, Recalculated, PostDone
<1>19. ASSUME NEW r \in Posts, PostThrows(r) PROVE TypesOK'
  BY <1>19 DEF PostThrows, RecalculationThrows, Fails
<1>20. ASSUME NEW r \in Posts, UndoCodex(r) PROVE TypesOK'
  BY <1>20 DEF UndoCodex
<1>21. ASSUME NEW r \in Posts, UndoQwen(r) PROVE TypesOK'
  BY <1>21 DEF UndoQwen, PostDone
<1>22. ASSUME NEW r \in Posts, UndoFails(r) PROVE TypesOK'
  BY <1>22 DEF UndoFails, Fails, PostDone
<1>23. ASSUME NEW f \in Files, Ingest(f) PROVE TypesOK'
  BY <1>23 DEF Ingest
<1>24. ASSUME NEW f \in Files, Delete(f) PROVE TypesOK'
  BY <1>24 DEF Delete
<1>25. ASSUME NEW f \in Files, Remove(f) PROVE TypesOK'
  BY <1>25 DEF Remove
<1>26. ASSUME NEW reused \in SUBSET Files, Boot(reused) PROVE TypesOK'
  BY <1>26 DEF Boot, NoDump
<1> QED BY <1>1, <1>2, <1>3, <1>4, <1>5, <1>6, <1>7, <1>8, <1>9, <1>10, <1>11, <1>12, <1>13, <1>14, <1>15, <1>16, <1>17, <1>18, <1>19, <1>20, <1>21, <1>22, <1>23, <1>24, <1>25, <1>26 DEF Next, Post, Tick

LEMMA TurnsStep ==
  ASSUME TypesOK, TurnsOK, [Next]_vars
  PROVE  TurnsOK'
<1> USE DEF TypesOK, TurnsOK, InTurn, Free, NoUndo, rates, store, requests, tick, bounds
<1>1. CASE UNCHANGED vars
  BY <1>1 DEF vars
<1>2. CASE NewDay
  BY <1>2 DEF NewDay
<1>3. CASE Dump
  BY <1>3 DEF Dump, WriteDump
<1>4. CASE Crash
  BY <1>4 DEF Crash
<1>5. CASE TickBegin
  BY <1>5 DEF TickBegin
<1>6. CASE TickAnswers
  <2>1. autoUndo' \in Nat /\ post' = post /\ undo' = undo /\ up' = up /\ Free /\ up
    BY <1>6 DEF TickAnswers
  <2>2. \A r \in Posts : post[r] \notin InTurn
    BY <2>1
  <2> QED BY <1>6, <2>1, <2>2 DEF TickAnswers
<1>7. CASE TickFails
  BY <1>7 DEF TickFails, Fails
<1>8. CASE TickRecalculates
  BY <1>8 DEF TickRecalculates, Recalculated
<1>9. CASE TickThrows
  BY <1>9 DEF TickThrows, RecalculationThrows, Fails
<1>10. CASE TickUndo
  BY <1>10 DEF TickUndo
<1>11. CASE TickUndoFails
  BY <1>11 DEF TickUndoFails, Fails
<1>12. CASE TickDump
  BY <1>12 DEF TickDump, WriteDump
<1>13. ASSUME NEW r \in Posts, PostBegin(r) PROVE TurnsOK'
  BY <1>13 DEF PostBegin
<1>14. ASSUME NEW r \in Posts, CodexAnswers(r) PROVE TurnsOK'
  BY <1>14 DEF CodexAnswers
<1>15. ASSUME NEW r \in Posts, CodexFails(r) PROVE TurnsOK'
  BY <1>15 DEF CodexFails, Fails
<1>16. ASSUME NEW r \in Posts, QwenAnswers(r) PROVE TurnsOK'
  <2>1. \A s \in Posts : s # r => post'[s] = post[s] /\ undo'[s] = undo[s]
    BY <1>16 DEF QwenAnswers
  <2>2. \A s \in Posts : post[s] \notin InTurn
    BY <1>16 DEF QwenAnswers
  <2>3. post'[r] = "recalc" /\ post[r] = "qwen" /\ auto' = auto /\ up' = up /\ autoUndo' = autoUndo /\ Free /\ up
    BY <1>16 DEF QwenAnswers
  <2> QED BY <2>1, <2>2, <2>3
<1>17. ASSUME NEW r \in Posts, QwenFails(r) PROVE TurnsOK'
  <2>1. post' = [post EXCEPT ![r] = IF undo[r].codex = None THEN "idle" ELSE "recalc"] /\ undo' = undo
    BY <1>17 DEF QwenFails
  <2>2. \A s \in Posts : post[s] \notin InTurn
    BY <1>17 DEF QwenFails
  <2>3. auto' = auto /\ up' = up /\ autoUndo' = autoUndo /\ Free /\ post[r] = "qwen" /\ up
    BY <1>17 DEF QwenFails
  <2> QED BY <2>1, <2>2, <2>3
<1>18. ASSUME NEW r \in Posts, PostRecalculates(r) PROVE TurnsOK'
  BY <1>18 DEF PostRecalculates, Recalculated, PostDone
<1>19. ASSUME NEW r \in Posts, PostThrows(r) PROVE TurnsOK'
  BY <1>19 DEF PostThrows, RecalculationThrows, Fails
<1>20. ASSUME NEW r \in Posts, UndoCodex(r) PROVE TurnsOK'
  BY <1>20 DEF UndoCodex
<1>21. ASSUME NEW r \in Posts, UndoQwen(r) PROVE TurnsOK'
  BY <1>21 DEF UndoQwen, PostDone
<1>22. ASSUME NEW r \in Posts, UndoFails(r) PROVE TurnsOK'
  BY <1>22 DEF UndoFails, Fails, PostDone
<1>23. ASSUME NEW f \in Files, Ingest(f) PROVE TurnsOK'
  BY <1>23 DEF Ingest
<1>24. ASSUME NEW f \in Files, Delete(f) PROVE TurnsOK'
  BY <1>24 DEF Delete
<1>25. ASSUME NEW f \in Files, Remove(f) PROVE TurnsOK'
  BY <1>25 DEF Remove
<1>26. ASSUME NEW reused \in SUBSET Files, Boot(reused) PROVE TurnsOK'
  BY <1>26 DEF Boot, NoDump
<1> QED BY <1>1, <1>2, <1>3, <1>4, <1>5, <1>6, <1>7, <1>8, <1>9, <1>10, <1>11, <1>12, <1>13, <1>14, <1>15, <1>16, <1>17, <1>18, <1>19, <1>20, <1>21, <1>22, <1>23, <1>24, <1>25, <1>26 DEF Next, Post, Tick

LEMMA QwenStep ==
  ASSUME TypesOK, TurnsOK, QwenShown, [Next]_vars
  PROVE  QwenShown'
<1> USE DEF TypesOK, TurnsOK, QwenShown, ShowQwen, QwenBefore, Listed, InTurn, Free, Now, NoUndo, rates, store, requests, tick, bounds
<1>1. CASE UNCHANGED vars
  BY <1>1 DEF vars
<1>2. CASE NewDay
  BY <1>2 DEF NewDay
<1>3. CASE Dump
  BY <1>3 DEF Dump, WriteDump
<1>4. CASE Crash
  BY <1>4 DEF Crash
<1>5. CASE TickBegin
  BY <1>5 DEF TickBegin
<1>6. CASE TickAnswers
  BY <1>6 DEF TickAnswers
<1>7. CASE TickFails
  BY <1>7 DEF TickFails, Fails
<1>8. CASE TickRecalculates
  BY <1>8 DEF TickRecalculates, Recalculated
<1>9. CASE TickThrows
  BY <1>9 DEF TickThrows, RecalculationThrows, Fails
<1>10. CASE TickUndo
  BY <1>10 DEF TickUndo
<1>11. CASE TickUndoFails
  BY <1>11 DEF TickUndoFails, Fails
<1>12. CASE TickDump
  BY <1>12 DEF TickDump, WriteDump
<1>13. ASSUME NEW r \in Posts, PostBegin(r) PROVE QwenShown'
  BY <1>13 DEF PostBegin
<1>14. ASSUME NEW r \in Posts, CodexAnswers(r) PROVE QwenShown'
  BY <1>14 DEF CodexAnswers
<1>15. ASSUME NEW r \in Posts, CodexFails(r) PROVE QwenShown'
  BY <1>15 DEF CodexFails, Fails
<1>16. ASSUME NEW r \in Posts, QwenAnswers(r) PROVE QwenShown'
  BY <1>16 DEF QwenAnswers
<1>17. ASSUME NEW r \in Posts, QwenFails(r) PROVE QwenShown'
  BY <1>17 DEF QwenFails, Fails
<1>18. ASSUME NEW r \in Posts, PostRecalculates(r) PROVE QwenShown'
  BY <1>18 DEF PostRecalculates, Recalculated, PostDone
<1>19. ASSUME NEW r \in Posts, PostThrows(r) PROVE QwenShown'
  BY <1>19 DEF PostThrows, RecalculationThrows, Fails
<1>20. ASSUME NEW r \in Posts, UndoCodex(r) PROVE QwenShown'
  BY <1>20 DEF UndoCodex
<1>21. ASSUME NEW r \in Posts, UndoQwen(r) PROVE QwenShown'
  BY <1>21 DEF UndoQwen, PostDone
<1>22. ASSUME NEW r \in Posts, UndoFails(r) PROVE QwenShown'
  BY <1>22 DEF UndoFails, Fails, PostDone
<1>23. ASSUME NEW f \in Files, Ingest(f) PROVE QwenShown'
  BY <1>23 DEF Ingest
<1>24. ASSUME NEW f \in Files, Delete(f) PROVE QwenShown'
  BY <1>24 DEF Delete
<1>25. ASSUME NEW f \in Files, Remove(f) PROVE QwenShown'
  BY <1>25 DEF Remove
<1>26. ASSUME NEW reused \in SUBSET Files, Boot(reused) PROVE QwenShown'
  BY <1>26 DEF Boot, NoDump
<1> QED BY <1>1, <1>2, <1>3, <1>4, <1>5, <1>6, <1>7, <1>8, <1>9, <1>10, <1>11, <1>12, <1>13, <1>14, <1>15, <1>16, <1>17, <1>18, <1>19, <1>20, <1>21, <1>22, <1>23, <1>24, <1>25, <1>26 DEF Next, Post, Tick

LEMMA CodexStep ==
  ASSUME TypesOK, TurnsOK, CodexShown, [Next]_vars
  PROVE  CodexShown'
<1> USE DEF TypesOK, TurnsOK, CodexShown, ShowCodex, Window, Listed, InTurn, Free, Now, NoUndo, rates, store, requests, tick, bounds
<1>1. CASE UNCHANGED vars
  BY <1>1 DEF vars
<1>2. CASE NewDay
  BY <1>2 DEF NewDay
<1>3. CASE Dump
  <2>1. sources' = sources /\ card' = card /\ post' = post /\ undo' = undo /\ saved' = [ctx |-> Now, src |-> sources]
    BY <1>3 DEF Dump, WriteDump
  <2>2. ~midway' => ~midway /\ \A r \in Posts : ~Window(r)
    BY <1>3 DEF Dump, WriteDump
  <2>3. Now # None /\ Now.codex = card
    BY NoneApart DEF Context
  <2> QED BY <2>1, <2>2, <2>3
<1>4. CASE Crash
  BY <1>4 DEF Crash
<1>5. CASE TickBegin
  BY <1>5 DEF TickBegin
<1>6. CASE TickAnswers
  BY <1>6 DEF TickAnswers
<1>7. CASE TickFails
  BY <1>7 DEF TickFails, Fails
<1>8. CASE TickRecalculates
  BY <1>8 DEF TickRecalculates, Recalculated
<1>9. CASE TickThrows
  BY <1>9 DEF TickThrows, RecalculationThrows, Fails
<1>10. CASE TickUndo
  BY <1>10 DEF TickUndo
<1>11. CASE TickUndoFails
  BY <1>11 DEF TickUndoFails, Fails
<1>12. CASE TickDump
  <2>1. sources' = sources /\ card' = card /\ post' = post /\ undo' = undo /\ saved' = [ctx |-> Now, src |-> sources]
    BY <1>12 DEF TickDump, WriteDump
  <2>2. ~midway' => ~midway /\ \A r \in Posts : ~Window(r)
    BY <1>12 DEF TickDump, WriteDump
  <2>3. Now # None /\ Now.codex = card
    BY NoneApart DEF Context
  <2> QED BY <2>1, <2>2, <2>3
<1>13. ASSUME NEW r \in Posts, PostBegin(r) PROVE CodexShown'
  BY <1>13 DEF PostBegin
<1>14. ASSUME NEW r \in Posts, CodexAnswers(r) PROVE CodexShown'
  BY <1>14 DEF CodexAnswers
<1>15. ASSUME NEW r \in Posts, CodexFails(r) PROVE CodexShown'
  BY <1>15 DEF CodexFails, Fails
<1>16. ASSUME NEW r \in Posts, QwenAnswers(r) PROVE CodexShown'
  BY <1>16 DEF QwenAnswers
<1>17. ASSUME NEW r \in Posts, QwenFails(r) PROVE CodexShown'
  BY <1>17 DEF QwenFails, Fails
<1>18. ASSUME NEW r \in Posts, PostRecalculates(r) PROVE CodexShown'
  BY <1>18 DEF PostRecalculates, Recalculated, PostDone
<1>19. ASSUME NEW r \in Posts, PostThrows(r) PROVE CodexShown'
  BY <1>19 DEF PostThrows, RecalculationThrows, Fails
<1>20. ASSUME NEW r \in Posts, UndoCodex(r) PROVE CodexShown'
  BY <1>20 DEF UndoCodex
<1>21. ASSUME NEW r \in Posts, UndoQwen(r) PROVE CodexShown'
  BY <1>21 DEF UndoQwen, PostDone
<1>22. ASSUME NEW r \in Posts, UndoFails(r) PROVE CodexShown'
  BY <1>22 DEF UndoFails, Fails, PostDone
<1>23. ASSUME NEW f \in Files, Ingest(f) PROVE CodexShown'
  BY <1>23 DEF Ingest
<1>24. ASSUME NEW f \in Files, Delete(f) PROVE CodexShown'
  BY <1>24 DEF Delete
<1>25. ASSUME NEW f \in Files, Remove(f) PROVE CodexShown'
  BY <1>25 DEF Remove
<1>26. ASSUME NEW reused \in SUBSET Files, Boot(reused) PROVE CodexShown'
  BY <1>26 DEF Boot, NoDump
<1> QED BY <1>1, <1>2, <1>3, <1>4, <1>5, <1>6, <1>7, <1>8, <1>9, <1>10, <1>11, <1>12, <1>13, <1>14, <1>15, <1>16, <1>17, <1>18, <1>19, <1>20, <1>21, <1>22, <1>23, <1>24, <1>25, <1>26 DEF Next, Post, Tick

LEMMA PriceInit == Init => PriceInv
<1> SUFFICES ASSUME Init PROVE PriceInv
  OBVIOUS
<1>1. TypesOK
  BY DEF Init, TypesOK, InTurn, PriceType, DayType, Context, NoUndo, NoDump
<1>2. TurnsOK
  BY DEF Init, TurnsOK, InTurn, Free, NoUndo
<1>3. QwenShown /\ CodexShown
  BY DEF Init, QwenShown, CodexShown, ShowQwen, ShowCodex, Listed, Window, InTurn, NoDump
<1> QED BY <1>1, <1>2, <1>3 DEF PriceInv

LEMMA PriceInvAlways == Spec => []PriceInv
<1>1. PriceInv /\ [Next]_vars => PriceInv'
  BY TypesStep, TurnsStep, QwenStep, CodexStep DEF PriceInv
<1> QED BY <1>1, PriceInit, PTL DEF Spec

\* Whenever a callback other than an updater's own turn runs, the listed
\* sessions, and a dump that a restart would accept, show the Qwen rates on
\* file, unless a rollback could not write its file: a POST and the automatic
\* refresh may overlap in their waits, and each restores what it replaced.
THEOREM QwenPricesCurrentAlways == Spec => []QwenPricesCurrent
<1>1. PriceInv => QwenPricesCurrent
  <2> SUFFICES ASSUME PriceInv, Free, ~unmended
               PROVE  /\ \A f \in Listed : sources[f].qwen = prices
                      /\ saved.ctx = Now => \A f \in Files : saved.src[f] # None => saved.src[f].qwen = prices
    BY DEF QwenPricesCurrent
  <2>1. ShowQwen(prices) /\ \A f \in Files : saved.src[f] # None => saved.src[f].qwen = saved.ctx.qwen
    BY DEF PriceInv, QwenShown
  <2> QED BY <2>1 DEF ShowQwen, Now
<1> QED BY <1>1, PriceInvAlways, PTL

\* The same of the Codex card, which a POST writes before it waits for Qwen:
\* outside those windows the sessions and an acceptable dump show the card on
\* file, provided nothing was dumped or rolled back inside one.
THEOREM CodexPricesSettledAlways == Spec => []CodexPricesSettled
<1>1. PriceInv => CodexPricesSettled
  <2> SUFFICES ASSUME PriceInv, ~midway, \A r \in Posts : ~Window(r)
               PROVE  /\ \A f \in Listed : sources[f].codex = card
                      /\ saved.ctx = Now => \A f \in Files : saved.src[f] # None => saved.src[f].codex = card
    BY DEF CodexPricesSettled
  <2>1. ShowCodex(card) /\ \A f \in Files : saved.src[f] # None => saved.src[f].codex = saved.ctx.codex
    BY DEF PriceInv, CodexShown
  <2> QED BY <2>1 DEF ShowCodex, Now
<1> QED BY <1>1, PriceInvAlways, PTL

====
