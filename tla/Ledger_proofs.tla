---- MODULE Ledger_proofs ----
(***************************************************************************)
(* Proofs about Ledger, for logs of any length: the turns are the requests *)
(* that codex made; each shows its own calls with their own outputs; a     *)
(* session is marked as wrong when its sum is.  LedgerInv says what the     *)
(* builder knows of the log so far (its window, tier, last count and sum),  *)
(* ToolsInv where each call is: waiting in the window or for a closed turn, *)
(* or answered in the turn of its request.  Sums and lists, which the code  *)
(* builds element by element, are recursive functions; what holds of each   *)
(* of their steps is shown of all by the lemma HasAll.                      *)
(***************************************************************************)
EXTENDS Ledger, WellFoundedInduction, SequenceTheorems, FiniteSetTheorems, TLAPS

---------------------------------------------------------------------------
\* Least and greatest numbers, in place of induction, whose theorems take an
\* operator that the provers cannot supply.

\* A set of natural numbers has a least element.
LEMMA LeastExists == ASSUME NEW S \in SUBSET Nat, S # {}
                     PROVE  \E m \in S : \A k \in S : m <= k
<1>1. PICK m \in S : \A k \in S : ~ (<<k, m>> \in OpToRel(<, Nat))
  BY NatLessThanWellFounded, WFMin
<1>2. \A k \in S : ~(k < m)
  BY <1>1 DEF OpToRel
<1> QED BY <1>2

\* Induction: a set that has 0 and the successor of each of its elements.
LEMMA HasAll == ASSUME NEW n \in Nat, NEW S, 0 \in S, \A k \in 0..(n - 1) : k \in S => k + 1 \in S
                PROVE  0..n \subseteq S
<1> DEFINE Missing == {k \in 0..n : k \notin S}
<1> SUFFICES ASSUME Missing # {} PROVE FALSE
  OBVIOUS
<1>1. PICK m \in Missing : \A k \in Missing : m <= k
  <2>1. Missing \in SUBSET Nat
    OBVIOUS
  <2> HIDE DEF Missing
  <2> QED BY <2>1, LeastExists
<1>2. m # 0 /\ m - 1 \in 0..(n - 1) /\ m - 1 \notin Missing
  BY <1>1
<1>3. (m - 1) + 1 \in S
  BY <1>2
<1>4. (m - 1) + 1 = m
  BY <1>1
<1> QED BY <1>1, <1>3, <1>4

\* Max is the greatest element of a bounded set.
LEMMA MaxIs == ASSUME NEW n \in Nat, NEW S \in SUBSET (1..n), S # {}
               PROVE  Max(S) \in S /\ \A k \in S : Max(S) >= k
<1> DEFINE Above == {m \in Nat : \A k \in S : m >= k}
<1>1. n \in Above
  OBVIOUS
<1>2. PICK m \in Above : \A k \in Above : m <= k
  <2> HIDE DEF Above
  <2>1. Above \in SUBSET Nat
    BY DEF Above
  <2> QED BY <1>1, <2>1, LeastExists
<1>3. m \in S
  <2> SUFFICES ASSUME m \notin S PROVE FALSE
    OBVIOUS
  <2>1. \A k \in S : m - 1 >= k /\ k >= 1
    BY <1>2
  <2>2. m \in Nat /\ m - 1 \in Nat
    <3>1. PICK k \in S : TRUE
      OBVIOUS
    <3>2. m - 1 >= k /\ k >= 1
      BY <2>1, <3>1
    <3> QED BY <3>2
  <2>3. m - 1 \in Above
    BY <2>1, <2>2
  <2> HIDE DEF Above
  <2>4. m <= m - 1
    BY <1>2, <2>3
  <2>5. ~(m <= m - 1)
    BY <2>2
  <2> QED BY <2>4, <2>5
<1>4. \E x \in S : \A y \in S : x >= y
  BY <1>2, <1>3
<1> QED BY <1>4 DEF Max

\* A number in a set that is not less than any other is its Max.
LEMMA MaxOf == ASSUME NEW S \in SUBSET Nat, NEW m \in S, \A k \in S : m >= k
               PROVE  Max(S) = m
<1>1. \A x \in S : (\A y \in S : x >= y) => x = m
  OBVIOUS
<1>2. \E x \in S : \A y \in S : x >= y
  OBVIOUS
<1> QED BY <1>1, <1>2 DEF Max

\* A function on 1..n is a sequence of length n.
LEMMA FromFunction == ASSUME NEW T, NEW n \in Nat, NEW s \in [1..n -> T]
                      PROVE  s \in Seq(T) /\ Len(s) = n
<1>1. s \in Seq(T)
  BY SeqDef
<1> QED BY <1>1, LenProperties

---------------------------------------------------------------------------
\* Spent, which is defined by recursion, is the end of the partial sums.

PartialSums(f, turns, n) ==
    /\ f \in [0..n -> Nat] /\ f[0] = 0
    /\ \A k \in 1..n : f[k] = f[k - 1] + turns[k].usage

HaveUsages(turns) == Len(turns) \in Nat /\ \A i \in 1..Len(turns) : turns[i].usage \in Nat

\* Every list of turns has its partial sums.
LEMMA SumsExist == ASSUME NEW turns, HaveUsages(turns)
                   PROVE  \E f : PartialSums(f, turns, Len(turns))
<1> DEFINE n == Len(turns)
<1> DEFINE Summed == {k \in 0..n : \E f : PartialSums(f, turns, k)}
<1>1. 0 \in Summed
  <2>1. PartialSums([k \in 0..0 |-> 0], turns, 0)
    BY DEF PartialSums
  <2> QED BY <2>1 DEF HaveUsages
<1>2. ASSUME NEW k \in 0..(n - 1), k \in Summed PROVE k + 1 \in Summed
  <2>1. PICK f : PartialSums(f, turns, k)
    BY <1>2
  <2> DEFINE g == [i \in 0..(k + 1) |-> IF i = k + 1 THEN f[k] + turns[k + 1].usage ELSE f[i]]
  <2>2. turns[k + 1].usage \in Nat
    BY DEF HaveUsages
  <2>3. f \in [0..k -> Nat] /\ f[0] = 0 /\ \A i \in 1..k : f[i] = f[i - 1] + turns[i].usage
    BY <2>1 DEF PartialSums
  <2>4. g \in [0..(k + 1) -> Nat] /\ g[0] = 0
    BY <2>2, <2>3
  <2>5. ASSUME NEW i \in 1..(k + 1) PROVE g[i] = g[i - 1] + turns[i].usage
    <3>1. i - 1 \in 0..k /\ g[i - 1] = f[i - 1]
      OBVIOUS
    <3> QED BY <2>3, <3>1
  <2>6. PartialSums(g, turns, k + 1)
    <3> HIDE DEF g
    <3> QED BY <2>4, <2>5 DEF PartialSums
  <2>7. k + 1 \in 0..n
    BY DEF HaveUsages
  <2> QED BY <2>6, <2>7
<1>3. n \in 0..n /\ n \in Nat
  BY DEF HaveUsages
<1> HIDE DEF Summed
<1>4. 0..n \subseteq Summed
  BY <1>1, <1>2, <1>3, HasAll
<1> QED BY <1>3, <1>4 DEF Summed

\* Spent is the last of the partial sums.
LEMMA SpentIs == ASSUME NEW turns, HaveUsages(turns)
                 PROVE  \E f : PartialSums(f, turns, Len(turns)) /\ Spent(turns) = f[Len(turns)]
<1> DEFINE n == Len(turns)
           Sums(f) == [k \in 0..n |-> IF k = 0 THEN 0 ELSE f[k - 1] + turns[k].usage]
           upTo == CHOOSE f : f = Sums(f)
<1>1. PICK f : PartialSums(f, turns, n)
  BY SumsExist
<1>2. n \in Nat
  BY DEF HaveUsages
<1>3. f = Sums(f)
  BY <1>1, <1>2 DEF PartialSums
<1>4. upTo = Sums(upTo)
  BY <1>3
<1>5. Spent(turns) = upTo[n]
  BY DEF Spent
<1> HIDE DEF upTo
<1>6. \A k \in 0..n : upTo[k] = IF k = 0 THEN 0 ELSE upTo[k - 1] + turns[k].usage
  BY <1>4
<1> DEFINE Natural == {k \in 0..n : upTo[k] \in Nat}
<1>7. 0 \in Natural
  BY <1>2, <1>6
<1>8. ASSUME NEW k \in 0..(n - 1), k \in Natural PROVE k + 1 \in Natural
  <2>1. k + 1 \in 0..n /\ turns[k + 1].usage \in Nat
    BY <1>2 DEF HaveUsages
  <2>2. upTo[k + 1] = upTo[k] + turns[k + 1].usage
    BY <1>6, <2>1
  <2> QED BY <1>8, <2>1, <2>2
<1> HIDE DEF Natural
<1>9. 0..n \subseteq Natural
  BY <1>2, <1>7, <1>8, HasAll
<1>10. upTo \in [0..n -> Nat]
  BY <1>4, <1>9 DEF Natural
<1>11. PartialSums(upTo, turns, n)
  BY <1>2, <1>6, <1>10 DEF PartialSums
<1> QED BY <1>5, <1>11

\* Lists that agree on their first n usages have spent the same up to there.
LEMMA SumsAgree == ASSUME NEW s, NEW t, NEW f, NEW g, NEW m \in Nat, NEW n \in 0..m,
                          PartialSums(f, s, n), PartialSums(g, t, m),
                          \A i \in 1..n : s[i].usage = t[i].usage
                   PROVE  f[n] = g[n]
<1> DEFINE Same == {k \in 0..n : f[k] = g[k]}
<1>1. 0 \in Same
  BY DEF PartialSums
<1>2. ASSUME NEW k \in 0..(n - 1), k \in Same PROVE k + 1 \in Same
  <2>1. k + 1 \in 1..n /\ k + 1 \in 1..m /\ (k + 1) - 1 = k
    OBVIOUS
  <2>2. f[k + 1] = f[k] + s[k + 1].usage /\ g[k + 1] = g[k] + t[k + 1].usage
    BY <2>1 DEF PartialSums
  <2> QED BY <1>2, <2>1, <2>2
<1> HIDE DEF Same
<1>3. 0..n \subseteq Same
  BY <1>1, <1>2, HasAll
<1> QED BY <1>3 DEF Same

\* Nothing is spent on no turns.
LEMMA SpentNothing == Spent(<<>>) = 0
<1>1. HaveUsages(<<>>) /\ Len(<<>>) = 0
  BY DEF HaveUsages
<1>2. PICK f : PartialSums(f, <<>>, Len(<<>>)) /\ Spent(<<>>) = f[Len(<<>>)]
  BY <1>1, SpentIs
<1> QED BY <1>1, <1>2 DEF PartialSums

\* A list that differs in other fields only has spent the same.
LEMMA SpentSame == ASSUME NEW s, NEW t, HaveUsages(s), HaveUsages(t), Len(s) = Len(t),
                          \A i \in 1..Len(s) : s[i].usage = t[i].usage
                   PROVE  Spent(s) = Spent(t)
<1>1. PICK f : PartialSums(f, s, Len(s)) /\ Spent(s) = f[Len(s)]
  BY SpentIs
<1>2. PICK g : PartialSums(g, t, Len(t)) /\ Spent(t) = g[Len(t)]
  BY SpentIs
<1>3. Len(s) \in Nat /\ Len(s) \in 0..Len(s)
  BY DEF HaveUsages
<1>4. f[Len(s)] = g[Len(s)]
  <2> DEFINE n == Len(s)
  <2>1. PartialSums(f, s, n) /\ PartialSums(g, t, n) /\ \A i \in 1..n : s[i].usage = t[i].usage
    BY <1>1, <1>2
  <2>2. n \in Nat /\ n \in 0..n
    BY <1>3
  <2> HIDE DEF n
  <2>3. f[n] = g[n]
    BY <2>1, <2>2, SumsAgree
  <2> QED BY <2>3 DEF n
<1> QED BY <1>1, <1>2, <1>4

\* One more turn adds its usage, and Spent is a natural number.
LEMMA SpentMore == ASSUME NEW s, NEW t, HaveUsages(s), HaveUsages(t), Len(t) = Len(s) + 1,
                          \A i \in 1..Len(s) : s[i].usage = t[i].usage
                   PROVE  Spent(t) = Spent(s) + t[Len(t)].usage /\ Spent(s) \in Nat
<1>1. PICK f : PartialSums(f, s, Len(s)) /\ Spent(s) = f[Len(s)]
  BY SpentIs
<1>2. PICK g : PartialSums(g, t, Len(t)) /\ Spent(t) = g[Len(t)]
  BY SpentIs
<1>3. Len(s) \in Nat /\ Len(t) \in 1..Len(t) /\ Len(t) - 1 = Len(s) /\ Len(s) <= Len(t)
  BY DEF HaveUsages
<1>4. f[Len(s)] = g[Len(s)]
  <2>1. Len(s) \in Nat /\ Len(t) \in Nat /\ Len(s) <= Len(t)
    BY DEF HaveUsages
  <2> DEFINE n == Len(s) m == Len(t)
  <2>2. PartialSums(f, s, n) /\ PartialSums(g, t, m) /\ \A i \in 1..n : s[i].usage = t[i].usage
    BY <1>1, <1>2
  <2>3. m \in Nat /\ n \in 0..m
    BY <2>1
  <2> HIDE DEF n, m
  <2>4. f[n] = g[n]
    BY <2>2, <2>3, SumsAgree
  <2> QED BY <2>4 DEF n
<1>5. g[Len(t)] = g[Len(s)] + t[Len(t)].usage
  <2>1. g[Len(t)] = g[Len(t) - 1] + t[Len(t)].usage
    BY <1>2, <1>3 DEF PartialSums
  <2> QED BY <1>3, <2>1
<1>6. f[Len(s)] \in Nat
  BY <1>1, <1>3 DEF PartialSums
<1>7. Spent(t) = g[Len(t)] /\ Spent(s) = f[Len(s)]
  BY <1>1, <1>2
<1>8. Spent(t) = Spent(s) + t[Len(t)].usage
  BY <1>4, <1>5, <1>7
<1>9. Spent(s) \in Nat
  BY <1>6, <1>7
<1> QED BY <1>8, <1>9

---------------------------------------------------------------------------
\* The inductive invariant.

ToolType == [call : Nat, output : Nat]
WindowType == [promptParts : Seq(Prompts), pendingTools : Seq(Nat), tools : Seq(ToolType),
               hasPatchApply : BOOLEAN]
TurnType == [usage : Nat, fastMode : BOOLEAN, hasPatchApply : BOOLEAN, prompt : Seq(Prompts),
             tools : Seq(ToolType)]
BuilderType ==
    [isSubagent : BOOLEAN, armed : BOOLEAN, settingsFastMode : BOOLEAN, fastMode : BOOLEAN,
     window : WindowType, outstanding : Seq([call : Nat, turn : Nat]), lastPrompt : Seq(Prompts),
     prevLast : Nat, prevTotal : Nat, running : Nat, warning : BOOLEAN, turns : Seq(TurnType)]
DoneType == [parts : Seq(Prompts), calls : SUBSET Nat, patch : BOOLEAN]
RequestType == [parts : Seq(Prompts), calls : SUBSET Nat, patch : BOOLEAN, usage : Nat, fast : BOOLEAN]
TierType == [kind : {"context", "settings", "other"}, mode : Modes]

LedgerTypes ==
    /\ builder \in BuilderType
    /\ isSubagent \in BOOLEAN /\ started \in BOOLEAN /\ unread \in BOOLEAN
    /\ last \in Nat /\ total \in Nat /\ calls \in Nat /\ lost \in Nat
    /\ waiting \subseteq Nat
    /\ tiers \in Seq(TierType) /\ requests \in Seq(RequestType) /\ current \in DoneType

\* The builder listens to its own part of the log only: before it, it is as new.
Listens ==
    /\ builder.armed = Own
    /\ ~Own => /\ builder.turns = <<>> /\ requests = <<>> /\ current = Nothing /\ lost = 0
               /\ builder.window = newWindow /\ builder.outstanding = <<>>
               /\ builder.lastPrompt = <<>> /\ ~builder.warning
               /\ builder.prevLast = 0 /\ builder.prevTotal = 0 /\ builder.running = 0

\* An outstanding call is of a turn there is.
OutstandingInTurns == \A k \in DOMAIN builder.outstanding : builder.outstanding[k].turn \in DOMAIN builder.turns

\* The window is what has been done since the last request.
WindowIsCurrent ==
    /\ builder.window.promptParts = current.parts
    /\ builder.window.hasPatchApply = current.patch
    /\ builder.lastPrompt = PromptOf(Len(requests))

\* The tier by the rule of the log, of all its lines or of a set of them.
OwnTiers(ts) == {i \in DOMAIN ts : ts[i].kind = "settings" /\ ts[i].mode # None}
ThreadTiers(ts) == OwnTiers(ts) \cup {i \in DOMAIN ts : ts[i].kind = "context"}
FastBy(ts, is) == is # {} /\ ts[Max(is)].mode = TRUE
TierInForce ==
    /\ builder.settingsFastMode = FastBy(tiers, OwnTiers(tiers))
    /\ builder.fastMode = InForce

\* A count that is new differs from the one kept last.
CountIsKnown ==
    Own => /\ builder.prevTotal <= total
           /\ builder.turns # <<>> => last # 0
           /\ unread => builder.turns = <<>> \/ builder.prevTotal < total
           /\ ~unread /\ last # 0 =>
                  builder.turns # <<>> /\ builder.prevLast = last /\ builder.prevTotal = total
           /\ last = 0 => total = 0

\* What is summed up, what codex counted, and what was lost of it.
SumIsKnown ==
    /\ builder.running = Spent(builder.turns)
    /\ builder.warning => lost > 0
    /\ Own => /\ ~unread => builder.warning \/ builder.running - total \in -1..1
              /\ unread => lost > 0
              /\ lost = 0 => builder.running = total

OnceEach(tools) == \A k, l \in DOMAIN tools : tools[k].call = tools[l].call => k = l
CallsOf(tools) == {tools[k].call : k \in DOMAIN tools}
Distinct(open) == \A k, l \in DOMAIN open : open[k] = open[l] => k = l
Elements(open) == {open[k] : k \in DOMAIN open}
WaitingIn(outstanding, i) == {outstanding[k].call : k \in {l \in DOMAIN outstanding : outstanding[l].turn = i}}

\* The calls without an output wait in the window or for a closed turn;
PendingIsWaiting ==
    /\ Distinct(builder.window.pendingTools)
    /\ Elements(builder.window.pendingTools) = current.calls \cap waiting
    /\ OnceEach(builder.outstanding)
    /\ \A i \in DOMAIN requests : WaitingIn(builder.outstanding, i) = requests[i].calls \cap waiting

\* the others have their output, in the turn of their request.
Answered(tools, made, open) ==
    /\ OnceEach(tools)
    /\ CallsOf(tools) = made \ open
    /\ \A k \in DOMAIN tools : tools[k].output = tools[k].call

OutputsAreTheirs ==
    /\ Answered(builder.window.tools, current.calls, waiting)
    /\ \A i \in DOMAIN requests : Answered(builder.turns[i].tools, requests[i].calls, waiting)

\* A call is made for one request.
CallsApart ==
    /\ current.calls \subseteq 1..calls /\ waiting \subseteq 1..calls
    /\ \A i \in DOMAIN requests : /\ requests[i].calls \subseteq 1..calls
                                  /\ requests[i].calls \cap current.calls = {}
    /\ \A i, j \in DOMAIN requests : i # j => requests[i].calls \cap requests[j].calls = {}

LedgerInv ==
    /\ LedgerTypes /\ Listens /\ OutstandingInTurns /\ WindowIsCurrent /\ TierInForce
    /\ CountIsKnown /\ SumIsKnown /\ TurnsAreRequests

ToolsInv == PendingIsWaiting /\ OutputsAreTheirs /\ CallsApart

---------------------------------------------------------------------------
\* What each event does to a builder, field by field.

SameTier(b, c) == c.settingsFastMode = b.settingsFastMode /\ c.fastMode = b.fastMode
SameCounts(b, c) == /\ c.lastPrompt = b.lastPrompt /\ c.prevLast = b.prevLast
                    /\ c.prevTotal = b.prevTotal /\ c.running = b.running
SameTurns(b, c) == c.turns = b.turns /\ c.outstanding = b.outstanding

LEMMA NewBuilderIs == ASSUME NEW sub \in BOOLEAN
                      PROVE  NewBuilder(sub) \in BuilderType
<1>1. newWindow \in WindowType
  BY DEF newWindow, WindowType
<1> QED BY <1>1 DEF NewBuilder, BuilderType

LEMMA TurnContextDoes ==
    ASSUME NEW b \in BuilderType, NEW mode \in Modes, NEW c, c = TurnContext(b, mode)
    PROVE  /\ c \in BuilderType /\ c.armed = b.armed /\ c.window = b.window /\ c.warning = b.warning
           /\ SameCounts(b, c) /\ SameTurns(b, c)
           /\ c.settingsFastMode = b.settingsFastMode
           /\ c.fastMode = IF mode = None THEN b.settingsFastMode ELSE mode
<1>1. (IF mode = None THEN b.settingsFastMode ELSE mode) \in BOOLEAN
  BY DEF BuilderType, Modes
<1> QED BY <1>1 DEF BuilderType, TurnContext, SameCounts, SameTurns

LEMMA ThreadSettingsDoes ==
    ASSUME NEW b \in BuilderType, NEW mode \in Modes,
           NEW c, c = IF mode = None THEN b ELSE [b EXCEPT !.settingsFastMode = mode, !.fastMode = mode]
    PROVE  /\ c \in BuilderType /\ c.armed = b.armed /\ c.window = b.window /\ c.warning = b.warning
           /\ SameCounts(b, c) /\ SameTurns(b, c)
           /\ mode = None => SameTier(b, c)
           /\ mode # None => c.settingsFastMode = mode /\ c.fastMode = mode
<1>1. mode # None => mode \in BOOLEAN
  BY DEF Modes
<1> QED BY <1>1 DEF BuilderType, SameCounts, SameTurns, SameTier

LEMMA TaskStartedDoes ==
    ASSUME NEW b \in BuilderType, NEW c, c = TaskStarted(b)
    PROVE  /\ c \in BuilderType /\ c.armed /\ c.window = b.window /\ c.warning = b.warning
           /\ SameCounts(b, c) /\ SameTurns(b, c) /\ SameTier(b, c)
BY DEF BuilderType, TaskStarted, SameCounts, SameTurns, SameTier

\* The window with something more in it.
LEMMA WindowDoes ==
    ASSUME NEW b \in BuilderType, NEW w \in WindowType, NEW c, c = [b EXCEPT !.window = w]
    PROVE  /\ c \in BuilderType /\ c.armed = b.armed /\ c.window = w /\ c.warning = b.warning
           /\ SameCounts(b, c) /\ SameTurns(b, c) /\ SameTier(b, c)
BY DEF BuilderType, SameCounts, SameTurns, SameTier

LEMMA UserMessageDoes ==
    ASSUME NEW b \in BuilderType, NEW text \in Prompts, NEW c, c = UserMessage(b, text)
    PROVE  /\ c \in BuilderType /\ c.armed = b.armed /\ c.warning = b.warning
           /\ SameCounts(b, c) /\ SameTurns(b, c) /\ SameTier(b, c)
           /\ ~b.armed => c.window = b.window
           /\ b.armed => /\ c.window.promptParts = Append(b.window.promptParts, text)
                         /\ c.window.hasPatchApply = b.window.hasPatchApply
                         /\ c.window.pendingTools = b.window.pendingTools
                         /\ c.window.tools = b.window.tools
<1>1. CASE ~b.armed
  BY <1>1 DEF UserMessage, SameCounts, SameTurns, SameTier
<1>2. CASE b.armed
  <2> DEFINE w == [b.window EXCEPT !.promptParts = Append(b.window.promptParts, text)]
  <2>1. b.window \in WindowType
    BY DEF BuilderType
  <2>2. Append(b.window.promptParts, text) \in Seq(Prompts)
    BY <2>1 DEF WindowType
  <2>3. w \in WindowType
    BY <2>1, <2>2 DEF WindowType
  <2>4. /\ w.promptParts = Append(b.window.promptParts, text)
        /\ w.hasPatchApply = b.window.hasPatchApply
        /\ w.pendingTools = b.window.pendingTools /\ w.tools = b.window.tools
    BY <2>1 DEF WindowType
  <2>5. c = [b EXCEPT !.window = w]
    BY <1>2 DEF UserMessage
  <2> HIDE DEF w
  <2> QED BY <1>2, <2>3, <2>4, <2>5, WindowDoes
<1> QED BY <1>1, <1>2

LEMMA PatchApplyDoes ==
    ASSUME NEW b \in BuilderType, NEW c, c = PatchApply(b)
    PROVE  /\ c \in BuilderType /\ c.armed = b.armed /\ c.warning = b.warning
           /\ SameCounts(b, c) /\ SameTurns(b, c) /\ SameTier(b, c)
           /\ ~b.armed => c.window = b.window
           /\ b.armed => /\ c.window.promptParts = b.window.promptParts
                         /\ c.window.hasPatchApply = TRUE
                         /\ c.window.pendingTools = b.window.pendingTools
                         /\ c.window.tools = b.window.tools
<1>1. CASE ~b.armed
  BY <1>1 DEF PatchApply, SameCounts, SameTurns, SameTier
<1>2. CASE b.armed
  <2> DEFINE w == [b.window EXCEPT !.hasPatchApply = TRUE]
  <2>1. b.window \in WindowType
    BY DEF BuilderType
  <2>3. w \in WindowType
    BY <2>1 DEF WindowType
  <2>4. /\ w.promptParts = b.window.promptParts /\ w.hasPatchApply = TRUE
        /\ w.pendingTools = b.window.pendingTools /\ w.tools = b.window.tools
    BY <2>1 DEF WindowType
  <2>5. c = [b EXCEPT !.window = w]
    BY <1>2 DEF PatchApply
  <2> HIDE DEF w
  <2>6. /\ c \in BuilderType /\ c.armed = b.armed /\ c.window = w /\ c.warning = b.warning
        /\ SameCounts(b, c) /\ SameTurns(b, c) /\ SameTier(b, c)
    BY <2>3, <2>5, WindowDoes
  <2> QED BY <1>2, <2>4, <2>6
<1> QED BY <1>1, <1>2

LEMMA ToolCallDoes ==
    ASSUME NEW b \in BuilderType, NEW call \in Nat, NEW c, c = ToolCall(b, call)
    PROVE  /\ c \in BuilderType /\ c.armed = b.armed /\ c.warning = b.warning
           /\ SameCounts(b, c) /\ SameTurns(b, c) /\ SameTier(b, c)
           /\ ~b.armed => c.window = b.window
           /\ b.armed => /\ c.window.promptParts = b.window.promptParts
                         /\ c.window.hasPatchApply = b.window.hasPatchApply
                         /\ c.window.pendingTools = Append(b.window.pendingTools, call)
                         /\ c.window.tools = b.window.tools
<1>1. CASE ~b.armed
  BY <1>1 DEF ToolCall, SameCounts, SameTurns, SameTier
<1>2. CASE b.armed
  <2> DEFINE w == [b.window EXCEPT !.pendingTools = Append(b.window.pendingTools, call)]
  <2>1. b.window \in WindowType
    BY DEF BuilderType
  <2>2. Append(b.window.pendingTools, call) \in Seq(Nat)
    BY <2>1 DEF WindowType
  <2>3. w \in WindowType
    BY <2>1, <2>2 DEF WindowType
  <2>4. /\ w.promptParts = b.window.promptParts
        /\ w.hasPatchApply = b.window.hasPatchApply
        /\ w.pendingTools = Append(b.window.pendingTools, call) /\ w.tools = b.window.tools
    BY <2>1 DEF WindowType
  <2>5. c = [b EXCEPT !.window = w]
    BY <1>2 DEF ToolCall
  <2> HIDE DEF w
  <2> QED BY <1>2, <2>3, <2>4, <2>5, WindowDoes
<1> QED BY <1>1, <1>2

LEMMA UnreadableCountDoes ==
    ASSUME NEW b \in BuilderType, NEW c, c = UnreadableCount(b)
    PROVE  /\ c \in BuilderType /\ c.armed = b.armed /\ c.window = b.window
           /\ SameCounts(b, c) /\ SameTurns(b, c) /\ SameTier(b, c)
           /\ b.armed => c.warning
           /\ ~b.armed => c.warning = b.warning
<1>1. CASE ~b.armed
  BY <1>1 DEF UnreadableCount, SameCounts, SameTurns, SameTier
<1>2. CASE b.armed
  <2>1. c = [b EXCEPT !.warning = TRUE]
    BY <1>2 DEF UnreadableCount
  <2> QED BY <1>2, <2>1 DEF BuilderType, SameCounts, SameTurns, SameTier
<1> QED BY <1>1, <1>2

LEMMA MinIs == ASSUME NEW S \in SUBSET Nat, S # {} PROVE Min(S) \in S
<1>1. \E m \in S : \A k \in S : m <= k
  BY LeastExists
<1> QED BY <1>1 DEF Min

IndexOf(open, call) == SelectInSeq(open, LAMBDA c : c = call)

LEMMA IndexIs == ASSUME NEW open \in Seq(Nat), NEW call, NEW o, o = IndexOf(open, call)
                 PROVE  /\ o \in 0..Len(open) /\ (o # 0 => open[o] = call)
                        /\ o = 0 => \A k \in 1..Len(open) : open[k] # call
<1> DEFINE I == {k \in 1..Len(open) : open[k] = call}
<1>1. o = IF I # {} THEN Min(I) ELSE 0
  BY DEF IndexOf, SelectInSeq
<1>2. I \in SUBSET Nat /\ Len(open) \in Nat
  OBVIOUS
<1>3. I # {} => Min(I) \in I
  <2> HIDE DEF I
  <2> QED BY <1>2, MinIs
<1>4. CASE I # {}
  <2>1. Min(I) \in 1..Len(open) /\ open[Min(I)] = call
    BY <1>3, <1>4
  <2>2. o = Min(I)
    BY <1>1, <1>4
  <2> HIDE DEF I
  <2>3. o \in 1..Len(open) /\ open[o] = call
    BY <2>1, <2>2
  <2> QED BY <1>2, <2>3
<1>5. CASE I = {}
  <2>1. o = 0
    BY <1>1, <1>5
  <2>2. \A k \in 1..Len(open) : open[k] # call
    BY <1>5
  <2> QED BY <1>2, <2>1, <2>2
<1> QED BY <1>4, <1>5

LEMMA RemoveAtIs == ASSUME NEW S, NEW s \in Seq(S), NEW i \in 1..Len(s)
                    PROVE  /\ RemoveAt(s, i) \in Seq(S) /\ Len(RemoveAt(s, i)) = Len(s) - 1
                           /\ \A k \in 1..(Len(s) - 1) :
                                  RemoveAt(s, i)[k] = IF k < i THEN s[k] ELSE s[k + 1]
<1> DEFINE a == SubSeq(s, 1, i - 1) z == SubSeq(s, i + 1, Len(s))
<1>1. a \in Seq(S) /\ Len(a) = i - 1 /\ \A k \in 1..(i - 1) : a[k] = s[k]
  OBVIOUS
<1>2. z \in Seq(S) /\ Len(z) = Len(s) - i /\ \A k \in 1..(Len(s) - i) : z[k] = s[k + i]
  OBVIOUS
<1> HIDE DEF a, z
<1>3. /\ a \o z \in Seq(S) /\ Len(a \o z) = Len(a) + Len(z)
      /\ \A k \in 1..(Len(a) + Len(z)) : (a \o z)[k] = IF k <= Len(a) THEN a[k] ELSE z[k - Len(a)]
  BY <1>1, <1>2, ConcatProperties
<1>4. RemoveAt(s, i) = a \o z
  BY DEF RemoveAt, a, z
<1>5. Len(a) + Len(z) = Len(s) - 1
  BY <1>1, <1>2
<1>6. ASSUME NEW k \in 1..(Len(s) - 1) PROVE (a \o z)[k] = IF k < i THEN s[k] ELSE s[k + 1]
  <2>1. CASE k < i
    BY <1>1, <1>3, <1>5, <2>1
  <2>2. CASE k >= i
    <3>1. (a \o z)[k] = z[k - (i - 1)] /\ k - (i - 1) \in 1..(Len(s) - i)
      BY <1>1, <1>3, <1>5, <2>2
    <3>2. (k - (i - 1)) + i = k + 1
      OBVIOUS
    <3> QED BY <1>2, <2>2, <3>1, <3>2
  <2>3. k < i \/ k >= i
    OBVIOUS
  <2> QED BY <2>1, <2>2, <2>3
<1> QED BY <1>3, <1>4, <1>5, <1>6

\* An output of a call that waits in the window.
PairInWindow(b, i, call) ==
    [b EXCEPT !.window.pendingTools = RemoveAt(@, i),
              !.window.tools = Append(@, finalizeTool(b.window.pendingTools[i], call))]

LEMMA PairInWindowDoes ==
    ASSUME NEW b \in BuilderType, NEW i \in 1..Len(b.window.pendingTools), NEW call \in Nat,
           NEW c, c = PairInWindow(b, i, call)
    PROVE  /\ c \in BuilderType /\ c.armed = b.armed /\ c.warning = b.warning
           /\ SameCounts(b, c) /\ SameTurns(b, c) /\ SameTier(b, c)
           /\ c.window.promptParts = b.window.promptParts
           /\ c.window.hasPatchApply = b.window.hasPatchApply
           /\ c.window.pendingTools = RemoveAt(b.window.pendingTools, i)
           /\ c.window.tools = Append(b.window.tools, finalizeTool(b.window.pendingTools[i], call))
<1> DEFINE tool == finalizeTool(b.window.pendingTools[i], call)
           w == [b.window EXCEPT !.pendingTools = RemoveAt(b.window.pendingTools, i),
                                 !.tools = Append(b.window.tools, tool)]
<1>1. b.window \in WindowType
  BY DEF BuilderType
<1>2. tool \in ToolType
  BY <1>1 DEF WindowType, finalizeTool, ToolType
<1>3. RemoveAt(b.window.pendingTools, i) \in Seq(Nat)
  BY <1>1, RemoveAtIs DEF WindowType
<1> HIDE DEF tool
<1>4. Append(b.window.tools, tool) \in Seq(ToolType)
  BY <1>1, <1>2 DEF WindowType
<1>5. w \in WindowType
  BY <1>1, <1>3, <1>4 DEF WindowType
<1>6. /\ w.promptParts = b.window.promptParts
      /\ w.hasPatchApply = b.window.hasPatchApply
      /\ w.pendingTools = RemoveAt(b.window.pendingTools, i) /\ w.tools = Append(b.window.tools, tool)
  BY <1>1 DEF WindowType
<1>7. c = [b EXCEPT !.window = w]
  BY <1>1 DEF PairInWindow, tool, BuilderType, WindowType
<1> HIDE DEF w
<1>8. /\ c \in BuilderType /\ c.armed = b.armed /\ c.window = w /\ c.warning = b.warning
      /\ SameCounts(b, c) /\ SameTurns(b, c) /\ SameTier(b, c)
  BY <1>5, <1>7, WindowDoes
<1> QED BY <1>6, <1>8 DEF tool

\* An output of a call of a turn that is closed.
PairInTurn(b, j, call) ==
    [b EXCEPT !.outstanding = RemoveAt(@, j),
              !.turns[b.outstanding[j].turn].tools =
                  Append(@, finalizeTool(b.outstanding[j].call, call))]

LEMMA PairInTurnDoes ==
    ASSUME NEW b \in BuilderType, NEW j \in 1..Len(b.outstanding), NEW call \in Nat,
           NEW t, t = b.outstanding[j].turn, t \in 1..Len(b.turns),
           NEW c, c = PairInTurn(b, j, call)
    PROVE  /\ c \in BuilderType /\ c.armed = b.armed /\ c.warning = b.warning /\ c.window = b.window
           /\ SameCounts(b, c) /\ SameTier(b, c)
           /\ c.outstanding = RemoveAt(b.outstanding, j)
           /\ Len(c.turns) = Len(b.turns)
           /\ \A i \in 1..Len(b.turns) :
                  /\ c.turns[i].usage = b.turns[i].usage /\ c.turns[i].fastMode = b.turns[i].fastMode
                  /\ c.turns[i].hasPatchApply = b.turns[i].hasPatchApply
                  /\ c.turns[i].prompt = b.turns[i].prompt
                  /\ i # t => c.turns[i].tools = b.turns[i].tools
           /\ c.turns[t].tools = Append(b.turns[t].tools, finalizeTool(b.outstanding[j].call, call))
<1> DEFINE tool == finalizeTool(b.outstanding[j].call, call)
           turn == [b.turns[t] EXCEPT !.tools = Append(b.turns[t].tools, tool)]
           turns == [b.turns EXCEPT ![t] = turn]
           waits == RemoveAt(b.outstanding, j)
<1>1. b.turns \in Seq(TurnType) /\ b.outstanding \in Seq([call : Nat, turn : Nat])
  BY DEF BuilderType
<1>2. tool \in ToolType
  <2>1. b.outstanding[j] \in [call : Nat, turn : Nat]
    BY <1>1, ElementOfSeq
  <2> QED BY <2>1 DEF finalizeTool, ToolType
<1>3. waits \in Seq([call : Nat, turn : Nat])
  BY <1>1, RemoveAtIs
<1>4. b.turns[t] \in TurnType
  BY <1>1
<1> HIDE DEF tool, waits
<1>5. Append(b.turns[t].tools, tool) \in Seq(ToolType)
  BY <1>2, <1>4 DEF TurnType
<1>6. /\ turn \in TurnType /\ turn.usage = b.turns[t].usage /\ turn.fastMode = b.turns[t].fastMode
      /\ turn.hasPatchApply = b.turns[t].hasPatchApply /\ turn.prompt = b.turns[t].prompt
      /\ turn.tools = Append(b.turns[t].tools, tool)
  BY <1>4, <1>5 DEF TurnType
<1>7. c = [b EXCEPT !.outstanding = waits, !.turns = turns]
  BY <1>1 DEF PairInTurn, tool, waits
<1> HIDE DEF turn
<1>8. /\ turns \in Seq(TurnType) /\ Len(turns) = Len(b.turns)
      /\ \A i \in 1..Len(b.turns) : turns[i] = IF i = t THEN turn ELSE b.turns[i]
  <2>1. b.turns \in Seq(TurnType) /\ turn \in TurnType
    BY <1>1, <1>6
  <2> QED BY <2>1, ExceptSeq
<1> HIDE DEF turns
<1>9. /\ c \in BuilderType /\ c.armed = b.armed /\ c.warning = b.warning /\ c.window = b.window
      /\ SameCounts(b, c) /\ SameTier(b, c) /\ c.outstanding = waits /\ c.turns = turns
  BY <1>3, <1>7, <1>8 DEF BuilderType, SameCounts, SameTier
<1>10. \A i \in 1..Len(b.turns) :
           /\ turns[i].usage = b.turns[i].usage /\ turns[i].fastMode = b.turns[i].fastMode
           /\ turns[i].hasPatchApply = b.turns[i].hasPatchApply
           /\ turns[i].prompt = b.turns[i].prompt
           /\ i # t => turns[i].tools = b.turns[i].tools
  BY <1>6, <1>8
<1>11. turns[t].tools = Append(b.turns[t].tools, tool)
  BY <1>6, <1>8
<1> QED BY <1>8, <1>9, <1>10, <1>11 DEF tool, waits

\* A count that is kept closes a turn.
Moved(b) == [i \in DOMAIN b.window.pendingTools |->
                [call |-> b.window.pendingTools[i], turn |-> Len(b.turns) + 1]]

LEMMA MovedIs ==
    ASSUME NEW b \in BuilderType
    PROVE  /\ Moved(b) \in Seq([call : Nat, turn : Nat]) /\ Len(Moved(b)) = Len(b.window.pendingTools)
           /\ \A k \in 1..Len(Moved(b)) : /\ Moved(b)[k].call = b.window.pendingTools[k]
                                          /\ Moved(b)[k].turn = Len(b.turns) + 1
<1> DEFINE n == Len(b.window.pendingTools)
           number == Len(b.turns) + 1
           pending == b.window.pendingTools
           moved == Moved(b)
<1>1. pending \in Seq(Nat) /\ number \in Nat
  <2>1. b.window \in WindowType /\ b.turns \in Seq(TurnType)
    BY DEF BuilderType
  <2> QED BY <2>1, LenProperties DEF WindowType
<1>2. \A i \in DOMAIN pending : pending[i] \in Nat
  BY <1>1
<1>3. DOMAIN pending = 1..n /\ n \in Nat
  BY <1>1
<1>4. moved = [i \in 1..n |-> [call |-> pending[i], turn |-> number]]
  BY <1>3 DEF Moved
<1> HIDE DEF n, number, pending, moved
<1>5. moved \in [1..n -> [call : Nat, turn : Nat]]
  BY <1>1, <1>2, <1>3, <1>4
<1>6. moved \in Seq([call : Nat, turn : Nat]) /\ Len(moved) = n
  <2>1. moved \in Seq([call : Nat, turn : Nat])
    BY <1>3, <1>5, FromFunction
  <2> QED BY <1>3, <1>5, <2>1, LenProperties
<1>7. \A k \in 1..Len(moved) : moved[k].call = pending[k] /\ moved[k].turn = number
  BY <1>4, <1>6
<1> QED BY <1>6, <1>7 DEF n, number, pending, moved

KeptFields(b, usage, sum, c) ==
    /\ c \in BuilderType /\ c.armed = b.armed /\ c.window = newWindow /\ SameTier(b, c)
    /\ c.prevLast = usage /\ c.prevTotal = sum /\ c.running = b.running + usage
    /\ c.lastPrompt = ClosedTurn(b, usage).prompt
    /\ c.outstanding = b.outstanding \o Moved(b)
    /\ c.turns = Append(b.turns, ClosedTurn(b, usage)) /\ ClosedTurn(b, usage) \in TurnType
    /\ c.warning = (b.warning \/ ~withinSlack(b.running + usage, sum))

LEMMA KeptDoes ==
    ASSUME NEW b \in BuilderType, NEW usage \in Nat, NEW sum \in Nat, NEW c, c = Kept(b, usage, sum)
    PROVE  KeptFields(b, usage, sum, c)
<1> DEFINE turn == ClosedTurn(b, usage)
           moved == Moved(b)
           warns == b.warning \/ ~withinSlack(b.running + usage, sum)
<1>1. /\ b.window \in WindowType /\ b.turns \in Seq(TurnType) /\ b.running \in Nat
      /\ b.outstanding \in Seq([call : Nat, turn : Nat]) /\ b.lastPrompt \in Seq(Prompts)
      /\ b.fastMode \in BOOLEAN /\ b.warning \in BOOLEAN
  BY DEF BuilderType
<1>2. turn \in TurnType
  BY <1>1 DEF ClosedTurn, TurnType, WindowType
<1>3. moved \in Seq([call : Nat, turn : Nat])
  BY MovedIs
<1>4. warns \in BOOLEAN
  OBVIOUS
<1>5. newWindow \in WindowType
  BY DEF newWindow, WindowType
<1>6. c = [b EXCEPT !.turns = Append(b.turns, turn), !.lastPrompt = turn.prompt,
                    !.outstanding = b.outstanding \o moved,
                    !.prevLast = usage, !.prevTotal = sum, !.running = b.running + usage,
                    !.warning = warns, !.window = newWindow]
  BY DEF Kept, Moved
<1> HIDE DEF turn, moved, warns
<1>8. /\ Append(b.turns, turn) \in Seq(TurnType) /\ turn.prompt \in Seq(Prompts)
      /\ b.outstanding \o moved \in Seq([call : Nat, turn : Nat]) /\ b.running + usage \in Nat
  <2>1. Append(b.turns, turn) \in Seq(TurnType)
    BY <1>1, <1>2, AppendProperties
  <2>2. b.outstanding \o moved \in Seq([call : Nat, turn : Nat])
    BY <1>1, <1>3, ConcatProperties
  <2> QED BY <1>1, <1>2, <2>1, <2>2 DEF TurnType
<1>9. /\ c \in BuilderType /\ c.armed = b.armed /\ c.window = newWindow /\ SameTier(b, c)
      /\ c.prevLast = usage /\ c.prevTotal = sum /\ c.running = b.running + usage
      /\ c.lastPrompt = turn.prompt /\ c.outstanding = b.outstanding \o moved
      /\ c.turns = Append(b.turns, turn) /\ c.warning = warns
  BY <1>4, <1>5, <1>6, <1>8 DEF BuilderType, SameTier
<1> QED BY <1>2, <1>9 DEF turn, moved, warns, KeptFields

---------------------------------------------------------------------------
\* Each event keeps the invariant.

AlikeTurns(b, c) ==
    /\ Len(c.turns) = Len(b.turns)
    /\ \A i \in 1..Len(b.turns) :
           /\ c.turns[i].usage = b.turns[i].usage /\ c.turns[i].fastMode = b.turns[i].fastMode
           /\ c.turns[i].hasPatchApply = b.turns[i].hasPatchApply
           /\ c.turns[i].prompt = b.turns[i].prompt

LEMMA TurnsHaveUsages == ASSUME NEW b \in BuilderType
                         PROVE  HaveUsages(b.turns) /\ DOMAIN b.turns = 1..Len(b.turns)
<1>1. b.turns \in Seq(TurnType)
  BY DEF BuilderType
<1>2. \A i \in 1..Len(b.turns) : b.turns[i] \in TurnType
  BY <1>1, ElementOfSeq
<1> QED BY <1>1, <1>2 DEF HaveUsages, TurnType

\* A line that is no count leaves the requests and the counters alone.
LEMMA QuietStep ==
    ASSUME LedgerInv, UNCHANGED <<isSubagent, started, last, total, requests, unread, lost>>,
           builder' \in BuilderType, builder'.armed = builder.armed, builder'.warning = builder.warning,
           SameCounts(builder, builder'), AlikeTurns(builder, builder'),
           ~Own => /\ builder'.window = builder.window /\ current' = current
                   /\ SameTurns(builder, builder')
    PROVE  /\ Listens' /\ CountIsKnown' /\ SumIsKnown' /\ TurnsAreRequests'
           /\ PromptOf(Len(requests))' = PromptOf(Len(requests))
<1>1. builder \in BuilderType /\ requests \in Seq(RequestType)
  BY DEF LedgerInv, LedgerTypes
<1>2. Own' = Own
  BY DEF Own
<1>3. \A i : PromptOf(i)' = PromptOf(i)
  BY DEF PromptOf
<1>4. /\ HaveUsages(builder.turns) /\ DOMAIN builder.turns = 1..Len(builder.turns)
      /\ HaveUsages(builder'.turns) /\ DOMAIN builder'.turns = 1..Len(builder'.turns)
  BY <1>1, TurnsHaveUsages
<1>5. Spent(builder'.turns) = Spent(builder.turns)
  BY <1>4, SpentSame DEF AlikeTurns
<1>6. Listens'
  BY <1>2 DEF LedgerInv, Listens, SameCounts, SameTurns
<1>7. (builder'.turns = <<>>) <=> (builder.turns = <<>>)
  <2>1. builder.turns \in Seq(TurnType) /\ builder'.turns \in Seq(TurnType)
    BY <1>1 DEF BuilderType
  <2> QED BY <2>1, EmptySeq DEF AlikeTurns
<1>8. CountIsKnown'
  BY <1>2, <1>7 DEF LedgerInv, CountIsKnown, SameCounts
<1>9. SumIsKnown'
  BY <1>2, <1>5 DEF LedgerInv, SumIsKnown, SameCounts
<1>10. TurnsAreRequests'
  <2>1. Len(builder'.turns) = Len(requests')
    BY DEF LedgerInv, TurnsAreRequests, AlikeTurns
  <2>2. ASSUME NEW i \in DOMAIN requests
        PROVE  /\ builder'.turns[i].usage = requests[i].usage
               /\ builder'.turns[i].fastMode = requests[i].fast
               /\ builder'.turns[i].hasPatchApply = requests[i].patch
               /\ builder'.turns[i].prompt = PromptOf(i)
    <3>1. i \in 1..Len(builder.turns)
      BY <1>1 DEF LedgerInv, TurnsAreRequests
    <3> QED BY <3>1 DEF LedgerInv, TurnsAreRequests, AlikeTurns
  <2> QED BY <1>3, <2>1, <2>2 DEF TurnsAreRequests
<1> QED BY <1>3, <1>6, <1>8, <1>9, <1>10

\* One more line that may set a tier.
SetsThread(t) == t.kind = "settings" /\ t.mode # None

LEMMA TierAdded ==
    ASSUME NEW ts \in Seq(TierType), NEW t \in TierType
    PROVE  LET us == Append(ts, t) IN
           /\ us \in Seq(TierType) /\ Len(us) = Len(ts) + 1 /\ us[Len(us)] = t
           /\ OwnTiers(ts) \in SUBSET (1..Len(ts)) /\ ThreadTiers(ts) \in SUBSET (1..Len(ts))
           /\ SetsThread(t) => /\ OwnTiers(us) = OwnTiers(ts) \cup {Len(us)}
                               /\ ThreadTiers(us) = ThreadTiers(ts) \cup {Len(us)}
           /\ ~SetsThread(t) => OwnTiers(us) = OwnTiers(ts)
           /\ t.kind = "context" => ThreadTiers(us) = ThreadTiers(ts) \cup {Len(us)}
           /\ ~SetsThread(t) /\ t.kind # "context" => ThreadTiers(us) = ThreadTiers(ts)
<1> DEFINE us == Append(ts, t)
           Contexts(of) == {i \in DOMAIN of : of[i].kind = "context"}
<1>1. /\ us \in Seq(TierType) /\ Len(us) = Len(ts) + 1 /\ us[Len(us)] = t
      /\ \A i \in 1..Len(ts) : us[i] = ts[i]
  BY AppendProperties
<1> HIDE DEF us
<1>2. /\ DOMAIN ts = 1..Len(ts) /\ DOMAIN us = 1..Len(us) /\ Len(ts) \in Nat
      /\ 1..Len(us) = 1..Len(ts) \cup {Len(us)} /\ Len(us) \notin 1..Len(ts)
  BY <1>1
<1>3. SetsThread(t) => OwnTiers(us) = OwnTiers(ts) \cup {Len(us)}
  BY <1>1, <1>2 DEF OwnTiers, SetsThread
<1>4. ~SetsThread(t) => OwnTiers(us) = OwnTiers(ts)
  BY <1>1, <1>2 DEF OwnTiers, SetsThread
<1>5. t.kind = "context" => Contexts(us) = Contexts(ts) \cup {Len(us)}
  BY <1>1, <1>2
<1>6. t.kind # "context" => Contexts(us) = Contexts(ts)
  BY <1>1, <1>2
<1>7. /\ ThreadTiers(us) = OwnTiers(us) \cup Contexts(us)
      /\ ThreadTiers(ts) = OwnTiers(ts) \cup Contexts(ts)
  BY DEF ThreadTiers
<1>8. OwnTiers(ts) \in SUBSET (1..Len(ts)) /\ Contexts(ts) \in SUBSET (1..Len(ts))
  BY <1>2 DEF OwnTiers
<1>9. SetsThread(t) => t.kind # "context"
  BY DEF SetsThread
<1> HIDE DEF Contexts
<1>10. /\ SetsThread(t) => ThreadTiers(us) = ThreadTiers(ts) \cup {Len(us)}
       /\ t.kind = "context" => ThreadTiers(us) = ThreadTiers(ts) \cup {Len(us)}
       /\ ~SetsThread(t) /\ t.kind # "context" => ThreadTiers(us) = ThreadTiers(ts)
  BY <1>3, <1>4, <1>5, <1>6, <1>7, <1>9
<1>11. ThreadTiers(ts) \in SUBSET (1..Len(ts))
  BY <1>7, <1>8
<1> QED BY <1>1, <1>3, <1>4, <1>8, <1>10, <1>11 DEF us

\* A tier that counts decides, for it is the last;
LEMMA LastIsMax == ASSUME NEW n \in Nat, NEW m, m = n + 1, NEW is \in SUBSET (1..n),
                          NEW js, js = is \cup {m}
                   PROVE  Max(js) = m
<1>1. is \in SUBSET Nat /\ m \in Nat /\ \A k \in is : k <= n
  OBVIOUS
<1>2. \A k \in js : k \in is \/ k = m
  OBVIOUS
<1>3. js \in SUBSET Nat /\ m \in js /\ \A k \in js : m >= k
  BY <1>1, <1>2
<1> QED BY <1>3, MaxOf

\* where it does not, the last before it still does.
LEMMA LastDecides ==
    ASSUME NEW ts \in Seq(TierType), NEW t \in TierType,
           NEW is \in SUBSET (1..Len(ts))
    PROVE  LET us == Append(ts, t) IN
           is # {} => Max(is) \in 1..Len(ts) /\ us[Max(is)] = ts[Max(is)]
<1> DEFINE us == Append(ts, t)
<1>1. /\ us \in Seq(TierType) /\ Len(us) = Len(ts) + 1 /\ us[Len(us)] = t
      /\ \A i \in 1..Len(ts) : us[i] = ts[i]
  BY AppendProperties
<1> HIDE DEF us
<1>2. is # {} => Max(is) \in is
  <2>1. Len(ts) \in Nat
    BY LenProperties
  <2> QED BY <2>1, MaxIs
<1>3. is # {} => Max(is) \in 1..Len(ts) /\ us[Max(is)] = ts[Max(is)]
  BY <1>1, <1>2
<1> QED BY <1>3 DEF us

InForceBy(ts) ==
    IF ThreadTiers(ts) # {} /\ ts[Max(ThreadTiers(ts))].mode = None
    THEN FastBy(ts, OwnTiers(ts)) ELSE FastBy(ts, ThreadTiers(ts))

LEMMA InForceIs == InForce = InForceBy(tiers) /\ InForce' = InForceBy(tiers')
BY DEF InForce, InForceBy, FastBy, OwnTiers, ThreadTiers

\* A line that sets no tier changes none.
LEMMA NoTier ==
    ASSUME NEW ts \in Seq(TierType), NEW t \in TierType, NEW us, us = Append(ts, t),
           t.kind # "context", ~SetsThread(t)
    PROVE  FastBy(us, OwnTiers(us)) = FastBy(ts, OwnTiers(ts)) /\ InForceBy(us) = InForceBy(ts)
<1>1. OwnTiers(us) = OwnTiers(ts) /\ ThreadTiers(us) = ThreadTiers(ts)
  BY TierAdded
<1>2. OwnTiers(ts) \in SUBSET (1..Len(ts)) /\ ThreadTiers(ts) \in SUBSET (1..Len(ts))
  BY TierAdded
<1>3. /\ OwnTiers(ts) # {} => us[Max(OwnTiers(ts))] = ts[Max(OwnTiers(ts))]
      /\ ThreadTiers(ts) # {} => us[Max(ThreadTiers(ts))] = ts[Max(ThreadTiers(ts))]
  BY <1>2, LastDecides
<1>4. FastBy(us, OwnTiers(ts)) = FastBy(ts, OwnTiers(ts)) /\ FastBy(us, ThreadTiers(ts)) = FastBy(ts, ThreadTiers(ts))
  BY <1>3 DEF FastBy
<1> QED BY <1>1, <1>3, <1>4 DEF InForceBy

\* A context decides by its own tier, or by the thread's settings.
LEMMA ContextTier ==
    ASSUME NEW ts \in Seq(TierType), NEW mode \in Modes,
           NEW us, us = Append(ts, [kind |-> "context", mode |-> mode])
    PROVE  /\ FastBy(us, OwnTiers(us)) = FastBy(ts, OwnTiers(ts))
           /\ mode = None => InForceBy(us) = FastBy(ts, OwnTiers(ts))
           /\ mode # None => InForceBy(us) = (mode = TRUE)
<1> DEFINE t == [kind |-> "context", mode |-> mode]
<1>1. t \in TierType /\ t.kind = "context" /\ t.mode = mode /\ ~SetsThread(t)
  BY DEF TierType, SetsThread
<1> HIDE DEF t
<1>2. us = Append(ts, t)
  BY DEF t
<1>3. /\ OwnTiers(us) = OwnTiers(ts) /\ ThreadTiers(us) = ThreadTiers(ts) \cup {Len(us)}
      /\ OwnTiers(ts) \in SUBSET (1..Len(ts)) /\ ThreadTiers(ts) \in SUBSET (1..Len(ts))
      /\ us[Len(us)] = t /\ Len(us) = Len(ts) + 1
  BY <1>1, <1>2, TierAdded
<1>4. OwnTiers(ts) # {} => us[Max(OwnTiers(ts))] = ts[Max(OwnTiers(ts))]
  BY <1>1, <1>2, <1>3, LastDecides
<1>5. Max(ThreadTiers(us)) = Len(us)
  BY <1>3, LastIsMax, LenProperties
<1>6. ThreadTiers(us) # {} /\ us[Max(ThreadTiers(us))].mode = mode
  BY <1>1, <1>3, <1>5
<1>7. FastBy(us, OwnTiers(us)) = FastBy(ts, OwnTiers(ts))
  BY <1>3, <1>4 DEF FastBy
<1> QED BY <1>6, <1>7 DEF InForceBy, FastBy

\* Settings of this thread decide for both.
LEMMA SettingsTier ==
    ASSUME NEW ts \in Seq(TierType), NEW mode \in Modes, mode # None,
           NEW us, us = Append(ts, [kind |-> "settings", mode |-> mode])
    PROVE  (FastBy(us, OwnTiers(us)) <=> mode = TRUE) /\ (InForceBy(us) <=> mode = TRUE)
<1> DEFINE t == [kind |-> "settings", mode |-> mode]
<1>1. t \in TierType /\ t.mode = mode /\ SetsThread(t)
  BY DEF TierType, SetsThread
<1> HIDE DEF t
<1>2. us = Append(ts, t)
  BY DEF t
<1>3. /\ OwnTiers(us) = OwnTiers(ts) \cup {Len(us)} /\ ThreadTiers(us) = ThreadTiers(ts) \cup {Len(us)}
      /\ OwnTiers(ts) \in SUBSET (1..Len(ts)) /\ ThreadTiers(ts) \in SUBSET (1..Len(ts))
      /\ us[Len(us)] = t /\ Len(us) = Len(ts) + 1
  BY <1>1, <1>2, TierAdded
<1>4. Max(OwnTiers(us)) = Len(us) /\ Max(ThreadTiers(us)) = Len(us)
  <2>1. Len(ts) \in Nat
    BY LenProperties
  <2> DEFINE n == Len(ts) m == Len(us) own == OwnTiers(ts) thread == ThreadTiers(ts)
             all == OwnTiers(us) every == ThreadTiers(us)
  <2>2. /\ n \in Nat /\ m = n + 1 /\ own \in SUBSET (1..n) /\ thread \in SUBSET (1..n)
        /\ all = own \cup {m} /\ every = thread \cup {m}
    BY <1>3, <2>1
  <2> HIDE DEF n, m, own, thread, all, every
  <2>3. Max(all) = m
    BY <2>2, LastIsMax
  <2>4. Max(every) = m
    BY <2>2, LastIsMax
  <2> QED BY <2>3, <2>4 DEF all, every, m
<1>5. OwnTiers(us) # {} /\ ThreadTiers(us) # {} /\ us[Len(us)].mode = mode
  BY <1>1, <1>3
<1> QED BY <1>4, <1>5 DEF InForceBy, FastBy

LEMMA SameTurnsAlike == ASSUME NEW b, NEW c, SameTurns(b, c) PROVE AlikeTurns(b, c)
BY DEF SameTurns, AlikeTurns

LEMMA FastByIs == ASSUME LedgerInv
                  PROVE  /\ builder \in BuilderType
                         /\ tiers \in Seq(TierType)
                         /\ builder.settingsFastMode = FastBy(tiers, OwnTiers(tiers))
                         /\ builder.fastMode = InForceBy(tiers)
BY InForceIs DEF LedgerInv, LedgerTypes, TierInForce

\* Lines that may set a tier.
LEMMA TierStep ==
    ASSUME LedgerInv, NEW kind \in {"context", "settings", "other"}, NEW mode \in Modes, Tier(kind, mode),
           builder' \in BuilderType, builder'.armed = builder.armed, builder'.window = builder.window,
           builder'.warning = builder.warning, SameCounts(builder, builder'), SameTurns(builder, builder'),
           TierInForce'
    PROVE  LedgerInv'
<1>1. UNCHANGED <<isSubagent, started, last, total, requests, unread, lost, current, calls, waiting>>
  BY DEF Tier, codex
<1>2. AlikeTurns(builder, builder')
  BY SameTurnsAlike
<1>3. /\ Listens' /\ CountIsKnown' /\ SumIsKnown' /\ TurnsAreRequests'
      /\ PromptOf(Len(requests))' = PromptOf(Len(requests))
  BY <1>1, <1>2, QuietStep
<1>4. [kind |-> kind, mode |-> mode] \in TierType
  BY DEF TierType
<1>5. tiers' \in Seq(TierType)
  BY <1>4, AppendProperties DEF LedgerInv, LedgerTypes, Tier
<1>6. LedgerTypes'
  BY <1>1, <1>5 DEF LedgerInv, LedgerTypes
<1>7. WindowIsCurrent'
  BY <1>1, <1>3 DEF LedgerInv, WindowIsCurrent, SameCounts
<1>8. OutstandingInTurns'
  BY DEF LedgerInv, OutstandingInTurns, SameTurns
<1> QED BY <1>3, <1>6, <1>7, <1>8 DEF LedgerInv

LEMMA ContextKeeps == ASSUME LedgerInv, NEW mode \in Modes, Context(mode) PROVE LedgerInv'
<1>1. builder' = TurnContext(builder, mode) /\ Tier("context", mode)
  BY DEF Context
<1>2. builder \in BuilderType
  BY FastByIs
<1>3. /\ builder' \in BuilderType /\ builder'.armed = builder.armed /\ builder'.window = builder.window
      /\ builder'.warning = builder.warning
      /\ SameCounts(builder, builder') /\ SameTurns(builder, builder')
      /\ builder'.settingsFastMode = builder.settingsFastMode
      /\ builder'.fastMode = IF mode = None THEN builder.settingsFastMode ELSE mode
  BY <1>1, <1>2, TurnContextDoes
<1>4. tiers' = Append(tiers, [kind |-> "context", mode |-> mode]) /\ tiers \in Seq(TierType)
  BY <1>1, FastByIs DEF Tier
<1>5. /\ FastBy(tiers', OwnTiers(tiers')) = FastBy(tiers, OwnTiers(tiers))
      /\ mode = None => InForceBy(tiers') = FastBy(tiers, OwnTiers(tiers))
      /\ mode # None => InForceBy(tiers') = (mode = TRUE)
  BY <1>4, ContextTier
<1>6. builder'.settingsFastMode = FastBy(tiers', OwnTiers(tiers'))
  BY <1>3, <1>5, FastByIs
<1>7. builder'.fastMode = InForceBy(tiers')
  BY <1>3, <1>5, FastByIs DEF Modes, InForceBy, FastBy
<1>8. TierInForce'
  BY <1>6, <1>7, InForceIs DEF TierInForce
<1> QED BY <1>1, <1>3, <1>8, TierStep

LEMMA SettingsKeeps == ASSUME LedgerInv, NEW mode \in Modes, Settings(mode) PROVE LedgerInv'
<1>1. /\ builder' = IF mode = None THEN builder
                     ELSE [builder EXCEPT !.settingsFastMode = mode, !.fastMode = mode]
      /\ Tier("settings", mode)
  BY DEF Settings, ThreadSettings
<1>2. builder \in BuilderType
  BY FastByIs
<1>3. /\ builder' \in BuilderType /\ builder'.armed = builder.armed /\ builder'.window = builder.window
      /\ builder'.warning = builder.warning
      /\ SameCounts(builder, builder') /\ SameTurns(builder, builder')
      /\ mode = None => SameTier(builder, builder')
      /\ mode # None => builder'.settingsFastMode = mode /\ builder'.fastMode = mode
  BY <1>1, <1>2, ThreadSettingsDoes
<1>4. tiers' = Append(tiers, [kind |-> "settings", mode |-> mode]) /\ tiers \in Seq(TierType)
  BY <1>1, FastByIs DEF Tier
<1>5. /\ builder'.settingsFastMode = FastBy(tiers', OwnTiers(tiers'))
      /\ builder'.fastMode = InForceBy(tiers')
  <2>1. CASE mode = None
    <3> DEFINE t == [kind |-> "settings", mode |-> mode]
    <3>1. t \in TierType /\ t.kind # "context" /\ ~SetsThread(t)
      BY <2>1 DEF TierType, SetsThread
    <3> HIDE DEF t
    <3>2. tiers' = Append(tiers, t)
      BY <1>4 DEF t
    <3>3. /\ FastBy(tiers', OwnTiers(tiers')) = FastBy(tiers, OwnTiers(tiers))
          /\ InForceBy(tiers') = InForceBy(tiers)
      BY <1>4, <3>1, <3>2, NoTier
    <3> QED BY <1>3, <2>1, <3>3, FastByIs DEF SameTier
  <2>2. CASE mode # None
    <3>1. (FastBy(tiers', OwnTiers(tiers')) <=> mode = TRUE) /\ (InForceBy(tiers') <=> mode = TRUE)
      BY <1>4, <2>2, SettingsTier
    <3> QED BY <1>3, <2>2, <3>1 DEF Modes, InForceBy, FastBy
  <2> QED BY <2>1, <2>2
<1>6. TierInForce'
  BY <1>5, InForceIs DEF TierInForce
<1> QED BY <1>1, <1>3, <1>6, TierStep

LEMMA OtherSettingsKeeps == ASSUME LedgerInv, NEW mode \in Modes, OtherSettings(mode) PROVE LedgerInv'
<1>1. builder' = builder /\ Tier("other", mode)
  BY DEF OtherSettings, ThreadSettings
<1>2. builder \in BuilderType
  BY FastByIs
<1>3. /\ SameCounts(builder, builder') /\ SameTurns(builder, builder')
      /\ builder' \in BuilderType /\ builder'.armed = builder.armed /\ builder'.window = builder.window
      /\ builder'.warning = builder.warning
  BY <1>1, <1>2 DEF SameCounts, SameTurns
<1> DEFINE t == [kind |-> "other", mode |-> mode]
<1>4. t \in TierType /\ t.kind # "context" /\ ~SetsThread(t)
  BY DEF TierType, SetsThread
<1> HIDE DEF t
<1>5. tiers' = Append(tiers, t) /\ tiers \in Seq(TierType)
  BY <1>1, FastByIs DEF Tier, t
<1>6. /\ FastBy(tiers', OwnTiers(tiers')) = FastBy(tiers, OwnTiers(tiers))
      /\ InForceBy(tiers') = InForceBy(tiers)
  BY <1>4, <1>5, NoTier
<1>7. TierInForce'
  BY <1>1, <1>6, InForceIs, FastByIs DEF TierInForce
<1> QED BY <1>1, <1>3, <1>7, TierStep

\* Lines that add to the window.
LEMMA WorkStep ==
    ASSUME LedgerInv,
           UNCHANGED <<isSubagent, started, last, total, tiers, requests, unread, lost>>,
           calls' \in Nat, waiting' \subseteq Nat, current' \in DoneType,
           builder' \in BuilderType, builder'.armed = builder.armed, builder'.warning = builder.warning,
           SameCounts(builder, builder'), SameTier(builder, builder'), AlikeTurns(builder, builder'),
           ~Own => /\ builder'.window = builder.window /\ current' = current
                   /\ SameTurns(builder, builder'),
           OutstandingInTurns',
           builder'.window.promptParts = current'.parts, builder'.window.hasPatchApply = current'.patch
    PROVE  LedgerInv'
<1>1. /\ Listens' /\ CountIsKnown' /\ SumIsKnown' /\ TurnsAreRequests'
      /\ PromptOf(Len(requests))' = PromptOf(Len(requests))
  BY QuietStep
<1>2. LedgerTypes'
  BY DEF LedgerInv, LedgerTypes
<1>3. WindowIsCurrent'
  BY <1>1 DEF LedgerInv, WindowIsCurrent, SameCounts
<1>4. TierInForce'
  <2>1. builder'.settingsFastMode = FastBy(tiers', OwnTiers(tiers')) /\ builder'.fastMode = InForceBy(tiers')
    BY FastByIs DEF SameTier
  <2> QED BY <2>1, InForceIs DEF TierInForce
<1> QED BY <1>1, <1>2, <1>3, <1>4 DEF LedgerInv

LEMMA OwnIsArmed == ASSUME LedgerInv
                    PROVE  /\ builder \in BuilderType /\ current \in DoneType /\ calls \in Nat
                           /\ waiting \subseteq Nat
                           /\ builder.armed = Own
                           /\ builder.window.promptParts = current.parts
                           /\ builder.window.hasPatchApply = current.patch
BY DEF LedgerInv, LedgerTypes, Listens, WindowIsCurrent

LEMMA SameOutstanding == ASSUME LedgerInv, SameTurns(builder, builder') PROVE OutstandingInTurns'
BY DEF LedgerInv, OutstandingInTurns, SameTurns

LEMMA SayKeeps == ASSUME LedgerInv, NEW text \in Prompts, Say(text) PROVE LedgerInv'
<1>1. /\ builder \in BuilderType /\ current \in DoneType /\ builder.armed = Own
      /\ calls \in Nat /\ waiting \subseteq Nat
  BY OwnIsArmed
<1>2. /\ builder' \in BuilderType /\ builder'.armed = builder.armed /\ builder'.warning = builder.warning
      /\ SameCounts(builder, builder') /\ SameTurns(builder, builder') /\ SameTier(builder, builder')
      /\ ~builder.armed => builder'.window = builder.window
      /\ builder.armed => /\ builder'.window.promptParts = Append(builder.window.promptParts, text)
                          /\ builder'.window.hasPatchApply = builder.window.hasPatchApply
  BY <1>1, UserMessageDoes DEF Say
<1>3. /\ Own => current' = [current EXCEPT !.parts = Append(current.parts, text)]
      /\ ~Own => current' = current
  BY DEF Say, Done
<1>4. current' \in DoneType
  <2>1. Append(current.parts, text) \in Seq(Prompts)
    BY <1>1, AppendProperties DEF DoneType
  <2> QED BY <1>1, <1>3, <2>1 DEF DoneType
<1>5. builder'.window.promptParts = current'.parts /\ builder'.window.hasPatchApply = current'.patch
  BY <1>1, <1>2, <1>3, OwnIsArmed DEF DoneType
<1>6. UNCHANGED <<isSubagent, started, last, total, calls, waiting, tiers, requests, unread, lost>>
  BY DEF Say
<1> QED BY <1>1, <1>2, <1>3, <1>4, <1>5, <1>6, SameTurnsAlike, SameOutstanding, WorkStep

LEMMA PatchKeeps == ASSUME LedgerInv, Patch PROVE LedgerInv'
<1>1. /\ builder \in BuilderType /\ current \in DoneType /\ builder.armed = Own
      /\ calls \in Nat /\ waiting \subseteq Nat
  BY OwnIsArmed
<1>2. /\ builder' \in BuilderType /\ builder'.armed = builder.armed /\ builder'.warning = builder.warning
      /\ SameCounts(builder, builder') /\ SameTurns(builder, builder') /\ SameTier(builder, builder')
      /\ ~builder.armed => builder'.window = builder.window
      /\ builder.armed => /\ builder'.window.promptParts = builder.window.promptParts
                          /\ builder'.window.hasPatchApply = TRUE
  BY <1>1, PatchApplyDoes DEF Patch
<1>3. /\ Own => current' = [current EXCEPT !.patch = TRUE]
      /\ ~Own => current' = current
  BY DEF Patch, Done
<1>4. current' \in DoneType
  BY <1>1, <1>3 DEF DoneType
<1>5. builder'.window.promptParts = current'.parts /\ builder'.window.hasPatchApply = current'.patch
  BY <1>1, <1>2, <1>3, OwnIsArmed DEF DoneType
<1>6. UNCHANGED <<isSubagent, started, last, total, calls, waiting, tiers, requests, unread, lost>>
  BY DEF Patch, codex
<1> QED BY <1>1, <1>2, <1>3, <1>4, <1>5, <1>6, SameTurnsAlike, SameOutstanding, WorkStep

LEMMA CallKeeps == ASSUME LedgerInv, Call PROVE LedgerInv'
<1>1. /\ builder \in BuilderType /\ current \in DoneType /\ builder.armed = Own
      /\ calls \in Nat /\ waiting \subseteq Nat
  BY OwnIsArmed
<1>2. calls' \in Nat /\ waiting' \subseteq Nat
  BY <1>1 DEF Call
<1>3. /\ builder' \in BuilderType /\ builder'.armed = builder.armed /\ builder'.warning = builder.warning
      /\ SameCounts(builder, builder') /\ SameTurns(builder, builder') /\ SameTier(builder, builder')
      /\ ~builder.armed => builder'.window = builder.window
      /\ builder.armed => /\ builder'.window.promptParts = builder.window.promptParts
                          /\ builder'.window.hasPatchApply = builder.window.hasPatchApply
  BY <1>1, <1>2, ToolCallDoes DEF Call
<1>4. /\ Own => current' = [current EXCEPT !.calls = current.calls \cup {calls'}]
      /\ ~Own => current' = current
  BY DEF Call, Done
<1>5. current' \in DoneType
  BY <1>1, <1>2, <1>4 DEF DoneType
<1>6. builder'.window.promptParts = current'.parts /\ builder'.window.hasPatchApply = current'.patch
  BY <1>1, <1>3, <1>4, OwnIsArmed DEF DoneType
<1>7. UNCHANGED <<isSubagent, started, last, total, tiers, requests, unread, lost>>
  BY DEF Call
<1> QED BY <1>1, <1>2, <1>3, <1>4, <1>5, <1>6, <1>7, SameTurnsAlike, SameOutstanding, WorkStep

\* The call an output is given to, by its id or as the only one, and none.
IsOwner(open, k, call, named) == k \in 1..Len(open) /\ IF named THEN open[k] = call ELSE Len(open) = 1 /\ k = 1
NoOwner(open, call, named) == IF named THEN \A k \in 1..Len(open) : open[k] # call ELSE Len(open) # 1

LEMMA OwnerIs == ASSUME NEW open \in Seq(Nat), NEW call, NEW named \in BOOLEAN
                 PROVE  LET o == Owner(open, call, named)
                        IN  (o # 0 => IsOwner(open, o, call, named)) /\ (o = 0 => NoOwner(open, call, named))
<1> DEFINE o == Owner(open, call, named)
<1>1. Len(open) \in Nat
  BY LenProperties
<1>2. CASE named
  <2>1. o = IndexOf(open, call)
    BY <1>2 DEF Owner, IndexOf
  <2> HIDE DEF o
  <2>2. /\ o \in 0..Len(open) /\ (o # 0 => open[o] = call)
        /\ o = 0 => \A k \in 1..Len(open) : open[k] # call
    BY <2>1, IndexIs
  <2>3. o # 0 => IsOwner(open, o, call, named)
    BY <1>1, <1>2, <2>2 DEF IsOwner
  <2>4. o = 0 => NoOwner(open, call, named)
    BY <1>2, <2>2 DEF NoOwner
  <2> QED BY <2>3, <2>4 DEF o
<1>3. CASE ~named
  <2>1. o = IF Len(open) = 1 THEN 1 ELSE 0
    BY <1>3 DEF Owner
  <2> HIDE DEF o
  <2>2. o # 0 => IsOwner(open, o, call, named)
    BY <1>3, <2>1 DEF IsOwner
  <2>3. o = 0 => NoOwner(open, call, named)
    BY <1>3, <2>1 DEF NoOwner
  <2> QED BY <2>2, <2>3 DEF o
<1> QED BY <1>2, <1>3

TurnCalls(b) == [k \in DOMAIN b.outstanding |-> b.outstanding[k].call]

LEMMA TurnCallsAre == ASSUME NEW b \in BuilderType
                      PROVE  /\ TurnCalls(b) \in Seq(Nat) /\ Len(TurnCalls(b)) = Len(b.outstanding)
                             /\ \A k \in 1..Len(b.outstanding) : TurnCalls(b)[k] = b.outstanding[k].call
<1> DEFINE n == Len(b.outstanding)
<1>1. b.outstanding \in Seq([call : Nat, turn : Nat])
  BY DEF BuilderType
<1>2. n \in Nat /\ DOMAIN b.outstanding = 1..n
  BY <1>1, LenProperties
<1>3. \A k \in 1..n : b.outstanding[k] \in [call : Nat, turn : Nat]
  BY <1>1, ElementOfSeq
<1>4. TurnCalls(b) = [k \in 1..n |-> b.outstanding[k].call]
  BY <1>2 DEF TurnCalls
<1>5. TurnCalls(b) \in [1..n -> Nat]
  BY <1>3, <1>4
<1>6. TurnCalls(b) \in Seq(Nat)
  BY <1>2, <1>5, SeqDef
<1>7. Len(TurnCalls(b)) = n
  BY <1>2, <1>5, <1>6, LenProperties
<1> QED BY <1>4, <1>6, <1>7

LEMMA ToolOutputIs ==
    ASSUME NEW b \in BuilderType, NEW call \in Nat, NEW named \in BOOLEAN, NEW c, c = ToolOutput(b, call, named)
    PROVE  LET open == b.window.pendingTools
           IN  \/ /\ c = b
                  /\ ~b.armed \/ (NoOwner(open, call, named) /\ NoOwner(TurnCalls(b), call, named))
               \/ /\ b.armed
                  /\ \E i \in 1..Len(open) : IsOwner(open, i, call, named) /\ c = PairInWindow(b, i, call)
               \/ /\ b.armed /\ NoOwner(open, call, named)
                  /\ \E j \in 1..Len(b.outstanding) :
                         IsOwner(TurnCalls(b), j, call, named) /\ c = PairInTurn(b, j, call)
<1> DEFINE open == b.window.pendingTools
           i == Owner(open, call, named)
           j == Owner(TurnCalls(b), call, named)
<1>1. open \in Seq(Nat)
  BY DEF BuilderType, WindowType
<1>2. TurnCalls(b) \in Seq(Nat) /\ Len(TurnCalls(b)) = Len(b.outstanding)
  BY TurnCallsAre
<1>3. c = IF ~b.armed \/ (i = 0 /\ j = 0) THEN b
          ELSE IF i # 0 THEN PairInWindow(b, i, call) ELSE PairInTurn(b, j, call)
  BY DEF ToolOutput, TurnCalls, PairInWindow, PairInTurn
<1> HIDE DEF open
<1>4. (i # 0 => IsOwner(open, i, call, named)) /\ (i = 0 => NoOwner(open, call, named))
  BY <1>1, OwnerIs
<1>5. (j # 0 => IsOwner(TurnCalls(b), j, call, named)) /\ (j = 0 => NoOwner(TurnCalls(b), call, named))
  BY <1>2, OwnerIs
<1> HIDE DEF i, j
<1>6. CASE ~b.armed \/ (i = 0 /\ j = 0)
  <2>1. c = b
    BY <1>3, <1>6
  <2>2. CASE ~b.armed
    BY <2>1, <2>2
  <2>3. CASE i = 0 /\ j = 0
    <3>1. NoOwner(open, call, named) /\ NoOwner(TurnCalls(b), call, named)
      BY <1>4, <1>5, <2>3
    <3> QED BY <2>1, <3>1 DEF open
  <2> QED BY <1>6, <2>2, <2>3
<1>7. CASE b.armed /\ i # 0
  <2>1. c = PairInWindow(b, i, call) /\ IsOwner(open, i, call, named) /\ i \in 1..Len(open)
    BY <1>3, <1>4, <1>7 DEF IsOwner
  <2> QED BY <1>7, <2>1 DEF open
<1>8. CASE b.armed /\ i = 0 /\ j # 0
  <2>1. c = PairInTurn(b, j, call) /\ IsOwner(TurnCalls(b), j, call, named) /\ NoOwner(open, call, named)
    BY <1>3, <1>4, <1>5, <1>8
  <2>2. j \in 1..Len(b.outstanding)
    BY <1>2, <2>1 DEF IsOwner
  <2> QED BY <1>8, <2>1, <2>2 DEF open
<1> QED BY <1>6, <1>7, <1>8

LEMMA InWindowKeeps ==
    ASSUME LedgerInv, NEW call \in Nat, waiting' \subseteq Nat,
           UNCHANGED <<isSubagent, started, last, total, calls, tiers, requests, unread, lost, current>>,
           NEW i \in 1..Len(builder.window.pendingTools), Own, builder' = PairInWindow(builder, i, call)
    PROVE  LedgerInv'
<1>1. /\ builder \in BuilderType /\ current \in DoneType /\ builder.armed = Own
      /\ calls \in Nat
  BY OwnIsArmed
<1>2. builder \in BuilderType
  BY <1>1
<1>3. /\ builder' \in BuilderType /\ builder'.armed = builder.armed /\ builder'.warning = builder.warning
      /\ SameCounts(builder, builder') /\ SameTurns(builder, builder') /\ SameTier(builder, builder')
      /\ builder'.window.promptParts = builder.window.promptParts
      /\ builder'.window.hasPatchApply = builder.window.hasPatchApply
  <2>1. builder' \in BuilderType
    BY <1>2, PairInWindowDoes
  <2>2. builder'.armed = builder.armed
    BY <1>2, PairInWindowDoes
  <2>5. builder'.warning = builder.warning
    BY <1>2, PairInWindowDoes
  <2>3. SameCounts(builder, builder') /\ SameTurns(builder, builder') /\ SameTier(builder, builder')
    BY <1>2, PairInWindowDoes
  <2>4. /\ builder'.window.promptParts = builder.window.promptParts
      /\ builder'.window.hasPatchApply = builder.window.hasPatchApply
    BY <1>2, PairInWindowDoes
  <2> QED BY <2>1, <2>2, <2>3, <2>4, <2>5
<1>4. builder'.window.promptParts = current'.parts /\ builder'.window.hasPatchApply = current'.patch
  BY <1>3, OwnIsArmed
<1> QED BY <1>1, <1>3, <1>4, SameTurnsAlike, SameOutstanding, WorkStep

LEMMA InTurnKeeps ==
    ASSUME LedgerInv, NEW call \in Nat, waiting' \subseteq Nat,
           UNCHANGED <<isSubagent, started, last, total, calls, tiers, requests, unread, lost, current>>,
           NEW j \in 1..Len(builder.outstanding), Own, builder' = PairInTurn(builder, j, call)
    PROVE  LedgerInv'
<1>1. /\ builder \in BuilderType /\ current \in DoneType /\ builder.armed = Own
      /\ calls \in Nat
  BY OwnIsArmed
<1> DEFINE t == builder.outstanding[j].turn
<1>2. /\ builder.outstanding \in Seq([call : Nat, turn : Nat]) /\ builder.turns \in Seq(TurnType)
      /\ builder.window \in WindowType
  BY <1>1 DEF BuilderType
<1>3. t \in 1..Len(builder.turns)
  <2>1. OutstandingInTurns
    BY DEF LedgerInv
  <2>2. /\ DOMAIN builder.outstanding = 1..Len(builder.outstanding)
        /\ DOMAIN builder.turns = 1..Len(builder.turns)
    BY <1>2, LenProperties
  <2> QED BY <2>1, <2>2 DEF OutstandingInTurns
<1> HIDE DEF t
<1>4. /\ builder' \in BuilderType /\ builder'.armed = builder.armed /\ builder'.warning = builder.warning
      /\ builder'.window = builder.window
      /\ SameCounts(builder, builder') /\ SameTier(builder, builder')
      /\ builder'.outstanding = RemoveAt(builder.outstanding, j) /\ AlikeTurns(builder, builder')
  <2>1. builder \in BuilderType
    BY <1>1
  <2>2. t = builder.outstanding[j].turn
    BY DEF t
  <2>3. builder' \in BuilderType /\ builder'.window = builder.window
    BY <1>3, <2>1, <2>2, PairInTurnDoes
  <2>4. builder'.armed = builder.armed
    BY <1>3, <2>1, <2>2, PairInTurnDoes
  <2>5. builder'.warning = builder.warning
    BY <1>3, <2>1, <2>2, PairInTurnDoes
  <2>6. SameCounts(builder, builder') /\ SameTier(builder, builder')
    BY <1>3, <2>1, <2>2, PairInTurnDoes
  <2>7. builder'.outstanding = RemoveAt(builder.outstanding, j)
    BY <1>3, <2>1, <2>2, PairInTurnDoes
  <2>8. Len(builder'.turns) = Len(builder.turns)
    BY <1>3, <2>1, <2>2, PairInTurnDoes
  <2>9. \A i \in 1..Len(builder.turns) :
            /\ builder'.turns[i].usage = builder.turns[i].usage
            /\ builder'.turns[i].fastMode = builder.turns[i].fastMode
            /\ builder'.turns[i].hasPatchApply = builder.turns[i].hasPatchApply
            /\ builder'.turns[i].prompt = builder.turns[i].prompt
    BY <1>3, <2>1, <2>2, PairInTurnDoes
  <2> QED BY <2>3, <2>4, <2>5, <2>6, <2>7, <2>8, <2>9 DEF AlikeTurns
<1>5. builder'.window.promptParts = current'.parts /\ builder'.window.hasPatchApply = current'.patch
  BY <1>4, OwnIsArmed
<1>6. OutstandingInTurns'
  <2>1. /\ RemoveAt(builder.outstanding, j) \in Seq([call : Nat, turn : Nat])
        /\ Len(RemoveAt(builder.outstanding, j)) = Len(builder.outstanding) - 1
        /\ \A k \in 1..(Len(builder.outstanding) - 1) : RemoveAt(builder.outstanding, j)[k] =
               IF k < j THEN builder.outstanding[k] ELSE builder.outstanding[k + 1]
    BY <1>2, RemoveAtIs
  <2>2. \A k \in 1..Len(builder.outstanding) : builder.outstanding[k].turn \in 1..Len(builder.turns)
    <3>1. OutstandingInTurns
      BY DEF LedgerInv
    <3>2. /\ DOMAIN builder.outstanding = 1..Len(builder.outstanding)
          /\ DOMAIN builder.turns = 1..Len(builder.turns)
      BY <1>2, LenProperties
    <3> QED BY <3>1, <3>2 DEF OutstandingInTurns
  <2>3. DOMAIN builder'.turns = 1..Len(builder.turns)
    BY <1>4, TurnsHaveUsages DEF AlikeTurns
  <2>4. DOMAIN builder'.outstanding = 1..(Len(builder.outstanding) - 1)
    BY <1>4, <2>1, LenProperties
  <2>5. ASSUME NEW k \in 1..(Len(builder.outstanding) - 1)
        PROVE  builder'.outstanding[k].turn \in 1..Len(builder.turns)
    <3>1. \E l \in 1..Len(builder.outstanding) : builder'.outstanding[k] = builder.outstanding[l]
      <4>1. k \in 1..Len(builder.outstanding) /\ k + 1 \in 1..Len(builder.outstanding)
        BY <1>2
      <4> QED BY <1>4, <2>1, <4>1
    <3> QED BY <2>2, <3>1
  <2> QED BY <2>3, <2>4, <2>5 DEF OutstandingInTurns
<1> QED BY <1>1, <1>4, <1>5, <1>6, WorkStep

LEMMA OutputKeeps == ASSUME LedgerInv, NEW call \in Calls, NEW named \in BOOLEAN, Output(call, named) PROVE LedgerInv'
<1>1. /\ builder \in BuilderType /\ current \in DoneType /\ builder.armed = Own
      /\ calls \in Nat /\ waiting \subseteq Nat
  BY OwnIsArmed
<1>2. call \in Nat
  BY <1>1 DEF Output
<1>3. UNCHANGED <<isSubagent, started, last, total, calls, tiers, requests, unread, lost, current>>
  BY DEF Output, truth
<1>4. waiting' \subseteq Nat
  BY <1>1 DEF Output
<1>5. CASE builder' = builder
  BY <1>1, <1>3, <1>4, <1>5, SameTurnsAlike, SameOutstanding, OwnIsArmed, WorkStep
      DEF SameCounts, SameTurns, SameTier
<1>6. builder' = ToolOutput(builder, call, named)
  BY DEF Output
<1>7. ASSUME builder.armed, NEW i \in 1..Len(builder.window.pendingTools), builder' = PairInWindow(builder, i, call)
      PROVE  LedgerInv'
  <2>1. Own
    BY <1>1, <1>7
  <2> QED BY <1>2, <1>3, <1>4, <1>7, <2>1, InWindowKeeps
<1>8. ASSUME builder.armed, NEW j \in 1..Len(builder.outstanding), builder' = PairInTurn(builder, j, call)
      PROVE  LedgerInv'
  <2>1. Own
    BY <1>1, <1>8
  <2> QED BY <1>2, <1>3, <1>4, <1>8, <2>1, InTurnKeeps
<1> QED BY <1>1, <1>2, <1>5, <1>6, <1>7, <1>8, ToolOutputIs

LEMMA StartTaskKeeps == ASSUME LedgerInv, StartTask PROVE LedgerInv'
<1>1. /\ builder \in BuilderType /\ current \in DoneType /\ builder.armed = Own
      /\ calls \in Nat /\ waiting \subseteq Nat
  BY OwnIsArmed
<1>2. /\ builder' \in BuilderType /\ builder'.armed /\ builder'.window = builder.window
      /\ builder'.warning = builder.warning
      /\ SameCounts(builder, builder') /\ SameTurns(builder, builder') /\ SameTier(builder, builder')
  <2>1. builder \in BuilderType /\ builder' = TaskStarted(builder)
    BY <1>1 DEF StartTask
  <2>2. builder' \in BuilderType /\ builder'.armed /\ builder'.window = builder.window
    BY <2>1, TaskStartedDoes
  <2>3. builder'.warning = builder.warning
    BY <2>1, TaskStartedDoes
  <2>4. SameCounts(builder, builder') /\ SameTurns(builder, builder') /\ SameTier(builder, builder')
    BY <2>1, TaskStartedDoes
  <2> QED BY <2>2, <2>3, <2>4
<1>3. UNCHANGED <<isSubagent, calls, waiting, tiers, requests, current, lost>> /\ started' = TRUE
  BY DEF StartTask
<1>4. Own'
  BY <1>3 DEF Own
<1>5. LedgerTypes'
  <2>1. last' \in Nat /\ total' \in Nat
    BY DEF LedgerInv, LedgerTypes, StartTask
  <2>2. unread' \in BOOLEAN
    BY DEF LedgerInv, LedgerTypes, StartTask
  <2> QED BY <1>2, <1>3, <2>1, <2>2 DEF LedgerInv, LedgerTypes
<1>6. Listens'
  BY <1>2, <1>4 DEF Listens
<1>7. OutstandingInTurns'
  BY <1>2, SameOutstanding
<1>8. \A i : PromptOf(i)' = PromptOf(i)
  BY <1>3 DEF PromptOf
<1>9. WindowIsCurrent'
  BY <1>2, <1>3, <1>8 DEF LedgerInv, WindowIsCurrent, SameCounts
<1>10. TierInForce'
  <2>1. builder'.settingsFastMode = FastBy(tiers', OwnTiers(tiers')) /\ builder'.fastMode = InForceBy(tiers')
    BY <1>2, <1>3, FastByIs DEF SameTier
  <2> QED BY <2>1, InForceIs DEF TierInForce
<1>11. TurnsAreRequests'
  BY <1>2, <1>3, <1>8 DEF LedgerInv, TurnsAreRequests, SameTurns
<1>12. CountIsKnown' /\ SumIsKnown'
  <2>1. CASE ~isSubagent
    <3>1. Own /\ UNCHANGED <<last, total, unread>>
      BY <2>1 DEF StartTask, Own
    <3>2. CountIsKnown'
      BY <1>2, <1>4, <3>1 DEF LedgerInv, CountIsKnown, SameCounts, SameTurns
    <3>3. SumIsKnown'
      BY <1>2, <1>3, <1>4, <3>1 DEF LedgerInv, SumIsKnown, SameCounts, SameTurns
    <3> QED BY <3>2, <3>3
  <2>2. CASE isSubagent
    <3>1. ~Own /\ last' = 0 /\ total' = 0 /\ unread' = FALSE
      BY <2>2 DEF StartTask, Own
    <3>2. /\ builder'.turns = <<>> /\ ~builder'.warning /\ lost' = 0
          /\ builder'.prevLast = 0 /\ builder'.prevTotal = 0 /\ builder'.running = 0
      BY <1>2, <1>3, <3>1 DEF LedgerInv, Listens, SameCounts, SameTurns
    <3>3. CountIsKnown'
      BY <3>1, <3>2 DEF CountIsKnown
    <3>4. SumIsKnown'
      BY <3>1, <3>2, SpentNothing DEF SumIsKnown
    <3> QED BY <3>3, <3>4
  <2> QED BY <2>1, <2>2
<1> QED BY <1>5, <1>6, <1>7, <1>9, <1>10, <1>11, <1>12 DEF LedgerInv

LEMMA LoseCountKeeps == ASSUME LedgerInv, NEW usage \in Nat \ {0}, LoseCount(usage) PROVE LedgerInv'
<1>1. /\ builder \in BuilderType /\ current \in DoneType /\ builder.armed = Own
      /\ calls \in Nat /\ waiting \subseteq Nat
  BY OwnIsArmed
<1>2. builder' = builder \/ builder' = UnreadableCount(builder)
  BY DEF LoseCount
<1>3. /\ builder' \in BuilderType /\ builder'.armed = builder.armed /\ builder'.window = builder.window
      /\ SameCounts(builder, builder') /\ SameTurns(builder, builder') /\ SameTier(builder, builder')
      /\ ~builder.armed => builder'.warning = builder.warning
  <2>1. CASE builder' = builder
    BY <1>1, <2>1 DEF SameCounts, SameTurns, SameTier
  <2>2. CASE builder' = UnreadableCount(builder)
    BY <1>1, <2>2, UnreadableCountDoes
  <2> QED BY <1>2, <2>1, <2>2
<1>4. /\ UNCHANGED <<isSubagent, started, calls, waiting, tiers, requests, current>>
      /\ last' = usage /\ total' = total + usage /\ unread' = TRUE
      /\ lost' = IF Own THEN lost + 1 ELSE lost
  BY DEF LoseCount, Using
<1>5. total \in Nat /\ lost \in Nat
  BY DEF LedgerInv, LedgerTypes
<1>6. Own' = Own
  BY <1>4 DEF Own
<1>7. LedgerTypes'
  BY <1>3, <1>4, <1>5 DEF LedgerInv, LedgerTypes
<1>8. Listens'
  BY <1>1, <1>3, <1>4, <1>6 DEF LedgerInv, Listens, SameCounts, SameTurns
<1>9. OutstandingInTurns'
  BY <1>3, SameOutstanding
<1>10. \A i : PromptOf(i)' = PromptOf(i)
  BY <1>4 DEF PromptOf
<1>11. WindowIsCurrent'
  BY <1>3, <1>4, <1>10 DEF LedgerInv, WindowIsCurrent, SameCounts
<1>12. TierInForce'
  <2>1. builder'.settingsFastMode = FastBy(tiers', OwnTiers(tiers')) /\ builder'.fastMode = InForceBy(tiers')
    BY <1>3, <1>4, FastByIs DEF SameTier
  <2> QED BY <2>1, InForceIs DEF TierInForce
<1>13. TurnsAreRequests'
  BY <1>3, <1>4, <1>10 DEF LedgerInv, TurnsAreRequests, SameTurns
<1>14. CountIsKnown'
  <2>1. builder.prevTotal \in Nat
    BY <1>1 DEF BuilderType
  <2> QED BY <1>3, <1>4, <1>5, <1>6, <2>1 DEF LedgerInv, CountIsKnown, SameCounts, SameTurns
<1>15. SumIsKnown'
  <2>1. builder'.running = Spent(builder'.turns)
    BY <1>3 DEF LedgerInv, SumIsKnown, SameCounts, SameTurns
  <2>2. CASE Own
    <3>1. lost' = lost + 1 /\ lost' > 0
      BY <1>4, <1>5, <2>2
    <3> QED BY <1>4, <1>5, <2>1, <3>1 DEF SumIsKnown
  <2>3. CASE ~Own
    <3>1. builder'.warning = builder.warning /\ lost' = lost
      BY <1>1, <1>3, <1>4, <2>3
    <3> QED BY <1>6, <2>1, <2>3, <3>1 DEF LedgerInv, SumIsKnown
  <2> QED BY <2>2, <2>3
<1> QED BY <1>7, <1>8, <1>9, <1>11, <1>12, <1>13, <1>14, <1>15 DEF LedgerInv

PromptIn(rs, i) ==
    LET asked == {j \in 1..i : rs[j].parts # <<>>}
    IN  IF asked = {} THEN <<>> ELSE rs[Max(asked)].parts

LEMMA PromptIs == \A i : PromptOf(i) = PromptIn(requests, i) /\ PromptOf(i)' = PromptIn(requests', i)
BY DEF PromptOf, PromptIn

\* A further request does not change the prompts of those before it,
LEMMA PromptStays ==
    ASSUME NEW rs \in Seq(RequestType), NEW r \in RequestType, NEW i \in 0..Len(rs)
    PROVE  PromptIn(Append(rs, r), i) = PromptIn(rs, i)
<1> DEFINE us == Append(rs, r)
           asked == {j \in 1..i : rs[j].parts # <<>>}
<1>1. \A j \in 1..i : us[j] = rs[j]
  BY AppendProperties
<1> HIDE DEF us
<1>2. {j \in 1..i : us[j].parts # <<>>} = asked
  BY <1>1
<1>3. asked # {} => Max(asked) \in 1..i
  <2>1. i \in Nat /\ asked \in SUBSET (1..i)
    BY LenProperties
  <2> HIDE DEF asked
  <2>2. asked # {} => Max(asked) \in asked
    BY <2>1, MaxIs
  <2> QED BY <2>1, <2>2
<1> HIDE DEF asked
<1>4. PromptIn(us, i) = IF asked = {} THEN <<>> ELSE us[Max(asked)].parts
  BY <1>2 DEF PromptIn
<1>5. PromptIn(rs, i) = IF asked = {} THEN <<>> ELSE rs[Max(asked)].parts
  BY DEF PromptIn, asked
<1>6. PromptIn(us, i) = PromptIn(rs, i)
  BY <1>1, <1>3, <1>4, <1>5
<1> QED BY <1>6 DEF us

\* and answers its own words, or what the one before it answers.
LEMMA PromptNew ==
    ASSUME NEW rs \in Seq(RequestType), NEW r \in RequestType
    PROVE  PromptIn(Append(rs, r), Len(rs) + 1) =
               IF r.parts # <<>> THEN r.parts ELSE PromptIn(rs, Len(rs))
<1> DEFINE us == Append(rs, r)
           n == Len(rs)
           m == Len(rs) + 1
           asked == {j \in 1..n : us[j].parts # <<>>}
           all == {j \in 1..m : us[j].parts # <<>>}
<1>1. n \in Nat /\ m = n + 1 /\ us[m] = r
  BY AppendProperties, LenProperties
<1> HIDE DEF us, n, m
<1>2. 1..m = 1..n \cup {m}
  BY <1>1
<1>3. r.parts # <<>> => all = asked \cup {m}
  BY <1>1, <1>2
<1>4. r.parts = <<>> => all = asked
  BY <1>1, <1>2
<1>5. asked \in SUBSET (1..n)
  OBVIOUS
<1> HIDE DEF asked, all
<1>6. PromptIn(us, m) = IF all = {} THEN <<>> ELSE us[Max(all)].parts
  BY DEF PromptIn, all
<1>7. PromptIn(us, n) = IF asked = {} THEN <<>> ELSE us[Max(asked)].parts
  BY DEF PromptIn, asked
<1>8. PromptIn(us, n) = PromptIn(rs, n)
  <2>1. n \in 0..Len(rs)
    BY <1>1 DEF n
  <2> QED BY <2>1, PromptStays DEF us
<1>9. r.parts # <<>> => Max(all) = m
  BY <1>1, <1>3, <1>5, LastIsMax
<1>10. PromptIn(us, m) = IF r.parts # <<>> THEN r.parts ELSE PromptIn(rs, n)
  <2>1. CASE r.parts # <<>>
    <3>1. all # {}
      BY <1>3, <2>1
    <3> QED BY <1>1, <1>6, <1>9, <2>1, <3>1
  <2>2. CASE r.parts = <<>>
    BY <1>4, <1>6, <1>7, <1>8, <2>2
  <2> QED BY <2>1, <2>2
<1> QED BY <1>10 DEF us, m, n

\* A count that the builder keeps, of a request codex has not logged before.
LEMMA KeptKeeps ==
    ASSUME LedgerInv, Own, NEW usage \in Nat \ {0}, NEW sum \in Nat,
           builder' = Kept(builder, usage, sum), Counted(usage),
           last' = usage, total' = sum, UNCHANGED <<isSubagent, started, calls, waiting, tiers, lost>>,
           lost = 0 => builder.running + usage = sum
    PROVE  LedgerInv'
<1> DEFINE b == builder
           request == Request(usage)
           turn == ClosedTurn(builder, usage)
<1>23. PICK n : n = Len(requests)
  OBVIOUS
<1>1. /\ builder \in BuilderType /\ current \in DoneType /\ requests \in Seq(RequestType)
      /\ calls \in Nat /\ lost \in Nat /\ tiers \in Seq(TierType)
  BY DEF LedgerInv, LedgerTypes
<1>2. /\ b.turns \in Seq(TurnType) /\ b.outstanding \in Seq([call : Nat, turn : Nat])
      /\ b.window \in WindowType /\ b.running \in Nat /\ b.warning \in BOOLEAN
  BY <1>1 DEF BuilderType
<1>3. requests' = Append(requests, request) /\ current' = Nothing /\ unread' = FALSE
  BY DEF Counted, Done
<1>4. /\ request \in RequestType /\ request.parts = current.parts /\ request.patch = current.patch
      /\ request.usage = usage /\ request.fast = builder.fastMode
  <2>1. InForce = builder.fastMode /\ builder.fastMode \in BOOLEAN
    BY <1>1, FastByIs, InForceIs DEF BuilderType
  <2> QED BY <1>1, <2>1 DEF Request, RequestType, DoneType
<1>5. KeptFields(builder, usage, sum, builder')
  <2>1. builder \in BuilderType /\ usage \in Nat
    BY <1>1
  <2> QED BY <2>1, KeptDoes
<1>6. /\ builder' \in BuilderType /\ builder'.window = newWindow /\ SameTier(builder, builder')
      /\ builder'.prevLast = usage /\ builder'.prevTotal = sum /\ builder'.running = builder.running + usage
      /\ builder'.lastPrompt = turn.prompt
      /\ turn \in TurnType /\ builder'.turns = Append(builder.turns, turn)
  BY <1>5 DEF KeptFields
<1>7. builder'.armed = builder.armed
  BY <1>5 DEF KeptFields
<1>21. builder'.outstanding = builder.outstanding \o Moved(builder)
  BY <1>5 DEF KeptFields
<1>22. builder'.warning = (builder.warning \/ ~withinSlack(builder.running + usage, sum))
  BY <1>5 DEF KeptFields
<1>8. /\ turn.usage = usage /\ turn.fastMode = builder.fastMode /\ turn.hasPatchApply = current.patch
      /\ turn.prompt = IF current.parts # <<>> THEN current.parts ELSE PromptOf(n)
  BY <1>23 DEF ClosedTurn, LedgerInv, WindowIsCurrent
<1> HIDE DEF request, turn
<1>9. /\ requests' \in Seq(RequestType) /\ Len(requests') = n + 1 /\ requests'[n + 1] = request
      /\ \A i \in 1..n : requests'[i] = requests[i]
      /\ DOMAIN requests' = 1..(n + 1) /\ DOMAIN requests = 1..n /\ n \in Nat
  <2>1. /\ requests' \in Seq(RequestType) /\ Len(requests') = n + 1 /\ requests'[n + 1] = request
        /\ \A i \in 1..n : requests'[i] = requests[i]
    BY <1>1, <1>3, <1>4, <1>23, AppendProperties
  <2> QED BY <1>1, <1>23, <2>1, LenProperties
<1>10. /\ Len(builder'.turns) = Len(builder.turns) + 1 /\ builder'.turns[Len(builder.turns) + 1] = turn
       /\ \A i \in 1..Len(builder.turns) : builder'.turns[i] = builder.turns[i]
       /\ builder'.turns # <<>>
  <2>1. /\ Len(builder'.turns) = Len(builder.turns) + 1 /\ builder'.turns[Len(builder.turns) + 1] = turn
        /\ \A i \in 1..Len(builder.turns) : builder'.turns[i] = builder.turns[i]
    BY <1>2, <1>6, AppendProperties
  <2>2. Len(builder.turns) + 1 # 0
    BY <1>2, LenProperties
  <2>3. builder'.turns # <<>>
    <3>1. builder'.turns = <<>> => Len(builder'.turns) = 0
      OBVIOUS
    <3> QED BY <2>1, <2>2, <3>1
  <2> QED BY <2>1, <2>3
<1>11. Own' /\ Own
  BY DEF Own
<1>12. LedgerTypes'
  <2>1. current' \in DoneType
    BY <1>3 DEF Nothing, DoneType
  <2> QED BY <1>3, <1>6, <1>9, <2>1 DEF LedgerInv, LedgerTypes
<1>13. Listens'
  BY <1>7, <1>11 DEF LedgerInv, Listens
<1>14. PromptOf(n + 1)' = turn.prompt /\ \A i \in 0..n : PromptOf(i)' = PromptOf(i)
  <2>1. PromptIn(requests', n + 1) = IF request.parts # <<>> THEN request.parts ELSE PromptIn(requests, n)
    BY <1>1, <1>3, <1>4, <1>23, PromptNew
  <2>2. \A i \in 0..n : PromptIn(requests', i) = PromptIn(requests, i)
    BY <1>1, <1>3, <1>4, <1>23, PromptStays
  <2>3. PromptOf(n) = PromptIn(requests, n)
    BY PromptIs
  <2> QED BY <1>4, <1>8, <2>1, <2>2, <2>3, PromptIs
<1>15. WindowIsCurrent'
  <2>1. PromptOf(Len(requests))' = turn.prompt
    BY <1>9, <1>14
  <2>2. builder'.window.promptParts = current'.parts /\ builder'.window.hasPatchApply = current'.patch
    BY <1>3, <1>6 DEF Nothing, newWindow
  <2> QED BY <1>6, <2>1, <2>2 DEF WindowIsCurrent
<1>16. TierInForce'
  <2>1. builder'.settingsFastMode = FastBy(tiers', OwnTiers(tiers')) /\ builder'.fastMode = InForceBy(tiers')
    BY <1>6, FastByIs DEF SameTier
  <2> QED BY <2>1, InForceIs DEF TierInForce
<1>17. CountIsKnown'
  BY <1>3, <1>6, <1>10 DEF CountIsKnown
<1>18. SumIsKnown'
  <2>1. Spent(builder'.turns) = Spent(builder.turns) + usage
    <3>1. HaveUsages(builder.turns) /\ HaveUsages(builder'.turns)
      BY <1>1, <1>6, TurnsHaveUsages
    <3>2. Spent(builder'.turns) = Spent(builder.turns) + builder'.turns[Len(builder'.turns)].usage
      BY <1>10, <3>1, SpentMore
    <3> QED BY <1>8, <1>10, <3>2
  <2>2. builder'.running = Spent(builder'.turns)
    BY <1>6, <2>1 DEF LedgerInv, SumIsKnown
  <2>3. builder'.running - total' \in -1..1 \/ builder'.warning
    BY <1>6, <1>22 DEF withinSlack
  <2>4. lost = 0 => builder'.running = total'
    BY <1>6
  <2>5. builder'.warning => lost > 0
    <3>1. CASE lost = 0
      <4>1. withinSlack(builder.running + usage, sum)
        BY <1>2, <3>1 DEF withinSlack
      <4>2. ~builder.warning
        BY <3>1 DEF LedgerInv, SumIsKnown
      <4>3. ~builder'.warning
        BY <1>22, <4>1, <4>2
      <4> QED BY <4>3
    <3>2. CASE lost # 0
      BY <1>1, <3>2
    <3> QED BY <3>1, <3>2
  <2> QED BY <1>3, <2>2, <2>3, <2>4, <2>5 DEF SumIsKnown
<1>19. TurnsAreRequests'
  <2>1. Len(builder.turns) = n
    BY <1>23 DEF LedgerInv, TurnsAreRequests
  <2>2. Len(builder'.turns) = Len(requests')
    BY <1>9, <1>10, <2>1
  <2>3. ASSUME NEW i \in 1..(n + 1)
        PROVE  /\ builder'.turns[i].usage = requests'[i].usage
               /\ builder'.turns[i].fastMode = requests'[i].fast
               /\ builder'.turns[i].hasPatchApply = requests'[i].patch
               /\ builder'.turns[i].prompt = PromptOf(i)'
    <3>1. CASE i = n + 1
      BY <1>4, <1>8, <1>9, <1>10, <1>14, <2>1, <3>1
    <3>2. CASE i # n + 1
      <4>1. i \in 1..n /\ i \in 0..n
        BY <1>9, <3>2
      <4>2. /\ builder.turns[i].usage = requests[i].usage /\ builder.turns[i].fastMode = requests[i].fast
            /\ builder.turns[i].hasPatchApply = requests[i].patch /\ builder.turns[i].prompt = PromptOf(i)
        <5>1. TurnsAreRequests /\ DOMAIN requests = 1..n
          BY <1>9 DEF LedgerInv
        <5> QED BY <4>1, <5>1 DEF TurnsAreRequests
      <4>3. builder'.turns[i] = builder.turns[i] /\ requests'[i] = requests[i]
        BY <1>9, <1>10, <2>1, <4>1
      <4>4. PromptOf(i)' = PromptOf(i)
        BY <1>14, <4>1
      <4> QED BY <4>2, <4>3, <4>4
    <3> QED BY <3>1, <3>2
  <2> QED BY <1>9, <2>2, <2>3 DEF TurnsAreRequests
<1>20. OutstandingInTurns'
  <2>1. /\ DOMAIN builder'.turns = 1..(Len(builder.turns) + 1) /\ DOMAIN builder.turns = 1..Len(builder.turns)
        /\ Len(builder.turns) \in Nat
    BY <1>1, <1>6, <1>10, TurnsHaveUsages DEF HaveUsages
  <2> DEFINE moved == Moved(builder)
             p == Len(builder.outstanding)
             number == Len(builder.turns) + 1
  <2>2. moved \in Seq([call : Nat, turn : Nat]) /\ \A k \in 1..Len(moved) : moved[k].turn = number
    BY <1>1, MovedIs
  <2> HIDE DEF moved
  <2>3. /\ Len(builder.outstanding \o moved) = p + Len(moved)
        /\ \A k \in 1..(p + Len(moved)) : (builder.outstanding \o moved)[k] =
               IF k <= p THEN builder.outstanding[k] ELSE moved[k - p]
        /\ p \in Nat /\ Len(moved) \in Nat
        /\ DOMAIN (builder.outstanding \o moved) = 1..(p + Len(moved))
        /\ DOMAIN builder.outstanding = 1..p
    BY <1>2, <2>2, ConcatProperties, LenProperties
  <2> DEFINE waits == builder'.outstanding
  <2>5. waits = builder.outstanding \o moved
    BY <1>21 DEF moved
  <2>4. ASSUME NEW k \in 1..(p + Len(moved)) PROVE waits[k].turn \in 1..number
    <3>1. CASE k <= p
      <4>1. k \in DOMAIN builder.outstanding /\ waits[k] = builder.outstanding[k]
        BY <2>3, <2>5, <3>1
      <4>2. builder.outstanding[k].turn \in DOMAIN builder.turns
        BY <4>1 DEF LedgerInv, OutstandingInTurns
      <4> QED BY <2>1, <4>1, <4>2
    <3>2. CASE ~(k <= p)
      <4>1. k - p \in 1..Len(moved)
        BY <2>3, <3>2
      <4>2. waits[k] = moved[k - p]
        BY <2>3, <2>5, <3>2
      <4>3. moved[k - p].turn = number
        BY <2>2, <4>1
      <4>4. number \in 1..number
        BY <2>1
      <4> QED BY <4>2, <4>3, <4>4
    <3> QED BY <3>1, <3>2
  <2> QED BY <2>1, <2>3, <2>4, <2>5 DEF OutstandingInTurns, moved
<1> QED BY <1>12, <1>13, <1>15, <1>16, <1>17, <1>18, <1>19, <1>20 DEF LedgerInv

\* A count of the parent's part changes nothing.
LEMMA DeafStep ==
    ASSUME LedgerInv, ~Own, builder' = builder, last' \in Nat, total' \in Nat, unread' \in BOOLEAN,
           UNCHANGED <<isSubagent, started, calls, waiting, tiers, requests, current, lost>>
    PROVE  LedgerInv'
<1>1. ~Own' /\ Own' = Own
  BY DEF Own
<1>2. LedgerTypes'
  BY DEF LedgerInv, LedgerTypes
<1>3. Listens'
  BY <1>1 DEF LedgerInv, Listens
<1>4. OutstandingInTurns' /\ WindowIsCurrent' /\ TurnsAreRequests'
  BY DEF LedgerInv, OutstandingInTurns, WindowIsCurrent, TurnsAreRequests, PromptOf
<1>5. TierInForce'
  BY DEF LedgerInv, TierInForce, InForce
<1>6. CountIsKnown' /\ SumIsKnown'
  BY <1>1 DEF LedgerInv, CountIsKnown, SumIsKnown
<1> QED BY <1>2, <1>3, <1>4, <1>5, <1>6 DEF LedgerInv

LEMMA SameStep == ASSUME LedgerInv, UNCHANGED <<builder, codex, truth>> PROVE LedgerInv'
<1>1. UNCHANGED <<isSubagent, started, last, total, calls, waiting, tiers, requests, current, unread, lost>>
  BY DEF codex, truth
<1>2. Own' = Own
  BY <1>1 DEF Own
<1>3. LedgerTypes' /\ Listens'
  BY <1>1, <1>2 DEF LedgerInv, LedgerTypes, Listens
<1>4. OutstandingInTurns' /\ WindowIsCurrent' /\ TurnsAreRequests'
  BY <1>1 DEF LedgerInv, OutstandingInTurns, WindowIsCurrent, TurnsAreRequests, PromptOf
<1>5. TierInForce'
  BY <1>1 DEF LedgerInv, TierInForce, InForce
<1>6. CountIsKnown' /\ SumIsKnown'
  BY <1>1, <1>2 DEF LedgerInv, CountIsKnown, SumIsKnown
<1> QED BY <1>3, <1>4, <1>5, <1>6 DEF LedgerInv

LEMMA CountTypes == ASSUME LedgerInv
                    PROVE  /\ builder \in BuilderType /\ builder.armed = Own
                           /\ builder.prevTotal \in Nat /\ last \in Nat /\ total \in Nat /\ lost \in Nat
                           /\ unread \in BOOLEAN
BY DEF LedgerInv, LedgerTypes, Listens, BuilderType

\* A count that says what the last one said is of no further request.
LEMMA CountDoes ==
    ASSUME LedgerInv, NEW usage \in Nat \ {0}, Count(usage)
    PROVE  /\ Own => builder' = Kept(builder, usage, total')
           /\ ~Own => UNCHANGED <<builder, requests, current>>
<1>1. /\ builder \in BuilderType /\ builder.armed = Own /\ builder.prevTotal \in Nat /\ total \in Nat
  BY CountTypes
<1>2. total' = total + usage /\ builder' = TokenCount(builder, usage, total') /\ Counted(usage)
  BY DEF Count, Using
<1>3. CASE ~Own
  <2>1. builder' = builder
    BY <1>1, <1>2, <1>3 DEF TokenCount
  <2>2. UNCHANGED <<requests, current>>
    BY <1>2, <1>3 DEF Counted, Done
  <2> QED BY <1>3, <2>1, <2>2
<1>4. CASE Own
  <2>1. builder.prevTotal <= total
    BY <1>4 DEF LedgerInv, CountIsKnown
  <2>2. total' # builder.prevTotal
    BY <1>1, <1>2, <2>1
  <2>3. builder' = Kept(builder, usage, total')
    BY <1>1, <1>2, <1>4, <2>2 DEF TokenCount
  <2> QED BY <1>4, <2>3
<1> QED BY <1>3, <1>4

LEMMA CountKeeps == ASSUME LedgerInv, NEW usage \in Nat \ {0}, Count(usage) PROVE LedgerInv'
<1>1. total \in Nat /\ lost \in Nat
  BY CountTypes
<1>2. /\ last' = usage /\ total' = total + usage /\ Counted(usage)
      /\ UNCHANGED <<isSubagent, started, calls, waiting, tiers, lost>>
  BY DEF Count, Using
<1>3. last' \in Nat /\ total' \in Nat
  BY <1>1, <1>2
<1>4. CASE ~Own
  <2>1. UNCHANGED <<builder, requests, current>>
    BY <1>4, CountDoes
  <2>2. unread' \in BOOLEAN
    BY <1>2 DEF Counted
  <2> QED BY <1>2, <1>3, <1>4, <2>1, <2>2, DeafStep
<1>5. CASE Own
  <2>1. builder' = Kept(builder, usage, total')
    BY <1>5, CountDoes
  <2>2. lost = 0 => builder.running = total
    BY <1>5 DEF LedgerInv, SumIsKnown
  <2>3. PICK sum \in Nat : sum = total'
    BY <1>3
  <2>4. builder' = Kept(builder, usage, sum) /\ total' = sum /\ (lost = 0 => builder.running + usage = sum)
    BY <1>2, <2>1, <2>2, <2>3
  <2> QED BY <1>2, <1>5, <2>4, KeptKeeps
<1> QED BY <1>4, <1>5

\* The counters again: of a request only if the count before could not be read.
LEMMA RepeatDoes ==
    ASSUME LedgerInv, Repeat
    PROVE  /\ Own /\ unread => builder' = Kept(builder, last, total) /\ Counted(last)
           /\ ~(Own /\ unread) => UNCHANGED <<builder, requests, current>>
<1>1. builder \in BuilderType /\ builder.armed = Own /\ builder.prevTotal \in Nat /\ total \in Nat
  BY CountTypes
<1>2. last # 0 /\ builder' = TokenCount(builder, last, total)
  BY DEF Repeat
<1>3. IF unread THEN Counted(last) ELSE UNCHANGED <<requests, current, unread>>
  BY DEF Repeat
<1>4. CASE ~Own
  <2>1. builder' = builder
    BY <1>1, <1>2, <1>4 DEF TokenCount
  <2>2. UNCHANGED <<requests, current>>
    BY <1>3, <1>4 DEF Counted, Done
  <2> QED BY <1>4, <2>1, <2>2
<1>5. CASE Own /\ unread
  <2>1. builder.turns = <<>> \/ builder.prevTotal < total
    BY <1>5 DEF LedgerInv, CountIsKnown
  <2>2. builder' = Kept(builder, last, total)
    BY <1>1, <1>2, <1>5, <2>1 DEF TokenCount
  <2> QED BY <1>3, <1>5, <2>2
<1>6. CASE Own /\ ~unread
  <2>1. builder.turns # <<>> /\ builder.prevLast = last /\ builder.prevTotal = total
    BY <1>2, <1>6 DEF LedgerInv, CountIsKnown
  <2>2. builder' = builder
    BY <1>1, <1>2, <1>6, <2>1 DEF TokenCount
  <2>3. UNCHANGED <<requests, current>>
    BY <1>3, <1>6
  <2> QED BY <1>6, <2>2, <2>3
<1> QED BY <1>4, <1>5, <1>6

LEMMA RepeatKeeps == ASSUME LedgerInv, Repeat PROVE LedgerInv'
<1>1. last \in Nat /\ total \in Nat /\ unread \in BOOLEAN
  BY CountTypes
<1>2. last # 0 /\ UNCHANGED <<isSubagent, started, calls, waiting, tiers, lost, last, total>>
  BY DEF Repeat, codex
<1>3. IF unread THEN Counted(last) ELSE UNCHANGED <<requests, current, unread>>
  BY DEF Repeat
<1>4. CASE ~Own
  <2>1. UNCHANGED <<builder, requests, current>>
    BY <1>4, RepeatDoes
  <2>2. unread' \in BOOLEAN
    BY <1>1, <1>3 DEF Counted
  <2> QED BY <1>1, <1>2, <1>4, <2>1, <2>2, DeafStep
<1>5. CASE Own /\ unread
  <2>1. builder' = Kept(builder, last, total) /\ Counted(last)
    BY <1>5, RepeatDoes
  <2>2. lost > 0
    BY <1>5 DEF LedgerInv, SumIsKnown
  <2>3. PICK usage \in Nat \ {0} : usage = last
    BY <1>1, <1>2
  <2>4. PICK sum \in Nat : sum = total
    BY <1>1
  <2>5. /\ builder' = Kept(builder, usage, sum) /\ last' = usage /\ total' = sum
        /\ lost = 0 => builder.running + usage = sum
    BY <1>2, <2>1, <2>2, <2>3, <2>4
  <2>6. Counted(usage)
    BY <2>1, <2>3
  <2> QED BY <1>2, <1>5, <2>5, <2>6, KeptKeeps
<1>6. CASE Own /\ ~unread
  <2>1. UNCHANGED <<builder, requests, current, unread>>
    BY <1>3, <1>6, RepeatDoes
  <2> QED BY <1>2, <2>1, SameStep DEF codex, truth
<1> QED BY <1>4, <1>5, <1>6

---------------------------------------------------------------------------
\* The calls, their outputs and the turns they are listed in.

\* One more element, or one less.
LEMMA AddElement ==
    ASSUME NEW s \in Seq(Nat), NEW x \in Nat, Distinct(s), x \notin Elements(s)
    PROVE  Distinct(Append(s, x)) /\ Elements(Append(s, x)) = Elements(s) \cup {x}
<1> DEFINE t == Append(s, x)
           n == Len(s)
<1>1. /\ DOMAIN s = 1..n /\ DOMAIN t = 1..(n + 1) /\ n \in Nat /\ t[n + 1] = x
      /\ \A k \in 1..n : t[k] = s[k]
  BY AppendProperties, LenProperties
<1> HIDE DEF t, n
<1>2. 1..(n + 1) = 1..n \cup {n + 1}
  BY <1>1
<1>3. Elements(t) = Elements(s) \cup {x}
  BY <1>1, <1>2 DEF Elements
<1>4. Distinct(t)
  BY <1>1, <1>2 DEF Distinct, Elements
<1> QED BY <1>3, <1>4 DEF t

LEMMA RemoveElement ==
    ASSUME NEW s \in Seq(Nat), NEW i \in 1..Len(s), Distinct(s)
    PROVE  Distinct(RemoveAt(s, i)) /\ Elements(RemoveAt(s, i)) = Elements(s) \ {s[i]}
<1> DEFINE t == RemoveAt(s, i)
           n == Len(s)
<1>1. t \in Seq(Nat) /\ Len(t) = n - 1 /\ \A k \in 1..(n - 1) : t[k] = IF k < i THEN s[k] ELSE s[k + 1]
  BY RemoveAtIs
<1>2. DOMAIN s = 1..n /\ DOMAIN t = 1..(n - 1) /\ n \in Nat /\ i \in 1..n
  BY <1>1, LenProperties
<1> HIDE DEF t, n
<1>3. \A k \in 1..(n - 1) : \E l \in 1..n : l # i /\ t[k] = s[l] /\ l = IF k < i THEN k ELSE k + 1
  BY <1>1, <1>2
<1>4. \A l \in 1..n : l # i => \E k \in 1..(n - 1) : t[k] = s[l]
  <2> SUFFICES ASSUME NEW l \in 1..n, l # i PROVE \E k \in 1..(n - 1) : t[k] = s[l]
    OBVIOUS
  <2>1. CASE l < i
    BY <1>1, <1>2, <2>1
  <2>2. CASE l > i
    <3>1. l - 1 \in 1..(n - 1) /\ ~(l - 1 < i) /\ (l - 1) + 1 = l
      BY <1>2, <2>2
    <3>2. t[l - 1] = s[l]
      BY <1>1, <3>1
    <3> QED BY <3>1, <3>2
  <2> QED BY <1>2, <2>1, <2>2
<1>5. Elements(t) = Elements(s) \ {s[i]}
  <2>1. \A k \in 1..(n - 1) : t[k] \in Elements(s) /\ t[k] # s[i]
    <3> SUFFICES ASSUME NEW k \in 1..(n - 1) PROVE t[k] \in Elements(s) /\ t[k] # s[i]
      OBVIOUS
    <3>1. PICK l \in 1..n : l # i /\ t[k] = s[l]
      BY <1>3
    <3>2. s[l] \in Elements(s)
      BY <1>2 DEF Elements
    <3>3. s[l] # s[i]
      BY <1>2, <3>1 DEF Distinct
    <3> QED BY <3>1, <3>2, <3>3
  <2>2. \A l \in 1..n : s[l] # s[i] => s[l] \in Elements(t)
    BY <1>2, <1>4 DEF Elements
  <2> QED BY <1>2, <2>1, <2>2 DEF Elements
<1>6. Distinct(t)
  <2> SUFFICES ASSUME NEW k \in 1..(n - 1), NEW l \in 1..(n - 1), t[k] = t[l] PROVE k = l
    BY <1>2 DEF Distinct
  <2>1. PICK p \in 1..n : t[k] = s[p] /\ p = IF k < i THEN k ELSE k + 1
    BY <1>3
  <2>2. PICK q \in 1..n : t[l] = s[q] /\ q = IF l < i THEN l ELSE l + 1
    BY <1>3
  <2>3. p = q
    BY <1>2, <2>1, <2>2 DEF Distinct
  <2> QED BY <1>2, <2>1, <2>2, <2>3
<1> QED BY <1>5, <1>6 DEF t

\* The calls of a list, as a list of their own.
CallList(tools) == [k \in DOMAIN tools |-> tools[k].call]

LEMMA CallListIs ==
    ASSUME NEW n \in Nat, NEW tools, DOMAIN tools = 1..n, \A k \in 1..n : tools[k].call \in Nat
    PROVE  /\ CallList(tools) \in Seq(Nat) /\ Len(CallList(tools)) = n
           /\ OnceEach(tools) = Distinct(CallList(tools)) /\ CallsOf(tools) = Elements(CallList(tools))
<1> DEFINE list == CallList(tools)
<1>1. list = [k \in 1..n |-> tools[k].call]
  BY DEF CallList
<1>2. list \in [1..n -> Nat]
  BY <1>1
<1>3. list \in Seq(Nat)
  BY <1>2, SeqDef
<1>4. Len(list) = n
  BY <1>2, <1>3, LenProperties
<1>5. OnceEach(tools) = Distinct(list)
  BY <1>1 DEF OnceEach, Distinct
<1>6. CallsOf(tools) = Elements(list)
  BY <1>1 DEF CallsOf, Elements
<1> QED BY <1>3, <1>4, <1>5, <1>6

\* A tool with its output joins those that have theirs.
LEMMA AddTool ==
    ASSUME NEW S, NEW tools \in Seq(S), NEW t \in S, \A x \in S : x.call \in Nat, OnceEach(tools),
           t.call \notin CallsOf(tools)
    PROVE  LET more == Append(tools, t) IN
           OnceEach(more) /\ CallsOf(more) = CallsOf(tools) \cup {t.call}
<1> DEFINE more == Append(tools, t)
           n == Len(tools)
<1>1. /\ DOMAIN tools = 1..n /\ DOMAIN more = 1..(n + 1) /\ n \in Nat /\ more[n + 1] = t
      /\ \A k \in 1..n : more[k] = tools[k]
  BY AppendProperties, LenProperties
<1> HIDE DEF more, n
<1>2. 1..(n + 1) = 1..n \cup {n + 1}
  BY <1>1
<1>3. CallsOf(more) = CallsOf(tools) \cup {t.call}
  BY <1>1, <1>2 DEF CallsOf
<1>4. OnceEach(more)
  BY <1>1, <1>2 DEF OnceEach, CallsOf
<1> QED BY <1>3, <1>4 DEF more

\* A call that has its output waits no longer.
OpenType == [call : Nat, turn : Nat]

LEMMA RemoveWaiting ==
    ASSUME NEW open \in Seq(OpenType), NEW j \in 1..Len(open), OnceEach(open)
    PROVE  LET less == RemoveAt(open, j) IN
           /\ OnceEach(less)
           /\ \A i : WaitingIn(less, i) = WaitingIn(open, i) \ {open[j].call}
<1> DEFINE less == RemoveAt(open, j)
           n == Len(open)
<1>1. less \in Seq(OpenType) /\ Len(less) = n - 1 /\ \A k \in 1..(n - 1) : less[k] = IF k < j THEN open[k] ELSE open[k + 1]
  BY RemoveAtIs
<1>2. DOMAIN open = 1..n /\ DOMAIN less = 1..(n - 1) /\ n \in Nat /\ j \in 1..n
  BY <1>1, LenProperties
<1> HIDE DEF less, n
<1>3. \A k \in 1..(n - 1) : \E l \in 1..n : l # j /\ less[k] = open[l] /\ l = IF k < j THEN k ELSE k + 1
  BY <1>1, <1>2
<1>4. \A l \in 1..n : l # j => \E k \in 1..(n - 1) : less[k] = open[l]
  <2> SUFFICES ASSUME NEW l \in 1..n, l # j PROVE \E k \in 1..(n - 1) : less[k] = open[l]
    OBVIOUS
  <2>1. CASE l < j
    BY <1>1, <1>2, <2>1
  <2>2. CASE l > j
    <3>1. l - 1 \in 1..(n - 1) /\ ~(l - 1 < j) /\ (l - 1) + 1 = l
      BY <1>2, <2>2
    <3>2. less[l - 1] = open[l]
      BY <1>1, <3>1
    <3> QED BY <3>1, <3>2
  <2> QED BY <1>2, <2>1, <2>2
<1>5. ASSUME NEW i PROVE WaitingIn(less, i) = WaitingIn(open, i) \ {open[j].call}
  <2>1. ASSUME NEW c \in WaitingIn(less, i) PROVE c \in WaitingIn(open, i) /\ c # open[j].call
    <3>1. PICK k \in 1..(n - 1) : c = less[k].call /\ less[k].turn = i
      BY <1>2 DEF WaitingIn
    <3>2. PICK l \in 1..n : l # j /\ less[k] = open[l]
      BY <1>3
    <3>3. open[l].call # open[j].call
      BY <1>2, <3>2 DEF OnceEach
    <3> QED BY <1>2, <3>1, <3>2, <3>3 DEF WaitingIn
  <2>2. ASSUME NEW c \in WaitingIn(open, i), c # open[j].call PROVE c \in WaitingIn(less, i)
    <3>1. PICK l \in 1..n : c = open[l].call /\ open[l].turn = i
      BY <1>2 DEF WaitingIn
    <3>2. l # j
      BY <2>2, <3>1
    <3>3. PICK k \in 1..(n - 1) : less[k] = open[l]
      BY <1>4, <3>2
    <3> QED BY <1>2, <3>1, <3>3 DEF WaitingIn
  <2> QED BY <2>1, <2>2
<1>6. OnceEach(less)
  <2> SUFFICES ASSUME NEW k \in 1..(n - 1), NEW l \in 1..(n - 1), less[k].call = less[l].call PROVE k = l
    BY <1>2 DEF OnceEach
  <2>1. PICK p \in 1..n : less[k] = open[p] /\ p = IF k < j THEN k ELSE k + 1
    BY <1>3
  <2>2. PICK q \in 1..n : less[l] = open[q] /\ q = IF l < j THEN l ELSE l + 1
    BY <1>3
  <2>3. p = q
    BY <1>2, <2>1, <2>2 DEF OnceEach
  <2> QED BY <1>2, <2>1, <2>2, <2>3
<1> QED BY <1>5, <1>6 DEF less

\* The calls of a window that wait when its turn is closed.
LEMMA JoinWaiting ==
    ASSUME NEW open \in Seq(OpenType), NEW moved \in Seq(OpenType), OnceEach(open), OnceEach(moved),
           CallsOf(open) \cap CallsOf(moved) = {}
    PROVE  LET all == open \o moved IN
           /\ OnceEach(all)
           /\ \A i : WaitingIn(all, i) = WaitingIn(open, i) \cup WaitingIn(moved, i)
<1> DEFINE all == open \o moved
           p == Len(open)
           q == Len(moved)
<1>1. /\ p \in Nat /\ q \in Nat /\ DOMAIN open = 1..p /\ DOMAIN moved = 1..q /\ DOMAIN all = 1..(p + q)
      /\ \A k \in 1..(p + q) : all[k] = IF k <= p THEN open[k] ELSE moved[k - p]
  BY ConcatProperties, LenProperties
<1> HIDE DEF all, p, q
<1>2. \A k \in 1..p : k \in 1..(p + q) /\ all[k] = open[k]
  BY <1>1
<1>3. \A k \in 1..q : k + p \in 1..(p + q) /\ all[k + p] = moved[k]
  <2> SUFFICES ASSUME NEW k \in 1..q PROVE k + p \in 1..(p + q) /\ all[k + p] = moved[k]
    OBVIOUS
  <2>1. k + p \in 1..(p + q) /\ ~(k + p <= p) /\ (k + p) - p = k
    BY <1>1
  <2> QED BY <1>1, <2>1
<1>4. \A k \in 1..(p + q) : \/ k \in 1..p
                            \/ \E l \in 1..q : k = l + p
  <2> SUFFICES ASSUME NEW k \in 1..(p + q), k \notin 1..p PROVE \E l \in 1..q : k = l + p
    OBVIOUS
  <2>1. k - p \in 1..q /\ k = (k - p) + p
    BY <1>1
  <2> QED BY <2>1
<1>5. ASSUME NEW i PROVE WaitingIn(all, i) = WaitingIn(open, i) \cup WaitingIn(moved, i)
  <2>1. ASSUME NEW c \in WaitingIn(all, i) PROVE c \in WaitingIn(open, i) \cup WaitingIn(moved, i)
    <3>1. PICK k \in 1..(p + q) : c = all[k].call /\ all[k].turn = i
      BY <1>1 DEF WaitingIn
    <3>2. CASE k \in 1..p
      BY <1>1, <1>2, <3>1, <3>2 DEF WaitingIn
    <3>3. ASSUME NEW l \in 1..q, k = l + p PROVE c \in WaitingIn(moved, i)
      BY <1>1, <1>3, <3>1, <3>3 DEF WaitingIn
    <3> QED BY <1>4, <3>2, <3>3
  <2>2. ASSUME NEW c \in WaitingIn(open, i) PROVE c \in WaitingIn(all, i)
    BY <1>1, <1>2 DEF WaitingIn
  <2>3. ASSUME NEW c \in WaitingIn(moved, i) PROVE c \in WaitingIn(all, i)
    <3>1. PICK k \in 1..q : c = moved[k].call /\ moved[k].turn = i
      BY <1>1 DEF WaitingIn
    <3>2. k + p \in 1..(p + q) /\ all[k + p] = moved[k]
      BY <1>3
    <3> QED BY <1>1, <3>1, <3>2 DEF WaitingIn
  <2> QED BY <2>1, <2>2, <2>3
<1>6. OnceEach(all)
  <2> SUFFICES ASSUME NEW k \in 1..(p + q), NEW l \in 1..(p + q), all[k].call = all[l].call PROVE k = l
    BY <1>1 DEF OnceEach
  <2>1. CASE k \in 1..p /\ l \in 1..p
    BY <1>1, <1>2, <2>1 DEF OnceEach
  <2>2. ASSUME NEW x \in 1..q, NEW y \in 1..q, k = x + p, l = y + p PROVE k = l
    <3>1. all[k] = moved[x] /\ all[l] = moved[y]
      BY <1>3, <2>2
    <3>2. moved[x].call = moved[y].call
      BY <3>1
    <3>3. x = y
      BY <1>1, <3>2 DEF OnceEach
    <3> QED BY <2>2, <3>3
  <2>3. ASSUME NEW x \in 1..p, NEW y \in 1..q, all[x].call = all[y + p].call PROVE FALSE
    <3>1. open[x].call \in CallsOf(open) /\ moved[y].call \in CallsOf(moved)
      BY <1>1 DEF CallsOf
    <3>2. open[x].call = moved[y].call
      BY <1>2, <1>3, <2>3
    <3> QED BY <3>1, <3>2
  <2>4. CASE k \in 1..p /\ l \notin 1..p
    BY <1>4, <2>3, <2>4
  <2>5. CASE k \notin 1..p /\ l \in 1..p
    BY <1>4, <2>3, <2>5
  <2>6. CASE k \notin 1..p /\ l \notin 1..p
    BY <1>4, <2>2, <2>6
  <2> QED BY <2>1, <2>4, <2>5, <2>6
<1> QED BY <1>5, <1>6 DEF all

\* Each line keeps the calls and their outputs where they belong.

\* What the provers need of the types.
LEMMA ToolTypes ==
    ASSUME LedgerInv
    PROVE  /\ builder \in BuilderType /\ builder.window \in WindowType
           /\ builder.window.pendingTools \in Seq(Nat) /\ builder.window.tools \in Seq(ToolType)
           /\ builder.outstanding \in Seq(OpenType) /\ builder.turns \in Seq(TurnType)
           /\ requests \in Seq(RequestType) /\ Len(requests) \in Nat
           /\ DOMAIN requests = 1..Len(requests) /\ DOMAIN builder.turns = 1..Len(requests)
           /\ Len(builder.turns) = Len(requests)
           /\ calls \in Nat /\ waiting \subseteq Nat
<1>1. /\ builder \in BuilderType /\ requests \in Seq(RequestType) /\ calls \in Nat /\ waiting \subseteq Nat
  BY DEF LedgerInv, LedgerTypes
<1>2. /\ builder.window \in WindowType /\ builder.turns \in Seq(TurnType) /\ builder.outstanding \in Seq(OpenType)
  BY <1>1 DEF BuilderType, OpenType
<1>3. builder.window.pendingTools \in Seq(Nat) /\ builder.window.tools \in Seq(ToolType)
  BY <1>2 DEF WindowType
<1>4. Len(builder.turns) = Len(requests)
  BY DEF LedgerInv, TurnsAreRequests
<1>5. Len(requests) \in Nat /\ DOMAIN requests = 1..Len(requests) /\ DOMAIN builder.turns = 1..Len(requests)
  BY <1>1, <1>2, <1>4, LenProperties
<1> QED BY <1>1, <1>2, <1>3, <1>4, <1>5

SameTools(b, c) ==
    /\ c.window.pendingTools = b.window.pendingTools /\ c.window.tools = b.window.tools
    /\ SameTurns(b, c)

\* A line that is no call, no output and no count.
LEMMA QuietTools ==
    ASSUME ToolsInv, SameTools(builder, builder'), current'.calls = current.calls,
           UNCHANGED <<requests, calls, waiting>>
    PROVE  ToolsInv'
<1>1. PendingIsWaiting'
  BY DEF ToolsInv, PendingIsWaiting, SameTools, SameTurns
<1>2. OutputsAreTheirs'
  BY DEF ToolsInv, OutputsAreTheirs, SameTools, SameTurns
<1>3. CallsApart'
  BY DEF ToolsInv, CallsApart
<1> QED BY <1>1, <1>2, <1>3 DEF ToolsInv

LEMMA CallTools == ASSUME LedgerInv, ToolsInv, Call PROVE ToolsInv'
<1>1. /\ builder \in BuilderType /\ builder.window.pendingTools \in Seq(Nat)
      /\ DOMAIN requests = 1..Len(requests) /\ calls \in Nat
  BY ToolTypes
<1>2. /\ calls' = calls + 1 /\ waiting' = waiting \cup {calls'} /\ requests' = requests
      /\ builder' = ToolCall(builder, calls') /\ calls' \in Nat
  BY <1>1 DEF Call
<1>3. calls' \notin 1..calls /\ 1..calls \subseteq 1..calls'
  BY <1>1, <1>2
<1>4. /\ current.calls \subseteq 1..calls /\ waiting \subseteq 1..calls
      /\ \A i \in DOMAIN requests : requests[i].calls \subseteq 1..calls
  BY DEF ToolsInv, CallsApart
<1>5. SameTurns(builder, builder') /\ builder'.window.tools = builder.window.tools
  <2>1. builder \in BuilderType /\ builder' = ToolCall(builder, calls') /\ calls' \in Nat
    BY <1>1, <1>2
  <2>2. SameTurns(builder, builder')
    BY <2>1, ToolCallDoes
  <2>3. builder.armed => builder'.window.tools = builder.window.tools
    BY <2>1, ToolCallDoes
  <2>4. ~builder.armed => builder'.window = builder.window
    BY <2>1, ToolCallDoes
  <2> QED BY <2>2, <2>3, <2>4
<1>6. /\ Own => builder'.window.pendingTools = Append(builder.window.pendingTools, calls')
      /\ ~Own => builder'.window.pendingTools = builder.window.pendingTools
  <2>1. builder.armed = Own
    BY OwnIsArmed
  <2>2. CASE Own
    <3>1. builder.armed
      BY <2>1, <2>2
    <3>2. builder'.window.pendingTools = Append(builder.window.pendingTools, calls')
      BY <1>1, <1>2, <3>1, ToolTypes DEF ToolCall, BuilderType, WindowType
    <3> QED BY <2>2, <3>2
  <2>3. CASE ~Own
    <3>1. ~builder.armed
      BY <2>1, <2>3
    <3>2. builder'.window = builder.window
      BY <1>1, <1>2, <3>1, ToolCallDoes
    <3> QED BY <2>3, <3>2
  <2> QED BY <2>2, <2>3
<1>7. /\ Own => current'.calls = current.calls \cup {calls'}
      /\ ~Own => current'.calls = current.calls
  <2>1. current \in DoneType
    BY OwnIsArmed
  <2> QED BY <2>1 DEF Call, Done, DoneType
<1>8. PendingIsWaiting'
  <2>1. /\ Distinct(builder.window.pendingTools)
        /\ Elements(builder.window.pendingTools) = current.calls \cap waiting
        /\ calls' \notin Elements(builder.window.pendingTools)
    BY <1>3, <1>4 DEF ToolsInv, PendingIsWaiting
  <2>2. /\ Distinct(builder'.window.pendingTools)
        /\ Elements(builder'.window.pendingTools) = current'.calls \cap waiting'
    <3>1. CASE Own
      <4>1. /\ Distinct(builder'.window.pendingTools)
            /\ Elements(builder'.window.pendingTools) = Elements(builder.window.pendingTools) \cup {calls'}
        BY <1>1, <1>2, <1>6, <2>1, <3>1, AddElement
      <4>2. current'.calls \cap waiting' = (current.calls \cap waiting) \cup {calls'}
        BY <1>2, <1>7, <3>1
      <4> QED BY <2>1, <4>1, <4>2
    <3>2. CASE ~Own
      BY <1>2, <1>3, <1>4, <1>6, <1>7, <2>1, <3>2
    <3> QED BY <3>1, <3>2
  <2>3. OnceEach(builder'.outstanding)
    BY <1>5 DEF ToolsInv, PendingIsWaiting, SameTurns
  <2>4. ASSUME NEW i \in DOMAIN requests
        PROVE  WaitingIn(builder'.outstanding, i) = requests[i].calls \cap waiting'
    <3>1. requests[i].calls \cap waiting' = requests[i].calls \cap waiting
      BY <1>2, <1>3, <1>4
    <3> QED BY <1>5, <3>1 DEF ToolsInv, PendingIsWaiting, SameTurns
  <2> QED BY <1>2, <2>2, <2>3, <2>4 DEF PendingIsWaiting
<1>9. OutputsAreTheirs'
  <2>1. current'.calls \ waiting' = current.calls \ waiting
    BY <1>2, <1>3, <1>4, <1>7
  <2>2. \A i \in DOMAIN requests : requests[i].calls \ waiting' = requests[i].calls \ waiting
    BY <1>2, <1>3, <1>4
  <2> QED BY <1>2, <1>5, <2>1, <2>2 DEF ToolsInv, OutputsAreTheirs, Answered, SameTurns
<1>10. CallsApart'
  <2>1. current'.calls \subseteq 1..calls' /\ waiting' \subseteq 1..calls'
    BY <1>1, <1>2, <1>3, <1>4, <1>7
  <2>2. ASSUME NEW i \in DOMAIN requests
        PROVE  requests[i].calls \subseteq 1..calls' /\ requests[i].calls \cap current'.calls = {}
    BY <1>2, <1>3, <1>4, <1>7 DEF ToolsInv, CallsApart
  <2>3. \A i, j \in DOMAIN requests : i # j => requests[i].calls \cap requests[j].calls = {}
    BY DEF ToolsInv, CallsApart
  <2> QED BY <1>2, <2>1, <2>2, <2>3 DEF CallsApart
<1> QED BY <1>8, <1>9, <1>10 DEF ToolsInv

\* By its call id, or as the only call that waits, an output finds its own call.
LEMMA OwnerOf ==
    ASSUME NEW open \in Seq(Nat), NEW call \in Nat, NEW named \in BOOLEAN, Distinct(open),
           named \/ Elements(open) \subseteq {call}
    PROVE  /\ \A k : IsOwner(open, k, call, named) => open[k] = call
           /\ NoOwner(open, call, named) => call \notin Elements(open)
<1>1. DOMAIN open = 1..Len(open) /\ Len(open) \in Nat
  BY LenProperties
<1>2. CASE named
  <2>1. \A k : IsOwner(open, k, call, named) => open[k] = call
    BY <1>2 DEF IsOwner
  <2>2. NoOwner(open, call, named) => \A k \in 1..Len(open) : open[k] # call
    BY <1>2 DEF NoOwner
  <2>3. (\A k \in 1..Len(open) : open[k] # call) => call \notin Elements(open)
    BY <1>1 DEF Elements
  <2> QED BY <2>1, <2>2, <2>3
<1>3. CASE ~named
  <2>1. \A k \in 1..Len(open) : open[k] = call
    BY <1>1, <1>3 DEF Elements
  <2>2. \A k : IsOwner(open, k, call, named) => k \in 1..Len(open)
    BY DEF IsOwner
  <2>3. Len(open) <= 1
    <3> SUFFICES ASSUME Len(open) >= 2 PROVE FALSE
      BY <1>1
    <3>1. 1 \in 1..Len(open) /\ 2 \in 1..Len(open)
      BY <1>1
    <3>2. open[1] = open[2]
      BY <2>1, <3>1
    <3>3. 1 = 2
      BY <1>1, <3>1, <3>2 DEF Distinct
    <3> QED BY <3>3
  <2>4. NoOwner(open, call, named) => Len(open) # 1
    BY <1>3 DEF NoOwner
  <2>5. Len(open) # 1 => call \notin Elements(open)
    BY <1>1, <2>3 DEF Elements
  <2> QED BY <2>1, <2>2, <2>4, <2>5
<1> QED BY <1>2, <1>3

\* A call of a closed turn that waits was made for the turn's request.
LEMMA OutstandingCalls ==
    ASSUME LedgerInv, ToolsInv
    PROVE  /\ DOMAIN builder.outstanding = 1..Len(builder.outstanding)
           /\ CallsOf(builder.outstanding) \subseteq waiting
           /\ \A k \in 1..Len(builder.outstanding) :
                  /\ builder.outstanding[k].turn \in DOMAIN requests
                  /\ builder.outstanding[k].call \in waiting
                  /\ builder.outstanding[k].call \in requests[builder.outstanding[k].turn].calls
           /\ \A i \in DOMAIN requests : WaitingIn(builder.outstanding, i) \subseteq CallsOf(builder.outstanding)
<1>1. /\ builder.outstanding \in Seq(OpenType) /\ DOMAIN builder.turns = DOMAIN requests
      /\ DOMAIN builder.outstanding = 1..Len(builder.outstanding)
  BY ToolTypes, LenProperties
<1>2. ASSUME NEW k \in 1..Len(builder.outstanding)
      PROVE  /\ builder.outstanding[k].turn \in DOMAIN requests
             /\ builder.outstanding[k].call \in waiting
             /\ builder.outstanding[k].call \in requests[builder.outstanding[k].turn].calls
  <2>1. builder.outstanding[k].turn \in DOMAIN requests
    BY <1>1 DEF LedgerInv, OutstandingInTurns
  <2>2. builder.outstanding[k].call \in WaitingIn(builder.outstanding, builder.outstanding[k].turn)
    BY <1>1 DEF WaitingIn
  <2>3. builder.outstanding[k].call \in requests[builder.outstanding[k].turn].calls \cap waiting
    BY <2>1, <2>2 DEF ToolsInv, PendingIsWaiting
  <2> QED BY <2>1, <2>3
<1>3. CallsOf(builder.outstanding) \subseteq waiting
  BY <1>1, <1>2 DEF CallsOf
<1>4. \A i \in DOMAIN requests : WaitingIn(builder.outstanding, i) \subseteq CallsOf(builder.outstanding)
  BY DEF WaitingIn, CallsOf
<1> QED BY <1>1, <1>2, <1>3, <1>4

\* The output of a call of the parent's part.
LEMMA IgnoredTools ==
    ASSUME LedgerInv, ToolsInv, NEW call \in waiting, waiting' = waiting \ {call},
           UNCHANGED <<builder, requests, current, calls>>,
           call \notin Elements(builder.window.pendingTools), call \notin CallsOf(builder.outstanding)
    PROVE  ToolsInv'
<1>1. call \notin current.calls
  BY DEF ToolsInv, PendingIsWaiting
<1>2. \A i \in DOMAIN requests : call \notin requests[i].calls
  BY OutstandingCalls DEF ToolsInv, PendingIsWaiting
<1>3. /\ current.calls \cap waiting' = current.calls \cap waiting
      /\ current.calls \ waiting' = current.calls \ waiting
  BY <1>1
<1>4. \A i \in DOMAIN requests : /\ requests[i].calls \cap waiting' = requests[i].calls \cap waiting
                                 /\ requests[i].calls \ waiting' = requests[i].calls \ waiting
  BY <1>2
<1>5. PendingIsWaiting'
  BY <1>3, <1>4 DEF ToolsInv, PendingIsWaiting
<1>6. OutputsAreTheirs'
  BY <1>3, <1>4 DEF ToolsInv, OutputsAreTheirs, Answered
<1>7. CallsApart'
  BY DEF ToolsInv, CallsApart
<1> QED BY <1>5, <1>6, <1>7 DEF ToolsInv

\* A tool whose output is its own is answered.
LEMMA AnsweredMore ==
    ASSUME NEW tools \in Seq(ToolType), NEW made, NEW open, NEW call \in Nat, call \in made, call \in open,
           Answered(tools, made, open), NEW more, more = Append(tools, finalizeTool(call, call))
    PROVE  Answered(more, made, open \ {call})
<1> DEFINE t == finalizeTool(call, call)
           n == Len(tools)
<1>1. t \in ToolType /\ t.call = call /\ t.output = call
  BY DEF finalizeTool, ToolType
<1> HIDE DEF t
<1>2. OnceEach(tools) /\ CallsOf(tools) = made \ open /\ \A k \in DOMAIN tools : tools[k].output = tools[k].call
  BY DEF Answered
<1>3. more = Append(tools, t)
  BY DEF t
<1>4. OnceEach(more) /\ CallsOf(more) = CallsOf(tools) \cup {call}
  <2>1. \A x \in ToolType : x.call \in Nat
    BY DEF ToolType
  <2>2. t.call \notin CallsOf(tools)
    BY <1>1, <1>2
  <2> QED BY <1>1, <1>2, <1>3, <2>1, <2>2, AddTool
<1>5. CallsOf(more) = made \ (open \ {call})
  BY <1>2, <1>4
<1>6. /\ DOMAIN tools = 1..n /\ DOMAIN more = 1..(n + 1) /\ n \in Nat /\ more[n + 1] = t
      /\ \A k \in 1..n : more[k] = tools[k]
  BY <1>1, <1>3, AppendProperties, LenProperties
<1> HIDE DEF n
<1>7. \A k \in 1..(n + 1) : more[k].output = more[k].call
  <2>1. \A k \in 1..(n + 1) : k \in 1..n \/ k = n + 1
    BY <1>6
  <2> QED BY <1>1, <1>2, <1>6, <2>1
<1> QED BY <1>4, <1>5, <1>6, <1>7 DEF Answered

\* The output of a call of the window.
LEMMA WindowTools ==
    ASSUME LedgerInv, ToolsInv, NEW call \in waiting, waiting' = waiting \ {call},
           UNCHANGED <<requests, current, calls>>,
           NEW i \in 1..Len(builder.window.pendingTools), builder.window.pendingTools[i] = call,
           builder' = PairInWindow(builder, i, call)
    PROVE  ToolsInv'
<1>1. /\ builder \in BuilderType /\ builder.window.pendingTools \in Seq(Nat)
      /\ builder.window.tools \in Seq(ToolType) /\ call \in Nat
      /\ DOMAIN builder.window.pendingTools = 1..Len(builder.window.pendingTools)
  BY ToolTypes, LenProperties
<1>2. /\ SameTurns(builder, builder')
      /\ builder'.window.pendingTools = RemoveAt(builder.window.pendingTools, i)
      /\ builder'.window.tools = Append(builder.window.tools, finalizeTool(call, call))
  <2>1. SameTurns(builder, builder')
    BY <1>1, PairInWindowDoes
  <2>2. /\ builder'.window.pendingTools = RemoveAt(builder.window.pendingTools, i)
        /\ builder'.window.tools = Append(builder.window.tools, finalizeTool(builder.window.pendingTools[i], call))
    <3>1. builder \in BuilderType /\ call \in Nat /\ builder' = PairInWindow(builder, i, call)
      BY <1>1
    <3>2. builder'.window.pendingTools = RemoveAt(builder.window.pendingTools, i)
      BY <3>1, PairInWindowDoes
    <3>3. builder'.window.tools =
              Append(builder.window.tools, finalizeTool(builder.window.pendingTools[i], call))
      BY <3>1, PairInWindowDoes
    <3> QED BY <3>2, <3>3
  <2> QED BY <2>1, <2>2
<1>3. /\ Distinct(builder.window.pendingTools)
      /\ Elements(builder.window.pendingTools) = current.calls \cap waiting
  BY DEF ToolsInv, PendingIsWaiting
<1>4. call \in current.calls
  BY <1>1, <1>3 DEF Elements
<1>5. \A k \in DOMAIN requests : call \notin requests[k].calls
  BY <1>4 DEF ToolsInv, CallsApart
<1>6. PendingIsWaiting'
  <2>1. /\ Distinct(builder'.window.pendingTools)
        /\ Elements(builder'.window.pendingTools) = Elements(builder.window.pendingTools) \ {call}
    BY <1>1, <1>2, <1>3, RemoveElement
  <2>2. Elements(builder'.window.pendingTools) = current'.calls \cap waiting'
    BY <1>3, <2>1
  <2>3. \A k \in DOMAIN requests : requests[k].calls \cap waiting' = requests[k].calls \cap waiting
    BY <1>5
  <2> QED BY <1>2, <2>1, <2>2, <2>3 DEF ToolsInv, PendingIsWaiting, SameTurns
<1>7. OutputsAreTheirs'
  <2>1. Answered(builder'.window.tools, current'.calls, waiting')
    <3>1. Answered(builder.window.tools, current.calls, waiting)
      BY DEF ToolsInv, OutputsAreTheirs
    <3> QED BY <1>1, <1>2, <1>4, <3>1, AnsweredMore
  <2>2. \A k \in DOMAIN requests : requests[k].calls \ waiting' = requests[k].calls \ waiting
    BY <1>5
  <2>3. \A k \in DOMAIN requests : Answered(builder'.turns[k].tools, requests[k].calls, waiting')
    BY <1>2, <2>2 DEF ToolsInv, OutputsAreTheirs, Answered, SameTurns
  <2> QED BY <2>1, <2>3 DEF OutputsAreTheirs
<1>8. CallsApart'
  BY DEF ToolsInv, CallsApart
<1> QED BY <1>6, <1>7, <1>8 DEF ToolsInv

\* The output of a call of a closed turn.
LEMMA TurnTools ==
    ASSUME LedgerInv, ToolsInv, NEW call \in waiting, waiting' = waiting \ {call},
           UNCHANGED <<requests, current, calls>>,
           NEW j \in 1..Len(builder.outstanding), builder.outstanding[j].call = call,
           builder' = PairInTurn(builder, j, call)
    PROVE  ToolsInv'
<1>1. /\ builder \in BuilderType /\ builder.outstanding \in Seq(OpenType)
      /\ builder.turns \in Seq(TurnType) /\ call \in Nat
      /\ DOMAIN requests = 1..Len(requests) /\ Len(builder.turns) = Len(requests)
  BY ToolTypes
<1>2. PICK t \in 1..Len(builder.turns) : t = builder.outstanding[j].turn
  BY <1>1, OutstandingCalls
<1>3. call \in requests[t].calls
  BY <1>2, OutstandingCalls
<1>4. /\ call \notin current.calls
      /\ \A k \in DOMAIN requests : k # t => call \notin requests[k].calls
  BY <1>1, <1>2, <1>3 DEF ToolsInv, CallsApart
<1>5. builder'.window = builder.window /\ builder'.outstanding = RemoveAt(builder.outstanding, j)
  <2>1. t = builder.outstanding[j].turn
    BY <1>2
  <2>2. builder \in BuilderType /\ builder' = PairInTurn(builder, j, call) /\ call \in Nat
    BY <1>1
  <2> QED BY <2>1, <2>2, PairInTurnDoes
<1>6. \A i \in 1..Len(builder.turns) : i # t => builder'.turns[i].tools = builder.turns[i].tools
  <2>1. t = builder.outstanding[j].turn
    BY <1>2
  <2>2. builder \in BuilderType /\ builder' = PairInTurn(builder, j, call) /\ call \in Nat
    BY <1>1
  <2> QED BY <2>1, <2>2, PairInTurnDoes
<1>7. builder'.turns[t].tools = Append(builder.turns[t].tools, finalizeTool(call, call))
  <2>1. t = builder.outstanding[j].turn /\ builder \in BuilderType
    BY <1>1, <1>2
  <2> DEFINE tool == finalizeTool(call, call)
             turn == [builder.turns[t] EXCEPT !.tools = Append(builder.turns[t].tools, tool)]
  <2>2. builder'.turns = [builder.turns EXCEPT ![t] = turn]
    BY <2>1 DEF PairInTurn, BuilderType
  <2>3. builder.turns[t] \in TurnType
    BY <1>1, <1>2, ElementOfSeq
  <2> HIDE DEF tool
  <2>4. turn.tools = Append(builder.turns[t].tools, tool)
    BY <2>3 DEF TurnType
  <2> HIDE DEF turn
  <2>5. builder'.turns[t] = turn
    BY <1>1, <1>2, <2>2
  <2> QED BY <2>4, <2>5 DEF tool
<1>8. builder.turns[t].tools \in Seq(ToolType)
  <2>1. builder.turns[t] \in TurnType
    BY <1>1, <1>2, ElementOfSeq
  <2> QED BY <2>1 DEF TurnType
<1>9. PendingIsWaiting'
  <2>1. Elements(builder'.window.pendingTools) = current'.calls \cap waiting'
    BY <1>4, <1>5 DEF ToolsInv, PendingIsWaiting
  <2>2. Distinct(builder'.window.pendingTools)
    BY <1>5 DEF ToolsInv, PendingIsWaiting
  <2>3. OnceEach(builder.outstanding)
    BY DEF ToolsInv, PendingIsWaiting
  <2>4. OnceEach(builder'.outstanding)
    BY <1>1, <1>5, <2>3, RemoveWaiting
  <2>5. \A i : WaitingIn(builder'.outstanding, i) = WaitingIn(builder.outstanding, i) \ {call}
    BY <1>1, <1>5, <2>3, RemoveWaiting
  <2>6. \A i \in DOMAIN requests : WaitingIn(builder'.outstanding, i) = requests[i].calls \cap waiting'
    BY <2>5 DEF ToolsInv, PendingIsWaiting
  <2> QED BY <2>1, <2>2, <2>4, <2>6 DEF PendingIsWaiting
<1>10. OutputsAreTheirs'
  <2>1. Answered(builder'.window.tools, current'.calls, waiting')
    <3>1. current'.calls \ waiting' = current.calls \ waiting
      BY <1>4
    <3> QED BY <1>5, <3>1 DEF ToolsInv, OutputsAreTheirs, Answered
  <2>2. ASSUME NEW k \in DOMAIN requests PROVE Answered(builder'.turns[k].tools, requests[k].calls, waiting')
    <3>1. Answered(builder.turns[k].tools, requests[k].calls, waiting)
      BY DEF ToolsInv, OutputsAreTheirs
    <3>2. CASE k = t
      BY <1>1, <1>3, <1>7, <1>8, <3>1, <3>2, AnsweredMore
    <3>3. CASE k # t
      <4>1. requests[k].calls \ waiting' = requests[k].calls \ waiting
        BY <1>4, <3>3
      <4> QED BY <1>1, <1>6, <3>1, <3>3, <4>1 DEF Answered
    <3> QED BY <3>2, <3>3
  <2> QED BY <2>1, <2>2 DEF OutputsAreTheirs
<1>11. CallsApart'
  BY DEF ToolsInv, CallsApart
<1> QED BY <1>9, <1>10, <1>11 DEF ToolsInv

LEMMA OutputTools == ASSUME LedgerInv, ToolsInv, NEW call \in Calls, NEW named \in BOOLEAN, Output(call, named)
                     PROVE  ToolsInv'
<1>1. /\ builder \in BuilderType /\ builder.window.pendingTools \in Seq(Nat) /\ waiting \subseteq Nat
      /\ builder.outstanding \in Seq(OpenType)
  BY ToolTypes
<1>2. /\ call \in waiting /\ waiting' = waiting \ {call} /\ UNCHANGED <<requests, current, calls>>
      /\ builder' = ToolOutput(builder, call, named)
  BY DEF Output, truth
<1>3. named \/ waiting = {call}
  BY DEF Output
<1>4. call \in Nat
  BY <1>1, <1>2
<1> DEFINE pending == builder.window.pendingTools
           closed == TurnCalls(builder)
<1>5. Distinct(pending) /\ (named \/ Elements(pending) \subseteq {call})
  <2>1. Distinct(pending) /\ Elements(pending) \subseteq waiting
    BY DEF ToolsInv, PendingIsWaiting
  <2> QED BY <1>3, <2>1
<1>6. /\ closed \in Seq(Nat) /\ Len(closed) = Len(builder.outstanding)
      /\ Distinct(closed) /\ Elements(closed) = CallsOf(builder.outstanding)
  <2>1. DOMAIN builder.outstanding = 1..Len(builder.outstanding) /\ Len(builder.outstanding) \in Nat
    BY <1>1, LenProperties
  <2>2. \A k \in 1..Len(builder.outstanding) : builder.outstanding[k].call \in Nat
    BY <1>1, OutstandingCalls
  <2>3. closed = CallList(builder.outstanding)
    BY DEF TurnCalls, CallList
  <2>4. OnceEach(builder.outstanding)
    BY DEF ToolsInv, PendingIsWaiting
  <2> DEFINE n == Len(builder.outstanding)
             list == CallList(builder.outstanding)
  <2>5. list \in Seq(Nat) /\ Len(list) = n
    BY <2>1, <2>2, CallListIs
  <2>6. OnceEach(builder.outstanding) = Distinct(list)
    BY <2>1, <2>2, CallListIs
  <2>7. CallsOf(builder.outstanding) = Elements(list)
    BY <2>1, <2>2, CallListIs
  <2> QED BY <2>3, <2>4, <2>5, <2>6, <2>7
<1>7. named \/ Elements(closed) \subseteq {call}
  BY <1>3, <1>6, OutstandingCalls
<1>8. /\ \A k : IsOwner(pending, k, call, named) => pending[k] = call
      /\ NoOwner(pending, call, named) => call \notin Elements(pending)
  BY <1>1, <1>4, <1>5, OwnerOf
<1>9. /\ \A k : IsOwner(closed, k, call, named) => closed[k] = call
      /\ NoOwner(closed, call, named) => call \notin Elements(closed)
  <2> HIDE DEF closed
  <2> QED BY <1>4, <1>6, <1>7, OwnerOf
<1>10. ~builder.armed => Elements(pending) = {} /\ CallsOf(builder.outstanding) = {}
  <2>1. ~builder.armed => ~Own
    BY OwnIsArmed
  <2>2. ~Own => builder.window = newWindow /\ builder.outstanding = <<>>
    BY DEF LedgerInv, Listens
  <2> QED BY <2>1, <2>2 DEF newWindow, Elements, CallsOf
<1>11. ASSUME builder' = builder,
              ~builder.armed \/ (NoOwner(pending, call, named) /\ NoOwner(closed, call, named))
       PROVE  ToolsInv'
  <2>1. call \notin Elements(pending) /\ call \notin CallsOf(builder.outstanding)
    BY <1>6, <1>8, <1>9, <1>10, <1>11
  <2> QED BY <1>2, <1>11, <2>1, IgnoredTools
<1>12. ASSUME NEW i \in 1..Len(pending), IsOwner(pending, i, call, named), builder' = PairInWindow(builder, i, call)
       PROVE  ToolsInv'
  <2>1. pending[i] = call
    BY <1>8, <1>12
  <2> QED BY <1>2, <1>12, <2>1, WindowTools
<1>13. ASSUME NEW j \in 1..Len(builder.outstanding), IsOwner(closed, j, call, named),
              builder' = PairInTurn(builder, j, call)
       PROVE  ToolsInv'
  <2>1. closed[j] = call
    BY <1>9, <1>13
  <2>2. closed[j] = builder.outstanding[j].call
    BY <1>1, TurnCallsAre
  <2>3. builder.outstanding[j].call = call
    BY <2>1, <2>2
  <2> QED BY <1>2, <1>13, <2>3, TurnTools
<1> QED BY <1>1, <1>2, <1>4, <1>11, <1>12, <1>13, ToolOutputIs

LEMMA KeptTools ==
    ASSUME LedgerInv, ToolsInv, Own, NEW usage \in Nat \ {0}, NEW sum \in Nat,
           builder' = Kept(builder, usage, sum), Counted(usage), UNCHANGED <<calls, waiting>>
    PROVE  ToolsInv'
<1> DEFINE request == Request(usage)
           pending == builder.window.pendingTools
           moved == Moved(builder)
<1>1. /\ builder \in BuilderType /\ pending \in Seq(Nat) /\ builder.outstanding \in Seq(OpenType)
      /\ builder.turns \in Seq(TurnType) /\ requests \in Seq(RequestType)
      /\ Len(builder.turns) = Len(requests) /\ DOMAIN requests = 1..Len(requests) /\ Len(requests) \in Nat
  BY ToolTypes
<1>2. PICK n \in Nat : n = Len(requests)
  BY <1>1
<1>3. KeptFields(builder, usage, sum, builder')
  <2>1. builder \in BuilderType /\ usage \in Nat
    BY <1>1
  <2> QED BY <2>1, KeptDoes
<1>4. builder'.window = newWindow /\ builder'.outstanding = builder.outstanding \o moved
  BY <1>3 DEF KeptFields
<1>5. builder'.turns = Append(builder.turns, ClosedTurn(builder, usage))
  BY <1>3 DEF KeptFields
<1>6. requests' = Append(requests, request) /\ current' = Nothing
  BY DEF Counted, Done
<1>7. request.calls = current.calls /\ request \in RequestType
  <2>1. InForce = builder.fastMode /\ builder.fastMode \in BOOLEAN /\ current \in DoneType
    BY <1>1, FastByIs, InForceIs, OwnIsArmed DEF BuilderType
  <2> QED BY <2>1 DEF Request, RequestType, DoneType
<1> HIDE DEF request
<1>8. /\ DOMAIN requests' = 1..(n + 1) /\ requests'[n + 1] = request
      /\ \A i \in 1..n : requests'[i] = requests[i]
      /\ DOMAIN requests = 1..n
  <2>1. requests' \in Seq(RequestType) /\ Len(requests') = n + 1
    BY <1>1, <1>2, <1>6, <1>7, AppendProperties
  <2>2. requests'[n + 1] = request /\ \A i \in 1..n : requests'[i] = requests[i]
    BY <1>1, <1>2, <1>6, <1>7, AppendProperties
  <2> QED BY <1>1, <1>2, <2>1, <2>2, LenProperties
<1>9. /\ builder'.turns[n + 1].tools = builder.window.tools
      /\ \A i \in 1..n : builder'.turns[i] = builder.turns[i]
  <2>1. ClosedTurn(builder, usage) \in TurnType
    BY <1>3 DEF KeptFields
  <2>2. builder'.turns[n + 1] = ClosedTurn(builder, usage) /\ \A i \in 1..n : builder'.turns[i] = builder.turns[i]
    BY <1>1, <1>2, <1>5, <2>1, AppendProperties
  <2>3. ClosedTurn(builder, usage).tools = builder.window.tools
    BY DEF ClosedTurn
  <2> QED BY <2>2, <2>3
<1>10. Distinct(pending) /\ Elements(pending) = current.calls \cap waiting /\ OnceEach(builder.outstanding)
  BY DEF ToolsInv, PendingIsWaiting
<1>11. /\ moved \in Seq(OpenType) /\ DOMAIN moved = DOMAIN pending
       /\ \A k \in DOMAIN moved : moved[k].call = pending[k] /\ moved[k].turn = n + 1
  <2>1. /\ moved \in Seq(OpenType) /\ Len(moved) = Len(pending)
        /\ \A k \in 1..Len(moved) : moved[k].call = pending[k] /\ moved[k].turn = Len(builder.turns) + 1
    BY <1>1, MovedIs DEF OpenType
  <2>2. DOMAIN moved = 1..Len(moved) /\ DOMAIN pending = 1..Len(pending)
    BY <1>1, <2>1, LenProperties
  <2> QED BY <1>1, <1>2, <2>1, <2>2
<1> HIDE DEF moved, pending
<1>12. OnceEach(moved) /\ CallsOf(moved) = Elements(pending)
  BY <1>10, <1>11 DEF OnceEach, CallsOf, Distinct, Elements
<1>13. WaitingIn(moved, n + 1) = Elements(pending) /\ \A i \in 1..n : WaitingIn(moved, i) = {}
  BY <1>2, <1>11 DEF WaitingIn, Elements
<1>14. CallsOf(builder.outstanding) \cap CallsOf(moved) = {}
  <2> SUFFICES ASSUME NEW c \in CallsOf(builder.outstanding), c \in current.calls PROVE FALSE
    BY <1>10, <1>12
  <2>1. PICK k \in 1..Len(builder.outstanding) : c = builder.outstanding[k].call
    BY OutstandingCalls DEF CallsOf
  <2>2. builder.outstanding[k].turn \in DOMAIN requests /\ c \in requests[builder.outstanding[k].turn].calls
    BY <2>1, OutstandingCalls
  <2> QED BY <2>2 DEF ToolsInv, CallsApart
<1>15. WaitingIn(builder.outstanding, n + 1) = {}
  <2>1. \A k \in DOMAIN builder.outstanding : builder.outstanding[k].turn \in 1..n
    BY <1>8, OutstandingCalls
  <2>2. n + 1 \notin 1..n
    BY <1>2
  <2> QED BY <2>1, <2>2 DEF WaitingIn
<1>16. /\ OnceEach(builder'.outstanding)
       /\ \A i : WaitingIn(builder'.outstanding, i) = WaitingIn(builder.outstanding, i) \cup WaitingIn(moved, i)
  BY <1>1, <1>4, <1>10, <1>11, <1>12, <1>14, JoinWaiting
<1>17. \A i \in 1..(n + 1) : i \in 1..n \/ i = n + 1
  BY <1>2
<1>18. PendingIsWaiting'
  <2>1. Distinct(builder'.window.pendingTools) /\ Elements(builder'.window.pendingTools) = current'.calls \cap waiting'
    BY <1>4, <1>6 DEF newWindow, Nothing, Distinct, Elements
  <2>2. ASSUME NEW i \in 1..(n + 1) PROVE WaitingIn(builder'.outstanding, i) = requests'[i].calls \cap waiting
    <3>1. CASE i = n + 1
      BY <1>7, <1>8, <1>10, <1>13, <1>15, <1>16, <3>1
    <3>2. CASE i \in 1..n
      <4>1. WaitingIn(builder.outstanding, i) = requests[i].calls \cap waiting
        BY <1>8, <3>2 DEF ToolsInv, PendingIsWaiting
      <4> QED BY <1>8, <1>13, <1>16, <3>2, <4>1
    <3> QED BY <1>17, <3>1, <3>2
  <2> QED BY <1>8, <1>16, <2>1, <2>2 DEF PendingIsWaiting
<1>19. OutputsAreTheirs'
  <2>1. Answered(builder'.window.tools, current'.calls, waiting')
    BY <1>4, <1>6 DEF newWindow, Nothing, Answered, OnceEach, CallsOf
  <2>2. ASSUME NEW i \in 1..(n + 1) PROVE Answered(builder'.turns[i].tools, requests'[i].calls, waiting)
    <3>1. CASE i = n + 1
      BY <1>7, <1>8, <1>9, <3>1 DEF ToolsInv, OutputsAreTheirs
    <3>2. CASE i \in 1..n
      BY <1>8, <1>9, <3>2 DEF ToolsInv, OutputsAreTheirs
    <3> QED BY <1>17, <3>1, <3>2
  <2> QED BY <1>8, <2>1, <2>2 DEF OutputsAreTheirs
<1>20. CallsApart'
  <2>1. /\ current.calls \subseteq 1..calls /\ waiting \subseteq 1..calls
        /\ \A i \in 1..n : requests[i].calls \subseteq 1..calls /\ requests[i].calls \cap current.calls = {}
        /\ \A i, j \in 1..n : i # j => requests[i].calls \cap requests[j].calls = {}
    BY <1>8 DEF ToolsInv, CallsApart
  <2>2. current'.calls = {}
    BY <1>6 DEF Nothing
  <2>3. \A i \in 1..(n + 1) : requests'[i].calls \subseteq 1..calls
    BY <1>7, <1>8, <1>17, <2>1
  <2>4. ASSUME NEW i \in 1..(n + 1), NEW j \in 1..(n + 1), i # j
        PROVE  requests'[i].calls \cap requests'[j].calls = {}
    <3>1. CASE i \in 1..n /\ j \in 1..n
      BY <1>8, <2>1, <2>4, <3>1
    <3>2. CASE i = n + 1 /\ j \in 1..n
      BY <1>7, <1>8, <2>1, <3>2
    <3>3. CASE i \in 1..n /\ j = n + 1
      BY <1>7, <1>8, <2>1, <3>3
    <3> QED BY <1>17, <2>4, <3>1, <3>2, <3>3
  <2> QED BY <1>8, <2>1, <2>2, <2>3, <2>4 DEF CallsApart
<1> QED BY <1>18, <1>19, <1>20 DEF ToolsInv

LEMMA CountTools == ASSUME LedgerInv, ToolsInv, NEW usage \in Nat \ {0}, Count(usage) PROVE ToolsInv'
<1>1. Counted(usage) /\ total' = total + usage /\ UNCHANGED <<calls, waiting>>
  BY DEF Count, Using
<1>2. CASE Own
  <2>1. builder' = Kept(builder, usage, total')
    BY <1>2, CountDoes
  <2>2. total \in Nat
    BY CountTypes
  <2>3. PICK sum \in Nat : sum = total'
    BY <1>1, <2>2
  <2>4. builder' = Kept(builder, usage, sum)
    BY <2>1, <2>3
  <2> QED BY <1>1, <1>2, <2>4, KeptTools
<1>3. CASE ~Own
  <2>1. UNCHANGED <<builder, requests, current>>
    BY <1>3, CountDoes
  <2> QED BY <1>1, <2>1, QuietTools DEF SameTools, SameTurns
<1> QED BY <1>2, <1>3

LEMMA RepeatTools == ASSUME LedgerInv, ToolsInv, Repeat PROVE ToolsInv'
<1>1. last # 0 /\ last \in Nat /\ total \in Nat /\ UNCHANGED <<calls, waiting>>
  BY CountTypes DEF Repeat, codex
<1>2. CASE Own /\ unread
  <2>1. builder' = Kept(builder, last, total) /\ Counted(last)
    BY <1>2, RepeatDoes
  <2>2. PICK usage \in Nat \ {0} : usage = last
    BY <1>1
  <2>3. PICK sum \in Nat : sum = total
    BY <1>1
  <2>4. builder' = Kept(builder, usage, sum)
    BY <2>1, <2>2, <2>3
  <2>5. Counted(usage)
    BY <2>1, <2>2
  <2> QED BY <1>1, <1>2, <2>4, <2>5, KeptTools
<1>3. CASE ~(Own /\ unread)
  <2>1. UNCHANGED <<builder, requests, current>>
    BY <1>3, RepeatDoes
  <2> QED BY <1>1, <2>1, QuietTools DEF SameTools, SameTurns
<1> QED BY <1>2, <1>3

\* The lines that are no call, no output and no count.
LEMMA QuietLines ==
    ASSUME LedgerInv, ToolsInv,
           \/ StartTask
           \/ \E mode \in Modes : Context(mode) \/ Settings(mode) \/ OtherSettings(mode)
           \/ \E text \in Prompts : Say(text)
           \/ Patch
           \/ \E usage \in Nat : LoseCount(usage)
    PROVE  ToolsInv'
<1>1. builder \in BuilderType /\ current \in DoneType
  BY OwnIsArmed
<1>2. ASSUME builder'.window = builder.window, SameTurns(builder, builder') PROVE SameTools(builder, builder')
  BY <1>2 DEF SameTools
<1>3. ASSUME StartTask PROVE ToolsInv'
  <2>1. SameTools(builder, builder')
    BY <1>1, <1>2, <1>3, TaskStartedDoes DEF StartTask
  <2> QED BY <1>3, <2>1, QuietTools DEF StartTask
<1>4. ASSUME NEW mode \in Modes, Context(mode) PROVE ToolsInv'
  <2>1. SameTools(builder, builder')
    BY <1>1, <1>2, <1>4, TurnContextDoes DEF Context
  <2> QED BY <1>4, <2>1, QuietTools DEF Context, Tier, codex
<1>5. ASSUME NEW mode \in Modes, Settings(mode) \/ OtherSettings(mode) PROVE ToolsInv'
  <2>1. \/ builder' = builder
        \/ builder' = IF mode = None THEN builder
                      ELSE [builder EXCEPT !.settingsFastMode = mode, !.fastMode = mode]
    BY <1>5 DEF Settings, OtherSettings, ThreadSettings
  <2>2. CASE builder' = builder
    <3>1. SameTools(builder, builder')
      BY <2>2 DEF SameTools, SameTurns
    <3> QED BY <1>5, <3>1, QuietTools DEF Settings, OtherSettings, Tier, codex
  <2>3. CASE builder' = IF mode = None THEN builder
                        ELSE [builder EXCEPT !.settingsFastMode = mode, !.fastMode = mode]
    <3>1. SameTools(builder, builder')
      BY <1>1, <1>2, <2>3, ThreadSettingsDoes
    <3> QED BY <1>5, <3>1, QuietTools DEF Settings, OtherSettings, Tier, codex
  <2> QED BY <2>1, <2>2, <2>3
<1>6. ASSUME NEW text \in Prompts, Say(text) PROVE ToolsInv'
  <2>1. builder' = UserMessage(builder, text) /\ current'.calls = current.calls
    BY <1>1, <1>6 DEF Say, Done, DoneType
  <2>2. SameTools(builder, builder')
    BY <1>1, <1>2, <2>1, UserMessageDoes DEF SameTools
  <2> QED BY <1>6, <2>1, <2>2, QuietTools DEF Say
<1>7. ASSUME Patch PROVE ToolsInv'
  <2>1. builder' = PatchApply(builder) /\ current'.calls = current.calls
    BY <1>1, <1>7 DEF Patch, Done, DoneType
  <2>2. SameTools(builder, builder')
    BY <1>1, <1>2, <2>1, PatchApplyDoes DEF SameTools
  <2> QED BY <1>7, <2>1, <2>2, QuietTools DEF Patch, codex
<1>8. ASSUME NEW usage \in Nat, LoseCount(usage) PROVE ToolsInv'
  <2>1. builder' = builder \/ builder' = UnreadableCount(builder)
    BY <1>8 DEF LoseCount
  <2>2. builder'.window = builder.window /\ SameTurns(builder, builder')
    BY <1>1, <2>1, UnreadableCountDoes DEF SameTurns
  <2>3. SameTools(builder, builder')
    BY <1>2, <2>2
  <2> QED BY <1>8, <2>3, QuietTools DEF LoseCount, Using
<1> QED BY <1>3, <1>4, <1>5, <1>6, <1>7, <1>8

LEMMA ToolsInit == ASSUME Init PROVE ToolsInv
<1>1. /\ builder.window = newWindow /\ builder.outstanding = <<>>
      /\ current = Nothing /\ requests = <<>> /\ calls = 0 /\ waiting = {}
  BY DEF Init, NewBuilder
<1>2. PendingIsWaiting
  BY <1>1 DEF PendingIsWaiting, newWindow, Nothing, Distinct, Elements, OnceEach
<1>3. OutputsAreTheirs
  BY <1>1 DEF OutputsAreTheirs, newWindow, Nothing, Answered, OnceEach, CallsOf
<1>4. CallsApart
  BY <1>1 DEF CallsApart, Nothing
<1> QED BY <1>2, <1>3, <1>4 DEF ToolsInv

LEMMA ToolsNext == ASSUME LedgerInv, ToolsInv, [Next]_vars PROVE ToolsInv'
<1>1. CASE UNCHANGED vars
  BY <1>1, QuietTools DEF vars, codex, truth, SameTools, SameTurns
<1>2. ASSUME StartTask PROVE ToolsInv'
  BY <1>2, QuietLines
<1>3. ASSUME \E mode \in Modes : Context(mode) \/ Settings(mode) \/ OtherSettings(mode) PROVE ToolsInv'
  BY <1>3, QuietLines
<1>4. ASSUME \E text \in Prompts : Say(text) PROVE ToolsInv'
  BY <1>4, QuietLines
<1>5. ASSUME Patch PROVE ToolsInv'
  BY <1>5, QuietLines
<1>6. ASSUME Call PROVE ToolsInv'
  BY <1>6, CallTools
<1>7. ASSUME NEW call \in Calls, NEW named \in BOOLEAN, Output(call, named) PROVE ToolsInv'
  BY <1>7, OutputTools
<1>8. ASSUME NEW usage \in Usages, Count(usage) PROVE ToolsInv'
  BY <1>8, LedgerAssumption, CountTools
<1>9. ASSUME NEW usage \in Usages, LoseCount(usage) PROVE ToolsInv'
  <2>1. usage \in Nat
    BY LedgerAssumption
  <2> QED BY <1>9, <2>1, QuietLines
<1>10. ASSUME Repeat PROVE ToolsInv'
  BY <1>10, RepeatTools
<1> QED BY <1>1, <1>2, <1>3, <1>4, <1>5, <1>6, <1>7, <1>8, <1>9, <1>10, Zenon DEF Next, Line

---------------------------------------------------------------------------
\* What is shown: the calls that wait, added one by one to their turns' tools.

\* A chain of n steps from a, each a function of where the last one led.
Chain(f, S, a, g, n) == f \in [0..n -> S] /\ f[0] = a /\ \A i \in 1..n : f[i] = g[i][f[i - 1]]

LEMMA ChainExists ==
    ASSUME NEW S, NEW a \in S, NEW n \in Nat, NEW g, \A k \in 1..n : \A x \in S : g[k][x] \in S
    PROVE  \E f : Chain(f, S, a, g, n)
<1> DEFINE Reached == {k \in 0..n : \E f : Chain(f, S, a, g, k)}
<1>1. 0 \in Reached
  <2>1. Chain([k \in 0..0 |-> a], S, a, g, 0)
    BY DEF Chain
  <2> QED BY <2>1
<1>2. ASSUME NEW k \in 0..(n - 1), k \in Reached PROVE k + 1 \in Reached
  <2>1. PICK f : Chain(f, S, a, g, k)
    BY <1>2
  <2> DEFINE h == [i \in 0..(k + 1) |-> IF i = k + 1 THEN g[k + 1][f[k]] ELSE f[i]]
  <2>2. f \in [0..k -> S] /\ f[0] = a /\ \A i \in 1..k : f[i] = g[i][f[i - 1]]
    BY <2>1 DEF Chain
  <2>3. g[k + 1][f[k]] \in S
    BY <2>2
  <2>4. h \in [0..(k + 1) -> S] /\ h[0] = a
    BY <2>2, <2>3
  <2>5. ASSUME NEW i \in 1..(k + 1) PROVE h[i] = g[i][h[i - 1]]
    <3>1. i - 1 \in 0..k /\ h[i - 1] = f[i - 1]
      OBVIOUS
    <3> QED BY <2>2, <3>1
  <2>6. Chain(h, S, a, g, k + 1)
    <3> HIDE DEF h
    <3> QED BY <2>4, <2>5 DEF Chain
  <2>7. k + 1 \in 0..n
    OBVIOUS
  <2> QED BY <2>6, <2>7
<1> HIDE DEF Reached
<1>3. 0..n \subseteq Reached
  BY <1>1, <1>2, HasAll
<1>4. n \in Reached
  BY <1>3
<1> QED BY <1>4 DEF Reached

\* A list that names each call of a set once is as long as the set is large.
LEMMA OneForEach ==
    ASSUME NEW n \in Nat, NEW tools, DOMAIN tools = 1..n, OnceEach(tools)
    PROVE  Cardinality(CallsOf(tools)) = n
<1> DEFINE f == [k \in 1..n |-> tools[k].call]
           T == CallsOf(tools)
<1>1. f \in [1..n -> T]
  BY DEF CallsOf
<1>2. IsInjective(f)
  BY DEF OnceEach, IsInjective
<1>3. \A c \in T : \E k \in 1..n : f[k] = c
  BY DEF CallsOf
<1> HIDE DEF f, T
<1>4. f \in Bijection(1..n, T)
  BY <1>1, <1>2, <1>3 DEF Bijection, Injection, Surjection
<1>5. ExistsBijection(1..n, T)
  BY <1>4 DEF ExistsBijection
<1>6. Cardinality(T) = n
  BY <1>5, FS_CountingElements
<1> QED BY <1>6 DEF T

ShownType == [call : Nat, output : Nat \cup {None}]
WithCall(lists, open) == [lists EXCEPT ![open.turn] = Append(@, finalizeTool(open.call, None))]

Joined(lists, open, m, c) ==
    /\ c \in [1..m -> Seq(ShownType)]
    /\ c[open.turn] = Append(lists[open.turn], finalizeTool(open.call, None))
    /\ \A i \in 1..m : i # open.turn => c[i] = lists[i]

LEMMA WithCallDoes ==
    ASSUME NEW m \in Nat, NEW lists \in [1..m -> Seq(ShownType)], NEW open \in OpenType, open.turn \in 1..m
    PROVE  Joined(lists, open, m, WithCall(lists, open))
<1> DEFINE tool == finalizeTool(open.call, None)
           more == Append(lists[open.turn], tool)
<1>1. tool \in ShownType
  BY DEF OpenType, finalizeTool, ShownType
<1> HIDE DEF tool
<1>2. more \in Seq(ShownType)
  BY <1>1, AppendProperties
<1>3. WithCall(lists, open) = [lists EXCEPT ![open.turn] = more]
  BY DEF WithCall, tool
<1> HIDE DEF more
<1>4. /\ WithCall(lists, open) \in [1..m -> Seq(ShownType)]
      /\ WithCall(lists, open)[open.turn] = more
      /\ \A i \in 1..m : i # open.turn => WithCall(lists, open)[i] = lists[i]
  BY <1>2, <1>3
<1> QED BY <1>4 DEF Joined, more, tool

\* The tools of the turns once the first k calls that wait have been added.
ShownSteps(f, b, m) ==
    /\ f \in [0..Len(b.outstanding) -> [1..m -> Seq(ShownType)]]
    /\ f[0] = [i \in 1..m |-> b.turns[i].tools]
    /\ \A k \in 1..Len(b.outstanding) : f[k] = WithCall(f[k - 1], b.outstanding[k])

LEMMA ShownIs ==
    ASSUME LedgerInv, NEW m, m = Len(requests)
    PROVE  \E f : ShownSteps(f, builder, m) /\ Shown(builder) = f[Len(builder.outstanding)]
<1>1. /\ builder.outstanding \in Seq(OpenType) /\ builder.turns \in Seq(TurnType)
      /\ m \in Nat /\ DOMAIN builder.turns = 1..m /\ Len(builder.turns) = m
  BY ToolTypes
<1>2. PICK n \in Nat : n = Len(builder.outstanding)
  BY <1>1, LenProperties
<1>3. \A k \in 1..n : builder.outstanding[k] \in OpenType /\ builder.outstanding[k].turn \in 1..m
  <2> SUFFICES ASSUME NEW k \in 1..n
               PROVE  builder.outstanding[k] \in OpenType /\ builder.outstanding[k].turn \in 1..m
    OBVIOUS
  <2>1. builder.outstanding[k] \in OpenType
    BY <1>1, <1>2, ElementOfSeq
  <2>2. k \in DOMAIN builder.outstanding
    BY <1>1, <1>2, LenProperties
  <2>3. builder.outstanding[k].turn \in 1..m
    BY <1>1, <2>2 DEF LedgerInv, OutstandingInTurns
  <2> QED BY <2>1, <2>3
<1> DEFINE S == [1..m -> Seq(ShownType)]
           a == [i \in 1..m |-> builder.turns[i].tools]
           g == [k \in 1..n |-> [x \in S |-> WithCall(x, builder.outstanding[k])]]
           Shows(f) == [k \in 0..n |-> IF k = 0 THEN a ELSE WithCall(f[k - 1], builder.outstanding[k])]
           upTo == CHOOSE f : f = [k \in 0..Len(builder.outstanding) |->
                       IF k = 0 THEN [i \in DOMAIN builder.turns |-> builder.turns[i].tools]
                       ELSE [f[k - 1] EXCEPT ![builder.outstanding[k].turn] =
                                Append(@, finalizeTool(builder.outstanding[k].call, None))]]
<1>4. a \in S
  <2> SUFFICES ASSUME NEW i \in 1..m PROVE builder.turns[i].tools \in Seq(ShownType)
    OBVIOUS
  <2>1. builder.turns[i] \in TurnType
    BY <1>1, ElementOfSeq
  <2>2. builder.turns[i].tools \in Seq(ToolType)
    BY <2>1 DEF TurnType
  <2>3. ToolType \subseteq ShownType
    BY DEF ToolType, ShownType
  <2> QED BY <2>2, <2>3, SeqMonotonic
<1>5. ASSUME NEW k \in 1..n, NEW x \in S PROVE g[k][x] = WithCall(x, builder.outstanding[k]) /\ g[k][x] \in S
  <2>1. WithCall(x, builder.outstanding[k]) \in S
    BY <1>1, <1>3, WithCallDoes DEF Joined
  <2> QED BY <2>1
<1> HIDE DEF g
<1>6. PICK f : Chain(f, S, a, g, n)
  <2> HIDE DEF S, a
  <2> QED BY <1>2, <1>4, <1>5, ChainExists
<1>7. /\ f \in [0..n -> S] /\ f[0] = a
      /\ \A k \in 1..n : f[k] = WithCall(f[k - 1], builder.outstanding[k])
  <2> HIDE DEF S, a
  <2>1. f \in [0..n -> S] /\ f[0] = a /\ \A k \in 1..n : f[k] = g[k][f[k - 1]]
    BY <1>6 DEF Chain
  <2>2. \A k \in 1..n : f[k - 1] \in S
    BY <1>2, <2>1
  <2> QED BY <1>5, <2>1, <2>2
<1>8. f = Shows(f)
  <2> HIDE DEF S, a
  <2> QED BY <1>2, <1>7
<1>9. Shown(builder) = upTo[Len(builder.outstanding)]
  BY DEF Shown
<1>10. upTo = CHOOSE h : h = Shows(h)
  BY <1>1, <1>2 DEF WithCall
<1> HIDE DEF upTo
<1>11. upTo = Shows(upTo)
  <2> HIDE DEF S, a
  <2> QED BY <1>8, <1>10
<1>12. \A k \in 0..n : upTo[k] = IF k = 0 THEN a ELSE WithCall(upTo[k - 1], builder.outstanding[k])
  <2> HIDE DEF S, a
  <2> QED BY <1>11
<1>13. \A k \in 0..n : upTo[k] = f[k]
  <2> DEFINE Same == {k \in 0..n : upTo[k] = f[k]}
  <2>1. 0 \in Same
    <3> HIDE DEF S, a
    <3> QED BY <1>2, <1>7, <1>12
  <2>2. ASSUME NEW k \in 0..(n - 1), k \in Same PROVE k + 1 \in Same
    <3>1. k + 1 \in 1..n /\ k + 1 \in 0..n /\ (k + 1) - 1 = k
      BY <1>2
    <3>2. upTo[k + 1] = WithCall(upTo[k], builder.outstanding[k + 1]) /\ f[k + 1] = WithCall(f[k], builder.outstanding[k + 1])
      <4> HIDE DEF S, a
      <4> QED BY <1>7, <1>12, <3>1
    <3> QED BY <2>2, <3>1, <3>2
  <2> HIDE DEF Same
  <2>3. 0..n \subseteq Same
    BY <1>2, <2>1, <2>2, HasAll
  <2> QED BY <2>3 DEF Same
<1>14. ShownSteps(f, builder, m)
  BY <1>2, <1>7 DEF ShownSteps
<1> QED BY <1>2, <1>9, <1>13, <1>14

\* A turn's list once the first k calls that wait have been added: it has the
\* calls that are answered and those among the first k.
FirstOpen(k, i) == {builder.outstanding[l].call : l \in {x \in 1..k : builder.outstanding[x].turn = i}}

ListedUpTo(tools, i, k) ==
    /\ OnceEach(tools)
    /\ CallsOf(tools) = (requests[i].calls \ waiting) \cup FirstOpen(k, i)
    /\ \A l \in DOMAIN tools :
           tools[l].output = IF tools[l].call \in waiting THEN None ELSE tools[l].call

LEMMA OneMoreListed ==
    ASSUME LedgerInv, ToolsInv, NEW k \in Nat, k + 1 \in 1..Len(builder.outstanding),
           NEW i \in DOMAIN requests, builder.outstanding[k + 1].turn = i,
           NEW tools \in Seq(ShownType), ListedUpTo(tools, i, k),
           NEW more, more = Append(tools, finalizeTool(builder.outstanding[k + 1].call, None))
    PROVE  ListedUpTo(more, i, k + 1)
<1> DEFINE call == builder.outstanding[k + 1].call
           t == finalizeTool(call, None)
           n == Len(tools)
<1>1. /\ call \in waiting /\ waiting \subseteq Nat /\ OnceEach(builder.outstanding)
      /\ DOMAIN builder.outstanding = 1..Len(builder.outstanding) /\ Len(builder.outstanding) \in Nat
  BY ToolTypes, OutstandingCalls, LenProperties DEF ToolsInv, PendingIsWaiting
<1>2. \A l \in 1..k : l \in DOMAIN builder.outstanding /\ builder.outstanding[l].call # call
  <2> SUFFICES ASSUME NEW l \in 1..k
               PROVE  l \in DOMAIN builder.outstanding /\ builder.outstanding[l].call # call
    OBVIOUS
  <2>1. l \in DOMAIN builder.outstanding /\ k + 1 \in DOMAIN builder.outstanding /\ l # k + 1
    BY <1>1
  <2> QED BY <1>1, <2>1 DEF OnceEach
<1>3. FirstOpen(k + 1, i) = FirstOpen(k, i) \cup {call}
  <2>1. 1..(k + 1) = 1..k \cup {k + 1}
    OBVIOUS
  <2> QED BY <2>1 DEF FirstOpen
<1>4. call \notin CallsOf(tools)
  BY <1>1, <1>2 DEF ListedUpTo, FirstOpen
<1>5. t \in ShownType /\ t.call = call /\ t.output = None
  BY <1>1 DEF finalizeTool, ShownType
<1> HIDE DEF t, call
<1>6. OnceEach(more) /\ CallsOf(more) = CallsOf(tools) \cup {call}
  <2>1. \A x \in ShownType : x.call \in Nat
    BY DEF ShownType
  <2>2. OnceEach(tools) /\ t.call \notin CallsOf(tools)
    BY <1>4, <1>5 DEF ListedUpTo
  <2>3. more = Append(tools, t)
    BY DEF t, call
  <2> QED BY <1>5, <2>1, <2>2, <2>3, AddTool
<1>7. /\ DOMAIN tools = 1..n /\ DOMAIN more = 1..(n + 1) /\ n \in Nat /\ more[n + 1] = t
      /\ \A l \in 1..n : more[l] = tools[l]
  BY <1>5, AppendProperties, LenProperties DEF t, call
<1> HIDE DEF n
<1>8. \A l \in 1..(n + 1) : more[l].output = IF more[l].call \in waiting THEN None ELSE more[l].call
  <2>1. \A l \in 1..(n + 1) : l \in 1..n \/ l = n + 1
    BY <1>7
  <2>2. \A l \in 1..n : tools[l].output = IF tools[l].call \in waiting THEN None ELSE tools[l].call
    BY <1>7 DEF ListedUpTo
  <2> QED BY <1>1, <1>5, <1>7, <2>1, <2>2
<1>9. CallsOf(more) = (requests[i].calls \ waiting) \cup FirstOpen(k + 1, i)
  BY <1>3, <1>6 DEF ListedUpTo
<1> QED BY <1>6, <1>7, <1>8, <1>9 DEF ListedUpTo

\* So that with all of them a turn's list has its request's calls.
LEMMA ShownAreTheirs == ASSUME LedgerInv, ToolsInv PROVE ToolsAreTheirTurns
<1>1. /\ builder.outstanding \in Seq(OpenType) /\ builder.turns \in Seq(TurnType)
      /\ DOMAIN requests = 1..Len(requests) /\ Len(requests) \in Nat
      /\ DOMAIN builder.turns = 1..Len(requests)
  BY ToolTypes
<1>2. PICK n \in Nat : n = Len(builder.outstanding)
  BY <1>1, LenProperties
<1>3. PICK m \in Nat : m = Len(requests)
  BY <1>1
<1>4. PICK f : ShownSteps(f, builder, m) /\ Shown(builder) = f[n]
  BY <1>2, <1>3, ShownIs
<1>5. /\ f \in [0..n -> [1..m -> Seq(ShownType)]] /\ f[0] = [i \in 1..m |-> builder.turns[i].tools]
      /\ \A k \in 1..n : f[k] = WithCall(f[k - 1], builder.outstanding[k])
  BY <1>2, <1>4 DEF ShownSteps
<1> DEFINE Good == {k \in 0..n : \A i \in 1..m : ListedUpTo(f[k][i], i, k)}
<1>6. 0 \in Good
  <2> SUFFICES ASSUME NEW i \in 1..m PROVE ListedUpTo(f[0][i], i, 0)
    BY <1>2
  <2>1. f[0][i] = builder.turns[i].tools
    BY <1>5
  <2>2. Answered(builder.turns[i].tools, requests[i].calls, waiting)
    BY <1>1, <1>3 DEF ToolsInv, OutputsAreTheirs
  <2>3. FirstOpen(0, i) = {}
    BY DEF FirstOpen
  <2>4. \A l \in DOMAIN builder.turns[i].tools : builder.turns[i].tools[l].call \notin waiting
    BY <2>2 DEF Answered, CallsOf
  <2> QED BY <2>1, <2>2, <2>3, <2>4 DEF ListedUpTo, Answered
<1>7. ASSUME NEW k \in 0..(n - 1), k \in Good PROVE k + 1 \in Good
  <2>1. k + 1 \in 1..n /\ k + 1 \in 0..n /\ (k + 1) - 1 = k /\ k \in Nat
    BY <1>2
  <2> DEFINE open == builder.outstanding[k + 1]
  <2>2. f[k] \in [1..m -> Seq(ShownType)] /\ f[k + 1] = WithCall(f[k], open)
    BY <1>5, <2>1
  <2>3. open \in OpenType /\ open.turn \in 1..m
    BY <1>1, <1>2, <1>3, <2>1, ElementOfSeq, OutstandingCalls
  <2>4. /\ f[k + 1][open.turn] = Append(f[k][open.turn], finalizeTool(open.call, None))
        /\ \A i \in 1..m : i # open.turn => f[k + 1][i] = f[k][i]
    <3> HIDE DEF open
    <3>1. Joined(f[k], open, m, f[k + 1])
      BY <1>3, <2>2, <2>3, WithCallDoes
    <3> QED BY <3>1 DEF Joined
  <2>5. ASSUME NEW i \in 1..m PROVE ListedUpTo(f[k + 1][i], i, k + 1)
    <3>1. ListedUpTo(f[k][i], i, k) /\ f[k][i] \in Seq(ShownType)
      BY <1>7, <2>2
    <3>2. CASE i = open.turn
      BY <1>1, <1>2, <1>3, <2>1, <2>4, <3>1, <3>2, OneMoreListed
    <3>3. CASE i # open.turn
      <4>1. FirstOpen(k + 1, i) = FirstOpen(k, i)
        <5>1. 1..(k + 1) = 1..k \cup {k + 1}
          BY <2>1
        <5> QED BY <3>3, <5>1 DEF FirstOpen
      <4>2. f[k + 1][i] = f[k][i]
        BY <2>4, <3>3
      <4> QED BY <3>1, <4>1, <4>2 DEF ListedUpTo
    <3> QED BY <3>2, <3>3
  <2> QED BY <2>1, <2>5
<1> HIDE DEF Good
<1>8. n \in Good
  <2>1. 0..n \subseteq Good
    BY <1>2, <1>6, <1>7, HasAll
  <2> QED BY <1>2, <2>1
<1>9. ASSUME NEW i \in 1..m
      PROVE  LET tools == Shown(builder)[i] IN
             /\ Len(tools) = Cardinality(requests[i].calls)
             /\ CallsOf(tools) = requests[i].calls
             /\ \A k \in DOMAIN tools :
                    tools[k].output = IF tools[k].call \in waiting THEN None ELSE tools[k].call
  <2>1. f[n][i] \in Seq(ShownType) /\ Shown(builder)[i] = f[n][i]
    BY <1>2, <1>4, <1>5
  <2> DEFINE tools == f[n][i]
  <2>2. ListedUpTo(tools, i, n)
    BY <1>4, <1>8, <2>1 DEF Good
  <2>3. FirstOpen(n, i) = WaitingIn(builder.outstanding, i)
    BY <1>1, <1>2, LenProperties DEF FirstOpen, WaitingIn
  <2>4. WaitingIn(builder.outstanding, i) = requests[i].calls \cap waiting
    BY <1>1, <1>3 DEF ToolsInv, PendingIsWaiting
  <2>5. CallsOf(tools) = requests[i].calls
    BY <2>2, <2>3, <2>4 DEF ListedUpTo
  <2>6. Len(tools) = Cardinality(CallsOf(tools))
    BY <2>1, <2>2, LenProperties, OneForEach DEF ListedUpTo
  <2> QED BY <2>1, <2>2, <2>5, <2>6 DEF ListedUpTo
<1> QED BY <1>1, <1>3, <1>9 DEF ToolsAreTheirTurns, CallsOf

---------------------------------------------------------------------------
\* The theorems.

LEMMA LedgerInit == ASSUME Init PROVE LedgerInv
<1>1. builder = NewBuilder(isSubagent) /\ isSubagent \in BOOLEAN
  BY DEF Init
<1>2. builder \in BuilderType
  BY <1>1, NewBuilderIs
<1>3. /\ builder.turns = <<>> /\ builder.outstanding = <<>> /\ builder.lastPrompt = <<>>
      /\ builder.window = newWindow
      /\ builder.prevLast = 0 /\ builder.prevTotal = 0 /\ builder.running = 0
  BY <1>1 DEF NewBuilder
<1>4. /\ builder.warning = FALSE /\ builder.settingsFastMode = FALSE /\ builder.fastMode = FALSE
      /\ builder.armed = ~isSubagent
  BY <1>1 DEF NewBuilder
<1>5. /\ started = FALSE /\ last = 0 /\ total = 0 /\ calls = 0 /\ waiting = {}
      /\ tiers = <<>> /\ requests = <<>> /\ current = Nothing /\ unread = FALSE /\ lost = 0
  BY DEF Init
<1>6. LedgerTypes
  <2>1. current \in DoneType
    BY <1>5 DEF Nothing, DoneType
  <2>2. tiers \in Seq(TierType) /\ requests \in Seq(RequestType)
    BY <1>5
  <2> QED BY <1>1, <1>2, <1>5, <2>1, <2>2 DEF LedgerTypes
<1>7. Listens
  BY <1>3, <1>4, <1>5 DEF Listens, Own
<1>8. OutstandingInTurns
  BY <1>3 DEF OutstandingInTurns
<1>9. PromptOf(0) = <<>>
  BY DEF PromptOf
<1>10. WindowIsCurrent
  BY <1>3, <1>5, <1>9 DEF WindowIsCurrent, Nothing, newWindow
<1>11. TierInForce
  <2>1. OwnTiers(tiers) = {} /\ ThreadTiers(tiers) = {}
    BY <1>5 DEF OwnTiers, ThreadTiers
  <2>2. FastBy(tiers, OwnTiers(tiers)) = FALSE /\ InForceBy(tiers) = FALSE
    BY <2>1 DEF FastBy, InForceBy
  <2> QED BY <1>4, <2>2, InForceIs DEF TierInForce
<1>12. CountIsKnown
  BY <1>3, <1>5 DEF CountIsKnown
<1>13. SumIsKnown
  BY <1>3, <1>4, <1>5, SpentNothing DEF SumIsKnown
<1>14. TurnsAreRequests
  BY <1>3, <1>5 DEF TurnsAreRequests
<1> QED BY <1>6, <1>7, <1>8, <1>10, <1>11, <1>12, <1>13, <1>14 DEF LedgerInv

LEMMA LedgerNext == ASSUME LedgerInv, [Next]_vars PROVE LedgerInv'
<1>1. CASE UNCHANGED vars
  BY <1>1, SameStep DEF vars
<1>2. ASSUME StartTask PROVE LedgerInv'
  BY <1>2, StartTaskKeeps
<1>3. ASSUME NEW mode \in Modes, Context(mode) PROVE LedgerInv'
  BY <1>3, ContextKeeps
<1>4. ASSUME NEW mode \in Modes, Settings(mode) PROVE LedgerInv'
  BY <1>4, SettingsKeeps
<1>5. ASSUME NEW mode \in Modes, OtherSettings(mode) PROVE LedgerInv'
  BY <1>5, OtherSettingsKeeps
<1>6. ASSUME NEW text \in Prompts, Say(text) PROVE LedgerInv'
  BY <1>6, SayKeeps
<1>7. ASSUME Patch PROVE LedgerInv'
  BY <1>7, PatchKeeps
<1>8. ASSUME Call PROVE LedgerInv'
  BY <1>8, CallKeeps
<1>9. ASSUME NEW call \in Calls, NEW named \in BOOLEAN, Output(call, named) PROVE LedgerInv'
  BY <1>9, OutputKeeps
<1>10. ASSUME NEW usage \in Usages, Count(usage) PROVE LedgerInv'
  BY <1>10, LedgerAssumption, CountKeeps
<1>11. ASSUME NEW usage \in Usages, LoseCount(usage) PROVE LedgerInv'
  BY <1>11, LedgerAssumption, LoseCountKeeps
<1>12. ASSUME Repeat PROVE LedgerInv'
  BY <1>12, RepeatKeeps
<1> QED BY <1>1, <1>2, <1>3, <1>4, <1>5, <1>6, <1>7, <1>8, <1>9, <1>10, <1>11, <1>12, Zenon DEF Next, Line

LEMMA LedgerInvAlways == Spec => []LedgerInv
<1>1. Init => LedgerInv
  BY LedgerInit
<1>2. LedgerInv /\ [Next]_vars => LedgerInv'
  BY LedgerNext
<1> QED BY <1>1, <1>2, PTL DEF Spec

\* However the log repeats, tears or loses its counts, the ledger has one turn
\* for each request that codex made and whose count can be read in the log, with
\* its usage, tier, prompt and patch, and none of a subagent's parent
\* (ledger.ts consume).
THEOREM TurnsAreRequestsAlways == Spec => []TurnsAreRequests
<1>1. LedgerInv => TurnsAreRequests
  BY DEF LedgerInv
<1> QED BY <1>1, LedgerInvAlways, PTL

\* A session whose turns add up to something else than codex counted is marked,
\* and one is marked only if a count of it was lost (ledger.ts ledger_warning).
THEOREM WarnsOfLossAlways == Spec => []WarnsOfLoss
<1>1. LedgerInv => WarnsOfLoss
  <2> SUFFICES ASSUME LedgerInv PROVE WarnsOfLoss
    OBVIOUS
  <2>1. builder.running = Spent(builder.turns) /\ (builder.warning => lost > 0)
    BY DEF LedgerInv, SumIsKnown
  <2>2. Own /\ ~unread => builder.warning \/ builder.running - total \in -1..1
    BY DEF LedgerInv, SumIsKnown
  <2> QED BY <2>1, <2>2 DEF WarnsOfLoss
<1> QED BY <1>1, LedgerInvAlways, PTL

LEMMA ToolsInvAlways == Spec => []ToolsInv
<1>1. Init => LedgerInv /\ ToolsInv
  BY LedgerInit, ToolsInit
<1>2. LedgerInv /\ ToolsInv /\ [Next]_vars => LedgerInv' /\ ToolsInv'
  BY LedgerNext, ToolsNext
<1> QED BY <1>1, <1>2, PTL DEF Spec

\* What is shown of a turn lists exactly the calls made for its request, once
\* each, with their own output as soon as that is in the log, whether it came
\* before or after the count that closed the turn, in any order, and named or
\* not (ledger.ts pairToolOutput, snapshot).
THEOREM ToolsAreTheirTurnsAlways == Spec => []ToolsAreTheirTurns
<1>1. LedgerInv /\ ToolsInv => ToolsAreTheirTurns
  BY ShownAreTheirs
<1> QED BY <1>1, LedgerInvAlways, ToolsInvAlways, PTL

====
