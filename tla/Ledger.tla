---- MODULE Ledger ----
(***************************************************************************)
(* The token ledger of a codex session (packages/engine/src/ledger.ts,      *)
(* LedgerBuilder): it consumes the events of the log one by one and makes a  *)
(* turn of every request to the model, with what the request used, the       *)
(* prompt, the tools called and their outputs.  The other actor is codex,    *)
(* which writes the log: its own account of what it did is kept in history   *)
(* variables, and the properties compare the two.                            *)
(*                                                                         *)
(* A usage is one number: the three counters of the code are treated alike.  *)
(* Call ids are issued in order.  Events of other kinds change nothing here. *)
(***************************************************************************)
EXTENDS Integers, SequencesExt, FiniteSetsExt

CONSTANTS
    None,
    Prompts,      \* what the user may say
    Usages,       \* what a request may use
    MaxLines,     \* bound: lines of the log
    MaxTiers      \* bound: lines that may set a service tier

ASSUME LedgerAssumption == Usages \subseteq Nat \ {0} /\ {MaxLines, MaxTiers} \subseteq Nat

VARIABLES
    builder,     \* the LedgerBuilder
    isSubagent,  \* the log begins with a copy of the parent's
    started,     \* codex has logged task_started
    last, total, \* the usage codex last counted, and its running total
    calls,       \* tool calls so far
    lines,       \* lines of the log so far
    waiting,     \* calls without an output in the log
    tiers,       \* history: the events that may set a tier
    requests,    \* history: the requests counted in this log's own part
    current,     \* history: what has been done since the last of them
    unread,      \* history: the last count cannot be read in the log
    lost         \* history: counts of its own part that could not

codex == <<isSubagent, started, last, total, calls, waiting>>
truth == <<tiers, requests, current, unread, lost>>
vars == <<builder, lines, codex, truth>>

Calls == 1..MaxLines
Modes == {None, TRUE, FALSE}   \* of a recorded service tier

Nothing == [parts |-> <<>>, calls |-> {}, patch |-> FALSE]

---------------------------------------------------------------------------
\* What consuming one event makes of a builder.

newWindow == [promptParts |-> <<>>, pendingTools |-> <<>>, tools |-> <<>>, hasPatchApply |-> FALSE]

NewBuilder(subagent) ==
    [isSubagent |-> subagent, armed |-> ~subagent,
     settingsFastMode |-> FALSE, fastMode |-> FALSE,
     window |-> newWindow, outstanding |-> <<>>, lastPrompt |-> <<>>,
     prevLast |-> 0, prevTotal |-> 0, running |-> 0, warning |-> FALSE,
     turns |-> <<>>]

\* finalizeTool: whose output the tool was given, None for the empty one.
finalizeTool(call, output) == [call |-> call, output |-> output]

TurnContext(b, mode) ==
    [b EXCEPT !.fastMode = IF mode = None THEN b.settingsFastMode ELSE mode]

ThreadSettings(b, own, mode) ==
    IF ~own \/ mode = None THEN b
    ELSE [b EXCEPT !.settingsFastMode = mode, !.fastMode = mode]

TaskStarted(b) == [b EXCEPT !.armed = TRUE]

UserMessage(b, text) ==
    IF b.armed THEN [b EXCEPT !.window.promptParts = Append(@, text)] ELSE b

PatchApply(b) == IF b.armed THEN [b EXCEPT !.window.hasPatchApply = TRUE] ELSE b

ToolCall(b, call) ==
    IF b.armed THEN [b EXCEPT !.window.pendingTools = Append(@, call)] ELSE b

\* The call an output belongs to: by call id, or the only one there is.
Owner(open, call, named) ==
    IF named THEN SelectInSeq(open, LAMBDA c : c = call)
    ELSE IF Len(open) = 1 THEN 1 ELSE 0

PairBroken(b, call, named) ==   \* an output after the count is lost
    LET i == Owner(b.window.pendingTools, call, named)
    IN  IF ~b.armed \/ i = 0 THEN b
        ELSE [b EXCEPT !.window.pendingTools = RemoveAt(@, i),
                       !.window.tools = Append(@, finalizeTool(b.window.pendingTools[i], call))]

\* pairToolOutput: the calls of this window first, then those of closed turns.
ToolOutput(b, call, named) ==
    LET i == Owner(b.window.pendingTools, call, named)
        j == Owner([k \in DOMAIN b.outstanding |-> b.outstanding[k].call], call, named)
    IN  IF ~b.armed \/ (i = 0 /\ j = 0) THEN b
        ELSE IF i # 0
        THEN [b EXCEPT !.window.pendingTools = RemoveAt(@, i),
                       !.window.tools = Append(@, finalizeTool(b.window.pendingTools[i], call))]
        ELSE [b EXCEPT !.outstanding = RemoveAt(@, j),
                       !.turns[b.outstanding[j].turn].tools =
                           Append(@, finalizeTool(b.outstanding[j].call, call))]

\* A count that says something, but nothing that can be read.
UnreadableCount(b) == IF b.armed THEN [b EXCEPT !.warning = TRUE] ELSE b

withinSlackBroken(actual, expected) == actual - expected <= 1   \* a sum too small is let pass

withinSlack(actual, expected) == actual - expected \in -1..1

\* The turn that a kept count closes.
ClosedTurn(b, usage) ==
    [usage |-> usage, fastMode |-> b.fastMode, hasPatchApply |-> b.window.hasPatchApply,
     prompt |-> IF b.window.promptParts # <<>> THEN b.window.promptParts ELSE b.lastPrompt,
     tools |-> b.window.tools]

Kept(b, usage, sum) ==
    LET turn == ClosedTurn(b, usage)
        number == Len(b.turns) + 1
        moved == [i \in DOMAIN b.window.pendingTools |->
                     [call |-> b.window.pendingTools[i], turn |-> number]]
    IN  [b EXCEPT !.turns = Append(@, turn),
                  !.lastPrompt = turn.prompt,
                  !.outstanding = @ \o moved,
                  !.prevLast = usage, !.prevTotal = sum,
                  !.running = @ + usage,
                  !.warning = @ \/ ~withinSlack(b.running + usage, sum),
                  !.window = newWindow]

TokenCountBroken(b, usage, sum) ==   \* a repeated count is a turn of its own
    IF b.armed THEN Kept(b, usage, sum) ELSE b

TokenCount(b, usage, sum) ==
    IF ~b.armed \/ (b.turns # <<>> /\ usage = b.prevLast /\ sum = b.prevTotal) THEN b
    ELSE Kept(b, usage, sum)

\* snapshot(): a call without an output is listed after the others of its turn,
\* with an empty one.
Shown(b) ==
    LET upTo[n \in 0..Len(b.outstanding)] ==
            IF n = 0 THEN [i \in DOMAIN b.turns |-> b.turns[i].tools]
            ELSE [upTo[n - 1] EXCEPT ![b.outstanding[n].turn] =
                      Append(@, finalizeTool(b.outstanding[n].call, None))]
    IN  upTo[Len(b.outstanding)]

---------------------------------------------------------------------------
\* Codex, one line of its log at a time.

Init ==
    /\ isSubagent \in BOOLEAN
    /\ builder = NewBuilder(isSubagent)
    /\ started = FALSE
    /\ last = 0 /\ total = 0 /\ calls = 0 /\ lines = 0
    /\ waiting = {}
    /\ tiers = <<>> /\ requests = <<>> /\ current = Nothing
    /\ unread = FALSE /\ lost = 0

\* What the log says is this session's own.
Own == ~isSubagent \/ started
Done(what) == current' = IF Own THEN what ELSE current

\* The tier in force: the last recorded one, except that a context without one
\* goes back to the thread's settings.
InForce ==
    LET own == {i \in DOMAIN tiers : tiers[i].kind = "settings" /\ tiers[i].mode # None}
        set == own \cup {i \in DOMAIN tiers : tiers[i].kind = "context"}
        Fast(is) == is # {} /\ tiers[Max(is)].mode = TRUE
    IN  IF set # {} /\ tiers[Max(set)].mode = None THEN Fast(own) ELSE Fast(set)

\* After a copy of its parent's log a subagent counts from nothing.
StartTask ==
    /\ ~started
    /\ started' = TRUE
    /\ builder' = TaskStarted(builder)
    /\ IF isSubagent THEN last' = 0 /\ total' = 0 /\ unread' = FALSE
       ELSE UNCHANGED <<last, total, unread>>
    /\ UNCHANGED <<isSubagent, calls, waiting, tiers, requests, current, lost>>

Tier(kind, mode) ==
    /\ Len(tiers) < MaxTiers
    /\ tiers' = Append(tiers, [kind |-> kind, mode |-> mode])
    /\ UNCHANGED <<codex, requests, current, unread, lost>>

Context(mode) == builder' = TurnContext(builder, mode) /\ Tier("context", mode)

Settings(mode) == builder' = ThreadSettings(builder, TRUE, mode) /\ Tier("settings", mode)

\* Settings applied to another thread.
OtherSettings(mode) == builder' = ThreadSettings(builder, FALSE, mode) /\ Tier("other", mode)

Say(text) ==
    /\ builder' = UserMessage(builder, text)
    /\ Done([current EXCEPT !.parts = Append(@, text)])
    /\ UNCHANGED <<isSubagent, started, last, total, calls, waiting>>
    /\ UNCHANGED <<tiers, requests, unread, lost>>

Patch ==
    /\ ~current.patch
    /\ builder' = PatchApply(builder)
    /\ Done([current EXCEPT !.patch = TRUE])
    /\ UNCHANGED <<codex, tiers, requests, unread, lost>>

Call ==
    /\ calls' = calls + 1
    /\ waiting' = waiting \cup {calls'}
    /\ builder' = ToolCall(builder, calls')
    /\ Done([current EXCEPT !.calls = @ \cup {calls'}])
    /\ UNCHANGED <<isSubagent, started, last, total>>
    /\ UNCHANGED <<tiers, requests, unread, lost>>

\* An output may come at any time after its call; one without a call id only
\* where a single call waits.
Output(call, named) ==
    /\ call \in waiting
    /\ named \/ waiting = {call}
    /\ waiting' = waiting \ {call}
    /\ builder' = ToolOutput(builder, call, named)
    /\ UNCHANGED <<isSubagent, started, last, total, calls, truth>>

Using(usage) ==
    /\ last' = usage /\ total' = total + usage
    /\ UNCHANGED <<isSubagent, started, calls, waiting, tiers>>

\* What was done for a request, with its usage and its tier.
Request(usage) ==
    [parts |-> current.parts, calls |-> current.calls, patch |-> current.patch,
     usage |-> usage, fast |-> InForce]

\* The request is in the log, with all that was done for it.
Counted(usage) ==
    /\ requests' = IF Own THEN Append(requests, Request(usage)) ELSE requests
    /\ Done(Nothing)
    /\ unread' = FALSE

Count(usage) ==
    /\ Using(usage)
    /\ builder' = TokenCount(builder, usage, total')
    /\ Counted(usage)
    /\ UNCHANGED lost

\* The count is unreadable, or its line is torn and no event at all.
LoseCount(usage) ==
    /\ Using(usage)
    /\ builder' \in {builder, UnreadableCount(builder)}
    /\ unread' = TRUE
    /\ lost' = IF Own THEN lost + 1 ELSE lost
    /\ UNCHANGED <<requests, current>>

\* Codex logs the counters again, for instance with new rate limits.
Repeat ==
    /\ last # 0
    /\ builder' = TokenCount(builder, last, total)
    /\ IF unread THEN Counted(last) ELSE UNCHANGED <<requests, current, unread>>
    /\ UNCHANGED <<codex, tiers, lost>>

Line ==
    \/ StartTask
    \/ \E mode \in Modes : Context(mode) \/ Settings(mode) \/ OtherSettings(mode)
    \/ \E text \in Prompts : Say(text)
    \/ Patch \/ Call
    \/ \E call \in Calls, named \in BOOLEAN : Output(call, named)
    \/ \E usage \in Usages : Count(usage) \/ LoseCount(usage)
    \/ Repeat

Next == lines < MaxLines /\ lines' = lines + 1 /\ Line

Spec == Init /\ [][Next]_vars

---------------------------------------------------------------------------
\* The user's words a request answers: those since the last request, or the
\* last before them.
PromptOf(i) ==
    LET asked == {j \in 1..i : requests[j].parts # <<>>}
    IN  IF asked = {} THEN <<>> ELSE requests[Max(asked)].parts

\* The ledger has one turn for each request codex made and logged, however often
\* its count is repeated, and none of a subagent's parent (ledger.ts consume);
\* a turn has the request's usage, tier, prompt and patch.
TurnsAreRequests ==
    /\ Len(builder.turns) = Len(requests)
    /\ \A i \in DOMAIN requests :
           LET turn == builder.turns[i] request == requests[i]
           IN  /\ turn.usage = request.usage /\ turn.fastMode = request.fast
               /\ turn.hasPatchApply = request.patch
               /\ turn.prompt = PromptOf(i)

\* What is shown of a turn lists exactly the calls made for its request, once
\* each, with their own output as soon as that is in the log, whether it came
\* before or after the count (ledger.ts pairToolOutput, snapshot).
ToolsAreTheirTurns ==
    \A i \in DOMAIN requests :
        LET tools == Shown(builder)[i]
        IN  /\ Len(tools) = Cardinality(requests[i].calls)
            /\ {tools[k].call : k \in DOMAIN tools} = requests[i].calls
            /\ \A k \in DOMAIN tools :
                   tools[k].output = IF tools[k].call \in waiting THEN None ELSE tools[k].call

\* What all the turns of a list used.
Spent(turns) ==
    LET upTo[n \in 0..Len(turns)] == IF n = 0 THEN 0 ELSE upTo[n - 1] + turns[n].usage
    IN  upTo[Len(turns)]

\* A session whose sum of turns differs from what codex counted is marked, and
\* one all of whose counts were readable is not (ledger.ts ledger_warning).
WarnsOfLoss ==
    LET sum == Spent(builder.turns)
    IN  /\ Own /\ ~unread /\ sum - total \notin -1..1 => builder.warning
        /\ builder.warning => lost > 0

====
