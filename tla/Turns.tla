---- MODULE Turns ----
(***************************************************************************)
(* What the engine says a request was for (packages/engine/src/classify.ts,  *)
(* detect.ts).  A turn has tools, a patch flag, the plan flag and the time    *)
(* it ended; a tool is [name, cmd, patches, out]: out is the hash of its      *)
(* output, cmd the shell command of an exec, a sequence of the segments       *)
(* between connectors, each [bin, writes, paths] with bin the kind of its     *)
(* program (exec-command.ts).                                                 *)
(***************************************************************************)
EXTENDS Costs

CONSTANTS SpinMin, SpinMax   \* the median interval of idle polling, in ticks

ASSUME TurnsAssumption == SpinMin \in Nat /\ SpinMax \in Nat

PollTools == {"wait_agent", "list_agents", "write_stdin", "wait"}
Delegating == {"spawn_agent", "send_message"}
Talking == {"send_user_message", "send_user_message_async", "notify"}
Tooling == {"view_image", "set_thread_title", "mcp__"}

---------------------------------------------------------------------------
\* exec-command.ts

SimpleRead(s) == s.bin \in {"read", "search"}
Inspects(s) == SimpleRead(s) \/ s.bin = "env"
Validates(s) == s.bin = "verify"
SimpleTooling(s) == s.bin \in {"env", "package"}

\* A search names its pattern first; what it searches is known only if more is given.
PathsOfSegment(s) == IF SimpleRead(s) THEN s.paths ELSE <<>>

Every(cmd, test(_)) == cmd # <<>> /\ \A s \in Range(cmd) : test(s)

IsReadCommand(cmd) == Every(cmd, SimpleRead)
IsInspectionCommand(cmd) == Every(cmd, Inspects)
IsWriteCommand(cmd) == \E s \in Range(cmd) : s.writes
IsToolingCommand(cmd) == Every(cmd, SimpleTooling)
HasSourceRead(cmd) == \E s \in Range(cmd) : SimpleRead(s)

IsVerificationCommand(cmd) ==
    (\E s \in Range(cmd) : Validates(s)) /\ \A s \in Range(cmd) : Validates(s) \/ Inspects(s)

ReadPaths(cmd) == FlattenSeq([i \in DOMAIN cmd |-> PathsOfSegment(cmd[i])])

---------------------------------------------------------------------------
\* classify.ts

AllExec(turn) == ~turn.patch /\ turn.tools # <<>> /\ \A t \in Range(turn.tools) : t.name = "exec"
Names(turn) == {t.name : t \in Range(turn.tools)}

IsReadOnlyTurn(turn) ==
    AllExec(turn) /\ \A t \in Range(turn.tools) : ~IsWriteCommand(t.cmd) /\ IsReadCommand(t.cmd)

IsReadingTurn(turn) ==
    /\ AllExec(turn)
    /\ \E t \in Range(turn.tools) : HasSourceRead(t.cmd)
    /\ \A t \in Range(turn.tools) : IsInspectionCommand(t.cmd)

IsVerificationTurn(turn) ==
    AllExec(turn) /\ \A t \in Range(turn.tools) : ~IsWriteCommand(t.cmd) /\ IsVerificationCommand(t.cmd)

Codes(t) == (t.name = "exec" /\ IsWriteCommand(t.cmd)) \/ t.patches \/ t.name = "apply_patch"

IsCodeTurn(turn) == turn.patch \/ \E t \in Range(turn.tools) : Codes(t)

IsToolingTurn(turn) ==
    LET Signals(t) == IF t.name # "exec" THEN t.name \in Tooling ELSE IsToolingCommand(t.cmd)
    IN  /\ ~turn.patch
        /\ \E t \in Range(turn.tools) : Signals(t)
        /\ \A t \in Range(turn.tools) :
            /\ t.name = "exec" => ~Codes(t) /\ ~IsVerificationCommand(t.cmd)
            /\ t.name # "exec" => Signals(t)
            /\ Signals(t) \/ IsInspectionCommand(t.cmd)

\* hashes gives each path read so far in the session the hash of the last output.
ReadBy(tool) == IF tool.name = "exec" THEN Range(ReadPaths(tool.cmd)) ELSE {}
PathsOf(turn) == UNION {ReadBy(t) : t \in Range(turn.tools)}

HashForPath(turn, path) ==
    LET reads == {k \in DOMAIN turn.tools : path \in ReadBy(turn.tools[k])}
    IN  turn.tools[CHOOSE k \in reads : \A n \in reads : k <= n].out

IsReread(turn, hashes) ==
    /\ PathsOf(turn) # {}
    /\ \A p \in PathsOf(turn) : p \in DOMAIN hashes /\ hashes[p] = HashForPath(turn, p)

RememberBroken(hashes, tool) ==   \* the first output stays
    [p \in DOMAIN hashes \cup ReadBy(tool) |-> IF p \in DOMAIN hashes THEN hashes[p] ELSE tool.out]

Remember(hashes, tool) ==
    [p \in DOMAIN hashes \cup ReadBy(tool) |-> IF p \in ReadBy(tool) THEN tool.out ELSE hashes[p]]

\* updatePathHashes, tool by tool
Update(turn, hashes) ==
    LET after[k \in 0..Len(turn.tools)] == IF k = 0 THEN hashes ELSE Remember(after[k - 1], turn.tools[k])
    IN  after[Len(turn.tools)]

\* classifyTurn: the first that matches.
BucketOfTurn(turn, hashes) ==
    LET used == turn.tools # <<>>
    IN  IF used /\ Names(turn) \subseteq PollTools THEN "waiting.poll"
        ELSE IF used /\ Names(turn) \subseteq PollTools \cup Delegating THEN "waiting.coord"
        ELSE IF used /\ Names(turn) \subseteq Talking THEN "communication"
        ELSE IF IsReadOnlyTurn(turn) /\ IsReread(turn, hashes) THEN "reread"
        ELSE IF turn.plan THEN "planning"
        ELSE IF IsCodeTurn(turn) THEN "code"
        ELSE IF IsVerificationTurn(turn) THEN "verification"
        ELSE IF IsReadingTurn(turn) THEN "reading"
        ELSE IF IsToolingTurn(turn) THEN "tooling"
        ELSE IF ~used THEN "planning" ELSE "other"

\* classifyTurns: the hashes by the end of each turn, and what they make of the next.
NoHashes == [p \in {} |-> None]

HashesAfter(turns) ==
    LET known[i \in 0..Len(turns)] == IF i = 0 THEN NoHashes ELSE Update(turns[i], known[i - 1])
    IN  known

Classified(turns) ==
    LET known == HashesAfter(turns)
    IN  [i \in DOMAIN turns |-> [turns[i] EXCEPT !.bucket = BucketOfTurn(turns[i], known[i - 1])]]

---------------------------------------------------------------------------
\* detect.ts: which turns get a label, by their places.

\* Twice the median.
Median(values) ==
    LET sorted == SortSeq(values, <=)
        mid == Len(values) \div 2
    IN  IF values = <<>> THEN 0
        ELSE IF Len(values) % 2 = 0 THEN sorted[mid] + sorted[mid + 1] ELSE 2 * sorted[mid + 1]

Polls(turns, i) == i \in DOMAIN turns /\ turns[i].bucket = "waiting.poll"

\* The runs of polls with nothing between them, and nothing to add at either end.
Runs(turns) ==
    {r \in (DOMAIN turns) \X (DOMAIN turns) :
        /\ \A i \in r[1]..r[2] : Polls(turns, i)
        /\ r[1] <= r[2] /\ ~Polls(turns, r[1] - 1) /\ ~Polls(turns, r[2] + 1)}

Spins(turns, r) ==
    LET intervals == [k \in 1..(r[2] - r[1]) |-> turns[r[1] + k].at - turns[r[1] + k - 1].at]
    IN  r[2] - r[1] >= 2 /\ 2 * SpinMin <= Median(intervals) /\ Median(intervals) <= 2 * SpinMax

PollSpin(turns) == UNION {r[1]..r[2] : r \in {r \in Runs(turns) : Spins(turns, r)}}

\* Every path a turn's reading commands read, with the output.
ReadsOf(turn) ==
    FlattenSeq([i \in DOMAIN turn.tools |->
        LET t == turn.tools[i]
        IN  IF t.name # "exec" \/ ~IsReadCommand(t.cmd) THEN <<>>
            ELSE [k \in DOMAIN ReadPaths(t.cmd) |-> <<ReadPaths(t.cmd)[k], t.out>>]])

PathsReadIn(turn) == {r[1] : r \in Range(ReadsOf(turn))}

RereadRepeat(turns) ==
    {i \in DOMAIN turns :
        LET mine == ReadsOf(turns[i])
        IN  \E k \in DOMAIN mine :
                \/ \E j \in 1..(i - 1) : mine[k] \in Range(ReadsOf(turns[j]))
                \/ \E j \in 1..(k - 1) : mine[k] = mine[j]}

\* Between a compaction and the next, the rereads of what was read before it.
CompactionLoop(turns, compacts) ==
    UNION {LET c == compacts[n]
               Before(i) == \A j \in 1..i : turns[j].at < c
               known == UNION {PathsReadIn(turns[i]) : i \in {i \in DOMAIN turns : Before(i)}}
           IN  {i \in DOMAIN turns :
                   /\ turns[i].at > c /\ (n < Len(compacts) => turns[i].at < compacts[n + 1])
                   /\ turns[i].bucket = "reread" /\ PathsReadIn(turns[i]) \cap known # {}}
           : n \in DOMAIN compacts}

RawIn(turns, bucket) == SumTurns(SelectSeq(turns, LAMBDA t : t.bucket = bucket)).raw

\* Between the first and the last compaction hardly any code, and much read again.
Heavy(turns, compacts) ==
    LET window == SelectSeq(turns, LAMBDA t : compacts[1] < t.at /\ t.at < Last(compacts))
        raw == SumTurns(window).raw
    IN  /\ Len(compacts) >= 2 /\ raw > 0
        /\ 100 * RawIn(window, "code") < 15 * raw /\ 10 * RawIn(window, "reread") >= 3 * raw

\* detect: the turns with their labels.
Detected(turns, compacts) ==
    LET Labels(i) == {l \in {"poll_spin", "reread_repeat", "compaction_loop"} :
                        CASE l = "poll_spin" -> i \in PollSpin(turns)
                          [] l = "reread_repeat" -> i \in RereadRepeat(turns)
                          [] l = "compaction_loop" -> i \in CompactionLoop(turns, compacts)}
    IN  [i \in DOMAIN turns |-> [turns[i] EXCEPT !.labels = Labels(i)]]

\* The suggestions: what is known of compactions stands for repeated reads.
Suggestions(turns, compacts) ==
    LET loop == CompactionLoop(turns, compacts)
        squeezed == loop # {} \/ Heavy(turns, compacts)
        Given(kind, places) == IF places = {} THEN {} ELSE {[kind |-> kind, places |-> places]}
    IN  Given("poll_spin", PollSpin(turns))
          \cup (IF ~squeezed THEN Given("reread_repeat", RereadRepeat(turns))
                ELSE {[kind |-> IF Heavy(turns, compacts) THEN "compaction_loop_heavy" ELSE "compaction_loop",
                       places |-> loop]})

====
