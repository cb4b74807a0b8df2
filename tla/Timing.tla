---- MODULE Timing ----
(***************************************************************************)
(* How long the model took (packages/engine/src/performance.ts): from what   *)
(* the log says of one request, or of an agent's task with its tools and     *)
(* waits.  A sample is [ended, ttft, duration, output, speed, basis], None    *)
(* where the log says nothing.  Speeds are rounded down.                     *)
(***************************************************************************)
EXTENDS Costs

CONSTANTS TtftEdges, TpsEdges, PerSecond   \* units of time in a second

ASSUME TimingAssumption == PerSecond \in Nat \ {0}

SumOf(list) ==
    LET sum[n \in 0..Len(list)] == IF n = 0 THEN 0 ELSE sum[n - 1] + list[n]
    IN  sum[Len(list)]

\* requestPerformance: a wait for the first token is not generation, and one that
\* outlasts the request leaves no time to generate in.
Generation(duration, ttft) ==
    IF duration = None \/ ttft = None THEN duration
    ELSE IF ttft < duration THEN duration - ttft ELSE None

Positive(x) == IF x = 0 THEN None ELSE x

RequestPerformance(r) ==
    LET duration == Positive(r.duration)
        time == Generation(duration, r.ttft)
        output == IF r.usage = None THEN None ELSE r.usage.output
    IN  [ttft |-> r.ttft, duration |-> duration,
         speed |-> IF r.speed # None THEN r.speed
                   ELSE IF None \in {time, output} THEN None ELSE (output * PerSecond) \div time]

---------------------------------------------------------------------------
\* extractTaskTimings: e is [kind, at, id, raw, output, duration, ttft]; task ids
\* are numbers, the time stands in for one that is missing.

Fresh(start) == [start |-> start, counted |-> 0, recorded |-> None, used |-> FALSE]

NoTasks(sub) == [pending |-> [i \in {} |-> None], done |-> <<>>, active |-> None, armed |-> ~sub, last |-> None]

IdOf(tasks, e) == IF e.id # None THEN e.id ELSE IF tasks.active # None THEN tasks.active ELSE e.at
Finished(tasks, id) == \E i \in DOMAIN tasks.done : tasks.done[i].id = id

Started(tasks, e) ==
    LET id == IF e.id = None THEN e.at ELSE e.id
    IN  [tasks EXCEPT !.armed = TRUE, !.active = id,
                      !.pending = [i \in DOMAIN @ \cup {id} |-> IF i = id THEN Fresh(e.at) ELSE @[i]]]

Count(task, e) == [task EXCEPT !.counted = @ + e.output, !.used = TRUE]

Counting(tasks, e) ==
    LET id == IdOf(tasks, e)
        counted == IF id \notin DOMAIN tasks.pending THEN tasks.pending
                   ELSE [tasks.pending EXCEPT ![id] = Count(@, e)]
    IN  [tasks EXCEPT !.last = e.raw, !.pending = counted]

UsedBroken(tasks, e) == IF e.output = None THEN tasks ELSE Counting(tasks, e)   \* repeated counts are added again

\* A token count with an output, taken by the ledger or not, unless its words are
\* those of the last one.
Used(tasks, e) == IF e.output = None \/ e.raw = tasks.last THEN tasks ELSE Counting(tasks, e)

\* The usage the task itself reports, in place of what was counted.
Reported(tasks, e) ==
    IF e.output = None \/ IdOf(tasks, e) \notin DOMAIN tasks.pending THEN tasks
    ELSE [tasks EXCEPT !.pending[IdOf(tasks, e)].recorded = e.output, !.pending[IdOf(tasks, e)].used = TRUE]

TimingOf(task, id, e) ==
    LET elapsed == IF task.start # None /\ e.at > task.start THEN e.at - task.start ELSE None
        duration == IF e.duration # None THEN e.duration ELSE elapsed
    IN  [id |-> id, ended |-> e.at, duration |-> Positive(duration), speed |-> None,
         ttft |-> IF e.ttft # None /\ (duration = None \/ e.ttft <= duration) THEN e.ttft ELSE None,
         output |-> IF ~task.used THEN None ELSE IF task.recorded # None THEN task.recorded ELSE task.counted]

Completed(tasks, e) ==
    LET id == IdOf(tasks, e)
        task == IF id \in DOMAIN tasks.pending THEN tasks.pending[id] ELSE Fresh(None)
    IN  IF Finished(tasks, id) THEN tasks
        ELSE [tasks EXCEPT !.done = Append(@, TimingOf(task, id, e)),
                           !.pending = [i \in DOMAIN @ \ {id} |-> @[i]],
                           !.active = IF @ = id THEN None ELSE @]

\* A subagent's log begins with a copy of its parent's: nothing counts before a task starts.
Advance(tasks, e) ==
    IF e.kind = "start" THEN Started(tasks, e)
    ELSE IF ~tasks.armed THEN tasks
    ELSE IF e.kind = "request" THEN Used(tasks, e)
    ELSE IF e.kind = "usage" THEN Reported(tasks, e)
    ELSE IF e.kind = "complete" THEN Completed(tasks, e) ELSE tasks

TasksAfter(events, sub) ==
    LET tasks[i \in 0..Len(events)] == IF i = 0 THEN NoTasks(sub) ELSE Advance(tasks[i - 1], events[i])
    IN  tasks

TaskTimings(events, sub) == TasksAfter(events, sub)[Len(events)].done

---------------------------------------------------------------------------
\* requestTimings; a turn of Codex's ledger does not say that its usage is recorded.
RequestTimings(turns) ==
    [i \in DOMAIN turns |->
        [id |-> i, ended |-> turns[i].at, duration |-> turns[i].performance.duration,
         ttft |-> turns[i].performance.ttft, speed |-> turns[i].performance.speed,
         output |-> IF turns[i].recorded THEN turns[i].output ELSE None, basis |-> "request"]]

AsTasks(timings) == [i \in DOMAIN timings |-> timings[i] @@ [basis |-> "task"]]

\* sampleGenerationMs: a task's tools and waits stay in its time.
SampleTime(s) == IF s.basis = "request" THEN Generation(s.duration, s.ttft) ELSE s.duration

SampleSpeed(s) ==
    IF s.speed # None THEN s.speed
    ELSE IF None \in {SampleTime(s), s.output} THEN None ELSE (s.output * PerSecond) \div SampleTime(s)

Place(value, edges) == 1 + Cardinality({i \in DOMAIN edges : edges[i] < value})

Histogram(values, edges) ==
    [i \in 1..(Len(edges) + 1) |-> Len(SelectSeq(values, LAMBDA v : v # None /\ Place(v, edges) = i))]

\* performanceDistribution
Distribution(samples) ==
    [ttft |-> Histogram([i \in DOMAIN samples |-> samples[i].ttft], TtftEdges),
     tps |-> Histogram([i \in DOMAIN samples |-> SampleSpeed(samples[i])], TpsEdges),
     count |-> Len(samples)]

\* summarizePerformance, the averages as their sums and counts.
Summary(samples) ==
    LET waits == SelectSeq(samples, LAMBDA s : s.ttft # None)
        speeds == SelectSeq(samples, LAMBDA s : SampleTime(s) # None /\ s.output # None)
    IN  [count |-> Len(samples),
         ttft |-> [sum |-> SumOf([i \in DOMAIN waits |-> waits[i].ttft]), count |-> Len(waits)],
         speed |-> [output |-> SumOf([i \in DOMAIN speeds |-> speeds[i].output]),
                    time |-> SumOf([i \in DOMAIN speeds |-> SampleTime(speeds[i])]), count |-> Len(speeds)],
         basis |-> IF samples = <<>> THEN None
                   ELSE IF \E i \in DOMAIN samples : samples[i].basis = "task" THEN "task" ELSE "request"]

====
