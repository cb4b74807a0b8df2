---- MODULE MCReport ----
\* Constants for TLC: a task of three polls with an agent that reads a file again
\* and an agent of its own, and a session of another source.  m has a rate on the
\* card, n has none, api has a published one, which relay is declared to be.
EXTENDS Report

Exec(bin, out) == <<[name |-> "exec", cmd |-> <<[bin |-> bin, writes |-> FALSE, paths |-> <<"f">>]>>, patches |-> FALSE, out |-> out]>>
Calls(name) == <<[name |-> name, cmd |-> <<>>, patches |-> FALSE, out |-> None]>>
Usage(input, output) == [input |-> input, cached |-> 1, write |-> 0, output |-> output]

Other == [at |-> None, key |-> None, raw |-> None, ordinal |-> None, kind |-> "other", again |-> "new", id |-> None, output |-> None, duration |-> None, ttft |-> None,
          limits |-> None]
Request == [at |-> None, key |-> None, raw |-> None, ordinal |-> None, kind |-> "request", again |-> "new", id |-> None, output |-> 2, duration |-> 3, ttft |-> 1, speed |-> None,
            usage |-> Usage(3, 2), model |-> "m", fast |-> FALSE, tools |-> <<>>, patch |-> FALSE, plan |-> FALSE,
            provider |-> None, recorded |-> None, hour |-> 0, limits |-> None]
Native == [Request EXCEPT !.model = "relay", !.provider = "third"]

MCEvent ==
    [start   |-> [Other EXCEPT !.kind = "start"],
     done    |-> [Other EXCEPT !.kind = "complete", !.ttft = 1],
     compact |-> [Other EXCEPT !.kind = "compact"],
     usage   |-> [Other EXCEPT !.kind = "usage", !.output = 9],
     torn    |-> [Other EXCEPT !.kind = "torn"],
     gap     |-> [Other EXCEPT !.kind = "gap"],
     poll    |-> [Request EXCEPT !.tools = Calls("wait_agent"), !.limits = 1],
     echo    |-> [Request EXCEPT !.again = "echo", !.limits = 2],
     odd     |-> [Request EXCEPT !.usage = None],
     same    |-> [Request EXCEPT !.again = "same"],
     spawn   |-> [Request EXCEPT !.tools = Calls("spawn_agent"), !.fast = TRUE],
     read    |-> [Request EXCEPT !.tools = Exec("read", "h")],
     changed |-> [Request EXCEPT !.tools = Exec("read", "k")],
     test    |-> [Request EXCEPT !.tools = Exec("verify", "ok"), !.model = "n"],
     patch   |-> [Request EXCEPT !.patch = TRUE, !.model = None],
     view    |-> [Request EXCEPT !.tools = Calls("view_image"), !.ttft = 4],
     relayed |-> [Native EXCEPT !.recorded = 0],
     spent   |-> [Native EXCEPT !.recorded = 7, !.usage = None, !.output = None, !.tools = Calls("notify")],
     other   |-> [Native EXCEPT !.model = "n", !.plan = TRUE]]

None4 == [s \in {"p", "c", "g", "n"} |-> None]
MCFamilies == {[None4 EXCEPT !["c"] = "p", !["g"] = "c"], [None4 EXCEPT !["c"] = "g", !["g"] = "c", !["p"] = "c"]}
MCHistories ==
    {[p |-> <<"start", "poll", "poll", "poll">>, c |-> <<"start", "read", "compact", "read", "changed">>,
      g |-> <<"start", "patch">>, n |-> <<>>],
     [p |-> <<"start", "spawn", "echo", "odd", "same">>, c |-> <<"poll", "start", "test", "usage">>,
      g |-> <<>>, n |-> <<"relayed", "spent">>]}
MCSourceOf == [s \in {"p", "c", "g", "n"} |-> IF s = "n" THEN "pi" ELSE "codex"]
MCNamesOf == [p |-> {"done", "gap"}, c |-> {"read"}, g |-> {"view", "torn"}, n |-> {"other", "spent"}]

MCCard == [m |-> [input |-> 2, cached |-> 1, output |-> 3, fast |-> None]]
MCApiPrices == [api |-> [input |-> 4, cached |-> 1, output |-> 5, fast |-> None, write |-> None]]
MCAliases == [relay |-> "api"]
MCToggles == {"poll", "reread", "compaction_loop", "idle_subagents", "coord", "healthy_subagents", "planning", "code"}
MCUserChoices == [s \in {"p", "c", "g", "n"} |-> IF s = "p" THEN {MCToggles} ELSE {}]
MCTtftEdges == <<1, 2>>
MCTpsEdges == <<2>>
MCDefaults == {"poll", "reread", "compaction_loop", "idle_subagents"}

AnyQuery == [source |-> None, since |-> None, until |-> None, model |-> None, days |-> 1, offset |-> 0, now |-> 0]
MCQueries == {[AnyQuery EXCEPT !.offset = 1, !.now = 3],
              [AnyQuery EXCEPT !.since = 2, !.until = 4, !.days = 2],
              [AnyQuery EXCEPT !.source = "codex", !.since = 4, !.until = 3, !.offset = -4]}
====
