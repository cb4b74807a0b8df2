---- MODULE MCLogs ----
\* A session that codex logs or one that pi does, each read by the reader of its
\* kind (detectSource); the other agent does nothing.  Constants for TLC: a request
\* may use less than the slack of the checksum; a pi that records everything, one
\* that names no response, and an old one that names responses only.
EXTENDS Ledger, PiLog

CONSTANT hello

VARIABLE agent

Pi(duration, response, entry) == [duration |-> duration, response |-> response, entry |-> entry]
MCBuilds == {Pi(TRUE, TRUE, TRUE), Pi(FALSE, FALSE, TRUE), Pi(FALSE, TRUE, FALSE)}

LogsInit ==
    /\ agent \in {"codex", "pi"}
    /\ Init /\ (agent # "codex" => ~isSubagent)
    /\ PiInit /\ (agent # "pi" => build = Pi(TRUE, TRUE, TRUE))

LogsNext ==
    /\ UNCHANGED agent
    /\ \/ agent = "codex" /\ Next /\ UNCHANGED piVars
       \/ agent = "pi" /\ PiNext /\ UNCHANGED vars

LogsSpec == LogsInit /\ [][LogsNext]_<<agent, vars, piVars>>
====
