---- MODULE MCSessionStore ----
\* Constants for TLC: one watched transcript, one Cursor database, one import.
EXTENDS SessionStore
CONSTANTS log, db, imported, x, y
MCLogs == {log}
MCDbs == {db}
MCImports == {imported}
MCIds == {x, y}
MCMayName(p) == IF p = log THEN {x, y} ELSE {x}
MCMayHold(d) == {x, y}
====
