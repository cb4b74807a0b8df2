---- MODULE MCDashboard ----
\* Constants for TLC: two sessions, of which the narrow scope shows one.
EXTENDS Dashboard
CONSTANTS x, y, all, narrow
MCIds == {x, y}
MCScopes == {all, narrow}
MCInScope(s) == IF s = all THEN {x, y} ELSE {x}
MCHomeScope(id) == all
MCFresh == {[view |-> "overview", selected |-> None, scope |-> narrow]}
MCOnX == {[view |-> "sessions", selected |-> x, scope |-> narrow]}
MCEither == MCFresh \cup MCOnX
MCOne == {{x}}
====
