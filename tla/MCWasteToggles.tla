---- MODULE MCWasteToggles ----
\* Constants for TLC: the sessions and scopes of MCDashboard, two rules.
EXTENDS WasteToggles
CONSTANTS x, y, all, narrow, r1, r2
MCIds == {x, y}
MCScopes == {all, narrow}
MCInScope(s) == IF s = all THEN {x, y} ELSE {x}
MCHomeScope(id) == all
MCOnX == {[view |-> "sessions", selected |-> x, scope |-> all]}
MCOne == {{x}}
MCBoth == {{x, y}}
MCOneRule == {r1}
MCRules == {r1, r2}
====
