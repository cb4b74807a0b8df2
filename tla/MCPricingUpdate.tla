---- MODULE MCPricingUpdate ----
\* Constants for TLC: two overlapping POSTs, a watched session file and an import.
EXTENDS PricingUpdate
CONSTANTS log, imported, p1, p2
MCLog == {log}
MCImported == {imported}
MCPosts == {p1, p2}
====
