---- MODULE MCWatcher ----
\* Constants for TLC: one watched transcript, which may be renamed.
EXTENDS Watcher
CONSTANTS log, x, y
MCLogs == {log}
MCDbs == {}
MCImports == {}
MCIds == {x, y}
MCMayName(p) == {x, y}
MCMayHold(d) == {}
====
