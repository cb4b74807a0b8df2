---- MODULE MCLiveRead ----
\* Constants for TLC: a file that may begin as a subagent's session.
EXTENDS LiveRead
CONSTANT a
MCSessions == {<<a, TRUE>>}
====
