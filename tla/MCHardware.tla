---- MODULE MCHardware ----
\* Constants for TLC: two cards with two sensors, the first with a fan; a scrape
\* finds everything, misses a card, a meter or one of two, or the host is down.
EXTENDS Hardware

Gpu0 == {[key |-> "gpuTemp", card |-> 0, sensor |-> "edge"], [key |-> "fan", card |-> 0, sensor |-> None]}
Gpu1 == {[key |-> "gpuTemp", card |-> 1, sensor |-> s] : s \in {"edge", "junction"}}
CpuOf == {[key |-> "cpuTemp", card |-> None, sensor |-> "temp1"]}
Meter(key) == {[key |-> key, card |-> None, sensor |-> None]}

Package1 == {[key |-> "cpu", card |-> 1, sensor |-> None]}

MCLabels == Gpu0 \cup Gpu1 \cup CpuOf \cup Meter("cpu") \cup Package1 \cup Meter("machine")
MCScrapes == {MCLabels, CpuOf \cup Gpu1 \cup Meter("cpu"), {}}
MCFailures == {{"gpuTemp", "machine"}, TempKeys \cup PowerKeys}
MCLimits == [s \in {"edge", "junction"} |-> 100]
MCValue(label, t) ==
    CASE label.key = "gpuTemp" -> 90 + 6 * t + 5 * label.card + (IF label.sensor = "edge" THEN 0 ELSE 1)
      [] label.key = "machine" -> 120 - 12 * t
      [] OTHER -> 24 + 12 * t + (IF label.card = 1 THEN 120 ELSE 0)
MCSteps == <<2, 4>>
MCWideSteps == <<6>>
MCWindows == {[start |-> 1, end |-> 4]}
====
