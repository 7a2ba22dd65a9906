--------------------------- MODULE MCSseRegistry ---------------------------
(***************************************************************************)
(* Instances of SseRegistry for TLC.                                       *)
(***************************************************************************)
EXTENDS SseRegistry, TLC

\* Everyone on one pod, watching one trace.
OnePod == [c \in Conn |-> "pod1"]
OneKey == [c \in Conn |-> "traces"]
AllTraces == [m \in Message |-> "traces"]

\* c1 and c2 watch one key on one pod; c3 watches another key on another pod.
\* Both pods receive both messages, m3 is for the key of c3.
TwoPods == [c \in Conn |-> IF c = "c3" THEN "pod2" ELSE "pod1"]
TwoKeys == [c \in Conn |-> IF c = "c3" THEN "trace_1" ELSE "traces"]
Split == [m \in Message |-> IF m = "m3" THEN "trace_1" ELSE "traces"]
=============================================================================
