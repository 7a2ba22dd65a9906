---------------------------- MODULE MCTraceStats ----------------------------
(***************************************************************************)
(* Instances of TraceStats for TLC.                                        *)
(***************************************************************************)
EXTENDS TraceStats, TLC

\* Two spans of one trace, one of them recorded, and a patch for it.
OneProject == [m \in Msg |-> "p1"]
OneTrace == [m \in Msg |-> "t1"]

\* The two spans belong to two projects, which use the same trace id.
SplitProjects == [m \in Msg |-> IF m = "s2" THEN "p2" ELSE "p1"]

WorkerSymmetry == Permutations(Worker)
=============================================================================
