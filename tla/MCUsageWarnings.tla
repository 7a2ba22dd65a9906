-------------------------- MODULE MCUsageWarnings --------------------------
(***************************************************************************)
(* Instances of UsageWarnings for TLC.                                     *)
(***************************************************************************)
EXTENDS UsageWarnings, TLC

None == [k \in FaultKind |-> 0]
\* One fault of every kind.
Every == [k \in FaultKind |-> 1]
Fetching == [None EXCEPT !["fetch"] = 1]

\* Three faults within one period, a failed publish with one other at most; in
\* two periods a failed publish of a notification or an expired lock.
Bounded ==
  \/ period = 1 /\ FaultsInAll <= 3 - faults["publish"]
  \/ FaultsInAll <= 1 /\ FaultsInAll = faults["publish"] + faults["expiry"]

Symmetry == Permutations(Ingester) \cup Permutations(Handler)
=============================================================================
