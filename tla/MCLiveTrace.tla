---- MODULE MCLiveTrace ----
(* A root, an LLM call that wraps another one, and a search that finds the root *)
(* and the inner call.                                                         *)
EXTENDS LiveTrace

CONSTANTS root, branch, call

MCSpans    == {root, branch, call}
MCParent   == [s \in MCSpans |-> CASE s = root -> None [] s = branch -> root [] s = call -> branch]
MCPath     == [s \in MCSpans |-> CASE s = root -> <<root>> [] s = branch -> <<root, branch>>
                                  [] s = call -> <<root, branch, call>>]
MCStart    == [s \in MCSpans |-> CASE s = root -> 1 [] s = branch -> 2 [] s = call -> 4]
MCEnd      == [s \in MCSpans |-> CASE s = root -> 6 [] s = branch -> 3 [] s = call -> 5]
MCTokens   == [s \in MCSpans |-> CASE s = root -> 0 [] s = branch -> 2 [] s = call -> 1]
MCMatching == {root, call}

First   == [s \in MCSpans |-> IF s = branch THEN "stored" ELSE "running"]
Inner   == [s \in MCSpans |-> CASE s = call -> "sent" [] s = branch -> "stored" [] s = root -> "running"]

\* A drawer opens when the call in the middle has just been stored (the inner one
\* is ingested later), a page when it follows the inner one,
\* and a drawer with a link to that span then.
MCSpec ==
  /\ Open(First, FALSE, None) \/ Open(Inner, TRUE, None) \/ Open(Inner, FALSE, call)
  /\ [][Next]_vars

====
