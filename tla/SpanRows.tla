----------------------------- MODULE SpanRows ------------------------------
(****************************************************************************)
(* The pure functions the rows of a trace view are made with: placeholders   *)
(* for parents that have not ended yet, the metrics of subtrees, the parents *)
(* of the spans a search leaves, and the ancestors of selected spans.        *)
(* A span is a record with at least                                          *)
(*   id, parent (None for a root), path (the ids from the root down to it),  *)
(*   type, start, end, pending, collapsed, tokens, and sum, the tokens shown *)
(*   for its subtree (-1: not computed).                                     *)
(****************************************************************************)
EXTENDS Integers, Sequences, FiniteSets, SequencesExt, FiniteSetsExt

CONSTANT None   \* no parent

Ids(S)      == {s.id : s \in S}
The(S, id)  == CHOOSE s \in S : s.id = id

\* computeVisibleSpanIds: the selected ids and every ancestor, one step up at a
\* time.
WithAncestors(S, ids) ==
  LET up[n \in 0..Cardinality(S)] ==
        IF n = 0 THEN ids
        ELSE LET below == up[n - 1]
             IN  below \cup {s.parent : s \in {t \in S : t.id \in below /\ t.parent # None}}
  IN  up[Cardinality(S)]

----------------------------------------------------------------------------
(* Placeholders for the ancestors of a span that have not arrived.          *)

Claims(S, id) == {s \in S : s.parent # None /\ id \in Range(s.path)}

PendingIds(S) ==
  LET named == UNION {Range(s.path) : s \in {t \in S : t.parent # None}}
  IN {s.id : s \in {t \in S : t.pending}} \cup (named \ Ids(S))

Placeholder(S, id) ==
  LET own   == {s \in S : s.id = id}
      all   == own \cup Claims(S, id)
      child == CHOOSE s \in Claims(S, id) : TRUE
      i     == CHOOSE k \in DOMAIN child.path : child.path[k] = id
      new   == [id |-> id, parent |-> IF i > 1 THEN child.path[i - 1] ELSE None, path |-> <<>>,
                type |-> "DEFAULT", start |-> child.start, end |-> child.end,
                pending |-> TRUE, collapsed |-> FALSE, tokens |-> 0, sum |-> -1]
  IN [(IF own # {} THEN The(S, id) ELSE new)
        EXCEPT !.start = Min({s.start : s \in all}), !.end = Max({s.end : s \in all})]

EnrichSpansWithPending(S) ==
  {s \in S : ~s.pending} \cup {Placeholder(S, id) : id \in PendingIds(S)}

----------------------------------------------------------------------------
(* The tokens of a subtree: those of the LLM spans at its leaves.  -1 stands *)
(* for a subtree without one.                                               *)

CalculateMetrics(S) ==
  LET metrics[s \in S] ==
        LET kids  == {t \in S : t.parent = s.id}
            below == {t \in kids : metrics[t] # -1}
        IN  IF kids = {} THEN IF s.type = "LLM" THEN s.tokens ELSE -1
            ELSE IF below = {} THEN -1
            ELSE FoldSet(LAMBDA t, sum : sum + metrics[t], 0, below)
  IN  metrics

\* Mutant: a sum once computed stays.
MutAggregateSpanMetrics(S) ==
  {[s EXCEPT !.sum = IF s.sum # -1 THEN s.sum ELSE CalculateMetrics(S)[s]] : s \in S}

\* A span without metrics keeps what it had.
AggregateSpanMetrics(S) ==
  LET metrics == CalculateMetrics(S)
  IN  {[s EXCEPT !.sum = IF metrics[s] = -1 THEN s.sum ELSE metrics[s]] : s \in S}

----------------------------------------------------------------------------
(* A search keeps the spans that match; each gets its nearest kept ancestor. *)

\* Mutant: a span whose parent is not found becomes a root.
MutCreateParentRewiring(S, kept) ==
  [id \in kept |-> LET p == The(S, id).parent IN IF p \in kept THEN p ELSE None]

CreateParentRewiring(S, kept) ==
  LET nearest[id \in Ids(S)] ==
        LET parent == The(S, id).parent
        IN  IF parent = None \/ parent \in kept THEN parent
            ELSE IF parent \in Ids(S) THEN nearest[parent] ELSE None
  IN  [id \in kept |-> nearest[id]]

TransformSpans(S, kept) ==
  LET parents == CreateParentRewiring(S, kept)
  IN  {[s EXCEPT !.parent = parents[s.id]] : s \in {t \in S : t.id \in kept}}

=============================================================================
