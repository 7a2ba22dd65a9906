----------------------------- MODULE SpanTree ------------------------------
(****************************************************************************)
(* The pure functions the trace view lays its spans out with: the tree and   *)
(* the condensed timeline.  Both visit a span before its children, and them  *)
(* before what comes after it; the calls that are still to be made are a      *)
(* list, todo.  A span is visited once, so a visit per span is enough.        *)
(****************************************************************************)
EXTENDS SpanRows

\* The members of S, in the order of the list.
Sublist(L, S) ==
  LET sub[n \in 0..Len(L)] ==
        IF n = 0 THEN <<>> ELSE IF L[n] \in S THEN Append(sub[n - 1], L[n]) ELSE sub[n - 1]
  IN  sub[Len(L)]

\* getChildSpansMap: the children of a span; of None, the top-level spans.
ChildSpans(L, id) == Sublist(L, {s \in Range(L) : s.parent = id})

----------------------------------------------------------------------------
(* The tree: rows from the top, each with the lines that pass it.           *)

Children(L, s) == IF s.collapsed THEN <<>> ELSE ChildSpans(L, s.id)

\* Mutant: a row's last line is the one of its parent.
MutDrawRow(L, drawn) ==
  LET s    == Head(drawn.todo).span
      mask == Head(drawn.todo).mask
      kids == Children(L, s)
      next == [i \in DOMAIN kids |-> [span |-> kids[i], mask |-> [k \in 1..(Len(mask) + 1) |-> i # Len(kids)]]]
  IN [rows |-> Append(drawn.rows, [id |-> s.id, depth |-> Len(mask), mask |-> mask,
                                   hasChildren |-> ChildSpans(L, s.id) # <<>>]),
      todo |-> next \o Tail(drawn.todo)]

\* buildTreeWithCollapse.
DrawRow(L, drawn) ==
  LET s    == Head(drawn.todo).span
      mask == Head(drawn.todo).mask
      kids == Children(L, s)
      next == [i \in DOMAIN kids |-> [span |-> kids[i], mask |-> Append(mask, i # Len(kids))]]
  IN [rows |-> Append(drawn.rows, [id |-> s.id, depth |-> Len(mask), mask |-> mask,
                                   hasChildren |-> ChildSpans(L, s.id) # <<>>]),
      todo |-> next \o Tail(drawn.todo)]

TransformSpansToTree(L) ==
  LET roots == ChildSpans(L, None)
      drawn[n \in 0..Len(L)] ==
        IF n = 0 THEN [rows |-> <<>>, todo |-> [i \in DOMAIN roots |-> [span |-> roots[i], mask |-> <<>>]]]
        ELSE LET d == drawn[n - 1] IN IF d.todo = <<>> THEN d ELSE DrawRow(L, d)
  IN  drawn[Len(L)].rows

\* The tree of the spans a selection in the timeline leaves visible; of all if none is.
GetTreeSpans(L, visible) ==
  TransformSpansToTree(IF visible = {} THEN L ELSE Sublist(L, {s \in Range(L) : s.id \in visible}))

----------------------------------------------------------------------------
(* The condensed timeline.                                                  *)

\* dfsOrder.
Visit(L, w) ==
  [seen |-> Append(w.seen, Head(w.todo)),
   todo |-> ChildSpans(L, Head(w.todo).id) \o Tail(w.todo)]

OrderedSpans(L) ==
  LET walk[n \in 0..Len(L)] ==
        IF n = 0 THEN [seen |-> <<>>, todo |-> ChildSpans(L, None)]
        ELSE LET w == walk[n - 1] IN IF w.todo = <<>> THEN w ELSE Visit(L, w)
  IN  walk[Len(L)].seen

\* Positions are shares of the whole duration: with none they are NaN, and a
\* comparison with NaN is false.
HasOverlap(L, s, t) ==
  \/ Max({u.end : u \in Range(L)}) = Min({u.start : u \in Range(L)})
  \/ ~(s.end <= t.start \/ s.start >= t.end)

\* rows: the row of every span placed so far.
\* Mutant: a span may share its parent's row.
MutPlaceSpan(L, rows, s) ==
  LET first   == IF s.parent \in DOMAIN rows THEN rows[s.parent] ELSE 0
      free(r) == \A t \in Range(L) : t.id \in DOMAIN rows /\ rows[t.id] = r => ~HasOverlap(L, s, t)
      target  == Min({r \in first..(first + 1 + Cardinality(DOMAIN rows)) : free(r)})
  IN [id \in DOMAIN rows \cup {s.id} |-> IF id = s.id THEN target ELSE rows[id]]

PlaceSpan(L, rows, s) ==
  LET parentRow == IF s.parent \in DOMAIN rows THEN rows[s.parent] ELSE -1
      free(r)   == \A t \in Range(L) : t.id \in DOMAIN rows /\ rows[t.id] = r => ~HasOverlap(L, s, t)
      target    == Min({r \in (parentRow + 1)..(parentRow + 1 + Cardinality(DOMAIN rows)) : free(r)})
  IN [id \in DOMAIN rows \cup {s.id} |-> IF id = s.id THEN target ELSE rows[id]]

CondensedRows(L) ==
  LET order == OrderedSpans(L)
      placed[n \in 0..Len(order)] ==
        IF n = 0 THEN [id \in {} |-> 0] ELSE PlaceSpan(L, placed[n - 1], order[n])
  IN  placed[Len(order)]

=============================================================================
