-------------------------- MODULE TraceStatsProofs --------------------------
(***************************************************************************)
(* Proofs about TraceStats, for every set of messages, projects, traces    *)
(* and workers and every value of the bounds.                              *)
(***************************************************************************)
EXTENDS TraceStats, FiniteSetTheorems, TLAPS

\* A batch is well formed: its aggregations are finite and non-empty parts of
\* it, one per trace, each keyed by one of its own spans (from_spans).
Formed(w) ==
  /\ patches[w] \subseteq held[w]
  /\ \A a \in todo[w] :
       /\ IsFiniteSet(a.msgs) /\ a.msgs \subseteq held[w]
       /\ \E m \in a.msgs : KeyOf(m) = a.key
  /\ \A a, b \in todo[w] : a.key = b.key => a = b
  /\ trace[w] # "run" => todo[w] = {} /\ patches[w] = {}
  /\ trace[w] = "idle" => held[w] = {}

BatchInv == TypeOK /\ \A w \in Worker : Formed(w)

-----------------------------------------------------------------------------
(* Types of the helpers.                                                   *)

LEMMA KeyType == \A m \in Msg : KeyOf(m) \in Key
BY StatsAssumption DEF KeyOf, Key

\* Adding messages to a row keeps its type and never lowers its version.
LEMMA AddedType ==
  ASSUME NEW row \in Row, NEW S, NEW count \in Nat
  PROVE  /\ Added(row, S, count) \in Row
         /\ Added(row, S, count).n = row.n + count
         /\ \A m \in Msg : Added(row, S, count).applied[m]
                             = row.applied[m] + (IF m \in S THEN 1 ELSE 0)
<1> DEFINE f == [m \in Msg |-> row.applied[m] + (IF m \in S THEN 1 ELSE 0)]
<1>1. row.n + count \in Nat /\ \A m \in Msg : row.applied[m] \in Nat
  BY DEF Row
<1>2. f \in [Msg -> Nat]
  BY <1>1
<1>3. Added(row, S, count) = [n |-> row.n + count, applied |-> f]
  BY DEF Added
<1> HIDE DEF f
<1>4. Added(row, S, count) \in Row /\ Added(row, S, count).n = row.n + count
      /\ Added(row, S, count).applied = f
  BY <1>1, <1>2, <1>3 DEF Row
<1>5. QED
  BY <1>4 DEF f

\* What from_spans makes of a batch.
LEMMA AggregationTypes ==
  ASSUME NEW b \in SUBSET Msg, IsFiniteSet(b), NEW aggs \in Aggregations(b)
  PROVE  /\ aggs \subseteq Aggregation
         /\ \A a \in aggs : /\ IsFiniteSet(a.msgs) /\ a.msgs \subseteq b
                            /\ \E m \in a.msgs : KeyOf(m) = a.key
         /\ \A a, c \in aggs : a.key = c.key => a = c
<1> DEFINE ofTrace(t) == {m \in b \cap Span : TraceOf[m] = t}
           traces == {TraceOf[m] : m \in b \cap Span}
<1>1. PICK first \in [traces -> Project] :
        /\ \A t \in traces : first[t] \in {ProjectOf[m] : m \in ofTrace(t)}
        /\ aggs = {[key |-> <<first[t], t>>, msgs |-> ofTrace(t)] : t \in traces}
  BY DEF Aggregations
<1>2. traces \subseteq Trace
  BY StatsAssumption DEF Msg
<1>3. \A t \in traces : ofTrace(t) \subseteq b /\ ofTrace(t) \subseteq Span
  OBVIOUS
<1>4. \A t \in traces : IsFiniteSet(ofTrace(t))
  BY <1>3, FS_Subset
<1>5. \A t \in traces : <<first[t], t>> \in Key
  BY <1>1, <1>2 DEF Key
<1>6. \A t \in traces : \E m \in ofTrace(t) : KeyOf(m) = <<first[t], t>>
  BY <1>1 DEF KeyOf
<1> HIDE DEF ofTrace, traces
<1>7. aggs \subseteq Aggregation
  BY <1>1, <1>3, <1>5 DEF Aggregation
<1>8. \A a, c \in aggs : a.key = c.key => a = c
  BY <1>1
<1>9. QED
  BY <1>1, <1>3, <1>4, <1>6, <1>7, <1>8

\* What a stage returns, and which rows it returns.
LEMMA ReturnType ==
  ASSUME NEW rows \in Returned, NEW k \in Key, NEW row \in Row
  PROVE  Return(rows, k, row) \in Returned
BY DEF Return, Returned

-----------------------------------------------------------------------------
(* Type correctness and well-formed batches.                               *)

LEMMA InitBatch == Init => BatchInv
BY StatsAssumption DEF Init, BatchInv, TypeOK, Formed, NoRow, Row, Returned

\* All but the counters of errors has the type it had.
LEMMA FlushType ==
  ASSUME BatchInv, NEW w \in Worker, NEW b \in SUBSET queue, Flush(w, b)
  PROVE  BatchInv'
<1> USE DEF inputVars, boundVars
<1>1. b \in SUBSET Msg /\ IsFiniteSet(b)
  BY DEF BatchInv, TypeOK, Flush
<1>2. PICK aggs \in Aggregations(b) : todo' = [todo EXCEPT ![w] = aggs]
  BY DEF Flush
<1>3. /\ aggs \subseteq Aggregation
      /\ \A a \in aggs : /\ IsFiniteSet(a.msgs) /\ a.msgs \subseteq b
                         /\ \E m \in a.msgs : KeyOf(m) = a.key
      /\ \A a, c \in aggs : a.key = c.key => a = c
  BY <1>1, AggregationTypes
<1>4. TypeOK'
  <2>1. todo' \in [Worker -> SUBSET Aggregation]
    BY <1>2, <1>3 DEF BatchInv, TypeOK
  <2>2. queue' \subseteq Msg /\ held' \in [Worker -> SUBSET Msg] /\ taken' \in [Msg -> Nat]
    BY <1>1 DEF BatchInv, TypeOK, Flush
  <2>3. /\ patches' \in [Worker -> SUBSET Patch]
        /\ aggRows' \in [Worker -> Returned] /\ patchRows' \in [Worker -> Returned]
    BY <1>1 DEF BatchInv, TypeOK, Flush, Returned
  <2>4. /\ aggOk' \in [Worker -> BOOLEAN]
        /\ trace' \in [Worker -> {"idle", "run", "done"}]
        /\ span' \in [Worker -> {"idle", "run", "ok", "failed"}]
    BY DEF BatchInv, TypeOK, Flush
  <2>5. QED
    BY <2>1, <2>2, <2>3, <2>4 DEF BatchInv, TypeOK, Flush
<1>5. ASSUME NEW u \in Worker PROVE Formed(u)'
  <2>1. CASE u = w
    <3>1. /\ todo'[u] = aggs /\ held'[u] = b /\ patches'[u] = b \cap Patch
          /\ trace'[u] = "run"
      BY <1>2, <2>1 DEF BatchInv, TypeOK, Flush
    <3>2. QED
      BY <1>3, <3>1 DEF Formed, KeyOf
  <2>2. CASE u # w
    <3>1. /\ todo'[u] = todo[u] /\ held'[u] = held[u] /\ patches'[u] = patches[u]
          /\ trace'[u] = trace[u]
      BY <2>2 DEF BatchInv, TypeOK, Flush
    <3>2. QED
      BY <3>1 DEF BatchInv, Formed, KeyOf
  <2>3. QED
    BY <2>1, <2>2
<1>6. QED
  BY <1>4, <1>5 DEF BatchInv

\* The steps of a flush.
FlushStep(w) ==
  \/ \E a \in todo[w] : Upsert(w, a)
  \/ \E a \in todo[w], landed \in BOOLEAN : UpsertError(w, a, landed)
  \/ \E m \in patches[w] : Merge(w, m)
  \/ \E m \in patches[w], landed \in BOOLEAN : MergeError(w, m, landed)
  \/ InsertTraces(w) \/ InsertTracesError(w)
  \/ InsertSpans(w) \/ InsertSpansError(w)
  \/ JoinOk(w) \/ JoinFailed(w) \/ Crash(w)

\* A step of a flush leaves the batches of other workers alone; its own
\* shrinks, and is given up altogether only when the worker becomes idle.
LEMMA FlushFrame ==
  ASSUME BatchInv, NEW w \in Worker, FlushStep(w)
  PROVE  /\ \A u \in Worker \ {w} :
              /\ held'[u] = held[u] /\ todo'[u] = todo[u] /\ patches'[u] = patches[u]
              /\ trace'[u] = trace[u] /\ span'[u] = span[u] /\ aggOk'[u] = aggOk[u]
              /\ aggRows'[u] = aggRows[u] /\ patchRows'[u] = patchRows[u]
         /\ todo'[w] \subseteq todo[w] /\ patches'[w] \subseteq patches[w]
         /\ \/ held'[w] = held[w] /\ trace'[w] = trace[w]
            \/ /\ held'[w] = held[w] /\ trace'[w] = "done"
               /\ todo'[w] = {} /\ patches'[w] = {}
            \/ /\ held'[w] = {} /\ trace'[w] = "idle"
               /\ todo'[w] = {} /\ patches'[w] = {}
<1> USE DEF BatchInv, TypeOK, inputVars, flushVars, branchVars, queueVars, boundVars
<1>1. CASE \E a \in todo[w] : Upsert(w, a)
  BY <1>1 DEF Upsert
<1>2. CASE \E a \in todo[w], landed \in BOOLEAN : UpsertError(w, a, landed)
  BY <1>2 DEF UpsertError
<1>3. CASE \E m \in patches[w] : Merge(w, m)
  BY <1>3 DEF Merge
<1>4. CASE \E m \in patches[w], landed \in BOOLEAN : MergeError(w, m, landed)
  BY <1>4 DEF MergeError
<1>5. CASE InsertTraces(w) \/ InsertTracesError(w)
  BY <1>5 DEF InsertTraces, InsertTracesError
<1>6. CASE InsertSpans(w) \/ InsertSpansError(w)
  BY <1>6 DEF InsertSpans, InsertSpansError
<1>7. CASE JoinOk(w) \/ JoinFailed(w) \/ Crash(w)
  BY <1>7 DEF JoinOk, JoinFailed, Crash, Idle
<1>8. QED
  BY <1>1, <1>2, <1>3, <1>4, <1>5, <1>6, <1>7 DEF FlushStep

LEMMA FlushForms ==
  ASSUME BatchInv, NEW w \in Worker, FlushStep(w)
  PROVE  \A u \in Worker : Formed(u)'
<1> SUFFICES ASSUME NEW u \in Worker PROVE Formed(u)'
  OBVIOUS
<1>1. Formed(u) /\ Formed(w)
  BY DEF BatchInv
<1>2. CASE u # w
  <2>1. /\ held'[u] = held[u] /\ todo'[u] = todo[u] /\ patches'[u] = patches[u]
        /\ trace'[u] = trace[u]
    BY <1>2, FlushFrame
  <2>2. QED
    BY <1>1, <2>1 DEF Formed, KeyOf
<1>3. CASE u = w
  BY <1>1, <1>3, FlushFrame DEF Formed, KeyOf
<1>4. QED
  BY <1>2, <1>3

\* What an upsert or a merge makes of the row of record has its type.
LEMMA RowTypes ==
  ASSUME BatchInv, NEW w \in Worker
  PROVE  /\ \A a \in todo[w] :
              /\ a.key \in Key /\ a.msgs \subseteq Span
              /\ Cardinality(a.msgs) \in Nat /\ Cardinality(a.msgs) > 0
              /\ Added(pg[a.key], a.msgs, Cardinality(a.msgs)) \in Row
         /\ \A m \in patches[w] :
              /\ m \in Patch /\ KeyOf(m) \in Key
              /\ Patched(pg[KeyOf(m)], m) \in Row
<1>1. ASSUME NEW a \in todo[w]
      PROVE  /\ a.key \in Key /\ a.msgs \subseteq Span
             /\ Cardinality(a.msgs) \in Nat /\ Cardinality(a.msgs) > 0
             /\ Added(pg[a.key], a.msgs, Cardinality(a.msgs)) \in Row
  <2>1. a.key \in Key /\ a.msgs \subseteq Span
    BY DEF BatchInv, TypeOK, Aggregation
  <2>2. IsFiniteSet(a.msgs) /\ a.msgs # {}
    BY DEF BatchInv, Formed
  <2>3. Cardinality(a.msgs) \in Nat /\ Cardinality(a.msgs) # 0
    BY <2>2, FS_CardinalityType, FS_EmptySet
  <2>4. pg[a.key] \in Row
    BY <2>1 DEF BatchInv, TypeOK
  <2>5. QED
    BY <2>1, <2>3, <2>4, AddedType
<1>2. ASSUME NEW m \in patches[w]
      PROVE  m \in Patch /\ KeyOf(m) \in Key /\ Patched(pg[KeyOf(m)], m) \in Row
  <2>1. m \in Patch /\ KeyOf(m) \in Key
    BY KeyType DEF BatchInv, TypeOK, Msg
  <2>2. pg[KeyOf(m)] \in Row
    BY <2>1 DEF BatchInv, TypeOK
  <2>3. QED
    BY <2>1, <2>2, AddedType DEF Patched
<1>3. QED
  BY <1>1, <1>2

\* Both stages return rows, and traces_replacing receives rows.
LEMMA ReturnTypes ==
  ASSUME BatchInv, NEW w \in Worker
  PROVE  /\ \A k \in Key, row \in Row : Return(aggRows[w], k, row) \in Returned
         /\ \A k \in Key, row \in Row : Return(patchRows[w], k, row) \in Returned
         /\ ch \cup UpdatedTraces(w) \in Returned
BY ReturnType DEF BatchInv, TypeOK, UpdatedTraces, Returned

LEMMA FlushStepType ==
  ASSUME BatchInv, NEW w \in Worker, FlushStep(w)
  PROVE  TypeOK'
<1> USE DEF BatchInv, TypeOK, inputVars, flushVars, branchVars, queueVars, boundVars
<1>0. {} \in Returned
  BY DEF Returned
<1>1. ASSUME NEW a \in todo[w], Upsert(w, a) PROVE TypeOK'
  <2>1. pg' \in [Key -> Row]
    BY <1>1, RowTypes DEF Upsert
  <2>2. aggRows' \in [Worker -> Returned]
    BY <1>1, RowTypes, ReturnTypes DEF Upsert
  <2>3. QED
    BY <1>1, <2>1, <2>2 DEF Upsert
<1>2. ASSUME NEW a \in todo[w], NEW landed \in BOOLEAN, UpsertError(w, a, landed)
      PROVE  TypeOK'
  <2>1. pg' \in [Key -> Row]
    BY <1>2, RowTypes DEF UpsertError
  <2>2. QED
    BY <1>0, <1>2, <2>1 DEF UpsertError
<1>3. ASSUME NEW m \in patches[w], Merge(w, m) PROVE TypeOK'
  <2>1. pg' \in [Key -> Row]
    BY <1>3, RowTypes DEF Merge
  <2>2. patchRows' \in [Worker -> Returned]
    <3>1. Return(patchRows[w], KeyOf(m), Patched(pg[KeyOf(m)], m)) \in Returned
      BY RowTypes, ReturnTypes
    <3>2. QED
      BY <1>3, <3>1 DEF Merge
  <2>3. QED
    BY <1>3, <2>1, <2>2 DEF Merge
<1>4. ASSUME NEW m \in patches[w], NEW landed \in BOOLEAN, MergeError(w, m, landed)
      PROVE  TypeOK'
  <2>1. pg' \in [Key -> Row]
    BY <1>4, RowTypes DEF MergeError
  <2>2. QED
    BY <1>0, <1>4, <2>1 DEF MergeError
<1>5. CASE InsertTraces(w)
  BY <1>5, ReturnTypes DEF InsertTraces
<1>6. CASE InsertTracesError(w)
  BY <1>6 DEF InsertTracesError
<1>7. CASE InsertSpans(w)
  BY <1>7 DEF InsertSpans
<1>8. CASE InsertSpansError(w)
  BY <1>8 DEF InsertSpansError
<1>9. CASE JoinOk(w) \/ JoinFailed(w) \/ Crash(w)
  <2>1. signalled' \subseteq Check
    <3>1. Signals(w) \subseteq Check
      BY DEF Signals, Check, Returned
    <3>2. QED
      BY <1>9, <3>1 DEF JoinOk, JoinFailed, Crash
  <2>2. queue' \subseteq Msg /\ acked' \subseteq Msg
    BY <1>9 DEF JoinOk, JoinFailed, Crash
  <2>3. Idle(w)
    BY <1>9 DEF JoinOk, JoinFailed, Crash
  <2>4. /\ held' \in [Worker -> SUBSET Msg] /\ todo' \in [Worker -> SUBSET Aggregation]
        /\ patches' \in [Worker -> SUBSET Patch]
    BY <2>3 DEF Idle
  <2>5. /\ aggRows' \in [Worker -> Returned] /\ patchRows' \in [Worker -> Returned]
        /\ aggOk' \in [Worker -> BOOLEAN]
    BY <1>0, <2>3 DEF Idle
  <2>6. /\ trace' \in [Worker -> {"idle", "run", "done"}]
        /\ span' \in [Worker -> {"idle", "run", "ok", "failed"}]
    BY <2>3 DEF Idle
  <2>7. QED
    BY <1>9, <2>1, <2>2, <2>4, <2>5, <2>6 DEF JoinOk, JoinFailed, Crash
<1>10. QED
  BY <1>1, <1>2, <1>3, <1>4, <1>5, <1>6, <1>7, <1>8, <1>9 DEF FlushStep

LEMMA NextBatch == BatchInv /\ [Next]_vars => BatchInv'
<1> SUFFICES ASSUME BatchInv, [Next]_vars PROVE BatchInv' OBVIOUS
<1>1. ASSUME NEW m \in Msg, Submit(m) PROVE BatchInv'
  <2>1. TypeOK'
    BY <1>1 DEF Submit, BatchInv, TypeOK, Msg, flushVars, branchVars, boundVars
  <2>2. QED
    BY <1>1, <2>1 DEF Submit, BatchInv, Formed, KeyOf, flushVars, branchVars
<1>2. ASSUME NEW w \in Worker, NEW b \in SUBSET queue, Flush(w, b) PROVE BatchInv'
  BY <1>2, FlushType
<1>3. ASSUME NEW w \in Worker, FlushStep(w) PROVE BatchInv'
  BY <1>3, FlushStepType, FlushForms DEF BatchInv
<1>4. CASE UNCHANGED vars
  BY <1>4 DEF BatchInv, TypeOK, Formed, KeyOf, vars, inputVars, flushVars, branchVars,
     queueVars, boundVars
<1>5. QED
  BY <1>1, <1>2, <1>3, <1>4 DEF Next, FlushStep

\* Batches, rows and counters keep their types, and batches stay well formed.
THEOREM BatchesFormed == Spec => []BatchInv
<1>1. QED
  BY InitBatch, NextBatch, PTL DEF Spec

\* Type correctness of the statistics branch.
THEOREM TypeCorrect == Spec => []TypeOK
<1>1. BatchInv => TypeOK
  BY DEF BatchInv
<1>2. QED
  BY <1>1, BatchesFormed, PTL

-----------------------------------------------------------------------------
(* Versions: what a stage has returned and what was inserted are past       *)
(* states of the row of record, and each new state has a larger version.   *)

Snapshots == ch \cup UNION {aggRows[w] \cup patchRows[w] : w \in Worker}

Follows ==
  \A r \in Snapshots : r.row.n <= pg[r.key].n /\ (r.row.n = pg[r.key].n => r.row = pg[r.key])

NoTie == \A r, q \in Snapshots : r.key = q.key /\ r.row.n = q.row.n => r = q

VersionInv == Follows /\ NoTie

\* A snapshot is an old one, or the row of record as this step has made it.
Fresh(r) == r.row = pg'[r.key] /\ pg'[r.key].n > pg[r.key].n
Advance ==
  /\ \A k \in Key : pg'[k] = pg[k] \/ pg'[k].n > pg[k].n
  /\ \A r \in Snapshots' : r \in Snapshots \/ Fresh(r)

LEMMA SnapshotType ==
  ASSUME TypeOK
  PROVE  /\ Snapshots \subseteq [key : Key, row : Row]
         /\ \A k \in Key : pg[k] \in Row /\ pg[k].n \in Nat
BY DEF TypeOK, Snapshots, Returned, Row

\* The step every proof about versions comes down to.
LEMMA AdvanceKeeps ==
  ASSUME TypeOK, TypeOK', VersionInv, Advance
  PROVE  VersionInv'
<1>1. \A r \in Snapshots : r.key \in Key /\ r.row \in Row /\ r.row.n \in Nat
  BY SnapshotType DEF Row
<1>2. \A k \in Key : pg[k].n \in Nat
  BY SnapshotType
<1>3. \A r \in Snapshots' : r.key \in Key /\ r.row.n \in Nat
                           /\ r = [key |-> r.key, row |-> r.row]
  <2>1. Snapshots' \subseteq [key : Key, row : Row]
    BY DEF TypeOK, Snapshots, Returned
  <2>2. QED
    BY <2>1 DEF Row
<1>4. \A k \in Key : pg'[k].n \in Nat
  BY DEF TypeOK, Row
<1>5. \A r \in Snapshots : r.row.n <= pg[r.key].n
  BY DEF VersionInv, Follows
<1>6. ASSUME NEW r \in Snapshots'
      PROVE  r.row.n <= pg'[r.key].n /\ (r.row.n = pg'[r.key].n => r.row = pg'[r.key])
  <2>1. CASE r \in Snapshots
    <3>1. CASE pg'[r.key] = pg[r.key]
      BY <2>1, <3>1 DEF VersionInv, Follows
    <3>2. CASE pg'[r.key].n > pg[r.key].n
      BY <1>1, <1>2, <1>4, <1>5, <2>1, <3>2
    <3>3. QED
      BY <1>3, <3>1, <3>2 DEF Advance
  <2>2. CASE Fresh(r)
    BY <1>3, <1>4, <2>2 DEF Fresh
  <2>3. QED
    BY <2>1, <2>2 DEF Advance
<1>7. ASSUME NEW r \in Snapshots', NEW q \in Snapshots', r.key = q.key, r.row.n = q.row.n
      PROVE  r = q
  <2>1. CASE r \in Snapshots /\ q \in Snapshots
    BY <1>7, <2>1 DEF VersionInv, NoTie
  <2>2. CASE r \in Snapshots /\ Fresh(q)
    BY <1>1, <1>2, <1>4, <1>5, <1>7, <2>2 DEF Fresh
  <2>3. CASE Fresh(r) /\ q \in Snapshots
    BY <1>1, <1>2, <1>4, <1>5, <1>7, <2>3 DEF Fresh
  <2>4. CASE Fresh(r) /\ Fresh(q)
    BY <1>3, <1>7, <2>4 DEF Fresh
  <2>5. QED
    BY <2>1, <2>2, <2>3, <2>4 DEF Advance
<1>8. QED
  BY <1>6, <1>7 DEF VersionInv, Follows, NoTie

\* What an upsert or a merge writes has a larger version than what it replaces.
LEMMA LargerVersion ==
  ASSUME BatchInv, NEW w \in Worker
  PROVE  /\ \A a \in todo[w] :
              Added(pg[a.key], a.msgs, Cardinality(a.msgs)).n > pg[a.key].n
         /\ \A m \in patches[w] : Patched(pg[KeyOf(m)], m).n > pg[KeyOf(m)].n
<1>1. ASSUME NEW a \in todo[w]
      PROVE  Added(pg[a.key], a.msgs, Cardinality(a.msgs)).n > pg[a.key].n
  <2>1. /\ pg[a.key] \in Row /\ pg[a.key].n \in Nat
        /\ Cardinality(a.msgs) \in Nat /\ Cardinality(a.msgs) > 0
    BY RowTypes, SnapshotType DEF BatchInv
  <2>2. Added(pg[a.key], a.msgs, Cardinality(a.msgs)).n = pg[a.key].n + Cardinality(a.msgs)
    BY <2>1, AddedType
  <2>3. QED
    BY <2>1, <2>2
<1>2. ASSUME NEW m \in patches[w] PROVE Patched(pg[KeyOf(m)], m).n > pg[KeyOf(m)].n
  <2>1. pg[KeyOf(m)] \in Row /\ pg[KeyOf(m)].n \in Nat
    BY RowTypes, SnapshotType DEF BatchInv
  <2>2. Patched(pg[KeyOf(m)], m).n = pg[KeyOf(m)].n + 1
    BY <2>1, AddedType DEF Patched
  <2>3. QED
    BY <2>1, <2>2
<1>3. QED
  BY <1>1, <1>2

\* A worker's step that leaves ch and the rows of record alone, and returns no
\* new row, adds no snapshot.
LEMMA FewerSnapshots ==
  ASSUME BatchInv, UNCHANGED <<pg, ch>>,
         \A u \in Worker : /\ aggRows'[u] \subseteq aggRows[u]
                           /\ patchRows'[u] \subseteq patchRows[u]
  PROVE  Advance
BY DEF Advance, Snapshots

LEMMA FlushStepAdvances ==
  ASSUME BatchInv, NEW w \in Worker, FlushStep(w)
  PROVE  Advance
<1> USE DEF flushVars, queueVars, branchVars
<1>0. /\ \A u \in Worker \ {w} : aggRows'[u] = aggRows[u] /\ patchRows'[u] = patchRows[u]
      /\ aggRows \in [Worker -> Returned] /\ patchRows \in [Worker -> Returned]
      /\ pg \in [Key -> Row]
  BY FlushFrame DEF BatchInv, TypeOK
<1>1. ASSUME NEW a \in todo[w], Upsert(w, a) PROVE Advance
  <2> DEFINE row == Added(pg[a.key], a.msgs, Cardinality(a.msgs))
  <2>1. a.key \in Key /\ row.n > pg[a.key].n
    BY RowTypes, LargerVersion
  <2> HIDE DEF row
  <2>2. /\ pg' = [pg EXCEPT ![a.key] = row] /\ UNCHANGED <<ch, patchRows>>
        /\ aggRows' = [aggRows EXCEPT ![w] = Return(@, a.key, row)]
    BY <1>1 DEF Upsert, row
  <2>3. \A r \in Snapshots' : r \in Snapshots \/ r = [key |-> a.key, row |-> row]
    BY <1>0, <2>2 DEF Snapshots, Return
  <2>4. QED
    BY <1>0, <2>1, <2>2, <2>3 DEF Advance, Fresh
<1>2. ASSUME NEW a \in todo[w], NEW landed \in BOOLEAN, UpsertError(w, a, landed)
      PROVE  Advance
  <2>1. a.key \in Key /\ Added(pg[a.key], a.msgs, Cardinality(a.msgs)).n > pg[a.key].n
    BY RowTypes, LargerVersion
  <2>2. \A k \in Key : pg'[k] = pg[k] \/ pg'[k].n > pg[k].n
    BY <1>0, <1>2, <2>1 DEF UpsertError
  <2>3. UNCHANGED <<ch, patchRows>> /\ aggRows'[w] = {}
    BY <1>0, <1>2 DEF UpsertError
  <2>4. QED
    BY <1>0, <2>2, <2>3 DEF Advance, Snapshots
<1>3. ASSUME NEW m \in patches[w], Merge(w, m) PROVE Advance
  <2> DEFINE row == Patched(pg[KeyOf(m)], m)
  <2>1. KeyOf(m) \in Key /\ row.n > pg[KeyOf(m)].n
    BY RowTypes, LargerVersion
  <2> HIDE DEF row
  <2>2. CASE UNCHANGED <<pg, patchRows>>
    BY <1>3, <2>2, FewerSnapshots DEF Merge
  <2>3. CASE /\ pg' = [pg EXCEPT ![KeyOf(m)] = row]
             /\ patchRows' = [patchRows EXCEPT ![w] = Return(@, KeyOf(m), row)]
    <3>1. UNCHANGED <<ch, aggRows>>
      BY <1>3 DEF Merge
    <3>2. \A r \in Snapshots' : r \in Snapshots \/ r = [key |-> KeyOf(m), row |-> row]
      BY <1>0, <2>3, <3>1 DEF Snapshots, Return
    <3>3. QED
      BY <1>0, <2>1, <2>3, <3>2 DEF Advance, Fresh
  <2>4. QED
    BY <1>3, <2>2, <2>3 DEF Merge, row
<1>4. ASSUME NEW m \in patches[w], NEW landed \in BOOLEAN, MergeError(w, m, landed)
      PROVE  Advance
  <2>1. KeyOf(m) \in Key /\ Patched(pg[KeyOf(m)], m).n > pg[KeyOf(m)].n
    BY RowTypes, LargerVersion
  <2>2. \A k \in Key : pg'[k] = pg[k] \/ pg'[k].n > pg[k].n
    BY <1>0, <1>4, <2>1 DEF MergeError
  <2>3. UNCHANGED <<ch, aggRows>> /\ patchRows'[w] = {}
    BY <1>0, <1>4 DEF MergeError
  <2>4. QED
    BY <1>0, <2>2, <2>3 DEF Advance, Snapshots
<1>5. CASE InsertTraces(w)
  BY <1>5 DEF InsertTraces, Advance, Snapshots, UpdatedTraces
<1>6. CASE InsertTracesError(w) \/ InsertSpans(w) \/ InsertSpansError(w)
  BY <1>6 DEF InsertTracesError, InsertSpans, InsertSpansError, Advance, Snapshots
<1>7. CASE JoinOk(w) \/ JoinFailed(w) \/ Crash(w)
  <2>1. UNCHANGED <<pg, ch>> /\ aggRows'[w] = {} /\ patchRows'[w] = {}
    BY <1>0, <1>7 DEF JoinOk, JoinFailed, Crash, Idle
  <2>2. QED
    BY <1>0, <2>1, FewerSnapshots
<1>8. QED
  BY <1>1, <1>2, <1>3, <1>4, <1>5, <1>6, <1>7 DEF FlushStep

LEMMA NextAdvances == BatchInv /\ [Next]_vars => Advance
<1> SUFFICES ASSUME BatchInv, [Next]_vars PROVE Advance OBVIOUS
<1>1. ASSUME NEW m \in Msg, Submit(m) PROVE Advance
  BY <1>1, FewerSnapshots DEF Submit, flushVars
<1>2. ASSUME NEW w \in Worker, NEW b \in SUBSET queue, Flush(w, b) PROVE Advance
  <2>1. \A u \in Worker : /\ aggRows'[u] \subseteq aggRows[u]
                          /\ patchRows'[u] \subseteq patchRows[u]
    BY <1>2 DEF Flush, BatchInv, TypeOK
  <2>2. QED
    BY <1>2, <2>1, FewerSnapshots DEF Flush
<1>3. ASSUME NEW w \in Worker, FlushStep(w) PROVE Advance
  BY <1>3, FlushStepAdvances
<1>4. CASE UNCHANGED vars
  BY <1>4, FewerSnapshots DEF vars, flushVars
<1>5. QED
  BY <1>1, <1>2, <1>3, <1>4 DEF Next, FlushStep

\* In every reachable state the rows in flight and in ClickHouse are past
\* states of the PostgreSQL rows, told apart by their versions.
THEOREM Versions == Spec => []VersionInv
<1>1. Init => VersionInv
  BY DEF Init, VersionInv, Follows, NoTie, Snapshots
<1>2. BatchInv /\ BatchInv' /\ VersionInv /\ [Next]_vars => VersionInv'
  BY NextAdvances, AdvanceKeeps DEF BatchInv
<1>3. QED
  BY <1>1, <1>2, BatchesFormed, PTL DEF Spec

\* Two different rows of a trace with one num_spans never reach ClickHouse
\* (merge_trace_metadata_batch bumps it for that reason).
THEOREM VersionsNeverTie == Spec => []NoVersionTie
<1>1. VersionInv => NoVersionTie
  BY DEF VersionInv, NoTie, NoVersionTie, Snapshots
<1>2. QED
  BY <1>1, Versions, PTL

\* Readers of traces_replacing never see a state PostgreSQL has not been in.
THEOREM ClickhouseNeverAhead == Spec => []ClickhouseFollows
<1>1. VersionInv => ClickhouseFollows
  BY DEF VersionInv, Follows, ClickhouseFollows, Snapshots
<1>2. QED
  BY <1>1, Versions, PTL

-----------------------------------------------------------------------------
(* Catching up: without errors the latest row of record is in ClickHouse    *)
(* or with a worker that has still to insert it.                            *)

Latest(k) == [key |-> k, row |-> pg[k]]

OnItsWay(k) ==
  \/ Latest(k) \in ch
  \/ \E w \in Worker : trace[w] = "run" /\ Latest(k) \in UpdatedTraces(w)

\* Patches are merged after the last upsert of the flush.
Staged == \A w \in Worker : trace[w] = "run" /\ todo[w] # {} => patchRows[w] = {}

LatestInv ==
  /\ Staged
  /\ upsertErrors + mergeErrors + crashes = 0 => \A k \in Key : Exists(k) => OnItsWay(k)

LEMMA StagedStep ==
  ASSUME BatchInv, Staged, [Next]_vars
  PROVE  Staged'
<1> USE DEF flushVars, branchVars
<1>1. ASSUME NEW m \in Msg, Submit(m) PROVE Staged'
  BY <1>1 DEF Submit, Staged
<1>2. ASSUME NEW w \in Worker, NEW b \in SUBSET queue, Flush(w, b) PROVE Staged'
  BY <1>2 DEF Flush, Staged, BatchInv, TypeOK
<1>3. ASSUME NEW w \in Worker, FlushStep(w) PROVE Staged'
  <2>1. \A u \in Worker \ {w} : todo'[u] = todo[u] /\ patchRows'[u] = patchRows[u]
                               /\ trace'[u] = trace[u]
    BY <1>3, FlushFrame
  <2>2. trace'[w] = "run" /\ todo'[w] # {} => patchRows'[w] = {}
    BY <1>3 DEF FlushStep, Upsert, UpsertError, Merge, MergeError, InsertTraces,
       InsertTracesError, InsertSpans, InsertSpansError, JoinOk, JoinFailed, Crash, Idle,
       Staged, BatchInv, TypeOK
  <2>3. QED
    BY <2>1, <2>2 DEF Staged
<1>4. CASE UNCHANGED vars
  BY <1>4 DEF vars, Staged
<1>5. QED
  BY <1>1, <1>2, <1>3, <1>4 DEF Next, FlushStep

\* A worker that another one's step leaves alone still carries what it did.
LEMMA CarriedOn ==
  ASSUME NEW k \in Key, OnItsWay(k), pg'[k] = pg[k], ch \subseteq ch',
         \A u \in Worker : trace[u] = "run" /\ Latest(k) \in UpdatedTraces(u) =>
            \/ Latest(k) \in ch'
            \/ trace'[u] = "run" /\ Latest(k) \in UpdatedTraces(u)'
  PROVE  OnItsWay(k)'
BY DEF OnItsWay, Latest

LEMMA LatestStep ==
  ASSUME BatchInv, BatchInv', LatestInv, [Next]_vars,
         upsertErrors' + mergeErrors' + crashes' = 0,
         NEW k \in Key, Exists(k)'
  PROVE  OnItsWay(k)'
<1> USE DEF inputVars, flushVars, branchVars, queueVars, boundVars
<1>0. /\ upsertErrors \in Nat /\ mergeErrors \in Nat /\ crashes \in Nat
      /\ upsertErrors' \in Nat /\ mergeErrors' \in Nat /\ crashes' \in Nat
      /\ pg \in [Key -> Row]
      /\ trace \in [Worker -> {"idle", "run", "done"}]
      /\ aggRows \in [Worker -> Returned] /\ patchRows \in [Worker -> Returned]
  BY DEF BatchInv, TypeOK
<1>1. upsertErrors' = 0 /\ mergeErrors' = 0 /\ crashes' = 0
  <2>1. PICK x \in Nat, y \in Nat, z \in Nat :
          x = upsertErrors' /\ y = mergeErrors' /\ z = crashes'
    BY <1>0
  <2>2. x + y + z = 0
    BY <2>1
  <2>3. x = 0 /\ y = 0 /\ z = 0
    BY <2>2
  <2>4. QED
    BY <2>1, <2>3
<1>2. (upsertErrors = 0 /\ mergeErrors = 0 /\ crashes = 0 /\ Exists(k)) => OnItsWay(k)
  BY DEF LatestInv
<1>3. ASSUME NEW m \in Msg, Submit(m) PROVE OnItsWay(k)'
  <2>1. UNCHANGED <<pg, ch, trace, aggRows, patchRows, upsertErrors, mergeErrors, crashes>>
    BY <1>3 DEF Submit
  <2>2. QED
    BY <1>1, <1>2, <2>1 DEF Exists, OnItsWay, Latest, UpdatedTraces
<1>4. ASSUME NEW w \in Worker, NEW b \in SUBSET queue, Flush(w, b) PROVE OnItsWay(k)'
  <2>1. /\ UNCHANGED <<pg, ch, upsertErrors, mergeErrors, crashes>> /\ trace[w] = "idle"
        /\ \A u \in Worker \ {w} : trace'[u] = trace[u] /\ UpdatedTraces(u)' = UpdatedTraces(u)
    BY <1>0, <1>4 DEF Flush, UpdatedTraces
  <2>2. QED
    BY <1>1, <1>2, <2>1, CarriedOn DEF Exists
<1>5. ASSUME NEW w \in Worker, FlushStep(w) PROVE OnItsWay(k)'
  <2>0. \A u \in Worker \ {w} : trace'[u] = trace[u] /\ UpdatedTraces(u)' = UpdatedTraces(u)
    BY <1>5, FlushFrame DEF UpdatedTraces
  <2>1. ASSUME NEW a \in todo[w], Upsert(w, a) PROVE OnItsWay(k)'
    <3> DEFINE row == Added(pg[a.key], a.msgs, Cardinality(a.msgs))
    <3>1. /\ a.key \in Key /\ patchRows[w] = {} /\ patchRows'[w] = {}
          /\ trace[w] = "run" /\ trace'[w] = "run"
      <4>1. /\ trace[w] = "run" /\ todo[w] # {} /\ a.key \in Key
            /\ UNCHANGED <<trace, patchRows>>
        BY <2>1, RowTypes DEF Upsert
      <4>2. patchRows[w] = {}
        BY <4>1 DEF LatestInv, Staged
      <4>3. QED
        BY <4>1, <4>2
    <3>2. /\ pg' = [pg EXCEPT ![a.key] = row] /\ UNCHANGED <<ch, upsertErrors, mergeErrors, crashes>>
          /\ aggRows'[w] = Return(aggRows[w], a.key, row)
      BY <1>0, <2>1 DEF Upsert
    <3> HIDE DEF row
    <3>3. UpdatedTraces(w) = aggRows[w] /\ UpdatedTraces(w)' = aggRows'[w]
      BY <3>1 DEF UpdatedTraces
    <3>4. CASE k = a.key
      <4>1. Latest(k)' \in aggRows'[w]
        BY <1>0, <3>2, <3>4 DEF Latest, Return
      <4>2. QED
        BY <3>1, <3>3, <4>1 DEF OnItsWay
    <3>5. CASE k # a.key
      <4>1. pg'[k] = pg[k] /\ OnItsWay(k)
        BY <1>0, <1>1, <1>2, <3>2, <3>5 DEF Exists
      <4>2. Latest(k) \in aggRows[w] => Latest(k) \in aggRows'[w]
        BY <3>2, <3>5 DEF Latest, Return
      <4>3. QED
        BY <2>0, <3>1, <3>2, <3>3, <4>1, <4>2, CarriedOn
    <3>6. QED
      BY <3>4, <3>5
  <2>2. ASSUME NEW m \in patches[w], Merge(w, m) PROVE OnItsWay(k)'
    <3> DEFINE row == Patched(pg[KeyOf(m)], m)
    <3> HIDE DEF row
    <3>1. /\ UNCHANGED <<ch, aggRows, upsertErrors, mergeErrors, crashes>>
          /\ trace[w] = "run" /\ trace'[w] = "run"
          /\ \/ UNCHANGED <<pg, patchRows>>
             \/ /\ pg' = [pg EXCEPT ![KeyOf(m)] = row]
                /\ patchRows'[w] = Return(patchRows[w], KeyOf(m), row)
      BY <1>0, <2>2 DEF Merge, row
    <3>2. CASE UNCHANGED <<pg, patchRows>>
      <4>1. UpdatedTraces(w)' = UpdatedTraces(w)
        BY <3>1, <3>2 DEF UpdatedTraces
      <4>2. QED
        BY <1>1, <1>2, <2>0, <3>1, <3>2, <4>1, CarriedOn DEF Exists
    <3>3. CASE /\ pg' = [pg EXCEPT ![KeyOf(m)] = row]
               /\ patchRows'[w] = Return(patchRows[w], KeyOf(m), row)
      <4>1. CASE k = KeyOf(m)
        <5>1. Latest(k)' \in patchRows'[w]
          BY <1>0, <3>3, <4>1 DEF Latest, Return
        <5>2. QED
          BY <3>1, <5>1 DEF OnItsWay, UpdatedTraces
      <4>2. CASE k # KeyOf(m)
        <5>1. pg'[k] = pg[k] /\ OnItsWay(k)
          BY <1>0, <1>1, <1>2, <3>1, <3>3, <4>2 DEF Exists
        <5>2. Latest(k) \in UpdatedTraces(w) => Latest(k) \in UpdatedTraces(w)'
          BY <3>1, <3>3, <4>2 DEF Latest, Return, UpdatedTraces
        <5>3. QED
          BY <2>0, <3>1, <5>1, <5>2, CarriedOn
      <4>3. QED
        BY <4>1, <4>2
    <3>4. QED
      BY <3>1, <3>2, <3>3
  <2>3. CASE InsertTraces(w)
    <3>1. /\ UNCHANGED <<pg, upsertErrors, mergeErrors, crashes>>
          /\ ch' = ch \cup UpdatedTraces(w)
      BY <2>3 DEF InsertTraces
    <3>2. QED
      BY <1>1, <1>2, <2>0, <3>1, CarriedOn DEF Exists
  <2>4. CASE InsertSpans(w) \/ InsertSpansError(w)
    <3>1. UNCHANGED <<pg, ch, trace, aggRows, patchRows, upsertErrors, mergeErrors, crashes>>
      BY <2>4 DEF InsertSpans, InsertSpansError
    <3>2. QED
      BY <1>1, <1>2, <3>1 DEF Exists, OnItsWay, Latest, UpdatedTraces
  <2>5. CASE JoinOk(w) \/ JoinFailed(w)
    <3>1. UNCHANGED <<pg, ch, upsertErrors, mergeErrors, crashes>> /\ trace[w] = "done"
      BY <2>5 DEF JoinOk, JoinFailed
    <3>2. QED
      BY <1>1, <1>2, <2>0, <3>1, CarriedOn DEF Exists
  <2>6. ASSUME NEW a \in todo[w], NEW landed \in BOOLEAN, UpsertError(w, a, landed)
        PROVE  FALSE
    BY <1>0, <1>1, <2>6 DEF UpsertError
  <2>7. ASSUME NEW m \in patches[w], NEW landed \in BOOLEAN, MergeError(w, m, landed)
        PROVE  FALSE
    BY <1>0, <1>1, <2>7 DEF MergeError
  <2>8. CASE InsertTracesError(w) \/ Crash(w)
    BY <1>0, <1>1, <2>8 DEF InsertTracesError, Crash
  <2>9. QED
    BY <1>5, <2>1, <2>2, <2>3, <2>4, <2>5, <2>6, <2>7, <2>8 DEF FlushStep
<1>6. CASE UNCHANGED vars
  <2>1. UNCHANGED <<pg, ch, trace, aggRows, patchRows, upsertErrors, mergeErrors, crashes>>
    BY <1>6 DEF vars
  <2>2. QED
    BY <1>1, <1>2, <2>1 DEF Exists, OnItsWay, Latest, UpdatedTraces
<1>7. QED
  BY <1>3, <1>4, <1>5, <1>6 DEF Next, FlushStep

\* When everything is settled and no trace branch failed, traces_replacing holds
\* the PostgreSQL rows, however often the span branch had batches redelivered.
THEOREM ClickhouseEndsUpEqual == Spec => []ClickhouseCatchesUp
<1>1. Init => LatestInv
  BY DEF Init, LatestInv, Staged, Exists, NoRow
<1>2. BatchInv /\ BatchInv' /\ LatestInv /\ [Next]_vars => LatestInv'
  <2> SUFFICES ASSUME BatchInv, BatchInv', LatestInv, [Next]_vars PROVE LatestInv'
    OBVIOUS
  <2>1. Staged'
    BY StagedStep DEF LatestInv
  <2>2. ASSUME (upsertErrors + mergeErrors + crashes = 0)'
        PROVE  \A k \in Key : Exists(k)' => OnItsWay(k)'
    BY <2>2, LatestStep
  <2>3. QED
    BY <2>1, <2>2 DEF LatestInv
<1>3. LatestInv => ClickhouseCatchesUp
  BY DEF LatestInv, ClickhouseCatchesUp, OnItsWay, Latest
<1>4. QED
  BY <1>1, <1>2, <1>3, BatchesFormed, PTL DEF Spec

-----------------------------------------------------------------------------
(* Counting: what a step adds to a row of record.                           *)

Upserted(w, k, a) ==
  /\ a \in todo[w] \ todo'[w] /\ k = a.key
  /\ pg'[k] = Added(pg[k], a.msgs, Cardinality(a.msgs))

PatchedBy(w, k, m) ==
  /\ m \in patches[w] \ patches'[w] /\ k = KeyOf(m) /\ Exists(k)
  /\ pg'[k] = Patched(pg[k], m)

\* A flush step changes a row by an aggregation or by a patch of its batch,
\* which it does not keep.
LEMMA RowStep ==
  ASSUME BatchInv, NEW w \in Worker, FlushStep(w), NEW k \in Key
  PROVE  \/ pg'[k] = pg[k]
         \/ \E a \in todo[w] : Upserted(w, k, a)
         \/ \E m \in patches[w] : PatchedBy(w, k, m)
<1> USE DEF flushVars, branchVars, queueVars
<1>0. /\ pg \in [Key -> Row] /\ todo \in [Worker -> SUBSET Aggregation]
      /\ patches \in [Worker -> SUBSET Patch]
  BY DEF BatchInv, TypeOK
<1>1. ASSUME NEW a \in todo[w], Upsert(w, a)
      PROVE  pg'[k] = pg[k] \/ Upserted(w, k, a)
  BY <1>0, <1>1 DEF Upsert, Upserted
<1>2. ASSUME NEW a \in todo[w], NEW landed \in BOOLEAN, UpsertError(w, a, landed)
      PROVE  pg'[k] = pg[k] \/ Upserted(w, k, a)
  BY <1>0, <1>2 DEF UpsertError, Upserted
<1>3. ASSUME NEW m \in patches[w], Merge(w, m)
      PROVE  pg'[k] = pg[k] \/ PatchedBy(w, k, m)
  BY <1>0, <1>3 DEF Merge, PatchedBy, Exists
<1>4. ASSUME NEW m \in patches[w], NEW landed \in BOOLEAN, MergeError(w, m, landed)
      PROVE  pg'[k] = pg[k] \/ PatchedBy(w, k, m)
  BY <1>0, <1>4 DEF MergeError, PatchedBy, Exists
<1>5. CASE \/ InsertTraces(w) \/ InsertTracesError(w) \/ InsertSpans(w)
           \/ InsertSpansError(w) \/ JoinOk(w) \/ JoinFailed(w) \/ Crash(w)
  BY <1>5 DEF InsertTraces, InsertTracesError, InsertSpans, InsertSpansError,
     JoinOk, JoinFailed, Crash
<1>6. QED
  BY <1>1, <1>2, <1>3, <1>4, <1>5 DEF FlushStep

\* What the two kinds of change do to the counts of a row.
LEMMA UpsertedCounts ==
  ASSUME BatchInv, NEW w \in Worker, NEW k \in Key, NEW a \in todo[w], Upserted(w, k, a)
  PROVE  \A m \in Msg : pg'[k].applied[m] = pg[k].applied[m] + (IF m \in a.msgs THEN 1 ELSE 0)
<1>1. pg[k] \in Row /\ Cardinality(a.msgs) \in Nat
  BY RowTypes DEF BatchInv, TypeOK
<1>2. QED
  BY <1>1, AddedType DEF Upserted

LEMMA PatchedCounts ==
  ASSUME BatchInv, NEW w \in Worker, NEW k \in Key, NEW p \in patches[w], PatchedBy(w, k, p)
  PROVE  \A m \in Msg : pg'[k].applied[m] = pg[k].applied[m] + (IF m = p THEN 1 ELSE 0)
<1>1. pg[k] \in Row
  BY DEF BatchInv, TypeOK
<1>2. QED
  BY <1>1, AddedType DEF PatchedBy, Patched

LEMMA CountType ==
  ASSUME TypeOK, NEW k \in Key, NEW m \in Msg
  PROVE  pg[k].applied[m] \in Nat /\ taken[m] \in Nat /\ pg[k].n \in Nat
BY DEF TypeOK, Row

LEMMA OtherSteps ==
  ASSUME BatchInv, [Next]_vars, ~\E w \in Worker : FlushStep(w)
  PROVE  UNCHANGED <<pg, ch, stored, signalled, acked, mergeErrors>>
BY DEF Next, FlushStep, Submit, Flush, vars, queueVars, boundVars

\* A trace row never shrinks.
LEMMA RowsGrow ==
  ASSUME BatchInv, [Next]_vars, NEW k \in Key, NEW m \in Msg
  PROVE  pg'[k].applied[m] >= pg[k].applied[m] /\ (Exists(k) => Exists(k)')
<1>1. pg[k].applied[m] \in Nat /\ pg[k].n \in Nat
  BY CountType DEF BatchInv
<1>2. ASSUME NEW w \in Worker, FlushStep(w)
      PROVE  pg'[k].applied[m] >= pg[k].applied[m] /\ (Exists(k) => Exists(k)')
  <2>1. CASE pg'[k] = pg[k]
    BY <1>1, <2>1 DEF Exists
  <2>2. ASSUME NEW a \in todo[w], Upserted(w, k, a)
        PROVE  pg'[k].applied[m] >= pg[k].applied[m] /\ pg'[k].n > pg[k].n
    <3>1. pg'[k].n > pg[k].n
      BY <2>2, LargerVersion DEF Upserted
    <3>2. QED
      BY <1>1, <2>2, <3>1, UpsertedCounts
  <2>3. ASSUME NEW p \in patches[w], PatchedBy(w, k, p)
        PROVE  pg'[k].applied[m] >= pg[k].applied[m] /\ pg'[k].n > pg[k].n
    <3>1. pg'[k].n > pg[k].n
      BY <2>3, LargerVersion DEF PatchedBy
    <3>2. QED
      BY <1>1, <2>3, <3>1, PatchedCounts
  <2>4. pg'[k].n > pg[k].n => Exists(k)'
    <3>1. PICK x \in Nat : x = pg'[k].n
      BY NextBatch DEF BatchInv, TypeOK, Row
    <3>2. QED
      BY <1>1, <3>1 DEF Exists
  <2>5. QED
    BY <1>2, <2>1, <2>2, <2>3, <2>4, RowStep
<1>3. CASE ~\E w \in Worker : FlushStep(w)
  BY <1>1, <1>3, OtherSteps DEF Exists
<1>4. QED
  BY <1>2, <1>3

-----------------------------------------------------------------------------
(* No stub rows.                                                            *)

\* merge_trace_metadata_batch never creates a trace: a row that exists counts
\* a real span.
THEOREM NoStubs == Spec => []NoStubTrace
<1>1. Init => NoStubTrace
  BY DEF Init, NoStubTrace, Exists, NoRow
<1>2. ASSUME BatchInv, NoStubTrace, [Next]_vars, NEW k \in Key, Exists(k)'
      PROVE  \E m \in Span : pg'[k].applied[m] > 0
  <2>0. ASSUME Exists(k) PROVE \E m \in Span : pg'[k].applied[m] > 0
    <3>1. PICK m \in Span : pg[k].applied[m] > 0
      BY <1>2, <2>0 DEF NoStubTrace
    <3>2. m \in Msg /\ pg'[k].applied[m] >= pg[k].applied[m] /\ pg[k].applied[m] \in Nat
      BY <1>2, RowsGrow, CountType DEF Msg, BatchInv
    <3>3. PICK x \in Nat : x = pg'[k].applied[m]
      BY <1>2, <3>2, NextBatch DEF BatchInv, TypeOK, Row
    <3>4. QED
      BY <3>1, <3>2, <3>3
  <2>1. CASE UNCHANGED pg
    BY <1>2, <2>0, <2>1 DEF Exists
  <2>2. ASSUME NEW w \in Worker, FlushStep(w), ~Exists(k)
        PROVE  \E m \in Span : pg'[k].applied[m] > 0
    <3>1. PICK a \in todo[w] : Upserted(w, k, a)
      BY <1>2, <2>2, RowStep DEF Exists, PatchedBy
    <3>2. PICK m \in a.msgs : TRUE
      BY <1>2 DEF BatchInv, Formed
    <3>3. m \in Span /\ m \in Msg
      BY <1>2, RowTypes DEF Msg
    <3>4. pg'[k].applied[m] = pg[k].applied[m] + 1 /\ pg[k].applied[m] \in Nat
      BY <1>2, <3>1, <3>2, <3>3, UpsertedCounts, CountType DEF BatchInv
    <3>5. QED
      BY <3>3, <3>4
  <2>3. QED
    BY <1>2, <2>0, <2>1, <2>2, OtherSteps
<1>3. BatchInv /\ NoStubTrace /\ [Next]_vars => NoStubTrace'
  BY <1>2 DEF NoStubTrace
<1>4. QED
  BY <1>1, <1>3, BatchesFormed, PTL DEF Spec

-----------------------------------------------------------------------------
(* A message is in one place at a time: not yet sent, ready in the queue, in *)
(* one worker's batch, or acknowledged.                                     *)

Exclusive ==
  /\ queue \subseteq sent /\ acked \subseteq sent
  /\ \A w \in Worker : held[w] \subseteq sent /\ held[w] \cap queue = {}
  /\ \A w, u \in Worker : w # u => held[w] \cap held[u] = {}

LEMMA ExclusiveStep ==
  ASSUME BatchInv, Exclusive, [Next]_vars
  PROVE  Exclusive'
<1> USE DEF BatchInv, TypeOK, Exclusive, inputVars, flushVars, branchVars, queueVars, boundVars
<1>1. ASSUME NEW m \in Msg, Submit(m) PROVE Exclusive'
  BY <1>1 DEF Submit
<1>2. ASSUME NEW w \in Worker, NEW b \in SUBSET queue, Flush(w, b) PROVE Exclusive'
  BY <1>2 DEF Flush
<1>3. ASSUME NEW w \in Worker, FlushStep(w) PROVE Exclusive'
  <2>1. CASE UNCHANGED <<sent, queue, held, acked>>
    BY <2>1
  <2>2. CASE JoinOk(w)
    BY <2>2 DEF JoinOk, Idle
  <2>3. CASE JoinFailed(w) \/ Crash(w)
    BY <2>3 DEF JoinFailed, Crash, Idle
  <2>4. QED
    BY <1>3, <2>1, <2>2, <2>3 DEF FlushStep, Upsert, UpsertError, Merge, MergeError,
       InsertTraces, InsertTracesError, InsertSpans, InsertSpansError
<1>4. CASE UNCHANGED vars
  BY <1>4 DEF vars
<1>5. QED
  BY <1>1, <1>2, <1>3, <1>4 DEF Next, FlushStep

-----------------------------------------------------------------------------
(* Each delivery counts a message once: what a batch has still to add has   *)
(* been added less often than it has been taken.                            *)

Uncounted(w) ==
  /\ \A a \in todo[w] : \A m \in a.msgs : pg[a.key].applied[m] < taken[m]
  /\ \A m \in patches[w] : pg[KeyOf(m)].applied[m] < taken[m]

CountInv == Exclusive /\ CountedPerDelivery /\ \A w \in Worker : Uncounted(w)

LEMMA FlushCounts ==
  ASSUME BatchInv, CountInv, NEW w \in Worker, NEW b \in SUBSET queue, Flush(w, b)
  PROVE  CountedPerDelivery' /\ \A u \in Worker : Uncounted(u)'
<1>1. /\ \A m \in b : m \in Msg /\ taken'[m] = taken[m] + 1
      /\ \A m \in Msg \ b : taken'[m] = taken[m]
      /\ \A m \in Msg : taken[m] \in Nat
  BY DEF Flush, BatchInv, TypeOK
<1>2. UNCHANGED pg
  BY DEF Flush
<1>3. CountedPerDelivery'
  BY <1>1, <1>2, CountType DEF CountInv, CountedPerDelivery, BatchInv
<1>4. ASSUME NEW u \in Worker PROVE Uncounted(u)'
  <2>1. CASE u = w
    <3>1. \A k \in Key, m \in b : pg'[k].applied[m] < taken'[m]
      BY <1>1, <1>2, CountType DEF CountInv, CountedPerDelivery, BatchInv
    <3>2. held'[u] = b
      BY <2>1 DEF Flush, BatchInv, TypeOK
    <3>3. Formed(u)' /\ TypeOK'
      BY FlushType DEF BatchInv
    <3>4. /\ \A a \in todo'[u] : a.key \in Key /\ a.msgs \subseteq b
          /\ patches'[u] \subseteq b /\ \A m \in b : KeyOf(m) \in Key
      BY <1>1, <3>2, <3>3, KeyType DEF Formed, TypeOK, Aggregation
    <3>5. QED
      BY <3>1, <3>4 DEF Uncounted, KeyOf
  <2>2. CASE u # w
    <3>1. todo'[u] = todo[u] /\ patches'[u] = patches[u]
      BY <2>2 DEF Flush, BatchInv, TypeOK
    <3>2. /\ \A a \in todo[u] : a.msgs \subseteq held[u]
          /\ patches[u] \subseteq held[u] /\ held[u] \cap b = {} /\ held[u] \subseteq Msg
      BY DEF BatchInv, Formed, CountInv, Exclusive, TypeOK
    <3>3. \A m \in held[u] : taken'[m] = taken[m]
      BY <1>1, <3>2
    <3>4. QED
      BY <1>2, <3>1, <3>2, <3>3 DEF Uncounted, CountInv, KeyOf
  <2>3. QED
    BY <2>1, <2>2
<1>5. QED
  BY <1>3, <1>4

\* The message a flush step counts is one it had not counted yet, and no other
\* worker has it in its batch.
LEMMA StepCounts ==
  ASSUME BatchInv, CountInv, NEW w \in Worker, FlushStep(w), NEW k \in Key, NEW m \in Msg
  PROVE  \/ pg'[k].applied[m] = pg[k].applied[m]
         \/ /\ pg'[k].applied[m] = pg[k].applied[m] + 1
            /\ pg[k].applied[m] < taken[m]
            /\ m \in held[w]
            /\ \A a \in todo'[w] : a.key = k => m \notin a.msgs
            /\ m \notin patches'[w]
<1>1. /\ \A a \in todo[w] : a.msgs \subseteq held[w] /\ a.msgs \subseteq Span
      /\ patches[w] \subseteq held[w] /\ patches[w] \subseteq Patch
      /\ \A a, c \in todo[w] : a.key = c.key => a = c
      /\ Span \cap Patch = {} /\ pg[k].applied[m] \in Nat
      /\ todo'[w] \subseteq todo[w] /\ patches'[w] \subseteq patches[w]
  BY RowTypes, CountType, FlushFrame, StatsAssumption DEF BatchInv, Formed, TypeOK
<1>2. ASSUME NEW a \in todo[w], Upserted(w, k, a), m \in a.msgs
      PROVE  /\ pg'[k].applied[m] = pg[k].applied[m] + 1
             /\ pg[k].applied[m] < taken[m]
             /\ m \in held[w] /\ m \notin patches'[w]
             /\ \A c \in todo'[w] : c.key = k => m \notin c.msgs
  <2>1. pg'[k].applied[m] = pg[k].applied[m] + 1
    BY <1>2, UpsertedCounts
  <2>2. pg[k].applied[m] < taken[m]
    BY <1>2 DEF CountInv, Uncounted, Upserted
  <2>3. QED
    BY <1>1, <1>2, <2>1, <2>2 DEF Upserted
<1>3. ASSUME NEW p \in patches[w], PatchedBy(w, k, p), m = p
      PROVE  /\ pg'[k].applied[m] = pg[k].applied[m] + 1
             /\ pg[k].applied[m] < taken[m]
             /\ m \in held[w] /\ m \notin patches'[w]
             /\ \A c \in todo'[w] : c.key = k => m \notin c.msgs
  <2>1. pg'[k].applied[m] = pg[k].applied[m] + 1
    BY <1>3, PatchedCounts
  <2>2. pg[k].applied[m] < taken[m]
    BY <1>3 DEF CountInv, Uncounted, PatchedBy
  <2>3. QED
    BY <1>1, <1>3, <2>1, <2>2 DEF PatchedBy
<1>4. ASSUME NEW a \in todo[w], Upserted(w, k, a), m \notin a.msgs
      PROVE  pg'[k].applied[m] = pg[k].applied[m]
  BY <1>1, <1>4, UpsertedCounts
<1>5. ASSUME NEW p \in patches[w], PatchedBy(w, k, p), m # p
      PROVE  pg'[k].applied[m] = pg[k].applied[m]
  BY <1>1, <1>5, PatchedCounts
<1>6. QED
  BY <1>2, <1>3, <1>4, <1>5, RowStep

LEMMA FlushStepCounts ==
  ASSUME BatchInv, CountInv, NEW w \in Worker, FlushStep(w)
  PROVE  CountedPerDelivery' /\ \A u \in Worker : Uncounted(u)'
<1>1. UNCHANGED taken
  BY DEF FlushStep, Upsert, UpsertError, Merge, MergeError, InsertTraces,
     InsertTracesError, InsertSpans, InsertSpansError, JoinOk, JoinFailed, Crash, queueVars
<1>2. ASSUME NEW k \in Key, NEW m \in Msg PROVE pg'[k].applied[m] <= taken'[m]
  BY <1>1, StepCounts, CountType DEF CountInv, CountedPerDelivery, BatchInv
<1>3. ASSUME NEW u \in Worker, NEW k \in Key, NEW m \in held[u],
             pg[k].applied[m] < taken[m],
             \/ \E a \in todo'[u] : a.key = k /\ m \in a.msgs
             \/ m \in patches'[u]
      PROVE  pg'[k].applied[m] < taken'[m]
  <2>1. m \in Msg
    BY DEF BatchInv, TypeOK
  <2>2. u # w => m \notin held[w]
    BY DEF CountInv, Exclusive
  <2>3. pg'[k].applied[m] = pg[k].applied[m]
    BY <1>3, <2>1, <2>2, StepCounts
  <2>4. QED
    BY <1>1, <1>3, <2>3
<1>4. ASSUME NEW u \in Worker PROVE Uncounted(u)'
  <2>1. todo'[u] \subseteq todo[u] /\ patches'[u] \subseteq patches[u]
    BY FlushFrame
  <2>2. /\ \A a \in todo[u] : a.msgs \subseteq held[u] /\ a.key \in Key
        /\ patches[u] \subseteq held[u]
        /\ \A m \in patches[u] : KeyOf(m) \in Key
    BY RowTypes DEF BatchInv, Formed
  <2>3. ASSUME NEW a \in todo'[u], NEW m \in a.msgs PROVE pg'[a.key].applied[m] < taken'[m]
    <3>1. pg[a.key].applied[m] < taken[m]
      BY <2>1, <2>3 DEF CountInv, Uncounted
    <3>2. QED
      BY <1>3, <2>1, <2>2, <2>3, <3>1
  <2>4. ASSUME NEW m \in patches'[u] PROVE pg'[KeyOf(m)].applied[m] < taken'[m]
    <3>1. pg[KeyOf(m)].applied[m] < taken[m]
      BY <2>1, <2>4 DEF CountInv, Uncounted
    <3>2. QED
      BY <1>3, <2>1, <2>2, <2>4, <3>1
  <2>5. QED
    BY <2>3, <2>4 DEF Uncounted, KeyOf
<1>5. QED
  BY <1>2, <1>4 DEF CountedPerDelivery

\* Messages are in one place at a time, and what a batch has still to add has
\* been counted less often than it has been delivered.
THEOREM Counted == Spec => []CountInv
<1>1. Init => CountInv
  BY DEF Init, CountInv, Exclusive, CountedPerDelivery, Uncounted, NoRow
<1>2. ASSUME BatchInv, CountInv, [Next]_vars
      PROVE  CountedPerDelivery' /\ \A u \in Worker : Uncounted(u)'
  <2>1. ASSUME NEW m \in Msg, Submit(m)
        PROVE  CountedPerDelivery' /\ \A u \in Worker : Uncounted(u)'
    BY <1>2, <2>1 DEF Submit, CountInv, CountedPerDelivery, Uncounted, KeyOf, flushVars
  <2>2. CASE UNCHANGED vars
    BY <1>2, <2>2 DEF vars, CountInv, CountedPerDelivery, Uncounted, KeyOf, flushVars,
       queueVars
  <2>3. QED
    BY <1>2, <2>1, <2>2, FlushCounts, FlushStepCounts DEF Next, FlushStep
<1>3. BatchInv /\ CountInv /\ [Next]_vars => CountInv'
  BY <1>2, ExclusiveStep DEF CountInv
<1>4. QED
  BY <1>1, <1>3, BatchesFormed, PTL DEF Spec

\* Overcounting is bounded by redeliveries: no delivery adds a message twice
\* (upsert_trace_statistics_batch, merge_trace_metadata_batch).
THEOREM CountedOnce == Spec => []CountedPerDelivery
<1>1. CountInv => CountedPerDelivery
  BY DEF CountInv
<1>2. QED
  BY <1>1, Counted, PTL

-----------------------------------------------------------------------------
(* Signals: a flush is joined when its recordable spans are stored, and what *)
(* a row counts has been published and so is stored, or not yet let go.     *)

\* A message stays in the queue or in a batch until it is acknowledged.
Kept == \A m \in sent : m \in queue \/ m \in acked \/ \E w \in Worker : m \in held[w]

\* The span branch succeeds, and its batch is acknowledged, with spans stored.
Readable ==
  /\ acked \cap Recordable \subseteq stored
  /\ \A w \in Worker :
       trace[w] # "idle" /\ span[w] = "ok" => held[w] \cap Recordable \subseteq stored

\* Rows of record and rows returned by the upserts count published messages.
CountsSent ==
  /\ \A k \in Key, m \in Msg : pg[k].applied[m] > 0 => m \in sent
  /\ \A w \in Worker : \A r \in aggRows[w] : \A m \in Msg :
       r.row.applied[m] > 0 => m \in sent

Checked ==
  \A c \in signalled : c.counted \subseteq sent /\ c.own \cap Recordable \subseteq stored

SignalInv == Kept /\ Readable /\ CountsSent /\ Checked

\* A step of a flush publishes nothing, and takes no span out of ClickHouse.
LEMMA SentStored ==
  ASSUME NEW w \in Worker, FlushStep(w)
  PROVE  sent' = sent /\ stored \subseteq stored'
<1> USE DEF inputVars
<1>1. ASSUME NEW a \in todo[w], Upsert(w, a) PROVE sent' = sent /\ stored' = stored
  BY <1>1 DEF Upsert
<1>2. ASSUME NEW a \in todo[w], NEW landed \in BOOLEAN, UpsertError(w, a, landed)
      PROVE  sent' = sent /\ stored' = stored
  BY <1>2 DEF UpsertError
<1>3. ASSUME NEW m \in patches[w], Merge(w, m) PROVE sent' = sent /\ stored' = stored
  BY <1>3 DEF Merge
<1>4. ASSUME NEW m \in patches[w], NEW landed \in BOOLEAN, MergeError(w, m, landed)
      PROVE  sent' = sent /\ stored' = stored
  BY <1>4 DEF MergeError
<1>5. CASE \/ InsertTraces(w) \/ InsertTracesError(w) \/ InsertSpans(w)
           \/ InsertSpansError(w) \/ JoinOk(w) \/ JoinFailed(w) \/ Crash(w)
  BY <1>5 DEF InsertTraces, InsertTracesError, InsertSpans, InsertSpansError,
     JoinOk, JoinFailed, Crash
<1>6. QED
  BY <1>1, <1>2, <1>3, <1>4, <1>5 DEF FlushStep

LEMMA KeptStep ==
  ASSUME BatchInv, Kept, [Next]_vars
  PROVE  Kept'
<1> USE DEF BatchInv, TypeOK, Kept, inputVars, flushVars, branchVars, queueVars
<1>1. ASSUME NEW m \in Msg, Submit(m) PROVE Kept'
  BY <1>1 DEF Submit
<1>2. ASSUME NEW w \in Worker, NEW b \in SUBSET queue, Flush(w, b) PROVE Kept'
  <2>1. \A u \in Worker \ {w} : held'[u] = held[u]
    BY <1>2 DEF Flush
  <2>2. held[w] = {}
    BY <1>2 DEF Flush, Formed
  <2>3. sent' = sent /\ acked' = acked /\ queue' = queue \ b /\ held'[w] = b
    BY <1>2 DEF Flush
  <2>4. QED
    BY <2>1, <2>2, <2>3
<1>3. ASSUME NEW w \in Worker, FlushStep(w) PROVE Kept'
  <2>1. CASE UNCHANGED <<sent, queue, held, acked>>
    BY <2>1
  <2>2. CASE JoinOk(w)
    BY <2>2 DEF JoinOk, Idle
  <2>3. CASE JoinFailed(w) \/ Crash(w)
    BY <2>3 DEF JoinFailed, Crash, Idle
  <2>4. QED
    BY <1>3, <2>1, <2>2, <2>3 DEF FlushStep, Upsert, UpsertError, Merge, MergeError,
       InsertTraces, InsertTracesError, InsertSpans, InsertSpansError
<1>4. CASE UNCHANGED vars
  BY <1>4 DEF vars
<1>5. QED
  BY <1>1, <1>2, <1>3, <1>4 DEF Next, FlushStep

LEMMA ReadableStep ==
  ASSUME BatchInv, Readable, NEW w \in Worker, FlushStep(w)
  PROVE  Readable'
<1> USE DEF flushVars, branchVars, queueVars
<1>0. /\ held \in [Worker -> SUBSET Msg]
      /\ span \in [Worker -> {"idle", "run", "ok", "failed"}]
      /\ trace \in [Worker -> {"idle", "run", "done"}]
  BY DEF BatchInv, TypeOK
<1>1. stored \subseteq stored'
  BY SentStored
<1>2. acked' \cap Recordable \subseteq stored'
  <2>1. CASE acked' = acked
    BY <1>1, <2>1 DEF Readable
  <2>2. CASE JoinOk(w)
    BY <2>2 DEF JoinOk, Readable
  <2>3. QED
    BY <2>1, <2>2 DEF FlushStep, Upsert, UpsertError, Merge, MergeError, InsertTraces,
       InsertTracesError, InsertSpans, InsertSpansError, JoinFailed, Crash
<1>3. trace'[w] # "idle" /\ span'[w] = "ok" => held'[w] \cap Recordable \subseteq stored'
  <2>1. CASE InsertSpans(w)
    BY <2>1 DEF InsertSpans
  <2>2. CASE InsertSpansError(w)
    BY <1>0, <2>2 DEF InsertSpansError
  <2>3. CASE JoinOk(w) \/ JoinFailed(w) \/ Crash(w)
    BY <1>0, <2>3 DEF JoinOk, JoinFailed, Crash, Idle
  <2>4. CASE UNCHANGED <<span, held, stored>> /\ trace[w] # "idle"
    BY <2>4 DEF Readable
  <2>5. QED
    BY <2>1, <2>2, <2>3, <2>4 DEF FlushStep, Upsert, UpsertError, Merge, MergeError,
       InsertTraces, InsertTracesError
<1>4. ASSUME NEW u \in Worker, u # w
      PROVE  trace'[u] # "idle" /\ span'[u] = "ok" => held'[u] \cap Recordable \subseteq stored'
  <2>1. held'[u] = held[u] /\ trace'[u] = trace[u] /\ span'[u] = span[u]
    BY <1>4, FlushFrame
  <2>2. QED
    BY <1>1, <2>1 DEF Readable
<1>5. QED
  BY <1>2, <1>3, <1>4 DEF Readable

\* A row an upsert or a merge adds to counts messages of the batch, and those
\* are published.
LEMMA CountsSentStep ==
  ASSUME BatchInv, Exclusive, CountsSent, NEW w \in Worker, FlushStep(w)
  PROVE  CountsSent'
<1> USE DEF flushVars, branchVars, queueVars
<1>1. sent' = sent /\ held[w] \subseteq sent
  BY SentStored DEF Exclusive
<1>2. /\ aggRows \in [Worker -> Returned]
      /\ \A a \in todo[w] : a.key \in Key /\ a.msgs \subseteq held[w]
      /\ patches[w] \subseteq held[w]
  BY RowTypes DEF BatchInv, TypeOK, Formed
<1>3. ASSUME NEW k \in Key, NEW m \in Msg, pg'[k].applied[m] > 0 PROVE m \in sent
  <2>0. pg[k].applied[m] \in Nat
    BY CountType DEF BatchInv
  <2>1. CASE pg'[k] = pg[k]
    BY <1>3, <2>1 DEF CountsSent
  <2>2. ASSUME NEW a \in todo[w], Upserted(w, k, a) PROVE m \in sent
    <3>1. pg'[k].applied[m] = pg[k].applied[m] + (IF m \in a.msgs THEN 1 ELSE 0)
      BY <2>2, UpsertedCounts
    <3>2. QED
      BY <1>1, <1>2, <1>3, <2>0, <3>1 DEF CountsSent
  <2>3. ASSUME NEW p \in patches[w], PatchedBy(w, k, p) PROVE m \in sent
    <3>1. pg'[k].applied[m] = pg[k].applied[m] + (IF m = p THEN 1 ELSE 0)
      BY <2>3, PatchedCounts
    <3>2. QED
      BY <1>1, <1>2, <1>3, <2>0, <3>1 DEF CountsSent
  <2>4. QED
    BY <2>1, <2>2, <2>3, RowStep
<1>4. ASSUME NEW r \in aggRows'[w], NEW m \in Msg, r.row.applied[m] > 0 PROVE m \in sent
  <2>1. ASSUME NEW a \in todo[w], Upsert(w, a) PROVE m \in sent
    <3>1. a.key \in Key /\ pg'[a.key] = Added(pg[a.key], a.msgs, Cardinality(a.msgs))
      BY <1>2, <2>1 DEF Upsert, BatchInv, TypeOK
    <3>2. r \in aggRows[w] \/ r.row = pg'[a.key]
      BY <1>2, <2>1, <3>1 DEF Upsert, Return
    <3>3. QED
      BY <1>3, <1>4, <3>1, <3>2 DEF CountsSent
  <2>2. ASSUME NEW a \in todo[w], NEW landed \in BOOLEAN, UpsertError(w, a, landed)
        PROVE  m \in sent
    BY <1>2, <1>4, <2>2 DEF UpsertError
  <2>3. CASE JoinOk(w) \/ JoinFailed(w) \/ Crash(w)
    BY <1>2, <1>4, <2>3 DEF JoinOk, JoinFailed, Crash, Idle
  <2>4. CASE aggRows' = aggRows
    BY <1>4, <2>4 DEF CountsSent
  <2>5. QED
    BY <2>1, <2>2, <2>3, <2>4 DEF FlushStep, Merge, MergeError, InsertTraces,
       InsertTracesError, InsertSpans, InsertSpansError
<1>5. \A u \in Worker \ {w} : aggRows'[u] = aggRows[u]
  BY FlushFrame
<1>6. QED
  BY <1>1, <1>3, <1>4, <1>5 DEF CountsSent

LEMMA CheckedStep ==
  ASSUME BatchInv, Readable, CountsSent, Checked, NEW w \in Worker, FlushStep(w)
  PROVE  Checked'
<1> USE DEF flushVars, branchVars, queueVars
<1>1. sent' = sent /\ stored \subseteq stored'
  BY SentStored
<1>2. CASE UNCHANGED signalled
  BY <1>1, <1>2 DEF Checked
<1>3. CASE JoinOk(w)
  <2>1. trace[w] # "idle" /\ span[w] = "ok" /\ signalled' = signalled \cup Signals(w)
    BY <1>3 DEF JoinOk
  <2>2. \A c \in Signals(w) : c.counted \subseteq sent /\ c.own \cap Recordable \subseteq stored
    BY <2>1 DEF Signals, Readable, CountsSent
  <2>3. QED
    BY <1>1, <2>1, <2>2 DEF Checked
<1>4. QED
  BY <1>2, <1>3 DEF FlushStep, Upsert, UpsertError, Merge, MergeError, InsertTraces,
     InsertTracesError, InsertSpans, InsertSpansError, JoinFailed, Crash

\* Signals are checked on traces whose spans can be read (process_span_messages
\* pushes them after the join), or are still on their way to ClickHouse.
THEOREM SignalsAfterSpans == Spec => []SignalsSeeSpans
<1>1. Init => SignalInv
  BY DEF Init, SignalInv, Kept, Readable, CountsSent, Checked, NoRow
<1>2. ASSUME BatchInv, CountInv, SignalInv, [Next]_vars PROVE SignalInv'
  <2>1. ASSUME NEW m \in Msg, Submit(m) PROVE (Readable /\ CountsSent /\ Checked)'
    BY <1>2, <2>1 DEF Submit, SignalInv, Readable, CountsSent, Checked, flushVars, branchVars
  <2>2. ASSUME NEW w \in Worker, NEW b \in SUBSET queue, Flush(w, b)
        PROVE  (Readable /\ CountsSent /\ Checked)'
    BY <1>2, <2>2 DEF Flush, SignalInv, Readable, CountsSent, Checked, BatchInv, TypeOK,
       inputVars
  <2>3. CASE UNCHANGED vars
    BY <1>2, <2>3 DEF vars, SignalInv, Kept, Readable, CountsSent, Checked, inputVars, flushVars,
       branchVars, queueVars
  <2>4. ASSUME NEW w \in Worker, FlushStep(w) PROVE (Readable /\ CountsSent /\ Checked)'
    BY <1>2, <2>4, ReadableStep, CountsSentStep, CheckedStep DEF SignalInv, CountInv
  <2>5. QED
    BY <1>2, <2>1, <2>2, <2>3, <2>4, KeptStep DEF SignalInv, Next, FlushStep
<1>3. SignalInv => SignalsSeeSpans
  <2>1. ASSUME SignalInv, NEW c \in signalled, NEW m \in Recordable \ stored
        PROVE  m \notin c.own /\ (m \in c.counted => m \in queue \/ \E w \in Worker : m \in held[w])
    <3>1. c.counted \subseteq sent /\ m \notin c.own /\ m \notin acked
      BY <2>1 DEF SignalInv, Readable, Checked
    <3>2. QED
      BY <2>1, <3>1 DEF SignalInv, Kept
  <2>2. QED
    BY <2>1 DEF SignalsSeeSpans
<1>4. QED
  BY <1>1, <1>2, <1>3, BatchesFormed, Counted, PTL DEF Spec

-----------------------------------------------------------------------------
(* Patches: one whose trace existed is merged or still waiting.             *)

Waiting(w, m) == m \in patches[w] \/ pg[KeyOf(m)].applied[m] > 0

PatchInv ==
  /\ Exclusive
  /\ checked \subseteq sent
  /\ \A m \in checked : Exists(KeyOf(m))
  /\ PatchNotDropped
  /\ mergeErrors = 0 => \A w \in Worker : \A m \in held[w] \cap checked : Waiting(w, m)

LEMMA AppliedStays ==
  ASSUME BatchInv, [Next]_vars, NEW m \in Msg, pg[KeyOf(m)].applied[m] > 0
  PROVE  pg'[KeyOf(m)].applied[m] > 0
<1>1. KeyOf(m) \in Key
  BY KeyType
<1>2. PICK x \in Nat, y \in Nat : x = pg[KeyOf(m)].applied[m] /\ y = pg'[KeyOf(m)].applied[m]
  BY <1>1, NextBatch DEF BatchInv, TypeOK, Row
<1>3. x > 0 /\ y >= x
  BY <1>1, <1>2, RowsGrow
<1>4. y > 0
  BY <1>3
<1>5. QED
  BY <1>2, <1>4

\* A patch leaves its batch merged, or because a merge failed, or with its worker.
LEMMA PatchLeaves ==
  ASSUME BatchInv, PatchInv, NEW w \in Worker, FlushStep(w), mergeErrors' = 0,
         held'[w] # {}, NEW m \in held[w] \cap checked
  PROVE  Waiting(w, m)'
<1> USE DEF flushVars, branchVars, queueVars, inputVars
<1>0. /\ m \in Msg /\ m \in Patch /\ Exists(KeyOf(m)) /\ KeyOf(m) \in Key
      /\ pg \in [Key -> Row] /\ mergeErrors \in Nat
      /\ patches \in [Worker -> SUBSET Patch]
      /\ held \in [Worker -> SUBSET Msg]
  BY KeyType DEF BatchInv, TypeOK, PatchInv
<1>1. CASE pg[KeyOf(m)].applied[m] > 0
  <2>1. [Next]_vars
    BY DEF Next, FlushStep
  <2>2. QED
    BY <1>0, <1>1, <2>1, AppliedStays DEF Waiting, KeyOf
<1>2. ASSUME NEW p \in patches[w], Merge(w, p), m \in patches[w] PROVE Waiting(w, m)'
  <2>1. CASE m = p
    <3>1. pg' = [pg EXCEPT ![KeyOf(m)] = Patched(pg[KeyOf(m)], m)]
      BY <1>0, <1>2, <2>1 DEF Merge
    <3>2. pg[KeyOf(m)] \in Row /\ pg[KeyOf(m)].applied[m] \in Nat
      BY <1>0, CountType DEF BatchInv
    <3>3. Patched(pg[KeyOf(m)], m).applied[m] = pg[KeyOf(m)].applied[m] + 1
      BY <1>0, <3>2, AddedType DEF Patched
    <3>4. pg'[KeyOf(m)].applied[m] > 0
      BY <1>0, <3>1, <3>2, <3>3
    <3>5. QED
      BY <3>4 DEF Waiting, KeyOf
  <2>2. CASE m # p
    BY <1>0, <1>2, <2>2 DEF Merge, Waiting
  <2>3. QED
    BY <2>1, <2>2
<1>3. CASE UNCHANGED patches /\ m \in patches[w]
  BY <1>3 DEF Waiting
<1>4. ASSUME NEW p \in patches[w], NEW landed \in BOOLEAN, MergeError(w, p, landed)
      PROVE  FALSE
  BY <1>0, <1>4 DEF MergeError
<1>5. CASE JoinOk(w) \/ JoinFailed(w) \/ Crash(w)
  BY <1>0, <1>5 DEF JoinOk, JoinFailed, Crash, Idle
<1>6. mergeErrors = 0
  BY <1>0 DEF FlushStep, Upsert, UpsertError, Merge, MergeError, InsertTraces,
     InsertTracesError, InsertSpans, InsertSpansError, JoinOk, JoinFailed, Crash, boundVars
<1>7. Waiting(w, m)
  BY <1>6 DEF PatchInv
<1>8. QED
  BY <1>1, <1>2, <1>3, <1>4, <1>5, <1>7 DEF Waiting, FlushStep, Upsert, UpsertError,
     InsertTraces, InsertTracesError, InsertSpans, InsertSpansError

LEMMA PatchStep ==
  ASSUME BatchInv, PatchInv, NEW w \in Worker, FlushStep(w)
  PROVE  /\ UNCHANGED checked /\ UNCHANGED sent
         /\ PatchNotDropped'
         /\ mergeErrors' = 0 =>
              \A u \in Worker : \A m \in held'[u] \cap checked' : Waiting(u, m)'
<1> USE DEF flushVars, branchVars, queueVars, inputVars
<1>0. [Next]_vars /\ checked \subseteq Msg /\ mergeErrors \in Nat
  BY DEF Next, FlushStep, BatchInv, TypeOK, Msg
<1>1. UNCHANGED checked /\ UNCHANGED sent
  BY DEF FlushStep, Upsert, UpsertError, Merge, MergeError, InsertTraces,
     InsertTracesError, InsertSpans, InsertSpansError, JoinOk, JoinFailed, Crash
<1>2. mergeErrors' = 0 => mergeErrors = 0
  BY <1>0 DEF FlushStep, Upsert, UpsertError, Merge, MergeError, InsertTraces,
     InsertTracesError, InsertSpans, InsertSpansError, JoinOk, JoinFailed, Crash, boundVars
<1>3. ASSUME mergeErrors' = 0, NEW m \in acked' \cap checked'
      PROVE  pg'[KeyOf(m)].applied[m] > 0
  <2>1. pg[KeyOf(m)].applied[m] > 0
    <3>1. CASE m \in acked
      BY <1>1, <1>2, <1>3, <3>1 DEF PatchInv, PatchNotDropped
    <3>2. CASE m \notin acked
      <4>1. JoinOk(w) /\ m \in held[w]
        BY <1>3, <3>2 DEF FlushStep, Upsert, UpsertError, Merge, MergeError, InsertTraces,
           InsertTracesError, InsertSpans, InsertSpansError, JoinOk, JoinFailed, Crash
      <4>2. patches[w] = {}
        BY <4>1 DEF JoinOk, BatchInv, Formed
      <4>3. QED
        BY <1>1, <1>2, <1>3, <4>1, <4>2 DEF PatchInv, Waiting
    <3>3. QED
      BY <3>1, <3>2
  <2>2. QED
    BY <1>0, <1>1, <1>3, <2>1, AppliedStays
<1>4. ASSUME mergeErrors' = 0, NEW u \in Worker, NEW m \in held'[u] \cap checked'
      PROVE  Waiting(u, m)'
  <2>1. CASE u = w
    <3>1. m \in held[w] \cap checked /\ held'[w] # {}
      BY <1>1, <1>4, <2>1, FlushFrame
    <3>2. QED
      BY <1>4, <2>1, <3>1, PatchLeaves
  <2>2. CASE u # w
    <3>1. held'[u] = held[u] /\ patches'[u] = patches[u]
      BY <2>2, FlushFrame
    <3>2. m \in Msg /\ Waiting(u, m)
      BY <1>0, <1>1, <1>2, <1>4, <3>1 DEF PatchInv
    <3>3. QED
      BY <1>0, <3>1, <3>2, AppliedStays DEF Waiting, KeyOf
  <2>3. QED
    BY <2>1, <2>2
<1>5. QED
  BY <1>1, <1>3, <1>4 DEF PatchNotDropped, KeyOf

\* "an aggregation upsert error must not drop B's patch" (process_span_messages):
\* acknowledged patches of traces that existed have been merged.
THEOREM PatchesMerged == Spec => []PatchNotDropped
<1>1. Init => PatchInv
  BY DEF Init, PatchInv, Exclusive, PatchNotDropped
<1>2. ASSUME BatchInv, PatchInv, [Next]_vars PROVE PatchInv'
  <2>0. Exclusive' /\ \A m \in Msg : Exists(KeyOf(m)) => Exists(KeyOf(m))'
    BY <1>2, ExclusiveStep, RowsGrow, KeyType DEF PatchInv
  <2>1. ASSUME NEW p \in Msg, Submit(p) PROVE PatchInv'
    <3>1. UNCHANGED <<pg, patches, held, acked, mergeErrors>>
      BY <2>1 DEF Submit, flushVars, boundVars
    <3>2. checked' \subseteq sent' /\ \A m \in checked' : m = p \/ m \in checked
      BY <1>2, <2>1 DEF Submit, PatchInv
    <3>3. p \notin acked /\ \A u \in Worker : p \notin held[u]
      BY <1>2, <2>1 DEF Submit, PatchInv, Exclusive
    <3>4. \A m \in checked' : Exists(KeyOf(m))'
      BY <1>2, <2>1, <3>1 DEF Submit, PatchInv, Exists, KeyOf
    <3>5. PatchNotDropped'
      BY <1>2, <3>1, <3>2, <3>3 DEF PatchInv, PatchNotDropped, KeyOf
    <3>6. mergeErrors' = 0 =>
            \A u \in Worker : \A m \in held'[u] \cap checked' : Waiting(u, m)'
      BY <1>2, <3>1, <3>2, <3>3 DEF PatchInv, Waiting, KeyOf
    <3>7. QED
      BY <2>0, <3>2, <3>4, <3>5, <3>6 DEF PatchInv
  <2>2. ASSUME NEW w \in Worker, NEW b \in SUBSET queue, Flush(w, b) PROVE PatchInv'
    <3>1. UNCHANGED <<pg, acked, checked, sent, mergeErrors>>
      BY <2>2 DEF Flush, inputVars, boundVars
    <3>2. ASSUME mergeErrors' = 0, NEW u \in Worker, NEW m \in held'[u] \cap checked'
          PROVE  Waiting(u, m)'
      <4>1. CASE u = w
        <5>1. held'[w] = b /\ patches'[w] = b \cap Patch /\ checked \subseteq Patch
          BY <1>2, <2>2 DEF Flush, BatchInv, TypeOK
        <5>2. QED
          BY <3>1, <3>2, <4>1, <5>1 DEF Waiting
      <4>2. CASE u # w
        <5>1. held'[u] = held[u] /\ patches'[u] = patches[u]
          BY <1>2, <2>2, <4>2 DEF Flush, BatchInv, TypeOK
        <5>2. QED
          BY <1>2, <3>1, <3>2, <5>1 DEF PatchInv, Waiting, KeyOf
      <4>3. QED
        BY <4>1, <4>2
    <3>3. PatchNotDropped' /\ \A m \in checked' : Exists(KeyOf(m))'
      BY <1>2, <3>1 DEF PatchInv, PatchNotDropped, Exists, KeyOf
    <3>4. QED
      BY <1>2, <2>0, <3>1, <3>2, <3>3 DEF PatchInv
  <2>3. ASSUME NEW w \in Worker, FlushStep(w) PROVE PatchInv'
    <3>1. UNCHANGED <<checked, sent>>
      BY <1>2, <2>3, PatchStep
    <3>2. \A m \in checked' : Exists(KeyOf(m))'
      BY <1>2, <2>0, <3>1 DEF PatchInv, BatchInv, TypeOK, Msg, KeyOf
    <3>3. QED
      BY <1>2, <2>0, <2>3, <3>1, <3>2, PatchStep DEF PatchInv
  <2>4. CASE UNCHANGED vars
    <3>1. UNCHANGED <<pg, patches, held, acked, mergeErrors, checked, sent>>
      BY <2>4 DEF vars, flushVars, queueVars, boundVars, inputVars
    <3>2. QED
      BY <1>2, <2>0, <3>1 DEF PatchInv, PatchNotDropped, Waiting, Exists, KeyOf
  <2>5. QED
    BY <1>2, <2>1, <2>2, <2>3, <2>4 DEF Next, FlushStep
<1>3. PatchInv => PatchNotDropped
  BY DEF PatchInv
<1>4. QED
  BY <1>1, <1>2, <1>3, BatchesFormed, PTL DEF Spec
=============================================================================
