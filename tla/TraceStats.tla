----------------------------- MODULE TraceStats -----------------------------
(***************************************************************************)
(* Trace statistics: the branch of process_span_messages that aggregates a *)
(* batch by trace, adds it to the traces rows of PostgreSQL, applies the   *)
(* metadata patches, copies the rows it got back to traces_replacing in    *)
(* ClickHouse and, after the join with the span branch, triggers signals.  *)
(*                                                                         *)
(*   pg  one row per (project, trace); n is num_spans, applied says how    *)
(*       often each message has been added to it (n = 0: no row)           *)
(*   ch  rows of ReplacingMergeTree(num_spans): of the rows with one key   *)
(*       the reader gets the one with the largest n                        *)
(*                                                                         *)
(* Queueing and the stores of the span branch are in module SpanIngest;    *)
(* here a batch is taken at once and its spans insert is one step.         *)
(***************************************************************************)
EXTENDS Naturals, FiniteSets

CONSTANTS
  Span, Patch,   \* messages: real spans, metadata-only virtual spans
  Recordable,    \* spans that are inserted; "signal" spans are only counted
  Project, Trace, Worker,
  ProjectOf, TraceOf,  \* of every message
  BatchSize,
  MaxUpsertErrors, \* bound: failed upserts and traces inserts
  MaxMergeErrors,  \* bound: failed metadata merges
  MaxSpanErrors,   \* bound: failed spans inserts
  MaxCrashes       \* bound: crashes and lost channels

Msg == Span \cup Patch
Key == Project \X Trace

ASSUME StatsAssumption ==
  /\ Span \cap Patch = {} /\ Recordable \subseteq Span
  /\ ProjectOf \in [Msg -> Project] /\ TraceOf \in [Msg -> Trace]
  /\ BatchSize \in Nat /\ MaxUpsertErrors \in Nat /\ MaxMergeErrors \in Nat
  /\ MaxSpanErrors \in Nat /\ MaxCrashes \in Nat

VARIABLES
  sent,      \* messages published so far
  checked,   \* patches whose trace existed when they were published
  queue, held, taken,  \* ready messages, batches, deliveries per message
  acked,     \* messages acknowledged for good
  todo,      \* per worker: aggregations not yet upserted
  patches,   \* per worker: patches not yet merged
  aggRows, patchRows,  \* per worker: rows returned by the two stages
  aggOk,     \* per worker: aggregation_ok
  trace, span,  \* per worker: the two joined branches
  pg, ch, stored,
  signalled, \* history: checks for signals, what the row and the flush held
  upsertErrors, mergeErrors, spanErrors, crashes

inputVars == <<sent, checked>>
flushVars == <<todo, patches, aggRows, patchRows, aggOk>>
branchVars == <<trace, span>>
queueVars == <<queue, held, taken, acked>>
boundVars == <<upsertErrors, mergeErrors, spanErrors, crashes>>
vars == <<inputVars, flushVars, branchVars, queueVars, pg, ch, stored,
          signalled, boundVars>>

Row == [n : Nat, applied : [Msg -> Nat]]
NoRow == [n |-> 0, applied |-> [m \in Msg |-> 0]]
Aggregation == [key : Key, msgs : SUBSET Span]
Returned == SUBSET [key : Key, row : Row]
Check == [key : Key, counted : SUBSET Msg, own : SUBSET Msg]

KeyOf(m) == <<ProjectOf[m], TraceOf[m]>>
Exists(k) == pg[k].n > 0

\* TraceAggregation::from_spans: spans are grouped by trace id alone; the
\* project is the one of the span that opened the group.
Aggregations(b) ==
  LET ofTrace(t) == {m \in b \cap Span : TraceOf[m] = t}
      traces == {TraceOf[m] : m \in b \cap Span}
  IN  {{[key |-> <<first[t], t>>, msgs |-> ofTrace(t)] : t \in traces} :
         first \in {f \in [traces -> Project] :
                      \A t \in traces : f[t] \in {ProjectOf[m] : m \in ofTrace(t)}}}

\* The row after messages S have been added to it once more.
Added(row, S, count) ==
  [n |-> row.n + count,
   applied |-> [m \in Msg |-> row.applied[m] + (IF m \in S THEN 1 ELSE 0)]]

\* A stage returns the latest row of each trace it touched.
Return(rows, k, row) == {r \in rows : r.key # k} \cup {[key |-> k, row |-> row]}

-----------------------------------------------------------------------------
Init ==
  /\ sent = {} /\ checked = {}
  /\ queue = {} /\ held = [w \in Worker |-> {}]
  /\ taken = [m \in Msg |-> 0] /\ acked = {}
  /\ todo = [w \in Worker |-> {}] /\ patches = [w \in Worker |-> {}]
  /\ aggRows = [w \in Worker |-> {}] /\ patchRows = [w \in Worker |-> {}]
  /\ aggOk = [w \in Worker |-> TRUE]
  /\ trace = [w \in Worker |-> "idle"] /\ span = [w \in Worker |-> "idle"]
  /\ pg = [k \in Key |-> NoRow] /\ ch = {} /\ stored = {} /\ signalled = {}
  /\ upsertErrors = 0 /\ mergeErrors = 0 /\ spanErrors = 0 /\ crashes = 0

\* A span is published; a patch by update_trace_metadata, which checks that
\* the trace exists, or by the checkpoints consumer for a stored trace.
Submit(m) ==
  /\ m \notin sent
  /\ m \in Patch => Exists(KeyOf(m)) \/ \E s \in stored : KeyOf(s) = KeyOf(m)
  /\ sent' = sent \cup {m}
  /\ checked' = IF m \in Patch /\ Exists(KeyOf(m)) THEN checked \cup {m} ELSE checked
  /\ queue' = queue \cup {m}
  /\ UNCHANGED <<held, taken, acked, flushVars, branchVars, pg, ch, stored,
                 signalled, boundVars>>

\* A flush begins: patches are split from spans, spans are aggregated.
Flush(w, b) ==
  /\ trace[w] = "idle" /\ b # {}
  /\ IsFiniteSet(b) /\ Cardinality(b) <= BatchSize
  /\ queue' = queue \ b
  /\ held' = [held EXCEPT ![w] = b]
  /\ taken' = [m \in Msg |-> taken[m] + (IF m \in b THEN 1 ELSE 0)]
  /\ \E aggs \in Aggregations(b) : todo' = [todo EXCEPT ![w] = aggs]
  /\ patches' = [patches EXCEPT ![w] = b \cap Patch]
  /\ aggRows' = [aggRows EXCEPT ![w] = {}]
  /\ patchRows' = [patchRows EXCEPT ![w] = {}]
  /\ aggOk' = [aggOk EXCEPT ![w] = TRUE]
  /\ trace' = [trace EXCEPT ![w] = "run"] /\ span' = [span EXCEPT ![w] = "run"]
  /\ UNCHANGED <<inputVars, acked, pg, ch, stored, signalled, boundVars>>

-----------------------------------------------------------------------------
(* Trace branch.                                                           *)

\* One INSERT .. ON CONFLICT DO UPDATE of upsert_trace_statistics_batch,
\* which commits by itself; HashMap order decides which comes first.
Upsert(w, a) ==
  LET row == Added(pg[a.key], a.msgs, Cardinality(a.msgs)) IN
  /\ trace[w] = "run" /\ a \in todo[w]
  /\ pg' = [pg EXCEPT ![a.key] = row]
  /\ aggRows' = [aggRows EXCEPT ![w] = Return(@, a.key, row)]
  /\ todo' = [todo EXCEPT ![w] = @ \ {a}]
  /\ UNCHANGED <<inputVars, patches, patchRows, aggOk, branchVars, queueVars,
                 ch, stored, signalled, boundVars>>

\* Mutant: the upsert is tried again after an error.
MutUpsertError(w, a, landed) ==
  /\ trace[w] = "run" /\ a \in todo[w]
  /\ upsertErrors < MaxUpsertErrors
  /\ upsertErrors' = upsertErrors + 1
  /\ pg' = IF landed
           THEN [pg EXCEPT ![a.key] = Added(@, a.msgs, Cardinality(a.msgs))] ELSE pg
  /\ UNCHANGED <<inputVars, todo, patches, aggRows, patchRows, aggOk, branchVars,
                 queueVars, ch, stored, signalled, mergeErrors, spanErrors, crashes>>

\* Mutant: an upsert error leaves the trace branch early.
MutUpsertErrorReturns(w, a, landed) ==
  /\ trace[w] = "run" /\ a \in todo[w]
  /\ upsertErrors < MaxUpsertErrors
  /\ upsertErrors' = upsertErrors + 1
  /\ todo' = [todo EXCEPT ![w] = {}]
  /\ patches' = [patches EXCEPT ![w] = {}]
  /\ trace' = [trace EXCEPT ![w] = "done"]
  /\ aggOk' = [aggOk EXCEPT ![w] = FALSE]
  /\ UNCHANGED <<inputVars, aggRows, patchRows, span, pg,
                 queueVars, ch, stored, signalled, mergeErrors, spanErrors, crashes>>

\* The first error abandons the rest and every row returned so far, what has
\* been committed stays; the failing statement itself may have taken effect.
UpsertError(w, a, landed) ==
  /\ trace[w] = "run" /\ a \in todo[w]
  /\ upsertErrors < MaxUpsertErrors
  /\ upsertErrors' = upsertErrors + 1
  /\ pg' = IF landed
           THEN [pg EXCEPT ![a.key] = Added(@, a.msgs, Cardinality(a.msgs))] ELSE pg
  /\ todo' = [todo EXCEPT ![w] = {}]
  /\ aggRows' = [aggRows EXCEPT ![w] = {}]
  /\ aggOk' = [aggOk EXCEPT ![w] = FALSE]
  /\ UNCHANGED <<inputVars, patches, patchRows, branchVars, queueVars, ch, stored,
                 signalled, mergeErrors, spanErrors, crashes>>

\* Mutant: a patch does not bump num_spans.
MutPatched(row, m) == Added(row, {m}, 0)
\* merge_trace_metadata_batch counts the virtual span so that the patched row
\* has a larger version than the one it replaces.
Patched(row, m) == Added(row, {m}, 1)

\* Mutant: the merge inserts a row when there is none.
MutMerge(w, m) ==
  LET row == Patched(pg[KeyOf(m)], m) IN
  /\ trace[w] = "run" /\ todo[w] = {} /\ m \in patches[w]
  /\ patches' = [patches EXCEPT ![w] = @ \ {m}]
  /\ pg' = [pg EXCEPT ![KeyOf(m)] = row]
  /\ patchRows' = [patchRows EXCEPT ![w] = Return(@, KeyOf(m), row)]
  /\ UNCHANGED <<inputVars, todo, aggRows, aggOk, branchVars, queueVars, ch,
                 stored, signalled, boundVars>>

\* One UPDATE; a trace without a row is skipped.
Merge(w, m) ==
  LET row == Patched(pg[KeyOf(m)], m) IN
  /\ trace[w] = "run" /\ todo[w] = {} /\ m \in patches[w]
  /\ patches' = [patches EXCEPT ![w] = @ \ {m}]
  /\ IF Exists(KeyOf(m))
     THEN /\ pg' = [pg EXCEPT ![KeyOf(m)] = row]
          /\ patchRows' = [patchRows EXCEPT ![w] = Return(@, KeyOf(m), row)]
     ELSE UNCHANGED <<pg, patchRows>>
  /\ UNCHANGED <<inputVars, todo, aggRows, aggOk, branchVars, queueVars, ch,
                 stored, signalled, boundVars>>

MergeError(w, m, landed) ==
  /\ trace[w] = "run" /\ todo[w] = {} /\ m \in patches[w]
  /\ mergeErrors < MaxMergeErrors
  /\ mergeErrors' = mergeErrors + 1
  /\ pg' = IF landed /\ Exists(KeyOf(m))
           THEN [pg EXCEPT ![KeyOf(m)] = Patched(@, m)] ELSE pg
  /\ patches' = [patches EXCEPT ![w] = {}]
  /\ patchRows' = [patchRows EXCEPT ![w] = {}]
  /\ UNCHANGED <<inputVars, todo, aggRows, aggOk, branchVars, queueVars, ch,
                 stored, signalled, upsertErrors, spanErrors, crashes>>

\* Mutant: of two rows of one trace the first is kept.
MutUpdatedTraces(w) ==
  aggRows[w] \cup {r \in patchRows[w] : \A a \in aggRows[w] : a.key # r.key}
\* The union of both stages, the patched row winning over the upserted one.
UpdatedTraces(w) ==
  patchRows[w] \cup {r \in aggRows[w] : \A p \in patchRows[w] : p.key # r.key}

\* The insert into traces_replacing; an error is logged and forgotten.
InsertTraces(w) ==
  /\ trace[w] = "run" /\ todo[w] = {} /\ patches[w] = {}
  /\ ch' = ch \cup UpdatedTraces(w)
  /\ trace' = [trace EXCEPT ![w] = "done"]
  /\ UNCHANGED <<inputVars, flushVars, span, queueVars, pg, stored, signalled, boundVars>>

InsertTracesError(w) ==
  /\ trace[w] = "run" /\ todo[w] = {} /\ patches[w] = {} /\ UpdatedTraces(w) # {}
  /\ upsertErrors < MaxUpsertErrors
  /\ upsertErrors' = upsertErrors + 1
  /\ trace' = [trace EXCEPT ![w] = "done"]
  /\ UNCHANGED <<inputVars, flushVars, span, queueVars, pg, ch, stored, signalled,
                 mergeErrors, spanErrors, crashes>>

-----------------------------------------------------------------------------
(* Span branch, as far as the trace branch can tell, and the join.         *)

\* Recordable spans only; with none, there is no statement that could fail.
InsertSpans(w) ==
  /\ span[w] = "run"
  /\ stored' = stored \cup (held[w] \cap Recordable)
  /\ span' = [span EXCEPT ![w] = "ok"]
  /\ UNCHANGED <<inputVars, flushVars, trace, queueVars, pg, ch, signalled, boundVars>>

InsertSpansError(w) ==
  /\ span[w] = "run" /\ held[w] \cap Recordable # {}
  /\ spanErrors < MaxSpanErrors
  /\ spanErrors' = spanErrors + 1
  /\ span' = [span EXCEPT ![w] = "failed"]
  /\ UNCHANGED <<inputVars, flushVars, trace, queueVars, pg, ch, stored, signalled,
                 upsertErrors, mergeErrors, crashes>>

Idle(w) ==
  /\ held' = [held EXCEPT ![w] = {}]
  /\ todo' = [todo EXCEPT ![w] = {}] /\ patches' = [patches EXCEPT ![w] = {}]
  /\ aggRows' = [aggRows EXCEPT ![w] = {}] /\ patchRows' = [patchRows EXCEPT ![w] = {}]
  /\ aggOk' = [aggOk EXCEPT ![w] = TRUE]
  /\ trace' = [trace EXCEPT ![w] = "idle"] /\ span' = [span EXCEPT ![w] = "idle"]

\* Traces handed to check_and_push_signals: upserted ones, when all upserts
\* went well; a patch alone never triggers a signal.
Signals(w) ==
  IF aggOk[w]
  THEN {[key |-> r.key, counted |-> {m \in Msg : r.row.applied[m] > 0}, own |-> held[w]] :
          r \in aggRows[w]}
  ELSE {}

\* Mutant: signals do not wait for the span branch.
MutJoinOk(w) ==
  /\ trace[w] = "done" /\ span[w] \in {"run", "ok"}
  /\ signalled' = signalled \cup Signals(w)
  /\ acked' = acked \cup held[w]
  /\ Idle(w)
  /\ UNCHANGED <<inputVars, queue, taken, pg, ch, stored, boundVars>>

JoinOk(w) ==
  /\ trace[w] = "done" /\ span[w] = "ok"
  /\ signalled' = signalled \cup Signals(w)
  /\ acked' = acked \cup held[w]
  /\ Idle(w)
  /\ UNCHANGED <<inputVars, queue, taken, pg, ch, stored, boundVars>>

\* span_result? returns: the whole batch is requeued, statistics included.
JoinFailed(w) ==
  /\ trace[w] = "done" /\ span[w] = "failed"
  /\ queue' = queue \cup held[w]
  /\ Idle(w)
  /\ UNCHANGED <<inputVars, taken, acked, pg, ch, stored, signalled, boundVars>>

Crash(w) ==
  /\ trace[w] # "idle"
  /\ crashes < MaxCrashes
  /\ crashes' = crashes + 1
  /\ queue' = queue \cup held[w]
  /\ Idle(w)
  /\ UNCHANGED <<inputVars, taken, acked, pg, ch, stored, signalled, upsertErrors,
                 mergeErrors, spanErrors>>

-----------------------------------------------------------------------------
Next ==
  \/ \E m \in Msg : Submit(m)
  \/ \E w \in Worker :
       \/ \E b \in SUBSET queue : Flush(w, b)
       \/ \E a \in todo[w] : Upsert(w, a)
       \/ \E a \in todo[w], landed \in BOOLEAN : UpsertError(w, a, landed)
       \/ \E m \in patches[w] : Merge(w, m)
       \/ \E m \in patches[w], landed \in BOOLEAN : MergeError(w, m, landed)
       \/ InsertTraces(w) \/ InsertTracesError(w)
       \/ InsertSpans(w) \/ InsertSpansError(w)
       \/ JoinOk(w) \/ JoinFailed(w) \/ Crash(w)

Spec == Init /\ [][Next]_vars

-----------------------------------------------------------------------------
(* Type invariant of the queue, the flushes and the two stores.            *)
TypeOK ==
  /\ sent \subseteq Msg /\ checked \subseteq Patch
  /\ queue \subseteq Msg /\ held \in [Worker -> SUBSET Msg]
  /\ taken \in [Msg -> Nat] /\ acked \subseteq Msg
  /\ todo \in [Worker -> SUBSET Aggregation]
  /\ patches \in [Worker -> SUBSET Patch]
  /\ aggRows \in [Worker -> Returned] /\ patchRows \in [Worker -> Returned]
  /\ aggOk \in [Worker -> BOOLEAN]
  /\ trace \in [Worker -> {"idle", "run", "done"}]
  /\ span \in [Worker -> {"idle", "run", "ok", "failed"}]
  /\ pg \in [Key -> Row] /\ ch \in Returned
  /\ stored \subseteq Recordable /\ signalled \subseteq Check
  /\ upsertErrors \in Nat /\ mergeErrors \in Nat /\ spanErrors \in Nat /\ crashes \in Nat

\* ReplacingMergeTree picks an arbitrary row of a tie: two different rows of
\* one trace with the same num_spans must never reach ClickHouse, whatever
\* the order in which workers, retries and patches insert them
\* (merge_trace_metadata_batch bumps num_spans for this reason).
NoVersionTie ==
  \A r, q \in ch : r.key = q.key /\ r.row.n = q.row.n => r = q

\* ClickHouse holds past states of the PostgreSQL row and none from a future:
\* the row a reader picks is never newer than, nor at the same version
\* different from, the row of record.
ClickhouseFollows ==
  \A r \in ch : r.row.n <= pg[r.key].n /\ (r.row.n = pg[r.key].n => r.row = pg[r.key])

\* With every message acknowledged and no error in a trace branch, readers of
\* traces_replacing see exactly the PostgreSQL rows, in whatever order the
\* workers' inserts arrived and however often the span branch failed.
ClickhouseCatchesUp ==
  (upsertErrors + mergeErrors + crashes = 0 /\ \A w \in Worker : trace[w] = "idle") =>
    \A k \in Key : Exists(k) => [key |-> k, row |-> pg[k]] \in ch

\* A delivery adds a message to a trace at most once: overcounting is
\* bounded by redeliveries.
CountedPerDelivery == \A k \in Key, m \in Msg : pg[k].applied[m] <= taken[m]

\* merge_trace_metadata_batch: a patch never creates a stub row.
NoStubTrace == \A k \in Key : Exists(k) => \E m \in Span : pg[k].applied[m] > 0

\* "an aggregation upsert error must not drop B's patch": a patch of a trace
\* that existed is merged before it is acknowledged, unless a merge failed.
PatchNotDropped ==
  mergeErrors = 0 =>
    \A m \in acked \cap checked : pg[KeyOf(m)].applied[m] > 0

\* "Must run AFTER the spans insert so the signal agent sees the trace data":
\* the trace is checked for signals when all recordable spans of the flush can
\* be read.  A span the row counts and nobody can read yet is with another
\* flush that has not ended, or will be delivered again.
SignalsSeeSpans ==
  \A c \in signalled : \A m \in Recordable \ stored :
    m \notin c.own /\ (m \in c.counted => m \in queue \/ \E w \in Worker : m \in held[w])

\* A trace row counts spans of its own project only ("per (project_id, id)").
OwnProject == \A k \in Key, m \in Msg : pg[k].applied[m] > 0 => KeyOf(m) = k

\* "contributes nothing to trace stats (start/end/tokens/num_spans/...)"
\* (update_trace_metadata): num_spans counts real spans only.
PatchesDoNotCount ==
  upsertErrors + mergeErrors + spanErrors + crashes = 0 =>
    \A k \in Key : pg[k].n <= Cardinality({m \in Span \cap sent : KeyOf(m) = k})
=============================================================================
