----------------------------- MODULE SpanIngest -----------------------------
(***************************************************************************)
(* Span ingestion of one project: HTTP/gRPC producers hash the messages of *)
(* each LLM span and consult the Redis keys, the observations queue        *)
(* carries the verdicts, batch workers write the content table and the     *)
(* spans table of ClickHouse and stamp the Redis keys last.                *)
(*                                                                         *)
(*   sKeys    the keys  s:{project}:{hash}            ("content stored")   *)
(*   tnKeys   the keys  tn:{project}:{trace}:{hash}   ("seen in trace")    *)
(*   content  the rows of deduped_content (ReplacingMergeTree: a set)      *)
(*   rows     the rows of spans, inserts counts them (plain MergeTree)     *)
(*                                                                         *)
(* Every Redis key and every row carries the project id, so projects meet  *)
(* only inside a batch and one project is modelled.  The trace branch that *)
(* process_span_messages joins with the span branch touches none of these  *)
(* tables and never fails the batch: module TraceStats models it.          *)
(***************************************************************************)
EXTENDS Naturals, FiniteSets, Sequences

CONSTANTS
  Msg,           \* ingest requests, each published as one queue message
  Span,          \* spans
  Trace,         \* traces
  Hash,          \* BLAKE3 hashes of messages and tool definitions
  Worker,        \* batch workers on the observations queue
  SpansOf,       \* SpansOf[m]: the spans request m carries after should_save
  TraceOf,       \* TraceOf[s]: the trace of a span
  Messages,      \* Messages[s]: hashes of the input and output messages of s
  Tools,         \* Tools[s]: the tool-definition hash of s (none or one)
  Recordable,    \* spans with should_record_to_clickhouse
  TooLarge,      \* requests at or above mq_max_payload
  MaxPositions,  \* message positions a u16 can name (65536)
  BatchSize,     \* BatchingConfig.size, in spans
  Prefetch,      \* unacknowledged deliveries the broker allows a worker
  MaxCopies,     \* bound: queue copies of one request
  MaxFaults,     \* bound: disconnections, crashes, ambiguous insert errors
  MaxErrors      \* bound: inserts that fail and leave no row

ASSUME IngestAssumption ==
  /\ SpansOf \in [Msg -> SUBSET Span]
  /\ TraceOf \in [Span -> Trace]
  /\ Messages \in [Span -> Seq(Hash)]
  /\ Tools \in [Span -> SUBSET Hash]
  /\ Recordable \subseteq Span
  /\ TooLarge \subseteq Msg
  /\ MaxPositions \in Nat
  /\ BatchSize \in Nat /\ Prefetch \in Nat
  /\ MaxCopies \in Nat /\ MaxFaults \in Nat /\ MaxErrors \in Nat

VARIABLES
  client,    \* per request: where the producer is
  prepared,  \* per request: spans already preprocessed in this attempt
  verdict,   \* per request and span: verdicts of the running attempt
  copies,    \* per request: messages the broker has accepted
  queue,     \* ready messages of the observations queue
  held,      \* per worker: deliveries in its batch, oldest state first
  live,      \* per worker: its consumer channel is open
  pc,        \* per worker: where the flush is
  stampS, stampT, \* per worker: keys mark_seen has still to write
  sKeys, tnKeys, content, rows, inserts,
  faults, errors

producerVars == <<client, prepared, verdict, copies>>
storeVars == <<content, rows, inserts>>
cacheVars == <<sKeys, tnKeys>>
stampVars == <<stampS, stampT>>
vars == <<producerVars, queue, held, live, pc, stampVars, cacheVars,
          storeVars, faults, errors>>

Verdict == [new : SUBSET Hash, miss : SUBSET Hash]
NoVerdict == [new |-> {}, miss |-> {}]
Copy == [msg : Msg, n : Nat, v : [Span -> Verdict]]
Row == [span : Span, new : SUBSET Hash]

-----------------------------------------------------------------------------
(* Hashes of a span.  A hash whose every position is beyond the u16 range  *)
(* is listed on the row and gets no verdict at all.                        *)

Addressable(s) ==
  {Messages[s][i] : i \in {j \in DOMAIN Messages[s] : j <= MaxPositions}}

(* Verdicts the producer can reach for span s.  A failed Redis read counts *)
(* as "not seen", so any part of the present keys may go unnoticed.  The   *)
(* storage key of a message is read only if the message is new in trace.   *)
Seen(s) == {h \in Addressable(s) : <<TraceOf[s], h>> \in tnKeys}

Verdicts(s) ==
  UNION { LET new == Addressable(s) \ seen
              asked == new \cup Tools[s]
          IN  {[new |-> new, miss |-> asked \ hit] :
                 hit \in SUBSET (asked \cap sKeys)}
        : seen \in SUBSET Seen(s) }

(* What a flush of batch b writes: only recordable spans take part.        *)
Written(c) == SpansOf[c.msg] \cap Recordable
BatchContent(b) == UNION {UNION {c.v[s].miss : s \in Written(c)} : c \in b}
\* Mutant: the storage-miss positions are recorded as the new ones.
MutBatchRows(b) ==
  UNION {{[span |-> s, new |-> c.v[s].miss] : s \in Written(c)} : c \in b}
BatchRows(b) ==
  UNION {{[span |-> s, new |-> c.v[s].new] : s \in Written(c)} : c \in b}
TraceKeys(b) ==
  UNION {{<<TraceOf[r.span], h>> : h \in r.new} : r \in BatchRows(b)}
SpanCount(b) ==
  Cardinality(UNION {{<<c, s>> : s \in SpansOf[c.msg]} : c \in b})

Stored(m) == \A s \in SpansOf[m] \cap Recordable : \E r \in rows : r.span = s

-----------------------------------------------------------------------------
Init ==
  /\ client = [m \in Msg |-> "idle"]
  /\ prepared = [m \in Msg |-> {}]
  /\ verdict = [m \in Msg |-> [s \in Span |-> NoVerdict]]
  /\ copies = [m \in Msg |-> 0]
  /\ queue = {}
  /\ held = [w \in Worker |-> {}]
  /\ live = [w \in Worker |-> TRUE]
  /\ pc = [w \in Worker |-> "collect"]
  /\ stampS = [w \in Worker |-> {}]
  /\ stampT = [w \in Worker |-> {}]
  /\ sKeys = {} /\ tnKeys = {}
  /\ content = {} /\ rows = {}
  /\ inserts = [s \in Span |-> 0]
  /\ faults = 0 /\ errors = 0

-----------------------------------------------------------------------------
(* Producers: push_spans_to_queue and publish_span_messages.               *)

\* The handler returns and its spans go with it.
Forget(m) ==
  /\ prepared' = [prepared EXCEPT ![m] = {}]
  /\ verdict' = [verdict EXCEPT ![m] = [s \in Span |-> NoVerdict]]

\* A client sends request m, or sends it again after an error response.
\* The copies bound keeps re-sending finite.
Submit(m) ==
  /\ client[m] \in {"idle", "failed"}
  /\ copies[m] < MaxCopies
  /\ client' = [client EXCEPT ![m] = "preparing"]
  /\ UNCHANGED <<prepared, verdict, copies, queue, held, live, pc, stampVars, cacheVars,
                 storeVars, faults, errors>>

\* preprocess_for_queue on one span: build_tool_dedup and
\* build_message_dedup read Redis and write nothing.
Preprocess(m, s) ==
  /\ client[m] = "preparing"
  /\ s \in SpansOf[m] \ prepared[m]
  /\ \E v \in Verdicts(s) : verdict' = [verdict EXCEPT ![m][s] = v]
  /\ prepared' = [prepared EXCEPT ![m] = @ \cup {s}]
  /\ UNCHANGED <<client, copies, queue, held, live, pc, stampVars, cacheVars,
                 storeVars, faults, errors>>

\* All spans of an oversized request are reported back as rejected.
RejectTooLarge(m) ==
  /\ client[m] = "preparing" /\ prepared[m] = SpansOf[m]
  /\ m \in TooLarge
  /\ client' = [client EXCEPT ![m] = "rejected"]
  /\ Forget(m)
  /\ UNCHANGED <<copies, queue, held, live, pc, stampVars,
                 cacheVars, storeVars, faults, errors>>

NewCopy(m) == [msg |-> m, n |-> copies[m] + 1, v |-> verdict[m]]

\* The broker takes a message.  What the caller sees is the outcome: Ok;
\* a connection error that publish retries with the same payload; or an
\* error after which the client may submit the request anew.
Publish(m, outcome) ==
  /\ client[m] = "preparing" /\ prepared[m] = SpansOf[m]
  /\ m \notin TooLarge
  /\ copies[m] < MaxCopies
  /\ queue' = queue \cup {NewCopy(m)}
  /\ copies' = [copies EXCEPT ![m] = @ + 1]
  /\ client' = [client EXCEPT ![m] = outcome]
  /\ IF outcome = "preparing" THEN UNCHANGED <<prepared, verdict>> ELSE Forget(m)
  /\ UNCHANGED <<held, live, pc, stampVars, cacheVars,
                 storeVars, faults, errors>>

\* get_workspace_deployment or publish gives up, or the producer crashes:
\* nothing reaches the broker and the client sees an error.
PublishError(m) ==
  /\ client[m] = "preparing"
  /\ faults < MaxFaults
  /\ faults' = faults + 1
  /\ client' = [client EXCEPT ![m] = "failed"]
  /\ Forget(m)
  /\ UNCHANGED <<copies, queue, held, live, pc, stampVars,
                 cacheVars, storeVars, errors>>

-----------------------------------------------------------------------------
(* Batch workers: BatchQueueWorker running SpanHandler.                    *)

\* Mutant: the content insert is skipped.
MutFlushFrom(b) == "spans"
\* shared_content is inserted only when there is any.
FlushFrom(b) == IF BatchContent(b) = {} THEN "spans" ELSE "content"

\* handle_message: an empty delivery is acknowledged at once; any other joins
\* the batch, and reaching BatchSize flushes it in the same handler call.
ReceiveEmpty(w, c) ==
  /\ pc[w] = "collect" /\ live[w] /\ Cardinality(held[w]) < Prefetch
  /\ c \in queue /\ SpansOf[c.msg] = {}
  /\ queue' = queue \ {c}
  /\ UNCHANGED <<producerVars, held, live, pc, stampVars, cacheVars,
                 storeVars, faults, errors>>

Receive(w, c) ==
  /\ pc[w] = "collect" /\ live[w] /\ Cardinality(held[w]) < Prefetch
  /\ c \in queue /\ SpansOf[c.msg] # {}
  /\ queue' = queue \ {c}
  /\ held' = [held EXCEPT ![w] = @ \cup {c}]
  /\ pc' = [pc EXCEPT ![w] = IF SpanCount(held[w] \cup {c}) >= BatchSize
                             THEN FlushFrom(held[w] \cup {c}) ELSE "collect"]
  /\ UNCHANGED <<producerVars, live, stampVars, cacheVars, storeVars, faults,
                 errors>>

\* Mutant: the interval waits for a full batch.
MutFlushInterval(w) ==
  /\ pc[w] = "collect" /\ live[w] /\ SpanCount(held[w]) >= BatchSize
  /\ pc' = [pc EXCEPT ![w] = FlushFrom(held[w])]
  /\ UNCHANGED <<producerVars, queue, held, live, stampVars, cacheVars,
                 storeVars, faults, errors>>

\* handle_interval: flush whatever has been collected.
FlushInterval(w) ==
  /\ pc[w] = "collect" /\ live[w] /\ held[w] # {}
  /\ pc' = [pc EXCEPT ![w] = FlushFrom(held[w])]
  /\ UNCHANGED <<producerVars, queue, held, live, stampVars, cacheVars,
                 storeVars, faults, errors>>

InsertContent(w) ==
  /\ pc[w] = "content"
  /\ content' = content \cup BatchContent(held[w])
  /\ pc' = [pc EXCEPT ![w] = "spans"]
  /\ UNCHANGED <<producerVars, queue, held, live, stampVars, cacheVars, rows,
                 inserts, faults, errors>>

\* Rows are appended: the spans table is plain MergeTree.
AddRows(b) ==
  /\ rows' = rows \cup BatchRows(b)
  /\ inserts' = [s \in Span |->
                   inserts[s] + Cardinality({c \in b : s \in Written(c)})]

\* Mutant: spans are inserted before their content.
MutInsertContentError(w, landed) ==
  /\ pc[w] = "content"
  /\ errors < MaxErrors
  /\ errors' = errors + 1
  /\ AddRows(held[w])
  /\ pc' = [pc EXCEPT ![w] = "requeue"]
  /\ UNCHANGED <<producerVars, queue, held, live, stampVars, cacheVars, content,
                 faults>>

\* The content insert returns an error, with or without the rows in place
\* (the response wait is bounded by INSERT_END_TIMEOUT): transient.
InsertContentError(w, landed) ==
  /\ pc[w] = "content"
  /\ errors < MaxErrors
  /\ errors' = errors + 1
  /\ content' = IF landed THEN content \cup BatchContent(held[w]) ELSE content
  /\ pc' = [pc EXCEPT ![w] = "requeue"]
  /\ UNCHANGED <<producerVars, queue, held, live, stampVars, cacheVars, rows,
                 inserts, faults>>

InsertSpans(w) ==
  /\ pc[w] = "spans"
  /\ AddRows(held[w])
  /\ pc' = [pc EXCEPT ![w] = "stamp"]
  /\ stampS' = [stampS EXCEPT ![w] = BatchContent(held[w])]
  /\ stampT' = [stampT EXCEPT ![w] = TraceKeys(held[w])]
  /\ UNCHANGED <<producerVars, queue, held, live, cacheVars, content, faults,
                 errors>>

\* Mutant: the error is logged and the batch counts as stored.
MutInsertSpansError(w) ==
  /\ pc[w] = "spans"
  /\ errors < MaxErrors
  /\ errors' = errors + 1
  /\ pc' = [pc EXCEPT ![w] = "stamp"]
  /\ stampS' = [stampS EXCEPT ![w] = BatchContent(held[w])]
  /\ stampT' = [stampT EXCEPT ![w] = TraceKeys(held[w])]
  /\ UNCHANGED <<producerVars, queue, held, live, cacheVars, storeVars, faults>>

InsertSpansError(w) ==
  /\ pc[w] = "spans"
  /\ errors < MaxErrors
  /\ errors' = errors + 1
  /\ pc' = [pc EXCEPT ![w] = "requeue"]
  /\ UNCHANGED <<producerVars, queue, held, live, stampVars, cacheVars,
                 storeVars, faults>>

\* The rows are in but the response is lost: transient all the same.
InsertSpansTimeout(w) ==
  /\ pc[w] = "spans" /\ BatchRows(held[w]) # {}
  /\ faults < MaxFaults
  /\ faults' = faults + 1
  /\ AddRows(held[w])
  /\ pc' = [pc EXCEPT ![w] = "requeue"]
  /\ UNCHANGED <<producerVars, queue, held, live, stampVars, cacheVars,
                 content, errors>>

\* mark_seen, one key per step, every storage key before any trace key; a
\* failed Redis write is ignored (ok = FALSE).
StampStorage(w, h, ok) ==
  /\ pc[w] = "stamp" /\ h \in stampS[w]
  /\ stampS' = [stampS EXCEPT ![w] = @ \ {h}]
  /\ sKeys' = IF ok THEN sKeys \cup {h} ELSE sKeys
  /\ UNCHANGED <<producerVars, queue, held, live, pc, stampT, tnKeys,
                 storeVars, faults, errors>>

StampTrace(w, k, ok) ==
  /\ pc[w] = "stamp" /\ stampS[w] = {} /\ k \in stampT[w]
  /\ stampT' = [stampT EXCEPT ![w] = @ \ {k}]
  /\ tnKeys' = IF ok THEN tnKeys \cup {k} ELSE tnKeys
  /\ UNCHANGED <<producerVars, queue, held, live, pc, stampS, sKeys,
                 storeVars, faults, errors>>

Stamped(w) ==
  /\ pc[w] = "stamp" /\ stampS[w] = {} /\ stampT[w] = {}
  /\ pc' = [pc EXCEPT ![w] = "ack"]
  /\ UNCHANGED <<producerVars, queue, held, live, stampVars, cacheVars,
                 storeVars, faults, errors>>

\* handle_result: the deliveries of the batch are settled one by one.
Settled(w, c) ==
  /\ live[w] /\ c \in held[w]
  /\ held' = [held EXCEPT ![w] = @ \ {c}]
  /\ pc' = [pc EXCEPT ![w] = IF held[w] = {c} THEN "collect" ELSE @]
  /\ UNCHANGED <<producerVars, live, stampVars, cacheVars, storeVars, faults,
                 errors>>

Ack(w, c) == pc[w] = "ack" /\ Settled(w, c) /\ UNCHANGED queue

\* Mutant: a transient failure rejects without requeueing.
MutRequeue(w, c) == pc[w] = "requeue" /\ Settled(w, c) /\ UNCHANGED queue

Requeue(w, c) ==
  pc[w] = "requeue" /\ Settled(w, c) /\ queue' = queue \cup {c}

\* The channel closes: the broker makes the unacknowledged deliveries ready
\* again at once, while the worker may still be in the middle of a flush.
Disconnect(w) ==
  /\ live[w]
  /\ faults < MaxFaults
  /\ faults' = faults + 1
  /\ live' = [live EXCEPT ![w] = FALSE]
  /\ queue' = queue \cup held[w]
  /\ UNCHANGED <<producerVars, held, pc, stampVars, cacheVars, storeVars,
                 errors>>

\* process_inner ends when receive or a settlement meets the closed channel;
\* the next connection starts from the initial state.
Reset(w) ==
  /\ held' = [held EXCEPT ![w] = {}]
  /\ live' = [live EXCEPT ![w] = TRUE]
  /\ pc' = [pc EXCEPT ![w] = "collect"]
  /\ stampS' = [stampS EXCEPT ![w] = {}]
  /\ stampT' = [stampT EXCEPT ![w] = {}]
  /\ UNCHANGED <<producerVars, cacheVars, storeVars, errors>>

Reconnect(w) ==
  /\ ~live[w] /\ pc[w] \in {"collect", "ack", "requeue"}
  /\ Reset(w)
  /\ UNCHANGED <<queue, faults>>

\* The worker process dies and is restarted.
Crash(w) ==
  /\ faults < MaxFaults
  /\ faults' = faults + 1
  /\ queue' = IF live[w] THEN queue \cup held[w] ELSE queue
  /\ Reset(w)

-----------------------------------------------------------------------------
(* Redis drops a key MESSAGE_SEEN_TTL_SECONDS after it was stamped, or     *)
(* earlier when it is evicted or restarted.                                *)
ExpireStorage(h) ==
  /\ h \in sKeys
  /\ sKeys' = sKeys \ {h}
  /\ UNCHANGED <<producerVars, queue, held, live, pc, stampVars, tnKeys,
                 storeVars, faults, errors>>

ExpireTrace(k) ==
  /\ k \in tnKeys
  /\ tnKeys' = tnKeys \ {k}
  /\ UNCHANGED <<producerVars, queue, held, live, pc, stampVars, sKeys,
                 storeVars, faults, errors>>

-----------------------------------------------------------------------------
Produce ==
  \E m \in Msg :
    \/ Submit(m)
    \/ \E s \in Span : Preprocess(m, s)
    \/ RejectTooLarge(m)
    \/ \E outcome \in {"accepted", "preparing", "failed"} : Publish(m, outcome)
    \/ PublishError(m)

Consume(w) ==
  \/ \E c \in queue : ReceiveEmpty(w, c) \/ Receive(w, c)
  \/ FlushInterval(w)
  \/ InsertContent(w)
  \/ \E landed \in BOOLEAN : InsertContentError(w, landed)
  \/ InsertSpans(w)
  \/ InsertSpansError(w)
  \/ InsertSpansTimeout(w)
  \/ \E h \in stampS[w], ok \in BOOLEAN : StampStorage(w, h, ok)
  \/ \E k \in stampT[w], ok \in BOOLEAN : StampTrace(w, k, ok)
  \/ Stamped(w)
  \/ \E c \in held[w] : Ack(w, c) \/ Requeue(w, c)
  \/ Disconnect(w)
  \/ Reconnect(w)
  \/ Crash(w)

Expire ==
  \/ \E h \in sKeys : ExpireStorage(h)
  \/ \E k \in tnKeys : ExpireTrace(k)

Next == Produce \/ (\E w \in Worker : Consume(w)) \/ Expire

Spec == Init /\ [][Next]_vars

\* Fairness.  A worker runs its handler to the end (tokio polls a ready task),
\* the interval timer fires, and the process reconnects after a lost channel.
\* RabbitMQ delivers a ready message in order while consumers have room, and
\* room comes and goes: strong fairness for each request's delivery.
WorkerStep(w) ==
  \/ FlushInterval(w) \/ InsertContent(w) \/ InsertSpans(w) \/ Stamped(w)
  \/ \E h \in stampS[w] : StampStorage(w, h, TRUE)
  \/ \E k \in stampT[w] : StampTrace(w, k, TRUE)
  \/ \E c \in held[w] : Ack(w, c) \/ Requeue(w, c)
  \/ Reconnect(w)

Deliver(m) == \E w \in Worker : \E c \in queue : c.msg = m /\ Receive(w, c)

FairSpec ==
  /\ Spec
  /\ \A w \in Worker : WF_vars(WorkerStep(w))
  /\ \A m \in Msg : SF_vars(Deliver(m))

-----------------------------------------------------------------------------
(* Type invariant of the producers, the broker, the workers and the stores. *)
TypeOK ==
  /\ client \in [Msg -> {"idle", "preparing", "accepted", "failed", "rejected"}]
  /\ prepared \in [Msg -> SUBSET Span]
  /\ verdict \in [Msg -> [Span -> Verdict]]
  /\ copies \in [Msg -> Nat]
  /\ queue \subseteq Copy
  /\ held \in [Worker -> SUBSET Copy]
  /\ \A w \in Worker : IsFiniteSet(held[w])
  /\ live \in [Worker -> BOOLEAN]
  /\ pc \in [Worker -> {"collect", "content", "spans", "stamp", "ack", "requeue"}]
  /\ stampS \in [Worker -> SUBSET Hash]
  /\ stampT \in [Worker -> SUBSET (Trace \X Hash)]
  /\ sKeys \subseteq Hash /\ tnKeys \subseteq Trace \X Hash
  /\ content \subseteq Hash /\ rows \subseteq Row
  /\ inserts \in [Span -> Nat]
  /\ faults \in Nat /\ errors \in Nat

FirstSeen(t, h) == \E r \in rows : TraceOf[r.span] = t /\ h \in r.new

\* No phantom storage key (input_dedup.rs, stamping rules): a producer that
\* finds an s: key and ships no content relies on the content being stored,
\* through failed inserts, crashes, duplicate deliveries and key expiry.
NoPhantomStorageKey == sKeys \subseteq content

\* No orphan trace marker (processor.rs, span_branch): while a tn: key exists
\* some stored span of the trace records the first occurrence of the message.
NoOrphanTraceMarker == \A k \in tnKeys : FirstSeen(k[1], k[2])

\* A reader of spans can resolve every hash of every stored row: the verdict
\* may be old, its content may have travelled on another message.
HashesResolve ==
  \A r \in rows : Addressable(r.span) \cup Tools[r.span] \subseteq content

\* Search relies on it: every message of a stored span is marked new by some
\* stored span of its trace, whichever of them was written first.
FirstOccurrenceRecorded ==
  \A r \in rows : \A h \in Addressable(r.span) : FirstSeen(TraceOf[r.span], h)

\* A request the broker has accepted is never lost: it waits in the queue, or
\* a connected worker holds it unacknowledged, or all its spans are stored.
NoAcceptedRequestLost ==
  \A m \in Msg : copies[m] > 0 =>
    \/ \E c \in queue : c.msg = m
    \/ \E w \in Worker : live[w] /\ \E c \in held[w] : c.msg = m
    \/ Stored(m)

\* The queue copies that carry span s.
CopiesOf(s) == UNION {{m} \X (1..copies[m]) : m \in {r \in Msg : s \in SpansOf[r]}}

\* The strict order content, spans, keys keeps failed inserts from duplicating
\* rows of the plain MergeTree: each queue copy that carries a span writes it
\* once, and once more at most for every lost connection, crash or lost insert
\* response.
RowsPerCopy ==
  \A s \in Span : inserts[s] <= Cardinality(CopiesOf(s)) * (1 + faults)

-----------------------------------------------------------------------------
(* The inductive invariant behind the safety properties (module            *)
(* SpanIngestProofs): what is in flight can rely on what is stored.        *)

\* A verdict taken earlier still holds: whatever it does not mark new was
\* recorded by a stored row, whatever it does not ship is stored.
Sound(s, v) ==
  /\ \A h \in Addressable(s) \ v.new : FirstSeen(TraceOf[s], h)
  /\ (v.new \cup Tools[s]) \ v.miss \subseteq content

SoundVerdicts ==
  /\ \A m \in Msg : \A s \in prepared[m] : Sound(s, verdict[m][s])
  /\ \A m \in Msg : prepared[m] \subseteq SpansOf[m]
  /\ \A c \in queue : \A s \in SpansOf[c.msg] : Sound(s, c.v[s])
  /\ \A w \in Worker : \A c \in held[w] : \A s \in SpansOf[c.msg] : Sound(s, c.v[s])

\* What a flush has still to stamp is stored; spans follow their content.
InOrder(w) ==
  /\ stampS[w] \subseteq content
  /\ \A k \in stampT[w] : FirstSeen(k[1], k[2])
  /\ pc[w] = "spans" => BatchContent(held[w]) \subseteq content
  /\ pc[w] \in {"stamp", "ack"} => \A c \in held[w] : Stored(c.msg)

FlushInOrder == \A w \in Worker : InOrder(w)

FirstsStored == \A r \in rows : r.new \subseteq content

\* Keys, rows, verdicts and flushes agree with the stores at every step of
\* span_branch, mark_seen and build_message_dedup.
StoreInv ==
  /\ TypeOK /\ NoPhantomStorageKey /\ NoOrphanTraceMarker
  /\ SoundVerdicts /\ FlushInOrder /\ FirstsStored
  /\ HashesResolve /\ FirstOccurrenceRecorded /\ NoAcceptedRequestLost

-----------------------------------------------------------------------------
\* Ingestion implements its contract: the queue, the verdicts, the keys and
\* every retry are hidden, the stored rows and content are what remains.
Contract == INSTANCE IngestContract WITH
  accepted <- {m \in Msg : copies[m] > 0},
  durable <- {r.span : r \in rows},
  firsts <- UNION {{<<TraceOf[r.span], h>> : h \in r.new} : r \in rows},
  Positions <- Addressable

Refines == Contract!Spec

\* Every request the broker accepts is stored in the end, once inserts,
\* connections and workers stop failing.
AcceptedEventuallyStored ==
  \A m \in Msg : (copies[m] > 0) ~> Stored(m)
=============================================================================
