-------------------------- MODULE SpanIngestProofs --------------------------
(***************************************************************************)
(* Proofs about SpanIngest, for every set of requests, spans, traces,      *)
(* hashes and workers and every value of the bounds: its invariants, and    *)
(* that it implements IngestContract.                                      *)
(***************************************************************************)
EXTENDS SpanIngest, FiniteSetTheorems, TLAPS

-----------------------------------------------------------------------------
(* Types of the helpers.                                                   *)

\* The verdicts build_message_dedup and build_tool_dedup return are well typed.
LEMMA VerdictTypes ==
  ASSUME NEW s \in Span
  PROVE  /\ Addressable(s) \subseteq Hash
         /\ Verdicts(s) \subseteq Verdict
<1>1. Addressable(s) \subseteq Hash
  BY IngestAssumption DEF Addressable
<1>2. Tools[s] \subseteq Hash
  BY IngestAssumption
<1>3. QED
  BY <1>1, <1>2 DEF Verdicts, Verdict

\* What a flush of process_span_messages writes and stamps is well typed.
LEMMA BatchTypes ==
  ASSUME NEW b \in SUBSET Copy
  PROVE  /\ BatchContent(b) \subseteq Hash
         /\ BatchRows(b) \subseteq Row
         /\ TraceKeys(b) \subseteq Trace \X Hash
<1>1. \A c \in b : Written(c) \subseteq Span
  BY IngestAssumption DEF Written, Copy
<1>2. BatchContent(b) \subseteq Hash
  BY <1>1 DEF BatchContent, Copy, Verdict
<1>3. BatchRows(b) \subseteq Row
  BY <1>1 DEF BatchRows, Copy, Verdict, Row
<1>4. TraceKeys(b) \subseteq Trace \X Hash
  BY <1>3, IngestAssumption DEF TraceKeys, Row
<1>5. QED
  BY <1>2, <1>3, <1>4

-----------------------------------------------------------------------------
(* Type correctness.                                                       *)

LEMMA InitType == Init => TypeOK
BY IngestAssumption, FS_EmptySet DEF Init, TypeOK, NoVerdict, Verdict, Copy, Row

LEMMA ProduceType == TypeOK /\ Produce => TypeOK'
<1> SUFFICES ASSUME TypeOK, Produce PROVE TypeOK' OBVIOUS
<1> USE IngestAssumption
<1> PICK m \in Msg : 
    \/ Submit(m)
    \/ \E s \in Span : Preprocess(m, s)
    \/ RejectTooLarge(m)
    \/ \E outcome \in {"accepted", "preparing", "failed"} : Publish(m, outcome)
    \/ PublishError(m)
  BY DEF Produce
<1>0. [s \in Span |-> NoVerdict] \in [Span -> Verdict]
  BY DEF NoVerdict, Verdict
<1>1. CASE Submit(m)
  BY <1>1 DEF Submit, TypeOK, stampVars, cacheVars, storeVars
<1>2. ASSUME NEW s \in Span, Preprocess(m, s) PROVE TypeOK'
  BY <1>2, VerdictTypes DEF Preprocess, TypeOK, stampVars, cacheVars, storeVars
<1>3. CASE RejectTooLarge(m)
  BY <1>0, <1>3 DEF RejectTooLarge, Forget, TypeOK, stampVars, cacheVars, storeVars
<1>4. ASSUME NEW outcome \in {"accepted", "preparing", "failed"}, Publish(m, outcome)
      PROVE  TypeOK'
  <2>1. NewCopy(m) \in Copy
    BY DEF NewCopy, Copy, TypeOK
  <2>2. prepared' \in [Msg -> SUBSET Span] /\ verdict' \in [Msg -> [Span -> Verdict]]
    BY <1>0, <1>4 DEF Publish, Forget, TypeOK
  <2>3. queue' \subseteq Copy
    BY <1>4, <2>1 DEF Publish, TypeOK
  <2>4. client' \in [Msg -> {"idle", "preparing", "accepted", "failed", "rejected"}]
    BY <1>4 DEF Publish, TypeOK
  <2>5. copies' \in [Msg -> Nat]
    BY <1>4 DEF Publish, TypeOK
  <2>6. QED
    BY <1>4, <2>2, <2>3, <2>4, <2>5 DEF Publish, TypeOK, stampVars, cacheVars, storeVars
<1>5. CASE PublishError(m)
  BY <1>0, <1>5 DEF PublishError, Forget, TypeOK, stampVars, cacheVars, storeVars
<1>6. QED
  BY <1>1, <1>2, <1>3, <1>4, <1>5

\* The frame of a flush step: producers, faults and errors aside, a worker
\* changes its own entries only, and to values of their types.
LEMMA AddRowsType ==
  ASSUME TypeOK, NEW w \in Worker, AddRows(held[w])
  PROVE  rows' \subseteq Row /\ inserts' \in [Span -> Nat]
<1>1. held[w] \in SUBSET Copy /\ IsFiniteSet(held[w])
  BY DEF TypeOK
<1> DEFINE copiesOf(s) == Cardinality({c \in held[w] : s \in Written(c)})
<1>2. \A s \in Span : copiesOf(s) \in Nat
  BY <1>1, FS_Subset, FS_CardinalityType
<1>3. inserts' \in [Span -> Nat]
  <2>1. inserts' = [s \in Span |-> inserts[s] + copiesOf(s)]
    BY DEF AddRows
  <2> HIDE DEF copiesOf
  <2>2. QED
    BY <1>2, <2>1 DEF TypeOK
<1>4. rows' \subseteq Row
  <2>1. BatchRows(held[w]) \subseteq Row
    BY <1>1, BatchTypes
  <2>2. QED
    BY <2>1 DEF AddRows, TypeOK
<1>5. QED
  BY <1>3, <1>4

LEMMA ResetType ==
  ASSUME TypeOK, NEW w \in Worker, Reset(w), queue' \subseteq Copy, faults' \in Nat
  PROVE  TypeOK'
<1>1. held' \in [Worker -> SUBSET Copy] /\ \A u \in Worker : IsFiniteSet(held'[u])
  <2>1. IsFiniteSet({})
    BY FS_EmptySet
  <2>2. QED
    BY <2>1 DEF Reset, TypeOK
<1>2. live' \in [Worker -> BOOLEAN] /\ stampS' \in [Worker -> SUBSET Hash]
      /\ stampT' \in [Worker -> SUBSET (Trace \X Hash)]
  BY DEF Reset, TypeOK
<1>3. pc' \in [Worker -> {"collect", "content", "spans", "stamp", "ack", "requeue"}]
  BY DEF Reset, TypeOK
<1>4. UNCHANGED <<producerVars, cacheVars, storeVars, errors>>
  BY DEF Reset
<1>5. QED
  BY <1>1, <1>2, <1>3, <1>4 DEF TypeOK, producerVars, cacheVars, storeVars

LEMMA ConsumeType ==
  ASSUME TypeOK, NEW w \in Worker, Consume(w)
  PROVE  TypeOK'
<1> USE IngestAssumption DEF producerVars, stampVars, cacheVars, storeVars
<1>0. /\ held[w] \in SUBSET Copy /\ IsFiniteSet(held[w])
      /\ BatchContent(held[w]) \subseteq Hash
      /\ TraceKeys(held[w]) \subseteq Trace \X Hash
  BY BatchTypes DEF TypeOK
<1>1. ASSUME NEW c \in queue, ReceiveEmpty(w, c) PROVE TypeOK'
  BY <1>1 DEF ReceiveEmpty, TypeOK
<1>2. ASSUME NEW c \in queue, Receive(w, c) PROVE TypeOK'
  <2>1. held[w] \cup {c} \in SUBSET Copy /\ IsFiniteSet(held[w] \cup {c})
    <3>1. IsFiniteSet(held[w] \cup {c})
      BY <1>0, FS_AddElement
    <3>2. QED
      BY <1>0, <3>1 DEF TypeOK
  <2>2. pc' \in [Worker -> {"collect", "content", "spans", "stamp", "ack", "requeue"}]
    BY <1>2 DEF Receive, FlushFrom, TypeOK
  <2>3. held' \in [Worker -> SUBSET Copy] /\ \A u \in Worker : IsFiniteSet(held'[u])
    BY <1>2, <2>1 DEF Receive, TypeOK
  <2>4. UNCHANGED <<producerVars, live, stampVars, cacheVars, storeVars, faults, errors>>
        /\ queue' \subseteq Copy
    BY <1>2 DEF Receive, TypeOK
  <2>5. QED
    BY <2>2, <2>3, <2>4 DEF TypeOK
<1>3. CASE FlushInterval(w)
  BY <1>3 DEF FlushInterval, FlushFrom, TypeOK
<1>4. CASE InsertContent(w)
  BY <1>0, <1>4 DEF InsertContent, TypeOK
<1>5. ASSUME NEW landed \in BOOLEAN, InsertContentError(w, landed) PROVE TypeOK'
  BY <1>0, <1>5 DEF InsertContentError, TypeOK
<1>6. CASE InsertSpans(w)
  <2>1. rows' \subseteq Row /\ inserts' \in [Span -> Nat]
    BY <1>6, AddRowsType DEF InsertSpans
  <2>2. QED
    BY <1>0, <1>6, <2>1 DEF InsertSpans, TypeOK
<1>7. CASE InsertSpansError(w)
  BY <1>7 DEF InsertSpansError, TypeOK
<1>8. CASE InsertSpansTimeout(w)
  <2>1. rows' \subseteq Row /\ inserts' \in [Span -> Nat]
    BY <1>8, AddRowsType DEF InsertSpansTimeout
  <2>2. QED
    BY <1>8, <2>1 DEF InsertSpansTimeout, TypeOK
<1>9. ASSUME NEW h \in stampS[w], NEW ok \in BOOLEAN, StampStorage(w, h, ok) PROVE TypeOK'
  BY <1>9 DEF StampStorage, TypeOK
<1>10. ASSUME NEW k \in stampT[w], NEW ok \in BOOLEAN, StampTrace(w, k, ok) PROVE TypeOK'
  BY <1>10 DEF StampTrace, TypeOK
<1>11. CASE Stamped(w)
  BY <1>11 DEF Stamped, TypeOK
<1>12. ASSUME NEW c \in held[w], Settled(w, c), queue' \subseteq Copy PROVE TypeOK'
  <2>1. held[w] \ {c} \in SUBSET Copy /\ IsFiniteSet(held[w] \ {c})
    BY <1>0, FS_RemoveElement
  <2>2. pc' \in [Worker -> {"collect", "content", "spans", "stamp", "ack", "requeue"}]
    BY <1>12 DEF Settled, TypeOK
  <2>3. QED
    BY <1>12, <2>1, <2>2 DEF Settled, TypeOK
<1>13. ASSUME NEW c \in held[w], Ack(w, c) PROVE TypeOK'
  BY <1>12, <1>13 DEF Ack, TypeOK
<1>14. ASSUME NEW c \in held[w], Requeue(w, c) PROVE TypeOK'
  BY <1>0, <1>12, <1>14 DEF Requeue, TypeOK
<1>15. CASE Disconnect(w)
  BY <1>0, <1>15 DEF Disconnect, TypeOK
<1>16. CASE Reconnect(w)
  BY <1>16, ResetType DEF Reconnect, TypeOK
<1>17. CASE Crash(w)
  <2>1. queue' \subseteq Copy /\ faults' \in Nat
    BY <1>0, <1>17 DEF Crash, TypeOK
  <2>2. QED
    BY <1>17, <2>1, ResetType DEF Crash
<1>18. QED
  BY <1>1, <1>2, <1>3, <1>4, <1>5, <1>6, <1>7, <1>8, <1>9, <1>10, <1>11, <1>13,
     <1>14, <1>15, <1>16, <1>17 DEF Consume

LEMMA NextType == TypeOK /\ [Next]_vars => TypeOK'
<1> SUFFICES ASSUME TypeOK, [Next]_vars PROVE TypeOK' OBVIOUS
<1> USE DEF producerVars, stampVars, cacheVars, storeVars
<1>1. CASE Produce
  BY <1>1, ProduceType
<1>2. ASSUME NEW w \in Worker, Consume(w) PROVE TypeOK'
  BY <1>2, ConsumeType
<1>3. CASE Expire
  BY <1>3 DEF Expire, ExpireStorage, ExpireTrace, TypeOK
<1>4. CASE UNCHANGED vars
  BY <1>4 DEF vars, TypeOK
<1>5. QED
  BY <1>1, <1>2, <1>3, <1>4 DEF Next

\* Every variable of the ingestion pipeline keeps its type, whatever the
\* sets and the bounds are.
THEOREM TypeCorrect == Spec => []TypeOK
<1>1. TypeOK /\ [Next]_vars => TypeOK'
  BY NextType
<1>2. QED
  BY InitType, <1>1, PTL DEF Spec

-----------------------------------------------------------------------------
(* Frames: what a step can do to each part of the state.                   *)

\* Nothing stored is taken back.
LEMMA Monotone ==
  ASSUME [Next]_vars
  PROVE  content \subseteq content' /\ rows \subseteq rows'
<1> USE DEF producerVars, stampVars, cacheVars, storeVars
<1>1. CASE Produce
  BY <1>1 DEF Produce, Submit, Preprocess, RejectTooLarge, Publish, PublishError
<1>2. ASSUME NEW w \in Worker, Consume(w)
      PROVE  content \subseteq content' /\ rows \subseteq rows'
  BY <1>2 DEF Consume, ReceiveEmpty, Receive, FlushInterval, InsertContent,
     InsertContentError, InsertSpans, InsertSpansError, InsertSpansTimeout, AddRows,
     StampStorage, StampTrace, Stamped, Settled, Ack, Requeue, Disconnect, Reset,
     Reconnect, Crash
<1>3. CASE Expire
  BY <1>3 DEF Expire, ExpireStorage, ExpireTrace
<1>4. CASE UNCHANGED vars
  BY <1>4 DEF vars
<1>5. QED
  BY <1>1, <1>2, <1>3, <1>4 DEF Next

\* What holds because something is stored goes on holding.
LEMMA Persist ==
  ASSUME content \subseteq content', rows \subseteq rows'
  PROVE  /\ \A t, h : FirstSeen(t, h) => FirstSeen(t, h)'
         /\ \A s, v : Sound(s, v) => Sound(s, v)'
         /\ \A m : Stored(m) => Stored(m)'
<1>1. \A t, h : FirstSeen(t, h) => FirstSeen(t, h)'
  BY DEF FirstSeen
<1>2. \A s, v : Sound(s, v) => Sound(s, v)'
  BY <1>1 DEF Sound, Addressable
<1>3. \A m : Stored(m) => Stored(m)'
  BY DEF Stored
<1>4. QED
  BY <1>1, <1>2, <1>3

\* Rows come from a batch in state "spans" only.
LEMMA RowsFrame ==
  ASSUME [Next]_vars
  PROVE  \/ rows' = rows
         \/ \E w \in Worker : pc[w] = "spans" /\ rows' = rows \cup BatchRows(held[w])
<1> USE DEF producerVars, stampVars, cacheVars, storeVars
<1>1. CASE Produce
  BY <1>1 DEF Produce, Submit, Preprocess, RejectTooLarge, Publish, PublishError
<1>2. ASSUME NEW w \in Worker, Consume(w)
      PROVE  rows' = rows \/ (pc[w] = "spans" /\ rows' = rows \cup BatchRows(held[w]))
  BY <1>2 DEF Consume, ReceiveEmpty, Receive, FlushInterval, InsertContent,
     InsertContentError, InsertSpans, InsertSpansError, InsertSpansTimeout, AddRows,
     StampStorage, StampTrace, Stamped, Settled, Ack, Requeue, Disconnect, Reset,
     Reconnect, Crash
<1>3. CASE Expire
  BY <1>3 DEF Expire, ExpireStorage, ExpireTrace
<1>4. CASE UNCHANGED vars
  BY <1>4 DEF vars
<1>5. QED
  BY <1>1, <1>2, <1>3, <1>4 DEF Next

\* Keys come from a worker's mark_seen only.
LEMMA KeysFrame ==
  ASSUME [Next]_vars
  PROVE  /\ \A h \in sKeys' : h \in sKeys \/ \E w \in Worker : h \in stampS[w]
         /\ \A k \in tnKeys' : k \in tnKeys \/ \E w \in Worker : k \in stampT[w]
<1> USE DEF producerVars, stampVars, cacheVars, storeVars
<1>1. CASE Produce
  BY <1>1 DEF Produce, Submit, Preprocess, RejectTooLarge, Publish, PublishError
<1>2. ASSUME NEW w \in Worker, Consume(w)
      PROVE  /\ sKeys' \subseteq sKeys \cup stampS[w]
             /\ tnKeys' \subseteq tnKeys \cup stampT[w]
  BY <1>2 DEF Consume, ReceiveEmpty, Receive, FlushInterval, InsertContent,
     InsertContentError, InsertSpans, InsertSpansError, InsertSpansTimeout, AddRows,
     StampStorage, StampTrace, Stamped, Settled, Ack, Requeue, Disconnect, Reset,
     Reconnect, Crash
<1>3. CASE Expire
  BY <1>3 DEF Expire, ExpireStorage, ExpireTrace
<1>4. CASE UNCHANGED vars
  BY <1>4 DEF vars
<1>5. QED
  BY <1>1, <1>2, <1>3, <1>4 DEF Next

\* A verdict of a running attempt is old or has just been computed.
LEMMA AttemptFrame ==
  ASSUME TypeOK, [Next]_vars, NEW m \in Msg, NEW s \in prepared'[m]
  PROVE  \/ s \in prepared[m] /\ verdict'[m][s] = verdict[m][s]
         \/ s \in SpansOf[m] /\ verdict'[m][s] \in Verdicts(s)
<1> USE DEF producerVars, stampVars, cacheVars, storeVars
<1>1. ASSUME NEW n \in Msg, Forget(n)
      PROVE  s \in prepared[m] /\ verdict'[m][s] = verdict[m][s]
  BY <1>1 DEF Forget, TypeOK
<1>2. ASSUME NEW n \in Msg, NEW x \in Span, Preprocess(n, x)
      PROVE  \/ s \in prepared[m] /\ verdict'[m][s] = verdict[m][s]
             \/ s \in SpansOf[m] /\ verdict'[m][s] \in Verdicts(s)
  BY <1>2 DEF Preprocess, TypeOK
<1>3. CASE Produce
  BY <1>1, <1>2, <1>3 DEF Produce, Submit, RejectTooLarge, Publish, PublishError
<1>4. ASSUME NEW w \in Worker, Consume(w)
      PROVE  prepared' = prepared /\ verdict' = verdict
  BY <1>4 DEF Consume, ReceiveEmpty, Receive, FlushInterval, InsertContent,
     InsertContentError, InsertSpans, InsertSpansError, InsertSpansTimeout, AddRows,
     StampStorage, StampTrace, Stamped, Settled, Ack, Requeue, Disconnect, Reset,
     Reconnect, Crash
<1>5. CASE Expire
  BY <1>5 DEF Expire, ExpireStorage, ExpireTrace
<1>6. CASE UNCHANGED vars
  BY <1>6 DEF vars
<1>7. QED
  BY <1>3, <1>4, <1>5, <1>6 DEF Next

\* Deliveries move between the queue and the batches; only a publish adds one.
LEMMA DeliveryFrame ==
  ASSUME TypeOK, [Next]_vars
  PROVE  /\ \A c \in queue' :
              \/ c \in queue
              \/ \E w \in Worker : c \in held[w]
              \/ \E m \in Msg : prepared[m] = SpansOf[m] /\ c = NewCopy(m)
         /\ \A w \in Worker : \A c \in held'[w] : c \in held[w] \/ c \in queue
<1> USE DEF producerVars, stampVars, cacheVars, storeVars
<1>1. CASE Produce
  BY <1>1 DEF Produce, Submit, Preprocess, RejectTooLarge, Publish, PublishError
<1>2. ASSUME NEW w \in Worker, Consume(w)
      PROVE  /\ queue' \subseteq queue \cup held[w]
             /\ \A u \in Worker : held'[u] \subseteq held[u] \cup queue
  <2>1. ASSUME NEW c \in queue, ReceiveEmpty(w, c) \/ Receive(w, c)
        PROVE  /\ queue' \subseteq queue \cup held[w]
               /\ \A u \in Worker : held'[u] \subseteq held[u] \cup queue
    BY <2>1 DEF ReceiveEmpty, Receive, TypeOK
  <2>2. ASSUME NEW c \in held[w], Ack(w, c) \/ Requeue(w, c)
        PROVE  /\ queue' \subseteq queue \cup held[w]
               /\ \A u \in Worker : held'[u] \subseteq held[u] \cup queue
    BY <2>2 DEF Ack, Requeue, Settled, TypeOK
  <2>3. CASE Disconnect(w) \/ Reconnect(w) \/ Crash(w)
    BY <2>3 DEF Disconnect, Reset, Reconnect, Crash, TypeOK
  <2>4. CASE UNCHANGED <<queue, held>>
    BY <2>4
  <2>5. QED
    BY <1>2, <2>1, <2>2, <2>3, <2>4 DEF Consume, FlushInterval, InsertContent,
       InsertContentError, InsertSpans, InsertSpansError, InsertSpansTimeout,
       StampStorage, StampTrace, Stamped
<1>3. CASE Expire
  BY <1>3 DEF Expire, ExpireStorage, ExpireTrace
<1>4. CASE UNCHANGED vars
  BY <1>4 DEF vars
<1>5. QED
  BY <1>1, <1>2, <1>3, <1>4 DEF Next

-----------------------------------------------------------------------------
(* Preservation of StoreInv, one part at a time.                           *)

\* A verdict is sound when taken: a trace key that was found has its first
\* occurrence on record, a storage key that was found has its content.
LEMMA FreshVerdict ==
  ASSUME NoPhantomStorageKey, NoOrphanTraceMarker,
         NEW s \in Span, NEW v \in Verdicts(s)
  PROVE  Sound(s, v)
<1>1. PICK seen \in SUBSET Seen(s) :
        /\ v.new = Addressable(s) \ seen
        /\ \E hit \in SUBSET ((v.new \cup Tools[s]) \cap sKeys) :
              v.miss = (v.new \cup Tools[s]) \ hit
  BY DEF Verdicts
<1>2. \A h \in Addressable(s) \ v.new : FirstSeen(TraceOf[s], h)
  BY <1>1 DEF Seen, NoOrphanTraceMarker
<1>3. (v.new \cup Tools[s]) \ v.miss \subseteq content
  BY <1>1 DEF NoPhantomStorageKey
<1>4. QED
  BY <1>2, <1>3 DEF Sound

LEMMA VerdictsStep ==
  ASSUME StoreInv, [Next]_vars
  PROVE  SoundVerdicts'
<1> USE DEF StoreInv
<1>1. \A s, v : Sound(s, v) => Sound(s, v)'
  BY Monotone, Persist
<1>2. \A m \in Msg : prepared'[m] \subseteq SpansOf[m]
  BY AttemptFrame DEF SoundVerdicts
<1>3. ASSUME NEW m \in Msg, NEW s \in prepared'[m] PROVE Sound(s, verdict[m][s])'
  <2>1. PICK v : v = verdict'[m][s]
    OBVIOUS
  <2>2. ASSUME s \in prepared[m], v = verdict[m][s] PROVE Sound(s, v)
    BY <2>2 DEF SoundVerdicts
  <2>3. ASSUME s \in SpansOf[m], v \in Verdicts(s) PROVE Sound(s, v)
    <3>1. s \in Span
      BY <2>3, IngestAssumption
    <3>2. QED
      BY <2>3, <3>1, FreshVerdict
  <2>4. Sound(s, v)'
    BY <1>1, <2>1, <2>2, <2>3, AttemptFrame
  <2>5. QED
    BY <2>1, <2>4 DEF Sound
<1>4. ASSUME NEW m \in Msg, prepared[m] = SpansOf[m], NEW s \in SpansOf[m]
      PROVE  Sound(s, NewCopy(m).v[s])
  BY <1>4 DEF SoundVerdicts, NewCopy
<1>5. ASSUME NEW c \in queue', NEW s \in SpansOf[c.msg] PROVE Sound(s, c.v[s])'
  <2>1. Sound(s, c.v[s])
    BY <1>4, DeliveryFrame DEF SoundVerdicts, NewCopy
  <2>2. QED
    BY <1>1, <2>1
<1>6. ASSUME NEW w \in Worker, NEW c \in held'[w], NEW s \in SpansOf[c.msg]
      PROVE  Sound(s, c.v[s])'
  <2>1. Sound(s, c.v[s])
    BY DeliveryFrame DEF SoundVerdicts
  <2>2. QED
    BY <1>1, <2>1
<1>7. QED
  BY <1>2, <1>3, <1>5, <1>6 DEF SoundVerdicts

\* Keys never promise more than is stored.
LEMMA KeysStep ==
  ASSUME StoreInv, [Next]_vars
  PROVE  NoPhantomStorageKey' /\ NoOrphanTraceMarker'
<1> USE DEF StoreInv
<1>1. content \subseteq content' /\ \A t, h : FirstSeen(t, h) => FirstSeen(t, h)'
  BY Monotone, Persist
<1>2. NoPhantomStorageKey'
  BY <1>1, KeysFrame DEF NoPhantomStorageKey, FlushInOrder, InOrder
<1>3. ASSUME NEW k \in tnKeys' PROVE FirstSeen(k[1], k[2])'
  <2>1. FirstSeen(k[1], k[2])
    BY KeysFrame DEF NoOrphanTraceMarker, FlushInOrder, InOrder
  <2>2. QED
    BY <1>1, <2>1
<1>4. QED
  BY <1>2, <1>3 DEF NoOrphanTraceMarker

\* The rows of a batch whose content is in place are complete.
LEMMA BatchComplete ==
  ASSUME StoreInv, NEW w \in Worker, pc[w] = "spans", NEW r \in BatchRows(held[w])
  PROVE  /\ r.new \subseteq content
         /\ Addressable(r.span) \cup Tools[r.span] \subseteq content
         /\ \A h \in Addressable(r.span) : h \in r.new \/ FirstSeen(TraceOf[r.span], h)
<1> USE DEF StoreInv
<1>1. PICK c \in held[w] : \E s \in Written(c) : r = [span |-> s, new |-> c.v[s].new]
  BY DEF BatchRows
<1>2. PICK s \in Written(c) : r = [span |-> s, new |-> c.v[s].new]
  BY <1>1
<1>3. Sound(s, c.v[s])
  BY <1>2 DEF SoundVerdicts, Written
<1>4. c.v[s].miss \subseteq content
  BY <1>2 DEF FlushInOrder, InOrder, BatchContent
<1>5. c.v[s].new \cup Tools[s] \subseteq content
  BY <1>3, <1>4 DEF Sound
<1>6. \A h \in Addressable(s) : h \in c.v[s].new \/ FirstSeen(TraceOf[s], h)
  BY <1>3 DEF Sound
<1>7. \A t, h : FirstSeen(t, h) => h \in content
  BY DEF FirstsStored, FirstSeen
<1>8. QED
  BY <1>2, <1>5, <1>6, <1>7

LEMMA RowsStep ==
  ASSUME StoreInv, [Next]_vars
  PROVE  FirstsStored' /\ HashesResolve' /\ FirstOccurrenceRecorded'
<1> USE DEF StoreInv
<1>1. content \subseteq content' /\ \A t, h : FirstSeen(t, h) => FirstSeen(t, h)'
  BY Monotone, Persist
<1>2. ASSUME NEW r \in rows'
      PROVE  /\ r.new \subseteq content
             /\ Addressable(r.span) \cup Tools[r.span] \subseteq content
             /\ \A h \in Addressable(r.span) :
                  h \in r.new \/ FirstSeen(TraceOf[r.span], h)
  <2>1. CASE r \in rows
    BY <2>1 DEF FirstsStored, HashesResolve, FirstOccurrenceRecorded
  <2>2. CASE r \notin rows
    BY <2>2, RowsFrame, BatchComplete
  <2>3. QED
    BY <2>1, <2>2
<1>3. FirstsStored' /\ HashesResolve'
  BY <1>1, <1>2 DEF FirstsStored, HashesResolve, Addressable
<1>4. ASSUME NEW r \in rows', NEW h \in Addressable(r.span)
      PROVE  FirstSeen(TraceOf[r.span], h)'
  BY <1>1, <1>2 DEF FirstSeen
<1>5. QED
  BY <1>3, <1>4 DEF FirstOccurrenceRecorded, Addressable

\* A worker's flush stays in order while its batch and state do not change.
LEMMA InOrderFrame ==
  ASSUME StoreInv, [Next]_vars, NEW u \in Worker,
         stampS'[u] \subseteq stampS[u], stampT'[u] \subseteq stampT[u],
         \/ held'[u] = held[u] /\ pc'[u] = pc[u]
         \/ pc'[u] \notin {"spans", "stamp", "ack"}
  PROVE  InOrder(u)'
<1> USE DEF StoreInv
<1>1. /\ content \subseteq content'
      /\ \A t, h : FirstSeen(t, h) => FirstSeen(t, h)'
      /\ \A m : Stored(m) => Stored(m)'
  BY Monotone, Persist
<1>2. InOrder(u)
  BY DEF FlushInOrder
<1>3. stampS'[u] \subseteq content' /\ \A k \in stampT'[u] : FirstSeen(k[1], k[2])'
  BY <1>1, <1>2 DEF InOrder
<1>4. ASSUME pc'[u] = "spans" PROVE BatchContent(held[u])' \subseteq content'
  BY <1>1, <1>2, <1>4 DEF InOrder, BatchContent, Written
<1>5. ASSUME pc'[u] \in {"stamp", "ack"}, NEW c \in held'[u] PROVE Stored(c.msg)'
  BY <1>1, <1>2, <1>5 DEF InOrder
<1>6. QED
  BY <1>3, <1>4, <1>5 DEF InOrder

\* FlushFrom enters "spans" only when there is nothing to insert first.
LEMMA FlushFromInOrder ==
  ASSUME NEW b, FlushFrom(b) = "spans"
  PROVE  BatchContent(b) = {}
BY DEF FlushFrom

\* span_branch in order: content, spans, keys, acknowledgements.
LEMMA ConsumeInOrder ==
  ASSUME StoreInv, [Next]_vars, NEW w \in Worker, Consume(w)
  PROVE  InOrder(w)'
<1> USE DEF StoreInv, producerVars, stampVars, cacheVars, storeVars
<1>1. /\ content \subseteq content'
      /\ \A t, h : FirstSeen(t, h) => FirstSeen(t, h)'
      /\ \A m : Stored(m) => Stored(m)'
  BY Monotone, Persist
<1>2. InOrder(w)
  BY DEF FlushInOrder
<1>3. ASSUME NEW b, b = held'[w], stampS'[w] = stampS[w], stampT'[w] = stampT[w],
             pc'[w] \notin {"stamp", "ack"},
             pc'[w] = "spans" => BatchContent(b) \subseteq content'
      PROVE  InOrder(w)'
  BY <1>1, <1>2, <1>3 DEF InOrder, BatchContent, Written
<1>4. ASSUME NEW c \in queue, ReceiveEmpty(w, c) PROVE InOrder(w)'
  BY <1>4, InOrderFrame DEF ReceiveEmpty
<1>5. ASSUME NEW c \in queue, Receive(w, c) PROVE InOrder(w)'
  <2> DEFINE b == held[w] \cup {c}
  <2>1. b = held'[w] /\ pc'[w] \in {"collect", FlushFrom(b)} /\ FlushFrom(b) \in {"content", "spans"}
    BY <1>5 DEF Receive, TypeOK, FlushFrom
  <2> HIDE DEF b
  <2>2. pc'[w] = "spans" => BatchContent(b) \subseteq content'
    BY <2>1, FlushFromInOrder
  <2>3. QED
    BY <1>3, <1>5, <2>1, <2>2 DEF Receive
<1>6. CASE FlushInterval(w)
  <2>1. /\ pc'[w] = FlushFrom(held[w]) /\ FlushFrom(held[w]) \in {"content", "spans"}
        /\ held'[w] = held[w]
    BY <1>6 DEF FlushInterval, TypeOK, FlushFrom
  <2>2. pc'[w] = "spans" => BatchContent(held[w]) \subseteq content'
    BY <2>1, FlushFromInOrder
  <2>3. QED
    BY <1>3, <1>6, <2>1, <2>2 DEF FlushInterval
<1>7. CASE InsertContent(w)
  <2>1. BatchContent(held[w]) \subseteq content' /\ pc'[w] = "spans" /\ held'[w] = held[w]
    BY <1>7 DEF InsertContent, TypeOK
  <2>2. QED
    BY <1>3, <1>7, <2>1 DEF InsertContent
<1>8. ASSUME NEW landed \in BOOLEAN, InsertContentError(w, landed) PROVE InOrder(w)'
  BY <1>8, InOrderFrame DEF InsertContentError, TypeOK
<1>9. CASE InsertSpans(w)
  <2>1. stampS'[w] \subseteq content'
    BY <1>2, <1>9 DEF InsertSpans, InOrder, TypeOK
  <2>2. ASSUME NEW k \in stampT'[w] PROVE FirstSeen(k[1], k[2])'
    <3>1. k \in TraceKeys(held[w]) /\ BatchRows(held[w]) \subseteq rows'
      BY <1>9, <2>2 DEF InsertSpans, AddRows, TypeOK
    <3>2. PICK r \in rows' : \E h \in r.new : k = <<TraceOf[r.span], h>>
      BY <3>1 DEF TraceKeys
    <3>3. QED
      BY <3>2 DEF FirstSeen
  <2>3. ASSUME NEW c \in held'[w] PROVE Stored(c.msg)'
    <3>1. c \in held[w] /\ BatchRows(held[w]) \subseteq rows'
      BY <1>9, <2>3 DEF InsertSpans, AddRows
    <3>2. ASSUME NEW s \in Written(c) PROVE \E r \in rows' : r.span = s
      <4>1. [span |-> s, new |-> c.v[s].new] \in BatchRows(held[w])
        BY <3>1 DEF BatchRows
      <4>2. QED
        BY <3>1, <4>1
    <3>3. QED
      BY <3>2 DEF Stored, Written
  <2>4. pc'[w] = "stamp"
    BY <1>9 DEF InsertSpans, TypeOK
  <2>5. QED
    BY <2>1, <2>2, <2>3, <2>4 DEF InOrder
<1>10. CASE InsertSpansError(w)
  BY <1>10, InOrderFrame DEF InsertSpansError, TypeOK
<1>11. CASE InsertSpansTimeout(w)
  BY <1>11, InOrderFrame DEF InsertSpansTimeout, TypeOK
<1>12. ASSUME NEW h \in stampS[w], NEW ok \in BOOLEAN, StampStorage(w, h, ok) PROVE InOrder(w)'
  BY <1>12, InOrderFrame DEF StampStorage, TypeOK
<1>13. ASSUME NEW k \in stampT[w], NEW ok \in BOOLEAN, StampTrace(w, k, ok) PROVE InOrder(w)'
  BY <1>13, InOrderFrame DEF StampTrace, TypeOK
<1>14. ASSUME pc[w] \in {"stamp", "ack"}, held'[w] \subseteq held[w],
              pc'[w] \in {"collect", "ack"}, UNCHANGED <<stampS, stampT>>
       PROVE  InOrder(w)'
  BY <1>1, <1>2, <1>14 DEF InOrder
<1>15. CASE Stamped(w)
  BY <1>14, <1>15 DEF Stamped, TypeOK
<1>16. ASSUME NEW c \in held[w], Ack(w, c) PROVE InOrder(w)'
  BY <1>14, <1>16 DEF Ack, Settled, TypeOK
<1>17. ASSUME NEW c \in held[w], Requeue(w, c) PROVE InOrder(w)'
  <2>1. pc'[w] \notin {"spans", "stamp", "ack"}
    BY <1>17 DEF Requeue, Settled, TypeOK
  <2>2. QED
    BY <1>17, <2>1, InOrderFrame DEF Requeue, Settled
<1>18. CASE Disconnect(w)
  BY <1>18, InOrderFrame DEF Disconnect
<1>19. ASSUME Reset(w) PROVE InOrder(w)'
  BY <1>19, InOrderFrame DEF Reset, TypeOK
<1>20. QED
  BY <1>4, <1>5, <1>6, <1>7, <1>8, <1>9, <1>10, <1>11, <1>12, <1>13, <1>15, <1>16,
     <1>17, <1>18, <1>19 DEF Consume, Reconnect, Crash

LEMMA FlushStep ==
  ASSUME StoreInv, [Next]_vars
  PROVE  FlushInOrder'
<1> USE DEF producerVars, stampVars, cacheVars, storeVars
<1> SUFFICES ASSUME NEW u \in Worker PROVE InOrder(u)'
  BY DEF FlushInOrder
<1>1. CASE Produce
  BY <1>1, InOrderFrame DEF Produce, Submit, Preprocess, RejectTooLarge, Publish, PublishError
<1>2. ASSUME NEW w \in Worker, Consume(w) PROVE InOrder(u)'
  <2>1. CASE u = w
    BY <1>2, <2>1, ConsumeInOrder
  <2>2. CASE u # w
    <3>1. held'[u] = held[u] /\ pc'[u] = pc[u] /\ stampS'[u] = stampS[u] /\ stampT'[u] = stampT[u]
      BY <1>2, <2>2 DEF StoreInv, TypeOK, Consume, ReceiveEmpty, Receive, FlushInterval,
         InsertContent, InsertContentError, InsertSpans, InsertSpansError,
         InsertSpansTimeout, StampStorage, StampTrace, Stamped, Settled, Ack, Requeue,
         Disconnect, Reset, Reconnect, Crash
    <3>2. QED
      BY <3>1, InOrderFrame
  <2>3. QED
    BY <2>1, <2>2
<1>3. CASE Expire
  BY <1>3, InOrderFrame DEF Expire, ExpireStorage, ExpireTrace
<1>4. CASE UNCHANGED vars
  BY <1>4, InOrderFrame DEF vars
<1>5. QED
  BY <1>1, <1>2, <1>3, <1>4 DEF Next
\* An accepted request is somewhere: in the queue, unacknowledged with a
\* connected worker, or stored.
LEMMA AcceptedStep ==
  ASSUME StoreInv, [Next]_vars
  PROVE  NoAcceptedRequestLost'
<1> USE DEF StoreInv, producerVars, stampVars, cacheVars, storeVars
<1> DEFINE Waiting(m) == \E c \in queue : c.msg = m
           Held(m) == \E w \in Worker : live[w] /\ \E c \in held[w] : c.msg = m
<1> SUFFICES ASSUME NEW m \in Msg, copies'[m] > 0
             PROVE  Waiting(m)' \/ Held(m)' \/ Stored(m)'
  BY DEF NoAcceptedRequestLost
<1>1. Stored(m) => Stored(m)'
  BY Monotone, Persist
<1>2. ASSUME copies' = copies PROVE Waiting(m) \/ Held(m) \/ Stored(m)
  BY <1>2 DEF NoAcceptedRequestLost
<1>3. ASSUME copies' = copies, queue \subseteq queue', UNCHANGED <<held, live>>
      PROVE  Waiting(m)' \/ Held(m)' \/ Stored(m)'
  BY <1>1, <1>2, <1>3
<1>4. ASSUME NEW n \in Msg, NEW outcome, Publish(n, outcome)
      PROVE  Waiting(m)' \/ Held(m)' \/ Stored(m)'
  <2>1. CASE m = n
    <3>1. NewCopy(n) \in queue' /\ NewCopy(n).msg = m
      BY <1>4, <2>1 DEF Publish, NewCopy
    <3>2. QED
      BY <3>1
  <2>2. CASE m # n
    <3>1. copies'[m] = copies[m] /\ queue \subseteq queue' /\ UNCHANGED <<held, live>>
      BY <1>4, <2>2 DEF Publish, TypeOK
    <3>2. QED
      BY <1>1, <3>1 DEF NoAcceptedRequestLost
  <2>3. QED
    BY <2>1, <2>2
<1>5. CASE Produce
  BY <1>3, <1>4, <1>5 DEF Produce, Submit, Preprocess, RejectTooLarge, PublishError
<1>6. ASSUME NEW w \in Worker, Consume(w)
      PROVE  Waiting(m)' \/ Held(m)' \/ Stored(m)'
  <2>1. copies' = copies
    BY <1>6 DEF Consume, ReceiveEmpty, Receive, FlushInterval, InsertContent,
       InsertContentError, InsertSpans, InsertSpansError, InsertSpansTimeout,
       StampStorage, StampTrace, Stamped, Settled, Ack, Requeue, Disconnect, Reset,
       Reconnect, Crash
  <2>2. ASSUME NEW c \in queue, ReceiveEmpty(w, c)
        PROVE  Waiting(m)' \/ Held(m)' \/ Stored(m)'
    <3>1. c.msg = m => Stored(m)
      BY <2>2 DEF ReceiveEmpty, Stored
    <3>2. queue' = queue \ {c} /\ UNCHANGED <<held, live>>
      BY <2>2 DEF ReceiveEmpty
    <3>3. QED
      BY <1>1, <1>2, <2>1, <3>1, <3>2
  <2>3. ASSUME NEW c \in queue, Receive(w, c)
        PROVE  Waiting(m)' \/ Held(m)' \/ Stored(m)'
    <3>1. /\ queue' = queue \ {c} /\ live[w] /\ UNCHANGED live
          /\ \A u \in Worker : held[u] \subseteq held'[u]
          /\ c \in held'[w]
      BY <2>3 DEF Receive, TypeOK
    <3>2. QED
      BY <1>1, <1>2, <2>1, <3>1
  <2>4. ASSUME NEW c \in held[w], Ack(w, c)
        PROVE  Waiting(m)' \/ Held(m)' \/ Stored(m)'
    <3>1. Stored(c.msg)
      BY <2>4 DEF Ack, FlushInOrder, InOrder
    <3>2. /\ UNCHANGED <<queue, live>>
          /\ \A u \in Worker : held[u] \ {c} \subseteq held'[u]
      BY <2>4 DEF Ack, Settled, TypeOK
    <3>3. QED
      BY <1>1, <1>2, <2>1, <3>1, <3>2
  <2>5. ASSUME NEW c \in held[w], Requeue(w, c)
        PROVE  Waiting(m)' \/ Held(m)' \/ Stored(m)'
    <3>1. /\ queue' = queue \cup {c} /\ UNCHANGED live
          /\ \A u \in Worker : held[u] \ {c} \subseteq held'[u]
      BY <2>5 DEF Requeue, Settled, TypeOK
    <3>2. QED
      BY <1>1, <1>2, <2>1, <3>1
  <2>6. ASSUME queue \subseteq queue', live[w] => held[w] \subseteq queue',
               \A u \in Worker \ {w} : live[u] = live'[u] /\ held[u] = held'[u]
        PROVE  Waiting(m)' \/ Held(m)' \/ Stored(m)'
    BY <1>1, <1>2, <2>1, <2>6
  <2>7. CASE Disconnect(w) \/ Reconnect(w) \/ Crash(w)
    BY <2>6, <2>7 DEF Disconnect, Reset, Reconnect, Crash, TypeOK
  <2>8. CASE UNCHANGED <<queue, held, live>>
    BY <1>3, <2>1, <2>8
  <2>9. QED
    BY <1>6, <2>2, <2>3, <2>4, <2>5, <2>7, <2>8 DEF Consume, FlushInterval, InsertContent,
       InsertContentError, InsertSpans, InsertSpansError, InsertSpansTimeout,
       StampStorage, StampTrace, Stamped
<1>7. CASE Expire
  BY <1>3, <1>7 DEF Expire, ExpireStorage, ExpireTrace
<1>8. CASE UNCHANGED vars
  BY <1>3, <1>8 DEF vars
<1>9. QED
  BY <1>5, <1>6, <1>7, <1>8 DEF Next

-----------------------------------------------------------------------------
(* The theorems.                                                           *)

LEMMA InitStore == Init => StoreInv
<1> SUFFICES ASSUME Init PROVE StoreInv OBVIOUS
<1>1. TypeOK
  BY InitType
<1>2. SoundVerdicts /\ FlushInOrder
  BY DEF Init, SoundVerdicts, FlushInOrder, InOrder
<1>3. QED
  BY <1>1, <1>2 DEF Init, StoreInv, NoPhantomStorageKey, NoOrphanTraceMarker,
     FirstsStored, HashesResolve, FirstOccurrenceRecorded, NoAcceptedRequestLost

LEMMA NextStore == StoreInv /\ [Next]_vars => StoreInv'
<1> SUFFICES ASSUME StoreInv, [Next]_vars PROVE StoreInv' OBVIOUS
<1>1. TypeOK'
  BY NextType DEF StoreInv
<1>2. QED
  BY <1>1, KeysStep, VerdictsStep, FlushStep, RowsStep, AcceptedStep DEF StoreInv

\* Keys, verdicts, flushes and stores agree in every reachable state.
THEOREM StoreConsistent == Spec => []StoreInv
<1>1. StoreInv /\ [Next]_vars => StoreInv'
  BY NextStore
<1>2. QED
  BY InitStore, <1>1, PTL DEF Spec

\* A storage key that mark_seen left behind always names stored content.
THEOREM NoPhantomKeys == Spec => []NoPhantomStorageKey
<1>1. StoreInv => NoPhantomStorageKey
  BY DEF StoreInv
<1>2. QED
  BY <1>1, StoreConsistent, PTL

\* A trace key always has a stored span that records the first occurrence.
THEOREM NoOrphanMarkers == Spec => []NoOrphanTraceMarker
<1>1. StoreInv => NoOrphanTraceMarker
  BY DEF StoreInv
<1>2. QED
  BY <1>1, StoreConsistent, PTL

\* Every stored span can be read back in full.
THEOREM RowsResolve == Spec => []HashesResolve
<1>1. StoreInv => HashesResolve
  BY DEF StoreInv
<1>2. QED
  BY <1>1, StoreConsistent, PTL

\* Every message of a stored span is searchable in its trace.
THEOREM FirstOccurrences == Spec => []FirstOccurrenceRecorded
<1>1. StoreInv => FirstOccurrenceRecorded
  BY DEF StoreInv
<1>2. QED
  BY <1>1, StoreConsistent, PTL

\* No request the broker took is lost to failed inserts, lost channels or crashes.
THEOREM AcceptedNeverLost == Spec => []NoAcceptedRequestLost
<1>1. StoreInv => NoAcceptedRequestLost
  BY DEF StoreInv
<1>2. QED
  BY <1>1, StoreConsistent, PTL

-----------------------------------------------------------------------------
(* Rows per queue copy.                                                    *)

\* The deliveries there are.
InFlight == queue \cup UNION {held[w] : w \in Worker}

\* A delivery is told from the others by its request and its number, and its
\* number is one the broker has given out.
Numbered ==
  /\ \A c, d \in InFlight : c.msg = d.msg /\ c.n = d.n => c = d
  /\ \A c \in InFlight : c.n \in 1..copies[c.msg]

\* The copies of a batch that write span s.
Carrying(b, s) == {c \in b : s \in Written(c)}

\* The writes of span s still to come from what is in flight now: each ready
\* copy, and each copy in a batch whose spans are not inserted yet, at its place.
Unwritten(s) ==
  {<<c, {}>> : c \in Carrying(queue, s)} \cup
  UNION {{<<c, {w}>> : c \in Carrying(held[w], s)} :
           w \in {v \in Worker : pc[v] \notin {"stamp", "ack"}}}

\* What is written and what may still be is covered by the copies there are.
Covered(s) ==
  /\ IsFiniteSet(CopiesOf(s)) /\ IsFiniteSet(Unwritten(s))
  /\ inserts[s] + Cardinality(Unwritten(s)) <= Cardinality(CopiesOf(s)) * (1 + faults)

RowsInv == TypeOK /\ Numbered /\ \A s \in Span : Covered(s)

\* Membership in Unwritten, without its construction.
LEMMA UnwrittenIs ==
  ASSUME NEW s, NEW t
  PROVE  t \in Unwritten(s) <=>
           \/ \E c \in queue : s \in Written(c) /\ t = <<c, {}>>
           \/ \E w \in Worker : \E c \in held[w] :
                pc[w] \notin {"stamp", "ack"} /\ s \in Written(c) /\ t = <<c, {w}>>
BY DEF Unwritten, Carrying

\* Membership in CopiesOf.
LEMMA CopiesOfIs ==
  ASSUME NEW s, NEW k
  PROVE  k \in CopiesOf(s) <=>
           \E m \in Msg : s \in SpansOf[m] /\ \E n \in 1..copies[m] : k = <<m, n>>
BY DEF CopiesOf

\* Only a publish makes a delivery, and numbers it next.
LEMMA NumberedStep ==
  ASSUME TypeOK, Numbered, [Next]_vars
  PROVE  Numbered'
<1> USE DEF producerVars, stampVars, cacheVars, storeVars
<1>1. InFlight \subseteq Copy
  BY DEF InFlight, TypeOK
<1>2. ASSUME NEW m \in Msg, NEW outcome, Publish(m, outcome) PROVE Numbered'
  <2>1. /\ copies' = [copies EXCEPT ![m] = copies[m] + 1]
        /\ queue' = queue \cup {NewCopy(m)} /\ held' = held
        /\ NewCopy(m).msg = m /\ NewCopy(m).n = copies[m] + 1
    BY <1>2 DEF Publish, NewCopy
  <2>2. InFlight' = InFlight \cup {NewCopy(m)}
    BY <2>1 DEF InFlight
  <2>3. copies \in [Msg -> Nat] /\ \A c \in InFlight : c.msg \in Msg /\ c.n \in Nat
    BY <1>1 DEF TypeOK, Copy
  <2>4. \A c \in InFlight : c.n \in 1..copies'[c.msg]
    BY <2>1, <2>3 DEF Numbered
  <2>5. \A c \in InFlight : c.msg = m => c.n # copies[m] + 1
    BY <2>3 DEF Numbered
  <2>6. NewCopy(m).n \in 1..copies'[m]
    BY <2>1, <2>3
  <2>7. QED
    BY <2>1, <2>2, <2>4, <2>5, <2>6 DEF Numbered
<1>3. ASSUME InFlight' \subseteq InFlight, copies' = copies PROVE Numbered'
  BY <1>3 DEF Numbered
<1>4. CASE Produce /\ ~ \E m \in Msg, outcome \in {"accepted", "preparing", "failed"} : Publish(m, outcome)
  <2>1. UNCHANGED <<queue, held, copies>>
    BY <1>4 DEF Produce, Submit, Preprocess, RejectTooLarge, PublishError
  <2>2. QED
    BY <2>1, <1>3 DEF InFlight
<1>5. ASSUME NEW w \in Worker, Consume(w) PROVE Numbered'
  <2>1. copies' = copies
    BY <1>5 DEF Consume, ReceiveEmpty, Receive, FlushInterval, InsertContent,
       InsertContentError, InsertSpans, InsertSpansError, InsertSpansTimeout,
       StampStorage, StampTrace, Stamped, Settled, Ack, Requeue, Disconnect, Reset,
       Reconnect, Crash
  <2>2. queue' \subseteq queue \cup held[w]
    BY <1>5 DEF Consume, ReceiveEmpty, Receive, FlushInterval, InsertContent,
       InsertContentError, InsertSpans, InsertSpansError, InsertSpansTimeout,
       StampStorage, StampTrace, Stamped, Settled, Ack, Requeue, Disconnect, Reset,
       Reconnect, Crash
  <2>3. \A u \in Worker : held'[u] \subseteq held[u] \cup queue
    <3>1. Next
      BY <1>5 DEF Next
    <3>2. QED
      BY <3>1, DeliveryFrame
  <2>4. QED
    BY <2>1, <2>2, <2>3, <1>3 DEF InFlight
<1>6. CASE Expire \/ UNCHANGED vars
  <2>1. UNCHANGED <<queue, held, copies>>
    BY <1>6 DEF Expire, ExpireStorage, ExpireTrace, vars
  <2>2. QED
    BY <2>1, <1>3 DEF InFlight
<1>7. QED
  BY <1>2, <1>4, <1>5, <1>6 DEF Next, Produce

\* The copies in one batch that carry a span are no more than the copies there
\* are, and as many as their places in flight.
LEMMA BatchCount ==
  ASSUME TypeOK, Numbered, NEW s \in Span, NEW w \in Worker, IsFiniteSet(CopiesOf(s)),
         NEW place
  PROVE  LET P == Carrying(held[w], s)
             T == {<<c, place>> : c \in P}
         IN  /\ IsFiniteSet(P) /\ IsFiniteSet(T)
             /\ Cardinality(T) = Cardinality(P)
             /\ Cardinality(P) <= Cardinality(CopiesOf(s))
             /\ Cardinality(P) \in Nat
<1> DEFINE P == Carrying(held[w], s)
           T == {<<c, place>> : c \in P}
<1>1. IsFiniteSet(held[w]) /\ held[w] \subseteq Copy /\ P \subseteq held[w]
  BY DEF TypeOK, Carrying
<1>2. IsFiniteSet(P)
  BY <1>1, FS_Subset
<1>3. IsFiniteSet(T) /\ Cardinality(T) = Cardinality(P)
  <2> DEFINE f == [c \in P |-> <<c, place>>]
  <2> HIDE DEF P
  <2>1. f \in Bijection(P, T)
    BY DEF Bijection, Injection, Surjection, IsInjective
  <2> HIDE DEF f, T
  <2>2. ExistsBijection(P, T)
    BY <2>1 DEF ExistsBijection
  <2>3. QED
    BY <1>2, <2>2, FS_Bijection
<1>4. Cardinality(P) <= Cardinality(CopiesOf(s))
  <2> DEFINE g == [c \in P |-> <<c.msg, c.n>>]
  <2>1. \A c \in P : c \in InFlight /\ c.msg \in Msg /\ s \in SpansOf[c.msg]
    BY <1>1 DEF Carrying, InFlight, Copy, Written
  <2>2. \A c \in P : <<c.msg, c.n>> \in CopiesOf(s)
    BY <2>1, CopiesOfIs DEF Numbered
  <2>3. \A c, d \in P : <<c.msg, c.n>> = <<d.msg, d.n>> => c = d
    BY <2>1 DEF Numbered
  <2> HIDE DEF P
  <2>4. g \in Injection(P, CopiesOf(s))
    BY <2>2, <2>3 DEF Injection, IsInjective
  <2> HIDE DEF g
  <2>5. QED
    BY <2>4, FS_Injection
<1>5. Cardinality(P) \in Nat
  BY <1>2, FS_CardinalityType
<1>6. QED
  BY <1>2, <1>3, <1>4, <1>5

\* The bound grows with the faults.
LEMMA TimesGrows ==
  ASSUME NEW n \in Nat, NEW i \in Nat, NEW j \in Nat, i <= j
  PROVE  n * (1 + i) \in Nat /\ n * (1 + j) \in Nat /\ n * (1 + i) <= n * (1 + j)
<1> DEFINE d == j - i
<1>1. d \in Nat /\ 1 + j = (1 + i) + d
  OBVIOUS
<1>2. n * d \in Nat /\ n * (1 + i) \in Nat
  BY <1>1
<1> HIDE DEF d
<1>3. n * ((1 + i) + d) = n * (1 + i) + n * d
  BY <1>1
<1>4. QED
  BY <1>1, <1>2, <1>3

\* Nothing new in flight: the bound stays.
LEMMA FewerUnwritten ==
  ASSUME TypeOK, NEW s \in Span, Covered(s), inserts'[s] = inserts[s], copies' = copies,
         faults' \in Nat, faults' >= faults, Unwritten(s)' \subseteq Unwritten(s)
  PROVE  Covered(s)'
<1>1. CopiesOf(s)' = CopiesOf(s)
  BY DEF CopiesOf
<1>2. IsFiniteSet(Unwritten(s)') /\ Cardinality(Unwritten(s)') <= Cardinality(Unwritten(s))
  BY FS_Subset DEF Covered
<1> DEFINE n == Cardinality(CopiesOf(s))
           u == Cardinality(Unwritten(s))
           v == Cardinality(Unwritten(s)')
<1>3. n \in Nat /\ u \in Nat /\ v \in Nat
  BY <1>2, FS_CardinalityType DEF Covered
<1>4. inserts[s] \in Nat /\ faults \in Nat
  BY DEF TypeOK
<1>5. inserts[s] + u <= n * (1 + faults) /\ v <= u
  BY <1>2 DEF Covered
<1>6. Cardinality(CopiesOf(s)') = n /\ IsFiniteSet(CopiesOf(s)')
  BY <1>1 DEF Covered
<1> HIDE DEF n, u, v
<1>7. n * (1 + faults) <= n * (1 + faults') /\ n * (1 + faults) \in Nat /\ n * (1 + faults') \in Nat
  BY <1>3, <1>4, TimesGrows
<1>8. inserts'[s] + v <= n * (1 + faults')
  <2> DEFINE a == n * (1 + faults)
             b == n * (1 + faults')
  <2>1. a \in Nat /\ b \in Nat
    BY <1>7
  <2> HIDE DEF a, b
  <2>2. inserts[s] + u <= a /\ a <= b
    BY <1>5, <1>7 DEF a, b
  <2>3. inserts'[s] + v <= b
    BY <1>3, <1>4, <1>5, <2>1, <2>2
  <2>4. QED
    BY <2>3 DEF b
<1>9. QED
  BY <1>2, <1>6, <1>8 DEF Covered, n, v

\* A fault may bring every copy of one batch back into flight, or write it.
LEMMA OneFault ==
  ASSUME TypeOK, Numbered, NEW s \in Span, Covered(s), NEW w \in Worker, copies' = copies,
         faults' = faults + 1,
         \/ /\ inserts'[s] = inserts[s]
            /\ Unwritten(s)' \subseteq Unwritten(s) \cup {<<c, {}>> : c \in Carrying(held[w], s)}
         \/ /\ inserts'[s] = inserts[s] + Cardinality(Carrying(held[w], s))
            /\ Unwritten(s)' \subseteq Unwritten(s)
  PROVE  Covered(s)'
<1> DEFINE P == Carrying(held[w], s)
           T == {<<c, {}>> : c \in P}
           n == Cardinality(CopiesOf(s))
           u == Cardinality(Unwritten(s))
           v == Cardinality(Unwritten(s)')
           k == Cardinality(P)
           t == Cardinality(Unwritten(s) \cup T)
<1>1. CopiesOf(s)' = CopiesOf(s)
  BY DEF CopiesOf
<1>2. /\ IsFiniteSet(P) /\ IsFiniteSet(T) /\ Cardinality(T) = k /\ k <= n /\ k \in Nat
  BY BatchCount DEF Covered
<1> HIDE DEF P, T
<1>3. /\ IsFiniteSet(Unwritten(s) \cup T)
      /\ t = u + k - Cardinality(Unwritten(s) \cap T)
      /\ IsFiniteSet(Unwritten(s) \cap T)
  BY <1>2, FS_Union, FS_Intersection DEF Covered
<1>4. n \in Nat /\ u \in Nat /\ t \in Nat /\ Cardinality(Unwritten(s) \cap T) \in Nat
  BY <1>3, FS_CardinalityType DEF Covered
<1>5. t <= u + k
  BY <1>2, <1>3, <1>4
<1>6. \/ /\ inserts'[s] = inserts[s]
         /\ Unwritten(s)' \subseteq Unwritten(s) \cup T
      \/ /\ inserts'[s] = inserts[s] + k
         /\ Unwritten(s)' \subseteq Unwritten(s)
  BY DEF P, T
<1>7. IsFiniteSet(Unwritten(s)') /\ v \in Nat
  BY <1>3, <1>6, FS_Subset, FS_CardinalityType DEF Covered
<1>8. \/ inserts'[s] = inserts[s] /\ v <= t
      \/ inserts'[s] = inserts[s] + k /\ v <= u
  BY <1>3, <1>6, FS_Subset DEF Covered
<1>9. inserts[s] \in Nat /\ faults \in Nat
  BY DEF TypeOK
<1>10. inserts[s] + u <= n * (1 + faults)
  BY DEF Covered
<1>11. Cardinality(CopiesOf(s)') = n /\ IsFiniteSet(CopiesOf(s)')
  BY <1>1 DEF Covered
<1> HIDE DEF n, u, v, k, t
<1>12. n * (1 + faults') = n * (1 + faults) + n
  BY <1>4, <1>9
<1>13. n * (1 + faults) \in Nat
  BY <1>4, <1>9
<1> DEFINE a == n * (1 + faults)
<1>14. inserts'[s] + v <= a + n
  <2>1. inserts[s] + u <= a /\ a \in Nat
    BY <1>10, <1>13
  <2> HIDE DEF a
  <2>2. QED
    BY <1>2, <1>4, <1>5, <1>7, <1>8, <1>9, <2>1
<1>15. inserts'[s] + v <= n * (1 + faults')
  BY <1>12, <1>14
<1>16. QED
  BY <1>7, <1>11, <1>15 DEF Covered, n, v

\* A delivery that moves between the queue and a batch keeps its one place.
LEMMA OneMoves ==
  ASSUME TypeOK, NEW s \in Span, Covered(s), inserts'[s] = inserts[s], copies' = copies,
         faults' = faults, NEW x \in Unwritten(s), NEW y,
         Unwritten(s)' \subseteq (Unwritten(s) \ {x}) \cup {y}
  PROVE  Covered(s)'
<1> DEFINE U == Unwritten(s) \ {x}
           n == Cardinality(CopiesOf(s))
           u == Cardinality(Unwritten(s))
           v == Cardinality(Unwritten(s)')
           t == Cardinality(U \cup {y})
<1>1. CopiesOf(s)' = CopiesOf(s)
  BY DEF CopiesOf
<1>2. IsFiniteSet(U) /\ Cardinality(U) = u - 1
  BY FS_RemoveElement DEF Covered
<1> HIDE DEF U
<1>3. IsFiniteSet(U \cup {y}) /\ t \in {u - 1, u}
  <2>1. IsFiniteSet(U \cup {y}) /\ t = IF y \in U THEN Cardinality(U) ELSE Cardinality(U) + 1
    BY <1>2, FS_AddElement
  <2>2. u \in Nat
    BY FS_CardinalityType DEF Covered
  <2> HIDE DEF u, t
  <2>3. QED
    BY <1>2, <2>1, <2>2
<1>4. Unwritten(s)' \subseteq U \cup {y}
  BY DEF U
<1>5. IsFiniteSet(Unwritten(s)') /\ v <= t
  BY <1>3, <1>4, FS_Subset
<1>6. u \in Nat /\ v \in Nat /\ n \in Nat
  BY <1>5, FS_CardinalityType DEF Covered
<1>7. inserts[s] + u <= n * (1 + faults) /\ inserts[s] \in Nat /\ faults \in Nat
  BY DEF Covered, TypeOK
<1> DEFINE a == n * (1 + faults)
<1>8. inserts'[s] + v <= a
  <2>1. a \in Nat /\ inserts[s] + u <= a
    BY <1>6, <1>7
  <2> HIDE DEF a, n, u, v, t
  <2>2. QED
    BY <1>3, <1>5, <1>6, <1>7, <2>1
<1>9. Cardinality(CopiesOf(s)') = n /\ IsFiniteSet(CopiesOf(s)')
  BY <1>1 DEF Covered
<1>10. QED
  BY <1>5, <1>8, <1>9 DEF Covered

\* A new copy may be written once, and once more for every fault before it.
LEMMA PublishCovered ==
  ASSUME TypeOK, Numbered, NEW s \in Span, Covered(s), NEW m \in Msg, NEW outcome,
         Publish(m, outcome)
  PROVE  Covered(s)'
<1> DEFINE c0 == NewCopy(m)
           k0 == <<m, copies[m] + 1>>
<1>1. /\ copies' = [copies EXCEPT ![m] = copies[m] + 1]
      /\ queue' = queue \cup {c0}
      /\ UNCHANGED <<held, pc, inserts, faults>>
      /\ c0.msg = m
  BY DEF Publish, NewCopy, storeVars
<1>2. copies \in [Msg -> Nat]
  BY DEF TypeOK
<1>3. \A k : k \in CopiesOf(s)' <=>
         \E r \in Msg : s \in SpansOf[r] /\ \E n \in 1..copies'[r] : k = <<r, n>>
  BY DEF CopiesOf
<1>4. \A t : t \in Unwritten(s)' <=>
         \/ \E c \in queue' : s \in Written(c) /\ t = <<c, {}>>
         \/ \E w \in Worker : \E c \in held[w] :
              pc[w] \notin {"stamp", "ack"} /\ s \in Written(c) /\ t = <<c, {w}>>
  BY <1>1 DEF Unwritten, Carrying, Written
<1>5. CASE s \notin SpansOf[m]
  <2>1. s \notin Written(c0)
    BY <1>1, <1>5 DEF Written
  <2>2. Unwritten(s)' = Unwritten(s)
    <3>1. ASSUME NEW t PROVE t \in Unwritten(s)' <=> t \in Unwritten(s)
      <4>1. t \in Unwritten(s) <=>
              \/ \E c \in queue : s \in Written(c) /\ t = <<c, {}>>
              \/ \E w \in Worker : \E c \in held[w] :
                   pc[w] \notin {"stamp", "ack"} /\ s \in Written(c) /\ t = <<c, {w}>>
        BY UnwrittenIs
      <4> HIDE DEF c0
      <4>2. QED
        BY <1>1, <1>4, <2>1, <4>1
    <3>2. QED
      BY <3>1
  <2>3. CopiesOf(s)' = CopiesOf(s)
    <3>1. \A r \in Msg : s \in SpansOf[r] => copies'[r] = copies[r]
      BY <1>1, <1>2, <1>5
    <3>2. \A k : k \in CopiesOf(s) <=>
            \E r \in Msg : s \in SpansOf[r] /\ \E n \in 1..copies[r] : k = <<r, n>>
      BY CopiesOfIs
    <3>3. \A k : k \in CopiesOf(s)' <=> k \in CopiesOf(s)
      BY <1>3, <3>1, <3>2
    <3>4. QED
      BY <3>3
  <2>4. QED
    BY <1>1, <2>2, <2>3 DEF Covered
<1>6. CASE s \in SpansOf[m]
  <2> DEFINE n == Cardinality(CopiesOf(s))
             u == Cardinality(Unwritten(s))
             v == Cardinality(Unwritten(s)')
  <2>1. CopiesOf(s)' = CopiesOf(s) \cup {k0}
    <3>1. ASSUME NEW k PROVE k \in CopiesOf(s)' <=> k \in CopiesOf(s) \cup {k0}
      <4>1. ASSUME NEW r \in Msg, NEW i \in 1..copies'[r], k = <<r, i>>, s \in SpansOf[r]
            PROVE  k \in CopiesOf(s) \cup {k0}
        <5>1. i \in 1..copies[r] \/ (r = m /\ i = copies[m] + 1)
          BY <1>1, <1>2, <4>1
        <5>2. QED
          BY <4>1, <5>1, CopiesOfIs
      <4>2. ASSUME k \in CopiesOf(s) PROVE k \in CopiesOf(s)'
        <5>1. \A r \in Msg : 1..copies[r] \subseteq 1..copies'[r]
          BY <1>1, <1>2
        <5>2. QED
          BY <1>3, <4>2, <5>1, CopiesOfIs
      <4>3. k0 \in CopiesOf(s)'
        <5>1. copies[m] + 1 \in 1..copies'[m]
          BY <1>1, <1>2
        <5>2. QED
          BY <1>3, <1>6, <5>1
      <4>4. QED
        BY <1>3, <4>1, <4>2, <4>3
    <3>2. QED
      BY <3>1
  <2>2. k0 \notin CopiesOf(s)
    <3>1. copies[m] + 1 \notin 1..copies[m]
      BY <1>2
    <3>2. QED
      BY <3>1, CopiesOfIs
  <2>3. IsFiniteSet(CopiesOf(s)') /\ Cardinality(CopiesOf(s)') = n + 1
    <3> HIDE DEF k0
    <3>1. QED
      BY <2>1, <2>2, FS_AddElement DEF Covered
  <2>4. Unwritten(s)' \subseteq Unwritten(s) \cup {<<c0, {}>>}
    <3> HIDE DEF c0
    <3>1. QED
      BY <1>1, <1>4, UnwrittenIs
  <2>5. /\ IsFiniteSet(Unwritten(s) \cup {<<c0, {}>>})
        /\ Cardinality(Unwritten(s) \cup {<<c0, {}>>}) \in {u, u + 1}
    BY FS_AddElement DEF Covered
  <2>6. IsFiniteSet(Unwritten(s)') /\ v <= Cardinality(Unwritten(s) \cup {<<c0, {}>>})
    BY <2>4, <2>5, FS_Subset
  <2>7. u \in Nat /\ v \in Nat /\ n \in Nat
    BY <2>6, FS_CardinalityType DEF Covered
  <2>8. v <= u + 1
    BY <2>5, <2>6, <2>7
  <2>9. inserts[s] + u <= n * (1 + faults) /\ inserts[s] \in Nat /\ faults \in Nat
    BY DEF Covered, TypeOK
  <2> HIDE DEF n, u, v
  <2>10. (n + 1) * (1 + faults) = n * (1 + faults) + (1 + faults)
    BY <2>7, <2>9
  <2> DEFINE a == n * (1 + faults)
  <2>11. a \in Nat /\ inserts[s] + u <= a
    BY <2>7, <2>9
  <2>12. inserts[s] + v <= a + (1 + faults)
    <3> HIDE DEF a
    <3>1. QED
      BY <2>7, <2>8, <2>9, <2>11
  <2>13. inserts'[s] + v <= (n + 1) * (1 + faults')
    BY <2>10, <2>12, <1>1
  <2>14. QED
    BY <2>3, <2>6, <2>13 DEF v, Covered
<1>7. QED
  BY <1>5, <1>6

\* Inserting a batch writes what was to be written of it.
LEMMA InsertCovered ==
  ASSUME TypeOK, Numbered, NEW s \in Span, Covered(s), NEW w \in Worker, InsertSpans(w)
  PROVE  Covered(s)'
<1> DEFINE P == Carrying(held[w], s)
           T == {<<c, {w}>> : c \in P}
           n == Cardinality(CopiesOf(s))
           u == Cardinality(Unwritten(s))
           v == Cardinality(Unwritten(s)')
           k == Cardinality(P)
           t == Cardinality(Unwritten(s) \ T)
<1>1. /\ pc[w] = "spans" /\ pc' = [pc EXCEPT ![w] = "stamp"]
      /\ inserts' = [r \in Span |-> inserts[r] + Cardinality({c \in held[w] : r \in Written(c)})]
      /\ UNCHANGED <<queue, held, copies, faults>>
  BY DEF InsertSpans, AddRows, producerVars
<1>2. inserts'[s] = inserts[s] + k
  BY <1>1 DEF Carrying
<1>3. pc'[w] = "stamp" /\ \A x \in Worker : x # w => pc'[x] = pc[x]
  BY <1>1 DEF TypeOK
<1>4. \A x : x \in Unwritten(s)' <=>
         \/ \E c \in queue : s \in Written(c) /\ x = <<c, {}>>
         \/ \E y \in Worker : \E c \in held[y] :
              pc'[y] \notin {"stamp", "ack"} /\ s \in Written(c) /\ x = <<c, {y}>>
  BY <1>1 DEF Unwritten, Carrying, Written
<1>5. \A x \in T : \E c : x = <<c, {w}>>
  OBVIOUS
<1>6. Unwritten(s)' \subseteq Unwritten(s) \ T
  <2> HIDE DEF T
  <2>1. ASSUME NEW x \in Unwritten(s)' PROVE x \in Unwritten(s) /\ x \notin T
    <3>1. ASSUME NEW c \in queue, s \in Written(c), x = <<c, {}>>
          PROVE  x \in Unwritten(s) /\ x \notin T
      BY <3>1, <1>5, UnwrittenIs
    <3>2. ASSUME NEW y \in Worker, NEW c \in held[y],
                 pc'[y] \notin {"stamp", "ack"}, s \in Written(c), x = <<c, {y}>>
          PROVE  x \in Unwritten(s) /\ x \notin T
      <4>1. y # w /\ pc[y] \notin {"stamp", "ack"}
        BY <1>3, <3>2
      <4>2. {y} # {w}
        BY <4>1
      <4>3. QED
        BY <3>2, <4>1, <4>2, <1>5, UnwrittenIs
    <3>3. QED
      BY <1>4, <3>1, <3>2
  <2>2. QED
    BY <2>1
<1>7. T \subseteq Unwritten(s)
  BY <1>1, UnwrittenIs DEF Carrying
<1>8. /\ IsFiniteSet(P) /\ IsFiniteSet(T) /\ Cardinality(T) = k /\ k <= n /\ k \in Nat
  BY BatchCount DEF Covered
<1> HIDE DEF P, T
<1>9. IsFiniteSet(Unwritten(s) \ T) /\ t = u - k
  <2>1. Unwritten(s) \cap T = T
    BY <1>7
  <2>2. /\ IsFiniteSet(Unwritten(s) \ T)
        /\ t = u - Cardinality(Unwritten(s) \cap T)
    BY FS_Difference DEF Covered
  <2>3. Cardinality(Unwritten(s) \cap T) = k
    BY <2>1, <1>8
  <2>4. QED
    BY <2>2, <2>3
<1>10. IsFiniteSet(Unwritten(s)') /\ v <= t
  BY <1>6, <1>9, FS_Subset
<1>11. n \in Nat /\ u \in Nat /\ v \in Nat /\ inserts[s] \in Nat
  BY <1>10, FS_CardinalityType DEF Covered, TypeOK
<1>12. inserts[s] + u <= n * (1 + faults) /\ CopiesOf(s)' = CopiesOf(s)
  BY <1>1 DEF Covered, CopiesOf
<1> DEFINE a == n * (1 + faults)
<1>13. inserts'[s] + v <= a
  <2>1. a \in Nat /\ inserts[s] + u <= a
    BY <1>11, <1>12 DEF TypeOK
  <2> HIDE DEF a, n, u, v, t, k
  <2>2. QED
    BY <1>2, <1>8, <1>9, <1>10, <1>11, <2>1
<1>14. QED
  BY <1>1, <1>10, <1>12, <1>13 DEF Covered

\* Every step keeps every span covered.
LEMMA CoveredStep ==
  ASSUME RowsInv, [Next]_vars, NEW s \in Span
  PROVE  Covered(s)'
<1> USE DEF producerVars, stampVars, cacheVars, storeVars
<1>1. TypeOK /\ Numbered /\ Covered(s)
  BY DEF RowsInv
<1>2. faults \in Nat /\ pc \in [Worker -> {"collect", "content", "spans", "stamp", "ack", "requeue"}]
      /\ held \in [Worker -> SUBSET Copy]
  BY <1>1 DEF TypeOK
<1>3. ASSUME inserts' = inserts, copies' = copies, faults' \in Nat, faults' >= faults,
             queue' \subseteq queue,
             \A w \in Worker : held'[w] \subseteq held[w],
             \A w \in Worker : held'[w] # {} /\ pc'[w] \notin {"stamp", "ack"}
                                => pc[w] \notin {"stamp", "ack"}
      PROVE  Covered(s)'
  <2>1. \A t : t \in Unwritten(s)' <=>
           \/ \E c \in queue' : s \in Written(c) /\ t = <<c, {}>>
           \/ \E w \in Worker : \E c \in held'[w] :
                pc'[w] \notin {"stamp", "ack"} /\ s \in Written(c) /\ t = <<c, {w}>>
    BY DEF Unwritten, Carrying, Written
  <2>2. Unwritten(s)' \subseteq Unwritten(s)
    BY <1>3, <2>1, UnwrittenIs
  <2>3. QED
    BY <1>1, <1>3, <2>2, FewerUnwritten
<1>4. ASSUME NEW m \in Msg, NEW outcome, Publish(m, outcome) PROVE Covered(s)'
  BY <1>1, <1>4, PublishCovered
<1>5. ASSUME NEW w \in Worker, Consume(w) PROVE Covered(s)'
  <2>1. ASSUME NEW c \in queue, ReceiveEmpty(w, c) PROVE Covered(s)'
    <3>1. /\ queue' = queue \ {c}
          /\ UNCHANGED <<copies, held, pc, inserts, faults>>
      BY <2>1 DEF ReceiveEmpty
    <3>2. QED
      BY <1>2, <1>3, <3>1
  <2>2. ASSUME NEW c \in queue, Receive(w, c) PROVE Covered(s)'
    <3>1. /\ pc[w] = "collect" /\ queue' = queue \ {c}
          /\ held' = [held EXCEPT ![w] = held[w] \cup {c}]
          /\ \A x \in Worker : x # w => pc'[x] = pc[x]
          /\ UNCHANGED <<copies, inserts, faults>>
      BY <1>2, <2>2 DEF Receive
    <3>2. \A x \in Worker : held'[x] = IF x = w THEN held[w] \cup {c} ELSE held[x]
      BY <1>2, <3>1
    <3>3. \A t : t \in Unwritten(s)' <=>
             \/ \E d \in queue' : s \in Written(d) /\ t = <<d, {}>>
             \/ \E x \in Worker : \E d \in held'[x] :
                  pc'[x] \notin {"stamp", "ack"} /\ s \in Written(d) /\ t = <<d, {x}>>
      BY DEF Unwritten, Carrying, Written
    <3> DEFINE a == <<c, {}>>
               b == <<c, {w}>>
    <3>4. CASE s \in Written(c)
      <4>1. a \in Unwritten(s)
        BY <3>4, UnwrittenIs
      <4>2. ASSUME NEW t \in Unwritten(s)', t # b PROVE t \in Unwritten(s) \ {a}
        <5>1. ASSUME NEW d \in queue', s \in Written(d), t = <<d, {}>>
              PROVE  t \in Unwritten(s) \ {a}
          <6>1. d \in queue /\ d # c
            BY <3>1
          <6>2. t # a
            BY <5>1, <6>1
          <6>3. QED
            BY <5>1, <6>1, <6>2, UnwrittenIs
        <5>2. ASSUME NEW x \in Worker, NEW d \in held'[x],
                     pc'[x] \notin {"stamp", "ack"}, s \in Written(d), t = <<d, {x}>>
              PROVE  t \in Unwritten(s) \ {a}
          <6>1. d \in held[x] /\ pc[x] \notin {"stamp", "ack"}
            BY <3>1, <3>2, <4>2, <5>2
          <6>2. t # a
            BY <5>2
          <6>3. QED
            BY <5>2, <6>1, <6>2, UnwrittenIs
        <5>3. QED
          BY <3>3, <5>1, <5>2
      <4>3. Unwritten(s)' \subseteq (Unwritten(s) \ {a}) \cup {b}
        BY <4>2
      <4> HIDE DEF a, b
      <4>4. QED
        BY <1>1, <3>1, <4>1, <4>3, OneMoves
    <3>5. CASE s \notin Written(c)
      <4>1. ASSUME NEW t \in Unwritten(s)' PROVE t \in Unwritten(s)
        <5>1. ASSUME NEW d \in queue', s \in Written(d), t = <<d, {}>>
              PROVE  t \in Unwritten(s)
          BY <3>1, <5>1, UnwrittenIs
        <5>2. ASSUME NEW x \in Worker, NEW d \in held'[x],
                     pc'[x] \notin {"stamp", "ack"}, s \in Written(d), t = <<d, {x}>>
              PROVE  t \in Unwritten(s)
          <6>1. d \in held[x] /\ pc[x] \notin {"stamp", "ack"}
            BY <3>1, <3>2, <3>5, <5>2
          <6>2. QED
            BY <5>2, <6>1, UnwrittenIs
        <5>3. QED
          BY <3>3, <5>1, <5>2
      <4>2. QED
        BY <1>1, <1>2, <3>1, <4>1, FewerUnwritten
    <3>6. QED
      BY <3>4, <3>5
  <2>3. CASE FlushInterval(w)
    <3>1. /\ pc[w] = "collect" /\ \A x \in Worker : x # w => pc'[x] = pc[x]
          /\ UNCHANGED <<queue, held, copies, inserts, faults>>
      BY <1>2, <2>3 DEF FlushInterval
    <3>2. QED
      BY <1>2, <1>3, <3>1
  <2>4. CASE InsertContent(w) \/ InsertSpansError(w) \/ Stamped(w)
             \/ \E landed \in BOOLEAN : InsertContentError(w, landed)
    <3>1. /\ pc[w] \in {"content", "spans", "stamp"}
          /\ pc'[w] \in {"stamp", "ack"} \/ pc[w] # "stamp"
          /\ \A x \in Worker : x # w => pc'[x] = pc[x]
          /\ UNCHANGED <<queue, held, copies, inserts, faults>>
      BY <1>2, <2>4 DEF InsertContent, InsertSpansError, Stamped, InsertContentError
    <3>2. QED
      BY <1>2, <1>3, <3>1
  <2>5. CASE InsertSpans(w)
    BY <1>1, <2>5, InsertCovered
  <2>6. CASE InsertSpansTimeout(w)
    <3>1. /\ pc[w] = "spans" /\ \A x \in Worker : x # w => pc'[x] = pc[x]
          /\ inserts' = [r \in Span |-> inserts[r] + Cardinality({c \in held[w] : r \in Written(c)})]
          /\ faults' = faults + 1
          /\ UNCHANGED <<queue, held, copies>>
      BY <1>2, <2>6 DEF InsertSpansTimeout, AddRows
    <3>2. inserts'[s] = inserts[s] + Cardinality(Carrying(held[w], s))
      BY <3>1 DEF Carrying
    <3>3. \A t : t \in Unwritten(s)' <=>
             \/ \E d \in queue' : s \in Written(d) /\ t = <<d, {}>>
             \/ \E x \in Worker : \E d \in held'[x] :
                  pc'[x] \notin {"stamp", "ack"} /\ s \in Written(d) /\ t = <<d, {x}>>
      BY DEF Unwritten, Carrying, Written
    <3>4. Unwritten(s)' \subseteq Unwritten(s)
      BY <3>1, <3>3, UnwrittenIs
    <3>5. QED
      BY <1>1, <3>1, <3>2, <3>4, OneFault
  <2>7. ASSUME \/ \E h \in stampS[w], ok \in BOOLEAN : StampStorage(w, h, ok)
               \/ \E k \in stampT[w], ok \in BOOLEAN : StampTrace(w, k, ok)
        PROVE  Covered(s)'
    <3>1. UNCHANGED <<queue, held, pc, copies, inserts, faults>>
      BY <2>7 DEF StampStorage, StampTrace
    <3>2. QED
      BY <1>2, <1>3, <3>1
  <2>8. ASSUME NEW c \in held[w], Ack(w, c) PROVE Covered(s)'
    <3>1. /\ pc[w] = "ack" /\ held' = [held EXCEPT ![w] = held[w] \ {c}]
          /\ pc' = [pc EXCEPT ![w] = IF held[w] = {c} THEN "collect" ELSE pc[w]]
          /\ UNCHANGED <<queue, copies, inserts, faults>>
      BY <2>8 DEF Ack, Settled
    <3>2. \A x \in Worker : /\ held'[x] = IF x = w THEN held[w] \ {c} ELSE held[x]
                            /\ x # w => pc'[x] = pc[x]
      BY <1>2, <3>1
    <3>3. held'[w] # {} => pc'[w] = "ack"
      BY <1>2, <3>1
    <3>4. QED
      BY <1>2, <1>3, <3>1, <3>2, <3>3
  <2>9. ASSUME NEW c \in held[w], Requeue(w, c) PROVE Covered(s)'
    <3>1. /\ pc[w] = "requeue" /\ held' = [held EXCEPT ![w] = held[w] \ {c}]
          /\ queue' = queue \cup {c}
          /\ \A x \in Worker : x # w => pc'[x] = pc[x]
          /\ UNCHANGED <<copies, inserts, faults>>
      BY <1>2, <2>9 DEF Requeue, Settled
    <3>2. \A x \in Worker : held'[x] = IF x = w THEN held[w] \ {c} ELSE held[x]
      BY <1>2, <3>1
    <3>3. \A t : t \in Unwritten(s)' <=>
             \/ \E d \in queue' : s \in Written(d) /\ t = <<d, {}>>
             \/ \E x \in Worker : \E d \in held'[x] :
                  pc'[x] \notin {"stamp", "ack"} /\ s \in Written(d) /\ t = <<d, {x}>>
      BY DEF Unwritten, Carrying, Written
    <3> DEFINE a == <<c, {w}>>
               b == <<c, {}>>
    <3>4. CASE s \in Written(c)
      <4>1. a \in Unwritten(s)
        BY <3>1, <3>4, UnwrittenIs
      <4>2. ASSUME NEW t \in Unwritten(s)', t # b PROVE t \in Unwritten(s) \ {a}
        <5>1. ASSUME NEW d \in queue', s \in Written(d), t = <<d, {}>>
              PROVE  t \in Unwritten(s) \ {a}
          <6>1. d \in queue
            BY <3>1, <4>2, <5>1
          <6>2. t # a
            BY <5>1
          <6>3. QED
            BY <5>1, <6>1, <6>2, UnwrittenIs
        <5>2. ASSUME NEW x \in Worker, NEW d \in held'[x],
                     pc'[x] \notin {"stamp", "ack"}, s \in Written(d), t = <<d, {x}>>
              PROVE  t \in Unwritten(s) \ {a}
          <6>1. d \in held[x] /\ pc[x] \notin {"stamp", "ack"}
            BY <3>1, <3>2, <5>2
          <6>2. x = w => d # c
            BY <3>2
          <6>3. t # a
            <7>1. {x} = {w} => x = w
              OBVIOUS
            <7>2. QED
              BY <5>2, <6>2, <7>1
          <6>4. QED
            BY <5>2, <6>1, <6>3, UnwrittenIs
        <5>3. QED
          BY <3>3, <5>1, <5>2
      <4>3. Unwritten(s)' \subseteq (Unwritten(s) \ {a}) \cup {b}
        BY <4>2
      <4> HIDE DEF a, b
      <4>4. QED
        BY <1>1, <3>1, <4>1, <4>3, OneMoves
    <3>5. CASE s \notin Written(c)
      <4>1. ASSUME NEW t \in Unwritten(s)' PROVE t \in Unwritten(s)
        <5>1. ASSUME NEW d \in queue', s \in Written(d), t = <<d, {}>>
              PROVE  t \in Unwritten(s)
          BY <3>1, <3>5, <5>1, UnwrittenIs
        <5>2. ASSUME NEW x \in Worker, NEW d \in held'[x],
                     pc'[x] \notin {"stamp", "ack"}, s \in Written(d), t = <<d, {x}>>
              PROVE  t \in Unwritten(s)
          <6>1. d \in held[x] /\ pc[x] \notin {"stamp", "ack"}
            BY <3>1, <3>2, <5>2
          <6>2. QED
            BY <5>2, <6>1, UnwrittenIs
        <5>3. QED
          BY <3>3, <5>1, <5>2
      <4>2. QED
        BY <1>1, <1>2, <3>1, <4>1, FewerUnwritten
    <3>6. QED
      BY <3>4, <3>5
  <2>10. CASE Reconnect(w)
    <3>1. /\ held' = [held EXCEPT ![w] = {}] /\ pc' = [pc EXCEPT ![w] = "collect"]
          /\ UNCHANGED <<queue, copies, inserts, faults>>
      BY <2>10 DEF Reconnect, Reset
    <3>2. /\ held'[w] = {}
          /\ \A x \in Worker : x # w => held'[x] = held[x] /\ pc'[x] = pc[x]
      BY <1>2, <3>1
    <3>3. QED
      BY <1>2, <1>3, <3>1, <3>2
  <2>11. CASE Disconnect(w) \/ Crash(w)
    <3>1. /\ queue' \subseteq queue \cup held[w]
          /\ faults' = faults + 1
          /\ UNCHANGED <<copies, inserts>>
      BY <2>11 DEF Disconnect, Crash, Reset
    <3>2. \A x \in Worker : \/ held'[x] = {}
                            \/ held'[x] = held[x] /\ pc'[x] = pc[x]
      BY <1>2, <2>11 DEF Disconnect, Crash, Reset
    <3>3. \A t : t \in Unwritten(s)' <=>
             \/ \E d \in queue' : s \in Written(d) /\ t = <<d, {}>>
             \/ \E x \in Worker : \E d \in held'[x] :
                  pc'[x] \notin {"stamp", "ack"} /\ s \in Written(d) /\ t = <<d, {x}>>
      BY DEF Unwritten, Carrying, Written
    <3> DEFINE T == {<<c, {}>> : c \in Carrying(held[w], s)}
    <3>4. \A c \in held[w] : s \in Written(c) => <<c, {}>> \in T
      BY DEF Carrying
    <3> HIDE DEF T
    <3>5. Unwritten(s)' \subseteq Unwritten(s) \cup T
      BY <3>1, <3>2, <3>3, <3>4, UnwrittenIs
    <3>6. QED
      BY <1>1, <3>1, <3>5, OneFault DEF T
  <2>12. QED
    BY <1>5, <2>1, <2>2, <2>3, <2>4, <2>5, <2>6, <2>7, <2>8, <2>9, <2>10, <2>11 DEF Consume
<1>6. ASSUME NEW m \in Msg, \/ Submit(m) \/ (\E r \in Span : Preprocess(m, r))
                             \/ RejectTooLarge(m) \/ PublishError(m)
      PROVE  Covered(s)'
  <2>1. /\ UNCHANGED <<queue, held, pc, copies, inserts>>
        /\ faults' \in {faults, faults + 1}
    BY <1>6 DEF Submit, Preprocess, RejectTooLarge, PublishError
  <2>2. QED
    BY <1>2, <1>3, <2>1
<1>7. CASE Expire \/ UNCHANGED vars
  <2>1. UNCHANGED <<queue, held, pc, copies, inserts, faults>>
    BY <1>7 DEF Expire, ExpireStorage, ExpireTrace, vars
  <2>2. QED
    BY <1>2, <1>3, <2>1
<1>8. QED
  BY <1>4, <1>5, <1>6, <1>7 DEF Next, Produce

\* Every queue copy that carries a span writes it once, and once more at most
\* for every fault, for any number of workers, requests and retries.
THEOREM RowsBounded == Spec => []RowsPerCopy
<1>1. Init => RowsInv
  <2> SUFFICES ASSUME Init PROVE RowsInv
    OBVIOUS
  <2>1. TypeOK
    BY InitType
  <2>2. InFlight = {}
    BY DEF Init, InFlight
  <2>3. Numbered
    BY <2>2 DEF Numbered
  <2>4. ASSUME NEW s \in Span PROVE Covered(s)
    <3>1. CopiesOf(s) = {}
      BY CopiesOfIs DEF Init
    <3>2. Unwritten(s) = {}
      BY UnwrittenIs DEF Init
    <3>3. inserts[s] = 0 /\ faults = 0
      BY DEF Init
    <3>4. QED
      BY <3>1, <3>2, <3>3, FS_EmptySet DEF Covered
  <2>5. QED
    BY <2>1, <2>3, <2>4 DEF RowsInv
<1>2. RowsInv /\ [Next]_vars => RowsInv'
  <2> SUFFICES ASSUME RowsInv, [Next]_vars PROVE RowsInv'
    OBVIOUS
  <2>1. TypeOK' /\ Numbered'
    BY NextType, NumberedStep DEF RowsInv
  <2>2. \A s \in Span : Covered(s)'
    BY CoveredStep
  <2>3. QED
    BY <2>1, <2>2 DEF RowsInv
<1>3. RowsInv => RowsPerCopy
  <2> SUFFICES ASSUME RowsInv, NEW s \in Span
               PROVE  inserts[s] <= Cardinality(CopiesOf(s)) * (1 + faults)
    BY DEF RowsPerCopy
  <2> DEFINE n == Cardinality(CopiesOf(s))
             u == Cardinality(Unwritten(s))
             a == n * (1 + faults)
  <2>1. inserts[s] + u <= a
    BY DEF RowsInv, Covered
  <2>2. u \in Nat /\ n \in Nat
    BY FS_CardinalityType DEF RowsInv, Covered
  <2>3. a \in Nat /\ inserts[s] \in Nat
    BY <2>2, TimesGrows DEF RowsInv, TypeOK
  <2> HIDE DEF a, u, n
  <2>4. inserts[s] <= a
    BY <2>1, <2>2, <2>3
  <2>5. QED
    BY <2>4 DEF a, n
<1>4. QED
  BY <1>1, <1>2, <1>3, PTL DEF Spec

-----------------------------------------------------------------------------
(* SpanIngest implements IngestContract.                                   *)

\* The refinement mapping of SpanIngest by name.
Accepted == {m \in Msg : copies[m] > 0}
Durable == {r.span : r \in rows}
FirstsOf(R) == UNION {{<<TraceOf[r.span], h>> : h \in r.new} : r \in R}

\* Whatever travels was accepted: only a publish makes a delivery, and what is
\* delivered again was delivered before.
DeliveriesAccepted ==
  /\ \A c \in queue : copies[c.msg] > 0
  /\ \A w \in Worker : \A c \in held[w] : copies[c.msg] > 0

-----------------------------------------------------------------------------
(* Deliveries come from accepted requests.                                 *)

\* Counters of accepted copies only grow, and a new delivery is counted.
LEMMA CopiesGrow ==
  ASSUME TypeOK, [Next]_vars
  PROVE  /\ \A m \in Msg : copies[m] > 0 => copies'[m] > 0
         /\ \A c \in queue' :
              \/ c \in queue
              \/ \E w \in Worker : c \in held[w]
              \/ (c.msg \in Msg /\ copies'[c.msg] > 0)
<1> USE DEF producerVars, stampVars, cacheVars, storeVars
<1>1. ASSUME NEW n \in Msg, NEW outcome, Publish(n, outcome)
      PROVE  /\ \A m \in Msg : copies[m] > 0 => copies'[m] > 0
             /\ \A c \in queue' : c \in queue \/ (c.msg \in Msg /\ copies'[c.msg] > 0)
  <2>1. /\ copies' = [copies EXCEPT ![n] = copies[n] + 1]
        /\ queue' = queue \cup {NewCopy(n)}
        /\ NewCopy(n).msg = n
    BY <1>1 DEF Publish, NewCopy
  <2>2. copies \in [Msg -> Nat]
    BY DEF TypeOK
  <2>3. copies'[n] > 0 /\ \A m \in Msg : copies[m] > 0 => copies'[m] > 0
    BY <2>1, <2>2
  <2>4. QED
    BY <2>1, <2>3
<1>2. CASE Produce
  BY <1>1, <1>2 DEF Produce, Submit, Preprocess, RejectTooLarge, PublishError
<1>3. ASSUME NEW w \in Worker, Consume(w) PROVE copies' = copies
  BY <1>3 DEF Consume, ReceiveEmpty, Receive, FlushInterval, InsertContent,
     InsertContentError, InsertSpans, InsertSpansError, InsertSpansTimeout,
     StampStorage, StampTrace, Stamped, Settled, Ack, Requeue, Disconnect, Reset,
     Reconnect, Crash
<1>4. ASSUME NEW w \in Worker, Consume(w) PROVE queue' \subseteq queue \cup held[w]
  BY <1>4 DEF Consume, ReceiveEmpty, Receive, FlushInterval, InsertContent,
     InsertContentError, InsertSpans, InsertSpansError, InsertSpansTimeout,
     StampStorage, StampTrace, Stamped, Settled, Ack, Requeue, Disconnect, Reset,
     Reconnect, Crash
<1>5. CASE Expire
  BY <1>5 DEF Expire, ExpireStorage, ExpireTrace
<1>6. CASE UNCHANGED vars
  BY <1>6 DEF vars
<1>7. QED
  BY <1>2, <1>3, <1>4, <1>5, <1>6 DEF Next

LEMMA DeliveriesStep ==
  ASSUME TypeOK, DeliveriesAccepted, [Next]_vars
  PROVE  DeliveriesAccepted'
<1>1. /\ \A c \in queue : c.msg \in Msg
      /\ \A w \in Worker : \A c \in held[w] : c.msg \in Msg
  BY DEF TypeOK, Copy
<1>2. \A c \in queue' : copies'[c.msg] > 0
  BY <1>1, CopiesGrow DEF DeliveriesAccepted
<1>3. \A w \in Worker : \A c \in held'[w] : copies'[c.msg] > 0
  BY <1>1, CopiesGrow, DeliveryFrame DEF DeliveriesAccepted
<1>4. QED
  BY <1>2, <1>3 DEF DeliveriesAccepted

-----------------------------------------------------------------------------
(* What a step does to the variables the contract sees.                    *)

LEMMA VisibleFrame ==
  ASSUME TypeOK, [Next]_vars
  PROVE  \/ UNCHANGED <<copies, content, rows>>
         \/ /\ \E m \in Msg : copies' = [copies EXCEPT ![m] = copies[m] + 1]
            /\ UNCHANGED <<content, rows>>
         \/ /\ \E w \in Worker : content' = content \cup BatchContent(held[w])
            /\ UNCHANGED <<copies, rows>>
         \/ /\ \E w \in Worker : pc[w] = "spans" /\ rows' = rows \cup BatchRows(held[w])
            /\ UNCHANGED <<copies, content>>
<1> USE DEF producerVars, stampVars, cacheVars, storeVars
<1>1. CASE Produce
  BY <1>1 DEF Produce, Submit, Preprocess, RejectTooLarge, Publish, PublishError
<1>2. ASSUME NEW w \in Worker, Consume(w)
      PROVE  \/ UNCHANGED <<copies, content, rows>>
             \/ /\ content' = content \cup BatchContent(held[w])
                /\ UNCHANGED <<copies, rows>>
             \/ /\ pc[w] = "spans" /\ rows' = rows \cup BatchRows(held[w])
                /\ UNCHANGED <<copies, content>>
  BY <1>2 DEF Consume, ReceiveEmpty, Receive, FlushInterval, InsertContent,
     InsertContentError, InsertSpans, InsertSpansError, InsertSpansTimeout, AddRows,
     StampStorage, StampTrace, Stamped, Settled, Ack, Requeue, Disconnect, Reset,
     Reconnect, Crash
<1>3. CASE Expire
  BY <1>3 DEF Expire, ExpireStorage, ExpireTrace
<1>4. CASE UNCHANGED vars
  BY <1>4 DEF vars
<1>5. QED
  BY <1>1, <1>2, <1>3, <1>4 DEF Next

\* The mapped variables as the contract names them.
LEMMA Mapping ==
  /\ Contract!Init <=> Accepted = {} /\ content = {} /\ FirstsOf(rows) = {} /\ Durable = {}
  /\ Contract!contractVars = <<Accepted, content, FirstsOf(rows), Durable>>
BY DEF Contract!Init, Contract!contractVars, Accepted, Durable, FirstsOf

\* A step that stores a batch of spans is a commit: its spans were accepted,
\* their content is in place, and their messages have first occurrences.
LEMMA CommitStep ==
  ASSUME StoreInv, DeliveriesAccepted, NEW w \in Worker, pc[w] = "spans",
         rows' = rows \cup BatchRows(held[w]), UNCHANGED <<copies, content>>
  PROVE  Contract!Next
<1> DEFINE b == held[w]
           S == {r.span : r \in BatchRows(b)}
           F == FirstsOf(BatchRows(b))
<1> USE IngestAssumption DEF StoreInv
<1>1. b \in SUBSET Copy
  BY DEF TypeOK
<1>2. BatchRows(b) \subseteq Row
  BY <1>1, BatchTypes
<1>3. S \in SUBSET Span /\ F \in SUBSET (Trace \X Hash)
  BY <1>2 DEF Row, FirstsOf
<1>4. S \subseteq (UNION {SpansOf[m] : m \in Accepted}) \cap Recordable
  <2>1. SUFFICES ASSUME NEW r \in BatchRows(b)
                 PROVE  r.span \in (UNION {SpansOf[m] : m \in Accepted}) \cap Recordable
    OBVIOUS
  <2>2. PICK c \in b : \E s \in Written(c) : r = [span |-> s, new |-> c.v[s].new]
    BY DEF BatchRows
  <2>3. PICK s \in Written(c) : r = [span |-> s, new |-> c.v[s].new]
    BY <2>2
  <2>4. c.msg \in Accepted
    BY <1>1 DEF DeliveriesAccepted, Accepted, Copy
  <2>5. QED
    BY <2>3, <2>4 DEF Written
<1>5. \A s \in S : Addressable(s) \cup Tools[s] \subseteq content
  BY BatchComplete
<1>6. FirstsOf(rows') = FirstsOf(rows) \cup F /\ Durable' = Durable \cup S
  BY DEF FirstsOf, Durable
<1>7. \A s \in S : \A h \in Addressable(s) : <<TraceOf[s], h>> \in FirstsOf(rows')
  <2>1. SUFFICES ASSUME NEW r \in BatchRows(b), NEW h \in Addressable(r.span)
                 PROVE  <<TraceOf[r.span], h>> \in FirstsOf(rows) \cup F
    BY <1>6
  <2>2. h \in r.new \/ FirstSeen(TraceOf[r.span], h)
    BY BatchComplete
  <2>3. QED
    BY <2>2 DEF FirstSeen, FirstsOf
<1>8. Accepted' = Accepted
  BY DEF Accepted
<1>9. PICK T \in SUBSET Span, G \in SUBSET (Trace \X Hash) : T = S /\ G = F
  BY <1>3
<1>10. Contract!Commit(T, G)
  <2> HIDE DEF S, F
  <2>1. QED
    BY <1>4, <1>5, <1>6, <1>7, <1>8, <1>9
    DEF Contract!Commit, Accepted, Durable, FirstsOf
<1>11. QED
  BY <1>10 DEF Contract!Next

\* Every step of ingestion is a step of the contract or changes nothing in it.
LEMMA RefinesStep ==
  ASSUME StoreInv, DeliveriesAccepted, [Next]_vars
  PROVE  [Contract!Next]_(Contract!contractVars)
<1> USE IngestAssumption DEF StoreInv
<1>1. CASE UNCHANGED <<copies, content, rows>>
  BY <1>1, Mapping DEF Contract!contractVars
<1>2. ASSUME NEW m \in Msg, copies' = [copies EXCEPT ![m] = copies[m] + 1],
             UNCHANGED <<content, rows>>
      PROVE  Contract!Next
  <2>1. copies \in [Msg -> Nat]
    BY DEF TypeOK
  <2>2. {n \in Msg : copies'[n] > 0} = {n \in Msg : copies[n] > 0} \cup {m}
    BY <1>2, <2>1
  <2>3. Contract!Accept(m)
    BY <1>2, <2>2 DEF Contract!Accept
  <2>4. QED
    BY <2>3 DEF Contract!Next
<1>3. ASSUME NEW w \in Worker, content' = content \cup BatchContent(held[w]),
             UNCHANGED <<copies, rows>>
      PROVE  Contract!Next
  <2>1. BatchContent(held[w]) \in SUBSET Hash
    BY BatchTypes DEF TypeOK
  <2>2. Contract!AddContent(BatchContent(held[w]))
    BY <1>3 DEF Contract!AddContent
  <2>3. QED
    BY <2>1, <2>2 DEF Contract!Next
<1>4. ASSUME NEW w \in Worker, pc[w] = "spans", rows' = rows \cup BatchRows(held[w]),
             UNCHANGED <<copies, content>>
      PROVE  Contract!Next
  BY <1>4, CommitStep
<1>5. QED
  BY <1>1, <1>2, <1>3, <1>4, VisibleFrame

-----------------------------------------------------------------------------
(* The theorems.                                                           *)

\* Every delivery in the queue or with a worker is a copy of a request the
\* broker has accepted, through redeliveries, lost channels and crashes.
THEOREM OnlyAcceptedTravels == Spec => []DeliveriesAccepted
<1>1. Init => DeliveriesAccepted
  BY DEF Init, DeliveriesAccepted
<1>2. TypeOK /\ DeliveriesAccepted /\ [Next]_vars => DeliveriesAccepted'
  BY DeliveriesStep
<1>3. QED
  BY <1>1, <1>2, TypeCorrect, PTL DEF Spec

\* Ingestion implements its contract: only accepted requests become visible,
\* and with all of their content and the first occurrences of their messages.
THEOREM ImplementsContract == Spec => Refines
<1>1. Init => Contract!Init
  <2>1. SUFFICES ASSUME Init PROVE Contract!Init
    OBVIOUS
  <2>2. Accepted = {} /\ content = {} /\ FirstsOf(rows) = {} /\ Durable = {}
    BY <2>1 DEF Init, Accepted, FirstsOf, Durable
  <2>3. QED
    BY <2>2, Mapping
<1>2. StoreInv /\ DeliveriesAccepted /\ [Next]_vars
      => [Contract!Next]_(Contract!contractVars)
  BY RefinesStep
<1>3. QED
  BY <1>1, <1>2, StoreConsistent, OnlyAcceptedTravels, PTL
  DEF Spec, Refines, Contract!Spec
=============================================================================
