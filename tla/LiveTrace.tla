----------------------------- MODULE LiveTrace -----------------------------
(****************************************************************************)
(* An open trace: the trace view of one browser while spans of the trace are *)
(* still ingested.  Its rows come from two sources that nothing orders:      *)
(* responses of requests for spans (one when the view opens, one for each    *)
(* search) and span_update events of a stream that may break.                *)
(* For a span, ingestion adds its tokens to the row of the trace and stores  *)
(* it (here in one step: the row counts a span whose event is to come either *)
(* way), then sends it to the stream.                                        *)
(****************************************************************************)
EXTENDS SpanRows

CONSTANTS Spans,        \* the spans of the trace
          Parent,         \* [Spans -> Spans or None]
          Path,           \* [Spans -> the ids from the root down to the span]
          Start, End,     \* [Spans -> Nat], units of more than a second
          Tokens,         \* [Spans -> Nat]: those of LLM spans, 0 of others
          Matching,       \* the spans the search finds
          MaxFetches,     \* requests for spans
          MaxFaults,      \* broken connections, repeated events and failed requests
          MaxClicks       \* what the user selects, closes, opens or collapses

\* A span carries its path (lmnr.span.ids_path).
ASSUME TraceAssumption ==
  /\ IsFiniteSet(Spans) /\ None \notin Spans
  /\ Parent \in [Spans -> Spans \cup {None}]
  /\ \A s \in Spans : /\ Path[s] \in Seq(Spans)
                      /\ Path[s] = IF Parent[s] = None THEN <<s>> ELSE Append(Path[Parent[s]], s)
                      /\ {Start[s], End[s], Tokens[s]} \subseteq Nat /\ Start[s] <= End[s]

VARIABLES stage,        \* how far ingestion is with each span
          feed,           \* sent to this view and not handled yet
          connected,
          faults, clicks,
          page,           \* the page of one trace, not a drawer
          link,           \* the span the view was opened with (the prop), or None
          traceRequest,   \* the request for the row of the trace
          trace,          \* the row in the store, or None
          requests,       \* the requests for spans
          shown,          \* the spans in the store
          searched,       \* the spans shown answer a search
          loading,
          selected, url,  \* the open span, and the one the address names
          raced           \* what an order of the two sources may have made wrong
                          \* so far: "no", the "total", or the "view" and the total

vars == <<stage, feed, connected, faults, clicks, page, link, traceRequest, trace,
          requests, shown, searched, loading, selected, url, raced>>

Server == stage
Stream == <<feed, connected>>
Fixed  == <<page, link>>
Bounds == <<faults, clicks>>
User   == <<selected, url>>

\* A span that has ended.
Real(s) ==
  [id |-> s, parent |-> Parent[s], path |-> Path[s], type |-> IF Tokens[s] > 0 THEN "LLM" ELSE "DEFAULT",
   start |-> Start[s], end |-> End[s], pending |-> FALSE, collapsed |-> FALSE,
   tokens |-> Tokens[s], sum |-> -1]

Stored == {s \in Spans : stage[s] # "running"}
SumOf(S) == FoldSet(LAMBDA s, sum : sum + Tokens[s], 0, S)
\* The row of a trace some of whose spans are stored.
FirstStart(S) == Min({Start[s] : s \in S})
LastEnd(S) == Max({End[s] : s \in S} \cup {0})
TraceRow == [tokens |-> SumOf(Stored), start |-> FirstStart(Stored), end |-> LastEnd(Stored)]

----------------------------------------------------------------------------
(* Ingestion and the stream.                                                *)

Fault == faults < MaxFaults /\ faults' = faults + 1
AtLeastTotal == IF raced = "no" THEN "total" ELSE raced
Click == clicks < MaxClicks /\ clicks' = clicks + 1

Ingest(s) ==
  /\ stage[s] = "running"
  /\ stage' = [stage EXCEPT ![s] = "stored"]
  /\ UNCHANGED <<Stream, Bounds, Fixed, traceRequest, trace, requests, shown, searched, loading, User, raced>>

\* Nothing keeps an event for a view that is not connected.
Reach(s) ==
  IF connected THEN feed' = feed \cup {s} /\ UNCHANGED raced
  ELSE feed' = feed /\ raced' = "view"

Send(s) ==
  /\ stage[s] = "stored"
  /\ stage' = [stage EXCEPT ![s] = "sent"]
  /\ Reach(s)
  /\ UNCHANGED <<connected, Bounds, Fixed, traceRequest, trace, requests, shown, searched, loading, User>>

\* Its message is delivered to ingestion again.
SendAgain(s) ==
  /\ stage[s] = "sent" /\ s \notin feed
  /\ connected /\ Fault
  /\ feed' = feed \cup {s}
  /\ raced' = AtLeastTotal
  /\ UNCHANGED <<stage, connected, clicks, Fixed, traceRequest, trace, requests, shown, searched, loading, User>>

Connect ==
  /\ ~connected
  /\ connected' = TRUE
  /\ UNCHANGED <<Server, feed, Bounds, Fixed, traceRequest, trace, requests, shown, searched, loading, User, raced>>

Disconnect ==
  /\ connected /\ Fault
  /\ connected' = FALSE
  /\ feed' = {}
  /\ raced' = IF feed = {} THEN raced ELSE "view"
  /\ UNCHANGED <<Server, clicks, Fixed, traceRequest, trace, requests, shown, searched, loading, User>>

----------------------------------------------------------------------------
(* The store.                                                               *)

\* The effect that opens the span of the prop each time the spans change.
Reselect(spans, isLoading, current) ==
  IF ~isLoading /\ link \in Ids(spans) THEN link ELSE current

\* Mutant: an event only replaces a row.
MutReplaceOnly(spans, s) ==
  IF s \notin Ids(spans) THEN spans
  ELSE AggregateSpanMetrics(EnrichSpansWithPending(
         {IF t.id = s THEN [Real(s) EXCEPT !.collapsed = t.collapsed] ELSE t : t \in spans}))

\* Mutant: a span that ends opens its branch.
MutUncollapse(spans, s) ==
  AggregateSpanMetrics(EnrichSpansWithPending({t \in spans : t.id # s} \cup {Real(s)}))

UpdateSpans(spans, s) ==
  LET old  == {t \in spans : t.id = s}
      new  == [Real(s) EXCEPT !.collapsed = \E t \in old : t.collapsed]
  IN AggregateSpanMetrics(EnrichSpansWithPending((spans \ old) \cup {new}))

UpdateTrace(row, s) ==
  [tokens |-> row.tokens + Tokens[s], start |-> Min({row.start, Start[s]}), end |-> Max({row.end, End[s]})]

\* onRealtimeUpdateSpans: an event is added to a trace and a list of spans.
HandleEvent(s) ==
  LET answered(r) == r.phase = "answered" /\ s \notin Ids(r.rows)
      limited(r)  == r.phase = "asked" /\ s \notin r.within
      outstanding == {r \in Range(requests) : answered(r) \/ limited(r)}
  IN
  /\ s \in feed
  /\ feed' = feed \ {s}
  /\ trace' = IF trace = None THEN None ELSE UpdateTrace(trace, s)
  /\ shown' = UpdateSpans(shown, s)
  /\ selected' = Reselect(shown', loading, selected)
  /\ raced' = IF outstanding # {} \/ traceRequest.phase = "answered" THEN "view" ELSE raced
  /\ UNCHANGED <<Server, connected, Bounds, Fixed, traceRequest, requests, searched, loading, url>>

----------------------------------------------------------------------------
(* The request for the trace.                                               *)

\* The row counts a span whose event is still to come; a trace without spans is
\* not found.
AnswerTrace ==
  /\ traceRequest.phase = "asked"
  /\ traceRequest' = [phase |-> "answered", row |-> IF Stored = {} THEN None ELSE TraceRow]
  /\ raced' = IF \E s \in Stored : stage[s] = "stored" \/ s \in feed THEN AtLeastTotal ELSE raced
  /\ UNCHANGED <<Server, Stream, Bounds, Fixed, trace, requests, shown, searched, loading, User>>

ShowTrace ==
  /\ traceRequest.phase = "answered"
  /\ traceRequest' = [phase |-> "done", row |-> None]
  /\ trace' = traceRequest.row
  /\ UNCHANGED <<Server, Stream, Bounds, Fixed, requests, shown, searched, loading, User, raced>>

TraceFails ==
  /\ Fault
  /\ traceRequest.phase \in {"asked", "answered"}
  /\ traceRequest' = [phase |-> "done", row |-> None]
  /\ UNCHANGED <<Server, Stream, clicks, Fixed, trace, requests, shown, searched, loading, User, raced>>

----------------------------------------------------------------------------
(* Requests for spans.                                                      *)

\* What a request takes along of the moment it is sent: the times of the trace,
\* here the spans that start within them (all if there is no row yet), and the
\* span in the address.  The second added at both ends is less than a unit.
Asked(search, row, address) ==
  [phase |-> "asked", search |-> search, rows |-> {}, url |-> address,
   within |-> {s \in Spans : row = None \/ (row.start <= Start[s] /\ Start[s] <= row.end)}]

Done == [Asked(FALSE, None, None) EXCEPT !.phase = "done"]

Ask(search) ==
  /\ Len(requests) < MaxFetches
  /\ requests' = Append(requests, Asked(search, trace, url))
  /\ loading' = TRUE
  /\ UNCHANGED <<Server, Stream, Bounds, Fixed, traceRequest, trace, shown, searched, User, raced>>

\* getTraceSpans: the spans that start in the range; with a search those that
\* match, each below its nearest ancestor that also does.
GetTraceSpans(search, within) ==
  LET all  == {Real(s) : s \in Stored}
      kept == {s \in Stored \cap within : search => s \in Matching}
  IN AggregateSpanMetrics(IF search THEN TransformSpans(all, kept) ELSE {Real(s) : s \in kept})

Answer(i) ==
  /\ requests[i].phase = "asked"
  /\ requests' = [requests EXCEPT ![i].phase = "answered",
                                  ![i].rows = GetTraceSpans(requests[i].search, requests[i].within)]
  /\ UNCHANGED <<Server, Stream, Bounds, Fixed, traceRequest, trace, shown, searched, loading, User, raced>>

\* The first of the list: the list is in the order of the start times.
IsFirst(rows, id) == \E s \in rows : s.id = id /\ \A t \in rows : s.start <= t.start

\* Mutant: the address wins, whatever the response holds.
MutSpanToSelect(rows, address) == address

\* The span to open after a response: that of the prop or of the address the
\* request took along; if it is not among the spans, the first.
SpanToSelect(rows, address) ==
  LET wanted == IF link # None THEN link ELSE address
      first  == CHOOSE id \in Ids(rows) : IsFirst({r \in rows : ~r.pending}, id)
  IN CASE rows = {} -> None
       [] rows # {} /\ wanted # None -> IF wanted \in Ids(rows) THEN wanted ELSE first
       [] rows # {} /\ wanted = None -> IF page THEN first ELSE None

ShowSpans(i) ==
  LET r    == requests[i]
      rows == IF r.search THEN r.rows ELSE EnrichSpansWithPending(r.rows)
  IN
  /\ r.phase = "answered"
  /\ requests' = [requests EXCEPT ![i] = Done]
  /\ shown' = {[s EXCEPT !.collapsed = FALSE] : s \in rows}
  /\ searched' = r.search
  /\ loading' = FALSE
  /\ selected' = Reselect(shown', FALSE, SpanToSelect(rows, r.url))
  /\ UNCHANGED <<Server, Stream, Bounds, Fixed, traceRequest, trace, url, raced>>

SpansFail(i) ==
  /\ Fault
  /\ requests[i].phase \in {"asked", "answered"}
  /\ requests' = [requests EXCEPT ![i] = Done]
  /\ loading' = FALSE
  /\ selected' = Reselect(shown, FALSE, selected)
  /\ raced' = "view"
  /\ UNCHANGED <<Server, Stream, clicks, Fixed, traceRequest, trace, shown, searched, url>>

----------------------------------------------------------------------------
(* The user.                                                                *)

Collapsed(spans) == {s.id : s \in {t \in spans : t.collapsed}}

\* The rows on the screen: those without a collapsed ancestor.
OnScreen(spans) ==
  {s.id : s \in {t \in spans : (WithAncestors(spans, {t.id}) \ {t.id}) \cap Collapsed(spans) = {}}}

SelectRow(id) ==
  /\ Click
  /\ ~loading
  /\ id \in Ids(shown) /\ ~The(shown, id).pending
  /\ selected' = id
  /\ url' = id
  /\ UNCHANGED <<Server, Stream, faults, Fixed, traceRequest, trace, requests, shown, searched, loading, raced>>

\* From the chat or a signal: also while spans load; the way to the span opens.
SelectSpanById(id) ==
  LET above == WithAncestors(shown, {id}) \ {id}
  IN
  /\ Click
  /\ id \in Ids(shown) /\ ~The(shown, id).pending
  /\ shown' = {IF s.id \in above THEN [s EXCEPT !.collapsed = FALSE] ELSE s : s \in shown}
  /\ selected' = IF above # {} THEN Reselect(shown', loading, id) ELSE id
  /\ UNCHANGED <<Server, Stream, faults, Fixed, traceRequest, trace, requests, searched, loading, url, raced>>

ClosePanel ==
  /\ Click
  /\ selected # None
  /\ selected' = None
  /\ url' = None
  /\ UNCHANGED <<Server, Stream, faults, Fixed, traceRequest, trace, requests, shown, searched, loading, raced>>

ToggleCollapse(id) ==
  /\ Click
  /\ ~loading
  /\ id \in OnScreen(shown) /\ \E s \in shown : s.parent = id
  /\ shown' = {IF s.id = id THEN [s EXCEPT !.collapsed = ~s.collapsed] ELSE s : s \in shown}
  /\ selected' = Reselect(shown', loading, selected)
  /\ UNCHANGED <<Server, Stream, faults, Fixed, traceRequest, trace, requests, searched, loading, url, raced>>

----------------------------------------------------------------------------

\* The view opens while the trace is at any point.  The page of a trace comes
\* with its row (a trace without spans has none); a drawer asks for it.  Both ask
\* for the spans at once.
Open(stages, isPage, linked) ==
  /\ stage = stages
  /\ isPage => Stored # {}
  /\ page = isPage
  /\ link = linked /\ url = linked
  /\ feed = {} /\ connected = FALSE /\ faults = 0 /\ clicks = 0
  /\ trace = IF isPage THEN TraceRow ELSE None
  /\ traceRequest = [phase |-> IF isPage THEN "done" ELSE "asked", row |-> None]
  /\ requests = <<Asked(FALSE, trace, linked)>>
  /\ shown = {} /\ searched = FALSE /\ loading = TRUE
  /\ selected = None
  /\ raced = IF isPage /\ \E s \in Spans : stages[s] = "stored" THEN "total" ELSE "no"

Next ==
  \/ \E s \in Spans : Ingest(s) \/ Send(s) \/ SendAgain(s) \/ HandleEvent(s)
  \/ Connect \/ Disconnect
  \/ AnswerTrace \/ ShowTrace \/ TraceFails
  \/ \E search \in BOOLEAN : Ask(search)
  \/ \E i \in DOMAIN requests : Answer(i) \/ ShowSpans(i) \/ SpansFail(i)
  \/ \E id \in Spans : SelectRow(id) \/ SelectSpanById(id) \/ ToggleCollapse(id)
  \/ ClosePanel

\* Whenever the view opens, as page or drawer, with a link or without.
Init ==
  \E stages \in [Spans -> {"running", "stored", "sent"}], isPage \in BOOLEAN, linked \in Spans \cup {None} :
    Open(stages, isPage, linked)

Spec == Init /\ [][Next]_vars

----------------------------------------------------------------------------
(* Properties.                                                              *)

\* Every row is a span of the trace, once, and the store's other fields have
\* the values the handlers give them; the open span is one of the rows, also
\* after a response without it.
TypeOK ==
  /\ Cardinality(Ids(shown)) = Cardinality(shown)
  /\ Ids(shown) \cup feed \subseteq Spans
  /\ \A s \in shown : ~s.pending => s.id \in Stored
  /\ {url, link} \subseteq Spans \cup {None}
  /\ selected # None => selected \in Ids(shown)
  /\ connected \/ feed = {}
  /\ raced \in {"no", "total", "view"}

\* A row's parent is a row: a span whose parent is missing is in no tree,
\* timeline or transcript (transformSpansToTree and dfsOrder start at the roots).
NoOrphan == \A s \in shown : s.parent # None => s.parent \in Ids(shown)

\* A placeholder spans the time of every row below it (the comment in
\* enrichSpansWithPending: "to cover all its children").
PendingCovers ==
  \A p, s \in shown :
    p.pending /\ ~s.pending /\ s.parent # None /\ p.id \in Range(s.path)
      => p.start <= s.start /\ s.end <= p.end

\* Nothing is on its way any more.
Quiet ==
  /\ feed = {}
  /\ \A s \in Spans : stage[s] # "stored"
  /\ traceRequest.phase \notin {"asked", "answered"}
  /\ \A i \in DOMAIN requests : requests[i].phase = "done"

\* The ancestors of stored spans that have not ended.
Missing == {a \in Spans \ Stored : \E s \in Stored : a \in Range(Path[s])}

\* If no event was lost, overtaken by a response or handled before the row of the
\* trace was there, and no request failed, the tree is exactly what is stored,
\* and placeholders for exactly the ancestors that have not ended.
ViewExact ==
  Quiet /\ ~searched /\ raced # "view"
    => /\ Ids({s \in shown : ~s.pending}) = Stored
       /\ Ids({s \in shown : s.pending}) = Missing

\* Whichever of the two sources the rows came from, and in whatever order, they
\* make a tree with nothing missing in it, and in the end the whole tree.
RowsWhole == NoOrphan /\ PendingCovers /\ ViewExact

\* Without placeholders the sum on a row is that of the LLM rows at the leaves
\* below it, also where the server computed it and an event changed what is below.
\* Where no LLM row is a leaf any more, the last sum stays.
MetricsCurrent ==
  LET below(s) == {t \in shown : s.id \in WithAncestors(shown, {t.id})}
      calls(s) == {t \in below(s) : t.type = "LLM" /\ \A u \in shown : u.parent # t.id}
  IN (\A s \in shown : ~s.pending) =>
       \A s \in shown :
         IF calls(s) # {} THEN s.sum = FoldSet(LAMBDA t, sum : sum + t.tokens, 0, calls(s))
         ELSE s.sum = -1 \/ \E t \in below(s) : t.type = "LLM"

\* Under the conditions of ViewExact, and if the row of the trace did not count a
\* span whose event was still to come, the totals count every stored span once.
TotalExact ==
  Quiet /\ trace # None /\ raced = "no" => trace = TraceRow

\* The sums on the rows and the totals of the trace add up, in every order of
\* requests and events but those raced names.
AddsUp == MetricsCurrent /\ TotalExact

\* An event never opens or closes a branch of the tree; it changes the open span
\* only where the view was opened with a link to one.
EventKeepsUserState ==
  [][\A s \in Spans : s \in feed /\ s \notin feed' /\ connected'
       => /\ Collapsed(shown') = Collapsed(shown)
          /\ link = None => selected' = selected]_vars

=============================================================================
