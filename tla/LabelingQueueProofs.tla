------------------------ MODULE LabelingQueueProofs ------------------------
(****************************************************************************)
(* Proofs about LabelingQueue, for every queue, every set of edits and every  *)
(* value of the bounds.                                                       *)
(*                                                                           *)
(* First the rows: QueueInv, and that nothing is lost.  Then the page, with   *)
(* an invariant in layers: what a page knows of its saves and what it is      *)
(* asked to hold (PageInv), the list has every item there is (Listed), what   *)
(* waits is on the page (Shown), what was entered is kept (Kept).  Every step *)
(* is one of the kinds of StepKinds; each layer has a lemma per kind.         *)
(****************************************************************************)
EXTENDS LabelingQueue, FiniteSetTheorems, TLAPS

\* What an item may leave the queue for.
Safe(i) == i \in discarded \/ \E p \in points : p.item = i /\ p.own

\* A request has the fields of a request.
Whole(r) ==
  r = [id |-> r.id, kind |-> r.kind, item |-> r.item, edit |-> r.edit, status |-> r.status,
       all |-> r.all, phase |-> r.phase, seen |-> r.seen, live |-> r.live]

\* A handler holds nothing that makes it lose an item: a PATCH that has read no
\* payload, and a push that has counted its copies, are about items that are
\* safe already, whatever the other handlers have done to the rows since.
Sound(r) ==
  /\ Whole(r)
  /\ r.kind \in Saving /\ r.phase = "read" /\ r.item \in Item
       => Safe(r.item) \/ \E row \in r.seen : row.own
  /\ r.kind = "push" /\ r.phase = "read" => IsFiniteSet(r.seen)
  /\ r.kind = "push" /\ r.phase = "copied" => \A i \in r.seen \cap Item : Safe(i)

HandlersSound == \A r \in requests : Sound(r)

\* The inductive invariant: PushLosesNothing alone is not, for it does not say
\* what the handlers hold between reading the rows and writing them.
QueueInv == HandlersSound /\ PushLosesNothing

----------------------------------------------------------------------------
(* Requests.                                                                *)

LEMMA NewRequestSound ==
  ASSUME NEW kind, NEW i, NEW edit, NEW status, NEW all, NEW reqs
  PROVE  Sound(Request(kind, i, edit, status, all, reqs))
<1> DEFINE id == NewId(reqs)
           r == [id |-> id, kind |-> kind, item |-> i, edit |-> edit, status |-> status,
                 all |-> all, phase |-> "sent", seen |-> {}, live |-> TRUE]
<1>1. Request(kind, i, edit, status, all, reqs) = r
  BY DEF Request
<1> HIDE DEF id
<1>2. Sound(r)
  BY DEF Sound, Whole
<1>3. QED
  BY <1>1, <1>2

\* Nothing a handler does depends on whether somebody waits for its answer.
LEMMA AbortSound ==
  ASSUME NEW reqs, \A r \in reqs : Sound(r), NEW ids
  PROVE  \A r \in Abort(reqs, ids) : Sound(r)
<1>1. SUFFICES ASSUME NEW q \in reqs PROVE Sound([q EXCEPT !.live = FALSE])
  BY DEF Abort
<1>2. PICK p : p = [q EXCEPT !.live = FALSE]
  OBVIOUS
<1>3. Sound(q)
  OBVIOUS
<1>4. Whole(p) /\ p.kind = q.kind /\ p.item = q.item /\ p.phase = q.phase /\ p.seen = q.seen
  <2>1. Whole(q)
    BY <1>3 DEF Sound
  <2>2. QED
    BY <1>2, <2>1 DEF Whole
<1>5. Sound(p)
  BY <1>3, <1>4 DEF Sound
<1>6. QED
  BY <1>2, <1>5

\* A handler that goes on leaves the requests of the others alone.
LEMMA Advanced ==
  ASSUME NEW r \in requests, Sound(r), NEW phase, NEW seen, Advance(r, phase, seen),
         NEW q \in requests', q \notin requests
  PROVE  /\ Whole(q) /\ q.kind = r.kind /\ q.item = r.item /\ q.phase = phase /\ q.seen = seen
<1>1. q = [r EXCEPT !.phase = phase, !.seen = seen]
  BY DEF Advance
<1>2. QED
  BY <1>1 DEF Sound, Whole

\* What is safe stays safe: no handler takes a copy back.
LEMMA SafeStays ==
  ASSUME points \subseteq points', discarded \subseteq discarded'
  PROVE  /\ \A i \in Item : Safe(i) => Safe(i)'
         /\ \A r : Sound(r) => Sound(r)'
<1>1. \A i : Safe(i) => Safe(i)'
  BY DEF Safe
<1>2. QED
  BY <1>1 DEF Sound

\* A step that touches neither rows nor copies, and whose requests are sound.
LEMMA ClientStep ==
  ASSUME QueueInv, UNCHANGED server, \A r \in requests' : Sound(r)
  PROVE  QueueInv'
<1>1. HandlersSound'
  BY SafeStays DEF HandlersSound, server
<1>2. PushLosesNothing'
  BY DEF QueueInv, PushLosesNothing, server
<1>3. QED
  BY <1>1, <1>2 DEF QueueInv

\* A handler's step: the copies grow, the request it works on stays sound, and
\* an item without a row of its own is safe.
LEMMA HandlerStep ==
  ASSUME QueueInv, NEW r \in requests, NEW phase, NEW seen, Advance(r, phase, seen),
         points \subseteq points', discarded \subseteq discarded',
         \A q : Whole(q) /\ q.kind = r.kind /\ q.item = r.item /\ q.phase = phase /\ q.seen = seen
                => Sound(q)',
         PushLosesNothing'
  PROVE  QueueInv'
<1>1. SUFFICES ASSUME NEW q \in requests' PROVE Sound(q)'
  BY DEF QueueInv, HandlersSound
<1>2. CASE q \in requests
  BY <1>2, SafeStays DEF QueueInv, HandlersSound
<1>3. CASE q \notin requests
  <2>1. Sound(r)
    BY DEF QueueInv, HandlersSound
  <2>2. QED
    BY <1>3, <2>1, Advanced
<1>4. QED
  BY <1>2, <1>3

----------------------------------------------------------------------------
(* The handlers.                                                            *)

LEMMA ReadRowStep ==
  ASSUME QueueInv, NEW r \in requests, ReadRow(r)
  PROVE  QueueInv'
<1> DEFINE seen == {rows[i] : i \in DOMAIN rows \cap {r.item}}
<1>1. Advance(r, "read", seen) /\ UNCHANGED server /\ r.kind \in Saving
  BY DEF ReadRow
<1>2. PushLosesNothing'
  BY <1>1 DEF QueueInv, PushLosesNothing, server
<1>3. r.item \in Item => Safe(r.item) \/ \E row \in seen : row.own
  BY DEF QueueInv, PushLosesNothing, Safe
<1> HIDE DEF seen
<1>4. ASSUME NEW q,
             Whole(q), q.kind = r.kind, q.item = r.item, q.phase = "read", q.seen = seen
      PROVE  Sound(q)'
  <2>1. Sound(q)
    BY <1>1, <1>3, <1>4 DEF Sound, Saving
  <2>2. QED
    BY <2>1, <1>1, SafeStays DEF server
<1>5. QED
  BY <1>1, <1>2, <1>4, HandlerStep DEF server

\* An answered or failed request holds nothing.
LEMMA EndedSound ==
  ASSUME NEW q,
         Whole(q), q.phase \in {"done", "failed"}
  PROVE  Sound(q) /\ Sound(q)'
BY DEF Sound

LEMMA InsertRowStep ==
  ASSUME QueueInv, NEW r \in requests, InsertRow(r)
  PROVE  QueueInv'
<1>1. Advance(r, "done", {}) /\ UNCHANGED <<points, discarded>>
      /\ r.kind \in Saving /\ r.phase = "read" /\ rows' = Put(rows, r.item, UpdatedRow(r))
  BY DEF InsertRow
<1>2. UpdatedRow(r).own = \E row \in r.seen : row.own
  BY DEF UpdatedRow
<1>3. /\ DOMAIN rows' = {r.item} \cup DOMAIN rows
      /\ r.item \in DOMAIN rows' /\ rows'[r.item] = UpdatedRow(r)
      /\ \A i \in DOMAIN rows \ {r.item} : i \in DOMAIN rows' /\ rows'[i] = rows[i]
  BY <1>1 DEF Put, Over
<1>4. ASSUME NEW i \in Item \ discarded'
      PROVE  (i \in DOMAIN rows' /\ rows'[i].own) \/ \E p \in points' : p.item = i /\ p.own
  <2>1. CASE i = r.item
    <3>1. Safe(i) \/ \E row \in r.seen : row.own
      BY <1>1, <2>1 DEF QueueInv, HandlersSound, Sound
    <3>2. QED
      BY <1>1, <1>2, <1>3, <1>4, <2>1, <3>1 DEF Safe
  <2>2. CASE i # r.item
    BY <1>1, <1>3, <1>4, <2>2 DEF QueueInv, PushLosesNothing
  <2>3. QED
    BY <2>1, <2>2
<1>5. PushLosesNothing'
  BY <1>4 DEF PushLosesNothing
<1>6. QED
  BY <1>1, <1>5, HandlerStep, EndedSound

\* Deleting rows of safe items.
LEMMA DeleteStep ==
  ASSUME QueueInv, NEW S, Delete(S), points \subseteq points', discarded \subseteq discarded',
         \A i \in S \cap Item : Safe(i)'
  PROVE  PushLosesNothing'
<1>1. /\ \A i \in DOMAIN rows \ S : i \in DOMAIN rows' /\ rows'[i] = rows[i]
  BY DEF Delete, Without, Restrict
<1>2. SUFFICES ASSUME NEW i \in Item \ discarded'
      PROVE  (i \in DOMAIN rows' /\ rows'[i].own) \/ \E p \in points' : p.item = i /\ p.own
  BY DEF PushLosesNothing
<1>3. CASE i \in S
  BY <1>3, <1>2 DEF Safe
<1>4. CASE i \notin S
  BY <1>1, <1>2, <1>4 DEF QueueInv, PushLosesNothing
<1>5. QED
  BY <1>3, <1>4

LEMMA RemoveQueueItemStep ==
  ASSUME QueueInv, NEW r \in requests, RemoveQueueItem(r)
  PROVE  QueueInv'
<1>1. /\ Advance(r, "done", {}) /\ Delete({r.item})
      /\ points' = points /\ discarded' = discarded \cup {r.item}
  BY DEF RemoveQueueItem
<1>2. Safe(r.item)'
  BY <1>1 DEF Safe
<1>3. PushLosesNothing'
  BY <1>1, <1>2, DeleteStep
<1>4. QED
  BY <1>1, <1>3, HandlerStep, EndedSound

LEMMA MatchRowsStep ==
  ASSUME QueueInv, NEW r \in requests, MatchRows(r)
  PROVE  QueueInv'
<1> DEFINE matched == {i \in About(r) \cap DOMAIN rows : r.all \/ rows[i].status = 1}
           phase   == IF matched = {} THEN "done" ELSE "read"
<1>1. Advance(r, phase, matched) /\ UNCHANGED server /\ r.kind = "push"
  BY DEF MatchRows
<1>2. IsFiniteSet(matched)
  <2>1. IsFiniteSet(About(r))
    BY QueueAssumption, FS_Singleton DEF About
  <2>2. matched \subseteq About(r)
    OBVIOUS
  <2>3. QED
    BY <2>1, <2>2, FS_Subset
<1>3. PushLosesNothing'
  BY <1>1 DEF QueueInv, PushLosesNothing, server
<1>4. phase \in {"done", "read"}
  OBVIOUS
<1> HIDE DEF matched, phase
<1>5. ASSUME NEW q,
             Whole(q), q.kind = r.kind, q.item = r.item, q.phase = phase, q.seen = matched
      PROVE  Sound(q)'
  <2>1. Sound(q)
    BY <1>1, <1>2, <1>4, <1>5 DEF Sound, Saving
  <2>2. QED
    BY <2>1, <1>1, SafeStays DEF server
<1>6. QED
  BY <1>1, <1>3, <1>5, HandlerStep DEF server

\* Counting the copies tells whether there is one of each row.
LEMMA CopyRowsStep ==
  ASSUME QueueInv, NEW r \in requests, CopyRows(r)
  PROVE  QueueInv'
<1> DEFINE found == r.seen \cap DOMAIN rows
           copies(S) == {[item |-> i, edit |-> rows[i].edit, own |-> rows[i].own] : i \in S}
           phase(S) == IF Cardinality(S) = Cardinality(r.seen) THEN "copied" ELSE "failed"
<1>1. r.kind = "push" /\ r.phase = "read" /\ UNCHANGED <<rows, discarded>>
  BY DEF CopyRows
<1>2. PICK S \in SUBSET found :
        points' = points \cup copies(S) /\ Advance(r, phase(S), r.seen)
  BY DEF CopyRows
<1>3. PushLosesNothing'
  BY <1>1, <1>2 DEF QueueInv, PushLosesNothing
<1>4. IsFiniteSet(r.seen)
  BY <1>1 DEF QueueInv, HandlersSound, Sound
<1>5. phase(S) = "copied" => \A i \in r.seen \cap Item : Safe(i)'
  <2>1. SUFFICES ASSUME Cardinality(S) = Cardinality(r.seen), NEW i \in r.seen \cap Item
                 PROVE  Safe(i)'
    OBVIOUS
  <2>2. S = r.seen
    BY <1>2, <1>4, <2>1, FS_Subset
  <2>3. CASE rows[i].own
    <3>1. [item |-> i, edit |-> rows[i].edit, own |-> rows[i].own] \in points'
      BY <1>2, <2>2
    <3>2. QED
      BY <2>3, <3>1 DEF Safe
  <2>4. CASE ~rows[i].own
    BY <1>1, <1>2, <2>4 DEF QueueInv, PushLosesNothing, Safe
  <2>5. QED
    BY <2>3, <2>4
<1>6. phase(S) \in {"copied", "failed"}
  OBVIOUS
<1> HIDE DEF phase, copies
<1>7. ASSUME NEW q,
             Whole(q), q.kind = r.kind, q.item = r.item, q.phase = phase(S), q.seen = r.seen
      PROVE  Sound(q)'
  BY <1>1, <1>5, <1>6, <1>7 DEF Sound, Saving
<1>8. QED
  BY <1>1, <1>2, <1>3, <1>7, HandlerStep

LEMMA DeleteRowsStep ==
  ASSUME QueueInv, NEW r \in requests, DeleteRows(r)
  PROVE  QueueInv'
<1>1. /\ Advance(r, "done", r.seen) /\ Delete(r.seen) /\ UNCHANGED <<points, discarded>>
      /\ r.kind = "push" /\ r.phase = "copied"
  BY DEF DeleteRows
<1>2. \A i \in r.seen \cap Item : Safe(i)'
  BY <1>1 DEF QueueInv, HandlersSound, Sound, Safe
<1>3. PushLosesNothing'
  BY <1>1, <1>2, DeleteStep
<1>4. QED
  BY <1>1, <1>3, HandlerStep, EndedSound

LEMMA FailRequestStep ==
  ASSUME QueueInv, NEW r \in requests, FailRequest(r)
  PROVE  QueueInv'
<1>1. Advance(r, "failed", {}) /\ UNCHANGED server
  BY DEF FailRequest
<1>2. PushLosesNothing'
  BY <1>1 DEF QueueInv, PushLosesNothing, server
<1>3. QED
  BY <1>1, <1>2, HandlerStep, EndedSound DEF server

----------------------------------------------------------------------------
(* The page.                                                                *)

\* Steps that send, abort or forget requests.
LEMMA UserStep ==
  ASSUME QueueInv, User
  PROVE  QueueInv'
<1> USE ClientStep
<1>0. \A r \in requests : Sound(r)
  BY DEF QueueInv, HandlersSound
<1>1. ASSUME NEW kind, NEW i, NEW status, NEW all, NEW io, Act(kind, i, status, all, io)
      PROVE  QueueInv'
  <2> DEFINE others == Cancelled(IF i = None THEN Item ELSE {i})
  <2>1. /\ requests' = others \cup {Request(kind, i, None, status, all, others)}
        /\ UNCHANGED server
    BY <1>1 DEF Act
  <2>2. \A r \in others : Sound(r)
    BY <1>0, AbortSound DEF Cancelled
  <2> HIDE DEF others
  <2>3. Sound(Request(kind, i, None, status, all, others))
    BY NewRequestSound
  <2>4. QED
    BY <2>1, <2>2, <2>3
<1>2. ASSUME NEW e, SetTarget(e) PROVE QueueInv'
  BY <1>0, <1>2 DEF SetTarget
<1>3. CASE RevertCurrent
  <2>1. \A r \in Cancelled({Current}) : Sound(r)
    BY <1>0, AbortSound DEF Cancelled
  <2>2. QED
    BY <1>3, <2>1 DEF RevertCurrent
<1>4. ASSUME NEW k, SetCurrentIndex(k) PROVE QueueInv'
  BY <1>0, <1>4 DEF SetCurrentIndex
<1>5. CASE ApproveCurrent \/ UnapproveCurrent \/ DiscardCurrent \/ PushCurrent
  BY <1>1, <1>5 DEF ApproveCurrent, UnapproveCurrent, DiscardCurrent, PushCurrent
<1>6. ASSUME NEW all, PushAll(all) PROVE QueueInv'
  BY <1>1, <1>6 DEF PushAll
<1>7. CASE Leave
  <2> DEFINE flushed == {i \in Item : timers[i] # None /\ i \in DOMAIN loadedItems}
             others  == Cancelled(flushed)
             saves   == {Request("save", i, loadedItems[i].edit, 0, FALSE, others) : i \in flushed}
  <2>1. requests' = Unheard(others \cup saves) /\ UNCHANGED server
    BY <1>7 DEF Leave
  <2>2. \A r \in others : Sound(r)
    BY <1>0, AbortSound DEF Cancelled
  <2> HIDE DEF others
  <2>3. \A r \in saves : Sound(r)
    BY NewRequestSound
  <2> HIDE DEF saves
  <2>4. \A r \in Unheard(others \cup saves) : Sound(r)
    BY <2>2, <2>3, AbortSound DEF Unheard
  <2>5. QED
    BY <2>1, <2>4
<1>8. CASE CloseTab
  <2>1. \A r \in Unheard(requests) : Sound(r)
    BY <1>0, AbortSound DEF Unheard
  <2>2. QED
    BY <1>8, <2>1 DEF CloseTab
<1>9. QED
  BY <1>2, <1>3, <1>4, <1>5, <1>6, <1>7, <1>8 DEF User

LEMMA TimerStep ==
  ASSUME QueueInv, NEW i \in Item, TimerFires(i)
  PROVE  QueueInv'
<1> DEFINE others == Abort(requests, {aborts[i]})
<1>1. /\ requests' = others \cup {Request("save", i, timers[i], 0, FALSE, others)}
      /\ UNCHANGED server
  BY DEF TimerFires, Save
<1>2. \A r \in others : Sound(r)
  BY AbortSound DEF QueueInv, HandlersSound
<1> HIDE DEF others
<1>3. Sound(Request("save", i, timers[i], 0, FALSE, others))
  BY NewRequestSound
<1>4. QED
  BY <1>1, <1>2, <1>3, ClientStep

LEMMA AnswerStep ==
  ASSUME QueueInv, NEW r \in requests, Answer(r)
  PROVE  QueueInv'
<1>1. UNCHANGED server /\ requests' = requests \ {r}
  BY DEF Answer, SaveSettles, Approved, Unapproved, Removed, PushedAll, ActionFails, Answered
<1>2. QED
  BY <1>1, ClientStep DEF QueueInv, HandlersSound

LEMMA LoadingStep ==
  ASSUME QueueInv, Loading
  PROVE  QueueInv'
<1>1. UNCHANGED server /\ UNCHANGED requests
  BY DEF Loading, RefreshIndex, AnswerIndex, IndexArrives, IndexFails, AnswerWindow, WindowArrives, WindowFails
<1>2. QED
  BY <1>1, ClientStep DEF QueueInv, HandlersSound

----------------------------------------------------------------------------
LEMMA QueueInvInductive == Spec => []QueueInv
<1>1. Init => QueueInv
  <2>1. SUFFICES ASSUME Init PROVE QueueInv
    OBVIOUS
  <2>2. rows = [i \in Item |-> Seeded] /\ requests = {}
    BY <2>1 DEF Init
  <2>3. Seeded.own
    BY DEF Seeded
  <2>4. QED
    BY <2>2, <2>3 DEF QueueInv, HandlersSound, PushLosesNothing
<1>2. QueueInv /\ [Next]_vars => QueueInv'
  <2> SUFFICES ASSUME QueueInv, [Next]_vars PROVE QueueInv'
    OBVIOUS
  <2>1. ASSUME NEW r \in requests, Handler(r) PROVE QueueInv'
    BY <2>1, ReadRowStep, InsertRowStep, RemoveQueueItemStep, MatchRowsStep, CopyRowsStep,
       DeleteRowsStep, FailRequestStep DEF Handler
  <2>2. CASE UNCHANGED vars
    BY <2>2, ClientStep DEF vars, QueueInv, HandlersSound
  <2>3. QED
    BY <2>1, <2>2, AnswerStep, TimerStep, LoadingStep, UserStep DEF Next
<1>3. QED
  BY <1>1, <1>2, PTL DEF Spec

\* No item leaves the queue with its payload unless the user discarded it or
\* the dataset has it, whatever requests overlap, fail or are aborted:
\* copyQueueItemsToDataset deletes what it has copied and counted, and
\* updateQueueItem keeps the payload it reads.
THEOREM NothingLost == Spec => []PushLosesNothing
<1>1. QueueInv => PushLosesNothing
  BY DEF QueueInv
<1>2. QED
  BY <1>1, QueueInvInductive, PTL

----------------------------------------------------------------------------
(* What a page knows of its saves.                                          *)

Target == Edit \cup {Empty}
Row    == [edit : Target, status : {0, 1}, own : BOOLEAN]

\* Rows by item.
RowsByItem(f) == DOMAIN f \subseteq Item /\ \A i \in DOMAIN f : f[i] \in Row

Active(r)       == r.phase \notin {"done", "failed"}
ActiveIn(R, i)  == {r \in R : i \in About(r) /\ Active(r)}
LiveSave(r)     == r.kind = "save" /\ r.live

Formed(r) ==
  /\ Whole(r)
  /\ r.id \in Nat \ {0} /\ r.item \in Item \cup {None} /\ r.live \in BOOLEAN /\ r.status \in {0, 1}
  /\ r.kind \in {"save", "approve", "unapprove", "discard", "push"}
  /\ r.kind # "push" => r.item \in Item
  /\ IF r.kind = "save" THEN r.edit \in Target ELSE r.edit = None
  /\ r.kind \in Saving => r.seen \subseteq Row
  /\ r.kind = "push" => r.seen \subseteq About(r)

AllFormed(R) == IsFiniteSet(R) /\ \A r \in R : Formed(r)

\* The saves somebody waits for are those whose ids are kept, one per item, and
\* an id somebody waits for is the id of no other request.
Tracked(R, A) ==
  /\ \A r, q \in R : r.live /\ q.id = r.id => q = r
  /\ \A r \in R : LiveSave(r) => A[r.item] = r.id
  /\ \A i \in Item : A[i] # 0 => \E r \in R : LiveSave(r) /\ r.item = i /\ r.id = A[i]

----------------------------------------------------------------------------
(* New and aborted requests.                                                *)

LEMMA ImageFinite ==
  ASSUME NEW S, IsFiniteSet(S), NEW f, DOMAIN f = S
  PROVE  LET T == {f[x] : x \in S} IN IsFiniteSet(T) /\ Cardinality(T) <= Cardinality(S)
<1> DEFINE T == {f[x] : x \in S}
           g == [x \in S |-> f[x]]
<1>1. g \in Surjection(S, T)
  BY DEF Surjection
<1>2. QED
  BY <1>1, FS_Surjection

\* One id more than there are requests: one of them is free.
LEMMA NewIdFresh ==
  ASSUME NEW R, IsFiniteSet(R)
  PROVE  NewId(R) \in Nat \ {0} /\ \A r \in R : r.id # NewId(R)
<1> DEFINE n == Cardinality(R)
           f == [r \in R |-> r.id]
           D == {f[r] : r \in R}
<1>1. n \in Nat
  BY FS_CardinalityType
<1>2. \E k \in 1..n + 1 : \A r \in R : r.id # k
  <2>1. SUFFICES ASSUME \A k \in 1..n + 1 : \E r \in R : r.id = k PROVE FALSE
    OBVIOUS
  <2>2. IsFiniteSet(D) /\ Cardinality(D) <= n
    BY ImageFinite
  <2>3. 1..n + 1 \subseteq D
    BY <2>1
  <2> HIDE DEF D, n
  <2>4. Cardinality(1..n + 1) = n + 1
    BY <1>1, FS_Interval
  <2>5. Cardinality(1..n + 1) <= Cardinality(D) /\ Cardinality(D) \in Nat
    BY <2>2, <2>3, FS_Subset, FS_CardinalityType
  <2>6. QED
    BY <1>1, <2>2, <2>4, <2>5
<1>3. NewId(R) = CHOOSE k \in 1..n + 1 : \A r \in R : r.id # k
  BY DEF NewId
<1>4. QED
  BY <1>1, <1>2, <1>3

\* What a new request is.
Fresh(r, kind, i, edit, status, R) ==
  /\ Whole(r) /\ r.id = NewId(R) /\ r.kind = kind /\ r.item = i /\ r.edit = edit
  /\ r.status = status /\ r.phase = "sent" /\ r.seen = {} /\ r.live = TRUE

LEMMA RequestFresh ==
  ASSUME NEW kind, NEW i, NEW edit, NEW status, NEW all, NEW R
  PROVE  Fresh(Request(kind, i, edit, status, all, R), kind, i, edit, status, R)
<1>1. PICK id : id = NewId(R)
  OBVIOUS
<1>2. PICK r : r = [id |-> id, kind |-> kind, item |-> i, edit |-> edit, status |-> status,
                    all |-> all, phase |-> "sent", seen |-> {}, live |-> TRUE]
  OBVIOUS
<1>3. r = Request(kind, i, edit, status, all, R)
  BY <1>1, <1>2 DEF Request
<1>4. Fresh(r, kind, i, edit, status, R)
  BY <1>1, <1>2 DEF Fresh, Whole
<1>5. QED
  BY <1>3, <1>4

\* A request with one of the ids is not waited for any more.
Ended(r, ids) == IF r.id \in ids THEN [r EXCEPT !.live = FALSE] ELSE r

LEMMA EndedFields ==
  ASSUME NEW r, Whole(r), NEW ids
  PROVE  LET e == Ended(r, ids) IN
         /\ Whole(e) /\ e.id = r.id /\ e.kind = r.kind /\ e.item = r.item /\ e.edit = r.edit
         /\ e.status = r.status /\ e.all = r.all /\ e.phase = r.phase /\ e.seen = r.seen
         /\ r.id \in ids => e.live = FALSE
         /\ r.id \notin ids => e = r
<1>1. CASE r.id \in ids
  <2>1. PICK q : q = [r EXCEPT !.live = FALSE]
    OBVIOUS
  <2>2. Ended(r, ids) = q
    BY <1>1, <2>1 DEF Ended
  <2>3. Whole(q) /\ q.id = r.id /\ q.kind = r.kind /\ q.item = r.item /\ q.edit = r.edit
         /\ q.status = r.status /\ q.all = r.all /\ q.phase = r.phase /\ q.seen = r.seen /\ q.live = FALSE
    BY <2>1 DEF Whole
  <2>4. QED
    BY <1>1, <2>2, <2>3
<1>2. CASE r.id \notin ids
  BY <1>2 DEF Ended
<1>3. QED
  BY <1>1, <1>2

LEMMA AbortedFrom ==
  ASSUME NEW R, NEW ids, NEW p \in Abort(R, ids)
  PROVE  \E q \in R : p = Ended(q, ids) /\ (q.id \in ids => Active(q))
BY DEF Abort, Ended, Active

LEMMA AbortKeeps ==
  ASSUME NEW R, NEW ids, NEW q \in R, q.id \notin ids \/ Active(q)
  PROVE  Ended(q, ids) \in Abort(R, ids)
BY DEF Abort, Ended, Active

LEMMA AbortFormed ==
  ASSUME NEW R, AllFormed(R), NEW ids
  PROVE  AllFormed(Abort(R, ids))
<1> DEFINE f == [r \in R |-> Ended(r, ids)]
           T == {f[r] : r \in R}
<1>1. IsFiniteSet(T)
  BY ImageFinite DEF AllFormed
<1>2. Abort(R, ids) \subseteq T
  BY AbortedFrom
<1>3. IsFiniteSet(Abort(R, ids))
  BY <1>1, <1>2, FS_Subset
<1>4. ASSUME NEW p \in Abort(R, ids) PROVE Formed(p)
  <2>1. PICK q \in R : p = Ended(q, ids)
    BY AbortedFrom
  <2>2. Formed(q)
    BY DEF AllFormed
  <2>3. /\ Whole(p) /\ p.id = q.id /\ p.kind = q.kind /\ p.item = q.item /\ p.edit = q.edit
        /\ p.status = q.status /\ p.seen = q.seen /\ p.live \in BOOLEAN
    BY <2>1, <2>2, EndedFields DEF Formed
  <2>4. QED
    BY <2>2, <2>3 DEF Formed, About
<1>5. QED
  BY <1>3, <1>4 DEF AllFormed

\* What is active about an item stays active.
LEMMA AbortActive ==
  ASSUME NEW R, AllFormed(R), NEW ids, NEW i
  PROVE  ActiveIn(Abort(R, ids), i) = {Ended(q, ids) : q \in ActiveIn(R, i)}
<1>0. ASSUME NEW q \in R PROVE Whole(q)
  BY DEF AllFormed, Formed
<1>1. ASSUME NEW q \in R
      PROVE  (i \in About(Ended(q, ids)) /\ Active(Ended(q, ids))) <=> (i \in About(q) /\ Active(q))
  BY <1>0, EndedFields DEF About, Active
<1>2. ASSUME NEW p \in ActiveIn(Abort(R, ids), i) PROVE p \in {Ended(q, ids) : q \in ActiveIn(R, i)}
  <2>1. PICK q \in R : p = Ended(q, ids)
    BY <1>2, AbortedFrom DEF ActiveIn
  <2>2. QED
    BY <1>1, <1>2, <2>1 DEF ActiveIn
<1>3. ASSUME NEW q \in ActiveIn(R, i) PROVE Ended(q, ids) \in ActiveIn(Abort(R, ids), i)
  BY <1>1, <1>3, AbortKeeps DEF ActiveIn
<1>4. QED
  BY <1>2, <1>3

\* A new request among formed ones.
LEMMA AddFormed ==
  ASSUME NEW R, AllFormed(R),
         NEW r, Whole(r), r.id = NewId(R), r.seen = {}, r.live = TRUE, r.status \in {0, 1},
         r.kind \in {"save", "approve", "unapprove", "discard", "push"},
         r.item \in Item \cup {None}, r.kind # "push" => r.item \in Item,
         IF r.kind = "save" THEN r.edit \in Target ELSE r.edit = None
  PROVE  Formed(r) /\ AllFormed(R \cup {r}) /\ \A q \in R : q.id # r.id
<1>1. NewId(R) \in Nat \ {0} /\ \A q \in R : q.id # NewId(R)
  BY NewIdFresh DEF AllFormed
<1>2. Formed(r)
  BY <1>1 DEF Formed
<1>3. IsFiniteSet(R \cup {r})
  BY FS_AddElement DEF AllFormed
<1>4. QED
  BY <1>1, <1>2, <1>3 DEF AllFormed

\* A handler that goes on changes its request, or is done with one nobody waits for.
LEMMA AdvanceCases ==
  ASSUME NEW r \in requests, Whole(r), NEW phase, NEW seen, Advance(r, phase, seen)
  PROVE  \E q : /\ Whole(q) /\ q.id = r.id /\ q.kind = r.kind /\ q.item = r.item /\ q.edit = r.edit
                /\ q.status = r.status /\ q.live = r.live /\ q.phase = phase /\ q.seen = seen
                /\ \/ requests' = (requests \ {r}) \cup {q}
                   \/ requests' = requests \ {r} /\ phase \in {"done", "failed"} /\ ~r.live
<1>1. PICK q : q = [r EXCEPT !.phase = phase, !.seen = seen]
  OBVIOUS
<1>2. /\ Whole(q) /\ q.id = r.id /\ q.kind = r.kind /\ q.item = r.item /\ q.edit = r.edit
      /\ q.status = r.status /\ q.live = r.live /\ q.phase = phase /\ q.seen = seen
  BY <1>1 DEF Whole
<1>3. \/ requests' = (requests \ {r}) \cup {q}
      \/ requests' = requests \ {r} /\ phase \in {"done", "failed"} /\ ~r.live
  BY <1>1 DEF Advance
<1>4. QED
  BY <1>2, <1>3

----------------------------------------------------------------------------
(* Saves on their way.                                                      *)

LEMMA TrackedAdvance ==
  ASSUME Tracked(requests, aborts), NEW r \in requests, Whole(r), NEW phase, NEW seen,
         Advance(r, phase, seen)
  PROVE  Tracked(requests', aborts)
<1>1. PICK q : /\ q.id = r.id /\ q.kind = r.kind /\ q.item = r.item /\ q.live = r.live
               /\ \/ requests' = (requests \ {r}) \cup {q}
                  \/ requests' = requests \ {r} /\ ~r.live
  BY AdvanceCases
<1>2. ASSUME NEW a \in requests', NEW b \in requests', a.live, b.id = a.id PROVE a = b
  BY <1>1, <1>2 DEF Tracked
<1>3. ASSUME NEW a \in requests', LiveSave(a) PROVE aborts[a.item] = a.id
  BY <1>1, <1>3 DEF Tracked, LiveSave
<1>4. ASSUME NEW i \in Item, aborts[i] # 0
      PROVE  \E a \in requests' : LiveSave(a) /\ a.item = i /\ a.id = aborts[i]
  <2>1. PICK a \in requests : LiveSave(a) /\ a.item = i /\ a.id = aborts[i]
    BY <1>4 DEF Tracked
  <2>2. QED
    BY <1>1, <2>1 DEF LiveSave
<1>5. QED
  BY <1>2, <1>3, <1>4 DEF Tracked

LEMMA TrackedRemove ==
  ASSUME NEW R, NEW A, Tracked(R, A), NEW r \in R, r.kind # "save"
  PROVE  Tracked(R \ {r}, A)
BY DEF Tracked, LiveSave

LEMMA TrackedSettles ==
  ASSUME NEW R, NEW A \in [Item -> Nat], Tracked(R, A), \A q \in R : Formed(q),
         NEW r \in R, r.kind = "save", r.live
  PROVE  Tracked(R \ {r}, [A EXCEPT ![r.item] = IF @ = r.id THEN 0 ELSE @])
<1> DEFINE B == [A EXCEPT ![r.item] = IF @ = r.id THEN 0 ELSE @]
<1>1. r.item \in Item /\ A[r.item] = r.id
  BY DEF Formed, Tracked, LiveSave
<1>2. B[r.item] = 0 /\ \A i \in Item \ {r.item} : B[i] = A[i]
  BY <1>1
<1> HIDE DEF B
<1>3. ASSUME NEW q \in R \ {r}, LiveSave(q) PROVE B[q.item] = q.id
  <2>1. q.item \in Item /\ A[q.item] = q.id
    BY <1>3 DEF Formed, Tracked, LiveSave
  <2>2. q.item # r.item
    BY <1>1, <2>1 DEF Tracked
  <2>3. QED
    BY <1>2, <2>1, <2>2
<1>4. ASSUME NEW i \in Item, B[i] # 0
      PROVE  \E q \in R \ {r} : LiveSave(q) /\ q.item = i /\ q.id = B[i]
  <2>1. i # r.item /\ B[i] = A[i]
    BY <1>2, <1>4
  <2>2. PICK q \in R : LiveSave(q) /\ q.item = i /\ q.id = A[i]
    BY <1>4, <2>1 DEF Tracked
  <2>3. QED
    BY <2>1, <2>2
<1>5. QED
  BY <1>3, <1>4 DEF Tracked, B

\* The saves of the items of S given up.
Zeroed(A, S) == [i \in Item |-> IF i \in S THEN 0 ELSE A[i]]

\* The ids kept for the items of S are those of saves of these items only.
LEMMA IdsOf ==
  ASSUME NEW R, NEW A \in [Item -> Nat], Tracked(R, A), \A q \in R : Formed(q),
         NEW S \in SUBSET Item, NEW q \in R, q.id \in {A[i] : i \in S}
  PROVE  LiveSave(q) /\ q.item \in S /\ q.id = A[q.item]
<1>1. PICK i \in S : q.id = A[i]
  OBVIOUS
<1>2. A[i] # 0
  BY <1>1 DEF Formed
<1>3. PICK p \in R : LiveSave(p) /\ p.item = i /\ p.id = A[i]
  BY <1>2 DEF Tracked
<1>4. p = q
  BY <1>1, <1>3 DEF Tracked, LiveSave
<1>5. QED
  BY <1>1, <1>3, <1>4

LEMMA TrackedCancel ==
  ASSUME NEW R, NEW A \in [Item -> Nat], Tracked(R, A), \A q \in R : Formed(q), NEW S \in SUBSET Item
  PROVE  Tracked(Abort(R, {A[i] : i \in S}), Zeroed(A, S))
<1> DEFINE ids == {A[i] : i \in S}
           B == Zeroed(A, S)
           Q == Abort(R, ids)
<1>1. ASSUME NEW p \in Q
      PROVE  \E q \in R : /\ p.id = q.id /\ (q.id \in ids => ~p.live) /\ (q.id \notin ids => p = q)
                          /\ p = Ended(q, ids)
  <2>1. PICK q \in R : p = Ended(q, ids)
    BY AbortedFrom, ZenonT(60)
  <2>2. QED
    BY <2>1, EndedFields DEF Formed
<1>2. \A q \in R : q.id \notin ids => q \in Q
  BY AbortKeeps DEF Ended
<1>3. \A q \in R : q.id \in ids => LiveSave(q) /\ q.item \in S
  BY IdsOf
<1>4. \A i \in Item : B[i] = IF i \in S THEN 0 ELSE A[i]
  BY DEF Zeroed
<1> HIDE DEF ids, B, Q
<1>5. ASSUME NEW p \in Q, NEW q \in Q, p.live, q.id = p.id PROVE q = p
  <2>1. PICK p0 \in R : p = p0 /\ p0.id \notin ids
    BY <1>1, <1>5
  <2>2. PICK q0 \in R : q.id = q0.id /\ q = Ended(q0, ids)
    BY <1>1
  <2>3. q0 = p0
    BY <1>5, <2>1, <2>2 DEF Tracked
  <2>4. QED
    BY <2>1, <2>2, <2>3 DEF Ended
<1>6. ASSUME NEW p \in Q, LiveSave(p) PROVE B[p.item] = p.id
  <2>1. p \in R /\ p.id \notin ids
    BY <1>1, <1>6 DEF LiveSave
  <2>2. A[p.item] = p.id /\ p.item \in Item
    BY <1>6, <2>1 DEF Tracked, Formed, LiveSave
  <2>3. p.item \notin S
    BY <2>1, <2>2 DEF ids
  <2>4. QED
    BY <1>4, <2>2, <2>3
<1>7. ASSUME NEW i \in Item, B[i] # 0
      PROVE  \E p \in Q : LiveSave(p) /\ p.item = i /\ p.id = B[i]
  <2>1. i \notin S /\ B[i] = A[i]
    BY <1>4, <1>7
  <2>2. PICK p \in R : LiveSave(p) /\ p.item = i /\ p.id = A[i]
    BY <1>7, <2>1 DEF Tracked
  <2>3. p \in Q
    BY <1>2, <1>3, <2>1, <2>2
  <2>4. QED
    BY <2>1, <2>2, <2>3
<1>8. QED
  BY <1>5, <1>6, <1>7 DEF Tracked, Q, B, ids

\* A new request that is not a save.
LEMMA TrackedAdd ==
  ASSUME NEW R, NEW A, Tracked(R, A), NEW r, \A q \in R : q.id # r.id, r.kind # "save"
  PROVE  Tracked(R \cup {r}, A)
BY DEF Tracked, LiveSave

\* A new save, the only one of its item.
LEMMA TrackedSave ==
  ASSUME NEW R, NEW A \in [Item -> Nat], Tracked(R, A), \A q \in R : Formed(q),
         NEW r, \A q \in R : q.id # r.id, LiveSave(r), r.id \in Nat \ {0}, r.item \in Item,
         A[r.item] = 0
  PROVE  Tracked(R \cup {r}, [A EXCEPT ![r.item] = r.id])
<1> DEFINE B == [A EXCEPT ![r.item] = r.id]
<1>1. B[r.item] = r.id /\ \A i \in Item \ {r.item} : B[i] = A[i]
  OBVIOUS
<1> HIDE DEF B
<1>2. ASSUME NEW p \in R, LiveSave(p) PROVE B[p.item] = p.id
  <2>1. A[p.item] = p.id /\ p.item \in Item /\ p.id # 0
    BY <1>2 DEF Tracked, Formed, LiveSave
  <2>2. QED
    BY <1>1, <2>1
<1>3. ASSUME NEW i \in Item, B[i] # 0
      PROVE  \E p \in R \cup {r} : LiveSave(p) /\ p.item = i /\ p.id = B[i]
  BY <1>1, <1>3 DEF Tracked
<1>4. \A p, q \in R \cup {r} : p.live /\ q.id = p.id => q = p
  BY DEF Tracked
<1>5. QED
  BY <1>1, <1>2, <1>3, <1>4 DEF Tracked, B

\* Nobody waits for anything.
LEMMA TrackedUnheard ==
  ASSUME NEW R, \A q \in R : Formed(q)
  PROVE  Tracked(Unheard(R), [i \in Item |-> 0]) /\ \A p \in Unheard(R) : ~p.live
<1>1. ASSUME NEW p \in Unheard(R) PROVE p.live = FALSE
  <2> DEFINE ids == {r.id : r \in R}
  <2>1. PICK q \in R : p = Ended(q, ids)
    BY AbortedFrom DEF Unheard
  <2>2. q.id \in ids
    OBVIOUS
  <2> HIDE DEF ids
  <2>3. QED
    BY <2>1, <2>2, EndedFields DEF Formed
<1>2. QED
  BY <1>1 DEF Tracked, LiveSave

----------------------------------------------------------------------------
(* What the page holds.                                                     *)

WholeWindow(w) == w = [ids |-> w.ids, phase |-> w.phase, items |-> w.items]
WindowOK ==
  window # None =>
    /\ mounted /\ WholeWindow(window)
    /\ RowsByItem(window.items)
    /\ DOMAIN window.items \subseteq window.ids /\ window.ids \cap DOMAIN loadedItems = {}

IndexOK ==
  /\ index = [phase |-> index.phase, list |-> index.list, awaited |-> index.awaited]
  /\ index.phase # "none" => mounted

\* Items are asked for only while they are not loaded, so nothing the user has
\* entered since is in the answer.
PageInv ==
  /\ RowsByItem(rows) /\ RowsByItem(loadedItems)
  /\ timers \in [Item -> Target \cup {None}] /\ aborts \in [Item -> Nat]
  /\ typed \in [Item -> Target \cup {None}]
  /\ WindowOK
  /\ IndexOK
  /\ AllFormed(requests) /\ Tracked(requests, aborts)

\* What is known of the list: it has every item that was never deleted.
Listed ==
  /\ Item \ gone \subseteq DOMAIN rows
  /\ index.phase = "answered" =>
       \A i \in Item \ gone : \E k \in DOMAIN index.list : index.list[k][1] = i
  /\ \A r \in requests : r.phase = "done" =>
       /\ r.kind = "discard" => r.item \in gone
       /\ r.kind = "push" => r.seen \subseteq gone

\* Rows that are evicted, or approved.
Narrowed(f, g) == DOMAIN f \subseteq DOMAIN g /\ \A i \in DOMAIN f : f[i].edit = g[i].edit

\* A request for items that are not loaded.
NewWindow(w, loaded) ==
  mounted /\ WholeWindow(w) /\ w.ids \cap DOMAIN loaded = {} /\ DOMAIN w.items = {}

\* What the steps have in common that change what the page shows, and no edit.
ViewStep ==
  /\ UNCHANGED <<server, mounted, timers, aborts, typed, exposed>>
  /\ \/ UNCHANGED requests
     \/ \E r \in requests : requests' = requests \ {r} /\ r.kind # "save" /\ ~Active(r)
  /\ RowsByItem(loadedItems') /\ Narrowed(loadedItems', loadedItems)
  /\ \A i \in Item \ gone : HasPending(i) /\ i \in DOMAIN loadedItems => i \in DOMAIN loadedItems'
  /\ \/ window' = window \/ window' = None
     \/ NewWindow(window', loadedItems')

LEMMA CurrentLoaded ==
  ASSUME PageInv, Current # None
  PROVE  Current \in Item /\ Current \in DOMAIN loadedItems /\ loadedItems[Current] \in Row
BY DEF Current, PageInv, RowsByItem

LEMMA Evicted ==
  ASSUME NEW f, RowsByItem(f), NEW ids, NEW k
  PROVE  LET e == EvictOutsideWindow(f, ids, k) IN
         /\ RowsByItem(e) /\ Narrowed(e, f)
         /\ \A i \in DOMAIN f : HasPending(i) => i \in DOMAIN e
BY DEF EvictOutsideWindow, Without, Restrict, RowsByItem, Narrowed

LEMMA NarrowedTwice ==
  ASSUME NEW f, NEW g, NEW h, Narrowed(f, g), Narrowed(g, h)
  PROVE  Narrowed(f, h)
BY DEF Narrowed

LEMMA ShowWindow ==
  ASSUME PageInv, mounted, NEW ids, NEW loaded, NEW states, NEW k, Show(ids, loaded, states, k)
  PROVE  /\ loadedItems' = loaded
         /\ \/ window' = window
            \/ NewWindow(window', loadedItems')
<1> DEFINE missing == ComputeWindowIds(ids, k) \ DOMAIN loaded
<1>1. /\ loadedItems' = loaded
      /\ window' = window \/ window' = [ids |-> missing, phase |-> "sent", items |-> <<>>]
  BY DEF Show, LoadWindow
<1>2. missing \cap DOMAIN loaded = {}
  OBVIOUS
<1> HIDE DEF missing
<1>3. ASSUME window' = [ids |-> missing, phase |-> "sent", items |-> <<>>]
      PROVE  window'.ids = missing /\ DOMAIN window'.items = {} /\ WholeWindow(window')
  BY <1>3 DEF WholeWindow
<1>4. QED
  BY <1>1, <1>2, <1>3 DEF NewWindow

LEMMA IndexArrivesView ==
  ASSUME PageInv, Listed, IndexArrives
  PROVE  ViewStep
<1>1. /\ mounted /\ UNCHANGED <<server, requests, mounted, timers, aborts, typed, exposed>>
      /\ index.phase = "answered"
  BY DEF IndexArrives, PageInv, IndexOK, pending
<1>2. CASE index.list = cached
  BY <1>1, <1>2 DEF IndexArrives, store, ViewStep, Narrowed, PageInv
<1>3. CASE index.list # cached
  <2> DEFINE list == index.list
             ids  == [k \in DOMAIN list |-> list[k][1]]
             kept == Restrict(loadedItems, DOMAIN loadedItems \cap ToSet(ids))
             k    == Clamp(currentIndex, ids)
             e    == EvictOutsideWindow(kept, ids, k)
             states == [i \in ToSet(ids) |->
                   IF HasPending(i) /\ i \in DOMAIN itemStates THEN itemStates[i]
                   ELSE (CHOOSE x \in ToSet(list) : x[1] = i)[2]]
  <2>1. Show(ids, e, states, k)
    BY <1>3 DEF IndexArrives, HydrateIndex
  <2>2. RowsByItem(kept) /\ Narrowed(kept, loadedItems)
    BY DEF PageInv, RowsByItem, Narrowed, Restrict
  <2>3. \A i \in (Item \ gone) \cap DOMAIN loadedItems : i \in DOMAIN kept
    <3>1. SUFFICES ASSUME NEW i \in Item \ gone, i \in DOMAIN loadedItems PROVE i \in ToSet(ids)
      BY DEF Restrict
    <3>2. PICK n \in DOMAIN list : list[n][1] = i
      BY <1>1 DEF Listed
    <3>3. QED
      BY <3>2 DEF ToSet
  <2> HIDE DEF kept, ids, states, k
  <2>4. RowsByItem(e) /\ Narrowed(e, kept) /\ \A i \in DOMAIN kept : HasPending(i) => i \in DOMAIN e
    BY <2>2, Evicted
  <2> HIDE DEF e
  <2>5. /\ loadedItems' = e
        /\ \/ window' = window
           \/ NewWindow(window', loadedItems')
    BY <1>1, <2>1, ShowWindow
  <2>6. Narrowed(e, loadedItems)
    BY <2>2, <2>4, NarrowedTwice
  <2>7. QED
    BY <1>1, <2>3, <2>4, <2>5, <2>6 DEF ViewStep
<1>4. QED
  BY <1>2, <1>3

LEMMA SetCurrentIndexView ==
  ASSUME PageInv, NEW k, SetCurrentIndex(k)
  PROVE  ViewStep
<1>1. /\ mounted /\ UNCHANGED <<server, requests, mounted, timers, aborts, typed, exposed>>
      /\ Show(idsList, EvictOutsideWindow(loadedItems, idsList, k), itemStates, k)
  BY DEF SetCurrentIndex, pending
<1> DEFINE e == EvictOutsideWindow(loadedItems, idsList, k)
<1>2. RowsByItem(e) /\ Narrowed(e, loadedItems) /\ \A i \in DOMAIN loadedItems : HasPending(i) => i \in DOMAIN e
  BY Evicted DEF PageInv
<1> HIDE DEF e
<1>3. /\ loadedItems' = e
      /\ \/ window' = window
         \/ NewWindow(window', loadedItems')
  BY <1>1, ShowWindow DEF e
<1>4. QED
  BY <1>1, <1>2, <1>3 DEF ViewStep

\* The answer to an action: its request is over.
LEMMA AnsweredView ==
  ASSUME NEW r \in requests, NEW phase \in {"done", "failed"}, Answered(r, phase)
  PROVE  mounted /\ requests' = requests \ {r} /\ r.kind # "save" /\ ~Active(r) /\ r.phase = phase
BY DEF Answered, Active

LEMMA ApprovedView ==
  ASSUME PageInv, NEW r \in requests, Approved(r)
  PROVE  ViewStep
<1> DEFINE loaded == IF r.item \in DOMAIN loadedItems
                     THEN [loadedItems EXCEPT ![r.item].status = 1] ELSE loadedItems
           k == IF currentIndex < Len(idsList) THEN currentIndex + 1 ELSE currentIndex
           e == EvictOutsideWindow(loaded, idsList, k)
           shown == IF k = currentIndex THEN loaded ELSE e
           states == Put(itemStates, r.item, "approved")
<1>1. /\ Answered(r, "done") /\ UNCHANGED <<server, mounted, timers, aborts, typed, exposed>>
      /\ Show(idsList, shown, states, k)
  BY DEF Approved, pending
<1>2. mounted /\ requests' = requests \ {r} /\ r.kind # "save" /\ ~Active(r)
  BY <1>1, AnsweredView
<1>3. RowsByItem(loaded) /\ Narrowed(loaded, loadedItems) /\ DOMAIN loaded = DOMAIN loadedItems
  <2>1. RowsByItem(loadedItems)
    BY DEF PageInv
  <2>2. CASE r.item \in DOMAIN loadedItems
    <3>1. PICK row \in Row : row = loadedItems[r.item]
      BY <2>1, <2>2 DEF RowsByItem
    <3>2. [row EXCEPT !.status = 1] \in Row /\ [row EXCEPT !.status = 1].edit = row.edit
      BY DEF Row
    <3>3. loaded = [loadedItems EXCEPT ![r.item] = [row EXCEPT !.status = 1]]
      BY <2>2, <3>1
    <3> HIDE DEF loaded
    <3>4. QED
      BY <2>1, <2>2, <3>1, <3>2, <3>3 DEF RowsByItem, Narrowed
  <2>3. CASE r.item \notin DOMAIN loadedItems
    BY <2>1, <2>3 DEF Narrowed
  <2>4. QED
    BY <2>2, <2>3
<1> HIDE DEF loaded, k, states
<1>4. RowsByItem(e) /\ Narrowed(e, loaded) /\ \A i \in DOMAIN loaded : HasPending(i) => i \in DOMAIN e
  BY <1>3, Evicted
<1>5. Narrowed(e, loadedItems)
  BY <1>3, <1>4, NarrowedTwice
<1> HIDE DEF e
<1>6. /\ RowsByItem(shown) /\ Narrowed(shown, loadedItems)
      /\ \A i \in DOMAIN loadedItems : HasPending(i) => i \in DOMAIN shown
  BY <1>3, <1>4, <1>5
<1> HIDE DEF shown
<1>7. /\ loadedItems' = shown
      /\ \/ window' = window
         \/ NewWindow(window', loadedItems')
  BY <1>1, <1>2, ShowWindow
<1>8. QED
  BY <1>1, <1>2, <1>6, <1>7 DEF ViewStep

LEMMA UnapprovedView ==
  ASSUME PageInv, NEW r \in requests, Unapproved(r)
  PROVE  ViewStep
<1>1. /\ Answered(r, "done") /\ UNCHANGED <<server, mounted, timers, aborts, typed, exposed, window>>
  BY DEF Unapproved, pending, loader
<1>2. mounted /\ requests' = requests \ {r} /\ r.kind # "save" /\ ~Active(r)
  BY <1>1, AnsweredView
<1>3. RowsByItem(loadedItems') /\ Narrowed(loadedItems', loadedItems) /\ DOMAIN loadedItems' = DOMAIN loadedItems
  <2>1. RowsByItem(loadedItems)
    BY DEF PageInv
  <2>2. CASE r.item \in DOMAIN loadedItems
    <3>1. PICK row \in Row : row = loadedItems[r.item]
      BY <2>1, <2>2 DEF RowsByItem
    <3>2. [row EXCEPT !.status = 0] \in Row /\ [row EXCEPT !.status = 0].edit = row.edit
      BY DEF Row
    <3>3. loadedItems' = [loadedItems EXCEPT ![r.item] = [row EXCEPT !.status = 0]]
      BY <2>2, <3>1 DEF Unapproved
    <3>4. QED
      BY <2>1, <2>2, <3>1, <3>2, <3>3 DEF RowsByItem, Narrowed
  <2>3. CASE r.item \notin DOMAIN loadedItems
    BY <2>1, <2>3 DEF Narrowed, Unapproved
  <2>4. QED
    BY <2>2, <2>3
<1>4. QED
  BY <1>1, <1>2, <1>3 DEF ViewStep

\* What is removed from the page has been deleted before.
LEMMA RemovedView ==
  ASSUME PageInv, Listed, NEW r \in requests, Removed(r)
  PROVE  ViewStep
<1>1. /\ Answered(r, "done") /\ UNCHANGED <<server, mounted, timers, aborts, typed, exposed>>
      /\ r.kind = "discard" \/ (r.kind = "push" /\ r.item # None /\ r.seen # {})
      /\ RemoveItemLocal(r.item)
  BY DEF Removed, pending
<1>2. mounted /\ requests' = requests \ {r} /\ r.kind # "save" /\ ~Active(r) /\ r.phase = "done"
  BY <1>1, AnsweredView
<1>3. r.item \in gone
  <2>1. Formed(r)
    BY DEF PageInv, AllFormed
  <2>2. CASE r.kind = "discard"
    BY <1>2, <2>2 DEF Listed
  <2>3. CASE r.kind = "push" /\ r.item # None /\ r.seen # {}
    BY <1>2, <2>1, <2>3 DEF Listed, Formed, About
  <2>4. QED
    BY <1>1, <2>2, <2>3
<1>4. CASE r.item \notin ToSet(idsList)
  BY <1>1, <1>2, <1>4 DEF RemoveItemLocal, store, ViewStep, Narrowed, PageInv
<1>5. CASE r.item \in ToSet(idsList)
  <2> DEFINE loaded == Without(loadedItems, {r.item})
  <2>1. PICK ids, states, k : Show(ids, loaded, states, k)
    BY <1>1, <1>5 DEF RemoveItemLocal
  <2>2. /\ RowsByItem(loaded) /\ Narrowed(loaded, loadedItems)
        /\ \A i \in DOMAIN loadedItems : i # r.item => i \in DOMAIN loaded
    BY DEF Without, Restrict, PageInv, RowsByItem, Narrowed
  <2> HIDE DEF loaded
  <2>3. /\ loadedItems' = loaded
        /\ \/ window' = window
           \/ NewWindow(window', loadedItems')
    BY <1>2, <2>1, ShowWindow
  <2>4. QED
    BY <1>1, <1>2, <1>3, <2>2, <2>3 DEF ViewStep
<1>6. QED
  BY <1>4, <1>5

LEMMA OtherViews ==
  ASSUME PageInv,
         \/ RefreshIndex \/ AnswerIndex \/ IndexFails \/ WindowFails
         \/ \E r \in requests : PushedAll(r) \/ ActionFails(r)
  PROVE  ViewStep
<1>1. Narrowed(loadedItems, loadedItems) /\ RowsByItem(loadedItems)
  BY DEF Narrowed, PageInv
<1>2. CASE RefreshIndex \/ AnswerIndex \/ IndexFails
  BY <1>1, <1>2 DEF RefreshIndex, AnswerIndex, IndexFails, ViewStep, pending, store
<1>3. CASE WindowFails
  BY <1>1, <1>3 DEF WindowFails, ViewStep, pending, store
<1>4. ASSUME NEW r \in requests, PushedAll(r) \/ ActionFails(r) PROVE ViewStep
  <2>1. requests' = requests \ {r} /\ r.kind # "save" /\ ~Active(r)
    BY <1>4, AnsweredView DEF PushedAll, ActionFails
  <2>2. UNCHANGED <<server, mounted, timers, aborts, typed, exposed, loadedItems, window>>
    BY <1>4 DEF PushedAll, ActionFails, pending, store, loader
  <2>3. QED
    BY <1>1, <2>1, <2>2 DEF ViewStep
<1>5. QED
  BY <1>2, <1>3, <1>4

----------------------------------------------------------------------------
(* What the page knows stays true.                                          *)

\* A step that changes only what the page shows.
LEMMA ViewPage ==
  ASSUME PageInv, ViewStep, IndexOK'
  PROVE  PageInv'
<1>1. /\ UNCHANGED <<rows, timers, aborts, typed, mounted>> /\ RowsByItem(loadedItems')
  BY DEF ViewStep, server
<1>2. AllFormed(requests') /\ Tracked(requests', aborts)
  <2>1. CASE UNCHANGED requests
    BY <2>1 DEF PageInv
  <2>2. ASSUME NEW r \in requests, requests' = requests \ {r}, r.kind # "save"
        PROVE  AllFormed(requests') /\ Tracked(requests', aborts)
    BY <2>2, TrackedRemove, FS_RemoveElement DEF PageInv, AllFormed
  <2>3. QED
    BY <2>1, <2>2 DEF ViewStep
<1>3. WindowOK'
  <2>1. CASE window' = None
    BY <2>1 DEF WindowOK
  <2>2. CASE window' = window
    BY <1>1, <2>2 DEF WindowOK, ViewStep, Narrowed, PageInv
  <2>3. CASE NewWindow(window', loadedItems')
    BY <1>1, <2>3 DEF WindowOK, RowsByItem, NewWindow
  <2>4. QED
    BY <2>1, <2>2, <2>3 DEF ViewStep
<1>4. QED
  BY <1>1, <1>2, <1>3 DEF PageInv

LEMMA SameWindow ==
  ASSUME WindowOK, UNCHANGED <<mounted, window>>, DOMAIN loadedItems' \subseteq DOMAIN loadedItems
  PROVE  WindowOK'
BY DEF WindowOK

\* Nothing on the page changes but its requests.
LEMMA HandlerPage ==
  ASSUME PageInv, NEW r \in requests, NEW phase, NEW seen, Advance(r, phase, seen),
         UNCHANGED Client, RowsByItem(rows'),
         r.kind \in Saving => seen \subseteq Row, r.kind = "push" => seen \subseteq About(r)
  PROVE  PageInv'
<1>1. UNCHANGED <<mounted, loadedItems, timers, aborts, typed, window, index>>
  BY DEF Client, store, pending, loader
<1>2. WindowOK'
  BY <1>1, SameWindow DEF PageInv
<1>3. Formed(r) /\ IsFiniteSet(requests) /\ Whole(r)
  BY DEF PageInv, AllFormed, Formed
<1>4. PICK q : /\ Whole(q) /\ q.id = r.id /\ q.kind = r.kind /\ q.item = r.item /\ q.edit = r.edit
               /\ q.status = r.status /\ q.live = r.live /\ q.phase = phase /\ q.seen = seen
               /\ \/ requests' = (requests \ {r}) \cup {q}
                  \/ requests' = requests \ {r}
  BY <1>3, AdvanceCases
<1>5. Formed(q)
  BY <1>3, <1>4 DEF Formed, About
<1>6. AllFormed(requests')
  <2>1. IsFiniteSet(requests \ {r}) /\ IsFiniteSet((requests \ {r}) \cup {q})
    BY <1>3, FS_RemoveElement, FS_AddElement
  <2>2. QED
    BY <1>4, <1>5, <2>1 DEF PageInv, AllFormed
<1>7. Tracked(requests', aborts)
  BY <1>3, TrackedAdvance DEF PageInv
<1>8. QED
  BY <1>1, <1>2, <1>6, <1>7 DEF PageInv, IndexOK

LEMMA HandlersPage ==
  ASSUME PageInv, NEW r \in requests, Handler(r)
  PROVE  PageInv'
<1>1. Formed(r) /\ RowsByItem(rows)
  BY DEF PageInv, AllFormed
<1>2. CASE ReadRow(r)
  <2>1. Advance(r, "read", {rows[i] : i \in DOMAIN rows \cap {r.item}}) /\ r.kind \in Saving
        /\ UNCHANGED Client /\ UNCHANGED rows
    BY <1>2 DEF ReadRow, server
  <2>2. {rows[i] : i \in DOMAIN rows \cap {r.item}} \subseteq Row
    BY <1>1 DEF RowsByItem
  <2>3. r.kind # "push"
    BY <2>1 DEF Saving
  <2>4. QED
    BY <1>1, <2>1, <2>2, <2>3, HandlerPage
<1>3. CASE InsertRow(r)
  <2>1. Advance(r, "done", {}) /\ r.kind \in Saving /\ UNCHANGED Client /\ rows' = Put(rows, r.item, UpdatedRow(r))
    BY <1>3 DEF InsertRow
  <2>2. r.kind # "push" /\ r.item \in Item /\ r.seen \subseteq Row
    BY <1>1, <2>1 DEF Saving, Formed
  <2>3. UpdatedRow(r) \in Row
    <3>1. (r.edit # None => r.edit \in Target) /\ r.status \in {0, 1}
      BY <1>1 DEF Formed
    <3>2. r.seen # {} => (CHOOSE row \in r.seen : TRUE) \in Row
      BY <2>2
    <3>3. (IF r.edit # None THEN r.edit
            ELSE IF r.seen # {} THEN (CHOOSE row \in r.seen : TRUE).edit ELSE Empty) \in Target
      BY <3>1, <3>2 DEF Row, Target
    <3>4. QED
      BY <3>1, <3>3 DEF UpdatedRow, Row
  <2>4. RowsByItem(rows')
    BY <1>1, <2>1, <2>2, <2>3 DEF RowsByItem, Put, Over
  <2>5. QED
    BY <2>1, <2>2, <2>4, HandlerPage
<1>4. CASE RemoveQueueItem(r)
  <2>1. Advance(r, "done", {}) /\ UNCHANGED Client /\ rows' = Without(rows, {r.item})
    BY <1>4 DEF RemoveQueueItem, Delete
  <2>2. RowsByItem(rows')
    BY <1>1, <2>1 DEF RowsByItem, Without, Restrict
  <2>3. QED
    BY <2>1, <2>2, HandlerPage
<1>5. CASE MatchRows(r)
  <2> DEFINE matched == {i \in About(r) \cap DOMAIN rows : r.all \/ rows[i].status = 1}
  <2>1. Advance(r, IF matched = {} THEN "done" ELSE "read", matched) /\ UNCHANGED Client /\ UNCHANGED rows
        /\ r.kind = "push"
    BY <1>5 DEF MatchRows, server
  <2>2. matched \subseteq About(r)
    OBVIOUS
  <2> HIDE DEF matched
  <2>3. r.kind \notin Saving
    BY <2>1 DEF Saving
  <2>4. QED
    BY <1>1, <2>1, <2>2, <2>3, HandlerPage
<1>6. CASE CopyRows(r)
  <2>1. PICK phase : Advance(r, phase, r.seen)
    BY <1>6 DEF CopyRows
  <2>2. r.kind = "push" /\ UNCHANGED Client /\ UNCHANGED rows
    BY <1>6 DEF CopyRows
  <2>3. r.kind \notin Saving /\ r.seen \subseteq About(r)
    BY <1>1, <2>2 DEF Saving, Formed
  <2>4. QED
    BY <1>1, <2>1, <2>2, <2>3, HandlerPage
<1>7. CASE DeleteRows(r)
  <2>1. Advance(r, "done", r.seen) /\ UNCHANGED Client /\ rows' = Without(rows, r.seen) /\ r.kind = "push"
    BY <1>7 DEF DeleteRows, Delete
  <2>2. RowsByItem(rows')
    BY <1>1, <2>1 DEF RowsByItem, Without, Restrict
  <2>3. r.kind \notin Saving /\ r.seen \subseteq About(r)
    BY <1>1, <2>1 DEF Saving, Formed
  <2>4. QED
    BY <2>1, <2>2, <2>3, HandlerPage
<1>8. CASE FailRequest(r)
  <2>1. Advance(r, "failed", {}) /\ UNCHANGED Client /\ UNCHANGED rows
    BY <1>8 DEF FailRequest, server
  <2>2. QED
    BY <1>1, <2>1, HandlerPage
<1>9. QED
  BY <1>2, <1>3, <1>4, <1>5, <1>6, <1>7, <1>8 DEF Handler

\* A timer sends r.
Sends(i, r) ==
  /\ requests' = Abort(requests, {aborts[i]}) \cup {r}
  /\ r.kind = "save" /\ r.item = i /\ r.edit = timers[i] /\ r.phase = "sent" /\ LiveSave(r)

LEMMA TimerPage ==
  ASSUME PageInv, NEW i \in Item, TimerFires(i)
  PROVE  PageInv' /\ \E r : Sends(i, r)
<1> DEFINE others == Abort(requests, {aborts[i]})
<1>1. PICK r : r = Request("save", i, timers[i], 0, FALSE, others)
  OBVIOUS
<1>2. /\ mounted /\ timers[i] # None /\ UNCHANGED <<rows, loadedItems, typed, window, index, mounted>>
      /\ requests' = others \cup {r}
      /\ timers' = [timers EXCEPT ![i] = None]
      /\ aborts' = [aborts EXCEPT ![i] = SaveOf(requests', i)]
  BY <1>1 DEF TimerFires, Save, server, store, loader
<1>3. /\ Whole(r) /\ r.id = NewId(others) /\ r.kind = "save" /\ r.item = i /\ r.edit = timers[i]
      /\ r.status = 0 /\ r.phase = "sent" /\ r.seen = {} /\ r.live = TRUE
  <2>1. Fresh(r, "save", i, timers[i], 0, others)
    BY <1>1, RequestFresh
  <2>2. QED
    BY <2>1 DEF Fresh
<1>4. timers[i] \in Target /\ aborts \in [Item -> Nat] /\ timers \in [Item -> Target \cup {None}]
  BY <1>2 DEF PageInv
<1>5. AllFormed(others)
  BY AbortFormed DEF PageInv
<1>6. Formed(r) /\ AllFormed(others \cup {r}) /\ \A q \in others : q.id # r.id
  BY <1>3, <1>4, <1>5, AddFormed
<1> DEFINE A == Zeroed(aborts, {i})
<1>7. Tracked(others, A)
  <2>1. {aborts[j] : j \in {i}} = {aborts[i]}
    OBVIOUS
  <2>2. \A q \in requests : Formed(q)
    BY DEF PageInv, AllFormed
  <2>3. Tracked(Abort(requests, {aborts[j] : j \in {i}}), A)
    BY <1>4, <2>2, TrackedCancel DEF PageInv
  <2>4. QED
    BY <2>1, <2>3
<1>8. A \in [Item -> Nat] /\ A[i] = 0 /\ \A j \in Item : j # i => A[j] = aborts[j]
  BY <1>4 DEF Zeroed
<1> HIDE DEF others, A
<1>9. r.id \in Nat \ {0} /\ LiveSave(r)
  BY <1>3, <1>6 DEF Formed, LiveSave
<1>10. Tracked(requests', [A EXCEPT ![i] = r.id])
  <2>1. \A q \in others : Formed(q)
    BY <1>5 DEF AllFormed
  <2>2. Tracked(others \cup {r}, [A EXCEPT ![r.item] = r.id])
    BY <1>3, <1>6, <1>7, <1>8, <1>9, <2>1, TrackedSave
  <2>3. QED
    BY <1>2, <1>3, <2>2
<1>11. [A EXCEPT ![i] = r.id] = [aborts EXCEPT ![i] = r.id]
  BY <1>4, <1>8
<1>12. SaveOf(requests', i) = r.id
  <2> DEFINE P(x) == x.item = i /\ x.kind = "save" /\ x.live
             B == [A EXCEPT ![i] = r.id]
  <2>1. r \in requests' /\ P(r)
    BY <1>2, <1>3
  <2>2. ASSUME NEW x \in requests', P(x) PROVE x.id = r.id
    <3>1. B[i] = r.id
      BY <1>8
    <3> HIDE DEF B
    <3>2. B[x.item] = x.id
      BY <1>10, <2>2 DEF Tracked, LiveSave, B
    <3>3. QED
      BY <2>2, <3>1, <3>2
  <2>3. (CHOOSE x \in requests' : P(x)) \in requests' /\ P(CHOOSE x \in requests' : P(x))
    BY <2>1
  <2>4. (CHOOSE x \in requests' : P(x)).id = r.id
    BY <2>2, <2>3
  <2>5. QED
    BY <2>4 DEF SaveOf
<1>13. aborts' = [aborts EXCEPT ![i] = r.id] /\ aborts' \in [Item -> Nat] /\ Tracked(requests', aborts')
  BY <1>2, <1>4, <1>9, <1>10, <1>11, <1>12
<1>14. timers' \in [Item -> Target \cup {None}]
  BY <1>2, <1>4
<1>15. WindowOK'
  BY <1>2, SameWindow DEF PageInv
<1>16. PageInv'
  BY <1>2, <1>6, <1>13, <1>14, <1>15 DEF PageInv, IndexOK
<1>17. Sends(i, r)
  BY <1>2, <1>3, <1>9 DEF others, Sends
<1>18. QED
  BY <1>16, <1>17

LEMMA SettlesPage ==
  ASSUME PageInv, NEW r \in requests, SaveSettles(r)
  PROVE  PageInv'
<1>1. /\ UNCHANGED <<rows, loadedItems, timers, typed, window, index, mounted>>
      /\ requests' = requests \ {r} /\ r.kind = "save" /\ r.live
      /\ aborts' = [aborts EXCEPT ![r.item] = IF @ = r.id THEN 0 ELSE @]
  BY DEF SaveSettles, server, store, loader
<1>2. Tracked(requests', aborts')
  BY <1>1, TrackedSettles DEF PageInv, AllFormed
<1>3. aborts' \in [Item -> Nat]
  BY <1>1 DEF PageInv
<1>4. AllFormed(requests')
  BY <1>1, FS_RemoveElement DEF PageInv, AllFormed
<1>5. WindowOK'
  BY <1>1, SameWindow DEF PageInv
<1>6. QED
  BY <1>1, <1>2, <1>3, <1>4, <1>5 DEF PageInv, IndexOK

\* Writing the open item.
LEMMA PutPage ==
  ASSUME PageInv, Current # None, NEW item \in Row, PutCurrent(item)
  PROVE  /\ RowsByItem(loadedItems') /\ DOMAIN loadedItems' = DOMAIN loadedItems
         /\ loadedItems'[Current] = item
         /\ \A i \in DOMAIN loadedItems : i # Current => loadedItems'[i] = loadedItems[i]
         /\ timers' \in [Item -> Target \cup {None}] /\ typed' \in [Item -> Target \cup {None}]
         /\ timers'[Current] = item.edit /\ typed'[Current] = item.edit /\ item.edit # None
         /\ \A i \in Item : i # Current => timers'[i] = timers[i] /\ typed'[i] = typed[i]
<1>1. Current \in Item /\ Current \in DOMAIN loadedItems
  BY CurrentLoaded
<1>2. item.edit \in Target /\ item.edit # None
  BY QueueAssumption DEF Row, Target
<1>3. /\ loadedItems' = [loadedItems EXCEPT ![Current] = item]
      /\ timers' = [timers EXCEPT ![Current] = item.edit]
      /\ typed' = [typed EXCEPT ![Current] = item.edit]
  BY DEF PutCurrent, Schedule
<1>4. QED
  BY <1>1, <1>2, <1>3 DEF PageInv, RowsByItem

\* What setTarget and revertCurrent enter for the open item.
Entered(item) == \/ \E e \in Edit : item = [loadedItems[Current] EXCEPT !.edit = e, !.status = 0]
                 \/ item = [loadedItems[Current] EXCEPT
                              !.edit = IF loadedItems[Current].own THEN Original ELSE Empty, !.status = 0]

LEMMA EnteredRow ==
  ASSUME PageInv, Current # None, NEW item, Entered(item)
  PROVE  item \in Row
<1>1. PICK row \in Row : row = loadedItems[Current]
  BY CurrentLoaded
<1>2. ASSUME NEW e \in Target PROVE [row EXCEPT !.edit = e, !.status = 0] \in Row
  BY DEF Row
<1>3. (IF row.own THEN Original ELSE Empty) \in Target /\ Edit \subseteq Target
  BY QueueAssumption DEF Target
<1>4. QED
  BY <1>1, <1>2, <1>3 DEF Entered

LEMMA SetTargetEnters ==
  ASSUME NEW e \in Edit, SetTarget(e)
  PROVE  /\ Current # None
         /\ \E item : Entered(item) /\ PutCurrent(item)
         /\ UNCHANGED <<server, requests, mounted, aborts, loader, exposed>>
BY DEF SetTarget, Entered

LEMMA RevertEnters ==
  ASSUME RevertCurrent
  PROVE  /\ Current # None
         /\ \E item : Entered(item) /\ PutCurrent(item)
         /\ requests' = Cancelled({Current}) /\ aborts' = [aborts EXCEPT ![Current] = 0]
         /\ UNCHANGED <<server, mounted, loader, exposed>>
BY DEF RevertCurrent, Entered

LEMMA SetTargetPage ==
  ASSUME PageInv, NEW e \in Edit, SetTarget(e)
  PROVE  PageInv'
<1>1. PICK item : Current # None /\ Entered(item) /\ PutCurrent(item)
  BY SetTargetEnters
<1>2. UNCHANGED <<rows, requests, mounted, aborts, index, window>>
  BY SetTargetEnters DEF server, loader
<1>3. item \in Row
  BY <1>1, EnteredRow
<1>4. /\ RowsByItem(loadedItems') /\ DOMAIN loadedItems' = DOMAIN loadedItems
      /\ timers' \in [Item -> Target \cup {None}] /\ typed' \in [Item -> Target \cup {None}]
  BY <1>1, <1>3, PutPage
<1>5. WindowOK'
  BY <1>2, <1>4, SameWindow DEF PageInv
<1>6. QED
  BY <1>2, <1>4, <1>5 DEF PageInv, IndexOK

LEMMA RevertPage ==
  ASSUME PageInv, RevertCurrent
  PROVE  PageInv'
<1>1. PICK item : Current # None /\ Entered(item) /\ PutCurrent(item)
  BY RevertEnters
<1>2. /\ UNCHANGED <<rows, mounted, index, window>>
      /\ requests' = Abort(requests, {aborts[i] : i \in {Current}}) /\ aborts' = [aborts EXCEPT ![Current] = 0]
  BY RevertEnters DEF server, loader, Cancelled
<1>3. item \in Row /\ Current \in Item
  BY <1>1, EnteredRow, CurrentLoaded
<1>4. /\ RowsByItem(loadedItems') /\ DOMAIN loadedItems' = DOMAIN loadedItems
      /\ timers' \in [Item -> Target \cup {None}] /\ typed' \in [Item -> Target \cup {None}]
  BY <1>1, <1>3, PutPage
<1>5. WindowOK'
  BY <1>2, <1>4, SameWindow DEF PageInv
<1>6. aborts \in [Item -> Nat]
  BY DEF PageInv
<1>7. aborts' = Zeroed(aborts, {Current}) /\ aborts' \in [Item -> Nat]
  BY <1>2, <1>3, <1>6 DEF Zeroed
<1>8. \A q \in requests : Formed(q)
  BY DEF PageInv, AllFormed
<1>9. AllFormed(requests') /\ Tracked(requests', aborts')
  <2>1. Tracked(requests, aborts) /\ AllFormed(requests) /\ {Current} \in SUBSET Item
    BY <1>3 DEF PageInv
  <2>2. Tracked(Abort(requests, {aborts[i] : i \in {Current}}), Zeroed(aborts, {Current}))
    BY <1>6, <1>8, <2>1, TrackedCancel
  <2>3. AllFormed(requests')
    BY <1>2, <2>1, AbortFormed
  <2>4. QED
    BY <1>2, <1>7, <2>2, <2>3
<1>10. QED
  BY <1>2, <1>4, <1>5, <1>7, <1>9 DEF PageInv, IndexOK

\* The four actions with a spinner.
Acts(kind, i, status, all, io) ==
  /\ Act(kind, i, status, all, io)
  /\ kind \in {"approve", "unapprove", "discard", "push"}
  /\ i \in Item \cup {None} /\ status \in {0, 1}
  /\ kind # "push" => i \in Item

LEMMA ActionActs ==
  ASSUME PageInv,
         \/ ApproveCurrent \/ UnapproveCurrent \/ DiscardCurrent \/ PushCurrent
         \/ \E all \in BOOLEAN : PushAll(all)
  PROVE  \E kind, i, status, all, io : Acts(kind, i, status, all, io)
<1>0. Current # None => Current \in Item
  BY CurrentLoaded
<1>1. CASE ApproveCurrent
  BY <1>0, <1>1 DEF ApproveCurrent, Acts
<1>2. CASE UnapproveCurrent
  BY <1>0, <1>2 DEF UnapproveCurrent, Acts
<1>3. CASE DiscardCurrent
  BY <1>0, <1>3 DEF DiscardCurrent, Acts
<1>4. CASE PushCurrent
  BY <1>0, <1>4 DEF PushCurrent, Acts
<1>5. ASSUME NEW all \in BOOLEAN, PushAll(all) PROVE \E kind, i, status, al, io : Acts(kind, i, status, al, io)
  BY <1>5 DEF PushAll, Acts
<1>6. QED
  BY <1>1, <1>2, <1>3, <1>4, <1>5

ItemsOf(i) == IF i = None THEN Item ELSE {i}

LEMMA ActPage ==
  ASSUME PageInv, NEW kind, NEW i, NEW status, NEW all, NEW io, Acts(kind, i, status, all, io)
  PROVE  /\ PageInv'
         /\ UNCHANGED <<server, mounted, loadedItems, window, index, typed>>
         /\ timers' = [j \in Item |-> IF j \in ItemsOf(i) THEN None ELSE timers[j]]
         /\ aborts' = Zeroed(aborts, ItemsOf(i)) /\ ItemsOf(i) \subseteq Item
         /\ exposed' = exposed \cup {j \in ItemsOf(i) : timers[j] # None \/ Overlap(j, requests)}
         /\ \E r : /\ requests' = Cancelled(ItemsOf(i)) \cup {r}
                   /\ About(r) = ItemsOf(i) /\ r.kind # "save" /\ r.phase = "sent"
<1> DEFINE S == ItemsOf(i)
           others == Cancelled(S)
<1>1. PICK r : r = Request(kind, i, None, status, all, others)
  OBVIOUS
<1>2. /\ mounted /\ UNCHANGED <<server, mounted, loadedItems, window, index, typed>>
      /\ timers' = [j \in Item |-> IF j \in S THEN None ELSE timers[j]]
      /\ aborts' = Zeroed(aborts, S)
      /\ exposed' = exposed \cup {j \in S : timers[j] # None \/ Overlap(j, requests)}
      /\ requests' = others \cup {r}
  BY <1>1 DEF Acts, Act, ItemsOf, Cancel, Click, Zeroed, store, loader
<1>3. Fresh(r, kind, i, None, status, others)
  BY <1>1, RequestFresh
<1>4. S \subseteq Item
  BY DEF Acts, ItemsOf
<1>5. /\ Whole(r) /\ r.id = NewId(others) /\ r.status \in {0, 1} /\ r.seen = {} /\ r.live = TRUE
      /\ r.kind \in {"approve", "unapprove", "discard", "push"} /\ r.item \in Item \cup {None}
      /\ r.kind # "push" => r.item \in Item
      /\ r.edit = None /\ r.phase = "sent" /\ r.item = i
  BY <1>3 DEF Fresh, Acts
<1>6. AllFormed(others) /\ Tracked(others, Zeroed(aborts, S))
  <2>1. aborts \in [Item -> Nat] /\ \A q \in requests : Formed(q)
    BY DEF PageInv, AllFormed
  <2>2. QED
    BY <2>1, <1>4, AbortFormed, TrackedCancel DEF PageInv, Cancelled
<1> HIDE DEF others, S
<1>7. AllFormed(others \cup {r}) /\ \A q \in others : q.id # r.id
  BY <1>5, <1>6, AddFormed
<1>8. Tracked(requests', aborts')
  BY <1>2, <1>5, <1>6, <1>7, TrackedAdd
<1>9. aborts' \in [Item -> Nat] /\ timers' \in [Item -> Target \cup {None}]
  BY <1>2 DEF PageInv, Zeroed
<1>10. WindowOK'
  BY <1>2, SameWindow DEF PageInv
<1>11. PageInv'
  BY <1>2, <1>7, <1>8, <1>9, <1>10 DEF PageInv, IndexOK, server
<1>12. About(r) = S
  BY <1>5 DEF About, S, ItemsOf
<1>13. QED
  BY <1>2, <1>4, <1>5, <1>11, <1>12 DEF others, S

\* A page that is left.
LEMMA EmptyPage ==
  ASSUME PageInv, UNCHANGED <<server, typed>>, Empties, NEW R, AllFormed(R), requests' = Unheard(R)
  PROVE  PageInv'
<1>1. /\ DOMAIN loadedItems' = {} /\ window' = None
      /\ index' = [phase |-> "none", list |-> <<>>, awaited |-> FALSE]
      /\ timers' = [i \in Item |-> None] /\ aborts' = [i \in Item |-> 0]
      /\ UNCHANGED <<rows, typed>>
  BY DEF Empties, NoIndex, server
<1>2. Tracked(requests', aborts')
  BY <1>1, TrackedUnheard DEF AllFormed
<1>3. AllFormed(requests')
  BY AbortFormed DEF Unheard
<1>4. timers' \in [Item -> Target \cup {None}] /\ aborts' \in [Item -> Nat]
  BY <1>1
<1>5. QED
  BY <1>1, <1>2, <1>3, <1>4 DEF PageInv, RowsByItem, WindowOK, IndexOK

\* A save of each item of S under one new id.
NewSave(i, e, R) == Request("save", i, e, 0, FALSE, R)
SavesOf(R, S, edit) == {NewSave(i, edit[i], R) : i \in S}

LEMMA AddSaves ==
  ASSUME NEW R, AllFormed(R), NEW S \in SUBSET Item, NEW edit, DOMAIN edit = S,
         \A i \in S : edit[i] \in Target
  PROVE  /\ AllFormed(R \cup SavesOf(R, S, edit))
         /\ \A r \in SavesOf(R, S, edit) :
              /\ Formed(r) /\ r.kind = "save" /\ r.phase = "sent"
              /\ r.item \in S /\ r.edit = edit[r.item]
         /\ \A i \in S : \E r \in SavesOf(R, S, edit) : r.item = i
         /\ \A r, q \in SavesOf(R, S, edit) : r.item = q.item => r = q
<1>1. ASSUME NEW i \in S, NEW r, r = NewSave(i, edit[i], R)
      PROVE  Formed(r) /\ r.kind = "save" /\ r.item = i /\ r.edit = edit[i] /\ r.phase = "sent"
  <2>1. Fresh(r, "save", i, edit[i], 0, R)
    BY <1>1, RequestFresh DEF NewSave
  <2>2. /\ Whole(r) /\ r.id = NewId(R) /\ r.kind = "save" /\ r.item = i /\ r.edit = edit[i]
        /\ r.status = 0 /\ r.phase = "sent" /\ r.seen = {} /\ r.live = TRUE
    BY <2>1 DEF Fresh
  <2>3. Formed(r)
    BY <2>2, AddFormed
  <2>4. QED
    BY <2>2, <2>3
<1> DEFINE f == [i \in S |-> NewSave(i, edit[i], R)]
           T == {f[i] : i \in S}
<1>2. IsFiniteSet(T)
  <2>1. IsFiniteSet(S)
    BY QueueAssumption, FS_Subset
  <2>2. DOMAIN f = S
    OBVIOUS
  <2> HIDE DEF f
  <2>3. QED
    BY <2>1, <2>2, ImageFinite
<1>3. T = SavesOf(R, S, edit)
  BY DEF SavesOf
<1>4. /\ \A r \in T : /\ Formed(r) /\ r.kind = "save" /\ r.phase = "sent"
                      /\ r.item \in S /\ r.edit = edit[r.item]
      /\ \A i \in S : \E r \in T : r.item = i
      /\ \A r, q \in T : r.item = q.item => r = q
  <2>1. ASSUME NEW i \in S PROVE f[i] = NewSave(i, edit[i], R)
    OBVIOUS
  <2>2. ASSUME NEW i \in S
        PROVE  /\ Formed(f[i]) /\ f[i].kind = "save" /\ f[i].item = i /\ f[i].edit = edit[i]
               /\ f[i].phase = "sent"
    BY <1>1, <2>1
  <2> HIDE DEF f
  <2>3. QED
    BY <2>2
<1> HIDE DEF T
<1>5. IsFiniteSet(R \cup T)
  BY <1>2, FS_Union DEF AllFormed
<1>6. AllFormed(R \cup T)
  BY <1>4, <1>5 DEF AllFormed
<1>7. QED
  BY <1>3, <1>4, <1>6

\* What is on its way when the page is left.
Flushed      == {i \in Item : timers[i] # None /\ i \in DOMAIN loadedItems}
FlushedEdits == [i \in Flushed |-> loadedItems[i].edit]
FlushedSaves == SavesOf(Cancelled(Flushed), Flushed, FlushedEdits)

LEMMA LeaveFacts ==
  ASSUME PageInv, Leave
  PROVE  /\ requests' = Unheard(Cancelled(Flushed) \cup FlushedSaves)
         /\ AllFormed(Cancelled(Flushed)) /\ AllFormed(Cancelled(Flushed) \cup FlushedSaves)
         /\ \A r \in FlushedSaves : /\ Formed(r) /\ r.kind = "save" /\ r.phase = "sent"
                                    /\ r.item \in Flushed /\ r.edit = loadedItems[r.item].edit
         /\ \A i \in Flushed : \E r \in FlushedSaves : r.item = i
         /\ \A r, q \in FlushedSaves : r.item = q.item => r = q
         /\ Empties /\ UNCHANGED <<server, typed>>
         /\ exposed' = exposed \cup {i \in Item : timers[i] # None /\ (i \notin Flushed \/ Overlap(i, requests))}
<1>1. FlushedSaves = {Request("save", i, loadedItems[i].edit, 0, FALSE, Cancelled(Flushed)) : i \in Flushed}
  BY DEF FlushedSaves, SavesOf, NewSave, FlushedEdits
<1>2. /\ requests' = Unheard(Cancelled(Flushed) \cup FlushedSaves) /\ Empties /\ UNCHANGED <<server, typed>>
      /\ exposed' = exposed \cup {i \in Item : timers[i] # None /\ (i \notin Flushed \/ Overlap(i, requests))}
  BY <1>1 DEF Leave, Flushed
<1>3. AllFormed(Cancelled(Flushed))
  BY AbortFormed DEF PageInv, Cancelled
<1>4. \A i \in Flushed : FlushedEdits[i] = loadedItems[i].edit /\ FlushedEdits[i] \in Target
  BY DEF PageInv, RowsByItem, Row, Flushed, FlushedEdits
<1>5. Flushed \subseteq Item /\ DOMAIN FlushedEdits = Flushed
  BY DEF Flushed, FlushedEdits
<1>6. /\ AllFormed(Cancelled(Flushed) \cup FlushedSaves)
      /\ \A r \in FlushedSaves : /\ Formed(r) /\ r.kind = "save" /\ r.phase = "sent"
                                 /\ r.item \in Flushed /\ r.edit = FlushedEdits[r.item]
      /\ \A i \in Flushed : \E r \in FlushedSaves : r.item = i
      /\ \A r, q \in FlushedSaves : r.item = q.item => r = q
  BY <1>3, <1>4, <1>5, AddSaves DEF FlushedSaves
<1>7. QED
  BY <1>2, <1>3, <1>4, <1>6

LEMMA LeavePage ==
  ASSUME PageInv, Leave
  PROVE  PageInv'
BY LeaveFacts, EmptyPage

LEMMA ClosePage ==
  ASSUME PageInv, CloseTab
  PROVE  PageInv'
BY EmptyPage DEF CloseTab, PageInv

LEMMA AnswerWindowPage ==
  ASSUME PageInv, AnswerWindow
  PROVE  /\ PageInv'
         /\ UNCHANGED <<server, requests, mounted, loadedItems, timers, aborts, typed, exposed>>
         /\ window # None /\ window.ids \cap DOMAIN loadedItems = {}
         /\ \A i \in DOMAIN window'.items : i \in window.ids /\ i \in DOMAIN rows /\ window'.items[i] = rows[i]
         /\ mounted
<1>1. /\ UNCHANGED <<server, requests, mounted, loadedItems, timers, aborts, typed, exposed, index>>
      /\ window # None /\ window' = [window EXCEPT !.phase = "answered",
                                       !.items = Restrict(rows, window.ids \cap DOMAIN rows)]
  BY DEF AnswerWindow, store, pending
<1>2. mounted /\ window.ids \cap DOMAIN loadedItems = {}
  BY <1>1 DEF PageInv, WindowOK
<1>3. /\ DOMAIN window'.items = window.ids \cap DOMAIN rows /\ window'.ids = window.ids
      /\ \A i \in DOMAIN window'.items : window'.items[i] = rows[i]
      /\ WholeWindow(window')
  <2>1. WholeWindow(window)
    BY <1>1 DEF PageInv, WindowOK
  <2>2. PICK items : items = Restrict(rows, window.ids \cap DOMAIN rows)
    OBVIOUS
  <2>3. window'.items = items /\ window'.ids = window.ids /\ WholeWindow(window')
    BY <1>1, <2>1, <2>2 DEF WholeWindow
  <2>4. QED
    BY <2>2, <2>3 DEF Restrict
<1>4. RowsByItem(window'.items)
  BY <1>3 DEF PageInv, RowsByItem
<1>5. WindowOK'
  BY <1>1, <1>2, <1>3, <1>4 DEF WindowOK
<1>6. QED
  BY <1>1, <1>2, <1>3, <1>5 DEF PageInv, IndexOK, server

LEMMA WindowArrivesPage ==
  ASSUME PageInv, WindowArrives
  PROVE  /\ PageInv'
         /\ UNCHANGED <<server, requests, mounted, timers, aborts, typed, exposed, index>>
         /\ window # None /\ window' = None
         /\ DOMAIN loadedItems \subseteq DOMAIN loadedItems'
         /\ \A i \in DOMAIN loadedItems' :
              IF i \in DOMAIN window.items /\ ~HasPending(i) THEN loadedItems'[i] = window.items[i]
              ELSE i \in DOMAIN loadedItems /\ loadedItems'[i] = loadedItems[i]
<1> DEFINE items == window.items
           new == Restrict(items, {i \in DOMAIN items : ~HasPending(i)})
<1>1. /\ UNCHANGED <<server, requests, mounted, timers, aborts, typed, exposed, index>>
      /\ window # None /\ window' = None /\ loadedItems' = Over(new, loadedItems)
  BY DEF WindowArrives, HydrateWindow, pending
<1>2. RowsByItem(items) /\ RowsByItem(loadedItems)
  BY <1>1 DEF PageInv, WindowOK
<1>3. /\ DOMAIN loadedItems' = {i \in DOMAIN items : ~HasPending(i)} \cup DOMAIN loadedItems
      /\ \A i \in DOMAIN loadedItems' :
              IF i \in DOMAIN items /\ ~HasPending(i) THEN loadedItems'[i] = items[i]
              ELSE i \in DOMAIN loadedItems /\ loadedItems'[i] = loadedItems[i]
  BY <1>1 DEF Over, Restrict
<1> HIDE DEF items, new
<1>4. RowsByItem(loadedItems')
  BY <1>2, <1>3 DEF RowsByItem
<1>5. PageInv'
  BY <1>1, <1>4 DEF PageInv, WindowOK, IndexOK, server
<1>6. QED
  BY <1>1, <1>3, <1>5 DEF items

----------------------------------------------------------------------------
(* The list of the queue.                                                   *)

\* An item stands at the place of the number of items before it: no item there
\* is is left out.
LEMMA AllListed ==
  ASSUME RowsByItem(rows), NEW i \in Item \cap DOMAIN rows
  PROVE  \E k \in DOMAIN GetQueueItemStates : GetQueueItemStates[k][1] = i
<1> DEFINE there == {p \in DOMAIN Items : Items[p] \in DOMAIN rows}
           own(p) == rows[Items[p]].own
           Before(p, q) == IF own(p) = own(q) THEN p < q ELSE own(p)
           Below(p) == {q \in there : Before(q, p)}
           n == Cardinality(there)
           At_(k) == CHOOSE p \in there : Cardinality(Below(p)) = k - 1
<1>1. Items \in Seq(Item) /\ DOMAIN Items = 1..Len(Items) /\ Len(Items) \in Nat
  BY QueueAssumption
<1>2. IsFiniteSet(there) /\ there \subseteq Nat
  <2>1. IsFiniteSet(1..Len(Items))
    BY <1>1, FS_Interval
  <2>2. there \subseteq 1..Len(Items) /\ 1..Len(Items) \subseteq Nat
    BY <1>1
  <2>3. QED
    BY <2>1, <2>2, FS_Subset
<1>3. \A p \in there : own(p) \in BOOLEAN
  BY <1>1 DEF RowsByItem, Row
<1>4. PICK p \in there : Items[p] = i
  BY <1>1 DEF Item, ToSet
<1>5. Ordered = [k \in 1..n |-> Items[At_(k)]]
  BY DEF Ordered
<1>6. \A a, b \in there : a # b => Before(a, b) \/ Before(b, a)
  BY <1>2, <1>3
<1>7. \A a, b, c \in there : Before(a, b) /\ Before(b, c) => Before(a, c)
  BY <1>2, <1>3
<1>8. \A a \in there : ~Before(a, a)
  BY <1>2
<1> HIDE DEF Before
<1>9. \A a \in there : Below(a) \subseteq there /\ a \notin Below(a) /\ IsFiniteSet(Below(a))
                       /\ Cardinality(Below(a)) \in Nat
  BY <1>2, <1>8, FS_Subset, FS_CardinalityType
<1>10. \A a, b \in there : Before(a, b) => Cardinality(Below(a)) # Cardinality(Below(b))
  <2>1. SUFFICES ASSUME NEW a \in there, NEW b \in there, Before(a, b)
                 PROVE  Cardinality(Below(a)) # Cardinality(Below(b))
    OBVIOUS
  <2>2. Below(a) \subseteq Below(b) /\ a \in Below(b) /\ a \notin Below(a)
    BY <1>7, <1>8, <2>1
  <2> HIDE DEF Below
  <2>3. QED
    BY <1>9, <2>2, FS_Subset
<1> DEFINE k == Cardinality(Below(p)) + 1
<1>11. k \in 1..n
  <2>1. n \in Nat
    BY <1>2, FS_CardinalityType
  <2>2. Cardinality(Below(p)) <= n /\ (Cardinality(Below(p)) = n => Below(p) = there)
    BY <1>2, <1>9, FS_Subset
  <2> HIDE DEF Below, n
  <2>3. Cardinality(Below(p)) # n
    BY <1>9, <2>2
  <2>4. QED
    BY <1>9, <2>1, <2>2, <2>3
<1> HIDE DEF Below
<1>12. Cardinality(Below(p)) = k - 1
  BY <1>9
<1>13. At_(k) = p
  <2>1. At_(k) \in there /\ Cardinality(Below(At_(k))) = k - 1
    BY <1>12
  <2>2. QED
    BY <1>6, <1>10, <1>12, <2>1
<1> HIDE DEF k, n, At_, there
<1>14. k \in DOMAIN Ordered /\ Ordered[k] = i
  BY <1>4, <1>5, <1>11, <1>13
<1>15. Len(Ordered) = n
  <2>1. n \in Nat
    BY <1>2, FS_CardinalityType DEF n
  <2>2. \A j \in 1..n : Items[At_(j)] \in {Items[At_(j2)] : j2 \in 1..n}
    OBVIOUS
  <2>3. Ordered \in Seq({Items[At_(j2)] : j2 \in 1..n})
    BY <1>5, <2>1, <2>2
  <2>4. QED
    BY <1>5, <2>1, <2>3
<1>16. k \in 1..Len(Ordered)
  BY <1>11, <1>15
<1>17. QED
  BY <1>14, <1>16 DEF GetQueueItemStates

LEMMA ListedClient ==
  ASSUME Listed, UNCHANGED <<rows, gone>>, index'.phase = "answered" => UNCHANGED index,
         \A r \in requests' : r.phase = "done" =>
           \E q \in requests : q.phase = "done" /\ q.kind = r.kind /\ q.item = r.item /\ q.seen = r.seen
  PROVE  Listed'
BY DEF Listed

LEMMA ListedHandler ==
  ASSUME PageInv, Listed, NEW r \in requests, NEW phase, NEW seen, Advance(r, phase, seen),
         UNCHANGED index, gone \subseteq gone', Item \ gone' \subseteq DOMAIN rows',
         phase = "done" => /\ r.kind = "discard" => r.item \in gone'
                           /\ r.kind = "push" => seen \subseteq gone'
  PROVE  Listed'
<1>1. Whole(r)
  BY DEF PageInv, AllFormed, Formed
<1>2. PICK q : /\ q.kind = r.kind /\ q.item = r.item /\ q.phase = phase /\ q.seen = seen
               /\ requests' \subseteq (requests \ {r}) \cup {q}
  BY <1>1, AdvanceCases
<1>3. \A p \in requests' : p.phase = "done" =>
       /\ p.kind = "discard" => p.item \in gone'
       /\ p.kind = "push" => p.seen \subseteq gone'
  BY <1>2 DEF Listed
<1>4. QED
  BY <1>3 DEF Listed

LEMMA HandlersListed ==
  ASSUME PageInv, Listed, NEW r \in requests, Handler(r)
  PROVE  Listed'
<1>0. Item \ gone \subseteq DOMAIN rows
  BY DEF Listed
<1>1. CASE ReadRow(r)
  <2>1. PICK seen : Advance(r, "read", seen)
    BY <1>1 DEF ReadRow
  <2>2. UNCHANGED <<index, gone, rows>>
    BY <1>1 DEF ReadRow, Client, loader, server
  <2>3. QED
    BY <1>0, <2>1, <2>2, ListedHandler
<1>2. CASE InsertRow(r)
  <2>1. Advance(r, "done", {}) /\ rows' = Put(rows, r.item, UpdatedRow(r)) /\ r.kind \in Saving
    BY <1>2 DEF InsertRow
  <2>2. UNCHANGED <<index, gone>>
    BY <1>2 DEF InsertRow, Client, loader
  <2>3. DOMAIN rows \subseteq DOMAIN rows' /\ r.kind \notin {"discard", "push"}
    BY <2>1 DEF Put, Over, Saving
  <2>4. QED
    BY <1>0, <2>1, <2>2, <2>3, ListedHandler
<1>3. CASE RemoveQueueItem(r)
  <2>1. Advance(r, "done", {}) /\ Delete({r.item}) /\ r.kind = "discard"
    BY <1>3 DEF RemoveQueueItem
  <2>2. UNCHANGED index
    BY <1>3 DEF RemoveQueueItem, Client, loader
  <2>3. gone \subseteq gone' /\ r.item \in gone' /\ Item \ gone' \subseteq DOMAIN rows'
    BY <1>0, <2>1 DEF Delete, Without, Restrict
  <2>4. QED
    BY <2>1, <2>2, <2>3, ListedHandler
<1>4. CASE MatchRows(r)
  <2> DEFINE matched == {i \in About(r) \cap DOMAIN rows : r.all \/ rows[i].status = 1}
             phase == IF matched = {} THEN "done" ELSE "read"
  <2>1. Advance(r, phase, matched) /\ r.kind = "push"
    BY <1>4 DEF MatchRows
  <2>2. UNCHANGED <<index, gone, rows>>
    BY <1>4 DEF MatchRows, Client, loader, server
  <2>3. phase = "done" => matched \subseteq gone
    OBVIOUS
  <2> HIDE DEF matched, phase
  <2>4. QED
    BY <1>0, <2>1, <2>2, <2>3, ListedHandler
<1>5. CASE CopyRows(r)
  <2>1. PICK phase \in {"copied", "failed"} : Advance(r, phase, r.seen)
    BY <1>5 DEF CopyRows
  <2>2. UNCHANGED <<index, gone, rows>>
    BY <1>5 DEF CopyRows, Client, loader
  <2>3. QED
    BY <1>0, <2>1, <2>2, ListedHandler
<1>6. CASE DeleteRows(r)
  <2>1. Advance(r, "done", r.seen) /\ Delete(r.seen) /\ r.kind = "push"
    BY <1>6 DEF DeleteRows
  <2>2. UNCHANGED index
    BY <1>6 DEF DeleteRows, Client, loader
  <2>3. gone \subseteq gone' /\ r.seen \subseteq gone' /\ Item \ gone' \subseteq DOMAIN rows'
    BY <1>0, <2>1 DEF Delete, Without, Restrict
  <2>4. QED
    BY <2>1, <2>2, <2>3, ListedHandler
<1>7. CASE FailRequest(r)
  <2>1. Advance(r, "failed", {}) /\ UNCHANGED <<index, gone, rows>>
    BY <1>7 DEF FailRequest, Client, loader, server
  <2>2. QED
    BY <1>0, <2>1, ListedHandler
<1>8. QED
  BY <1>1, <1>2, <1>3, <1>4, <1>5, <1>6, <1>7 DEF Handler

\* Aborted requests are the requests they were.
LEMMA AbortDone ==
  ASSUME NEW R, AllFormed(R), NEW ids, NEW p \in Abort(R, ids)
  PROVE  \E q \in R : q.phase = p.phase /\ q.kind = p.kind /\ q.item = p.item /\ q.seen = p.seen
<1>1. PICK q \in R : p = Ended(q, ids)
  BY AbortedFrom
<1>2. QED
  BY <1>1, EndedFields, ZenonT(60) DEF AllFormed, Formed

LEMMA ViewListed ==
  ASSUME Listed, ViewStep, index'.phase = "answered" => UNCHANGED index
  PROVE  Listed'
<1>1. requests' \subseteq requests /\ UNCHANGED <<rows, gone>>
  BY DEF ViewStep, server
<1>2. QED
  BY <1>1, ListedClient

LEMMA AnswerIndexListed ==
  ASSUME PageInv, Listed, AnswerIndex
  PROVE  Listed'
<1>1. /\ UNCHANGED <<rows, gone, requests>>
      /\ index' = [index EXCEPT !.phase = "answered", !.list = GetQueueItemStates]
  BY DEF AnswerIndex, server
<1>2. index'.list = GetQueueItemStates
  <2>1. index = [phase |-> index.phase, list |-> index.list, awaited |-> index.awaited]
    BY DEF PageInv, IndexOK
  <2>2. PICK list : list = GetQueueItemStates
    OBVIOUS
  <2>3. index'.list = list
    BY <1>1, <2>1, <2>2
  <2>4. QED
    BY <2>2, <2>3
<1>3. \A i \in Item \ gone : \E k \in DOMAIN GetQueueItemStates : GetQueueItemStates[k][1] = i
  BY AllListed DEF PageInv, Listed
<1>4. QED
  BY <1>1, <1>2, <1>3 DEF Listed

\* Every step is one of these.
LEMMA StepKinds ==
  ASSUME PageInv, Listed, Next
  PROVE  \/ \E r \in requests : Handler(r) \/ SaveSettles(r)
         \/ ViewStep
         \/ \E i \in Item : TimerFires(i)
         \/ AnswerWindow \/ WindowArrives
         \/ \E e \in Edit : SetTarget(e)
         \/ RevertCurrent
         \/ \E kind, i, status, all, io : Acts(kind, i, status, all, io)
         \/ Leave \/ CloseTab
<1>1. ASSUME NEW r \in requests, Answer(r) PROVE SaveSettles(r) \/ ViewStep
  BY <1>1, ApprovedView, UnapprovedView, RemovedView, OtherViews DEF Answer
<1>2. CASE Loading
  BY <1>2, IndexArrivesView, OtherViews DEF Loading
<1>3. CASE User
  BY <1>3, SetCurrentIndexView, ActionActs DEF User
<1>4. QED
  BY <1>1, <1>2, <1>3 DEF Next

\* The list of a page that only changes what it shows.
LEMMA ViewIndex ==
  ASSUME PageInv,
         \/ \E r \in requests : Approved(r) \/ Unapproved(r) \/ Removed(r) \/ PushedAll(r) \/ ActionFails(r)
         \/ RefreshIndex \/ IndexArrives \/ IndexFails \/ WindowFails
         \/ \E k \in DOMAIN idsList : SetCurrentIndex(k)
  PROVE  IndexOK' /\ (index'.phase = "answered" => UNCHANGED index)
<1>1. index = [phase |-> index.phase, list |-> index.list, awaited |-> index.awaited]
      /\ (index.phase # "none" => mounted)
  BY DEF PageInv, IndexOK
<1>2. ASSUME UNCHANGED <<index, mounted>> PROVE IndexOK' /\ (index'.phase = "answered" => UNCHANGED index)
  BY <1>1, <1>2 DEF IndexOK
<1>3. ASSUME index' = NoIndex PROVE IndexOK' /\ (index'.phase = "answered" => UNCHANGED index)
  BY <1>3 DEF IndexOK, NoIndex
<1>4. ASSUME index' = [index EXCEPT !.phase = "sent"], mounted, UNCHANGED mounted
      PROVE  IndexOK' /\ (index'.phase = "answered" => UNCHANGED index)
  <2>1. PICK p, l, a : index = [phase |-> p, list |-> l, awaited |-> a]
    BY <1>1
  <2>2. index' = [phase |-> "sent", list |-> l, awaited |-> a]
    BY <1>4, <2>1
  <2>3. QED
    BY <1>4, <2>2 DEF IndexOK
<1>5. ASSUME Revalidate, mounted, UNCHANGED mounted
      PROVE  IndexOK' /\ (index'.phase = "answered" => UNCHANGED index)
  <2>1. index' = [phase |-> "sent", list |-> <<>>, awaited |-> TRUE]
    BY <1>5 DEF Revalidate, NoIndex
  <2>2. QED
    BY <1>5, <2>1 DEF IndexOK
<1>6. ASSUME NEW r \in requests, Approved(r) \/ Unapproved(r) \/ ActionFails(r)
      PROVE  UNCHANGED <<index, mounted>>
  BY <1>6 DEF Approved, Unapproved, ActionFails, loader
<1>7. ASSUME NEW r \in requests, Removed(r) \/ PushedAll(r)
      PROVE  Revalidate /\ mounted /\ UNCHANGED mounted
  BY <1>7 DEF Removed, PushedAll, Answered
<1>8. CASE RefreshIndex
  BY <1>4, <1>8 DEF RefreshIndex, Click
<1>9. CASE IndexArrives \/ IndexFails
  BY <1>3, <1>9 DEF IndexArrives, IndexFails
<1>10. CASE WindowFails \/ \E k \in DOMAIN idsList : SetCurrentIndex(k)
  BY <1>2, <1>10 DEF WindowFails, SetCurrentIndex
<1>11. QED
  BY <1>2, <1>5, <1>6, <1>7, <1>8, <1>9, <1>10

LEMMA AnswerIndexOK ==
  ASSUME PageInv, AnswerIndex
  PROVE  IndexOK'
<1>1. PICK p, l, a : index = [phase |-> p, list |-> l, awaited |-> a]
  BY DEF PageInv, IndexOK
<1>2. PICK list : list = GetQueueItemStates
  OBVIOUS
<1>3. index' = [index EXCEPT !.phase = "answered", !.list = list] /\ index.phase = "sent" /\ UNCHANGED mounted
  BY <1>2 DEF AnswerIndex
<1>4. index' = [phase |-> "answered", list |-> list, awaited |-> a]
  BY <1>1, <1>3
<1>5. mounted
  BY <1>3 DEF PageInv, IndexOK
<1>6. QED
  BY <1>3, <1>4, <1>5 DEF IndexOK

LEMMA PageStep ==
  ASSUME PageInv, Listed, [Next]_vars
  PROVE  PageInv' /\ Listed'
<1>1. ASSUME ViewStep, IndexOK' /\ (index'.phase = "answered" => UNCHANGED index)
      PROVE  PageInv' /\ Listed'
  BY <1>1, ViewPage, ViewListed
<1>2. ASSUME NEW r \in requests, Handler(r) PROVE PageInv' /\ Listed'
  BY <1>2, HandlersPage, HandlersListed
<1>3. ASSUME NEW r \in requests, Answer(r) PROVE PageInv' /\ Listed'
  <2>1. CASE SaveSettles(r)
    <3>1. requests' \subseteq requests /\ UNCHANGED <<rows, gone, index>>
      BY <2>1 DEF SaveSettles, server, loader
    <3>2. QED
      BY <2>1, <3>1, SettlesPage, ListedClient
  <2>2. CASE Approved(r) \/ Unapproved(r) \/ Removed(r) \/ PushedAll(r) \/ ActionFails(r)
    BY <1>1, <2>2, ApprovedView, UnapprovedView, RemovedView, OtherViews, ViewIndex
  <2>3. QED
    BY <1>3, <2>1, <2>2 DEF Answer
<1>4. ASSUME NEW i \in Item, TimerFires(i) PROVE PageInv' /\ Listed'
  <2>1. PageInv' /\ \E r : Sends(i, r)
    BY <1>4, TimerPage
  <2>2. UNCHANGED <<rows, gone, index>>
    BY <1>4 DEF TimerFires, server, loader
  <2>3. QED
    BY <2>1, <2>2, AbortDone, ListedClient DEF PageInv, Sends
<1>5. CASE Loading
  <2>1. CASE AnswerIndex
    BY <1>1, <2>1, OtherViews, AnswerIndexOK, AnswerIndexListed, ViewPage
  <2>2. CASE AnswerWindow
    <3>1. UNCHANGED <<rows, gone, index, requests>>
      BY <2>2 DEF AnswerWindow, server
    <3>2. QED
      BY <2>2, <3>1, AnswerWindowPage, ListedClient
  <2>3. CASE WindowArrives
    <3>1. UNCHANGED <<rows, gone, index, requests>>
      BY <2>3 DEF WindowArrives, server
    <3>2. QED
      BY <2>3, <3>1, WindowArrivesPage, ListedClient
  <2>4. CASE RefreshIndex \/ IndexArrives \/ IndexFails \/ WindowFails
    BY <1>1, <2>4, OtherViews, IndexArrivesView, ViewIndex
  <2>5. QED
    BY <1>5, <2>1, <2>2, <2>3, <2>4 DEF Loading
<1>6. CASE User
  <2>1. ASSUME NEW e \in Edit, SetTarget(e) PROVE PageInv' /\ Listed'
    <3>1. UNCHANGED <<rows, gone, index, requests>>
      BY <2>1 DEF SetTarget, server, loader
    <3>2. QED
      BY <2>1, <3>1, SetTargetPage, ListedClient
  <2>2. CASE RevertCurrent
    <3>1. UNCHANGED <<rows, gone, index>> /\ requests' = Abort(requests, {aborts[i] : i \in {Current}})
      BY <2>2 DEF RevertCurrent, server, loader, Cancelled
    <3>2. QED
      BY <2>2, <3>1, RevertPage, AbortDone, ListedClient DEF PageInv
  <2>3. ASSUME NEW k \in DOMAIN idsList, SetCurrentIndex(k) PROVE PageInv' /\ Listed'
    BY <1>1, <2>3, SetCurrentIndexView, ViewIndex
  <2>4. ASSUME NEW kind, NEW i, NEW status, NEW all, NEW io, Acts(kind, i, status, all, io)
        PROVE  PageInv' /\ Listed'
    <3>1. PICK r : requests' = Abort(requests, {aborts[j] : j \in ItemsOf(i)}) \cup {r} /\ r.phase = "sent"
      BY <2>4, ActPage DEF Cancelled
    <3>2. PageInv' /\ UNCHANGED <<rows, gone, index>>
      BY <2>4, ActPage DEF server
    <3>3. QED
      BY <3>1, <3>2, AbortDone, ListedClient DEF PageInv
  <2>5. CASE Leave
    <3> DEFINE R == Cancelled(Flushed) \cup FlushedSaves
    <3>1. /\ requests' = Abort(R, {r.id : r \in R}) /\ AllFormed(R) /\ Empties
          /\ UNCHANGED <<rows, gone>> /\ \A r \in FlushedSaves : r.phase = "sent"
      BY <2>5, LeaveFacts DEF Unheard, server
    <3> HIDE DEF R
    <3>2. ASSUME NEW p \in requests', p.phase = "done"
          PROVE  \E q \in requests : q.phase = "done" /\ q.kind = p.kind /\ q.item = p.item /\ q.seen = p.seen
      <4>1. PICK s \in R : s.phase = p.phase /\ s.kind = p.kind /\ s.item = p.item /\ s.seen = p.seen
        BY <3>1, AbortDone
      <4>2. s \in Abort(requests, {aborts[i] : i \in Flushed})
        BY <3>1, <3>2, <4>1 DEF R, Cancelled
      <4>3. PICK q \in requests : q.phase = s.phase /\ q.kind = s.kind /\ q.item = s.item /\ q.seen = s.seen
        BY <4>2, AbortDone DEF PageInv
      <4>4. QED
        BY <3>2, <4>1, <4>3
    <3>3. index'.phase # "answered"
      BY <3>1 DEF Empties, NoIndex
    <3>4. Listed'
      BY <3>1, <3>2, <3>3, ListedClient
    <3>5. QED
      BY <2>5, <3>4, LeavePage
  <2>5a. CASE CloseTab
    <3>1. /\ requests' = Abort(requests, {r.id : r \in requests}) /\ Empties /\ UNCHANGED <<rows, gone>>
      BY <2>5a DEF CloseTab, Unheard, server
    <3>2. index'.phase # "answered"
      BY <3>1 DEF Empties, NoIndex
    <3>3. Listed'
      BY <3>1, <3>2, AbortDone, ListedClient DEF PageInv
    <3>4. QED
      BY <2>5a, <3>3, ClosePage
  <2>6. QED
    BY <1>6, <2>1, <2>2, <2>3, <2>4, <2>5, <2>5a, ActionActs DEF User
<1>7. CASE UNCHANGED vars
  <2>1. ViewStep /\ UNCHANGED <<index, mounted>>
    BY <1>7 DEF vars, server, store, pending, loader, ViewStep, Narrowed, PageInv
  <2>2. IndexOK'
    BY <2>1 DEF PageInv, IndexOK
  <2>3. QED
    BY <1>1, <2>1, <2>2
<1>8. QED
  BY <1>2, <1>3, <1>4, <1>5, <1>6, <1>7 DEF Next

----------------------------------------------------------------------------
(* What waits is on the page.                                               *)

ShownFor(i) ==
  /\ HasPending(i) => i \in DOMAIN loadedItems
  /\ timers[i] # None => loadedItems[i].edit = timers[i]
  /\ timers[i] = None =>
       \A r \in requests : LiveSave(r) /\ r.item = i => r.edit = loadedItems[i].edit

Shown == \A i \in Item \ gone : ShownFor(i)

\* Rows of items that were not deleted stay; deleted ones stay deleted.
LEMMA GoneGrows == ASSUME [Next]_vars PROVE gone \subseteq gone'
<1>1. ASSUME NEW r \in requests, Handler(r) PROVE gone \subseteq gone'
  BY <1>1 DEF Handler, ReadRow, InsertRow, RemoveQueueItem, MatchRows, CopyRows, DeleteRows, FailRequest,
              Delete, server
<1>2. ASSUME NEW r \in requests, Answer(r) PROVE UNCHANGED gone
  BY <1>2 DEF Answer, SaveSettles, Approved, Unapproved, Removed, PushedAll, ActionFails, server
<1>3. ASSUME NEW i \in Item, TimerFires(i) PROVE UNCHANGED gone
  BY <1>3 DEF TimerFires, server
<1>4. CASE Loading
  BY <1>4 DEF Loading, RefreshIndex, AnswerIndex, IndexArrives, IndexFails, AnswerWindow, WindowArrives,
              WindowFails, server
<1>5. CASE User
  BY <1>5 DEF User, SetTarget, RevertCurrent, SetCurrentIndex, ApproveCurrent, UnapproveCurrent,
              DiscardCurrent, PushCurrent, PushAll, Act, Leave, CloseTab, server
<1>6. QED
  BY <1>1, <1>2, <1>3, <1>4, <1>5 DEF Next, vars, server

LEMMA LivePending ==
  ASSUME PageInv, NEW r \in requests, LiveSave(r)
  PROVE  r.item \in Item /\ aborts[r.item] = r.id /\ aborts[r.item] # 0
<1>1. Formed(r) /\ aborts[r.item] = r.id
  BY DEF PageInv, AllFormed, Tracked
<1>2. QED
  BY <1>1 DEF Formed, LiveSave

LEMMA AbortLive ==
  ASSUME NEW R, AllFormed(R), NEW ids, NEW p \in Abort(R, ids), p.live
  PROVE  p \in R /\ p.id \notin ids
<1>1. PICK q \in R : p = Ended(q, ids)
  BY AbortedFrom
<1>2. QED
  BY <1>1, EndedFields DEF AllFormed, Formed

\* Live saves of i come from live saves of i with the same edit.
LivesFrom(i) ==
  \A p \in requests' : LiveSave(p) /\ p.item = i =>
    \E q \in requests : LiveSave(q) /\ q.item = i /\ q.edit = p.edit

LEMMA ShownSame ==
  ASSUME PageInv, NEW i \in Item, ShownFor(i), timers'[i] = timers[i], aborts'[i] \in {aborts[i], 0},
         HasPending(i) => i \in DOMAIN loadedItems' /\ loadedItems'[i].edit = loadedItems[i].edit,
         LivesFrom(i)
  PROVE  ShownFor(i)'
<1>1. HasPending(i)' => HasPending(i)
  BY DEF HasPending
<1>2. timers'[i] # None => loadedItems'[i].edit = timers'[i]
  BY DEF ShownFor, HasPending
<1>3. ASSUME timers'[i] = None, NEW p \in requests', LiveSave(p), p.item = i
      PROVE  p.edit = loadedItems'[i].edit
  <2>1. PICK q \in requests : LiveSave(q) /\ q.item = i /\ q.edit = p.edit
    BY <1>3 DEF LivesFrom
  <2>2. HasPending(i)
    BY <2>1, LivePending DEF HasPending
  <2>3. QED
    BY <1>3, <2>1, <2>2 DEF ShownFor
<1>4. QED
  BY <1>1, <1>2, <1>3 DEF ShownFor, LiveSave

LEMMA ShownNothing ==
  ASSUME PageInv', NEW i \in Item, timers'[i] = None, aborts'[i] = 0
  PROVE  ShownFor(i)'
<1>1. ASSUME NEW r \in requests', LiveSave(r), r.item = i PROVE FALSE
  <2>1. Formed(r) /\ aborts'[r.item] = r.id
    BY <1>1 DEF PageInv, AllFormed, Tracked, LiveSave
  <2>2. QED
    BY <1>1, <2>1 DEF Formed
<1>2. QED
  BY <1>1 DEF ShownFor, HasPending, LiveSave

LEMMA ShownStep ==
  ASSUME PageInv, Listed, Shown, PageInv', [Next]_vars
  PROVE  Shown'
<1> SUFFICES ASSUME NEW i \in Item \ gone' PROVE ShownFor(i)'
  BY DEF Shown
<1>0. ShownFor(i) /\ i \in Item \ gone
  BY GoneGrows DEF Shown
<1>1. ASSUME NEW r \in requests, Handler(r) PROVE ShownFor(i)'
  <2>1. UNCHANGED <<timers, aborts, loadedItems>>
    BY <1>1 DEF Handler, ReadRow, InsertRow, RemoveQueueItem, MatchRows, CopyRows, DeleteRows, FailRequest,
                Client, pending, store
  <2>2. PICK phase, seen : Advance(r, phase, seen)
    BY <1>1 DEF Handler, ReadRow, InsertRow, RemoveQueueItem, MatchRows, CopyRows, DeleteRows, FailRequest
  <2>3. Whole(r)
    BY DEF PageInv, AllFormed, Formed
  <2>4. LivesFrom(i)
    BY <2>2, <2>3, AdvanceCases DEF LivesFrom, LiveSave
  <2>5. QED
    BY <1>0, <2>1, <2>4, ShownSame DEF ShownFor
<1>2. ASSUME NEW r \in requests, SaveSettles(r) PROVE ShownFor(i)'
  <2>1. /\ UNCHANGED <<timers, loadedItems>> /\ requests' \subseteq requests
        /\ aborts' = [aborts EXCEPT ![r.item] = IF @ = r.id THEN 0 ELSE @]
    BY <1>2 DEF SaveSettles, store
  <2>2. aborts'[i] \in {aborts[i], 0}
    BY <2>1 DEF PageInv
  <2>3. LivesFrom(i)
    BY <2>1 DEF LivesFrom
  <2>4. QED
    BY <1>0, <2>1, <2>2, <2>3, ShownSame DEF ShownFor
<1>3. CASE ViewStep
  <2>1. UNCHANGED <<timers, aborts>> /\ requests' \subseteq requests /\ Narrowed(loadedItems', loadedItems)
        /\ (HasPending(i) /\ i \in DOMAIN loadedItems => i \in DOMAIN loadedItems')
    BY <1>0, <1>3 DEF ViewStep
  <2>2. HasPending(i) => i \in DOMAIN loadedItems' /\ loadedItems'[i].edit = loadedItems[i].edit
    BY <1>0, <2>1 DEF Narrowed, ShownFor
  <2>3. LivesFrom(i)
    BY <2>1 DEF LivesFrom
  <2>4. QED
    BY <1>0, <2>1, <2>2, <2>3, ShownSame
<1>4. ASSUME NEW j \in Item, TimerFires(j) PROVE ShownFor(i)'
  <2>1. PICK r : Sends(j, r)
    BY <1>4, TimerPage
  <2>2. /\ UNCHANGED loadedItems /\ timers[j] # None /\ timers' = [timers EXCEPT ![j] = None]
        /\ aborts' = [aborts EXCEPT ![j] = SaveOf(requests', j)]
    BY <1>4 DEF TimerFires, store
  <2>3. timers \in [Item -> Target \cup {None}] /\ aborts \in [Item -> Nat]
    BY DEF PageInv
  <2>4. ASSUME NEW p \in requests', LiveSave(p), p # r
        PROVE  p \in requests /\ p.id # aborts[j] /\ p.item \in Item /\ aborts[p.item] = p.id
    <3>1. p \in requests /\ p.id # aborts[j]
      BY <2>1, <2>4, AbortLive DEF Sends, LiveSave, PageInv
    <3>2. QED
      BY <2>4, <3>1, LivePending
  <2>5. CASE i = j
    <3>1. i \in DOMAIN loadedItems /\ loadedItems[i].edit = timers[i] /\ timers'[i] = None
      BY <1>0, <2>2, <2>3, <2>5 DEF ShownFor, HasPending
    <3>2. ASSUME NEW p \in requests', LiveSave(p), p.item = i PROVE p.edit = timers[i]
      BY <2>1, <2>4, <2>5, <3>2 DEF Sends
    <3>3. QED
      BY <2>2, <3>1, <3>2 DEF ShownFor, LiveSave
  <2>6. CASE i # j
    <3>1. timers'[i] = timers[i] /\ aborts'[i] = aborts[i]
      BY <2>2, <2>3, <2>6
    <3>2. LivesFrom(i)
      BY <2>1, <2>4, <2>6 DEF LivesFrom, Sends
    <3>3. QED
      BY <1>0, <2>2, <3>1, <3>2, ShownSame DEF ShownFor
  <2>7. QED
    BY <2>5, <2>6
<1>5. CASE AnswerWindow
  <2>1. UNCHANGED <<timers, aborts, loadedItems, requests>>
    BY <1>5, AnswerWindowPage
  <2>2. LivesFrom(i)
    BY <2>1 DEF LivesFrom
  <2>3. QED
    BY <1>0, <2>1, <2>2, ShownSame DEF ShownFor
<1>6. CASE WindowArrives
  <2>1. UNCHANGED <<timers, aborts, requests>> /\ DOMAIN loadedItems \subseteq DOMAIN loadedItems'
        /\ (HasPending(i) /\ i \in DOMAIN loadedItems' => loadedItems'[i] = loadedItems[i])
    BY <1>6, WindowArrivesPage
  <2>2. LivesFrom(i)
    BY <2>1 DEF LivesFrom
  <2>3. QED
    BY <1>0, <2>1, <2>2, ShownSame DEF ShownFor
<1>7. ASSUME NEW item, Current # None, Entered(item), PutCurrent(item), UNCHANGED gone,
             \A p \in requests' : LiveSave(p) => p \in requests,
             \A j \in Item : j # Current => aborts'[j] = aborts[j]
      PROVE  ShownFor(i)'
  <2>1. item \in Row /\ Current \in DOMAIN loadedItems
    BY <1>7, EnteredRow, CurrentLoaded
  <2>2. /\ DOMAIN loadedItems' = DOMAIN loadedItems /\ loadedItems'[Current] = item
        /\ \A j \in DOMAIN loadedItems : j # Current => loadedItems'[j] = loadedItems[j]
        /\ timers'[Current] = item.edit /\ item.edit # None
        /\ \A j \in Item : j # Current => timers'[j] = timers[j]
    BY <1>7, <2>1, PutPage
  <2>3. CASE i = Current
    BY <2>1, <2>2, <2>3 DEF ShownFor
  <2>4. CASE i # Current
    <3>1. LivesFrom(i)
      BY <1>7 DEF LivesFrom
    <3>2. QED
      BY <1>0, <1>7, <2>2, <2>4, <3>1, ShownSame DEF ShownFor
  <2>5. QED
    BY <2>3, <2>4
<1>8. ASSUME NEW e \in Edit, SetTarget(e) PROVE ShownFor(i)'
  BY <1>7, <1>8, SetTargetEnters DEF server
<1>9. CASE RevertCurrent
  <2>1. requests' = Abort(requests, {aborts[j] : j \in {Current}}) /\ aborts' = [aborts EXCEPT ![Current] = 0]
    BY <1>9, RevertEnters DEF Cancelled
  <2>2. \A p \in requests' : LiveSave(p) => p \in requests
    BY <2>1, AbortLive DEF LiveSave, PageInv
  <2>3. \A j \in Item : j # Current => aborts'[j] = aborts[j]
    BY <2>1 DEF PageInv
  <2>4. QED
    BY <1>7, <1>9, <2>2, <2>3, RevertEnters DEF server
<1>10. ASSUME NEW kind, NEW a, NEW status, NEW all, NEW io, Acts(kind, a, status, all, io)
       PROVE  ShownFor(i)'
  <2>1. /\ UNCHANGED loadedItems
        /\ timers' = [j \in Item |-> IF j \in ItemsOf(a) THEN None ELSE timers[j]]
        /\ aborts' = Zeroed(aborts, ItemsOf(a))
    BY <1>10, ActPage
  <2>2. PICK r : requests' = Abort(requests, {aborts[j] : j \in ItemsOf(a)}) \cup {r} /\ r.kind # "save"
    BY <1>10, ActPage DEF Cancelled
  <2>3. CASE i \in ItemsOf(a)
    BY <2>1, <2>3, ShownNothing DEF Zeroed
  <2>4. CASE i \notin ItemsOf(a)
    <3>1. LivesFrom(i)
      BY <2>2, AbortLive DEF LivesFrom, LiveSave, PageInv
    <3>2. timers'[i] = timers[i] /\ aborts'[i] = aborts[i]
      BY <2>1, <2>4 DEF Zeroed
    <3>3. QED
      BY <1>0, <2>1, <3>1, <3>2, ShownSame DEF ShownFor
  <2>5. QED
    BY <2>3, <2>4
<1>11. CASE Leave \/ CloseTab
  BY <1>11, ShownNothing DEF Leave, CloseTab, Empties
<1>12. CASE UNCHANGED vars
  <2>1. UNCHANGED <<timers, aborts, loadedItems, requests>>
    BY <1>12 DEF vars, pending, store
  <2>2. LivesFrom(i)
    BY <2>1 DEF LivesFrom
  <2>3. QED
    BY <1>0, <2>1, <2>2, ShownSame DEF ShownFor
<1>13. QED
  BY <1>1, <1>2, <1>3, <1>4, <1>5, <1>6, <1>8, <1>9, <1>10, <1>11, <1>12, StepKinds

----------------------------------------------------------------------------
(* What the user entered is kept.                                           *)

\* At most one handler is at work for the item, on the row it has read.
OneAt(i) ==
  /\ \A r, q \in ActiveIn(requests, i) : r = q
  /\ \A r \in ActiveIn(requests, i) : r.kind \in Saving /\ r.phase = "read" => r.seen = {rows[i]}

\* What was entered last waits, is on its way, or is in the row.
EditKept(i) ==
  /\ timers[i] # None => timers[i] = typed[i]
  /\ timers[i] = None =>
       \A r \in ActiveIn(requests, i) : r.kind = "save" => r.edit = typed[i] /\ (mounted => r.live)
  /\ timers[i] = None /\ typed[i] # None =>
       rows[i].edit = typed[i] \/ \E r \in ActiveIn(requests, i) : r.kind = "save"

\* The page shows it, and no answer on its way differs from it.
EditShown(i) ==
  typed[i] # None =>
    /\ i \in DOMAIN loadedItems => loadedItems[i].edit = typed[i]
    /\ window # None /\ i \in DOMAIN window.items => window.items[i].edit = typed[i]

KeptFor(i) == OneAt(i) /\ EditKept(i) /\ EditShown(i)
Kept == \A i \in Item \ (exposed \cup gone) : KeptFor(i)

LEMMA ExposedGrows == ASSUME [Next]_vars PROVE exposed \subseteq exposed'
<1>1. ASSUME NEW r \in requests, Handler(r) PROVE exposed \subseteq exposed'
  BY <1>1 DEF Handler, ReadRow, InsertRow, RemoveQueueItem, MatchRows, CopyRows, DeleteRows, FailRequest
<1>2. ASSUME NEW r \in requests, Answer(r) PROVE UNCHANGED exposed
  BY <1>2 DEF Answer, SaveSettles, Approved, Unapproved, Removed, PushedAll, ActionFails
<1>3. ASSUME NEW i \in Item, TimerFires(i) PROVE exposed \subseteq exposed'
  BY <1>3 DEF TimerFires, Risk
<1>4. CASE Loading
  BY <1>4 DEF Loading, RefreshIndex, AnswerIndex, IndexArrives, IndexFails, AnswerWindow, WindowArrives,
              WindowFails
<1>5. CASE User
  BY <1>5 DEF User, SetTarget, RevertCurrent, SetCurrentIndex, ApproveCurrent, UnapproveCurrent,
              DiscardCurrent, PushCurrent, PushAll, Act, Leave, CloseTab
<1>6. QED
  BY <1>1, <1>2, <1>3, <1>4, <1>5 DEF Next, vars

\* Nothing happens to the item but that requests for it may lose their listener.
LEMMA KeptSame ==
  ASSUME NEW i, KeptFor(i), ActiveIn(requests, i)' = ActiveIn(requests, i),
         timers'[i] = timers[i], typed'[i] = typed[i], rows'[i] = rows[i], mounted' => mounted, EditShown(i)'
  PROVE  KeptFor(i)'
BY DEF KeptFor, OneAt, EditKept

LEMMA OneAtEnded ==
  ASSUME PageInv, NEW i, OneAt(i), NEW ids, rows'[i] = rows[i],
         ActiveIn(requests, i)' = {Ended(q, ids) : q \in ActiveIn(requests, i)}
  PROVE  OneAt(i)'
<1>1. ASSUME NEW q \in ActiveIn(requests, i)
      PROVE  LET e == Ended(q, ids) IN e.kind = q.kind /\ e.phase = q.phase /\ e.seen = q.seen
  BY EndedFields DEF ActiveIn, PageInv, AllFormed, Formed
<1>2. QED
  BY <1>1 DEF OneAt

LEMMA KeptUnheard ==
  ASSUME PageInv, NEW i, KeptFor(i), NEW ids, UNCHANGED <<rows, typed>>, timers[i] = None, timers'[i] = None,
         ActiveIn(requests, i)' = {Ended(q, ids) : q \in ActiveIn(requests, i)},
         mounted' = FALSE, EditShown(i)'
  PROVE  KeptFor(i)'
<1>1. ASSUME NEW q \in ActiveIn(requests, i)
      PROVE  LET e == Ended(q, ids) IN e.kind = q.kind /\ e.edit = q.edit
  BY EndedFields DEF ActiveIn, PageInv, AllFormed, Formed
<1>2. OneAt(i)'
  BY OneAtEnded DEF KeptFor
<1>3. EditKept(i)'
  BY <1>1 DEF KeptFor, EditKept
<1>4. QED
  BY <1>2, <1>3 DEF KeptFor

\* Giving up the saves of other items.
LEMMA AbortSpares ==
  ASSUME PageInv, NEW S \in SUBSET Item, NEW i \in Item, i \notin S
  PROVE  ActiveIn(Abort(requests, {aborts[j] : j \in S}), i) = ActiveIn(requests, i)
<1> DEFINE ids == {aborts[j] : j \in S}
<1>1. AllFormed(requests) /\ aborts \in [Item -> Nat] /\ Tracked(requests, aborts)
      /\ \A q \in requests : Formed(q)
  BY DEF PageInv, AllFormed
<1>2. ASSUME NEW q \in requests, q.id \in ids PROVE q.item \in S
  BY <1>1, <1>2, IdsOf
<1> HIDE DEF ids
<1>3. ASSUME NEW q \in ActiveIn(requests, i) PROVE Ended(q, ids) = q
  <2>1. q \in requests /\ i \in About(q)
    BY DEF ActiveIn
  <2>2. q.item \in S => About(q) = {q.item}
    BY QueueAssumption DEF About
  <2>3. q.id \notin ids
    BY <1>2, <2>1, <2>2
  <2>4. QED
    BY <2>3 DEF Ended
<1>4. ActiveIn(Abort(requests, ids), i) = {Ended(q, ids) : q \in ActiveIn(requests, i)}
  BY <1>1, AbortActive
<1>5. QED
  BY <1>3, <1>4 DEF ids

\* What a handler's step leaves of the requests at work.
LEMMA AdvanceActive ==
  ASSUME PageInv, NEW r \in requests, NEW phase, NEW seen, Advance(r, phase, seen)
  PROVE  \E q : /\ q.kind = r.kind /\ q.edit = r.edit /\ q.live = r.live /\ q.phase = phase /\ q.seen = seen
                /\ \A i : i \notin About(r) => ActiveIn(requests, i)' = ActiveIn(requests, i)
                /\ \A i \in About(r) :
                     ActiveIn(requests, i)' =
                       (ActiveIn(requests, i) \ {r}) \cup (IF phase \in {"done", "failed"} THEN {} ELSE {q})
<1>1. Whole(r)
  BY DEF PageInv, AllFormed, Formed
<1>2. PICK q : /\ Whole(q) /\ q.id = r.id /\ q.kind = r.kind /\ q.item = r.item /\ q.edit = r.edit
               /\ q.status = r.status /\ q.live = r.live /\ q.phase = phase /\ q.seen = seen
               /\ \/ requests' = (requests \ {r}) \cup {q}
                  \/ requests' = requests \ {r} /\ phase \in {"done", "failed"} /\ ~r.live
  BY <1>1, AdvanceCases
<1>3. About(q) = About(r) /\ (Active(q) <=> phase \notin {"done", "failed"})
  BY <1>2 DEF About, Active
<1>4. ASSUME NEW i PROVE ActiveIn(requests, i)' = {x \in requests' : i \in About(x) /\ Active(x)}
  BY DEF ActiveIn
<1>5. ASSUME NEW i, i \notin About(r) PROVE ActiveIn(requests, i)' = ActiveIn(requests, i)
  BY <1>2, <1>3, <1>4, <1>5 DEF ActiveIn
<1>6. ASSUME NEW i \in About(r)
      PROVE  ActiveIn(requests, i)' =
               (ActiveIn(requests, i) \ {r}) \cup (IF phase \in {"done", "failed"} THEN {} ELSE {q})
  BY <1>2, <1>3, <1>4 DEF ActiveIn
<1>7. QED
  BY <1>2, <1>5, <1>6

\* A push leaves what was entered alone.
LEMMA KeptPush ==
  ASSUME NEW i, KeptFor(i), NEW r \in ActiveIn(requests, i), r.kind = "push",
         NEW q, q.kind = "push", ActiveIn(requests, i)' \subseteq {q},
         timers'[i] = timers[i], typed'[i] = typed[i], rows'[i] = rows[i], EditShown(i)'
  PROVE  KeptFor(i)'
<1>1. OneAt(i)'
  BY DEF OneAt, Saving
<1>2. timers[i] = None /\ typed[i] # None => rows[i].edit = typed[i]
  BY DEF KeptFor, OneAt, EditKept
<1>3. EditKept(i)'
  BY <1>2 DEF KeptFor, EditKept
<1>4. QED
  BY <1>1, <1>3 DEF KeptFor

LEMMA KeptHandler ==
  ASSUME PageInv, Listed, NEW r \in requests, Handler(r), NEW i \in Item \ (exposed' \cup gone'),
         i \notin gone, KeptFor(i)
  PROVE  KeptFor(i)'
<1>1. UNCHANGED <<mounted, timers, typed, loadedItems, window>>
  BY DEF Handler, ReadRow, InsertRow, RemoveQueueItem, MatchRows, CopyRows, DeleteRows, FailRequest,
         Client, pending, store, loader
<1>2. EditShown(i)'
  BY <1>1 DEF KeptFor, EditShown
<1>3. Formed(r) /\ i \in DOMAIN rows
  BY DEF PageInv, AllFormed, Listed
<1>4. CASE i \notin About(r)
  <2>1. PICK phase, seen : Advance(r, phase, seen)
    BY DEF Handler, ReadRow, InsertRow, RemoveQueueItem, MatchRows, CopyRows, DeleteRows, FailRequest
  <2>2. ActiveIn(requests, i)' = ActiveIn(requests, i)
    BY <1>4, <2>1, AdvanceActive
  <2>3. rows'[i] = rows[i]
    <3>1. r.item # i
      BY <1>4 DEF About
    <3>2. r.kind = "push" => i \notin r.seen
      BY <1>3, <1>4 DEF Formed
    <3>3. CASE InsertRow(r)
      BY <1>3, <3>1, <3>3 DEF InsertRow, Put, Over
    <3>4. CASE RemoveQueueItem(r)
      BY <1>3, <3>1, <3>4 DEF RemoveQueueItem, Delete, Without, Restrict
    <3>5. CASE DeleteRows(r)
      BY <1>3, <3>2, <3>5 DEF DeleteRows, Delete, Without, Restrict
    <3>6. QED
      BY <3>3, <3>4, <3>5 DEF Handler, ReadRow, MatchRows, CopyRows, FailRequest, server
  <2>4. QED
    BY <1>1, <1>2, <2>2, <2>3, KeptSame
<1>5. CASE i \in About(r) /\ ~FailRequest(r)
  <2>0. Active(r)
    BY <1>5 DEF Handler, ReadRow, InsertRow, RemoveQueueItem, MatchRows, CopyRows, DeleteRows, Active
  <2>1. ActiveIn(requests, i) = {r}
    BY <1>5, <2>0 DEF ActiveIn, KeptFor, OneAt
  <2>2. CASE ReadRow(r)
    <3>1. Advance(r, "read", {rows[j] : j \in DOMAIN rows \cap {r.item}}) /\ UNCHANGED rows /\ r.kind \in Saving
      BY <2>2 DEF ReadRow, server
    <3>2. r.item = i
      BY <1>3, <1>5, <3>1, QueueAssumption DEF About, Saving, Formed
    <3>3. {rows[j] : j \in DOMAIN rows \cap {r.item}} = {rows[i]}
      BY <1>3, <3>2
    <3>4. PICK q : /\ q.kind = r.kind /\ q.edit = r.edit /\ q.live = r.live /\ q.seen = {rows[i]}
                   /\ ActiveIn(requests, i)' = {q}
      BY <1>5, <2>1, <3>1, <3>3, AdvanceActive
    <3>5. OneAt(i)'
      BY <3>1, <3>4 DEF OneAt
    <3>6. EditKept(i)'
      BY <1>1, <2>1, <3>1, <3>4 DEF KeptFor, EditKept
    <3>7. QED
      BY <1>2, <3>5, <3>6 DEF KeptFor
  <2>3. CASE InsertRow(r)
    <3>1. Advance(r, "done", {}) /\ rows' = Put(rows, r.item, UpdatedRow(r)) /\ r.kind \in Saving
          /\ r.phase = "read"
      BY <2>3 DEF InsertRow
    <3>2. r.item = i
      BY <1>3, <1>5, <3>1, QueueAssumption DEF About, Saving, Formed
    <3>3. rows'[i] = UpdatedRow(r)
      BY <3>1, <3>2 DEF Put, Over
    <3>4. ActiveIn(requests, i)' = {}
      BY <1>5, <2>1, <3>1, AdvanceActive
    <3>5. r.seen = {rows[i]}
      BY <2>1, <3>1 DEF KeptFor, OneAt
    <3>6. UpdatedRow(r).edit = IF r.edit # None THEN r.edit ELSE rows[i].edit
      BY <3>5 DEF UpdatedRow
    <3>7. ASSUME timers[i] = None, typed[i] # None PROVE rows'[i].edit = typed[i]
      <4>1. CASE r.kind = "save"
        <5>1. r.edit = typed[i]
          BY <2>1, <3>7, <4>1 DEF KeptFor, EditKept
        <5>2. QED
          BY <3>3, <3>6, <3>7, <5>1
      <4>2. CASE r.kind # "save"
        <5>1. r.edit = None
          BY <1>3, <4>2 DEF Formed
        <5>2. rows[i].edit = typed[i]
          BY <2>1, <3>7, <4>2 DEF KeptFor, EditKept
        <5>3. QED
          BY <3>3, <3>6, <5>1, <5>2
      <4>3. QED
        BY <4>1, <4>2
    <3>8. OneAt(i)'
      BY <3>4 DEF OneAt
    <3>9. EditKept(i)'
      BY <1>1, <3>4, <3>7 DEF KeptFor, EditKept
    <3>10. QED
      BY <1>2, <3>8, <3>9 DEF KeptFor
  <2>4. ASSUME r.kind = "push", NEW phase, NEW seen, Advance(r, phase, seen), rows'[i] = rows[i]
        PROVE  KeptFor(i)'
    <3>1. PICK q : q.kind = "push" /\ ActiveIn(requests, i)' \subseteq {q}
      BY <1>5, <2>1, <2>4, AdvanceActive
    <3>2. QED
      BY <1>1, <1>2, <2>1, <2>4, <3>1, KeptPush
  <2>5. CASE RemoveQueueItem(r)
    <3>1. r.kind = "discard" /\ gone' = gone \cup {r.item}
      BY <2>5 DEF RemoveQueueItem, Delete
    <3>2. r.item = i
      BY <1>3, <1>5, <3>1, QueueAssumption DEF About, Formed
    <3>3. QED
      BY <3>1, <3>2
  <2>6. CASE MatchRows(r)
    BY <2>4, <2>6 DEF MatchRows, server
  <2>7. CASE CopyRows(r)
    BY <2>4, <2>7 DEF CopyRows
  <2>8. CASE DeleteRows(r)
    <3>1. r.kind = "push" /\ Advance(r, "done", r.seen) /\ i \notin r.seen /\ rows' = Without(rows, r.seen)
      BY <2>8 DEF DeleteRows, Delete
    <3>2. rows'[i] = rows[i]
      BY <1>3, <3>1 DEF Without, Restrict
    <3>3. QED
      BY <2>4, <3>1, <3>2
  <2>9. QED
    BY <1>5, <2>2, <2>3, <2>5, <2>6, <2>7, <2>8 DEF Handler
<1>6. CASE FailRequest(r)
  BY <1>4, <1>6 DEF FailRequest
<1>7. QED
  BY <1>4, <1>5, <1>6

\* A timer that fires while nothing else is at work for its item.
LEMMA KeptTimer ==
  ASSUME PageInv, NEW j \in Item, TimerFires(j), NEW i \in Item \ exposed', KeptFor(i)
  PROVE  KeptFor(i)'
<1>1. PICK r : Sends(j, r)
  BY TimerPage
<1>2. /\ UNCHANGED <<rows, typed, mounted, loadedItems, window>> /\ timers[j] # None
      /\ timers' = [timers EXCEPT ![j] = None] /\ Risk({j}, requests)
  BY DEF TimerFires, server, store, loader
<1>3. timers \in [Item -> Target \cup {None}]
  BY DEF PageInv
<1>4. EditShown(i)'
  BY <1>2 DEF KeptFor, EditShown
<1>5. About(r) = {j} /\ Active(r) /\ r.live
  BY <1>1, QueueAssumption DEF Sends, About, Active, LiveSave
<1>6. requests' = Abort(requests, {aborts[k] : k \in {j}}) \cup {r}
  BY <1>1 DEF Sends
<1>7. CASE i # j
  <2>1. ActiveIn(Abort(requests, {aborts[k] : k \in {j}}), i) = ActiveIn(requests, i)
    BY <1>7, AbortSpares
  <2>2. ActiveIn(requests, i)' = ActiveIn(requests, i)
    BY <1>5, <1>6, <1>7, <2>1 DEF ActiveIn
  <2>3. timers'[i] = timers[i]
    BY <1>2, <1>3, <1>7
  <2>4. QED
    BY <1>2, <1>4, <2>2, <2>3, KeptSame
<1>8. CASE i = j
  <2>1. ActiveIn(requests, i) = {}
    BY <1>2, <1>8 DEF Risk, Overlap, ActiveIn, Active
  <2>2. ActiveIn(Abort(requests, {aborts[k] : k \in {j}}), i) = {}
    BY <2>1, AbortActive DEF PageInv
  <2>3. ActiveIn(requests, i)' = {r}
    BY <1>5, <1>6, <1>8, <2>2 DEF ActiveIn
  <2>4. timers'[i] = None /\ r.edit = typed[i] /\ r.kind = "save" /\ r.phase = "sent"
    BY <1>1, <1>2, <1>3, <1>8 DEF KeptFor, EditKept, Sends
  <2>5. OneAt(i)'
    BY <2>3, <2>4 DEF OneAt
  <2>6. EditKept(i)'
    BY <1>2, <1>5, <2>3, <2>4 DEF EditKept
  <2>7. QED
    BY <1>4, <2>5, <2>6 DEF KeptFor
<1>9. QED
  BY <1>7, <1>8

\* A page that only changes what it shows.
LEMMA KeptView ==
  ASSUME PageInv, ViewStep, NEW i, KeptFor(i)
  PROVE  KeptFor(i)'
<1>1. UNCHANGED <<rows, mounted, timers, typed>>
  BY DEF ViewStep, server
<1>2. ActiveIn(requests, i)' = ActiveIn(requests, i)
  BY DEF ViewStep, ActiveIn
<1>3. window' # None => window' = window \/ DOMAIN window'.items = {}
  BY DEF ViewStep, NewWindow
<1>4. \A j \in DOMAIN loadedItems' : j \in DOMAIN loadedItems /\ loadedItems'[j].edit = loadedItems[j].edit
  BY DEF ViewStep, Narrowed
<1>5. EditShown(i)'
  BY <1>1, <1>3, <1>4 DEF KeptFor, EditShown
<1>6. QED
  BY <1>1, <1>2, <1>5, KeptSame

\* The items asked for are not loaded: nothing waits for them.
LEMMA KeptAnswerWindow ==
  ASSUME PageInv, Listed, Shown, AnswerWindow, NEW i \in Item \ gone, KeptFor(i)
  PROVE  KeptFor(i)'
<1>1. /\ UNCHANGED <<server, requests, mounted, loadedItems, timers, aborts, typed, exposed>>
      /\ window # None /\ window.ids \cap DOMAIN loadedItems = {} /\ mounted
      /\ \A j \in DOMAIN window'.items : j \in window.ids /\ window'.items[j] = rows[j]
  BY AnswerWindowPage
<1>2. ASSUME i \in DOMAIN window'.items, typed[i] # None PROVE rows[i].edit = typed[i]
  <2>1. ~HasPending(i)
    BY <1>1, <1>2 DEF Shown, ShownFor
  <2>2. timers[i] = None /\ aborts[i] = 0
    BY <2>1 DEF HasPending
  <2>3. ASSUME NEW r \in ActiveIn(requests, i), r.kind = "save" PROVE FALSE
    <3>1. r \in requests /\ LiveSave(r) /\ i \in About(r)
      BY <1>1, <2>2, <2>3 DEF KeptFor, EditKept, ActiveIn, LiveSave
    <3>2. r.item \in Item /\ aborts[r.item] # 0
      BY <3>1, LivePending
    <3>3. r.item = i
      BY <3>1, <3>2, QueueAssumption DEF About
    <3>4. QED
      BY <2>2, <3>2, <3>3
  <2>4. QED
    BY <1>2, <2>2, <2>3 DEF KeptFor, EditKept
<1>3. EditShown(i)'
  BY <1>1, <1>2 DEF KeptFor, EditShown
<1>4. QED
  BY <1>1, <1>3, KeptSame DEF server

LEMMA KeptWindowArrives ==
  ASSUME PageInv, WindowArrives, NEW i, KeptFor(i)
  PROVE  KeptFor(i)'
<1>1. /\ UNCHANGED <<server, requests, mounted, timers, typed>> /\ window # None /\ window' = None
      /\ \A j \in DOMAIN loadedItems' :
           IF j \in DOMAIN window.items /\ ~HasPending(j) THEN loadedItems'[j] = window.items[j]
           ELSE j \in DOMAIN loadedItems /\ loadedItems'[j] = loadedItems[j]
  BY WindowArrivesPage
<1>2. EditShown(i)'
  BY <1>1 DEF KeptFor, EditShown
<1>3. QED
  BY <1>1, <1>2, KeptSame DEF server

\* What the user enters for the open item, which is in no answer on its way.
LEMMA KeptEntered ==
  ASSUME PageInv, Current # None, NEW item, Entered(item), PutCurrent(item),
         UNCHANGED <<rows, mounted, window>>, NEW i \in Item, KeptFor(i),
         i # Current => ActiveIn(requests, i)' = ActiveIn(requests, i),
         OneAt(i)'
  PROVE  KeptFor(i)'
<1>1. item \in Row /\ Current \in DOMAIN loadedItems
  BY EnteredRow, CurrentLoaded
<1>2. /\ DOMAIN loadedItems' = DOMAIN loadedItems /\ loadedItems'[Current] = item
      /\ \A j \in DOMAIN loadedItems : j # Current => loadedItems'[j] = loadedItems[j]
      /\ timers'[Current] = item.edit /\ typed'[Current] = item.edit /\ item.edit # None
      /\ \A j \in Item : j # Current => timers'[j] = timers[j] /\ typed'[j] = typed[j]
  BY <1>1, PutPage
<1>3. CASE i = Current
  <2>1. window # None => i \notin DOMAIN window.items
    BY <1>1, <1>3 DEF PageInv, WindowOK
  <2>2. EditShown(i)'
    BY <1>2, <1>3, <2>1 DEF EditShown
  <2>3. EditKept(i)'
    BY <1>2, <1>3 DEF EditKept
  <2>4. QED
    BY <2>2, <2>3 DEF KeptFor
<1>4. CASE i # Current
  <2>1. EditShown(i)'
    BY <1>2, <1>4 DEF KeptFor, EditShown
  <2>2. QED
    BY <1>2, <1>4, <2>1, KeptSame
<1>5. QED
  BY <1>3, <1>4

LEMMA KeptSetTarget ==
  ASSUME PageInv, NEW e \in Edit, SetTarget(e), NEW i \in Item, KeptFor(i)
  PROVE  KeptFor(i)'
<1>1. PICK item : Current # None /\ Entered(item) /\ PutCurrent(item)
  BY SetTargetEnters
<1>2. UNCHANGED <<rows, requests, mounted, window>>
  BY SetTargetEnters DEF server, loader
<1>3. ActiveIn(requests, i)' = ActiveIn(requests, i)
  BY <1>2
<1>4. OneAt(i)'
  BY <1>2, <1>3 DEF KeptFor, OneAt
<1>5. QED
  BY <1>1, <1>2, <1>3, <1>4, KeptEntered

LEMMA KeptRevert ==
  ASSUME PageInv, RevertCurrent, NEW i \in Item, KeptFor(i)
  PROVE  KeptFor(i)'
<1>1. PICK item : Current # None /\ Entered(item) /\ PutCurrent(item)
  BY RevertEnters
<1>2. /\ UNCHANGED <<rows, mounted, window>>
      /\ requests' = Abort(requests, {aborts[j] : j \in {Current}})
  BY RevertEnters DEF server, loader, Cancelled
<1>3. Current \in Item
  BY <1>1, CurrentLoaded
<1>4. i # Current => ActiveIn(requests, i)' = ActiveIn(requests, i)
  BY <1>2, <1>3, AbortSpares
<1>5. PICK ids : ids = {aborts[j] : j \in {Current}}
  OBVIOUS
<1>5a. AllFormed(requests) /\ requests' = Abort(requests, ids)
  BY <1>2, <1>5 DEF PageInv
<1>5b. ActiveIn(requests, i)' = {Ended(q, ids) : q \in ActiveIn(requests, i)}
  BY <1>5a, AbortActive
<1>6. OneAt(i)'
  BY <1>2, <1>5b, OneAtEnded DEF KeptFor
<1>7. QED
  BY <1>1, <1>2, <1>4, <1>6, KeptEntered

\* An action gives up what waits: the item is exposed, or nothing was on its way.
LEMMA KeptAct ==
  ASSUME PageInv, NEW kind, NEW a, NEW status, NEW all, NEW io, Acts(kind, a, status, all, io),
         NEW i \in Item \ exposed', KeptFor(i)
  PROVE  KeptFor(i)'
<1>1. /\ UNCHANGED <<server, mounted, loadedItems, window, typed>>
      /\ timers' = [j \in Item |-> IF j \in ItemsOf(a) THEN None ELSE timers[j]]
      /\ ItemsOf(a) \subseteq Item
      /\ exposed' = exposed \cup {j \in ItemsOf(a) : timers[j] # None \/ Overlap(j, requests)}
  BY ActPage
<1>2. PICK r : /\ requests' = Abort(requests, {aborts[j] : j \in ItemsOf(a)}) \cup {r}
               /\ About(r) = ItemsOf(a) /\ r.kind # "save" /\ r.phase = "sent"
  BY ActPage DEF Cancelled
<1>3. EditShown(i)' /\ UNCHANGED rows
  BY <1>1 DEF KeptFor, EditShown, server
<1>4. CASE i \notin ItemsOf(a)
  <2>1. ActiveIn(Abort(requests, {aborts[j] : j \in ItemsOf(a)}), i) = ActiveIn(requests, i)
    BY <1>1, <1>4, AbortSpares
  <2>2. ActiveIn(requests, i)' = ActiveIn(requests, i)
    BY <1>2, <1>4, <2>1 DEF ActiveIn
  <2>3. QED
    BY <1>1, <1>3, <1>4, <2>2, KeptSame
<1>5. CASE i \in ItemsOf(a)
  <2>1. ActiveIn(requests, i) = {} /\ timers[i] = None
    BY <1>1, <1>5 DEF Overlap, ActiveIn, Active
  <2>2. ActiveIn(Abort(requests, {aborts[j] : j \in ItemsOf(a)}), i) = {}
    BY <2>1, AbortActive DEF PageInv
  <2>3. ActiveIn(requests, i)' \subseteq {r}
    BY <1>2, <2>2 DEF ActiveIn
  <2>4. OneAt(i)'
    BY <1>2, <2>3 DEF OneAt
  <2>5. timers'[i] = None
    BY <1>1, <1>5
  <2>6. EditKept(i)'
    BY <1>1, <1>2, <1>3, <2>1, <2>3, <2>5 DEF KeptFor, EditKept
  <2>7. QED
    BY <1>3, <2>4, <2>6 DEF KeptFor
<1>6. QED
  BY <1>4, <1>5

\* A page that is left sends what waits, as the page shows it.
LEMMA KeptLeave ==
  ASSUME PageInv, Shown, Leave, NEW i \in Item \ exposed', i \notin gone, KeptFor(i)
  PROVE  KeptFor(i)'
<1> DEFINE R   == Cancelled(Flushed)
           RF  == R \cup FlushedSaves
           ids == {r.id : r \in RF}
<1>1. /\ requests' = Abort(RF, ids) /\ AllFormed(R) /\ AllFormed(RF)
      /\ \A r \in FlushedSaves : /\ Formed(r) /\ r.kind = "save" /\ r.phase = "sent"
                                 /\ r.item \in Flushed /\ r.edit = loadedItems[r.item].edit
      /\ \A j \in Flushed : \E r \in FlushedSaves : r.item = j
      /\ \A r, q \in FlushedSaves : r.item = q.item => r = q
      /\ Empties /\ UNCHANGED <<rows, typed>>
      /\ exposed' = exposed \cup {j \in Item : timers[j] # None /\ (j \notin Flushed \/ Overlap(j, requests))}
  BY LeaveFacts DEF Unheard, server
<1> HIDE DEF RF, ids
<1>2. ActiveIn(requests, i)' = {Ended(q, ids) : q \in ActiveIn(RF, i)}
  BY <1>1, AbortActive
<1>3. timers'[i] = None /\ mounted' = FALSE /\ EditShown(i)'
  BY <1>1 DEF Empties, EditShown
<1>4. Flushed \in SUBSET Item
  BY DEF Flushed
<1>5. ASSUME NEW r \in FlushedSaves PROVE About(r) = {r.item} /\ Active(r)
  BY <1>1, <1>4, QueueAssumption DEF About, Active
<1>6. R = Abort(requests, {aborts[j] : j \in Flushed})
  BY DEF Cancelled
<1> HIDE DEF R
<1>7. CASE i \notin Flushed
  <2>1. timers[i] = None
    BY <1>1, <1>7
  <2>2. ActiveIn(R, i) = ActiveIn(requests, i)
    BY <1>4, <1>6, <1>7, AbortSpares
  <2>3. ActiveIn(RF, i) = ActiveIn(R, i)
    BY <1>1, <1>5, <1>7 DEF ActiveIn, RF
  <2>4. ActiveIn(requests, i)' = {Ended(q, ids) : q \in ActiveIn(requests, i)}
    BY <1>2, <2>2, <2>3
  <2>5. UNCHANGED <<rows, typed>>
    BY <1>1
  <2>6. QED
    BY <1>3, <2>1, <2>4, <2>5, KeptUnheard
<1>8. CASE i \in Flushed
  <2>1. timers[i] # None
    BY <1>8 DEF Flushed
  <2>2. ActiveIn(requests, i) = {}
    BY <1>1, <2>1 DEF Overlap, ActiveIn, Active
  <2>3. ActiveIn(R, i) = {}
    BY <1>6, <2>2, AbortActive DEF PageInv
  <2>4. PICK s \in FlushedSaves : s.item = i
    BY <1>1, <1>8
  <2>5. ActiveIn(RF, i) = {s}
    BY <1>1, <1>5, <2>3, <2>4 DEF ActiveIn, RF
  <2>6. PICK e : e = Ended(s, ids)
    OBVIOUS
  <2>7. ActiveIn(requests, i)' = {e}
    BY <1>2, <2>5, <2>6
  <2>8. e.kind = "save" /\ e.phase = "sent" /\ e.edit = loadedItems[i].edit
    <3>1. Whole(s) /\ s.kind = "save" /\ s.phase = "sent" /\ s.edit = loadedItems[i].edit
      BY <1>1, <2>4 DEF Formed
    <3>2. e.kind = s.kind /\ e.phase = s.phase /\ e.edit = s.edit
      BY <2>6, <3>1, EndedFields
    <3>3. QED
      BY <3>1, <3>2
  <2>9. loadedItems[i].edit = timers[i] /\ timers[i] = typed[i]
    BY <2>1 DEF Shown, ShownFor, KeptFor, EditKept
  <2>10. OneAt(i)'
    BY <2>7, <2>8 DEF OneAt
  <2>11. EditKept(i)'
    BY <1>1, <1>3, <2>7, <2>8, <2>9 DEF EditKept
  <2>12. QED
    BY <1>3, <2>10, <2>11 DEF KeptFor
<1>9. QED
  BY <1>7, <1>8

LEMMA KeptClose ==
  ASSUME PageInv, CloseTab, NEW i \in Item \ exposed', KeptFor(i)
  PROVE  KeptFor(i)'
<1>1. /\ requests' = Abort(requests, {r.id : r \in requests}) /\ Empties /\ UNCHANGED <<rows, typed>>
      /\ timers[i] = None
  BY DEF CloseTab, Unheard, server
<1>2. timers'[i] = None /\ mounted' = FALSE /\ EditShown(i)'
  BY <1>1 DEF Empties, EditShown
<1>3. PICK ids : ids = {r.id : r \in requests}
  OBVIOUS
<1>4. AllFormed(requests) /\ requests' = Abort(requests, ids)
  BY <1>1, <1>3 DEF PageInv
<1>5. ActiveIn(requests, i)' = {Ended(q, ids) : q \in ActiveIn(requests, i)}
  BY <1>4, AbortActive
<1>6. QED
  BY <1>1, <1>2, <1>5, KeptUnheard

LEMMA KeptStep ==
  ASSUME PageInv, Listed, Shown, Kept, [Next]_vars
  PROVE  Kept'
<1> SUFFICES ASSUME NEW i \in Item \ (exposed' \cup gone') PROVE KeptFor(i)'
  BY DEF Kept
<1>0. KeptFor(i) /\ i \in Item \ gone
  BY GoneGrows, ExposedGrows DEF Kept
<1>1. ASSUME NEW r \in requests, SaveSettles(r) PROVE KeptFor(i)'
  <2>1. /\ requests' = requests \ {r} /\ ~Active(r)
        /\ UNCHANGED <<rows, mounted, timers, typed, loadedItems, window>>
    BY <1>1 DEF SaveSettles, server, store, loader, Active
  <2>2. ActiveIn(requests, i)' = ActiveIn(requests, i)
    BY <2>1 DEF ActiveIn
  <2>3. EditShown(i)'
    BY <1>0, <2>1 DEF KeptFor, EditShown
  <2>4. QED
    BY <1>0, <2>1, <2>2, <2>3, KeptSame
<1>2. CASE UNCHANGED vars
  <2>1. UNCHANGED <<rows, requests, mounted, timers, typed, loadedItems, window>>
    BY <1>2 DEF vars, server, store, pending, loader
  <2>2. EditShown(i)' /\ ActiveIn(requests, i)' = ActiveIn(requests, i)
    BY <1>0, <2>1 DEF KeptFor, EditShown
  <2>3. QED
    BY <1>0, <2>1, <2>2, KeptSame
<1>3. QED
  BY <1>0, <1>1, <1>2, StepKinds, KeptHandler, KeptView, KeptTimer, KeptAnswerWindow, KeptWindowArrives,
     KeptSetTarget, KeptRevert, KeptAct, KeptLeave, KeptClose

----------------------------------------------------------------------------
\* SavedWhenQuiet alone is not inductive: what is in the row when all is quiet
\* depends on the saves that were on their way (Kept), those on what the page
\* showed when it was left (Shown), and that on the answers the loader lets
\* through (PageInv, Listed).
LabelInv == PageInv /\ Listed /\ Shown /\ Kept

LEMMA LabelInvInductive == Spec => []LabelInv
<1>1. ASSUME Init PROVE LabelInv
  <2>1. /\ rows = [i \in Item |-> Seeded] /\ requests = {} /\ DOMAIN loadedItems = {} /\ window = None /\ mounted
        /\ timers = [i \in Item |-> None] /\ aborts = [i \in Item |-> 0] /\ typed = [i \in Item |-> None]
        /\ gone = {}
    BY <1>1 DEF Init
  <2>1a. index = [phase |-> "sent", list |-> <<>>, awaited |-> FALSE]
    BY <1>1 DEF Init, NoIndex
  <2>2. Seeded \in Row
    BY QueueAssumption DEF Seeded, Row, Target
  <2>3. RowsByItem(rows) /\ RowsByItem(loadedItems) /\ WindowOK /\ IndexOK
    BY <2>1, <2>1a, <2>2 DEF RowsByItem, WindowOK, IndexOK
  <2>4. AllFormed(requests) /\ Tracked(requests, aborts)
    BY <2>1, FS_EmptySet DEF AllFormed, Tracked
  <2>5. PageInv
    BY <2>1, <2>3, <2>4 DEF PageInv
  <2>6. Listed
    BY <2>1, <2>1a DEF Listed
  <2>7. Shown
    BY <2>1 DEF Shown, ShownFor, HasPending
  <2>8. Kept
    BY <2>1 DEF Kept, KeptFor, OneAt, EditKept, EditShown, ActiveIn
  <2>9. QED
    BY <2>5, <2>6, <2>7, <2>8 DEF LabelInv
<1>2. LabelInv /\ [Next]_vars => LabelInv'
  BY PageStep, ShownStep, KeptStep DEF LabelInv
<1>3. QED
  BY <1>1, <1>2, PTL DEF Spec

\* While an edit waits to be saved, or its save is under way, the page shows
\* it, whatever answers arrive, are lost or late, and wherever the user goes:
\* evictOutsideWindow, hydrateWindow and hydrateIndex ask hasPending.
THEOREM PendingEditsShown == Spec => []PendingShown
<1>1. ASSUME LabelInv PROVE PendingShown
  <2>1. SUFFICES ASSUME NEW i \in Item \ gone, HasPending(i)
                 PROVE  /\ i \in DOMAIN loadedItems
                        /\ loadedItems[i].edit =
                             IF timers[i] # None THEN timers[i]
                             ELSE (CHOOSE r \in requests : r.id = aborts[i]).edit
    BY DEF PendingShown
  <2>2. ShownFor(i)
    BY <1>1 DEF LabelInv, Shown
  <2>3. CASE timers[i] # None
    BY <2>1, <2>2, <2>3 DEF ShownFor
  <2>4. CASE timers[i] = None
    <3>1. aborts[i] # 0
      BY <2>1, <2>4 DEF HasPending
    <3>2. PICK r \in requests : LiveSave(r) /\ r.item = i /\ r.id = aborts[i]
      BY <1>1, <3>1 DEF LabelInv, PageInv, Tracked
    <3>3. \A q \in requests : q.id = aborts[i] => q = r
      BY <1>1, <3>2 DEF LabelInv, PageInv, Tracked, LiveSave
    <3>4. (CHOOSE q \in requests : q.id = aborts[i]) = r
      BY <3>2, <3>3
    <3>5. r.edit = loadedItems[i].edit
      BY <2>2, <2>4, <3>2 DEF ShownFor
    <3>6. QED
      BY <2>1, <2>2, <2>4, <3>4, <3>5 DEF ShownFor
  <2>5. QED
    BY <2>3, <2>4
<1>2. QED
  BY <1>1, LabelInvInductive, PTL

\* What the user entered last is in the row, and on the page when it shows the
\* item, as soon as nothing is on the way for it, but for the cases exposed
\* names: debounced saves, approvals, refetches and leaving the page keep it.
THEOREM EditsSaved == Spec => []SavedWhenQuiet
<1>1. ASSUME LabelInv PROVE SavedWhenQuiet
  <2>1. SUFFICES ASSUME NEW i \in Item \ (exposed \cup gone), Quiet(i), typed[i] # None
                 PROVE  /\ i \in DOMAIN rows /\ rows[i].edit = typed[i]
                        /\ i \in DOMAIN loadedItems => loadedItems[i].edit = typed[i]
    BY DEF SavedWhenQuiet
  <2>2. KeptFor(i) /\ i \in DOMAIN rows
    BY <1>1 DEF LabelInv, Kept, Listed
  <2>3. timers[i] = None /\ ActiveIn(requests, i) = {}
    BY <2>1 DEF Quiet, At, ActiveIn
  <2>4. QED
    BY <2>1, <2>2, <2>3 DEF KeptFor, EditKept, EditShown
<1>2. QED
  BY <1>1, LabelInvInductive, PTL
=============================================================================
