--------------------------- MODULE LabelingQueue ---------------------------
(****************************************************************************)
(* One user at a labeling queue: the page's store with its debounced saves,  *)
(* the loader of its list and of the items around the open one, and the      *)
(* handlers that change the rows of the queue or move them to a dataset.     *)
(*                                                                          *)
(* A handler that updates a row reads it, then inserts a new version; the    *)
(* last version wins.  A request the page aborts goes on at the server.      *)
(****************************************************************************)
EXTENDS Integers, FiniteSets, SequencesExt

CONSTANTS Items,        \* the items of the queue, in order
          Edit,           \* the targets a user may enter
          Original,       \* the target an item was queued with
          Empty,          \* the edit of a row made without one ("")
          None,
          Radius,         \* WINDOW_RADIUS
          MaxClicks,      \* what the user does, moving around aside
          MaxFaults       \* failed requests, short inserts, closed tabs

Item == ToSet(Items)

\* Rows hold an edit (a target or Empty), a status (1 is approved), and
\* whether their payload is the item's own or the default {}.
ASSUME QueueAssumption ==
  /\ IsFiniteSet(Item) /\ Items \in Seq(Item)
  /\ Original \in Edit /\ None \notin Edit \cup {Empty} \cup Item
  /\ {Radius, MaxClicks, MaxFaults} \subseteq Nat

VARIABLES rows,         \* [items there are -> row], labeling_queue_items
          points,         \* the rows copied to the dataset
          requests,       \* on their way or answered, from this page
          mounted,
          idsList, loadedItems, itemStates, currentIndex, ioState,
          timers,         \* [Item -> the edit to save or None]
          aborts,         \* [Item -> the id of the save under way or 0]
          index, cached,  \* the request for the list, and the list SWR holds
          window,         \* the request for items, or None
          clicks, faults,
          typed,          \* what the user last entered for an item, or None
          exposed,        \* items whose edit the code gives up or may lose
          discarded, gone \* items the user discarded; all that were deleted

server  == <<rows, points, discarded, gone>>
store   == <<idsList, loadedItems, itemStates, currentIndex>>
pending == <<timers, aborts>>
loader  == <<index, cached, window>>
vars    == <<server, requests, mounted, store, ioState, pending, loader, clicks, faults, typed, exposed>>

Without(f, S) == Restrict(f, DOMAIN f \ S)
Over(f, g)    == [i \in DOMAIN f \cup DOMAIN g |-> IF i \in DOMAIN f THEN f[i] ELSE g[i]]
Put(f, i, v)  == Over([j \in {i} |-> v], f)

----------------------------------------------------------------------------
(* The rows of the queue.                                                   *)

Seeded == [edit |-> Original, status |-> 0, own |-> TRUE]

\* The items there are, in the order of creation: a row whose payload was lost
\* was created later than all others.
Ordered ==
  LET there == {p \in DOMAIN Items : Items[p] \in DOMAIN rows}
      Before(p, q) == IF rows[Items[p]].own = rows[Items[q]].own THEN p < q
                      ELSE rows[Items[p]].own
  IN  [k \in 1..Cardinality(there) |->
         Items[CHOOSE p \in there : Cardinality({q \in there : Before(q, p)}) = k - 1]]

GetQueueItemStates ==
  [k \in 1..Len(Ordered) |->
     LET row == rows[Ordered[k]]
     IN  <<Ordered[k], IF row.status = 1 THEN "approved"
                       ELSE IF row.own /\ row.edit = Original THEN "new" ELSE "modified">>]

Dirty(item) == item.edit # Empty /\ (item.own => item.edit # Original)
DeriveItemState(item) ==
  IF item.status = 1 THEN "approved" ELSE IF Dirty(item) THEN "modified" ELSE "new"

----------------------------------------------------------------------------
(* The window of items around the open one.  currentIndex counts from 1.    *)

HasPending(i) == timers[i] # None \/ aborts[i] # 0

Clamp(k, ids) == Min({Max({k, 1}), Max({Len(ids), 1})})
ComputeWindowIds(ids, k) ==
  {ids[j] : j \in Max({1, k - Radius})..Min({Len(ids), k + Radius})}
\* Mutant: eviction that does not ask hasPending.
MutEvict(loaded, ids, k) == Without(loaded, DOMAIN loaded \ ComputeWindowIds(ids, k))
EvictOutsideWindow(loaded, ids, k) ==
  Without(loaded, {i \in DOMAIN loaded : i \notin ComputeWindowIds(ids, k) /\ ~HasPending(i)})

Current ==
  IF currentIndex <= Len(idsList) /\ idsList[currentIndex] \in DOMAIN loadedItems
  THEN idsList[currentIndex] ELSE None

\* The effect that asks for what the window lacks: it runs when the position
\* or the length of the list has changed, and aborts the request before.
LoadWindow(ids, loaded, k) ==
  LET missing == ComputeWindowIds(ids, k) \ DOMAIN loaded
  IN  window' = IF (k = currentIndex /\ Len(ids) = Len(idsList)) \/ missing = {} THEN window
                ELSE [ids |-> missing, phase |-> "sent", items |-> <<>>]

Show(ids, loaded, states, k) ==
  /\ idsList' = ids /\ loadedItems' = loaded /\ itemStates' = states /\ currentIndex' = k
  /\ LoadWindow(ids, loaded, k)

----------------------------------------------------------------------------
(* Requests.                                                                *)

Saving == {"save", "approve", "unapprove"}
About(r) == IF r.item = None THEN Item ELSE {r.item}
At(i) == {r \in requests : i \in About(r)}

NewId(reqs) == CHOOSE n \in 1..Cardinality(reqs) + 1 : \A r \in reqs : r.id # n
Request(kind, i, edit, status, all, reqs) ==
  [id |-> NewId(reqs), kind |-> kind, item |-> i, edit |-> edit, status |-> status,
   all |-> all, phase |-> "sent", seen |-> {}, live |-> TRUE]

\* Nobody waits for the answers of the requests with these ids any more.
Abort(reqs, ids) ==
  {IF r.id \in ids THEN [r EXCEPT !.live = FALSE] ELSE r :
     r \in {q \in reqs : q.id \notin ids \/ q.phase \notin {"done", "failed"}}}

Advance(r, phase, seen) ==
  requests' = (requests \ {r}) \cup
    (IF phase \in {"done", "failed"} /\ ~r.live THEN {}
     ELSE {[r EXCEPT !.phase = phase, !.seen = seen]})

Click == mounted /\ clicks < MaxClicks /\ clicks' = clicks + 1
Fault == faults < MaxFaults /\ faults' = faults + 1

----------------------------------------------------------------------------
(* The handlers.                                                            *)

Client == <<mounted, store, ioState, pending, loader, clicks, typed>>

\* updateQueueItem: what a PATCH does not name it takes from the row it reads,
\* and from defaults when there is none.
ReadRow(r) ==
  /\ r.kind \in Saving /\ r.phase = "sent"
  /\ Advance(r, "read", {rows[i] : i \in DOMAIN rows \cap {r.item}})
  /\ UNCHANGED <<server, Client, faults, exposed>>

\* Mutant: a PATCH without an edit clears it.
MutUpdatedRow(r) ==
  [edit |-> IF r.edit # None THEN r.edit ELSE Empty, status |-> r.status, own |-> \E row \in r.seen : row.own]
UpdatedRow(r) ==
  [edit |-> IF r.edit # None THEN r.edit
            ELSE IF r.seen # {} THEN (CHOOSE row \in r.seen : TRUE).edit ELSE Empty,
   status |-> r.status,
   own |-> \E row \in r.seen : row.own]

InsertRow(r) ==
  /\ r.kind \in Saving /\ r.phase = "read"
  /\ rows' = Put(rows, r.item, UpdatedRow(r))
  /\ Advance(r, "done", {})
  /\ UNCHANGED <<points, discarded, gone, Client, faults, exposed>>

Delete(S) == rows' = Without(rows, S) /\ gone' = gone \cup S

RemoveQueueItem(r) ==
  /\ r.kind = "discard" /\ r.phase = "sent"
  /\ Delete({r.item})
  /\ discarded' = discarded \cup {r.item}
  /\ Advance(r, "done", {})
  /\ UNCHANGED <<points, Client, faults, exposed>>

\* copyQueueItemsToDataset: choose the rows, copy and count them, delete them.
MatchRows(r) ==
  LET matched == {i \in About(r) \cap DOMAIN rows : r.all \/ rows[i].status = 1}
  IN  /\ r.kind = "push" /\ r.phase = "sent"
      /\ Advance(r, IF matched = {} THEN "done" ELSE "read", matched)
      /\ UNCHANGED <<server, Client, faults, exposed>>

\* Mutant: the copies are not counted.
MutCopyRows(r) ==
  LET found == r.seen \cap DOMAIN rows
  IN  /\ r.kind = "push" /\ r.phase = "read"
      /\ \E S \in SUBSET found :
           /\ IF S = found THEN UNCHANGED faults ELSE Fault
           /\ points' = points \cup {[item |-> i, edit |-> rows[i].edit, own |-> rows[i].own] : i \in S}
      /\ Advance(r, "copied", r.seen)
      /\ UNCHANGED <<rows, discarded, gone, Client, exposed>>
CopyRows(r) ==
  LET found == r.seen \cap DOMAIN rows
      Insert(S) ==
        /\ points' = points \cup {[item |-> i, edit |-> rows[i].edit, own |-> rows[i].own] : i \in S}
        /\ Advance(r, IF Cardinality(S) = Cardinality(r.seen) THEN "copied" ELSE "failed", r.seen)
  IN  /\ r.kind = "push" /\ r.phase = "read"
      /\ \/ Insert(found) /\ UNCHANGED faults
         \/ Fault /\ \E S \in SUBSET found : S # found /\ Insert(S)
      /\ UNCHANGED <<rows, discarded, gone, Client, exposed>>

DeleteRows(r) ==
  /\ r.kind = "push" /\ r.phase = "copied"
  /\ Delete(r.seen)
  /\ Advance(r, "done", r.seen)
  /\ UNCHANGED <<points, discarded, Client, faults, exposed>>

\* An error of the server or of the connection.
FailRequest(r) ==
  /\ r.phase # "failed" /\ Fault
  /\ Advance(r, "failed", {})
  /\ exposed' = exposed \cup About(r)
  /\ UNCHANGED <<server, Client>>

----------------------------------------------------------------------------
(* Debounced saves (the save orchestrator).                                 *)

\* An edit to save for i: it replaces the one that waits.
Schedule(i, edit) == timers' = [timers EXCEPT ![i] = edit]

\* Gives up what waits for the items of S and the saves under way.
Cancel(S) ==
  /\ timers' = [i \in Item |-> IF i \in S THEN None ELSE timers[i]]
  /\ aborts' = [i \in Item |-> IF i \in S THEN 0 ELSE aborts[i]]
Cancelled(S) == Abort(requests, {aborts[i] : i \in S})

\* Sends the edit of i in place of the save under way.
Save(reqs, i, edit, id) ==
  LET others == Abort(reqs, {id})
  IN  others \cup {Request("save", i, edit, 0, FALSE, others)}
SaveOf(reqs, i) == (CHOOSE r \in reqs : r.item = i /\ r.kind = "save" /\ r.live).id

\* Two requests for an item at the server, in either order.
Overlap(i, reqs) == \E r \in reqs : i \in About(r) /\ r.phase \notin {"done", "failed"}
Risk(S, reqs) == exposed' = exposed \cup {i \in S : Overlap(i, reqs)}

TimerFires(i) ==
  /\ mounted /\ timers[i] # None
  /\ requests' = Save(requests, i, timers[i], aborts[i])
  /\ timers' = [timers EXCEPT ![i] = None]
  /\ aborts' = [aborts EXCEPT ![i] = SaveOf(requests', i)]
  /\ Risk({i}, requests)
  /\ UNCHANGED <<server, mounted, store, ioState, loader, clicks, faults, typed>>

\* The answer of a save changes nothing on the page, nor does its failure.
SaveSettles(r) ==
  /\ mounted /\ r.kind = "save" /\ r.live /\ r.phase \in {"done", "failed"}
  /\ requests' = requests \ {r}
  /\ aborts' = [aborts EXCEPT ![r.item] = IF @ = r.id THEN 0 ELSE @]
  /\ UNCHANGED <<server, mounted, store, ioState, timers, loader, clicks, faults, typed, exposed>>

----------------------------------------------------------------------------
(* The loader.                                                              *)

\* The server is right about every item without a save to come.
HydrateIndex(list) ==
  LET ids    == [k \in DOMAIN list |-> list[k][1]]
      k      == Clamp(currentIndex, ids)
      states == [i \in ToSet(ids) |->
                   IF HasPending(i) /\ i \in DOMAIN itemStates THEN itemStates[i]
                   ELSE (CHOOSE e \in ToSet(list) : e[1] = i)[2]]
      kept   == Restrict(loadedItems, DOMAIN loadedItems \cap ToSet(ids))
  IN  Show(ids, EvictOutsideWindow(kept, ids, k), states, k)

RefreshIndex ==
  /\ Click /\ index.phase = "none"
  /\ index' = [index EXCEPT !.phase = "sent"]
  /\ UNCHANGED <<server, requests, mounted, store, ioState, pending, cached, window, faults, typed, exposed>>

AnswerIndex ==
  /\ index.phase = "sent"
  /\ index' = [index EXCEPT !.phase = "answered", !.list = GetQueueItemStates]
  /\ UNCHANGED <<server, requests, mounted, store, ioState, pending, cached, window, clicks, faults, typed, exposed>>

NoIndex == [phase |-> "none", list |-> <<>>, awaited |-> FALSE]
Released == IF index.awaited THEN "free" ELSE ioState

\* SWR hands over a list that differs from the one it holds.
IndexArrives ==
  /\ index.phase = "answered"
  /\ IF index.list = cached THEN UNCHANGED <<store, window>> ELSE HydrateIndex(index.list)
  /\ cached' = index.list
  /\ index' = NoIndex
  /\ ioState' = Released
  /\ UNCHANGED <<server, requests, mounted, pending, clicks, faults, typed, exposed>>

IndexFails ==
  /\ index.phase # "none" /\ Fault
  /\ index' = NoIndex
  /\ ioState' = Released
  /\ UNCHANGED <<server, requests, mounted, store, pending, cached, window, clicks, typed, exposed>>

AnswerWindow ==
  /\ window # None /\ window.phase = "sent"
  /\ window' = [window EXCEPT !.phase = "answered",
                  !.items = Restrict(rows, window.ids \cap DOMAIN rows)]
  /\ UNCHANGED <<server, requests, mounted, store, ioState, pending, index, cached, clicks, faults, typed, exposed>>

\* An item with a save to come keeps what the user entered.
HydrateWindow(items) ==
  LET new == Restrict(items, {i \in DOMAIN items : ~HasPending(i)})
  IN  /\ loadedItems' = Over(new, loadedItems)
      /\ itemStates' = Over([i \in DOMAIN new |-> DeriveItemState(new[i])], itemStates)

WindowArrives ==
  /\ window # None /\ window.phase = "answered"
  /\ HydrateWindow(window.items)
  /\ window' = None
  /\ UNCHANGED <<server, requests, mounted, idsList, currentIndex, ioState, pending, index, cached, clicks, faults, typed, exposed>>

WindowFails ==
  /\ window # None /\ Fault
  /\ window' = None
  /\ UNCHANGED <<server, requests, mounted, store, ioState, pending, index, cached, clicks, typed, exposed>>

----------------------------------------------------------------------------
(* The user.                                                                *)

PutCurrent(item) ==
  /\ loadedItems' = [loadedItems EXCEPT ![Current] = item]
  /\ itemStates' = Put(itemStates, Current, DeriveItemState(item))
  /\ Schedule(Current, item.edit)
  /\ typed' = [typed EXCEPT ![Current] = item.edit]

\* setTarget, updateTargetField: writing drops an approval.
SetTarget(e) ==
  /\ Click /\ Current # None
  /\ PutCurrent([loadedItems[Current] EXCEPT !.edit = e, !.status = 0])
  /\ UNCHANGED <<server, requests, mounted, idsList, currentIndex, ioState, aborts, loader, faults, exposed>>

RevertCurrent ==
  /\ Click /\ Current # None /\ ioState = "free"
  /\ LET item == loadedItems[Current]
     IN  /\ Dirty(item)
         /\ PutCurrent([item EXCEPT !.edit = IF item.own THEN Original ELSE Empty, !.status = 0])
  /\ requests' = Cancelled({Current})
  /\ aborts' = [aborts EXCEPT ![Current] = 0]
  /\ UNCHANGED <<server, mounted, idsList, currentIndex, ioState, loader, faults, exposed>>

\* step and setCurrentIndex
SetCurrentIndex(k) ==
  /\ mounted /\ k # currentIndex
  /\ Show(idsList, EvictOutsideWindow(loadedItems, idsList, k), itemStates, k)
  /\ UNCHANGED <<server, requests, mounted, ioState, pending, index, cached, clicks, faults, typed, exposed>>

\* What the four actions with a spinner have in common: saves of the items
\* they are about are given up, and one request is sent.
Act(kind, i, status, all, io) ==
  LET items  == IF i = None THEN Item ELSE {i}
      others == Cancelled(items)
  IN  /\ Click /\ ioState = "free"
      /\ Cancel(items)
      /\ requests' = others \cup {Request(kind, i, None, status, all, others)}
      /\ ioState' = io
      /\ exposed' = exposed \cup {j \in items : timers[j] # None \/ Overlap(j, requests)}
      /\ UNCHANGED <<server, mounted, store, loader, faults, typed>>

ApproveCurrent   == Current # None /\ loadedItems[Current].status = 0 /\ Act("approve", Current, 1, FALSE, "save")
UnapproveCurrent == Current # None /\ loadedItems[Current].status = 1 /\ Act("unapprove", Current, 0, FALSE, "save")
DiscardCurrent   == Current # None /\ Act("discard", Current, 0, FALSE, "remove")
PushCurrent      == Current # None /\ Act("push", Current, 0, loadedItems[Current].status = 0, "push-one")
PushAll(all) ==
  /\ \E i \in DOMAIN itemStates : all \/ itemStates[i] = "approved"
  /\ Act("push", None, 0, all, "push-all")

----------------------------------------------------------------------------
(* The answers to the user's actions.                                       *)

Answered(r, phase) == mounted /\ r.live /\ r.kind # "save" /\ r.phase = phase /\ requests' = requests \ {r}

Approved(r) ==
  LET loaded == IF r.item \in DOMAIN loadedItems
                THEN [loadedItems EXCEPT ![r.item].status = 1] ELSE loadedItems
      k == IF currentIndex < Len(idsList) THEN currentIndex + 1 ELSE currentIndex
  IN  /\ Answered(r, "done") /\ r.kind = "approve"
      /\ Show(idsList, IF k = currentIndex THEN loaded ELSE EvictOutsideWindow(loaded, idsList, k),
              Put(itemStates, r.item, "approved"), k)
      /\ ioState' = "free"
      /\ UNCHANGED <<server, mounted, pending, index, cached, clicks, faults, typed, exposed>>

Unapproved(r) ==
  /\ Answered(r, "done") /\ r.kind = "unapprove"
  /\ IF r.item \in DOMAIN loadedItems
     THEN LET item == [loadedItems[r.item] EXCEPT !.status = 0]
          IN  /\ loadedItems' = [loadedItems EXCEPT ![r.item] = item]
              /\ itemStates' = Put(itemStates, r.item, DeriveItemState(item))
     ELSE UNCHANGED <<loadedItems, itemStates>>
  /\ ioState' = "free"
  /\ UNCHANGED <<server, mounted, idsList, currentIndex, pending, loader, clicks, faults, typed, exposed>>

\* The page keeps showing the item it showed, or the next.
RemoveItemLocal(i) ==
  IF i \notin ToSet(idsList) THEN UNCHANGED <<store, window>>
  ELSE LET at  == CHOOSE j \in DOMAIN idsList : idsList[j] = i
           ids == RemoveAt(idsList, at)
       IN  Show(ids, Without(loadedItems, {i}), Without(itemStates, {i}),
                Clamp(IF at < currentIndex THEN currentIndex - 1 ELSE currentIndex, ids))

Revalidate == index' = [NoIndex EXCEPT !.phase = "sent", !.awaited = TRUE]

\* The spinner stays until the list has been fetched again.
Removed(r) ==
  /\ Answered(r, "done")
  /\ r.kind = "discard" \/ (r.kind = "push" /\ r.item # None /\ r.seen # {})
  /\ RemoveItemLocal(r.item)
  /\ Revalidate
  /\ UNCHANGED <<server, mounted, ioState, pending, cached, clicks, faults, typed, exposed>>

PushedAll(r) ==
  /\ Answered(r, "done") /\ r.kind = "push" /\ r.item = None
  /\ Revalidate
  /\ UNCHANGED <<server, mounted, store, ioState, pending, cached, window, clicks, faults, typed, exposed>>

ActionFails(r) ==
  /\ \/ Answered(r, "failed")
     \/ Answered(r, "done") /\ r.kind = "push" /\ r.item # None /\ r.seen = {}
  /\ ioState' = "free"
  /\ UNCHANGED <<server, mounted, store, pending, loader, clicks, faults, typed, exposed>>

----------------------------------------------------------------------------
(* Leaving the page.                                                        *)

Empties ==
  /\ mounted' = FALSE
  /\ idsList' = <<>> /\ loadedItems' = <<>> /\ itemStates' = <<>> /\ currentIndex' = 1
  /\ ioState' = "free"
  /\ timers' = [i \in Item |-> None] /\ aborts' = [i \in Item |-> 0]
  /\ index' = NoIndex /\ cached' = <<>> /\ window' = None

Unheard(reqs) == Abort(reqs, {r.id : r \in reqs})

\* flushPendingSaves: what waits is sent as the page shows it.  Nothing asks
\* for the id of these saves, which they share.
Leave ==
  LET flushed == {i \in Item : timers[i] # None /\ i \in DOMAIN loadedItems}
      others  == Cancelled(flushed)
  IN  /\ Click
      /\ requests' = Unheard(others \cup {Request("save", i, loadedItems[i].edit, 0, FALSE, others) : i \in flushed})
      /\ exposed' = exposed \cup {i \in Item : timers[i] # None /\ (i \notin flushed \/ Overlap(i, requests))}
      /\ Empties
      /\ UNCHANGED <<server, faults, typed>>

\* Nothing runs when the tab is closed or reloaded.
CloseTab ==
  /\ mounted /\ Fault
  /\ requests' = Unheard(requests)
  /\ exposed' = exposed \cup {i \in Item : timers[i] # None}
  /\ Empties
  /\ UNCHANGED <<server, clicks, typed>>

----------------------------------------------------------------------------
Init ==
  /\ rows = [i \in Item |-> Seeded] /\ points = {} /\ discarded = {} /\ gone = {}
  /\ requests = {}
  /\ mounted = TRUE
  /\ idsList = <<>> /\ loadedItems = <<>> /\ itemStates = <<>> /\ currentIndex = 1 /\ ioState = "free"
  /\ timers = [i \in Item |-> None] /\ aborts = [i \in Item |-> 0]
  /\ index = [NoIndex EXCEPT !.phase = "sent"] /\ cached = <<>> /\ window = None
  /\ clicks = 0 /\ faults = 0
  /\ typed = [i \in Item |-> None] /\ exposed = {}

Handler(r) ==
  \/ ReadRow(r) \/ InsertRow(r) \/ RemoveQueueItem(r)
  \/ MatchRows(r) \/ CopyRows(r) \/ DeleteRows(r) \/ FailRequest(r)
Answer(r) ==
  \/ SaveSettles(r) \/ Approved(r) \/ Unapproved(r) \/ Removed(r) \/ PushedAll(r) \/ ActionFails(r)
Loading ==
  \/ RefreshIndex \/ AnswerIndex \/ IndexArrives \/ IndexFails
  \/ AnswerWindow \/ WindowArrives \/ WindowFails
User ==
  \/ \E e \in Edit : SetTarget(e)
  \/ RevertCurrent
  \/ \E k \in DOMAIN idsList : SetCurrentIndex(k)
  \/ ApproveCurrent \/ UnapproveCurrent \/ DiscardCurrent \/ PushCurrent
  \/ \E all \in BOOLEAN : PushAll(all)
  \/ Leave \/ CloseTab

Next ==
  \/ \E r \in requests : Handler(r) \/ Answer(r)
  \/ \E i \in Item : TimerFires(i)
  \/ Loading
  \/ User

Spec == Init /\ [][Next]_vars

----------------------------------------------------------------------------
(* What must hold.                                                          *)

\* While an edit waits to be saved, or its save is under way, the page shows
\* it: no response for the list or for items, and no move around the queue,
\* rolls it back or evicts it.  (An item deleted on the server is excepted:
\* an edit entered while it was deleted may outlive it.)
\* evictOutsideWindow, hydrateWindow and hydrateIndex ask hasPending.
PendingShown ==
  \A i \in Item \ gone :
    HasPending(i) =>
      /\ i \in DOMAIN loadedItems
      /\ loadedItems[i].edit =
           IF timers[i] # None THEN timers[i] ELSE (CHOOSE r \in requests : r.id = aborts[i]).edit

\* What the user entered last is in the row, and on the page when it shows the
\* item, as soon as nothing is on the way for it: saves, approvals of what is
\* saved, refetches and leaving the page keep it.  exposed names the cases in
\* which the code gives this up.
Quiet(i) == timers[i] = None /\ At(i) = {}
SavedWhenQuiet ==
  \A i \in Item \ (exposed \cup gone) :
    Quiet(i) /\ typed[i] # None =>
      /\ i \in DOMAIN rows /\ rows[i].edit = typed[i]
      /\ i \in DOMAIN loadedItems => loadedItems[i].edit = typed[i]

\* No item leaves the queue with its payload unless the user discarded it or
\* the dataset has it: copyQueueItemsToDataset deletes what it has copied and
\* counted, and updateQueueItem keeps the payload it reads.
PushLosesNothing ==
  \A i \in Item \ discarded :
    \/ i \in DOMAIN rows /\ rows[i].own
    \/ \E p \in points : p.item = i /\ p.own

\* An approved item that the page shows as approved is approved with the
\* target the page shows: "the canonical value already lives in `edit`".
\* It does not hold: approving cancels an edit that waits to be saved.
ApprovedAsShown ==
  \A i \in DOMAIN loadedItems :
    Quiet(i) /\ loadedItems[i].status = 1 /\ i \in DOMAIN rows /\ rows[i].status = 1
      => rows[i].edit = loadedItems[i].edit
=============================================================================
