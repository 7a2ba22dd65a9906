------------------------------ MODULE Billing ------------------------------
(****************************************************************************)
(* How one workspace follows its Stripe subscriptions.  Stripe delivers each *)
(* event at least once and in any order; a request of the webhook handles an *)
(* event in a dozen separate statements, none of them in a transaction, and  *)
(* answers 500 when one throws.  Meanwhile the owner edits the usage limits, *)
(* switches the tier or the data plane add-on, which change the subscription *)
(* at Stripe, and the app server caches the billing info of the workspace.   *)
(*                                                                           *)
(* A tier's two overage prices are one item here, and so are the two Hobby   *)
(* overage warnings and the two warnings at a tier's allowance.              *)
(****************************************************************************)
EXTENDS Naturals, FiniteSets

CONSTANTS
  Subs,          \* subscriptions the workspace may get, one checkout each
  Handlers,      \* requests of the webhook that run at a time
  Readers,       \* calls of the app server that look the billing info up
  None,          \* no subscription, no event, no handler
  MaxSent,       \* bound: changes at Stripe, each of which sends an event
  MaxFaults,     \* bound: requests that fail, swallowed errors, lost prices
  MaxRequests    \* bound: requests of the workspace's owner

ASSUME BillingAssumption ==
  /\ None # "done" /\ {None, "done"} \cap (Subs \cup Handlers) = {}
  /\ MaxSent \in Nat /\ MaxFaults \in Nat /\ MaxRequests \in Nat

PaidTier == {"hobby", "pro"}
Tier     == PaidTier \cup {"free"}
Warning  == PaidTier \cup {"overage"}   \* at a tier's allowance; above Hobby's
Status   == {"none", "incomplete", "active", "past_due", "canceled"}
Subscription == [status : Status, flat : Tier, metered : SUBSET PaidTier, addon : BOOLEAN]
Event    == [id : Nat \ {0}, type : {"created", "updated", "deleted"}, sub : Subs,
             status : Status, flat : Tier, addon : BOOLEAN]
Writing  == {"clear", "limits", "overage", "warnDelete", "warnInsert", "invalidate"}
HandlerPc == Writing \cup {"idle", "read", "tier", "addon", "fresh", "meter", "ack"}
NoWork   == [pc |-> "idle", ev |-> None, cur |-> "free"]
NoRequest == [pc |-> "idle", sub |-> None, to |-> "free", metered |-> {}, addon |-> FALSE]

VARIABLES
  sub,      \* the subscriptions as Stripe holds them
  events,   \* sent by Stripe and not acknowledged
  sent,     \* number of events sent: the id of the newest
  tier, subId, limit, warnings, addonRow,  \* the rows of the workspace
  owners,   \* history: the limit, the overage warning if the owner entered them
  cache,    \* the cached billing info, against the rows
  reading,  \* what a call of the app server has read and not yet cached
  handler,  \* the requests of the webhook
  request,  \* the owner's request under way
  requests, \* owner's requests so far
  faults,
  solo,     \* history: the handler alone with the newest event, "done", or None
  overlap,  \* history: two handlers ran at the same time
  half,     \* history: a handler stopped between its writes
  unpriced  \* history: the tier or an overage price of a creation was not found

rows   == <<tier, subId, limit, warnings, addonRow, owners>>
stripe == <<sub, events, sent>>
copies == <<cache, reading>>
past   == <<overlap, half, unpriced>>
vars   == <<sub, events, sent, tier, subId, limit, warnings, addonRow, cache, reading, handler,
            request, requests, faults, solo, overlap, half, unpriced, owners>>

Init ==
  /\ sub = [s \in Subs |-> [status |-> "none", flat |-> "free", metered |-> {}, addon |-> FALSE]]
  /\ events = {} /\ sent = 0
  /\ tier = "free" /\ subId = None /\ limit = "none" /\ warnings = {} /\ addonRow = FALSE
  /\ owners = {}
  /\ cache = "empty" /\ reading = [r \in Readers |-> "nothing"]
  /\ handler = [h \in Handlers |-> NoWork]
  /\ request = NoRequest /\ requests = 0 /\ faults = 0
  /\ solo = None /\ overlap = FALSE /\ half = FALSE /\ unpriced = FALSE

----------------------------------------------------------------------------
(* The cached billing info.  A copy is fresh while it matches the rows and   *)
(* stale once a row has changed.  It is stray when nobody is bound to drop   *)
(* it: it was read before a change and cached after it, or its removal       *)
(* failed.                                                                   *)

\* A write of the tier or of the limit outdates the copies, the ones still to
\* be cached as well.
Outdate ==
  /\ cache' = IF cache = "fresh" THEN "stale" ELSE cache
  /\ reading' = [r \in Readers |-> IF reading[r] = "fresh" THEN "stale" ELSE reading[r]]

\* cache.remove.
Invalidate == cache' = "empty" /\ UNCHANGED reading

\* The removal fails; the error is logged, or Promise.allSettled drops it.
Keep == cache' = (IF cache = "stale" THEN "stray" ELSE cache) /\ UNCHANGED reading

\* get_workspace_info_for_project_id: on a miss, or when Redis does not answer,
\* the rows are read ...
ReadRows(r) ==
  /\ reading[r] = "nothing" /\ reading' = [reading EXCEPT ![r] = "fresh"]
  /\ \/ cache = "empty" /\ UNCHANGED faults
     \/ faults < MaxFaults /\ faults' = faults + 1
  /\ UNCHANGED <<stripe, rows, cache, handler, request, requests, solo, past>>

\* ... and put into the cache, whatever is there by now, unless Redis fails.
Fill(r) ==
  /\ reading[r] # "nothing" /\ reading' = [reading EXCEPT ![r] = "nothing"]
  /\ cache' \in {cache, IF reading[r] = "stale" THEN "stray" ELSE "fresh"}
  /\ UNCHANGED <<stripe, rows, handler, request, requests, faults, solo, past>>

\* PROJECT_CACHE_TTL_SECONDS.
Expire ==
  /\ cache # "empty" /\ Invalidate
  /\ UNCHANGED <<stripe, rows, handler, request, requests, faults, solo, past>>

----------------------------------------------------------------------------
(* Stripe.                                                                  *)

\* The subscription becomes r at Stripe, which sends an event with a snapshot.
\* Items of a canceled subscription cannot be changed.
Change(s, r, type) ==
  /\ sub[s].status # "canceled"
  /\ sent' = sent + 1
  /\ sub' = [sub EXCEPT ![s] = r]
  /\ events' = events \cup {[id |-> sent + 1, type |-> type, sub |-> s, status |-> r.status,
                             flat |-> r.flat, addon |-> r.addon]}

\* What Stripe does on its own: nothing of the workspace changes.
Customer(s, r, type) ==
  /\ sent < MaxSent /\ Change(s, r, type) /\ solo' = None
  /\ UNCHANGED <<rows, handler, request, requests, faults, copies, past>>

Checkout(s, t, st) ==
  /\ sub[s].status = "none" /\ tier = "free"
  /\ \A o \in Subs : sub[o].status \in {"none", "canceled"}
  /\ Customer(s, [status |-> st, flat |-> t, metered |-> {}, addon |-> FALSE], "created")

Paid(s) ==
  /\ sub[s].status \in {"incomplete", "past_due"}
  /\ Customer(s, [sub[s] EXCEPT !.status = "active"], "updated")

PaymentFails(s) ==
  /\ sub[s].status = "active"
  /\ Customer(s, [sub[s] EXCEPT !.status = "past_due"], "updated")

Cancel(s) ==
  /\ sub[s].status \in {"active", "past_due"}
  /\ Customer(s, [sub[s] EXCEPT !.status = "canceled"], "deleted")

----------------------------------------------------------------------------
(* The webhook.                                                             *)

Goto(h, pc) == handler' = [handler EXCEPT ![h].pc = pc]
Cancels(e)  == e.type = "deleted"
Live(e)     == Cancels(e) \/ e.status = "active"

\* A deliberately wrong variant: no row of the tiers matches a cancellation.
MutTierOf(e) == IF Cancels(e) THEN None ELSE e.flat

\* The item that names the tier: the flat price, neither metered nor an add-on.
TierOf(e) == IF Cancels(e) THEN "free" ELSE e.flat

New(w) == TierOf(w.ev)

\* After the overage prices, if the event created the subscription.
AfterAddon(e)  == IF e.type = "created" THEN "fresh" ELSE "ack"

\* A cancellation returns from inside the loop, before the add-on is looked at.
AfterManage(e) == IF Cancels(e) THEN "ack" ELSE "addon"

\* Wrong: an event of an inactive subscription is ignored altogether.
MutFirstPc(e) == IF Live(e) THEN "read" ELSE "ack"

FirstPc(e) ==
  IF e.status = "past_due" THEN "ack"
  ELSE IF Live(e) THEN "read" ELSE AfterAddon(e)

Receive(h, e) ==
  /\ handler[h].pc = "idle" /\ e \in events
  /\ \A g \in Handlers : handler[g].ev # e
  /\ handler' = [handler EXCEPT ![h] = [pc |-> FirstPc(e), ev |-> e, cur |-> "free"]]
  /\ LET alone == /\ \A g \in Handlers : handler[g].pc = "idle"
                  /\ request = NoRequest
     IN solo' = IF alone /\ e.id = sent /\ FirstPc(e) = "read" THEN h ELSE None
  /\ overlap' = (overlap \/ \E g \in Handlers : handler[g].pc # "idle")
  /\ UNCHANGED <<stripe, rows, request, requests, faults, half, unpriced, copies>>

ReadTier(h) ==
  /\ handler[h].pc = "read"
  /\ handler' = [handler EXCEPT ![h].pc = "tier", ![h].cur = tier]
  /\ UNCHANGED <<stripe, rows, request, requests, faults, solo, copies, past>>

UpdateTier(h) ==
  /\ handler[h].pc = "tier"
  /\ tier' = New(handler[h]) /\ subId' = handler[h].ev.sub
  /\ Outdate /\ Goto(h, "clear")
  /\ UNCHANGED <<stripe, limit, warnings, addonRow, owners, request, requests, faults, solo, past>>

ClearCache(h) ==
  /\ handler[h].pc = "clear" /\ Invalidate /\ Goto(h, "limits")
  /\ UNCHANGED <<stripe, rows, request, requests, faults, solo, past>>

\* Wrong: the defaults are dropped on the way to Pro only.
MutLeavesHobby(w) == w.cur = "hobby" /\ New(w) = "pro"

LeavesHobby(w) == w.cur = "hobby" /\ New(w) # "hobby"

\* Wrong: the default replaces what is there.
MutNewLimit(w) ==
  IF LeavesHobby(w) /\ limit = "default" THEN "none"
  ELSE IF New(w) = "hobby" THEN "default" ELSE limit

\* Both Hobby defaults, today's and the one of old, are the value "default".  It
\* goes with the Hobby tier, whoever entered it; another value stays.
NewLimit(w) ==
  IF LeavesHobby(w) /\ limit = "default" THEN "none"
  ELSE IF New(w) = "hobby" /\ limit = "none" THEN "default" ELSE limit

UpsertLimits(h) ==
  /\ handler[h].pc = "limits"
  /\ limit' = NewLimit(handler[h])
  /\ IF limit' # limit THEN Outdate /\ owners' = owners \ {"limit"} ELSE UNCHANGED <<copies, owners>>
  /\ Goto(h, IF LeavesHobby(handler[h]) THEN "overage"
             ELSE IF New(handler[h]) \in PaidTier THEN "warnDelete" ELSE "invalidate")
  /\ UNCHANGED <<stripe, tier, subId, warnings, addonRow, request, requests, faults, solo, past>>

ClearOverage(h) ==
  /\ handler[h].pc = "overage"
  /\ warnings' = warnings \ {"overage"} /\ owners' = owners \ {"overage"}
  /\ Goto(h, IF New(handler[h]) \in PaidTier THEN "warnDelete" ELSE "invalidate")
  /\ UNCHANGED <<stripe, tier, subId, limit, addonRow, request, requests, faults, solo, copies, past>>

DeleteOldWarnings(h) ==
  /\ handler[h].pc = "warnDelete"
  /\ warnings' = warnings \ {handler[h].cur}
  /\ Goto(h, "warnInsert")
  /\ UNCHANGED <<stripe, tier, subId, limit, addonRow, owners, request, requests, faults, solo, copies, past>>

\* Wrong: the warnings are written only by an event that changes the tier.
MutInsertNewWarnings(h) ==
  /\ handler[h].pc = "warnInsert"
  /\ warnings' = IF handler[h].cur = New(handler[h]) THEN warnings
                 ELSE warnings \cup {New(handler[h])}
                        \cup (IF New(handler[h]) = "hobby" THEN {"overage"} ELSE {})
  /\ Goto(h, "invalidate")
  /\ UNCHANGED <<stripe, tier, subId, limit, addonRow, owners, request, requests, faults, solo, copies, past>>

InsertNewWarnings(h) ==
  /\ handler[h].pc = "warnInsert"
  /\ warnings' = warnings \cup {New(handler[h])}
                   \cup (IF New(handler[h]) = "hobby" THEN {"overage"} ELSE {})
  /\ Goto(h, "invalidate")
  /\ UNCHANGED <<stripe, tier, subId, limit, addonRow, owners, request, requests, faults, solo, copies, past>>

\* Wrong: only the cache of warnings is dropped.
MutInvalidateProjects(h) ==
  /\ handler[h].pc = "invalidate"
  /\ handler' = [handler EXCEPT ![h].pc = AfterManage(handler[h].ev), ![h].cur = "free"]
  /\ UNCHANGED <<stripe, rows, copies, request, requests, faults, solo, past>>

InvalidateProjects(h) ==
  /\ handler[h].pc = "invalidate" /\ Invalidate
  /\ handler' = [handler EXCEPT ![h].pc = AfterManage(handler[h].ev), ![h].cur = "free"]
  /\ UNCHANGED <<stripe, rows, request, requests, faults, solo, past>>

\* A removal fails and the request goes on: Promise.allSettled ...
ClearFails(h) ==
  /\ handler[h].pc = "clear" /\ Keep /\ Goto(h, "limits")
  /\ faults < MaxFaults /\ faults' = faults + 1
  /\ UNCHANGED <<stripe, rows, request, requests, solo, past>>

\* ... and the catch of invalidateProjectCacheForWorkspace.
InvalidateFails(h) ==
  /\ handler[h].pc = "invalidate" /\ Keep
  /\ handler' = [handler EXCEPT ![h].pc = AfterManage(handler[h].ev), ![h].cur = "free"]
  /\ faults < MaxFaults /\ faults' = faults + 1
  /\ UNCHANGED <<stripe, rows, request, requests, solo, past>>

SyncAddon(h) ==
  /\ handler[h].pc = "addon"
  /\ addonRow' = handler[h].ev.addon
  /\ Goto(h, AfterAddon(handler[h].ev))
  /\ UNCHANGED <<stripe, tier, subId, limit, warnings, owners, request, requests, faults, solo, copies, past>>

\* The flat price of the snapshot has no lookup key, or one of no tier.
NoTierEntry(h) ==
  /\ handler[h].pc = "fresh" /\ faults < MaxFaults
  /\ faults' = faults + 1 /\ unpriced' = TRUE /\ Goto(h, "ack")
  /\ UNCHANGED <<stripe, rows, request, requests, solo, overlap, half, copies>>

\* The subscription is fetched again; the tier is the one of the snapshot.
FetchFresh(h) ==
  /\ handler[h].pc = "fresh"
  /\ Goto(h, IF handler[h].ev.flat \in sub[handler[h].ev.sub].metered THEN "ack" ELSE "meter")
  /\ UNCHANGED <<stripe, rows, request, requests, faults, solo, copies, past>>

AddOverage(h) ==
  LET s == handler[h].ev.sub IN
  /\ handler[h].pc = "meter"
  /\ Change(s, [sub[s] EXCEPT !.metered = @ \cup {handler[h].ev.flat}], "updated")
  /\ Goto(h, "ack")
  /\ UNCHANGED <<rows, request, requests, faults, solo, copies, past>>

PricesMissing(h) ==
  /\ handler[h].pc = "meter" /\ faults < MaxFaults
  /\ faults' = faults + 1 /\ unpriced' = TRUE /\ Goto(h, "ack")
  /\ UNCHANGED <<stripe, rows, request, requests, solo, overlap, half, copies>>

Ack(h) ==
  /\ handler[h].pc = "ack"
  /\ events' = events \ {handler[h].ev}
  /\ handler' = [handler EXCEPT ![h] = NoWork]
  /\ solo' = IF solo = h /\ handler[h].ev.id = sent THEN "done" ELSE IF solo = h THEN None ELSE solo
  /\ UNCHANGED <<sub, sent, rows, request, requests, faults, copies, past>>

\* The request ends without a 200 that reaches Stripe, which delivers it again.
Abort(h) ==
  /\ handler' = [handler EXCEPT ![h] = NoWork]
  /\ solo' = None
  /\ half' = (half \/ handler[h].pc \in Writing)
  /\ UNCHANGED <<stripe, rows, request, requests, overlap, unpriced, copies>>

Fail(h) ==
  /\ handler[h].pc # "idle" /\ faults < MaxFaults /\ faults' = faults + 1
  /\ Abort(h)

\* Adding prices to a subscription canceled in the meantime throws.
AddOverageFails(h) ==
  /\ handler[h].pc = "meter" /\ sub[handler[h].ev.sub].status = "canceled"
  /\ Abort(h) /\ UNCHANGED faults

\* An error while limits and warnings are written is logged, not thrown.
SwallowError(h) ==
  /\ handler[h].pc \in {"limits", "overage", "warnDelete", "warnInsert"}
  /\ faults < MaxFaults /\ faults' = faults + 1
  /\ Goto(h, AfterManage(handler[h].ev))
  /\ solo' = None /\ half' = TRUE
  /\ UNCHANGED <<stripe, rows, request, requests, overlap, unpriced, copies>>

----------------------------------------------------------------------------
(* The owner's requests, one at a time.                                     *)

\* A request gets to its next statement, or ends, and disturbs a handler.
Request(r) == request' = r /\ solo' = None

Begin == request = NoRequest /\ requests < MaxRequests /\ requests' = requests + 1

OwnerWrite(newLimit, newWarnings, newOwners) ==
  /\ Begin
  /\ limit' = newLimit /\ warnings' = newWarnings /\ owners' = newOwners /\ Outdate
  /\ Request([NoRequest EXCEPT !.pc = "invalidate"])
  /\ UNCHANGED <<stripe, tier, subId, addonRow, handler, faults, past>>

\* The owner may enter the value of a Hobby default.
SetUsageLimit(value) == tier # "free" /\ OwnerWrite(value, warnings, owners \cup {"limit"})
RemoveUsageLimit     == tier # "free" /\ OwnerWrite("none", warnings, owners \ {"limit"})

\* A warning at the threshold of one that is there is refused.
AddUsageWarning(w) ==
  /\ tier # "free" /\ w \notin warnings
  /\ OwnerWrite(limit, warnings \cup {w}, owners \cup ({w} \cap {"overage"}))

RemoveUsageWarning(w) == w \in warnings /\ OwnerWrite(limit, warnings \ {w}, owners \ {w})

SwitchTier(to) ==
  /\ Begin /\ subId # None /\ tier \in PaidTier \ {to}
  /\ Request([pc |-> "metered", sub |-> subId, to |-> to,
              metered |-> sub[subId].metered, addon |-> sub[subId].addon])
  /\ UNCHANGED <<stripe, rows, copies, handler, faults, past>>

\* Step 1 of two calls: the metered items that were read are swapped.
SwitchMetered ==
  LET s == request.sub IN
  /\ request.pc = "metered"
  /\ Change(s, [sub[s] EXCEPT !.metered = (@ \ request.metered) \cup {request.to}], "updated")
  /\ Request([request EXCEPT !.pc = "flat"])
  /\ UNCHANGED <<rows, copies, handler, requests, faults, past>>

\* Step 2: every item that is not metered goes, the add-on with the old price.
SwitchFlat ==
  LET s == request.sub IN
  /\ request.pc = "flat"
  /\ Change(s, [sub[s] EXCEPT !.flat = request.to, !.addon = @ /\ ~request.addon], "updated")
  /\ Request([NoRequest EXCEPT !.pc = "invalidate"])
  /\ UNCHANGED <<rows, copies, handler, requests, faults, past>>

\* The add-on is sold on Pro: it is bought when the row is missing and given up
\* when the row is there ...
AskAddon ==
  /\ Begin /\ tier = "pro"
  /\ Request([NoRequest EXCEPT !.pc = IF addonRow THEN "remove" ELSE "add"])
  /\ UNCHANGED <<stripe, rows, copies, handler, faults, past>>

\* ... and refused when the subscription at Stripe says otherwise.
AddonAtStripe ==
  /\ request.pc \in {"add", "remove"} /\ subId # None
  /\ sub[subId].addon = (request.pc = "remove")
  /\ Change(subId, [sub[subId] EXCEPT !.addon = ~@], "updated")
  /\ Request([request EXCEPT !.pc = IF @ = "add" THEN "insert" ELSE "delete"])
  /\ UNCHANGED <<rows, copies, handler, requests, faults, past>>

AddonRow ==
  /\ request.pc \in {"insert", "delete"}
  /\ addonRow' = (request.pc = "insert")
  /\ Request([request EXCEPT !.pc = "invalidate"])
  /\ UNCHANGED <<stripe, tier, subId, limit, warnings, owners, copies, handler, requests, faults, past>>

RequestInvalidates ==
  /\ request.pc = "invalidate" /\ request' = NoRequest /\ Invalidate
  /\ UNCHANGED <<stripe, rows, handler, requests, faults, solo, past>>

RequestKeeps ==
  /\ request.pc = "invalidate" /\ request' = NoRequest /\ Keep
  /\ faults < MaxFaults /\ faults' = faults + 1
  /\ UNCHANGED <<stripe, rows, handler, requests, solo, past>>

\* The request dies, or Stripe refuses to change a canceled subscription, or
\* the add-on is (not) there already.
RequestFails ==
  LET refused ==
        \/ request.pc \in {"metered", "flat"} /\ sub[request.sub].status = "canceled"
        \/ /\ request.pc \in {"add", "remove"}
           /\ subId = None \/ sub[subId].status = "canceled" \/ sub[subId].addon = (request.pc = "add")
  IN
  /\ request # NoRequest
  /\ refused \/ faults < MaxFaults
  /\ faults' = IF refused THEN faults ELSE faults + 1
  /\ Request(NoRequest) /\ half' = (half \/ request.pc = "invalidate")
  /\ UNCHANGED <<stripe, rows, copies, handler, requests, overlap, unpriced>>

----------------------------------------------------------------------------
StripeNext ==
  \E s \in Subs : \/ \E t \in PaidTier, st \in {"incomplete", "active"} : Checkout(s, t, st)
                  \/ Paid(s) \/ PaymentFails(s) \/ Cancel(s)

HandlerStep(h) ==
  \/ ReadTier(h) \/ UpdateTier(h) \/ ClearCache(h) \/ UpsertLimits(h) \/ ClearOverage(h)
  \/ DeleteOldWarnings(h) \/ InsertNewWarnings(h) \/ InvalidateProjects(h) \/ SyncAddon(h)
  \/ FetchFresh(h) \/ AddOverage(h) \/ AddOverageFails(h) \/ Ack(h)

HandlerFault(h) ==
  \/ Fail(h) \/ SwallowError(h) \/ NoTierEntry(h) \/ PricesMissing(h)
  \/ ClearFails(h) \/ InvalidateFails(h)

RequestStep ==
  \/ SwitchMetered \/ SwitchFlat \/ AddonAtStripe \/ AddonRow
  \/ RequestInvalidates \/ RequestKeeps \/ RequestFails

OwnerNext ==
  \/ (\E v \in {"default", "custom"} : SetUsageLimit(v)) \/ RemoveUsageLimit
  \/ (\E w \in Warning : AddUsageWarning(w) \/ RemoveUsageWarning(w))
  \/ (\E t \in PaidTier : SwitchTier(t)) \/ AskAddon
  \/ RequestStep

CacheNext == (\E r \in Readers : ReadRows(r) \/ Fill(r)) \/ Expire

Next ==
  \/ StripeNext \/ OwnerNext \/ CacheNext
  \/ \E h \in Handlers : HandlerStep(h) \/ HandlerFault(h) \/ \E e \in events : Receive(h, e)

Spec == Init /\ [][Next]_vars

----------------------------------------------------------------------------
(* Properties.                                                              *)

\* Every variable keeps to the values the code can give it.
TypeOK ==
  /\ sub \in [Subs -> Subscription] /\ events \subseteq Event /\ sent \in Nat
  /\ tier \in Tier /\ subId \in Subs \cup {None}
  /\ limit \in {"none", "default", "custom"}
  /\ warnings \subseteq Warning /\ addonRow \in BOOLEAN
  /\ owners \subseteq {"limit", "overage"}
  /\ cache \in {"empty", "fresh", "stale", "stray"}
  /\ reading \in [Readers -> {"nothing", "fresh", "stale"}]
  /\ handler \in [Handlers -> [pc : HandlerPc, ev : Event \cup {None}, cur : Tier]]
  /\ request \in [pc : {"idle", "metered", "flat", "add", "remove", "insert", "delete", "invalidate"},
                 sub : Subs \cup {None},
                 to : Tier, metered : SUBSET PaidTier, addon : BOOLEAN]
  /\ faults \in Nat /\ requests \in Nat /\ solo \in Handlers \cup {None, "done"}
  /\ {overlap, half, unpriced} \subseteq BOOLEAN

AllIdle == \A h \in Handlers : handler[h].pc = "idle"

\* Whatever went wrong before (events out of order, failed requests, two at a
\* time), one request that handles the newest event undisturbed brings the
\* workspace back in line: tier, subscription, add-on, Hobby cap, warnings, and
\* the cache holds no copy it should have dropped.
NewestHeals ==
  solo = "done" =>
    /\ subId # None
    /\ cache # "stale"
    /\ LET s == sub[subId] IN
       \/ s.status = "canceled" /\ tier = "free"
       \/ /\ s.status = "active" /\ tier = s.flat /\ addonRow = s.addon
          /\ tier \in warnings
          /\ tier = "hobby" => limit # "none" /\ "overage" \in warnings

\* The Hobby cap and the Hobby overage warnings leave with the tier, on a
\* cancellation too, unless requests overlapped or one stopped half way: what is
\* there on another tier the owner entered.
HobbyDefaultsFollow ==
  AllIdle /\ tier # "hobby" /\ ~overlap /\ ~half =>
    /\ limit = "default" => "limit" \in owners
    /\ "overage" \in warnings => "overage" \in owners

\* Cached billing info that no longer matches the rows is about to be dropped
\* by whoever wrote, unless that writer stopped half way.  A stray copy is not:
\* one that was read before a write and cached after it, or whose removal failed.
CacheFollows ==
  cache = "stale" => \/ half \/ request.pc = "invalidate"
                     \/ \E h \in Handlers : handler[h].pc \in Writing

\* Once the event that created a subscription is acknowledged its overage is
\* metered, whatever was retried and whatever tier switch came in between.
MeteredOnceCreated ==
  \A s \in Subs :
    sub[s].status # "none" /\ (\A e \in events : ~(e.type = "created" /\ e.sub = s))
      => sub[s].metered # {} \/ unpriced

\* "Preserve user overrides": no event, retry or fault replaces or removes a
\* limit that has another value than the Hobby defaults.
CustomStays ==
  [][limit = "custom" /\ limit' # "custom" => RemoveUsageLimit \/ SetUsageLimit("default")]_vars

\* "Fetch the subscription fresh from Stripe so the idempotency check sees the
\* current state": the overage of one tier is added once.  The fetched items
\* are current, the tier they are compared with is the snapshot's.
OneTierMetered == \A s \in Subs : Cardinality(sub[s].metered) <= 1
=============================================================================
