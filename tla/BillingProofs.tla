--------------------------- MODULE BillingProofs ---------------------------
(****************************************************************************)
(* Proofs about Billing, for every set of subscriptions and handlers and     *)
(* every value of the bounds.                                                *)
(****************************************************************************)
EXTENDS Billing, TLAPS

Work  == [pc : HandlerPc, ev : Event \cup {None}, cur : Tier]
Asked == [pc : {"idle", "metered", "flat", "add", "remove", "insert", "delete", "invalidate"},
          sub : Subs \cup {None}, to : Tier, metered : SUBSET PaidTier, addon : BOOLEAN]

\* What an event says of its subscription: it was so when the event was sent,
\* and it is so now if no event has been sent since.
Good(e) ==
  /\ e \in Event /\ e.id <= sent
  /\ e.status # "none" /\ sub[e.sub].status # "none"
  /\ e.flat \in PaidTier
  /\ e.type = "created" => e.status \in {"incomplete", "active"}
  /\ e.type = "deleted" <=> e.status = "canceled"
  /\ e.id = sent => sub[e.sub].status = e.status /\ sub[e.sub].flat = e.flat /\ sub[e.sub].addon = e.addon

\* Whoever is at work has an event, or a request, of a subscription there is.
StripeInv ==
  /\ TypeOK
  /\ \A s \in Subs : sub[s].status # "none" => sub[s].flat \in PaidTier
  /\ \A e \in events : Good(e)
  /\ \A h \in Handlers : handler[h].pc # "idle" => Good(handler[h].ev)
  /\ \A h \in Handlers : handler[h].pc \in {"warnDelete", "warnInsert"} => New(handler[h]) \in PaidTier
  /\ subId # None => sub[subId].status # "none"
  /\ request.pc \in {"metered", "flat"} =>
       request.sub \in Subs /\ sub[request.sub].status # "none" /\ request.to \in PaidTier

----------------------------------------------------------------------------
(* Steps.                                                                   *)

\* A handler goes on; the others stay where they are.
LEMMA GotoStep ==
  ASSUME TypeOK, NEW h \in Handlers, NEW pc \in HandlerPc, Goto(h, pc)
  PROVE  /\ handler' \in [Handlers -> Work]
         /\ handler'[h].pc = pc /\ handler'[h].ev = handler[h].ev /\ handler'[h].cur = handler[h].cur
         /\ \A g \in Handlers \ {h} : handler'[g] = handler[g]
<1>1. handler \in [Handlers -> Work]
  BY DEF TypeOK, Work
<1>2. handler' = [handler EXCEPT ![h].pc = pc]
  BY DEF Goto
<1>3. QED
  BY <1>1, <1>2 DEF Work

\* A change at Stripe: the new event says what is so now, and the events before
\* it no longer have the newest id.
LEMMA ChangeStep ==
  ASSUME StripeInv, NEW s \in Subs, NEW r \in Subscription,
         NEW type \in {"created", "updated", "deleted"}, Change(s, r, type),
         r.status # "none", r.flat \in PaidTier,
         type = "created" => r.status \in {"incomplete", "active"},
         type = "deleted" <=> r.status = "canceled"
  PROVE  /\ sub' \in [Subs -> Subscription] /\ events' \subseteq Event /\ sent' \in Nat
         /\ \A x \in Subs : sub[x].status # "none" => sub'[x].status # "none"
         /\ \A x \in Subs : sub'[x].status # "none" => sub'[x].flat \in PaidTier
         /\ \A e \in events' : Good(e)'
         /\ \A e : Good(e) => Good(e)'
<1>0. PICK new : new = [id |-> sent + 1, type |-> type, sub |-> s, status |-> r.status,
                        flat |-> r.flat, addon |-> r.addon]
  OBVIOUS
<1>1. /\ sub \in [Subs -> Subscription] /\ events \subseteq Event /\ sent \in Nat
      /\ sent' = sent + 1 /\ sub' = [sub EXCEPT ![s] = r] /\ events' = events \cup {new}
  BY <1>0 DEF StripeInv, TypeOK, Change
<1>2. new \in Event
  BY <1>0, <1>1 DEF Event, Subscription
<1>3. /\ sub' \in [Subs -> Subscription] /\ sub'[s] = r
      /\ \A x \in Subs \ {s} : sub'[x] = sub[x]
  BY <1>1
<1>4. \A x \in Subs : sub[x].status # "none" => sub'[x].status # "none"
  BY <1>3
<1>5. ASSUME NEW e, Good(e) PROVE Good(e)'
  <2>1. e \in Event /\ e.id \in Nat /\ e.id <= sent /\ e.sub \in Subs
    BY <1>5 DEF Good, Event
  <2>2. e.id <= sent' /\ e.id # sent'
    BY <1>1, <2>1
  <2>3. QED
    BY <1>4, <1>5, <2>1, <2>2 DEF Good
<1>6. Good(new)'
  <2>1. new.id = sent' /\ new.id <= sent'
    BY <1>0, <1>1
  <2>2. QED
    BY <1>0, <1>2, <1>3, <2>1 DEF Good
<1>7. \A x \in Subs : sub'[x].status # "none" => sub'[x].flat \in PaidTier
  BY <1>3 DEF StripeInv
<1>8. \A e \in events' : Good(e)'
  BY <1>1, <1>5, <1>6 DEF StripeInv
<1>9. QED
  BY <1>1, <1>2, <1>3, <1>4, <1>5, <1>7, <1>8

\* A step of the owner's request or of Stripe that changes a subscription.
LEMMA ChangedInv ==
  ASSUME StripeInv, NEW s \in Subs, NEW r \in Subscription,
         NEW type \in {"created", "updated", "deleted"}, Change(s, r, type),
         r.status # "none", r.flat \in PaidTier,
         type = "created" => r.status \in {"incomplete", "active"},
         type = "deleted" <=> r.status = "canceled",
         UNCHANGED subId, TypeOK',
         \A h \in Handlers :
           \/ handler'[h] = handler[h]
           \/ /\ handler[h].pc # "idle" /\ handler'[h].ev = handler[h].ev
              /\ handler'[h].pc \notin {"warnDelete", "warnInsert"},
         request' = request \/ (request'.pc \in {"metered", "flat"} =>
                                  request.pc \in {"metered", "flat"} /\ request'.sub = request.sub /\ request'.to = request.to)
  PROVE  StripeInv'
<1>1. /\ \A x \in Subs : sub[x].status # "none" => sub'[x].status # "none"
      /\ \A x \in Subs : sub'[x].status # "none" => sub'[x].flat \in PaidTier
      /\ \A e \in events' : Good(e)'
      /\ \A e : Good(e) => Good(e)'
  BY ChangeStep
<1>2. \A h \in Handlers :
        /\ (handler[h].pc # "idle" => Good(handler[h].ev))'
        /\ handler'[h].pc \in {"warnDelete", "warnInsert"} => New(handler'[h]) \in PaidTier
  BY <1>1 DEF StripeInv
<1>3. subId' # None => sub'[subId'].status # "none"
  BY <1>1 DEF StripeInv, TypeOK
<1>4. request'.pc \in {"metered", "flat"} =>
        request'.sub \in Subs /\ sub'[request'.sub].status # "none" /\ request'.to \in PaidTier
  BY <1>1 DEF StripeInv
<1>5. QED
  BY <1>1, <1>2, <1>3, <1>4 DEF StripeInv

\* A step that changes no subscription.
LEMMA LocalInv ==
  ASSUME StripeInv, UNCHANGED <<sub, sent>>, events' \subseteq events, TypeOK',
         \A h \in Handlers :
           \/ handler'[h] = handler[h]
           \/ /\ handler'[h].pc # "idle" => Good(handler'[h].ev)
              /\ handler'[h].pc \in {"warnDelete", "warnInsert"} => New(handler'[h]) \in PaidTier,
         subId' = subId \/ (subId' \in Subs /\ sub[subId'].status # "none"),
         request'.pc \in {"metered", "flat"} =>
           request'.sub \in Subs /\ sub[request'.sub].status # "none" /\ request'.to \in PaidTier
  PROVE  StripeInv'
<1>1. \A e : Good(e) => Good(e)'
  BY DEF Good
<1>2. QED
  BY <1>1 DEF StripeInv

----------------------------------------------------------------------------
(* StripeInv is inductive.                                                  *)

\* The rows and their copies, and the rest of the state but Stripe, handlers and
\* the request.
CopiesTyped ==
  /\ cache \in {"empty", "fresh", "stale", "stray"}
  /\ reading \in [Readers -> {"nothing", "fresh", "stale"}]
RowsTyped ==
  /\ tier \in Tier /\ subId \in Subs \cup {None}
  /\ limit \in {"none", "default", "custom"}
  /\ warnings \subseteq Warning /\ addonRow \in BOOLEAN
  /\ owners \subseteq {"limit", "overage"} /\ CopiesTyped
PastTyped ==
  /\ faults \in Nat /\ requests \in Nat /\ solo \in Handlers \cup {None, "done"}
  /\ {overlap, half, unpriced} \subseteq BOOLEAN

\* A handler that goes on without changing a subscription.
LEMMA GotoInv ==
  ASSUME StripeInv, NEW h \in Handlers, NEW pc \in HandlerPc, Goto(h, pc), handler[h].pc # "idle",
         pc \in {"warnDelete", "warnInsert"} => New(handler[h]) \in PaidTier,
         UNCHANGED <<stripe, request>>, RowsTyped', PastTyped',
         subId' = subId \/ subId' = handler[h].ev.sub
  PROVE  StripeInv'
<1>1. /\ handler' \in [Handlers -> Work]
      /\ handler'[h].ev = handler[h].ev /\ handler'[h].pc = pc
      /\ \A g \in Handlers \ {h} : handler'[g] = handler[g]
  BY GotoStep DEF StripeInv
<1>2. TypeOK'
  BY <1>1 DEF StripeInv, TypeOK, RowsTyped, CopiesTyped, PastTyped, stripe, Work
<1>3. Good(handler[h].ev) /\ handler[h].ev \in Event
  BY DEF StripeInv, Good
<1>4. handler'[h].pc \in {"warnDelete", "warnInsert"} => New(handler'[h]) \in PaidTier
  BY <1>1 DEF New
<1>5. subId' = subId \/ (subId' \in Subs /\ sub[subId'].status # "none")
  BY <1>3 DEF Good, Event
<1>6. QED
  BY <1>1, <1>2, <1>3, <1>4, <1>5, LocalInv DEF StripeInv, stripe

\* A handler that stops.
LEMMA AbortInv ==
  ASSUME StripeInv, NEW h \in Handlers, Abort(h), faults' \in Nat
  PROVE  StripeInv'
<1>1. /\ handler' = [handler EXCEPT ![h] = NoWork] /\ handler \in [Handlers -> Work]
      /\ half' \in BOOLEAN
  BY DEF Abort, StripeInv, TypeOK, Work
<1>2. /\ handler' \in [Handlers -> Work] /\ handler'[h].pc = "idle"
      /\ \A g \in Handlers \ {h} : handler'[g] = handler[g]
  BY <1>1 DEF Work, NoWork, HandlerPc, Tier
<1>3. TypeOK'
  BY <1>1, <1>2 DEF Abort, StripeInv, TypeOK, stripe, rows, copies, Work
<1>4. QED
  BY <1>2, <1>3, LocalInv DEF Abort, stripe, rows, StripeInv

\* The end of manageSubscriptionEvent, whether the cache is dropped or kept.
LEMMA AfterInvalidateInv ==
  ASSUME StripeInv, NEW h \in Handlers, handler[h].pc = "invalidate",
         handler' = [handler EXCEPT ![h].pc = AfterManage(handler[h].ev), ![h].cur = "free"],
         UNCHANGED <<stripe, rows, request>>, CopiesTyped', PastTyped'
  PROVE  StripeInv'
<1> DEFINE w == handler[h]
<1>0. TypeOK /\ handler \in [Handlers -> Work] /\ Good(w.ev) /\ AfterManage(w.ev) \in HandlerPc
  BY DEF StripeInv, TypeOK, Work, AfterManage, HandlerPc
<1>2. /\ handler' \in [Handlers -> Work] /\ handler'[h].ev = w.ev
      /\ \A g \in Handlers \ {h} : handler'[g] = handler[g]
  BY <1>0 DEF Work, Tier
<1>3. TypeOK'
  BY <1>0, <1>2 DEF TypeOK, stripe, rows, CopiesTyped, PastTyped, Work
<1>4. Good(handler'[h].ev) /\ handler'[h].pc \notin {"warnDelete", "warnInsert"}
  BY <1>0, <1>2 DEF AfterManage
<1>5. QED
  BY <1>2, <1>3, <1>4, LocalInv DEF stripe, rows, StripeInv

LEMMA HandlerStepInv ==
  ASSUME StripeInv, NEW h \in Handlers, HandlerStep(h)
  PROVE  StripeInv'
<1> DEFINE w == handler[h]
<1>0. /\ TypeOK /\ RowsTyped /\ PastTyped
      /\ w \in Work /\ w.pc \in HandlerPc /\ w.cur \in Tier
      /\ w.pc # "idle" => Good(w.ev) /\ w.ev \in Event /\ New(w) \in Tier
  BY DEF StripeInv, TypeOK, RowsTyped, CopiesTyped, PastTyped, Work, Good, New, TierOf, Tier
<1>1. CASE ReadTier(h)
  <2>1. /\ handler' = [handler EXCEPT ![h].pc = "tier", ![h].cur = tier]
        /\ handler \in [Handlers -> Work] /\ tier \in Tier /\ w.pc # "idle"
    BY <1>0, <1>1 DEF ReadTier, TypeOK, Work
  <2>2. /\ handler' \in [Handlers -> Work] /\ handler'[h].ev = w.ev
        /\ \A g \in Handlers \ {h} : handler'[g] = handler[g]
    BY <2>1 DEF Work, HandlerPc, Writing
  <2>3. TypeOK'
    BY <1>0, <1>1, <2>2 DEF TypeOK, ReadTier, stripe, rows, copies, past, Work
  <2>4. Good(handler'[h].ev) /\ handler'[h].pc \notin {"warnDelete", "warnInsert"}
    BY <1>0, <2>1, <2>2 DEF AfterManage
  <2>5. QED
    BY <1>1, <2>2, <2>3, <2>4, LocalInv DEF ReadTier, stripe, rows, StripeInv
<1>2. CASE UpdateTier(h)
  <2>1. RowsTyped' /\ PastTyped'
    BY <1>0, <1>2 DEF UpdateTier, RowsTyped, CopiesTyped, PastTyped, Outdate, past, Good, Event
  <2>2. QED
    BY <1>2, <2>1, GotoInv DEF UpdateTier, HandlerPc, Writing
<1>3. CASE ClearCache(h)
  <2>1. RowsTyped' /\ PastTyped'
    BY <1>0, <1>3 DEF ClearCache, RowsTyped, CopiesTyped, PastTyped, Invalidate, rows, past
  <2>2. QED
    BY <1>3, <2>1, GotoInv DEF ClearCache, rows, HandlerPc, Writing
<1>4. CASE UpsertLimits(h)
  <2>1. RowsTyped' /\ PastTyped'
    BY <1>0, <1>4 DEF UpsertLimits, NewLimit, RowsTyped, CopiesTyped, PastTyped, Outdate, copies, past
  <2>2. PICK pc \in HandlerPc : Goto(h, pc) /\ (pc \in {"warnDelete", "warnInsert"} => New(w) \in PaidTier)
    BY <1>4 DEF UpsertLimits, HandlerPc, Writing
  <2>3. QED
    BY <1>4, <2>1, <2>2, GotoInv DEF UpsertLimits
<1>5. CASE ClearOverage(h)
  <2>1. RowsTyped' /\ PastTyped'
    BY <1>0, <1>5 DEF ClearOverage, RowsTyped, CopiesTyped, PastTyped, copies, past
  <2>2. PICK pc \in HandlerPc : Goto(h, pc) /\ (pc \in {"warnDelete", "warnInsert"} => New(w) \in PaidTier)
    BY <1>5 DEF ClearOverage, HandlerPc, Writing
  <2>3. QED
    BY <1>5, <2>1, <2>2, GotoInv DEF ClearOverage
<1>6. CASE DeleteOldWarnings(h)
  <2>1. RowsTyped' /\ PastTyped'
    BY <1>0, <1>6 DEF DeleteOldWarnings, RowsTyped, CopiesTyped, PastTyped, copies, past
  <2>2. New(w) \in PaidTier
    BY <1>6 DEF DeleteOldWarnings, StripeInv
  <2>3. QED
    BY <1>6, <2>1, <2>2, GotoInv DEF DeleteOldWarnings, HandlerPc, Writing
<1>7. CASE InsertNewWarnings(h)
  <2>1. New(w) \in Warning
    BY <1>7 DEF InsertNewWarnings, StripeInv, Warning
  <2>2. RowsTyped' /\ PastTyped'
    BY <1>0, <1>7, <2>1 DEF InsertNewWarnings, RowsTyped, CopiesTyped, PastTyped, copies, past, Warning
  <2>3. QED
    BY <1>7, <2>2, GotoInv DEF InsertNewWarnings, HandlerPc, Writing
<1>8. CASE InvalidateProjects(h)
  BY <1>0, <1>8, AfterInvalidateInv DEF InvalidateProjects, Invalidate, RowsTyped, CopiesTyped, PastTyped, past
<1>9. CASE SyncAddon(h)
  <2>1. RowsTyped' /\ PastTyped'
    BY <1>0, <1>9 DEF SyncAddon, RowsTyped, CopiesTyped, PastTyped, copies, past, Event
  <2>2. PICK pc \in HandlerPc \ {"warnDelete", "warnInsert"} : Goto(h, pc)
    BY <1>9 DEF SyncAddon, AfterAddon, HandlerPc
  <2>3. QED
    BY <1>9, <2>1, <2>2, GotoInv DEF SyncAddon
<1>10. CASE FetchFresh(h)
  <2>1. RowsTyped' /\ PastTyped'
    BY <1>0, <1>10 DEF FetchFresh, RowsTyped, CopiesTyped, PastTyped, copies, rows, past
  <2>2. PICK pc \in HandlerPc \ {"warnDelete", "warnInsert"} : Goto(h, pc)
    BY <1>10 DEF FetchFresh, HandlerPc
  <2>3. QED
    BY <1>10, <2>1, <2>2, GotoInv DEF FetchFresh, rows
<1>11. CASE AddOverage(h)
  <2> DEFINE s == w.ev.sub
             r == [sub[s] EXCEPT !.metered = @ \cup {w.ev.flat}]
  <2>1. /\ Change(s, r, "updated") /\ Goto(h, "ack") /\ w.pc # "idle" /\ sub[s].status # "canceled"
        /\ UNCHANGED <<rows, request, requests, faults, solo, copies, past>>
    BY <1>11 DEF AddOverage, Change
  <2>2. s \in Subs /\ sub[s] \in Subscription /\ sub[s].status # "none" /\ w.ev.flat \in PaidTier
    BY <1>0, <2>1 DEF Good, Event, TypeOK
  <2>3. r \in Subscription /\ r.status = sub[s].status /\ r.flat = sub[s].flat
    BY <2>2 DEF Subscription
  <2>4. sub[s].flat \in PaidTier
    BY <2>2 DEF StripeInv
  <2> HIDE DEF r, s
  <2>5. sub' \in [Subs -> Subscription] /\ events' \subseteq Event /\ sent' \in Nat
    BY <2>1, <2>2, <2>3, <2>4, ChangeStep
  <2>6. /\ handler' \in [Handlers -> Work] /\ handler'[h].ev = w.ev /\ handler'[h].pc = "ack"
        /\ \A g \in Handlers \ {h} : handler'[g] = handler[g]
    BY <1>0, <2>1, GotoStep DEF HandlerPc
  <2>7. TypeOK'
    BY <1>0, <2>1, <2>5, <2>6 DEF TypeOK, rows, copies, past, Work
  <2>8. QED
    BY <2>1, <2>2, <2>3, <2>4, <2>6, <2>7, ChangedInv DEF rows
<1>12. CASE AddOverageFails(h)
  BY <1>0, <1>12, AbortInv DEF AddOverageFails, PastTyped
<1>13. CASE Ack(h)
  <2>1. handler' = [handler EXCEPT ![h] = NoWork] /\ handler \in [Handlers -> Work]
    BY <1>0, <1>13 DEF Ack, TypeOK, Work
  <2>2. /\ handler' \in [Handlers -> Work] /\ handler'[h].pc = "idle"
        /\ \A g \in Handlers \ {h} : handler'[g] = handler[g]
    BY <2>1 DEF Work, NoWork, HandlerPc, Tier
  <2>3. TypeOK'
    BY <1>0, <1>13, <2>2 DEF TypeOK, Ack, rows, copies, past, Work
  <2>4. QED
    BY <1>13, <2>2, <2>3, LocalInv DEF Ack, rows, StripeInv
<1>14. QED
  BY <1>1, <1>2, <1>3, <1>4, <1>5, <1>6, <1>7, <1>8, <1>9, <1>10, <1>11, <1>12, <1>13
  DEF HandlerStep

LEMMA HandlerFaultInv ==
  ASSUME StripeInv, NEW h \in Handlers, HandlerFault(h)
  PROVE  StripeInv'
<1>0. TypeOK /\ RowsTyped /\ PastTyped
  BY DEF StripeInv, TypeOK, RowsTyped, CopiesTyped, PastTyped
<1>1. CASE Fail(h)
  <2>1. faults' \in Nat
    BY <1>0, <1>1 DEF Fail, PastTyped
  <2>2. QED
    BY <1>1, <2>1, AbortInv DEF Fail
<1>2. CASE SwallowError(h)
  <2>1. RowsTyped' /\ PastTyped'
    BY <1>0, <1>2 DEF SwallowError, RowsTyped, CopiesTyped, PastTyped, copies, rows
  <2>2. PICK pc \in HandlerPc \ {"warnDelete", "warnInsert"} : Goto(h, pc)
    BY <1>2 DEF SwallowError, AfterManage, HandlerPc
  <2>3. QED
    BY <1>2, <2>1, <2>2, GotoInv DEF SwallowError, rows
<1>3. CASE PricesMissing(h)
  <2>1. RowsTyped' /\ PastTyped'
    BY <1>0, <1>3 DEF PricesMissing, RowsTyped, CopiesTyped, PastTyped, copies, rows
  <2>2. QED
    BY <1>3, <2>1, GotoInv DEF PricesMissing, rows, HandlerPc
<1>4. CASE NoTierEntry(h)
  <2>1. RowsTyped' /\ PastTyped'
    BY <1>0, <1>4 DEF NoTierEntry, RowsTyped, CopiesTyped, PastTyped, copies, rows
  <2>2. QED
    BY <1>4, <2>1, GotoInv DEF NoTierEntry, rows, HandlerPc
<1>5. CASE ClearFails(h)
  <2>1. RowsTyped' /\ PastTyped'
    BY <1>0, <1>5 DEF ClearFails, Keep, RowsTyped, CopiesTyped, PastTyped, rows, past
  <2>2. QED
    BY <1>5, <2>1, GotoInv DEF ClearFails, rows, HandlerPc, Writing
<1>6. CASE InvalidateFails(h)
  <2>1. CopiesTyped' /\ PastTyped'
    BY <1>0, <1>6 DEF InvalidateFails, Keep, RowsTyped, CopiesTyped, PastTyped, past
  <2>2. QED
    BY <1>6, <2>1, AfterInvalidateInv DEF InvalidateFails
<1>7. QED
  BY <1>1, <1>2, <1>3, <1>4, <1>5, <1>6 DEF HandlerFault

LEMMA ReceiveInv ==
  ASSUME StripeInv, NEW h \in Handlers, NEW e \in events, Receive(h, e)
  PROVE  StripeInv'
<1>1. TypeOK /\ Good(e) /\ e \in Event
  BY DEF StripeInv, Good
<1>2. FirstPc(e) \in HandlerPc \ {"warnDelete", "warnInsert"}
  BY DEF FirstPc, AfterAddon, HandlerPc
<1>3. /\ handler' = [handler EXCEPT ![h] = [pc |-> FirstPc(e), ev |-> e, cur |-> "free"]]
      /\ handler \in [Handlers -> Work]
  BY <1>1 DEF Receive, TypeOK, Work
<1>4. /\ handler' \in [Handlers -> Work] /\ handler'[h].ev = e /\ handler'[h].pc = FirstPc(e)
      /\ \A g \in Handlers \ {h} : handler'[g] = handler[g]
  BY <1>1, <1>2, <1>3 DEF Work, Tier
<1>5. solo' \in Handlers \cup {None} /\ overlap' \in BOOLEAN
  BY <1>1 DEF Receive, TypeOK
<1>6. TypeOK'
  BY <1>1, <1>4, <1>5 DEF TypeOK, Receive, stripe, rows, copies, Work
<1>7. QED
  BY <1>1, <1>2, <1>4, <1>6, LocalInv DEF Receive, stripe, rows, StripeInv

\* What Stripe does on its own.
LEMMA StripeNextInv ==
  ASSUME StripeInv, StripeNext
  PROVE  StripeInv'
<1>0. TypeOK /\ sub \in [Subs -> Subscription]
  BY DEF StripeInv, TypeOK
<1>1. PICK s \in Subs, r \in Subscription, type \in {"created", "updated", "deleted"} :
        /\ Customer(s, r, type)
        /\ r.status # "none" /\ r.flat \in PaidTier
        /\ type = "created" => r.status \in {"incomplete", "active"}
        /\ type = "deleted" <=> r.status = "canceled"
  <2> DEFINE Fits(s, r, type) ==
               /\ r \in Subscription /\ r.status # "none" /\ r.flat \in PaidTier
               /\ type = "created" => r.status \in {"incomplete", "active"}
               /\ type = "deleted" <=> r.status = "canceled"
  <2>1. ASSUME NEW s \in Subs, NEW t \in PaidTier, NEW st \in {"incomplete", "active"}
        PROVE  Fits(s, [status |-> st, flat |-> t, metered |-> {}, addon |-> FALSE], "created")
    BY DEF Subscription, Status, Tier
  <2>2. ASSUME NEW s \in Subs, sub[s].status # "none", NEW st \in {"active", "past_due"}
        PROVE  Fits(s, [sub[s] EXCEPT !.status = st], "updated")
    BY <1>0, <2>2 DEF Subscription, Status, StripeInv
  <2>3. ASSUME NEW s \in Subs, sub[s].status # "none"
        PROVE  Fits(s, [sub[s] EXCEPT !.status = "canceled"], "deleted")
    BY <1>0, <2>3 DEF Subscription, Status, StripeInv
  <2> HIDE DEF Fits
  <2>4. \E s \in Subs : \E r, type : Fits(s, r, type) /\ Customer(s, r, type) /\ type \in {"created", "updated", "deleted"}
    BY <2>1, <2>2, <2>3 DEF StripeNext, Checkout, Paid, PaymentFails, Cancel
  <2>5. QED
    BY <2>4 DEF Fits
<1>2. Change(s, r, type) /\ UNCHANGED <<rows, handler, request, requests, faults, copies, past>> /\ solo' = None
  BY <1>1 DEF Customer
<1>3. sub' \in [Subs -> Subscription] /\ events' \subseteq Event /\ sent' \in Nat
  BY <1>1, <1>2, ChangeStep
<1>4. TypeOK'
  BY <1>0, <1>2, <1>3 DEF TypeOK, rows, copies, past
<1>5. QED
  BY <1>1, <1>2, <1>4, ChangedInv DEF rows

\* The owner's edits of the limit and of the warnings.
OwnerEdit ==
  \/ (\E v \in {"default", "custom"} : SetUsageLimit(v)) \/ RemoveUsageLimit
  \/ \E w \in Warning : AddUsageWarning(w) \/ RemoveUsageWarning(w)

\* A request that begins at Stripe writes nothing yet.
LEMMA AskStep ==
  ASSUME (\E t \in PaidTier : SwitchTier(t)) \/ AskAddon
  PROVE  request = NoRequest /\ solo' = None /\ UNCHANGED <<stripe, rows, copies, handler, faults, past>>
<1>1. ASSUME NEW t \in PaidTier, SwitchTier(t)
      PROVE  request = NoRequest /\ solo' = None /\ UNCHANGED <<stripe, rows, copies, handler, faults, past>>
  BY <1>1 DEF SwitchTier, Begin, Request
<1>2. ASSUME AskAddon
      PROVE  request = NoRequest /\ solo' = None /\ UNCHANGED <<stripe, rows, copies, handler, faults, past>>
  BY <1>2 DEF AskAddon, Begin, Request
<1>3. QED
  BY <1>1, <1>2

\* The owner's requests.
LEMMA OwnerNextInv ==
  ASSUME StripeInv, OwnerNext
  PROVE  StripeInv'
<1>0. /\ TypeOK /\ RowsTyped /\ PastTyped /\ sub \in [Subs -> Subscription]
      /\ NoRequest \in Asked /\ request \in Asked
  BY DEF StripeInv, TypeOK, RowsTyped, CopiesTyped, PastTyped, NoRequest, Asked, Tier
<1>1. ASSUME NEW newLimit \in {"none", "default", "custom"}, NEW newWarnings \in SUBSET Warning,
             NEW newOwners \in SUBSET {"limit", "overage"},
             OwnerWrite(newLimit, newWarnings, newOwners)
      PROVE  StripeInv'
  <2>1. /\ request' = [NoRequest EXCEPT !.pc = "invalidate"] /\ request'.pc = "invalidate"
        /\ request' \in Asked
    BY <1>0, <1>1 DEF OwnerWrite, Request, NoRequest, Asked
  <2>2. /\ limit' = newLimit /\ warnings' = newWarnings /\ owners' = newOwners
        /\ CopiesTyped' /\ requests' \in Nat /\ solo' = None
    BY <1>0, <1>1 DEF OwnerWrite, Begin, Request, Outdate, RowsTyped, CopiesTyped, PastTyped
  <2>3. TypeOK'
    BY <1>0, <1>1, <2>1, <2>2 DEF OwnerWrite, TypeOK, CopiesTyped, Asked, stripe, past
  <2>4. QED
    BY <1>1, <2>1, <2>3, LocalInv DEF OwnerWrite, stripe, StripeInv
<1>2. CASE OwnerEdit
  <2>1. /\ limit \in {"none", "default", "custom"} /\ warnings \in SUBSET Warning
        /\ owners \in SUBSET {"limit", "overage"}
    BY <1>0 DEF RowsTyped
  <2>2. ASSUME NEW v \in {"default", "custom"}, SetUsageLimit(v) PROVE StripeInv'
    BY <1>1, <2>1, <2>2 DEF SetUsageLimit
  <2>3. CASE RemoveUsageLimit
    BY <1>1, <2>1, <2>3 DEF RemoveUsageLimit
  <2>4. ASSUME NEW w \in Warning, AddUsageWarning(w) PROVE StripeInv'
    <3>1. warnings \cup {w} \in SUBSET Warning /\ owners \cup ({w} \cap {"overage"}) \in SUBSET {"limit", "overage"}
      BY <2>1
    <3>2. QED
      BY <1>1, <2>1, <2>4, <3>1 DEF AddUsageWarning
  <2>5. ASSUME NEW w \in Warning, RemoveUsageWarning(w) PROVE StripeInv'
    BY <1>1, <2>1, <2>5 DEF RemoveUsageWarning
  <2>6. QED
    BY <1>2, <2>2, <2>3, <2>4, <2>5 DEF OwnerEdit
<1>3. ASSUME NEW t \in PaidTier, SwitchTier(t) PROVE StripeInv'
  <2>1. subId \in Subs /\ sub[subId] \in Subscription /\ sub[subId].status # "none"
    BY <1>0, <1>3 DEF SwitchTier, TypeOK, StripeInv
  <2>2. /\ request' = [pc |-> "metered", sub |-> subId, to |-> t,
                       metered |-> sub[subId].metered, addon |-> sub[subId].addon]
        /\ requests' = requests + 1 /\ solo' = None
        /\ UNCHANGED <<stripe, rows, copies, handler, faults, past>>
    BY <1>3 DEF SwitchTier, Begin, Request
  <2>3. TypeOK'
    BY <1>0, <2>1, <2>2 DEF TypeOK, stripe, rows, copies, past, Subscription, Tier, Asked
  <2>4. QED
    BY <2>1, <2>2, <2>3, LocalInv DEF stripe, rows, StripeInv
<1>4. CASE SwitchMetered
  <2> DEFINE s == request.sub
             r == [sub[s] EXCEPT !.metered = (@ \ request.metered) \cup {request.to}]
  <2>1. /\ request.pc = "metered" /\ Change(s, r, "updated") /\ sub[s].status # "canceled"
        /\ request' = [request EXCEPT !.pc = "flat"] /\ solo' = None
        /\ UNCHANGED <<rows, copies, handler, requests, faults, past>>
    BY <1>4 DEF SwitchMetered, Request, Change
  <2>2. s \in Subs /\ sub[s] \in Subscription /\ sub[s].status # "none" /\ request.to \in PaidTier
        /\ sub[s].flat \in PaidTier
    BY <1>0, <2>1 DEF StripeInv
  <2>3. r \in Subscription /\ r.status = sub[s].status /\ r.flat = sub[s].flat
    BY <2>2 DEF Subscription
  <2>4. /\ request'.pc = "flat" /\ request'.sub = s /\ request'.to = request.to
        /\ request' \in Asked
    BY <1>0, <2>1 DEF Asked
  <2> HIDE DEF r
  <2>5. sub' \in [Subs -> Subscription] /\ events' \subseteq Event /\ sent' \in Nat
    BY <2>1, <2>2, <2>3, ChangeStep
  <2>6. TypeOK'
    BY <1>0, <2>1, <2>4, <2>5 DEF TypeOK, rows, copies, past, Asked
  <2>7. QED
    BY <2>1, <2>2, <2>3, <2>4, <2>6, ChangedInv DEF rows
<1>5. CASE SwitchFlat
  <2> DEFINE s == request.sub
             r == [sub[s] EXCEPT !.flat = request.to, !.addon = @ /\ ~request.addon]
  <2>1. /\ request.pc = "flat" /\ Change(s, r, "updated") /\ sub[s].status # "canceled"
        /\ request' = [NoRequest EXCEPT !.pc = "invalidate"] /\ solo' = None
        /\ UNCHANGED <<rows, copies, handler, requests, faults, past>>
    BY <1>5 DEF SwitchFlat, Request, Change
  <2>2. s \in Subs /\ sub[s] \in Subscription /\ sub[s].status # "none" /\ request.to \in PaidTier
    BY <1>0, <2>1 DEF StripeInv
  <2>3. r \in Subscription /\ r.status = sub[s].status /\ r.flat \in PaidTier
    BY <2>2 DEF Subscription, Tier
  <2>4. /\ request'.pc = "invalidate"
        /\ request' \in Asked
    BY <1>0, <2>1 DEF NoRequest, Asked
  <2> HIDE DEF r
  <2>5. sub' \in [Subs -> Subscription] /\ events' \subseteq Event /\ sent' \in Nat
    BY <2>1, <2>2, <2>3, ChangeStep
  <2>6. TypeOK'
    BY <1>0, <2>1, <2>4, <2>5 DEF TypeOK, rows, copies, past, Asked
  <2>7. QED
    BY <2>1, <2>2, <2>3, <2>4, <2>6, ChangedInv DEF rows
<1>6. CASE AddonAtStripe
  <2> DEFINE r == [sub[subId] EXCEPT !.addon = ~@]
  <2>1. /\ subId # None /\ Change(subId, r, "updated") /\ sub[subId].status # "canceled"
        /\ request' = [request EXCEPT !.pc = IF @ = "add" THEN "insert" ELSE "delete"] /\ solo' = None
        /\ UNCHANGED <<rows, copies, handler, requests, faults, past>>
    BY <1>6 DEF AddonAtStripe, Request, Change
  <2>2. subId \in Subs /\ sub[subId] \in Subscription /\ sub[subId].status # "none" /\ sub[subId].flat \in PaidTier
    BY <1>0, <2>1 DEF StripeInv, TypeOK
  <2>3. r \in Subscription /\ r.status = sub[subId].status /\ r.flat = sub[subId].flat
    BY <2>2 DEF Subscription
  <2>4. request'.pc \in {"delete", "insert"} /\ request' \in Asked
    BY <1>0, <2>1 DEF Asked
  <2> HIDE DEF r
  <2>5. sub' \in [Subs -> Subscription] /\ events' \subseteq Event /\ sent' \in Nat
    BY <2>1, <2>2, <2>3, ChangeStep
  <2>6. TypeOK'
    BY <1>0, <2>1, <2>4, <2>5 DEF TypeOK, rows, copies, past, Asked
  <2>7. QED
    BY <2>1, <2>2, <2>3, <2>4, <2>6, ChangedInv DEF rows
<1>7. CASE AskAddon
  <2>0. PICK pc \in {"add", "remove"} : request' = [NoRequest EXCEPT !.pc = pc]
    BY <1>7 DEF AskAddon, Request
  <2>1. request'.pc \in {"add", "remove"} /\ request' \in Asked
    BY <1>0, <2>0 DEF Asked, NoRequest
  <2>2. requests' \in Nat
    BY <1>0, <1>7 DEF AskAddon, Begin, PastTyped
  <2>3. solo' = None /\ UNCHANGED <<stripe, rows, copies, handler, faults, past>>
    BY <1>7, AskStep
  <2>4. TypeOK'
    BY <1>0, <2>1, <2>2, <2>3 DEF TypeOK, stripe, rows, copies, past, Asked
  <2>5. QED
    BY <2>1, <2>3, <2>4, LocalInv DEF stripe, rows, StripeInv
<1>8. CASE AddonRow
  <2>1. request' = [request EXCEPT !.pc = "invalidate"] /\ request'.pc = "invalidate" /\ request' \in Asked
    BY <1>0, <1>8 DEF AddonRow, Request, Asked
  <2>2. TypeOK'
    BY <1>0, <1>8, <2>1 DEF AddonRow, Request, TypeOK, stripe, copies, past, Asked
  <2>3. QED
    BY <1>8, <2>1, <2>2, LocalInv DEF AddonRow, stripe, StripeInv
<1>9. CASE RequestInvalidates \/ RequestKeeps
  <2>1. /\ request' = NoRequest /\ request'.pc = "idle" /\ CopiesTyped' /\ faults' \in Nat
        /\ UNCHANGED <<stripe, rows, handler, requests, solo, past>>
    BY <1>0, <1>9 DEF RequestInvalidates, RequestKeeps, Invalidate, Keep, NoRequest, RowsTyped, CopiesTyped, PastTyped
  <2>2. TypeOK'
    BY <1>0, <2>1 DEF TypeOK, stripe, rows, past, CopiesTyped, Asked
  <2>3. QED
    BY <2>1, <2>2, LocalInv DEF stripe, rows, StripeInv
<1>10. CASE RequestFails
  <2>1. /\ request' = NoRequest /\ request'.pc = "idle" /\ solo' = None
        /\ faults' \in {faults, faults + 1} /\ half' = (half \/ request.pc = "invalidate")
        /\ UNCHANGED <<stripe, rows, copies, handler, requests, overlap, unpriced>>
    BY <1>10 DEF RequestFails, Request, NoRequest
  <2>2. faults' \in Nat /\ half' \in BOOLEAN
    BY <1>0, <2>1 DEF PastTyped
  <2>3. TypeOK'
    BY <1>0, <2>1, <2>2 DEF TypeOK, stripe, rows, copies, Asked
  <2>4. QED
    BY <2>1, <2>3, LocalInv DEF stripe, rows, StripeInv
<1>11. QED
  BY <1>2, <1>3, <1>4, <1>5, <1>6, <1>7, <1>8, <1>9, <1>10 DEF OwnerNext, OwnerEdit, RequestStep

LEMMA StripeInvariant == Spec => []StripeInv
<1>1. Init => StripeInv
  <2>1. SUFFICES ASSUME Init PROVE StripeInv
    OBVIOUS
  <2>2. TypeOK
    BY <2>1 DEF Init, TypeOK, Subscription, Status, Tier, NoWork, HandlerPc, NoRequest
  <2>3. QED
    BY <2>1, <2>2 DEF Init, StripeInv, NoWork, NoRequest
<1>2. StripeInv /\ [Next]_vars => StripeInv'
  <2> SUFFICES ASSUME StripeInv, [Next]_vars PROVE StripeInv'
    OBVIOUS
  <2>1. CASE CacheNext
    <3>1. CopiesTyped' /\ faults' \in Nat
      BY <2>1 DEF CacheNext, ReadRows, Fill, Expire, Invalidate, StripeInv, TypeOK, CopiesTyped
    <3>2. UNCHANGED <<stripe, rows, handler, request, requests, solo, past>>
      BY <2>1 DEF CacheNext, ReadRows, Fill, Expire
    <3>3. TypeOK'
      BY <3>1, <3>2 DEF StripeInv, TypeOK, stripe, rows, past, CopiesTyped
    <3>4. QED
      BY <3>2, <3>3, LocalInv DEF stripe, rows, StripeInv
  <2>2. CASE UNCHANGED vars
    <3>1. TypeOK'
      BY <2>2 DEF vars, StripeInv, TypeOK
    <3>2. QED
      BY <2>2, <3>1, LocalInv DEF vars, StripeInv
  <2>3. QED
    BY <2>1, <2>2, StripeNextInv, OwnerNextInv, HandlerStepInv, HandlerFaultInv, ReceiveInv DEF Next
<1>3. QED
  BY <1>1, <1>2, PTL DEF Spec

\* Type correctness of the subscriptions, the rows, the handlers of the webhook
\* and the owner's request.
THEOREM TypeCorrect == Spec => []TypeOK
<1>1. StripeInv => TypeOK
  BY DEF StripeInv
<1>2. QED
  BY <1>1, StripeInvariant, PTL
----------------------------------------------------------------------------
(* The limit the owner has set.                                             *)

\* No event, retry or fault replaces or removes a limit that has another value
\* than the Hobby defaults: the webhook writes its default only where there is
\* no limit and deletes, by value, only a default.  One the owner enters at the
\* value of a default may go with the Hobby tier.
THEOREM OwnersLimitStays == Spec => CustomStays
<1>1. ASSUME Next, limit = "custom", limit' # "custom" PROVE RemoveUsageLimit \/ SetUsageLimit("default")
  <2>1. ASSUME NEW h \in Handlers, HandlerStep(h) PROVE FALSE
    BY <1>1, <2>1 DEF HandlerStep, ReadTier, UpdateTier, ClearCache, UpsertLimits, NewLimit, ClearOverage,
      DeleteOldWarnings, InsertNewWarnings, InvalidateProjects, SyncAddon, FetchFresh, AddOverage,
      AddOverageFails, Abort, Ack, rows
  <2>2. ASSUME NEW h \in Handlers, HandlerFault(h) PROVE FALSE
    BY <1>1, <2>2 DEF HandlerFault, Fail, SwallowError, NoTierEntry, PricesMissing, ClearFails, InvalidateFails,
      Abort, rows
  <2>3. ASSUME NEW h \in Handlers, NEW e \in events, Receive(h, e) PROVE FALSE
    BY <1>1, <2>3 DEF Receive, rows
  <2>4. CASE StripeNext
    BY <1>1, <2>4 DEF StripeNext, Checkout, Paid, PaymentFails, Cancel, Customer, rows
  <2>5. CASE OwnerEdit
    BY <1>1, <2>5 DEF OwnerEdit, SetUsageLimit, AddUsageWarning, RemoveUsageWarning, OwnerWrite
  <2>6. CASE (\E t \in PaidTier : SwitchTier(t)) \/ AskAddon
    BY <1>1, <2>6 DEF SwitchTier, AskAddon, rows
  <2>7. CASE RequestStep
    BY <1>1, <2>7 DEF RequestStep, SwitchMetered, SwitchFlat, AddonAtStripe, AddonRow, RequestInvalidates,
      RequestKeeps, RequestFails, rows
  <2>8. CASE CacheNext
    BY <1>1, <2>8 DEF CacheNext, ReadRows, Fill, Expire, rows
  <2>9. QED
    BY <1>1, <2>1, <2>2, <2>3, <2>4, <2>5, <2>6, <2>7, <2>8 DEF Next, OwnerNext, OwnerEdit
<1>2. [Next]_vars => [limit = "custom" /\ limit' # "custom" => RemoveUsageLimit \/ SetUsageLimit("default")]_vars
  BY <1>1
<1>3. QED
  BY <1>2, PTL DEF Spec, CustomStays

----------------------------------------------------------------------------
(* The cached billing info.                                                 *)

\* Where the duty to drop a stale copy goes: it stays with a handler, or with
\* the owner's request, until the copy is dropped or the writer stops.
LEMMA CacheKept ==
  ASSUME CacheFollows, cache' = "stale" => cache = "stale", half => half',
         request.pc = "invalidate" => request'.pc = "invalidate" \/ half',
         \A h \in Handlers : handler[h].pc \in Writing => handler'[h].pc \in Writing \/ half'
  PROVE  CacheFollows'
BY DEF CacheFollows

LEMMA AbortKeepsCache ==
  ASSUME TypeOK, CacheFollows, NEW h \in Handlers, Abort(h)
  PROVE  CacheFollows'
<1>1. \A g \in Handlers \ {h} : handler'[g] = handler[g]
  BY DEF Abort, TypeOK
<1>2. UNCHANGED <<cache, request>> /\ half' = (half \/ handler[h].pc \in Writing)
  BY DEF Abort, copies
<1>3. QED
  BY <1>1, <1>2, CacheKept

LEMMA CacheStep ==
  ASSUME StripeInv, CacheFollows, [Next]_vars
  PROVE  CacheFollows'
<1>0. TypeOK /\ handler \in [Handlers -> Work]
  BY DEF StripeInv, TypeOK, Work
<1>1. ASSUME NEW h \in Handlers, HandlerStep(h) PROVE CacheFollows'
  <2>1. CASE UpdateTier(h) \/ UpsertLimits(h) \/ ClearOverage(h) \/ DeleteOldWarnings(h) \/ InsertNewWarnings(h)
    <3>1. PICK pc \in Writing : Goto(h, pc)
      BY <2>1 DEF UpdateTier, UpsertLimits, ClearOverage, DeleteOldWarnings, InsertNewWarnings, Writing
    <3>2. handler'[h].pc \in Writing
      BY <1>0, <3>1, GotoStep DEF HandlerPc
    <3>3. QED
      BY <3>2 DEF CacheFollows
  <2>2. CASE ClearCache(h) \/ InvalidateProjects(h)
    BY <2>2 DEF ClearCache, InvalidateProjects, Invalidate, CacheFollows
  <2>3. CASE SyncAddon(h) \/ FetchFresh(h) \/ AddOverage(h)
    <3>1. PICK pc \in HandlerPc : Goto(h, pc)
      BY <2>3 DEF SyncAddon, FetchFresh, AddOverage, AfterAddon, HandlerPc
    <3>2. \A g \in Handlers \ {h} : handler'[g] = handler[g]
      BY <1>0, <3>1, GotoStep
    <3>3. handler[h].pc \notin Writing
      BY <2>3 DEF SyncAddon, FetchFresh, AddOverage, Writing
    <3>4. UNCHANGED <<cache, request, half>>
      BY <2>3 DEF SyncAddon, FetchFresh, AddOverage, copies, past
    <3>5. QED
      BY <3>2, <3>3, <3>4, CacheKept
  <2>4. CASE ReadTier(h) \/ Ack(h)
    <3>1. \A g \in Handlers \ {h} : handler'[g] = handler[g]
      BY <1>0, <2>4 DEF ReadTier, Ack
    <3>2. handler[h].pc \notin Writing
      BY <2>4 DEF ReadTier, Ack, Writing
    <3>3. UNCHANGED <<cache, request, half>>
      BY <2>4 DEF ReadTier, Ack, copies, past
    <3>4. QED
      BY <3>1, <3>2, <3>3, CacheKept
  <2>5. CASE AddOverageFails(h)
    BY <1>0, <2>5, AbortKeepsCache DEF AddOverageFails
  <2>6. QED
    BY <1>1, <2>1, <2>2, <2>3, <2>4, <2>5 DEF HandlerStep
<1>2. ASSUME NEW h \in Handlers, HandlerFault(h) PROVE CacheFollows'
  <2>1. CASE Fail(h)
    BY <1>0, <2>1, AbortKeepsCache DEF Fail
  <2>2. CASE SwallowError(h)
    BY <2>2 DEF SwallowError, CacheFollows
  <2>3. CASE NoTierEntry(h) \/ PricesMissing(h)
    <3>1. \A g \in Handlers \ {h} : handler'[g] = handler[g]
      BY <1>0, <2>3, GotoStep DEF NoTierEntry, PricesMissing, HandlerPc
    <3>2. QED
      BY <2>3, <3>1, CacheKept DEF NoTierEntry, PricesMissing, Writing, copies
  <2>4. CASE ClearFails(h) \/ InvalidateFails(h)
    BY <2>4 DEF ClearFails, InvalidateFails, Keep, CacheFollows
  <2>5. QED
    BY <1>2, <2>1, <2>2, <2>3, <2>4 DEF HandlerFault
<1>3. ASSUME NEW h \in Handlers, NEW e \in events, Receive(h, e) PROVE CacheFollows'
  <2>1. \A g \in Handlers \ {h} : handler'[g] = handler[g]
    BY <1>0, <1>3 DEF Receive
  <2>2. QED
    BY <1>3, <2>1, CacheKept DEF Receive, Writing, copies
<1>4. CASE StripeNext
  <2>1. UNCHANGED <<cache, half, request, handler>>
    BY <1>4 DEF StripeNext, Checkout, Paid, PaymentFails, Cancel, Customer, copies, past
  <2>2. QED
    BY <2>1, CacheKept
<1>5. CASE OwnerNext
  <2>1. CASE OwnerEdit
    <3>1. request' = [NoRequest EXCEPT !.pc = "invalidate"]
      BY <2>1 DEF OwnerEdit, SetUsageLimit, RemoveUsageLimit, AddUsageWarning, RemoveUsageWarning, OwnerWrite, Request
    <3>2. QED
      BY <3>1 DEF NoRequest, CacheFollows
  <2>2. CASE (\E t \in PaidTier : SwitchTier(t)) \/ AskAddon
    <3>1. request.pc # "invalidate" /\ UNCHANGED <<cache, half, handler>>
      BY <2>2, AskStep DEF NoRequest, copies, past
    <3>2. QED
      BY <3>1, CacheKept
  <2>3. CASE SwitchMetered \/ SwitchFlat \/ AddonAtStripe \/ AddonRow
    <3>1. request.pc # "invalidate" /\ UNCHANGED <<cache, half, handler>>
      BY <2>3 DEF SwitchMetered, SwitchFlat, AddonAtStripe, AddonRow, copies, past
    <3>2. QED
      BY <3>1, CacheKept
  <2>4. CASE RequestInvalidates \/ RequestKeeps
    BY <2>4 DEF RequestInvalidates, RequestKeeps, Invalidate, Keep, CacheFollows
  <2>5. CASE RequestFails
    BY <2>5, CacheKept DEF RequestFails, copies
  <2>6. QED
    BY <1>5, <2>1, <2>2, <2>3, <2>4, <2>5 DEF OwnerNext, OwnerEdit, RequestStep
<1>6. CASE CacheNext
  <2>1. cache' # "stale" \/ cache' = cache
    BY <1>6 DEF CacheNext, ReadRows, Fill, Expire, Invalidate
  <2>2. UNCHANGED <<request, handler, half>>
    BY <1>6 DEF CacheNext, ReadRows, Fill, Expire, past
  <2>3. QED
    BY <2>1, <2>2, CacheKept
<1>7. CASE UNCHANGED vars
  BY <1>7 DEF vars, CacheFollows
<1>8. QED
  BY <1>1, <1>2, <1>3, <1>4, <1>5, <1>6, <1>7 DEF Next

\* Cached billing info that no longer matches the rows is about to be dropped
\* by whoever wrote them, unless that writer stopped half way
\* (invalidateProjectCache after the writes of the webhook and of the owner).  A
\* copy that was read before a write and cached after it, or one whose removal
\* failed, is not promised anything: it is called stray.
THEOREM CacheIsDropped == Spec => []CacheFollows
<1>1. Init => CacheFollows
  BY DEF Init, CacheFollows
<1>2. QED
  BY <1>1, CacheStep, StripeInvariant, PTL DEF Spec

----------------------------------------------------------------------------
(* Overage prices.                                                          *)

Metered(s)     == sub[s].metered # {} \/ unpriced
MeteredNext(s) == sub'[s].metered # {} \/ unpriced'

\* A request does not acknowledge the event that created a subscription before
\* it has seen, or made, the subscription metered.
MeteredInv ==
  /\ MeteredOnceCreated
  /\ \A h \in Handlers : handler[h].pc = "ack" /\ handler[h].ev.type = "created" => Metered(handler[h].ev.sub)

\* A subscription has overage prices, or its first event is still to be
\* acknowledged; only a request that knows of the prices gets to the answer.
LEMMA MeteredKept ==
  ASSUME StripeInv, MeteredInv,
         \A s \in Subs : sub[s].status # "none" /\ Metered(s) => MeteredNext(s),
         \A s \in Subs : sub'[s].status # "none" =>
           sub[s].status # "none" \/ \E e \in events' : e.type = "created" /\ e.sub = s,
         \A e \in events : e.type = "created" => e \in events' \/ MeteredNext(e.sub),
         \A h \in Handlers :
           \/ handler'[h] = handler[h]
           \/ handler'[h].pc = "ack" /\ handler'[h].ev.type = "created" => MeteredNext(handler'[h].ev.sub)
  PROVE  MeteredInv'
<1>1. ASSUME NEW s \in Subs, sub'[s].status # "none", \A e \in events' : ~(e.type = "created" /\ e.sub = s)
      PROVE  MeteredNext(s)
  BY <1>1 DEF MeteredInv, MeteredOnceCreated, Metered
<1>2. ASSUME NEW h \in Handlers, handler'[h].pc = "ack", handler'[h].ev.type = "created"
      PROVE  MeteredNext(handler'[h].ev.sub)
  <2>1. CASE handler'[h] = handler[h]
    <3>1. /\ handler[h].ev.sub \in Subs /\ sub[handler[h].ev.sub].status # "none"
          /\ Metered(handler[h].ev.sub)
      BY <1>2, <2>1 DEF MeteredInv, StripeInv, Good, Event
    <3>2. QED
      BY <2>1, <3>1
  <2>2. QED
    BY <1>2, <2>1
<1>3. QED
  BY <1>1, <1>2 DEF MeteredInv, MeteredOnceCreated, Metered, MeteredNext

\* A change at Stripe that leaves overage prices, if there were any.
LEMMA MeteredChange ==
  ASSUME StripeInv, MeteredInv, NEW s \in Subs, NEW r, NEW type, Change(s, r, type),
         type = "created" \/ sub[s].status # "none",
         sub[s].status = "none" \/ (sub[s].metered # {} => r.metered # {}),
         unpriced => unpriced',
         \A h \in Handlers :
           \/ handler'[h] = handler[h]
           \/ handler'[h].pc = "ack" /\ handler'[h].ev.type = "created" => MeteredNext(handler'[h].ev.sub)
  PROVE  MeteredInv'
<1>1. PICK new : new = [id |-> sent + 1, type |-> type, sub |-> s, status |-> r.status,
                        flat |-> r.flat, addon |-> r.addon]
  OBVIOUS
<1>2. /\ sub \in [Subs -> Subscription] /\ sub' = [sub EXCEPT ![s] = r]
      /\ events' = events \cup {new} /\ new.type = type /\ new.sub = s
  BY <1>1 DEF StripeInv, TypeOK, Change
<1>3. sub'[s] = r /\ \A x \in Subs \ {s} : sub'[x] = sub[x]
  BY <1>2
<1>4. \A x \in Subs : sub[x].status # "none" /\ Metered(x) => MeteredNext(x)
  BY <1>3 DEF Metered, MeteredNext
<1>5. \A x \in Subs : sub'[x].status # "none" =>
        sub[x].status # "none" \/ \E e \in events' : e.type = "created" /\ e.sub = x
  BY <1>2, <1>3
<1>6. QED
  BY <1>2, <1>4, <1>5, MeteredKept

\* A step that changes no subscription and acknowledges nothing.
LEMMA MeteredLocal ==
  ASSUME StripeInv, MeteredInv, UNCHANGED stripe, unpriced => unpriced',
         \A h \in Handlers :
           \/ handler'[h] = handler[h]
           \/ handler'[h].pc = "ack" /\ handler'[h].ev.type = "created" => MeteredNext(handler'[h].ev.sub)
  PROVE  MeteredInv'
<1>1. \A s \in Subs : Metered(s) => MeteredNext(s)
  BY DEF Metered, MeteredNext, stripe
<1>2. QED
  BY <1>1, MeteredKept DEF stripe

LEMMA MeteredHandler ==
  ASSUME StripeInv, MeteredInv, NEW h \in Handlers, HandlerStep(h) \/ HandlerFault(h)
  PROVE  MeteredInv'
<1> DEFINE w == handler[h]
<1>0. /\ TypeOK /\ handler \in [Handlers -> Work] /\ (w.pc # "idle" => Good(w.ev))
  BY DEF StripeInv, TypeOK, Work
<1>1. ASSUME NEW pc \in HandlerPc, Goto(h, pc), w.pc # "idle", UNCHANGED stripe, unpriced => unpriced',
             pc = "ack" /\ w.ev.type = "created" => MeteredNext(w.ev.sub)
      PROVE  MeteredInv'
  BY <1>0, <1>1, GotoStep, MeteredLocal
<1>2. ASSUME Abort(h) PROVE MeteredInv'
  <2>1. handler'[h].pc = "idle" /\ \A g \in Handlers \ {h} : handler'[g] = handler[g]
    BY <1>0, <1>2 DEF Abort, NoWork
  <2>2. QED
    BY <1>2, <2>1, MeteredLocal DEF Abort
<1>3. CASE ReadTier(h)
  <2>1. handler'[h].pc = "tier" /\ \A g \in Handlers \ {h} : handler'[g] = handler[g]
    BY <1>0, <1>3 DEF ReadTier, Work
  <2>2. QED
    BY <1>3, <2>1, MeteredLocal DEF ReadTier, past
<1>4. CASE UpdateTier(h) \/ ClearCache(h) \/ UpsertLimits(h) \/ ClearOverage(h) \/ DeleteOldWarnings(h) \/ InsertNewWarnings(h)
  <2>1. PICK pc \in HandlerPc \ {"ack"} : Goto(h, pc)
    BY <1>4 DEF UpdateTier, ClearCache, UpsertLimits, ClearOverage, DeleteOldWarnings, InsertNewWarnings,
      HandlerPc, Writing
  <2>2. w.pc # "idle" /\ UNCHANGED <<stripe, unpriced>>
    BY <1>4 DEF UpdateTier, ClearCache, UpsertLimits, ClearOverage, DeleteOldWarnings, InsertNewWarnings, past
  <2>3. QED
    BY <1>1, <2>1, <2>2
<1>5. CASE InvalidateProjects(h) \/ InvalidateFails(h)
  <2>1. /\ handler'[h].pc = AfterManage(w.ev) /\ handler'[h].ev = w.ev
        /\ \A g \in Handlers \ {h} : handler'[g] = handler[g]
    BY <1>0, <1>5 DEF InvalidateProjects, InvalidateFails, Work
  <2>2. handler'[h].pc = "ack" => handler'[h].ev.type # "created"
    BY <2>1 DEF AfterManage, Cancels
  <2>3. QED
    BY <1>5, <2>1, <2>2, MeteredLocal DEF InvalidateProjects, InvalidateFails, past
<1>6. CASE SyncAddon(h)
  <2>1. PICK pc \in HandlerPc : Goto(h, pc) /\ (pc = "ack" => w.ev.type # "created")
    BY <1>6 DEF SyncAddon, AfterAddon, HandlerPc
  <2>2. QED
    BY <1>1, <1>6, <2>1 DEF SyncAddon, past
<1>7. CASE FetchFresh(h)
  <2>1. PICK pc \in HandlerPc : Goto(h, pc) /\ (pc = "ack" => w.ev.flat \in sub[w.ev.sub].metered)
    BY <1>7 DEF FetchFresh, HandlerPc
  <2>2. pc = "ack" => MeteredNext(w.ev.sub)
    BY <1>7, <2>1 DEF FetchFresh, MeteredNext, stripe
  <2>3. QED
    BY <1>1, <1>7, <2>1, <2>2 DEF FetchFresh, past
<1>8. CASE AddOverage(h)
  <2>1. PICK s, r : /\ s = w.ev.sub /\ r = [sub[s] EXCEPT !.metered = @ \cup {w.ev.flat}]
                    /\ Change(s, r, "updated") /\ Goto(h, "ack") /\ w.pc # "idle" /\ UNCHANGED unpriced
    BY <1>8 DEF AddOverage, past
  <2>2. s \in Subs /\ sub[s].status # "none"
    BY <1>0, <2>1 DEF Good, Event
  <2>3. sub[s] \in Subscription /\ w.ev.flat \in r.metered
    BY <1>0, <2>1, <2>2 DEF TypeOK, Subscription
  <2>4. MeteredNext(s)
    BY <1>0, <2>1, <2>2, <2>3 DEF Change, MeteredNext, TypeOK
  <2>5. handler'[h].ev = w.ev /\ \A g \in Handlers \ {h} : handler'[g] = handler[g]
    BY <1>0, <2>1, GotoStep DEF HandlerPc
  <2>6. QED
    BY <2>1, <2>2, <2>3, <2>4, <2>5, MeteredChange
<1>9. CASE AddOverageFails(h) \/ Fail(h)
  BY <1>2, <1>9 DEF AddOverageFails, Fail
<1>10. CASE Ack(h)
  <2>1. handler'[h].pc = "idle" /\ \A g \in Handlers \ {h} : handler'[g] = handler[g]
    BY <1>0, <1>10 DEF Ack, NoWork
  <2>2. /\ UNCHANGED <<sub, unpriced>> /\ events' = events \ {w.ev}
        /\ w.ev.type = "created" => Metered(w.ev.sub)
    BY <1>10 DEF Ack, past, MeteredInv
  <2>3. \A s : Metered(s) => MeteredNext(s)
    BY <2>2 DEF Metered, MeteredNext
  <2>4. QED
    BY <2>1, <2>2, <2>3, MeteredKept
<1>11. CASE SwallowError(h)
  <2>1. PICK pc \in HandlerPc : Goto(h, pc) /\ (pc = "ack" => w.ev.type # "created")
    BY <1>11 DEF SwallowError, AfterManage, Cancels, HandlerPc
  <2>2. QED
    BY <1>1, <1>11, <2>1 DEF SwallowError
<1>12. CASE PricesMissing(h)
  BY <1>1, <1>12 DEF PricesMissing, MeteredNext, HandlerPc
<1>13. CASE NoTierEntry(h)
  BY <1>1, <1>13 DEF NoTierEntry, MeteredNext, HandlerPc
<1>14. CASE ClearFails(h)
  BY <1>1, <1>14 DEF ClearFails, past, HandlerPc, Writing
<1>15. QED
  BY <1>3, <1>4, <1>5, <1>6, <1>7, <1>8, <1>9, <1>10, <1>11, <1>12, <1>13, <1>14 DEF HandlerStep, HandlerFault

LEMMA MeteredReceive ==
  ASSUME StripeInv, MeteredInv, NEW h \in Handlers, NEW e \in events, Receive(h, e)
  PROVE  MeteredInv'
<1>1. handler \in [Handlers -> Work] /\ Good(e)
  BY DEF StripeInv, TypeOK, Work
<1>2. /\ handler'[h].pc = FirstPc(e) /\ handler'[h].ev = e
      /\ \A g \in Handlers \ {h} : handler'[g] = handler[g]
  BY <1>1 DEF Receive
<1>3. FirstPc(e) = "ack" => e.type # "created"
  BY <1>1 DEF FirstPc, AfterAddon, Good
<1>4. QED
  BY <1>2, <1>3, MeteredLocal DEF Receive

LEMMA MeteredStripe ==
  ASSUME StripeInv, MeteredInv, StripeNext
  PROVE  MeteredInv'
<1>0. sub \in [Subs -> Subscription]
  BY DEF StripeInv, TypeOK
<1>1. ASSUME NEW s \in Subs, NEW r, NEW type, Customer(s, r, type),
             type = "created" \/ sub[s].status # "none",
             sub[s].status = "none" \/ r.metered = sub[s].metered
      PROVE  MeteredInv'
  <2>1. Change(s, r, type) /\ UNCHANGED <<handler, unpriced>>
    BY <1>1 DEF Customer, past
  <2>2. QED
    BY <1>1, <2>1, MeteredChange
<1>2. ASSUME NEW s \in Subs, NEW t \in PaidTier, NEW st \in {"incomplete", "active"}, Checkout(s, t, st)
      PROVE  MeteredInv'
  BY <1>1, <1>2 DEF Checkout
<1>3. ASSUME NEW s \in Subs, Paid(s) \/ PaymentFails(s) \/ Cancel(s) PROVE MeteredInv'
  <2>1. PICK st, type : Customer(s, [sub[s] EXCEPT !.status = st], type) /\ sub[s].status # "none"
    BY <1>3 DEF Paid, PaymentFails, Cancel
  <2>2. PICK r : r = [sub[s] EXCEPT !.status = st]
    OBVIOUS
  <2>3. r.metered = sub[s].metered
    BY <1>0, <2>2 DEF Subscription
  <2>4. QED
    BY <1>1, <2>1, <2>2, <2>3
<1>4. QED
  BY <1>2, <1>3 DEF StripeNext

LEMMA MeteredOwner ==
  ASSUME StripeInv, MeteredInv, OwnerNext
  PROVE  MeteredInv'
<1>0. sub \in [Subs -> Subscription] /\ TypeOK
  BY DEF StripeInv, TypeOK
<1>1. ASSUME NEW s \in Subs, NEW r, Change(s, r, "updated"), sub[s].metered # {} => r.metered # {},
             sub[s].status # "none", UNCHANGED <<handler, past>>
      PROVE  MeteredInv'
  BY <1>1, MeteredChange DEF past
<1>2. CASE SwitchMetered
  <2>1. PICK s, r : /\ s = request.sub /\ r = [sub[s] EXCEPT !.metered = (@ \ request.metered) \cup {request.to}]
                    /\ Change(s, r, "updated") /\ UNCHANGED <<handler, past>>
    BY <1>2 DEF SwitchMetered
  <2>2. s \in Subs /\ sub[s].status # "none"
    BY <1>2, <2>1 DEF SwitchMetered, StripeInv
  <2>3. request.to \in r.metered
    BY <1>0, <2>1, <2>2 DEF Subscription
  <2>4. QED
    BY <1>1, <2>1, <2>2, <2>3
<1>3. CASE SwitchFlat
  <2>1. PICK s, r : /\ s = request.sub /\ r = [sub[s] EXCEPT !.flat = request.to, !.addon = @ /\ ~request.addon]
                    /\ Change(s, r, "updated") /\ UNCHANGED <<handler, past>>
    BY <1>3 DEF SwitchFlat
  <2>2. s \in Subs /\ sub[s].status # "none"
    BY <1>3, <2>1 DEF SwitchFlat, StripeInv
  <2>3. r.metered = sub[s].metered
    BY <1>0, <2>1, <2>2 DEF Subscription
  <2>4. QED
    BY <1>1, <2>1, <2>2, <2>3
<1>4. CASE AddonAtStripe
  <2>1. PICK r : /\ r = [sub[subId] EXCEPT !.addon = ~@]
                 /\ Change(subId, r, "updated") /\ UNCHANGED <<handler, past>>
    BY <1>4 DEF AddonAtStripe
  <2>2. subId \in Subs /\ sub[subId].status # "none"
    BY <1>0, <1>4 DEF AddonAtStripe, StripeInv, TypeOK
  <2>3. r.metered = sub[subId].metered
    BY <1>0, <2>1, <2>2 DEF Subscription
  <2>4. QED
    BY <1>1, <2>1, <2>2, <2>3
<1>5. CASE OwnerEdit
  BY <1>5, MeteredLocal DEF OwnerEdit, SetUsageLimit, RemoveUsageLimit, AddUsageWarning, RemoveUsageWarning,
    OwnerWrite, past
<1>6. CASE (\E t \in PaidTier : SwitchTier(t)) \/ AskAddon
  BY <1>6, AskStep, MeteredLocal DEF past
<1>7. CASE AddonRow \/ RequestInvalidates \/ RequestKeeps \/ RequestFails
  <2>1. UNCHANGED <<stripe, handler, unpriced>>
    BY <1>7 DEF AddonRow, RequestInvalidates, RequestKeeps, RequestFails, past
  <2>2. QED
    BY <2>1, MeteredLocal
<1>8. QED
  BY <1>2, <1>3, <1>4, <1>5, <1>6, <1>7 DEF OwnerNext, OwnerEdit, RequestStep

\* Once the event that created a subscription is acknowledged its overage is
\* metered, whatever was retried and whatever tier switch came in between
\* (the check of the fresh subscription before the prices are added).
THEOREM OverageIsMetered == Spec => []MeteredOnceCreated
<1>1. Init => MeteredInv
  BY DEF Init, MeteredInv, MeteredOnceCreated, NoWork
<1>2. StripeInv /\ MeteredInv /\ [Next]_vars => MeteredInv'
  <2> SUFFICES ASSUME StripeInv, MeteredInv, [Next]_vars PROVE MeteredInv'
    OBVIOUS
  <2>1. CASE CacheNext
    BY <2>1, MeteredLocal DEF CacheNext, ReadRows, Fill, Expire, past
  <2>2. CASE UNCHANGED vars
    BY <2>2, MeteredLocal DEF vars, stripe
  <2>3. QED
    BY <2>1, <2>2, MeteredHandler, MeteredReceive, MeteredStripe, MeteredOwner DEF Next
<1>3. MeteredInv => MeteredOnceCreated
  BY DEF MeteredInv
<1>4. QED
  BY <1>1, <1>2, <1>3, StripeInvariant, PTL DEF Spec

----------------------------------------------------------------------------
(* The Hobby defaults.                                                      *)

Fit        == ~overlap /\ ~half
OwnLimit   == limit = "default" => "limit" \in owners
OwnOverage == "overage" \in warnings => "overage" \in owners
Clean      == tier # "hobby" => OwnLimit /\ OwnOverage

\* How far the handler has taken the defaults: between the write of the tier
\* and the writes of limit and warnings it knows whether the tier was Hobby.
HobbyAt(h) ==
  /\ handler[h].pc \in {"read", "tier", "addon", "fresh", "meter", "ack", "warnDelete", "warnInsert", "invalidate"}
       => Clean
  /\ handler[h].pc = "tier" => handler[h].cur = tier
  /\ handler[h].pc \in {"clear", "limits"} =>
       tier = New(handler[h]) /\ (handler[h].cur = "hobby" \/ Clean)
  /\ handler[h].pc = "overage" => tier = New(handler[h]) /\ tier # "hobby" /\ OwnLimit
  /\ handler[h].pc \in {"warnDelete", "warnInsert", "invalidate"} => tier = New(handler[h])

HobbyInv ==
  /\ ~overlap => \A g, h \in Handlers : handler[g].pc # "idle" /\ handler[h].pc # "idle" => g = h
  /\ Fit /\ AllIdle => Clean
  /\ Fit => \A h \in Handlers : HobbyAt(h)

\* A handler that goes on, or ends, is the only one at work.
LEMMA HobbyMove ==
  ASSUME HobbyInv, NEW h \in Handlers, handler[h].pc # "idle",
         \A g \in Handlers \ {h} : handler'[g] = handler[g],
         UNCHANGED overlap, half => half',
         Fit' => HobbyAt(h)' /\ (handler'[h].pc = "idle" => Clean')
  PROVE  HobbyInv'
<1>1. ~overlap => \A g \in Handlers \ {h} : handler'[g].pc = "idle"
  BY DEF HobbyInv
<1>2. (~overlap)' => \A g, k \in Handlers : handler'[g].pc # "idle" /\ handler'[k].pc # "idle" => g = k
  BY <1>1
<1>3. (Fit /\ AllIdle)' => Clean'
  BY DEF AllIdle
<1>4. ASSUME Fit', NEW g \in Handlers \ {h} PROVE HobbyAt(g)'
  BY <1>1, <1>4 DEF Fit, HobbyAt
<1>5. QED
  BY <1>2, <1>3, <1>4 DEF HobbyInv

\* What the owner does to limit and warnings leaves no default but the owner's.
LEMMA HobbyRest ==
  ASSUME HobbyInv, UNCHANGED <<handler, tier, overlap>>, half => half',
         OwnLimit => OwnLimit', OwnOverage => OwnOverage'
  PROVE  HobbyInv'
<1>1. Clean => Clean'
  BY DEF Clean
<1>3. Fit' => Fit
  BY DEF Fit
<1>4. ASSUME NEW h \in Handlers, HobbyAt(h) PROVE HobbyAt(h)'
  BY <1>1, <1>4 DEF HobbyAt, New
<1>5. AllIdle' => AllIdle
  BY DEF AllIdle
<1>6. QED
  BY <1>1, <1>3, <1>4, <1>5 DEF HobbyInv

LEMMA HobbyHandler ==
  ASSUME StripeInv, HobbyInv, NEW h \in Handlers, HandlerStep(h) \/ HandlerFault(h)
  PROVE  HobbyInv'
<1> DEFINE w == handler[h]
<1>0. /\ TypeOK /\ handler \in [Handlers -> Work]
      /\ Fit => HobbyAt(h)
      /\ Fit' /\ UNCHANGED <<overlap, half>> => Fit
  BY DEF StripeInv, TypeOK, Work, HobbyInv, Fit
<1>1. ASSUME NEW pc \in HandlerPc, Goto(h, pc), w.pc # "idle", UNCHANGED <<overlap, half>>,
             Fit /\ handler'[h].pc = pc /\ handler'[h].ev = w.ev /\ handler'[h].cur = w.cur => HobbyAt(h)',
             pc # "idle"
      PROVE  HobbyInv'
  <2>1. /\ handler'[h].pc = pc /\ handler'[h].ev = w.ev /\ handler'[h].cur = w.cur
        /\ \A g \in Handlers \ {h} : handler'[g] = handler[g]
    BY <1>0, <1>1, GotoStep
  <2>2. Fit' => HobbyAt(h)'
    BY <1>0, <1>1, <2>1
  <2>3. QED
    BY <1>1, <2>1, <2>2, HobbyMove
<1>2. CASE ReadTier(h)
  <2>1. /\ handler'[h].pc = "tier" /\ handler'[h].cur = tier
        /\ \A g \in Handlers \ {h} : handler'[g] = handler[g]
    BY <1>0, <1>2 DEF ReadTier, Work
  <2>2. w.pc = "read" /\ UNCHANGED <<tier, limit, warnings, owners, overlap, half>>
    BY <1>2 DEF ReadTier, rows, past
  <2>3. Fit' => HobbyAt(h)'
    BY <1>0, <2>1, <2>2 DEF HobbyAt, Clean, OwnLimit, OwnOverage
  <2>4. QED
    BY <2>1, <2>2, <2>3, HobbyMove
<1>3. CASE UpdateTier(h)
  <2>1. /\ w.pc = "tier" /\ tier' = New(w) /\ Goto(h, "clear") /\ UNCHANGED <<limit, warnings, owners, overlap, half>>
    BY <1>3 DEF UpdateTier, past
  <2>2. ASSUME Fit, handler'[h].pc = "clear", handler'[h].ev = w.ev, handler'[h].cur = w.cur PROVE HobbyAt(h)'
    <3>1. Clean /\ w.cur = tier
      BY <1>0, <2>1, <2>2 DEF HobbyAt
    <3>2. w.cur = "hobby" \/ Clean'
      BY <2>1, <3>1 DEF Clean, OwnLimit, OwnOverage
    <3>3. QED
      BY <2>1, <2>2, <3>2 DEF HobbyAt, New
  <2>3. QED
    BY <1>1, <2>1, <2>2 DEF HandlerPc, Writing
<1>4. CASE ClearCache(h) \/ ClearFails(h)
  <2>1. w.pc = "clear" /\ Goto(h, "limits") /\ UNCHANGED <<tier, limit, warnings, owners, overlap, half>>
    BY <1>4 DEF ClearCache, ClearFails, rows, past
  <2>2. ASSUME Fit, handler'[h].pc = "limits", handler'[h].ev = w.ev, handler'[h].cur = w.cur PROVE HobbyAt(h)'
    BY <1>0, <2>1, <2>2 DEF HobbyAt, New, Clean, OwnLimit, OwnOverage
  <2>3. QED
    BY <1>1, <2>1, <2>2 DEF HandlerPc, Writing
<1>5. CASE UpsertLimits(h)
  <2>1. PICK pc \in {"overage", "warnDelete", "invalidate"} :
          Goto(h, pc) /\ (pc = "overage" <=> LeavesHobby(w))
    BY <1>5 DEF UpsertLimits
  <2>2. /\ w.pc = "limits" /\ limit' = NewLimit(w) /\ UNCHANGED <<tier, warnings, overlap, half>>
        /\ owners' = IF limit' # limit THEN owners \ {"limit"} ELSE owners
    BY <1>5 DEF UpsertLimits, past
  <2>3. ASSUME Fit, handler'[h].pc = pc, handler'[h].ev = w.ev, handler'[h].cur = w.cur PROVE HobbyAt(h)'
    <3>1. tier = New(w) /\ (w.cur = "hobby" \/ Clean)
      BY <1>0, <2>2, <2>3 DEF HobbyAt
    <3>2. CASE LeavesHobby(w)
      BY <2>1, <2>2, <2>3, <3>1, <3>2 DEF HobbyAt, OwnLimit, New, LeavesHobby, NewLimit
    <3>3. CASE ~LeavesHobby(w)
      <4>1. Clean'
        BY <2>2, <3>1, <3>3 DEF Clean, OwnLimit, OwnOverage, LeavesHobby, NewLimit
      <4>2. QED
        BY <2>1, <2>2, <2>3, <3>1, <3>3, <4>1 DEF HobbyAt, New
    <3>4. QED
      BY <3>2, <3>3
  <2>4. QED
    BY <1>1, <2>1, <2>2, <2>3 DEF HandlerPc, Writing
<1>6. CASE ClearOverage(h)
  <2>1. PICK pc \in {"warnDelete", "invalidate"} : Goto(h, pc)
    BY <1>6 DEF ClearOverage
  <2>2. /\ w.pc = "overage" /\ warnings' = warnings \ {"overage"} /\ owners' = owners \ {"overage"}
        /\ UNCHANGED <<tier, limit, overlap, half>>
    BY <1>6 DEF ClearOverage, past
  <2>3. ASSUME Fit, handler'[h].pc = pc, handler'[h].ev = w.ev, handler'[h].cur = w.cur PROVE HobbyAt(h)'
    BY <1>0, <2>1, <2>2, <2>3 DEF HobbyAt, New, Clean, OwnLimit, OwnOverage
  <2>4. QED
    BY <1>1, <2>1, <2>2, <2>3 DEF HandlerPc, Writing
<1>7. CASE DeleteOldWarnings(h)
  <2>1. /\ w.pc = "warnDelete" /\ Goto(h, "warnInsert") /\ warnings' = warnings \ {w.cur}
        /\ UNCHANGED <<tier, limit, owners, overlap, half>>
    BY <1>7 DEF DeleteOldWarnings, past
  <2>2. ASSUME Fit, handler'[h].pc = "warnInsert", handler'[h].ev = w.ev, handler'[h].cur = w.cur PROVE HobbyAt(h)'
    BY <1>0, <2>1, <2>2 DEF HobbyAt, New, Clean, OwnLimit, OwnOverage
  <2>3. QED
    BY <1>1, <2>1, <2>2 DEF HandlerPc, Writing
<1>8. CASE InsertNewWarnings(h)
  <2>1. /\ w.pc = "warnInsert" /\ Goto(h, "invalidate") /\ UNCHANGED <<tier, limit, owners, overlap, half>>
        /\ warnings' = warnings \cup {New(w)} \cup (IF New(w) = "hobby" THEN {"overage"} ELSE {})
    BY <1>8 DEF InsertNewWarnings, past
  <2>2. New(w) \in PaidTier
    BY <2>1 DEF StripeInv
  <2>3. ASSUME Fit, handler'[h].pc = "invalidate", handler'[h].ev = w.ev, handler'[h].cur = w.cur PROVE HobbyAt(h)'
    <3>1. Clean /\ tier = New(w)
      BY <1>0, <2>1, <2>3 DEF HobbyAt
    <3>2. Clean'
      BY <2>1, <2>2, <3>1 DEF Clean, OwnLimit, OwnOverage, PaidTier
    <3>3. QED
      BY <2>1, <2>3, <3>1, <3>2 DEF HobbyAt, New
  <2>4. QED
    BY <1>1, <2>1, <2>3 DEF HandlerPc, Writing
<1>9. CASE InvalidateProjects(h) \/ InvalidateFails(h)
  <2>1. /\ handler'[h].pc = AfterManage(w.ev) /\ AfterManage(w.ev) \in {"ack", "addon"}
        /\ \A g \in Handlers \ {h} : handler'[g] = handler[g]
    BY <1>0, <1>9 DEF InvalidateProjects, InvalidateFails, AfterManage, Work
  <2>2. w.pc = "invalidate" /\ UNCHANGED <<tier, limit, warnings, owners, overlap, half>>
    BY <1>9 DEF InvalidateProjects, InvalidateFails, rows, past
  <2>3. Fit' => HobbyAt(h)'
    BY <1>0, <2>1, <2>2 DEF HobbyAt, Clean, OwnLimit, OwnOverage
  <2>4. QED
    BY <2>1, <2>2, <2>3, HobbyMove
<1>10. CASE SyncAddon(h) \/ FetchFresh(h) \/ AddOverage(h) \/ NoTierEntry(h) \/ PricesMissing(h)
  <2>1. PICK pc \in {"ack", "fresh", "meter"} : Goto(h, pc)
    BY <1>10 DEF SyncAddon, FetchFresh, AddOverage, NoTierEntry, PricesMissing, AfterAddon
  <2>2. w.pc \in {"addon", "fresh", "meter"} /\ UNCHANGED <<tier, limit, warnings, owners, overlap, half>>
    BY <1>10 DEF SyncAddon, FetchFresh, AddOverage, NoTierEntry, PricesMissing, rows, past
  <2>3. ASSUME Fit, handler'[h].pc = pc PROVE HobbyAt(h)'
    BY <1>0, <2>1, <2>2, <2>3 DEF HobbyAt, Clean, OwnLimit, OwnOverage
  <2>4. QED
    BY <1>1, <2>1, <2>2, <2>3 DEF HandlerPc
<1>11. CASE AddOverageFails(h) \/ Fail(h)
  <2>1. /\ w.pc # "idle" /\ half' = (half \/ w.pc \in Writing) /\ UNCHANGED <<tier, limit, warnings, owners, overlap>>
        /\ handler'[h].pc = "idle" /\ \A g \in Handlers \ {h} : handler'[g] = handler[g]
    BY <1>0, <1>11 DEF AddOverageFails, Fail, Abort, NoWork, rows
  <2>2. Fit' => Fit /\ w.pc \notin Writing
    BY <2>1 DEF Fit
  <2>3. w.pc \in HandlerPc
    BY <1>0 DEF Work
  <2>4. Fit' => Clean'
    BY <1>0, <2>1, <2>2, <2>3 DEF HobbyAt, HandlerPc, Clean, OwnLimit, OwnOverage
  <2>5. HobbyAt(h)'
    BY <2>1 DEF HobbyAt
  <2>6. QED
    BY <2>1, <2>4, <2>5, HobbyMove
<1>12. CASE Ack(h)
  <2>1. /\ w.pc = "ack" /\ UNCHANGED <<tier, limit, warnings, owners, overlap, half>>
        /\ handler'[h].pc = "idle" /\ \A g \in Handlers \ {h} : handler'[g] = handler[g]
    BY <1>0, <1>12 DEF Ack, NoWork, rows, past
  <2>2. Fit' => Clean'
    BY <1>0, <2>1 DEF HobbyAt, Clean, OwnLimit, OwnOverage
  <2>3. HobbyAt(h)'
    BY <2>1 DEF HobbyAt
  <2>4. QED
    BY <2>1, <2>2, <2>3, HobbyMove
<1>13. CASE SwallowError(h)
  <2>1. PICK pc \in HandlerPc : Goto(h, pc)
    BY <1>13 DEF SwallowError, AfterManage, HandlerPc
  <2>2. w.pc # "idle" /\ half' /\ UNCHANGED overlap
    BY <1>13 DEF SwallowError
  <2>3. \A g \in Handlers \ {h} : handler'[g] = handler[g]
    BY <1>0, <2>1, GotoStep
  <2>4. QED
    BY <2>2, <2>3, HobbyMove DEF Fit
<1>14. QED
  BY <1>2, <1>3, <1>4, <1>5, <1>6, <1>7, <1>8, <1>9, <1>10, <1>11, <1>12, <1>13
  DEF HandlerStep, HandlerFault

LEMMA HobbyReceive ==
  ASSUME StripeInv, HobbyInv, NEW h \in Handlers, NEW e \in events, Receive(h, e)
  PROVE  HobbyInv'
<1>1. /\ handler' = [handler EXCEPT ![h] = [pc |-> FirstPc(e), ev |-> e, cur |-> "free"]]
      /\ handler \in [Handlers -> Work] /\ handler[h].pc = "idle"
      /\ UNCHANGED <<tier, limit, warnings, owners, half>>
      /\ overlap' = (overlap \/ \E g \in Handlers : handler[g].pc # "idle")
  BY DEF Receive, StripeInv, TypeOK, Work, rows
<1>2. /\ handler'[h].pc = FirstPc(e) /\ FirstPc(e) \in {"ack", "read", "fresh"}
      /\ \A g \in Handlers \ {h} : handler'[g] = handler[g]
  BY <1>1 DEF FirstPc, AfterAddon
<1>3. ~overlap' => \A g \in Handlers : handler[g].pc = "idle"
  BY <1>1
<1>4. Fit' => Clean'
  BY <1>1, <1>3 DEF HobbyInv, Fit, AllIdle, Clean, OwnLimit, OwnOverage
<1>5. ASSUME Fit', NEW g \in Handlers PROVE HobbyAt(g)'
  <2>1. CASE g = h
    BY <1>2, <1>4, <1>5, <2>1 DEF HobbyAt
  <2>2. CASE g # h
    BY <1>2, <1>3, <1>5, <2>2 DEF HobbyAt, Fit
  <2>3. QED
    BY <2>1, <2>2
<1>6. (~overlap)' => \A g, k \in Handlers : handler'[g].pc # "idle" /\ handler'[k].pc # "idle" => g = k
  BY <1>2, <1>3
<1>7. QED
  BY <1>4, <1>5, <1>6 DEF HobbyInv

\* The Hobby cap and the Hobby overage warnings leave with the tier, on a
\* cancellation too, unless requests overlapped or one stopped half way: what is
\* there on another tier the owner entered (manageSubscriptionEvent and the
\* defaults it writes).
THEOREM DefaultsLeave == Spec => []HobbyDefaultsFollow
<1>1. Init => HobbyInv
  BY DEF Init, HobbyInv, HobbyAt, Clean, OwnLimit, OwnOverage, NoWork
<1>2. StripeInv /\ HobbyInv /\ [Next]_vars => HobbyInv'
  <2> SUFFICES ASSUME StripeInv, HobbyInv, [Next]_vars PROVE HobbyInv'
    OBVIOUS
  <2>1. CASE StripeNext
    <3>1. UNCHANGED <<handler, tier, limit, warnings, owners, overlap, half>>
      BY <2>1 DEF StripeNext, Checkout, Paid, PaymentFails, Cancel, Customer, rows, past
    <3>2. QED
      BY <3>1, HobbyRest DEF OwnLimit, OwnOverage
  <2>2. CASE OwnerNext
    <3>1. UNCHANGED <<handler, tier, overlap>> /\ (half => half')
      <4>1. CASE OwnerEdit
        BY <4>1 DEF OwnerEdit, SetUsageLimit, RemoveUsageLimit, AddUsageWarning, RemoveUsageWarning, OwnerWrite, past
      <4>2. CASE (\E t \in PaidTier : SwitchTier(t)) \/ AskAddon
        BY <4>2, AskStep DEF rows, past
      <4>3. CASE RequestStep
        <5>1. CASE RequestFails
          BY <5>1 DEF RequestFails, rows
        <5>2. CASE SwitchMetered \/ SwitchFlat \/ AddonAtStripe
          BY <5>2 DEF SwitchMetered, SwitchFlat, AddonAtStripe, rows, past
        <5>3. CASE AddonRow \/ RequestInvalidates \/ RequestKeeps
          BY <5>3 DEF AddonRow, RequestInvalidates, RequestKeeps, rows, past
        <5>4. QED
          BY <4>3, <5>1, <5>2, <5>3 DEF RequestStep
      <4>4. QED
        BY <2>2, <4>1, <4>2, <4>3 DEF OwnerNext, OwnerEdit
    <3>2. (OwnLimit => OwnLimit') /\ (OwnOverage => OwnOverage')
      <4>1. ASSUME NEW v \in {"default", "custom"}, SetUsageLimit(v)
            PROVE  OwnLimit' /\ (OwnOverage => OwnOverage')
        BY <4>1 DEF SetUsageLimit, OwnerWrite, OwnLimit, OwnOverage
      <4>2. CASE RemoveUsageLimit
        BY <4>2 DEF RemoveUsageLimit, OwnerWrite, OwnLimit, OwnOverage
      <4>3. ASSUME NEW w \in Warning, AddUsageWarning(w) \/ RemoveUsageWarning(w)
            PROVE  (OwnLimit => OwnLimit') /\ (OwnOverage => OwnOverage')
        BY <4>3 DEF AddUsageWarning, RemoveUsageWarning, OwnerWrite, OwnLimit, OwnOverage, Warning, PaidTier
      <4>4. CASE (\E t \in PaidTier : SwitchTier(t)) \/ AskAddon
        BY <4>4, AskStep DEF rows, OwnLimit, OwnOverage
      <4>5. CASE RequestStep
        <5>1. UNCHANGED <<limit, warnings, owners>>
          BY <4>5 DEF RequestStep, SwitchMetered, SwitchFlat, AddonAtStripe, AddonRow, RequestInvalidates,
            RequestKeeps, RequestFails, rows
        <5>2. QED
          BY <5>1 DEF OwnLimit, OwnOverage
      <4>6. QED
        BY <2>2, <4>1, <4>2, <4>3, <4>4, <4>5 DEF OwnerNext
    <3>3. QED
      BY <3>1, <3>2, HobbyRest
  <2>3. CASE CacheNext
    BY <2>3, HobbyRest DEF CacheNext, ReadRows, Fill, Expire, rows, past, OwnLimit, OwnOverage
  <2>4. CASE UNCHANGED vars
    BY <2>4, HobbyRest DEF vars, OwnLimit, OwnOverage
  <2>5. QED
    BY <2>1, <2>2, <2>3, <2>4, HobbyHandler, HobbyReceive DEF Next
<1>3. HobbyInv => HobbyDefaultsFollow
  BY DEF HobbyInv, HobbyDefaultsFollow, Fit, Clean, OwnLimit, OwnOverage
<1>4. QED
  BY <1>1, <1>2, <1>3, StripeInvariant, PTL DEF Spec

----------------------------------------------------------------------------
(* A request alone with the newest event.                                   *)

\* How far the request has brought the workspace in line with its event.
SoloAt(h) ==
  /\ handler[h].pc # "idle" /\ (\A g \in Handlers \ {h} : handler[g].pc = "idle") /\ request = NoRequest
  /\ Live(handler[h].ev)
  /\ handler[h].pc # "ack" => handler[h].ev.id = sent
  /\ handler[h].pc \notin {"read", "tier"} => tier = New(handler[h]) /\ subId = handler[h].ev.sub
  /\ handler[h].pc \notin {"read", "tier", "clear", "limits"} /\ New(handler[h]) = "hobby" => limit # "none"
  /\ handler[h].pc \in {"invalidate", "addon", "fresh", "meter", "ack"} /\ New(handler[h]) \in PaidTier =>
       New(handler[h]) \in warnings /\ (New(handler[h]) = "hobby" => "overage" \in warnings)
  /\ handler[h].pc \in {"addon", "fresh", "meter", "ack"} => cache # "stale"
  /\ handler[h].pc \in {"fresh", "meter", "ack"} /\ ~Cancels(handler[h].ev) => addonRow = handler[h].ev.addon

SoloInv ==
  /\ NewestHeals
  /\ solo = "done" => AllIdle /\ request = NoRequest
  /\ \A h \in Handlers : solo = h => SoloAt(h)

LEMMA SoloEnds ==
  ASSUME solo' = None
  PROVE  SoloInv'
BY BillingAssumption DEF SoloInv, NewestHeals

\* A handler that goes on while one is alone is that one.
LEMMA SoloMove ==
  ASSUME StripeInv, SoloInv, NEW h \in Handlers, handler[h].pc # "idle", UNCHANGED solo,
         solo = h => SoloAt(h)'
  PROVE  SoloInv'
<1>1. solo # "done"
  BY DEF SoloInv, AllIdle
<1>2. \A k \in Handlers \ {h} : solo # k
  BY DEF SoloInv, SoloAt
<1>3. QED
  BY <1>1, <1>2 DEF SoloInv, NewestHeals

\* The answer to the newest event leaves the workspace in line with it.
LEMMA SoloDone ==
  ASSUME StripeInv, NEW h \in Handlers, SoloAt(h), handler[h].pc = "ack", handler[h].ev.id = sent
  PROVE  /\ subId # None /\ cache # "stale"
         /\ \/ sub[subId].status = "canceled" /\ tier = "free"
            \/ /\ sub[subId].status = "active" /\ tier = sub[subId].flat /\ addonRow = sub[subId].addon
               /\ tier \in warnings
               /\ tier = "hobby" => limit # "none" /\ "overage" \in warnings
<1> DEFINE e == handler[h].ev
<1>1. /\ Good(e) /\ e.sub \in Subs
      /\ sub[e.sub].status = e.status /\ sub[e.sub].flat = e.flat /\ sub[e.sub].addon = e.addon
  BY DEF StripeInv, Good, Event
<1>2. subId = e.sub /\ subId # None /\ tier = New(handler[h]) /\ cache # "stale"
  BY <1>1, BillingAssumption DEF SoloAt
<1>3. CASE Cancels(e)
  BY <1>1, <1>2, <1>3 DEF Good, Cancels, New, TierOf
<1>4. CASE ~Cancels(e)
  <2>1. e.status = "active" /\ tier = e.flat /\ New(handler[h]) = e.flat /\ e.flat \in PaidTier
    BY <1>1, <1>2, <1>4 DEF SoloAt, Live, New, TierOf, Good
  <2>2. addonRow = e.addon /\ e.flat \in warnings
        /\ (e.flat = "hobby" => limit # "none" /\ "overage" \in warnings)
    BY <1>4, <2>1 DEF SoloAt
  <2>3. QED
    BY <1>1, <1>2, <2>1, <2>2
<1>5. QED
  BY <1>3, <1>4

LEMMA SoloHandler ==
  ASSUME StripeInv, SoloInv, NEW h \in Handlers, HandlerStep(h) \/ HandlerFault(h)
  PROVE  SoloInv'
<1> DEFINE w == handler[h]
<1>0. /\ TypeOK /\ handler \in [Handlers -> Work]
      /\ solo = h => SoloAt(h)
  BY DEF StripeInv, TypeOK, Work, SoloInv
<1>1. ASSUME NEW pc \in HandlerPc, Goto(h, pc), w.pc # "idle", UNCHANGED solo,
             SoloAt(h) /\ handler'[h].pc = pc /\ handler'[h].ev = w.ev
               /\ (\A g \in Handlers \ {h} : handler'[g].pc = "idle") => SoloAt(h)'
      PROVE  SoloInv'
  <2>1. /\ handler'[h].pc = pc /\ handler'[h].ev = w.ev
        /\ \A g \in Handlers \ {h} : handler'[g] = handler[g]
    BY <1>0, <1>1, GotoStep
  <2>2. SoloAt(h) => \A g \in Handlers \ {h} : handler'[g].pc = "idle"
    BY <2>1 DEF SoloAt
  <2>3. solo = h => SoloAt(h)'
    BY <1>0, <1>1, <2>1, <2>2
  <2>4. QED
    BY <1>1, <2>3, SoloMove
<1>2. CASE ReadTier(h)
  <2>1. /\ w.pc = "read" /\ handler'[h].pc = "tier" /\ handler'[h].ev = w.ev
        /\ \A g \in Handlers \ {h} : handler'[g] = handler[g]
    BY <1>0, <1>2 DEF ReadTier, Work
  <2>2. UNCHANGED <<sent, tier, subId, limit, warnings, addonRow, cache, request, solo>>
    BY <1>2 DEF ReadTier, stripe, rows, copies
  <2>3. SoloAt(h) => SoloAt(h)'
    BY <2>1, <2>2 DEF SoloAt
  <2>4. QED
    BY <1>0, <2>1, <2>2, <2>3, SoloMove
<1>3. CASE UpdateTier(h)
  <2>1. /\ w.pc = "tier" /\ Goto(h, "clear") /\ tier' = New(w) /\ subId' = w.ev.sub
        /\ UNCHANGED <<sent, request, solo>>
    BY <1>3 DEF UpdateTier, stripe
  <2>2. ASSUME SoloAt(h), handler'[h].pc = "clear", handler'[h].ev = w.ev,
               \A g \in Handlers \ {h} : handler'[g].pc = "idle"
        PROVE  SoloAt(h)'
    BY <2>1, <2>2 DEF SoloAt, New
  <2>3. QED
    BY <1>1, <2>1, <2>2 DEF HandlerPc, Writing
<1>4. CASE ClearCache(h) \/ ClearFails(h)
  <2>1. w.pc = "clear" /\ Goto(h, "limits") /\ UNCHANGED <<sent, tier, subId, request, solo>>
    BY <1>4 DEF ClearCache, ClearFails, stripe, rows
  <2>2. ASSUME SoloAt(h), handler'[h].pc = "limits", handler'[h].ev = w.ev,
               \A g \in Handlers \ {h} : handler'[g].pc = "idle"
        PROVE  SoloAt(h)'
    BY <2>1, <2>2 DEF SoloAt, New
  <2>3. QED
    BY <1>1, <2>1, <2>2 DEF HandlerPc, Writing
<1>5. CASE UpsertLimits(h)
  <2>1. PICK pc \in {"overage", "warnDelete", "invalidate"} :
          Goto(h, pc) /\ (pc = "invalidate" => New(w) \notin PaidTier)
    BY <1>5 DEF UpsertLimits
  <2>2. /\ w.pc = "limits" /\ UNCHANGED <<sent, tier, subId, request, solo>>
        /\ New(w) = "hobby" => limit' # "none"
    BY <1>5 DEF UpsertLimits, NewLimit, LeavesHobby, stripe
  <2>3. ASSUME SoloAt(h), handler'[h].pc = pc, handler'[h].ev = w.ev,
               \A g \in Handlers \ {h} : handler'[g].pc = "idle"
        PROVE  SoloAt(h)'
    <3>1. New(w) = (New(handler[h]))'
      BY <2>3 DEF New
    <3>2. tier = New(w) /\ subId = w.ev.sub /\ request = NoRequest /\ Live(w.ev) /\ w.ev.id = sent
      BY <2>2, <2>3 DEF SoloAt
    <3>3. QED
      BY <2>1, <2>2, <2>3, <3>1, <3>2 DEF SoloAt
  <2>4. QED
    BY <1>1, <2>1, <2>2, <2>3 DEF HandlerPc, Writing
<1>6. CASE ClearOverage(h)
  <2>1. PICK pc \in {"warnDelete", "invalidate"} :
          Goto(h, pc) /\ (pc = "invalidate" => New(w) \notin PaidTier)
    BY <1>6 DEF ClearOverage
  <2>2. w.pc = "overage" /\ UNCHANGED <<sent, tier, subId, limit, request, solo>>
    BY <1>6 DEF ClearOverage, stripe
  <2>3. ASSUME SoloAt(h), handler'[h].pc = pc, handler'[h].ev = w.ev,
               \A g \in Handlers \ {h} : handler'[g].pc = "idle"
        PROVE  SoloAt(h)'
    BY <2>1, <2>2, <2>3 DEF SoloAt, New
  <2>4. QED
    BY <1>1, <2>1, <2>2, <2>3 DEF HandlerPc, Writing
<1>7. CASE DeleteOldWarnings(h)
  <2>1. w.pc = "warnDelete" /\ Goto(h, "warnInsert") /\ UNCHANGED <<sent, tier, subId, limit, request, solo>>
    BY <1>7 DEF DeleteOldWarnings, stripe
  <2>2. ASSUME SoloAt(h), handler'[h].pc = "warnInsert", handler'[h].ev = w.ev,
               \A g \in Handlers \ {h} : handler'[g].pc = "idle"
        PROVE  SoloAt(h)'
    BY <2>1, <2>2 DEF SoloAt, New
  <2>3. QED
    BY <1>1, <2>1, <2>2 DEF HandlerPc, Writing
<1>8. CASE InsertNewWarnings(h)
  <2>1. /\ w.pc = "warnInsert" /\ Goto(h, "invalidate") /\ UNCHANGED <<sent, tier, subId, limit, request, solo>>
        /\ New(w) \in warnings' /\ (New(w) = "hobby" => "overage" \in warnings')
    BY <1>8 DEF InsertNewWarnings, stripe
  <2>2. ASSUME SoloAt(h), handler'[h].pc = "invalidate", handler'[h].ev = w.ev,
               \A g \in Handlers \ {h} : handler'[g].pc = "idle"
        PROVE  SoloAt(h)'
    BY <2>1, <2>2 DEF SoloAt, New
  <2>3. QED
    BY <1>1, <2>1, <2>2 DEF HandlerPc, Writing
<1>9. CASE InvalidateProjects(h) \/ InvalidateFails(h)
  <2>1. /\ handler'[h].pc = (IF Cancels(w.ev) THEN "ack" ELSE "addon") /\ handler'[h].ev = w.ev
        /\ \A g \in Handlers \ {h} : handler'[g] = handler[g]
    BY <1>0, <1>9 DEF InvalidateProjects, InvalidateFails, AfterManage, Work
  <2>2. /\ w.pc = "invalidate" /\ cache' # "stale"
        /\ UNCHANGED <<sent, tier, subId, limit, warnings, addonRow, request, solo>>
    BY <1>9 DEF InvalidateProjects, InvalidateFails, Invalidate, Keep, stripe, rows
  <2>3. SoloAt(h) => SoloAt(h)'
    BY <2>1, <2>2 DEF SoloAt, New
  <2>4. QED
    BY <1>0, <2>1, <2>2, <2>3, SoloMove
<1>10. CASE SyncAddon(h)
  <2>1. PICK pc \in {"fresh", "ack"} : Goto(h, pc)
    BY <1>10 DEF SyncAddon, AfterAddon
  <2>2. /\ w.pc = "addon" /\ addonRow' = w.ev.addon
        /\ UNCHANGED <<sent, tier, subId, limit, warnings, cache, request, solo>>
    BY <1>10 DEF SyncAddon, stripe, copies
  <2>3. ASSUME SoloAt(h), handler'[h].pc = pc, handler'[h].ev = w.ev,
               \A g \in Handlers \ {h} : handler'[g].pc = "idle"
        PROVE  SoloAt(h)'
    BY <2>1, <2>2, <2>3 DEF SoloAt, New
  <2>4. QED
    BY <1>1, <2>1, <2>2, <2>3 DEF HandlerPc
<1>11. CASE FetchFresh(h) \/ AddOverage(h) \/ NoTierEntry(h) \/ PricesMissing(h)
  <2>1. PICK pc \in {"meter", "ack"} : Goto(h, pc) /\ (pc = "ack" \/ sent' = sent)
    BY <1>11 DEF FetchFresh, AddOverage, NoTierEntry, PricesMissing, stripe
  <2>2. /\ w.pc \in {"fresh", "meter"}
        /\ UNCHANGED <<tier, subId, limit, warnings, addonRow, cache, request, solo>>
    BY <1>11 DEF FetchFresh, AddOverage, NoTierEntry, PricesMissing, rows, copies
  <2>3. ASSUME SoloAt(h), handler'[h].pc = pc, handler'[h].ev = w.ev,
               \A g \in Handlers \ {h} : handler'[g].pc = "idle"
        PROVE  SoloAt(h)'
    BY <2>1, <2>2, <2>3 DEF SoloAt, New
  <2>4. QED
    BY <1>1, <2>1, <2>2, <2>3 DEF HandlerPc
<1>12. CASE AddOverageFails(h) \/ Fail(h) \/ SwallowError(h)
  BY <1>12, SoloEnds DEF AddOverageFails, Fail, SwallowError, Abort
<1>13. CASE Ack(h)
  <2>1. /\ w.pc = "ack" /\ UNCHANGED <<sub, tier, subId, limit, warnings, addonRow, cache, request>>
        /\ solo' = IF solo = h /\ w.ev.id = sent THEN "done" ELSE IF solo = h THEN None ELSE solo
        /\ handler'[h].pc = "idle" /\ \A g \in Handlers \ {h} : handler'[g] = handler[g]
    BY <1>0, <1>13 DEF Ack, NoWork, rows, copies
  <2>2. CASE solo = h /\ w.ev.id = sent
    <3>1. solo' = "done" /\ SoloAt(h)
      BY <1>0, <2>1, <2>2
    <3>2. AllIdle' /\ request' = NoRequest
      BY <2>1, <3>1 DEF AllIdle, SoloAt
    <3>3. NewestHeals'
      BY <2>1, <2>2, <3>1, SoloDone DEF NewestHeals
    <3>4. \A k \in Handlers : solo' # k
      BY <3>1, BillingAssumption
    <3>5. QED
      BY <3>2, <3>3, <3>4 DEF SoloInv
  <2>3. CASE solo = h /\ w.ev.id # sent
    BY <2>1, <2>3, SoloEnds
  <2>4. CASE solo # h
    BY <2>1, <2>4, SoloMove
  <2>5. QED
    BY <2>2, <2>3, <2>4
<1>14. QED
  BY <1>2, <1>3, <1>4, <1>5, <1>6, <1>7, <1>8, <1>9, <1>10, <1>11, <1>12, <1>13
  DEF HandlerStep, HandlerFault

LEMMA SoloReceive ==
  ASSUME StripeInv, NEW h \in Handlers, NEW e \in events, Receive(h, e)
  PROVE  SoloInv'
<1>1. /\ handler \in [Handlers -> Work] /\ handler'[h].pc = FirstPc(e) /\ handler'[h].ev = e
      /\ \A g \in Handlers \ {h} : handler'[g] = handler[g]
  BY DEF Receive, StripeInv, TypeOK, Work
<1>2. CASE solo' = None
  BY <1>2, SoloEnds
<1>3. CASE solo' = h
  <2>1. /\ \A g \in Handlers : handler[g].pc = "idle"
        /\ request = NoRequest /\ e.id = sent /\ FirstPc(e) = "read"
    BY <1>3, BillingAssumption DEF Receive
  <2>2. Live(e)
    BY <2>1 DEF FirstPc, AfterAddon
  <2>3. UNCHANGED <<sent, request>>
    BY DEF Receive, stripe
  <2>4. SoloAt(h)'
    BY <1>1, <2>1, <2>2, <2>3 DEF SoloAt
  <2>5. solo' # "done"
    BY <1>3, BillingAssumption
  <2>6. QED
    BY <1>3, <2>4, <2>5 DEF SoloInv, NewestHeals
<1>4. QED
  BY <1>2, <1>3 DEF Receive

\* Whatever went wrong before (events out of order, failed requests, two at a
\* time), one request that handles the newest event undisturbed brings the
\* workspace back in line (handleSubscriptionChange and what it calls).  A stray
\* copy of the rows may still be cached.
THEOREM NewestEventHeals == Spec => []NewestHeals
<1>1. Init => SoloInv
  BY BillingAssumption DEF Init, SoloInv, NewestHeals
<1>2. StripeInv /\ SoloInv /\ [Next]_vars => SoloInv'
  <2> SUFFICES ASSUME StripeInv, SoloInv, [Next]_vars PROVE SoloInv'
    OBVIOUS
  <2>1. CASE StripeNext
    <3>1. solo' = None
      BY <2>1 DEF StripeNext, Checkout, Paid, PaymentFails, Cancel, Customer
    <3>2. QED
      BY <3>1, SoloEnds
  <2>2. CASE OwnerNext
    <3>1. solo' = None
      <4>1. CASE OwnerEdit
        BY <4>1 DEF OwnerEdit, SetUsageLimit, RemoveUsageLimit, AddUsageWarning, RemoveUsageWarning, OwnerWrite, Request
      <4>2. CASE (\E t \in PaidTier : SwitchTier(t)) \/ AskAddon
        BY <4>2, AskStep
      <4>3. CASE SwitchMetered \/ SwitchFlat \/ AddonAtStripe \/ AddonRow \/ RequestFails
        BY <4>3 DEF SwitchMetered, SwitchFlat, AddonAtStripe, AddonRow, RequestFails, Request
      <4>4. CASE RequestInvalidates \/ RequestKeeps
        <5>1. request.pc = "invalidate" /\ UNCHANGED solo
          BY <4>4 DEF RequestInvalidates, RequestKeeps
        <5>2. request # NoRequest
          BY <5>1 DEF NoRequest
        <5>3. solo # "done" /\ \A h \in Handlers : solo # h
          BY <5>2 DEF SoloInv, SoloAt
        <5>4. QED
          BY <5>1, <5>3 DEF StripeInv, TypeOK
      <4>5. QED
        BY <2>2, <4>1, <4>2, <4>3, <4>4 DEF OwnerNext, OwnerEdit, RequestStep
    <3>2. QED
      BY <3>1, SoloEnds
  <2>3. CASE CacheNext
    <3>1. /\ UNCHANGED <<sub, sent, tier, subId, limit, warnings, addonRow, handler, request, solo>>
          /\ cache' = cache \/ cache' # "stale"
      BY <2>3 DEF CacheNext, ReadRows, Fill, Expire, Invalidate, stripe, rows
    <3>2. \A h \in Handlers : SoloAt(h) => SoloAt(h)'
      BY <3>1 DEF SoloAt, New
    <3>3. NewestHeals'
      BY <3>1 DEF SoloInv, NewestHeals
    <3>4. QED
      BY <3>1, <3>2, <3>3 DEF SoloInv, AllIdle
  <2>4. CASE UNCHANGED vars
    <3>1. \A h \in Handlers : SoloAt(h) => SoloAt(h)'
      BY <2>4 DEF vars, SoloAt, New
    <3>2. QED
      BY <2>4, <3>1 DEF vars, SoloInv, NewestHeals, AllIdle
  <2>5. QED
    BY <2>1, <2>2, <2>3, <2>4, SoloHandler, SoloReceive DEF Next
<1>3. SoloInv => NewestHeals
  BY DEF SoloInv
<1>4. QED
  BY <1>1, <1>2, <1>3, StripeInvariant, PTL DEF Spec

=============================================================================
