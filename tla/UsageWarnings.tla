--------------------------- MODULE UsageWarnings ---------------------------
(***************************************************************************)
(* Soft usage limits: ingestion workers compare the usage of a workspace   *)
(* with its warnings (cached rows of PostgreSQL) and enqueue a             *)
(* notification; notification workers turn it into one delivery per owner  *)
(* of the workspace, at most one of them at a time thanks to a cache lock. *)
(*                                                                         *)
(* One warning of one workspace, whose usage stays above the limit. Time   *)
(* is the number of the billing period; a notification carries none in the *)
(* code, the model tags it with the period it was pushed in.               *)
(***************************************************************************)
EXTENDS Naturals, FiniteSets, Functions

CONSTANTS
  Ingester, Handler, Owner,
  MaxPeriod,       \* bound: billing periods
  MaxFaults,       \* bound: how often each kind of fault happens
  MaxFaultsInAll   \* bound: faults of all kinds together

Period == 1..MaxPeriod
FaultKind == {"cache", "db", "publish", "fetch", "push", "crash", "expiry"}

ASSUME WarningsAssumption ==
  /\ MaxPeriod \in Nat \ {0}
  /\ Owner # {} /\ IsFiniteSet(Ingester) /\ IsFiniteSet(Handler)
  /\ MaxFaults \in [FaultKind -> Nat] /\ MaxFaultsInAll \in Nat

VARIABLES
  period,        \* the current one
  lastNotified,  \* period of last_notified_at (0: NULL)
  cached,        \* the cached last_notified_at: one value or none
  ingester, seen,  \* per ingestion worker: where it is, what it read
  queued,        \* per period: notifications ready
  pushed,        \* per period: publishes of a notification that returned Ok
  unconfirmed,   \* per period: publishes that failed and reached the broker
  handler, msg,    \* per notification worker: where it is, its message
  todo, anyPushed, \* per notification worker: targets left, one succeeded
  lock,
  delivered,     \* deliveries pushed per owner and period
  faults

ingestVars == <<ingester, seen>>
handlerVars == <<handler, msg, todo, anyPushed>>
publishVars == <<pushed, unconfirmed>>
vars == <<period, lastNotified, cached, ingestVars, queued, publishVars, handlerVars,
          lock, delivered, faults>>

FaultsInAll == FoldFunction(+, 0, faults)

\* A fault happens: kinds are counted apart.
Fault(kind) ==
  /\ faults[kind] < MaxFaults[kind]
  /\ FaultsInAll < MaxFaultsInAll
  /\ faults' = [faults EXCEPT ![kind] = @ + 1]

Init ==
  /\ period = 1 /\ lastNotified = 0 /\ cached = {}
  /\ ingester = [i \in Ingester |-> "idle"] /\ seen = [i \in Ingester |-> 0]
  /\ queued = [p \in Period |-> 0] /\ pushed = [p \in Period |-> 0]
  /\ unconfirmed = [p \in Period |-> 0]
  /\ handler = [h \in Handler |-> "idle"] /\ msg = [h \in Handler |-> 1]
  /\ todo = [h \in Handler |-> {}] /\ anyPushed = [h \in Handler |-> FALSE]
  /\ lock = FALSE
  /\ delivered = [o \in Owner |-> [p \in Period |-> 0]]
  /\ faults = [k \in FaultKind |-> 0]

-----------------------------------------------------------------------------
(* check_soft_limits on an ingestion worker.                               *)

Goto(i, at) == ingester' = [ingester EXCEPT ![i] = at]

\* get_usage_warnings: a hit is used as it is.
CacheHit(i) ==
  /\ ingester[i] = "idle" /\ cached # {}
  /\ \E v \in cached : seen' = [seen EXCEPT ![i] = v]
  /\ Goto(i, "checking")
  /\ UNCHANGED <<period, lastNotified, cached, queued, publishVars, handlerVars, lock,
                 delivered, faults>>

\* A miss or a cache error: the rows are read from PostgreSQL ...
CacheMiss(i) ==
  /\ ingester[i] = "idle"
  /\ (cached = {} /\ UNCHANGED faults) \/ Fault("cache")
  /\ Goto(i, "reading")
  /\ UNCHANGED <<period, lastNotified, cached, seen, queued, publishVars, handlerVars,
                 lock, delivered>>

ReadWarnings(i) ==
  /\ ingester[i] = "reading"
  /\ \/ /\ seen' = [seen EXCEPT ![i] = lastNotified]
        /\ Goto(i, "filling")
        /\ UNCHANGED faults
     \/ /\ Fault("db")
        /\ Goto(i, "idle")
        /\ UNCHANGED seen
  /\ UNCHANGED <<period, lastNotified, cached, queued, publishVars, handlerVars, lock,
                 delivered>>

\* ... and cached, whatever has happened to them since.
Fill(i) ==
  /\ ingester[i] = "filling"
  /\ (cached' = {seen[i]} /\ UNCHANGED faults) \/ (Fault("cache") /\ UNCHANGED cached)
  /\ Goto(i, "checking")
  /\ UNCHANGED <<period, lastNotified, seen, queued, publishVars, handlerVars, lock, delivered>>

AlreadyNotified(i) ==
  /\ ingester[i] = "checking" /\ seen[i] >= period
  /\ Goto(i, "idle")
  /\ UNCHANGED <<period, lastNotified, cached, seen, queued, publishVars, handlerVars,
                 lock, delivered, faults>>

\* send_soft_limit_notification.
Push(i) ==
  /\ ingester[i] = "checking" /\ seen[i] < period
  /\ queued' = [queued EXCEPT ![period] = @ + 1]
  /\ pushed' = [pushed EXCEPT ![period] = @ + 1]
  /\ Goto(i, "marking")
  /\ UNCHANGED <<period, lastNotified, cached, seen, unconfirmed, handlerVars, lock,
                 delivered, faults>>

\* A publish fails, though the broker may have the message: it is tried again,
\* or the error is logged and nothing is marked.
PushFails(i, landed) ==
  /\ ingester[i] = "checking" /\ seen[i] < period
  /\ Fault("publish")
  /\ IF landed
     THEN /\ queued' = [queued EXCEPT ![period] = @ + 1]
          /\ unconfirmed' = [unconfirmed EXCEPT ![period] = @ + 1]
     ELSE UNCHANGED <<queued, unconfirmed>>
  /\ Goto(i, "idle") \/ UNCHANGED ingester
  /\ UNCHANGED <<period, lastNotified, cached, seen, pushed, handlerVars, lock, delivered>>

\* mark_warning_as_notified: last_notified_at = NOW().
Mark(i) ==
  /\ ingester[i] = "marking"
  /\ (lastNotified' = period /\ UNCHANGED faults)
       \/ (Fault("db") /\ UNCHANGED lastNotified)
  /\ Goto(i, "evicting")
  /\ UNCHANGED <<period, cached, seen, queued, publishVars, handlerVars, lock, delivered>>

\* Mutant: the cached rows stay.
MutEvict(i) ==
  /\ ingester[i] = "evicting"
  /\ Goto(i, "idle")
  /\ UNCHANGED <<period, lastNotified, cached, seen, queued, publishVars, handlerVars, lock,
                 delivered, faults>>

Evict(i) ==
  /\ ingester[i] = "evicting"
  /\ (cached' = {} /\ UNCHANGED faults) \/ (Fault("cache") /\ UNCHANGED cached)
  /\ Goto(i, "idle")
  /\ UNCHANGED <<period, lastNotified, seen, queued, publishVars, handlerVars, lock, delivered>>

-----------------------------------------------------------------------------
(* NotificationHandler::handle on a notification worker.                   *)

Step(h, at) == handler' = [handler EXCEPT ![h] = at]

Receive(h, p) ==
  /\ handler[h] = "idle" /\ queued[p] > 0
  /\ queued' = [queued EXCEPT ![p] = @ - 1]
  /\ msg' = [msg EXCEPT ![h] = p]
  /\ Step(h, "locking")
  /\ UNCHANGED <<period, lastNotified, cached, ingestVars, publishVars, todo, anyPushed, lock,
                 delivered, faults>>

\* A transient error: the message is rejected with requeue.
Requeue(h) ==
  /\ queued' = [queued EXCEPT ![msg[h]] = @ + 1]
  /\ Step(h, "idle")
  /\ todo' = [todo EXCEPT ![h] = {}] /\ anyPushed' = [anyPushed EXCEPT ![h] = FALSE]
  /\ UNCHANGED msg

\* Mutant: the lock is taken whoever holds it.
MutAcquire(h) ==
  /\ handler[h] = "locking"
  /\ lock' = TRUE
  /\ Step(h, "fetching")
  /\ UNCHANGED <<period, lastNotified, cached, ingestVars, queued, publishVars, msg, todo,
                 anyPushed, delivered, faults>>

Acquire(h) ==
  /\ handler[h] = "locking" /\ ~lock
  /\ lock' = TRUE
  /\ Step(h, "fetching")
  /\ UNCHANGED <<period, lastNotified, cached, ingestVars, queued, publishVars, msg, todo,
                 anyPushed, delivered, faults>>

\* The lock is held: the message is acknowledged as a duplicate.
Skip(h) ==
  /\ handler[h] = "locking" /\ lock
  /\ Step(h, "idle")
  /\ UNCHANGED <<period, lastNotified, cached, ingestVars, queued, publishVars, msg, todo,
                 anyPushed, lock, delivered, faults>>

\* The cache answers with an error; the SET NX may have been executed.
AcquireError(h, landed) ==
  /\ handler[h] = "locking"
  /\ Fault("cache") /\ Requeue(h)
  /\ lock' = (lock \/ landed)
  /\ UNCHANGED <<period, lastNotified, cached, ingestVars, publishVars, delivered>>

\* fetch_targets: the owners of the workspace.
Fetch(h) ==
  /\ handler[h] = "fetching"
  /\ todo' = [todo EXCEPT ![h] = Owner]
  /\ Step(h, "fanning")
  /\ UNCHANGED <<period, lastNotified, cached, ingestVars, queued, publishVars, msg,
                 anyPushed, lock, delivered, faults>>

\* The query fails: `?` returns at once, the lock stays.
FetchError(h) ==
  /\ handler[h] = "fetching"
  /\ Fault("fetch") /\ Requeue(h)
  /\ UNCHANGED <<period, lastNotified, cached, ingestVars, publishVars, lock, delivered>>

Deliver(o, p) == delivered' = [delivered EXCEPT ![o][p] = @ + 1]

\* One delivery message per target; a failed publish may have reached the
\* broker all the same, and is tried again or counted.
FanOut(h, o) ==
  /\ handler[h] = "fanning" /\ o \in todo[h]
  /\ \/ /\ Deliver(o, msg[h])
        /\ todo' = [todo EXCEPT ![h] = @ \ {o}]
        /\ anyPushed' = [anyPushed EXCEPT ![h] = TRUE]
        /\ UNCHANGED faults
     \/ /\ Fault("push")
        /\ Deliver(o, msg[h]) \/ UNCHANGED delivered
        /\ todo' = [todo EXCEPT ![h] = @ \ {o}] \/ UNCHANGED todo
        /\ UNCHANGED anyPushed
  /\ UNCHANGED <<period, lastNotified, cached, ingestVars, queued, publishVars, handler, msg,
                 lock>>

Finish(h) ==
  /\ handler[h] = "fanning" /\ todo[h] = {} /\ anyPushed[h]
  /\ Step(h, "idle")
  /\ anyPushed' = [anyPushed EXCEPT ![h] = FALSE]
  /\ UNCHANGED <<period, lastNotified, cached, ingestVars, queued, publishVars, msg, todo,
                 lock, delivered, faults>>

\* Mutant: the lock is left to its TTL.
MutAllFailed(h) ==
  /\ handler[h] = "fanning" /\ todo[h] = {} /\ ~anyPushed[h]
  /\ Requeue(h)
  /\ UNCHANGED <<period, lastNotified, cached, ingestVars, publishVars, delivered, lock, faults>>

\* Every push failed: cache.remove of the lock's key, whose error is
\* ignored, and a transient error.
AllFailed(h) ==
  /\ handler[h] = "fanning" /\ todo[h] = {} /\ ~anyPushed[h]
  /\ Requeue(h)
  /\ \/ lock' = FALSE /\ UNCHANGED faults
     \/ Fault("cache") /\ UNCHANGED lock
  /\ UNCHANGED <<period, lastNotified, cached, ingestVars, publishVars, delivered>>

-----------------------------------------------------------------------------
(* Time and crashes.                                                       *)

\* USAGE_WARNING_SEND_LOCK_TTL_SECONDS.
LockExpires ==
  /\ lock /\ Fault("expiry")
  /\ lock' = FALSE
  /\ UNCHANGED <<period, lastNotified, cached, ingestVars, queued, publishVars, handlerVars,
                 delivered>>

\* USAGE_WARNINGS_CACHE_TTL_SECONDS, or a warning edited in the frontend.
CacheExpires ==
  /\ cached # {}
  /\ cached' = {}
  /\ UNCHANGED <<period, lastNotified, ingestVars, queued, publishVars, handlerVars, lock,
                 delivered, faults>>

NewPeriod ==
  /\ period < MaxPeriod
  /\ period' = period + 1
  /\ UNCHANGED <<lastNotified, cached, ingestVars, queued, publishVars, handlerVars, lock,
                 delivered, faults>>

IngesterCrash(i) ==
  /\ ingester[i] # "idle"
  /\ Fault("crash")
  /\ Goto(i, "idle")
  /\ UNCHANGED <<period, lastNotified, cached, seen, queued, publishVars, handlerVars, lock,
                 delivered>>

\* The message was not acknowledged and is delivered again; the lock stays.
HandlerCrash(h) ==
  /\ handler[h] # "idle"
  /\ Fault("crash") /\ Requeue(h)
  /\ UNCHANGED <<period, lastNotified, cached, ingestVars, publishVars, lock, delivered>>

-----------------------------------------------------------------------------
Ingest(i) ==
  \/ CacheHit(i) \/ CacheMiss(i) \/ ReadWarnings(i) \/ Fill(i) \/ AlreadyNotified(i)
  \/ Push(i) \/ (\E landed \in BOOLEAN : PushFails(i, landed)) \/ Mark(i) \/ Evict(i)

Handle(h) ==
  \/ \E p \in Period : Receive(h, p)
  \/ Acquire(h) \/ Skip(h) \/ (\E landed \in BOOLEAN : AcquireError(h, landed))
  \/ Fetch(h) \/ FetchError(h)
  \/ (\E o \in Owner : FanOut(h, o)) \/ Finish(h) \/ AllFailed(h)

Next ==
  \/ \E i \in Ingester : Ingest(i) \/ IngesterCrash(i)
  \/ \E h \in Handler : Handle(h) \/ HandlerCrash(h)
  \/ LockExpires \/ CacheExpires \/ NewPeriod

Spec == Init /\ [][Next]_vars

-----------------------------------------------------------------------------
(* Type invariant of workers, queue, cache and lock.                       *)
TypeOK ==
  /\ period \in Period /\ lastNotified \in 0..MaxPeriod
  /\ cached \subseteq 0..MaxPeriod /\ Cardinality(cached) <= 1
  /\ ingester \in [Ingester ->
       {"idle", "reading", "filling", "checking", "marking", "evicting"}]
  /\ seen \in [Ingester -> 0..MaxPeriod]
  /\ queued \in [Period -> Nat]
  /\ pushed \in [Period -> Nat] /\ unconfirmed \in [Period -> Nat]
  /\ handler \in [Handler -> {"idle", "locking", "fetching", "fanning"}]
  /\ msg \in [Handler -> Period] /\ todo \in [Handler -> SUBSET Owner]
  /\ anyPushed \in [Handler -> BOOLEAN] /\ lock \in BOOLEAN
  /\ delivered \in [Owner -> [Period -> Nat]] /\ faults \in [FaultKind -> Nat]

\* A notification of period p somebody still works for.
InFlight(p) ==
  \/ queued[p] > 0
  \/ \E h \in Handler : handler[h] # "idle" /\ msg[h] = p

Announced(p) == \E o \in Owner : delivered[o][p] > 0

\* "permanently losing the notification" is what the release of the lock is
\* for (NotificationHandler::handle): a notification that was pushed is on
\* its way or has reached an owner.
NeverLost ==
  \A p \in Period : pushed[p] + unconfirmed[p] > 0 => InFlight(p) \/ Announced(p)

\* The part of it that does hold: within one period, with a Redis lock that
\* answers and no error between taking the lock and the fan-out, duplicates
\* that are skipped and fan-outs that fail altogether lose nothing.
NotLost ==
  (period = 1 /\ faults["fetch"] + faults["crash"] + faults["cache"] = 0) => NeverLost

\* Ingestion workers race through check_soft_limits, and one that read the
\* row before it was marked may cache it again after it was evicted. Every
\* such refill costs at most one notification per worker: with n workers no
\* period sees more than 1 + ... + n of them, and one for every publish that
\* failed after the broker had the message.
RepeatsBounded ==
  LET n == Cardinality(Ingester) IN
  faults["db"] + faults["cache"] + faults["crash"] = 0 =>
    \A p \in Period :
      2 * (pushed[p] + unconfirmed[p]) <= n * (n + 1) + 2 * faults["publish"]

\* However many notifications were pushed, an owner gets one delivery per
\* period; one more takes a lock that expired, or a publish that failed
\* after it had reached the broker (the lock has no owner: a worker that
\* overstayed it may even release it for another).
DeliveredOnce ==
  \A o \in Owner, p \in Period :
    delivered[o][p] <= 1 + faults["expiry"] + faults["push"]
=============================================================================
