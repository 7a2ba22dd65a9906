------------------------ MODULE UsageWarningsProofs ------------------------
(***************************************************************************)
(* Proofs about UsageWarnings, for every set of workers and owners and     *)
(* every value of the bounds.                                              *)
(***************************************************************************)
EXTENDS UsageWarnings, FiniteSetTheorems, TLAPS

-----------------------------------------------------------------------------
(* Type correctness.                                                       *)

\* A fault changes its counter only.
LEMMA FaultTypes ==
  ASSUME TypeOK, NEW kind \in FaultKind, Fault(kind)
  PROVE  /\ faults' \in [FaultKind -> Nat]
         /\ faults'[kind] = faults[kind] + 1
BY DEF TypeOK, Fault

\* What a cache of one value looks like.
LEMMA OneCached ==
  ASSUME NEW v \in 0..MaxPeriod
  PROVE  {v} \subseteq 0..MaxPeriod /\ Cardinality({v}) <= 1 /\ Cardinality({}) <= 1
<1>1. Cardinality({v}) = 1 /\ Cardinality({}) = 0
  BY FS_Singleton, FS_EmptySet
<1>2. QED
  BY <1>1

\* The types hold when the workers start.
LEMMA InitTypes == Init => TypeOK
<1> SUFFICES ASSUME Init PROVE TypeOK
  OBVIOUS
<1>1. Cardinality({}) = 0
  BY FS_EmptySet
<1>2. cached \subseteq 0..MaxPeriod /\ Cardinality(cached) <= 1
  BY <1>1 DEF Init
<1>3. period \in Period /\ lastNotified \in 0..MaxPeriod /\ 1 \in Period
  BY WarningsAssumption DEF Init, Period
<1>4. /\ ingester \in [Ingester -> {"idle", "reading", "filling", "checking", "marking", "evicting"}]
      /\ seen \in [Ingester -> 0..MaxPeriod]
  BY WarningsAssumption DEF Init
<1>5. /\ queued \in [Period -> Nat] /\ pushed \in [Period -> Nat]
      /\ unconfirmed \in [Period -> Nat]
      /\ delivered \in [Owner -> [Period -> Nat]] /\ faults \in [FaultKind -> Nat]
  BY DEF Init
<1>6. /\ handler \in [Handler -> {"idle", "locking", "fetching", "fanning"}]
      /\ msg \in [Handler -> Period] /\ todo \in [Handler -> SUBSET Owner]
      /\ anyPushed \in [Handler -> BOOLEAN] /\ lock \in BOOLEAN
  BY <1>3 DEF Init
<1>7. QED
  BY <1>2, <1>3, <1>4, <1>5, <1>6 DEF TypeOK

\* check_soft_limits keeps them.
LEMMA IngestTypes ==
  ASSUME TypeOK, NEW i \in Ingester, Ingest(i)
  PROVE  TypeOK'
<1> USE DEF TypeOK
<1>1. CASE CacheHit(i)
  BY <1>1 DEF CacheHit, Goto, handlerVars, publishVars
<1>2. CASE CacheMiss(i)
  BY <1>2, FaultTypes DEF CacheMiss, Goto, handlerVars, publishVars, FaultKind
<1>3. CASE ReadWarnings(i)
  BY <1>3, FaultTypes DEF FaultKind, ReadWarnings, Goto, handlerVars, publishVars
<1>4. CASE Fill(i)
  <2>1. seen[i] \in 0..MaxPeriod
    OBVIOUS
  <2>2. cached' \subseteq 0..MaxPeriod /\ Cardinality(cached') <= 1
    BY <1>4, <2>1, OneCached DEF Fill
  <2>3. faults' \in [FaultKind -> Nat]
    BY <1>4, FaultTypes DEF Fill, FaultKind
  <2>4. QED
    BY <1>4, <2>2, <2>3 DEF Fill, Goto, handlerVars, publishVars
<1>5. CASE AlreadyNotified(i)
  BY <1>5 DEF AlreadyNotified, Goto, handlerVars, publishVars
<1>6. CASE Push(i)
  BY <1>6 DEF Push, Goto, handlerVars, publishVars
<1>7. ASSUME NEW landed \in BOOLEAN, PushFails(i, landed) PROVE TypeOK'
  <2>1. faults' \in [FaultKind -> Nat]
    BY <1>7, FaultTypes DEF PushFails, FaultKind
  <2>2. queued' \in [Period -> Nat] /\ unconfirmed' \in [Period -> Nat]
    BY <1>7 DEF PushFails
  <2>3. QED
    BY <1>7, <2>1, <2>2 DEF PushFails, Goto, handlerVars
<1>8. CASE Mark(i)
  <2>1. lastNotified' \in 0..MaxPeriod
    BY <1>8, WarningsAssumption DEF Mark, Period
  <2>2. faults' \in [FaultKind -> Nat]
    BY <1>8, FaultTypes DEF Mark, FaultKind
  <2>3. QED
    BY <1>8, <2>1, <2>2 DEF Mark, Goto, handlerVars, publishVars
<1>9. CASE Evict(i)
  <2>1. cached' \subseteq 0..MaxPeriod /\ Cardinality(cached') <= 1
    BY <1>9, OneCached DEF Evict
  <2>2. faults' \in [FaultKind -> Nat]
    BY <1>9, FaultTypes DEF Evict, FaultKind
  <2>3. QED
    BY <1>9, <2>1, <2>2 DEF Evict, Goto, handlerVars, publishVars
<1>10. QED
  BY <1>1, <1>2, <1>3, <1>4, <1>5, <1>6, <1>7, <1>8, <1>9 DEF Ingest

\* A rejected message goes back to the queue.
LEMMA RequeueTypes ==
  ASSUME TypeOK, NEW h \in Handler, Requeue(h)
  PROVE  /\ queued' \in [Period -> Nat]
         /\ handler' \in [Handler -> {"idle", "locking", "fetching", "fanning"}]
         /\ msg' \in [Handler -> Period] /\ todo' \in [Handler -> SUBSET Owner]
         /\ anyPushed' \in [Handler -> BOOLEAN]
BY DEF TypeOK, Requeue, Step

\* NotificationHandler::handle keeps the types.
LEMMA HandleTypes ==
  ASSUME TypeOK, NEW h \in Handler, Handle(h)
  PROVE  TypeOK'
<1>1. ASSUME NEW p \in Period, Receive(h, p) PROVE TypeOK'
  BY <1>1 DEF TypeOK, Receive, Step, ingestVars, publishVars
<1>2. CASE Acquire(h)
  BY <1>2 DEF TypeOK, Acquire, Step, ingestVars, publishVars
<1>3. CASE Skip(h)
  BY <1>3 DEF TypeOK, Skip, Step, ingestVars, publishVars
<1>4. ASSUME NEW landed \in BOOLEAN, AcquireError(h, landed) PROVE TypeOK'
  <2>1. lock' \in BOOLEAN
    BY <1>4 DEF AcquireError, TypeOK
  <2>2. faults' \in [FaultKind -> Nat]
    BY <1>4, FaultTypes DEF AcquireError, FaultKind
  <2>3. QED
    BY <1>4, <2>1, <2>2, RequeueTypes DEF TypeOK, AcquireError, ingestVars, publishVars
<1>5. CASE Fetch(h)
  BY <1>5 DEF TypeOK, Fetch, Step, ingestVars, publishVars
<1>6. CASE FetchError(h)
  <2>1. faults' \in [FaultKind -> Nat]
    BY <1>6, FaultTypes DEF FetchError, FaultKind
  <2>2. QED
    BY <1>6, <2>1, RequeueTypes DEF TypeOK, FetchError, ingestVars, publishVars
<1>7. ASSUME NEW o \in Owner, FanOut(h, o) PROVE TypeOK'
  <2>1. delivered' \in [Owner -> [Period -> Nat]]
    <3>1. delivered \in [Owner -> [Period -> Nat]]
      BY DEF TypeOK
    <3>2. CASE UNCHANGED delivered
      BY <3>1, <3>2
    <3>3. CASE Deliver(o, msg[h])
      <4>1. msg[h] \in Period
        BY DEF TypeOK
      <4>2. delivered[o][msg[h]] + 1 \in Nat
        BY <3>1, <4>1
      <4>3. QED
        BY <3>1, <3>3, <4>1, <4>2 DEF Deliver
    <3>4. QED
      BY <1>7, <3>2, <3>3 DEF FanOut
  <2>2. faults' \in [FaultKind -> Nat]
    BY <1>7, FaultTypes DEF TypeOK, FanOut, FaultKind
  <2>3. anyPushed' \in [Handler -> BOOLEAN] /\ todo' \in [Handler -> SUBSET Owner]
    BY <1>7 DEF TypeOK, FanOut
  <2>4. QED
    BY <1>7, <2>1, <2>2, <2>3 DEF TypeOK, FanOut, ingestVars, publishVars
<1>8. CASE Finish(h)
  BY <1>8 DEF TypeOK, Finish, Step, ingestVars, publishVars
<1>9. CASE AllFailed(h)
  <2>1. lock' \in BOOLEAN /\ faults' \in [FaultKind -> Nat]
    BY <1>9, FaultTypes DEF TypeOK, AllFailed, FaultKind
  <2>2. QED
    BY <1>9, <2>1, RequeueTypes DEF TypeOK, AllFailed, ingestVars, publishVars
<1>10. QED
  BY <1>1, <1>2, <1>3, <1>4, <1>5, <1>6, <1>7, <1>8, <1>9 DEF Handle

\* So does every step.
LEMMA NextTypes == TypeOK /\ [Next]_vars => TypeOK'
<1> SUFFICES ASSUME TypeOK, [Next]_vars PROVE TypeOK'
  OBVIOUS
<1>1. ASSUME NEW i \in Ingester, Ingest(i) PROVE TypeOK'
  BY <1>1, IngestTypes
<1>2. ASSUME NEW i \in Ingester, IngesterCrash(i) PROVE TypeOK'
  BY <1>2, FaultTypes DEF TypeOK, IngesterCrash, Goto, handlerVars, publishVars, FaultKind
<1>3. ASSUME NEW h \in Handler, Handle(h) PROVE TypeOK'
  BY <1>3, HandleTypes
<1>4. ASSUME NEW h \in Handler, HandlerCrash(h) PROVE TypeOK'
  <2>1. faults' \in [FaultKind -> Nat]
    BY <1>4, FaultTypes DEF HandlerCrash, FaultKind
  <2>2. QED
    BY <1>4, <2>1, RequeueTypes DEF TypeOK, HandlerCrash, ingestVars, publishVars
<1>5. CASE LockExpires
  BY <1>5, FaultTypes DEF TypeOK, LockExpires, ingestVars, publishVars, handlerVars, FaultKind
<1>6. CASE CacheExpires
  BY <1>6, FS_EmptySet DEF TypeOK, CacheExpires, ingestVars, publishVars, handlerVars
<1>7. CASE NewPeriod
  BY <1>7, WarningsAssumption DEF TypeOK, NewPeriod, Period, ingestVars, publishVars, handlerVars
<1>8. CASE UNCHANGED vars
  BY <1>8 DEF TypeOK, vars, ingestVars, publishVars, handlerVars
<1>9. QED
  BY <1>1, <1>2, <1>3, <1>4, <1>5, <1>6, <1>7, <1>8 DEF Next

\* Workers, queue, cache, lock and counters are well typed, whatever the
\* interleaving of check_soft_limits and NotificationHandler::handle.
THEOREM TypeCorrect == Spec => []TypeOK
<1>1. QED
  BY InitTypes, NextTypes, PTL DEF Spec

-----------------------------------------------------------------------------
(* At most one delivery per owner and period.                              *)

\* The notification workers that may still deliver to owner o, or that
\* failed to and will release the lock for another if all their pushes fail.
Holders(o) ==
  {h \in Handler : \/ handler[h] = "fetching"
                   \/ handler[h] = "fanning" /\ (o \in todo[h] \/ ~anyPushed[h])}

\* Who may take the lock now: one more worker, if it is free.
Free == IF lock THEN 0 ELSE 1

\* The deliveries made and the deliveries still possible are paid for by
\* the one lock, its expiries and the failed publishes.
Paid ==
  \A o \in Owner, p \in Period :
    delivered[o][p] + Cardinality(Holders(o)) + Free
      <= 1 + faults["expiry"] + faults["push"]

\* Counters of faults only grow, the one of a fault by one.
LEMMA FaultGrows ==
  ASSUME TypeOK, NEW kind \in FaultKind, Fault(kind)
  PROVE  /\ faults' \in [FaultKind -> Nat]
         /\ faults'[kind] = faults[kind] + 1
         /\ \A k \in FaultKind : faults'[k] >= faults[k]
BY DEF TypeOK, Fault

\* Both kinds of budget in numbers.
LEMMA PaidTypes ==
  ASSUME TypeOK, NEW o \in Owner, NEW p \in Period
  PROVE  /\ IsFiniteSet(Holders(o)) /\ Cardinality(Holders(o)) \in Nat
         /\ delivered[o][p] \in Nat /\ Free \in 0..1
         /\ faults["expiry"] \in Nat /\ faults["push"] \in Nat
<1>1. Holders(o) \subseteq Handler
  BY DEF Holders
<1>2. IsFiniteSet(Holders(o))
  BY <1>1, WarningsAssumption, FS_Subset
<1>3. Cardinality(Holders(o)) \in Nat
  BY <1>2, FS_CardinalityType
<1>4. QED
  BY <1>2, <1>3 DEF TypeOK, FaultKind, Free

\* How the number of holders follows from the set of them.
LEMMA HoldersCount ==
  ASSUME NEW S, IsFiniteSet(S), NEW h
  PROVE  /\ Cardinality(S \cup {h}) <= Cardinality(S) + 1
         /\ h \in S => Cardinality(S \ {h}) = Cardinality(S) - 1
         /\ \A T \in SUBSET S : Cardinality(T) \in Nat /\ Cardinality(T) <= Cardinality(S)
<1>1. Cardinality(S) \in Nat
  BY FS_CardinalityType
<1>2. Cardinality(S \cup {h}) <= Cardinality(S) + 1
  BY <1>1, FS_AddElement
<1>3. h \in S => Cardinality(S \ {h}) = Cardinality(S) - 1
  BY <1>1, FS_RemoveElement
<1>4. ASSUME NEW T \in SUBSET S
      PROVE  Cardinality(T) \in Nat /\ Cardinality(T) <= Cardinality(S)
  BY FS_Subset, FS_CardinalityType
<1>5. QED
  BY <1>2, <1>3, <1>4

\* At the start the lock pays for the one delivery.
LEMMA InitPaid == Init => Paid
<1> SUFFICES ASSUME Init, NEW o \in Owner, NEW p \in Period
             PROVE  delivered[o][p] + Cardinality(Holders(o)) + Free
                      <= 1 + faults["expiry"] + faults["push"]
  BY DEF Paid
<1>1. Holders(o) = {}
  BY DEF Init, Holders
<1>2. Cardinality(Holders(o)) = 0
  BY <1>1, FS_EmptySet
<1>3. delivered[o][p] = 0 /\ Free = 1 /\ faults["expiry"] = 0 /\ faults["push"] = 0
  BY DEF Init, Free, FaultKind
<1>4. QED
  BY <1>2, <1>3

\* A step that leaves deliveries and lock alone and adds no holder.
LEMMA PaidFrame ==
  ASSUME TypeOK, TypeOK', Paid, UNCHANGED <<delivered, lock>>,
         \A o \in Owner : Holders(o)' \subseteq Holders(o),
         \A k \in FaultKind : faults'[k] >= faults[k]
  PROVE  Paid'
<1> SUFFICES ASSUME NEW o \in Owner, NEW p \in Period
             PROVE  delivered'[o][p] + Cardinality(Holders(o)') + Free'
                      <= 1 + faults'["expiry"] + faults'["push"]
  BY DEF Paid
<1>1. Cardinality(Holders(o)') \in Nat /\ Cardinality(Holders(o)') <= Cardinality(Holders(o))
  BY PaidTypes, HoldersCount
<1>2. delivered'[o][p] = delivered[o][p] /\ Free' = Free
  BY DEF Free
<1>3. delivered[o][p] + Cardinality(Holders(o)) + Free
        <= 1 + faults["expiry"] + faults["push"]
  BY DEF Paid
<1>4. faults'["expiry"] >= faults["expiry"] /\ faults'["push"] >= faults["push"]
  BY DEF FaultKind
<1>5. faults'["expiry"] \in Nat /\ faults'["push"] \in Nat
  BY DEF TypeOK, FaultKind
<1>6. QED
  BY <1>1, <1>2, <1>3, <1>4, <1>5, PaidTypes

\* Ingestion workers do not touch what the budget counts.
LEMMA IngestPaid ==
  ASSUME TypeOK, TypeOK', Paid, NEW i \in Ingester, Ingest(i) \/ IngesterCrash(i)
  PROVE  Paid'
<1>1. UNCHANGED <<delivered, lock, handlerVars>>
  BY DEF Ingest, CacheHit, CacheMiss, ReadWarnings, Fill, AlreadyNotified, Push,
         PushFails, Mark, Evict, IngesterCrash
<1>2. \A k \in FaultKind : faults'[k] >= faults[k]
  <2>1. CASE UNCHANGED faults
    BY <2>1 DEF TypeOK
  <2>2. CASE Fault("cache")
    BY <2>2, FaultGrows DEF FaultKind
  <2>3. CASE Fault("publish")
    BY <2>3, FaultGrows DEF FaultKind
  <2>4. CASE Fault("db")
    BY <2>4, FaultGrows DEF FaultKind
  <2>5. CASE Fault("crash")
    BY <2>5, FaultGrows DEF FaultKind
  <2>6. QED
    BY <2>1, <2>2, <2>3, <2>4, <2>5
       DEF Ingest, CacheHit, CacheMiss, ReadWarnings, Fill, AlreadyNotified, Push,
           PushFails, Mark, Evict, IngesterCrash
<1>3. \A o \in Owner : Holders(o)' = Holders(o)
  BY <1>1 DEF Holders, handlerVars, publishVars
<1>4. QED
  BY <1>1, <1>2, <1>3, PaidFrame

\* A worker that rejects its message no longer delivers.
LEMMA RequeueHolders ==
  ASSUME TypeOK, NEW h \in Handler, Requeue(h), NEW o \in Owner
  PROVE  Holders(o)' = Holders(o) \ {h}
BY DEF TypeOK, Requeue, Step, Holders

\* Taking the lock, which nobody held, buys the right to deliver.
LEMMA AcquirePaid ==
  ASSUME TypeOK, TypeOK', Paid, NEW h \in Handler, Acquire(h)
  PROVE  Paid'
<1> SUFFICES ASSUME NEW o \in Owner, NEW p \in Period
             PROVE  delivered'[o][p] + Cardinality(Holders(o)') + Free'
                      <= 1 + faults'["expiry"] + faults'["push"]
  BY DEF Paid
<1>1. Holders(o)' = Holders(o) \cup {h}
  BY DEF Acquire, Step, Holders, TypeOK
<1>2. Cardinality(Holders(o)') <= Cardinality(Holders(o)) + 1
  BY <1>1, PaidTypes, HoldersCount
<1>3. Free = 1 /\ Free' = 0
  BY DEF Acquire, Free
<1>4. delivered[o][p] + Cardinality(Holders(o)) + Free
        <= 1 + faults["expiry"] + faults["push"]
  BY DEF Paid
<1>5. UNCHANGED <<delivered, faults>>
  BY DEF Acquire
<1>6. Cardinality(Holders(o)') \in Nat
  BY PaidTypes, FS_CardinalityType, <1>1, FS_AddElement
<1>7. QED
  BY <1>2, <1>3, <1>4, <1>5, <1>6, PaidTypes

\* A publish moves one unit from the right to deliver to the deliveries; a
\* failed one may keep the right and deliver, and is counted.
LEMMA FanOutPaid ==
  ASSUME TypeOK, TypeOK', Paid, NEW h \in Handler, NEW q \in Owner, FanOut(h, q)
  PROVE  Paid'
<1> SUFFICES ASSUME NEW o \in Owner, NEW p \in Period
             PROVE  delivered'[o][p] + Cardinality(Holders(o)') + Free'
                      <= 1 + faults'["expiry"] + faults'["push"]
  BY DEF Paid
<1>1. delivered[o][p] + Cardinality(Holders(o)) + Free
        <= 1 + faults["expiry"] + faults["push"]
  BY DEF Paid
<1>2. Free' = Free
  BY DEF FanOut, Free
<1>3. Holders(o)' \subseteq Holders(o)
  BY DEF FanOut, Holders, TypeOK
<1>4. Cardinality(Holders(o)') \in Nat /\ Cardinality(Holders(o)') <= Cardinality(Holders(o))
  BY <1>3, PaidTypes, HoldersCount
<1>5. CASE Deliver(q, msg[h]) /\ anyPushed' = [anyPushed EXCEPT ![h] = TRUE]
           /\ todo' = [todo EXCEPT ![h] = @ \ {q}] /\ UNCHANGED faults
  <2>1. CASE o = q
    <3>1. h \in Holders(o)
      BY <2>1 DEF FanOut, Holders
    <3>2. Holders(o)' \subseteq Holders(o) \ {h}
      BY <1>5, <2>1 DEF FanOut, Holders, TypeOK
    <3>3. Cardinality(Holders(o) \ {h}) = Cardinality(Holders(o)) - 1
      BY <3>1, PaidTypes, HoldersCount
    <3>4. IsFiniteSet(Holders(o) \ {h})
      BY PaidTypes, FS_RemoveElement
    <3>5. Cardinality(Holders(o)') <= Cardinality(Holders(o)) - 1
      BY <3>2, <3>3, <3>4, HoldersCount
    <3>6. delivered'[o][p] <= delivered[o][p] + 1
      BY <1>5 DEF Deliver, TypeOK
    <3>7. delivered'[o][p] \in Nat
      BY DEF TypeOK
    <3>8. QED
      BY <1>1, <1>2, <1>4, <1>5, <3>5, <3>6, <3>7, PaidTypes
  <2>2. CASE o # q
    <3>1. delivered'[o][p] = delivered[o][p]
      BY <1>5, <2>2 DEF Deliver, TypeOK
    <3>2. QED
      BY <1>1, <1>2, <1>4, <1>5, <3>1, PaidTypes
  <2>3. QED
    BY <2>1, <2>2
<1>6. CASE Fault("push") /\ (Deliver(q, msg[h]) \/ UNCHANGED delivered)
  <2>1. delivered'[o][p] <= delivered[o][p] + 1 /\ delivered'[o][p] \in Nat
    <3>1. delivered[o][p] \in Nat /\ delivered'[o][p] \in Nat
      BY DEF TypeOK
    <3>2. CASE Deliver(q, msg[h])
      BY <3>1, <3>2 DEF Deliver, TypeOK
    <3>3. CASE UNCHANGED delivered
      BY <3>1, <3>3
    <3>4. QED
      BY <1>6, <3>1, <3>2, <3>3
  <2>2. faults'["push"] = faults["push"] + 1 /\ faults'["expiry"] >= faults["expiry"]
    BY <1>6, FaultGrows DEF FaultKind
  <2>3. faults'["push"] \in Nat /\ faults'["expiry"] \in Nat
    BY DEF TypeOK, FaultKind
  <2>4. QED
    BY <1>1, <1>2, <1>4, <2>1, <2>2, <2>3, PaidTypes
<1>7. QED
  BY <1>5, <1>6 DEF FanOut

\* A worker whose pushes all failed gives up its right with the lock.
LEMMA AllFailedPaid ==
  ASSUME TypeOK, TypeOK', Paid, NEW h \in Handler, AllFailed(h)
  PROVE  Paid'
<1>1. CASE lock' = FALSE /\ UNCHANGED faults
  <2> SUFFICES ASSUME NEW o \in Owner, NEW p \in Period
               PROVE  delivered'[o][p] + Cardinality(Holders(o)') + Free'
                        <= 1 + faults'["expiry"] + faults'["push"]
    BY DEF Paid
  <2>1. h \in Holders(o)
    BY DEF AllFailed, Holders
  <2>2. Holders(o)' = Holders(o) \ {h}
    BY RequeueHolders DEF AllFailed
  <2>3. Cardinality(Holders(o)') = Cardinality(Holders(o)) - 1
    BY <2>1, <2>2, PaidTypes, HoldersCount
  <2>4. Free' = 1
    BY <1>1 DEF Free
  <2>5. UNCHANGED <<delivered, faults>>
    BY <1>1 DEF AllFailed
  <2>6. delivered[o][p] + Cardinality(Holders(o)) + Free
          <= 1 + faults["expiry"] + faults["push"]
    BY DEF Paid
  <2>7. QED
    BY <2>3, <2>4, <2>5, <2>6, PaidTypes
<1>2. CASE Fault("cache") /\ UNCHANGED lock
  <2>1. \A k \in FaultKind : faults'[k] >= faults[k]
    BY <1>2, FaultGrows DEF FaultKind
  <2>2. \A o \in Owner : Holders(o)' \subseteq Holders(o)
    BY RequeueHolders DEF AllFailed
  <2>3. QED
    BY <1>2, <2>1, <2>2, PaidFrame DEF AllFailed
<1>3. QED
  BY <1>1, <1>2 DEF AllFailed

\* A lock that expires is paid for by the expiry.
LEMMA ExpiryPaid ==
  ASSUME TypeOK, TypeOK', Paid, LockExpires
  PROVE  Paid'
<1> SUFFICES ASSUME NEW o \in Owner, NEW p \in Period
             PROVE  delivered'[o][p] + Cardinality(Holders(o)') + Free'
                      <= 1 + faults'["expiry"] + faults'["push"]
  BY DEF Paid
<1>1. Holders(o)' = Holders(o) /\ Free = 0 /\ Free' = 1 /\ UNCHANGED delivered
  BY DEF LockExpires, Holders, Free, handlerVars, publishVars
<1>2. faults'["expiry"] = faults["expiry"] + 1 /\ faults'["push"] >= faults["push"]
  BY FaultGrows DEF LockExpires, FaultKind
<1>3. faults'["push"] \in Nat
  BY DEF TypeOK, FaultKind
<1>4. delivered[o][p] + Cardinality(Holders(o)) + Free
        <= 1 + faults["expiry"] + faults["push"]
  BY DEF Paid
<1>5. QED
  BY <1>1, <1>2, <1>3, <1>4, PaidTypes

\* NotificationHandler::handle stays within the budget.
LEMMA HandlePaid ==
  ASSUME TypeOK, TypeOK', Paid, NEW h \in Handler, Handle(h) \/ HandlerCrash(h)
  PROVE  Paid'
<1>1. ASSUME UNCHANGED <<delivered, lock, faults>>,
             \A o \in Owner : Holders(o)' \subseteq Holders(o)
      PROVE  Paid'
  <2>1. \A k \in FaultKind : faults'[k] >= faults[k]
    BY <1>1 DEF TypeOK
  <2>2. QED
    BY <1>1, <2>1, PaidFrame
<1>2. ASSUME NEW p \in Period, Receive(h, p) PROVE Paid'
  <2>1. \A o \in Owner : Holders(o)' \subseteq Holders(o)
    BY <1>2 DEF Receive, Step, Holders, TypeOK
  <2>2. QED
    BY <1>1, <1>2, <2>1 DEF Receive
<1>3. CASE Skip(h)
  <2>1. \A o \in Owner : Holders(o)' \subseteq Holders(o)
    BY <1>3 DEF Skip, Step, Holders, TypeOK
  <2>2. QED
    BY <1>1, <1>3, <2>1 DEF Skip
<1>4. CASE Fetch(h)
  <2>1. \A o \in Owner : Holders(o)' \subseteq Holders(o)
    BY <1>4 DEF Fetch, Step, Holders, TypeOK
  <2>2. QED
    BY <1>1, <1>4, <2>1 DEF Fetch
<1>5. CASE Finish(h)
  <2>1. \A o \in Owner : Holders(o)' \subseteq Holders(o)
    BY <1>5 DEF Finish, Step, Holders, TypeOK
  <2>2. QED
    BY <1>1, <1>5, <2>1 DEF Finish
<1>6. ASSUME NEW landed \in BOOLEAN, AcquireError(h, landed) PROVE Paid'
  <2>1. \A k \in FaultKind : faults'[k] >= faults[k]
    BY <1>6, FaultGrows DEF AcquireError, FaultKind
  <2>2. \A o \in Owner : Holders(o)' \subseteq Holders(o)
    BY <1>6, RequeueHolders DEF AcquireError
  <2>3. CASE UNCHANGED lock
    BY <1>6, <2>1, <2>2, <2>3, PaidFrame DEF AcquireError
  <2>4. CASE lock' = TRUE
    <3> SUFFICES ASSUME NEW o \in Owner, NEW p \in Period
                 PROVE  delivered'[o][p] + Cardinality(Holders(o)') + Free'
                          <= 1 + faults'["expiry"] + faults'["push"]
      BY DEF Paid
    <3>1. Cardinality(Holders(o)') \in Nat /\ Cardinality(Holders(o)') <= Cardinality(Holders(o))
      BY <2>2, PaidTypes, HoldersCount
    <3>2. Free' = 0 /\ UNCHANGED delivered
      BY <1>6, <2>4 DEF Free, AcquireError
    <3>3. faults'["expiry"] >= faults["expiry"] /\ faults'["push"] >= faults["push"]
          /\ faults'["expiry"] \in Nat /\ faults'["push"] \in Nat
      BY <2>1 DEF TypeOK, FaultKind
    <3>4. delivered[o][p] + Cardinality(Holders(o)) + Free
            <= 1 + faults["expiry"] + faults["push"]
      BY DEF Paid
    <3>5. QED
      BY <3>1, <3>2, <3>3, <3>4, PaidTypes
  <2>5. QED
    BY <1>6, <2>3, <2>4 DEF AcquireError, TypeOK
<1>7. CASE FetchError(h)
  <2>1. \A k \in FaultKind : faults'[k] >= faults[k]
    BY <1>7, FaultGrows DEF FetchError, FaultKind
  <2>2. \A o \in Owner : Holders(o)' \subseteq Holders(o)
    BY <1>7, RequeueHolders DEF FetchError
  <2>3. QED
    BY <1>7, <2>1, <2>2, PaidFrame DEF FetchError
<1>8. CASE HandlerCrash(h)
  <2>1. \A k \in FaultKind : faults'[k] >= faults[k]
    BY <1>8, FaultGrows DEF HandlerCrash, FaultKind
  <2>2. \A o \in Owner : Holders(o)' \subseteq Holders(o)
    BY <1>8, RequeueHolders DEF HandlerCrash
  <2>3. QED
    BY <1>8, <2>1, <2>2, PaidFrame DEF HandlerCrash
<1>9. QED
  BY <1>2, <1>3, <1>4, <1>5, <1>6, <1>7, <1>8, AcquirePaid, FanOutPaid, AllFailedPaid
     DEF Handle

\* Every step does.
LEMMA NextPaid == TypeOK /\ TypeOK' /\ Paid /\ [Next]_vars => Paid'
<1> SUFFICES ASSUME TypeOK, TypeOK', Paid, [Next]_vars PROVE Paid'
  OBVIOUS
<1>1. ASSUME UNCHANGED <<delivered, lock, faults, handlerVars>> PROVE Paid'
  <2>1. \A o \in Owner : Holders(o)' = Holders(o)
    BY <1>1 DEF Holders, handlerVars, publishVars
  <2>2. \A k \in FaultKind : faults'[k] >= faults[k]
    BY <1>1 DEF TypeOK
  <2>3. QED
    BY <1>1, <2>1, <2>2, PaidFrame
<1>2. CASE CacheExpires \/ NewPeriod \/ UNCHANGED vars
  BY <1>1, <1>2 DEF CacheExpires, NewPeriod, vars
<1>3. QED
  BY <1>2, IngestPaid, HandlePaid, ExpiryPaid DEF Next

\* A budget that is kept bounds the deliveries.
LEMMA PaidBounds == TypeOK /\ Paid => DeliveredOnce
<1> SUFFICES ASSUME TypeOK, Paid, NEW o \in Owner, NEW p \in Period
             PROVE  delivered[o][p] <= 1 + faults["expiry"] + faults["push"]
  BY DEF DeliveredOnce
<1>1. delivered[o][p] + Cardinality(Holders(o)) + Free
        <= 1 + faults["expiry"] + faults["push"]
  BY DEF Paid
<1>2. QED
  BY <1>1, PaidTypes

\* However many workers race and whatever fails, an owner gets at most one
\* delivery per billing period, and one more for each lock that expired
\* early and for each publish that failed (the cache lock of
\* NotificationHandler::handle).
THEOREM DeliveredOncePerPeriod == Spec => []DeliveredOnce
<1>1. Spec => []Paid
  BY TypeCorrect, InitPaid, NextPaid, PTL DEF Spec
<1>2. QED
  BY <1>1, TypeCorrect, PaidBounds, PTL

-----------------------------------------------------------------------------
(* A pushed notification is not lost.                                      *)

\* The premise of NotLost.
Calm ==
  period = 1 /\ faults["fetch"] = 0 /\ faults["crash"] = 0 /\ faults["cache"] = 0

\* Every notification there is belongs to the first period.
OfFirstPeriod ==
  /\ \A p \in Period : pushed[p] > 0 \/ unconfirmed[p] > 0 \/ queued[p] > 0 => p = 1
  /\ \A h \in Handler : handler[h] # "idle" => msg[h] = 1

\* A lock that makes others skip their message vouches for it: it is held
\* by a worker that still has its own, or was left by one that delivered.
LockVouches ==
  lock => Announced(1) \/ \E h \in Handler : handler[h] \in {"fetching", "fanning"}

\* A worker that has counted a success did deliver.
SuccessDelivers == \A h \in Handler : anyPushed[h] => Announced(1)

Kept == pushed[1] > 0 \/ unconfirmed[1] > 0 => InFlight(1) \/ Announced(1)

CalmInv == Calm => OfFirstPeriod /\ LockVouches /\ SuccessDelivers /\ Kept

\* No step takes a fault back.
LEMMA FaultsGrow ==
  ASSUME TypeOK, [Next]_vars
  PROVE  \A k \in FaultKind : faults'[k] >= faults[k] /\ faults[k] \in Nat
<1>1. CASE UNCHANGED faults
  BY <1>1 DEF TypeOK
<1>2. ASSUME NEW kind \in FaultKind, Fault(kind)
      PROVE  \A k \in FaultKind : faults'[k] >= faults[k] /\ faults[k] \in Nat
  BY <1>2, FaultGrows DEF TypeOK
<1>3. UNCHANGED faults \/ \E kind \in FaultKind : Fault(kind)
  <2>1. ASSUME NEW i \in Ingester, Ingest(i) \/ IngesterCrash(i)
        PROVE  UNCHANGED faults \/ \E kind \in FaultKind : Fault(kind)
    BY <2>1 DEF Ingest, CacheHit, CacheMiss, ReadWarnings, Fill, AlreadyNotified, Push,
                PushFails, Mark, Evict, IngesterCrash, FaultKind
  <2>2. ASSUME NEW h \in Handler, Handle(h) \/ HandlerCrash(h)
        PROVE  UNCHANGED faults \/ \E kind \in FaultKind : Fault(kind)
    BY <2>2 DEF Handle, Receive, Acquire, Skip, AcquireError, Fetch, FetchError, FanOut,
                Finish, AllFailed, HandlerCrash, FaultKind
  <2>3. CASE LockExpires \/ CacheExpires \/ NewPeriod \/ UNCHANGED vars
    BY <2>3 DEF LockExpires, CacheExpires, NewPeriod, vars, FaultKind
  <2>4. QED
    BY <2>1, <2>2, <2>3 DEF Next
<1>4. QED
  BY <1>1, <1>2, <1>3

\* A calm state is reached through calm states, by steps without the faults
\* that would end it.
LEMMA CalmBefore ==
  ASSUME TypeOK, TypeOK', [Next]_vars, Calm'
  PROVE  /\ Calm
         /\ ~ Fault("fetch") /\ ~ Fault("crash") /\ ~ Fault("cache")
<1>1. ASSUME NEW k \in {"fetch", "crash", "cache"} PROVE ~ Fault(k)
  <2>1. SUFFICES ASSUME Fault(k) PROVE FALSE
    OBVIOUS
  <2>2. faults'[k] = faults[k] + 1 /\ faults[k] \in Nat
    BY <2>1, FaultGrows DEF FaultKind, TypeOK
  <2>3. faults'[k] = 0
    BY DEF Calm
  <2>4. QED
    BY <2>2, <2>3
<1>2. ~ Fault("fetch") /\ ~ Fault("crash") /\ ~ Fault("cache")
  BY <1>1
<1>3. \A k \in FaultKind : faults'[k] >= faults[k] /\ faults[k] \in Nat
  BY FaultsGrow
<1>4. faults["fetch"] = 0 /\ faults["crash"] = 0 /\ faults["cache"] = 0
  <2>1. faults'["fetch"] = 0 /\ faults'["crash"] = 0 /\ faults'["cache"] = 0
    BY DEF Calm
  <2>2. QED
    BY <1>3, <2>1 DEF FaultKind
<1>5. period = 1
  <2>1. CASE NewPeriod
    <3>1. period \in Nat \ {0} /\ period' = period + 1 /\ period' = 1
      BY <2>1, WarningsAssumption DEF NewPeriod, Calm, TypeOK, Period
    <3>2. QED
      BY <3>1
  <2>2. CASE ~ NewPeriod
    <3>1. period' = period
      BY <2>2 DEF Next, vars, Ingest, CacheHit, CacheMiss, ReadWarnings, Fill,
                  AlreadyNotified, Push, PushFails, Mark, Evict, IngesterCrash, Handle,
                  Receive, Acquire, Skip, AcquireError, Fetch, FetchError, FanOut, Finish,
                  AllFailed, HandlerCrash, LockExpires, CacheExpires
    <3>2. QED
      BY <3>1 DEF Calm
  <2>3. QED
    BY <2>1, <2>2
<1>6. QED
  BY <1>2, <1>4, <1>5 DEF Calm

\* The first period is a period.
LEMMA FirstPeriod == 1 \in Period
BY WarningsAssumption DEF Period

\* Nothing was pushed yet.
LEMMA InitCalm == Init => CalmInv
BY FirstPeriod DEF Init, CalmInv, OfFirstPeriod, LockVouches, SuccessDelivers, Kept

\* A step that leaves notifications, workers, lock and deliveries alone.
LEMMA CalmFrame ==
  ASSUME CalmInv, Calm, UNCHANGED <<queued, publishVars, handlerVars, lock, delivered>>
  PROVE  CalmInv'
BY DEF CalmInv, OfFirstPeriod, LockVouches, SuccessDelivers, Kept, InFlight, Announced,
       handlerVars, publishVars

\* The parts of the invariant in a calm state.
LEMMA CalmParts ==
  ASSUME CalmInv, Calm
  PROVE  OfFirstPeriod /\ LockVouches /\ SuccessDelivers /\ Kept
BY DEF CalmInv

\* Ingestion workers only add notifications of the current period.
LEMMA IngestCalm ==
  ASSUME TypeOK, CalmInv, Calm, NEW i \in Ingester, Ingest(i)
  PROVE  CalmInv'
<1> DEFINE Landed == /\ queued' = [queued EXCEPT ![period] = @ + 1]
                     /\ \/ pushed' = [pushed EXCEPT ![period] = @ + 1]
                           /\ UNCHANGED unconfirmed
                        \/ unconfirmed' = [unconfirmed EXCEPT ![period] = @ + 1]
                           /\ UNCHANGED pushed
                     /\ UNCHANGED <<handlerVars, lock, delivered>>
<1>0. Push(i) \/ PushFails(i, TRUE) => Landed
  BY DEF Push, PushFails
<1>1. CASE Landed
  <2>1. queued'[1] > 0 /\ UNCHANGED <<handlerVars, lock, delivered>>
    BY <1>1, FirstPeriod DEF Calm, TypeOK
  <2>2. OfFirstPeriod'
    BY <1>1, <2>1, CalmParts DEF Calm, TypeOK, OfFirstPeriod, handlerVars, publishVars
  <2>3. LockVouches' /\ SuccessDelivers'
    BY <2>1, CalmParts DEF LockVouches, SuccessDelivers, Announced, handlerVars, publishVars
  <2>4. Kept'
    BY <2>1 DEF Kept, InFlight
  <2>5. QED
    BY <2>2, <2>3, <2>4 DEF CalmInv
<1>2. CASE ~ (Push(i) \/ PushFails(i, TRUE))
  <2>1. UNCHANGED <<queued, publishVars, handlerVars, lock, delivered>>
    BY <1>2 DEF publishVars,  Ingest, CacheHit, CacheMiss, ReadWarnings, Fill, AlreadyNotified,
                PushFails, Mark, Evict
  <2>2. QED
    BY <2>1, CalmFrame
<1>3. QED
  BY <1>0, <1>1, <1>2

\* An announcement stays one.
LEMMA AnnouncedStays ==
  ASSUME TypeOK, Announced(1),
         UNCHANGED delivered \/ \E o \in Owner, p \in Period : Deliver(o, p)
  PROVE  Announced(1)'
<1>1. PICK q \in Owner : delivered[q][1] > 0
  BY DEF Announced
<1>2. CASE UNCHANGED delivered
  BY <1>1, <1>2 DEF Announced
<1>3. ASSUME NEW o \in Owner, NEW p \in Period, Deliver(o, p)
      PROVE  Announced(1)'
  <2>1. delivered[q][1] \in Nat
    BY FirstPeriod DEF TypeOK
  <2>2. delivered'[q][1] > 0
    BY <1>1, <1>3, <2>1, FirstPeriod DEF Deliver, TypeOK
  <2>3. QED
    BY <2>2 DEF Announced
<1>4. QED
  BY <1>2, <1>3

\* A message is taken from the queue by a worker that then works for it.
LEMMA ReceiveCalm ==
  ASSUME TypeOK, CalmInv, Calm, NEW h \in Handler, NEW p \in Period, Receive(h, p)
  PROVE  CalmInv'
<1>1. p = 1
  BY CalmParts DEF Receive, OfFirstPeriod
<1>2. handler'[h] = "locking" /\ msg'[h] = 1
  BY <1>1 DEF Receive, Step, TypeOK
<1>3. OfFirstPeriod'
  BY <1>1, CalmParts DEF Receive, Step, TypeOK, OfFirstPeriod, publishVars
<1>4. LockVouches'
  BY CalmParts DEF Receive, Step, TypeOK, LockVouches, Announced
<1>5. SuccessDelivers'
  BY CalmParts DEF Receive, SuccessDelivers, Announced
<1>6. Kept'
  BY <1>2 DEF Kept, InFlight
<1>7. QED
  BY <1>3, <1>4, <1>5, <1>6 DEF CalmInv

\* The worker that takes the lock works for a message.
LEMMA AcquireCalm ==
  ASSUME TypeOK, CalmInv, Calm, NEW h \in Handler, Acquire(h)
  PROVE  CalmInv'
<1>1. handler'[h] = "fetching" /\ msg'[h] = 1
  BY CalmParts DEF Acquire, Step, TypeOK, OfFirstPeriod
<1>2. OfFirstPeriod'
  BY <1>1, CalmParts DEF Acquire, Step, TypeOK, OfFirstPeriod, publishVars
<1>3. LockVouches'
  BY <1>1 DEF LockVouches
<1>4. SuccessDelivers'
  BY CalmParts DEF Acquire, SuccessDelivers, Announced
<1>5. Kept'
  BY <1>1 DEF Kept, InFlight
<1>6. QED
  BY <1>2, <1>3, <1>4, <1>5 DEF CalmInv

\* A duplicate is dropped only when the lock vouches for the notification.
LEMMA SkipCalm ==
  ASSUME TypeOK, CalmInv, Calm, NEW h \in Handler, Skip(h)
  PROVE  CalmInv'
<1>1. Announced(1) \/ \E g \in Handler : handler[g] \in {"fetching", "fanning"} /\ g # h
  BY CalmParts DEF LockVouches, Skip
<1>2. \A g \in Handler : g # h => handler'[g] = handler[g]
  BY DEF Skip, Step, TypeOK
<1>3. OfFirstPeriod'
  BY CalmParts DEF Skip, Step, TypeOK, OfFirstPeriod, publishVars
<1>4. LockVouches'
  BY <1>1, <1>2 DEF LockVouches, Announced, Skip
<1>5. SuccessDelivers'
  BY CalmParts DEF Skip, SuccessDelivers, Announced
<1>6. Kept'
  <2>1. CASE Announced(1)
    BY <2>1 DEF Kept, Announced, Skip
  <2>2. CASE \E g \in Handler : handler[g] \in {"fetching", "fanning"} /\ g # h
    <3>1. PICK g \in Handler : handler[g] \in {"fetching", "fanning"} /\ g # h
      BY <2>2
    <3>2. handler'[g] # "idle" /\ msg'[g] = 1
      BY <1>2, <3>1, CalmParts DEF Skip, OfFirstPeriod
    <3>3. QED
      BY <3>2 DEF Kept, InFlight
  <2>3. QED
    BY <1>1, <2>1, <2>2
<1>7. QED
  BY <1>3, <1>4, <1>5, <1>6 DEF CalmInv

\* A worker goes on with its message.
LEMMA FetchCalm ==
  ASSUME TypeOK, CalmInv, Calm, NEW h \in Handler, Fetch(h)
  PROVE  CalmInv'
<1>1. handler'[h] = "fanning" /\ msg'[h] = 1
  BY CalmParts DEF Fetch, Step, TypeOK, OfFirstPeriod
<1>2. OfFirstPeriod'
  BY <1>1, CalmParts DEF Fetch, Step, TypeOK, OfFirstPeriod, publishVars
<1>3. LockVouches'
  BY <1>1 DEF LockVouches
<1>4. SuccessDelivers'
  BY CalmParts DEF Fetch, SuccessDelivers, Announced
<1>5. Kept'
  BY <1>1 DEF Kept, InFlight
<1>6. QED
  BY <1>2, <1>3, <1>4, <1>5 DEF CalmInv

\* A success that is counted was delivered.
LEMMA FanOutCalm ==
  ASSUME TypeOK, CalmInv, Calm, NEW h \in Handler, NEW o \in Owner, FanOut(h, o)
  PROVE  CalmInv'
<1>1. /\ handler[h] = "fanning" /\ msg[h] = 1
      /\ UNCHANGED <<handler, msg, queued, publishVars, lock>>
  BY CalmParts DEF FanOut, OfFirstPeriod
<1>2. OfFirstPeriod'
  BY <1>1, CalmParts DEF OfFirstPeriod, publishVars
<1>3. LockVouches'
  BY <1>1 DEF LockVouches
<1>4. Kept'
  BY <1>1 DEF Kept, InFlight
<1>5. SuccessDelivers'
  <2> SUFFICES ASSUME NEW g \in Handler, anyPushed'[g] PROVE Announced(1)'
    BY DEF SuccessDelivers
  <2>1. CASE anyPushed[g]
    <3>1. UNCHANGED delivered \/ Deliver(o, 1)
      BY <1>1 DEF FanOut
    <3>2. Announced(1)
      BY <2>1, CalmParts DEF SuccessDelivers
    <3>3. QED
      BY <3>1, <3>2, AnnouncedStays, FirstPeriod
  <2>2. CASE ~ anyPushed[g]
    <3>1. Deliver(o, 1)
      BY <1>1, <2>2 DEF FanOut
    <3>2. delivered[o][1] \in Nat
      BY FirstPeriod DEF TypeOK
    <3>3. delivered'[o][1] > 0
      BY <3>1, <3>2, FirstPeriod DEF Deliver, TypeOK
    <3>4. QED
      BY <3>3 DEF Announced
  <2>3. QED
    BY <2>1, <2>2
<1>6. QED
  BY <1>2, <1>3, <1>4, <1>5 DEF CalmInv

\* A worker that ends with a success leaves the lock and a delivery behind.
LEMMA FinishCalm ==
  ASSUME TypeOK, CalmInv, Calm, NEW h \in Handler, Finish(h)
  PROVE  CalmInv'
<1>1. Announced(1)'
  BY CalmParts DEF Finish, SuccessDelivers, Announced
<1>2. OfFirstPeriod'
  BY CalmParts DEF Finish, Step, TypeOK, OfFirstPeriod, publishVars
<1>3. QED
  BY <1>1, <1>2 DEF CalmInv, LockVouches, SuccessDelivers, Kept

\* One whose pushes all failed returns the message and frees the lock.
LEMMA AllFailedCalm ==
  ASSUME TypeOK, CalmInv, Calm, NEW h \in Handler, AllFailed(h), ~ Fault("cache")
  PROVE  CalmInv'
<1>1. msg[h] = 1 /\ lock' = FALSE
  BY CalmParts DEF AllFailed, OfFirstPeriod
<1>2. queued'[1] > 0
  BY <1>1, FirstPeriod DEF AllFailed, Requeue, TypeOK
<1>3. OfFirstPeriod'
  BY <1>1, CalmParts DEF AllFailed, Requeue, Step, TypeOK, OfFirstPeriod, publishVars
<1>4. SuccessDelivers'
  BY CalmParts DEF AllFailed, Requeue, TypeOK, SuccessDelivers, Announced
<1>5. LockVouches' /\ Kept'
  BY <1>1, <1>2 DEF LockVouches, Kept, InFlight
<1>6. QED
  BY <1>3, <1>4, <1>5 DEF CalmInv

\* An expired lock vouches for nothing.
LEMMA ExpiryCalm ==
  ASSUME TypeOK, CalmInv, Calm, LockExpires
  PROVE  CalmInv'
BY CalmParts DEF LockExpires, CalmInv, OfFirstPeriod, LockVouches, SuccessDelivers, Kept,
                 InFlight, Announced, handlerVars, publishVars

\* Every step keeps the notification.
LEMMA NextCalm == TypeOK /\ TypeOK' /\ CalmInv /\ [Next]_vars => CalmInv'
<1> SUFFICES ASSUME TypeOK, TypeOK', CalmInv, [Next]_vars, Calm' PROVE CalmInv'
  BY DEF CalmInv
<1>1. Calm /\ ~ Fault("fetch") /\ ~ Fault("crash") /\ ~ Fault("cache")
  BY CalmBefore
<1>2. ASSUME NEW i \in Ingester, Ingest(i) \/ IngesterCrash(i) PROVE CalmInv'
  BY <1>1, <1>2, IngestCalm DEF IngesterCrash
<1>3. ASSUME NEW h \in Handler, Handle(h) \/ HandlerCrash(h) PROVE CalmInv'
  BY <1>1, <1>3, ReceiveCalm, AcquireCalm, SkipCalm, FetchCalm, FanOutCalm, FinishCalm,
     AllFailedCalm DEF Handle, AcquireError, FetchError, HandlerCrash
<1>4. CASE LockExpires
  BY <1>1, <1>4, ExpiryCalm
<1>5. CASE CacheExpires \/ UNCHANGED vars
  BY <1>1, <1>5, CalmFrame DEF CacheExpires, vars
<1>6. CASE NewPeriod
  BY <1>1, <1>6, CalmFrame DEF NewPeriod
<1>7. QED
  BY <1>2, <1>3, <1>4, <1>5, <1>6 DEF Next

\* What the invariant says of lost notifications.
LEMMA CalmKeeps == TypeOK /\ CalmInv => NotLost
<1> SUFFICES ASSUME TypeOK, CalmInv, period = 1,
                    faults["fetch"] + faults["crash"] + faults["cache"] = 0
             PROVE  NeverLost
  BY DEF NotLost
<1>1. faults["fetch"] \in Nat /\ faults["crash"] \in Nat /\ faults["cache"] \in Nat
  BY DEF TypeOK, FaultKind
<1>2. Calm
  BY <1>1 DEF Calm
<1>3. ASSUME NEW p \in Period, pushed[p] + unconfirmed[p] > 0
      PROVE  p = 1 /\ (pushed[1] > 0 \/ unconfirmed[1] > 0)
  <2>1. pushed[p] \in Nat /\ unconfirmed[p] \in Nat
    BY DEF TypeOK
  <2>2. pushed[p] > 0 \/ unconfirmed[p] > 0
    BY <1>3, <2>1
  <2>3. QED
    BY <1>2, <2>2, CalmParts DEF OfFirstPeriod
<1>4. QED
  BY <1>2, <1>3, CalmParts DEF NeverLost, Kept

\* As long as the cache answers and no worker fails between lock and
\* fan-out, a notification pushed by send_soft_limit_notification is still
\* on its way or has reached an owner: neither a skipped duplicate nor a
\* fan-out that failed altogether nor a lock that expired loses it.
THEOREM NotificationNotLost == Spec => []NotLost
<1>1. Spec => []CalmInv
  BY TypeCorrect, InitCalm, NextCalm, PTL DEF Spec
<1>2. QED
  BY <1>1, TypeCorrect, CalmKeeps, PTL

-----------------------------------------------------------------------------
(* Repeated notifications.                                                 *)

NoRepeatFault == faults["db"] + faults["cache"] + faults["crash"] = 0

StaleCache == \E v \in cached : v < period

\* Workers about to cache a value of an earlier period; workers that have
\* pushed and not marked yet; workers that can push without another such fill.
StaleFill == {i \in Ingester : ingester[i] = "filling" /\ seen[i] < period}
Marking == {i \in Ingester : ingester[i] = "marking"}
MayPush ==
  {i \in Ingester :
     \/ ingester[i] = "checking" /\ seen[i] < period
     \/ StaleCache /\ i \notin StaleFill /\ ingester[i] \notin {"marking", "evicting"}}

Workers == Cardinality(Ingester)

\* Nothing is of a later period than the current one.
InTime ==
  /\ lastNotified <= period
  /\ \A i \in Ingester : seen[i] <= period
  /\ \A v \in cached : v <= period
  /\ \A q \in Period : q > period => pushed[q] = 0
  /\ \A q \in Period : q < period => 2 * pushed[q] <= Workers * (Workers + 1)

\* Until the row is marked every push has its worker marking it. From then on
\* nobody reads an old row, and the f workers that still hold one can let the
\* others push once each, one after the other: n + (n - 1) + ... + (n - f + 1).
RepeatsInv ==
  NoRepeatFault =>
    /\ InTime
    /\ lastNotified < period => pushed[period] <= Cardinality(Marking)
    /\ lastNotified = period =>
         LET f == Cardinality(StaleFill) IN
         2 * (pushed[period] + Cardinality(MayPush)) + f * (2 * Workers - f + 1)
           <= Workers * (Workers + 1)

\* The counters of the current period are numbers.
LEMMA Current ==
  ASSUME TypeOK
  PROVE  /\ period \in Nat /\ lastNotified \in Nat /\ MaxPeriod \in Nat
         /\ pushed[period] \in Nat
         /\ \A i \in Ingester : seen[i] \in Nat
         /\ \A v \in cached : v \in Nat
<1>1. Period \subseteq Nat /\ 0..MaxPeriod \subseteq Nat /\ MaxPeriod \in Nat
  BY WarningsAssumption DEF Period
<1>2. period \in Period /\ pushed \in [Period -> Nat]
  BY DEF TypeOK
<1>3. QED
  BY <1>1, <1>2 DEF TypeOK

\* Three facts about n + (n - 1) + ... and its first f terms.
LEMMA TriangleFill ==
  ASSUME NEW n \in Nat, NEW f \in Nat, f >= 1
  PROVE  (f - 1) * (2 * n - (f - 1) + 1) = f * (2 * n - f + 1) - 2 * n + 2 * f - 2
OBVIOUS

LEMMA TriangleSplit ==
  ASSUME NEW f \in Nat, NEW d \in Nat
  PROVE  (f + d) * (f + d + 1) = f * (2 * (f + d) - f + 1) + d * (d + 1)
OBVIOUS

LEMMA TriangleAbove ==
  ASSUME NEW d \in Nat
  PROVE  2 * d <= d * (d + 1)
<1>1. CASE d = 0
  BY <1>1
<1>2. CASE d # 0
  <2> DEFINE e == d - 1
  <2>1. e \in Nat /\ d = e + 1
    BY <1>2
  <2>2. d * e \in Nat
    BY <2>1
  <2> HIDE DEF e
  <2>3. d * (d + 1) = d * e + 2 * d
    BY <2>1
  <2>4. QED
    BY <2>2, <2>3
<1>3. QED
  BY <1>1, <1>2

\* The workers are finitely many, and so are those in each of the three sets.
LEMMA Counts ==
  /\ Workers \in Nat
  /\ IsFiniteSet(StaleFill) /\ Cardinality(StaleFill) \in Nat /\ Cardinality(StaleFill) <= Workers
  /\ IsFiniteSet(MayPush) /\ Cardinality(MayPush) \in Nat /\ Cardinality(MayPush) <= Workers
  /\ IsFiniteSet(Marking) /\ Cardinality(Marking) \in Nat /\ Cardinality(Marking) <= Workers
<1>1. IsFiniteSet(Ingester)
  BY WarningsAssumption
<1>2. StaleFill \subseteq Ingester /\ MayPush \subseteq Ingester /\ Marking \subseteq Ingester
  BY DEF StaleFill, MayPush, Marking
<1>3. QED
  BY <1>1, <1>2, FS_Subset, FS_CardinalityType DEF Workers

\* The same in the next state.
LEMMA CountsPrime ==
  /\ IsFiniteSet(StaleFill') /\ Cardinality(StaleFill') \in Nat /\ Cardinality(StaleFill') <= Workers
  /\ IsFiniteSet(MayPush') /\ Cardinality(MayPush') \in Nat /\ Cardinality(MayPush') <= Workers
  /\ IsFiniteSet(Marking') /\ Cardinality(Marking') \in Nat /\ Cardinality(Marking') <= Workers
<1>1. IsFiniteSet(Ingester)
  BY WarningsAssumption
<1>2. StaleFill' \subseteq Ingester /\ MayPush' \subseteq Ingester /\ Marking' \subseteq Ingester
  BY DEF StaleFill, MayPush, Marking
<1>3. QED
  BY <1>1, <1>2, FS_Subset, FS_CardinalityType DEF Workers

\* No new push and nobody new who may: the bounds stay.
LEMMA NoMoreRepeats ==
  ASSUME TypeOK, RepeatsInv, NoRepeatFault, InTime',
         UNCHANGED <<period, lastNotified, pushed>>,
         lastNotified < period => Marking \subseteq Marking',
         lastNotified = period => StaleFill' = StaleFill /\ MayPush' \subseteq MayPush
  PROVE  RepeatsInv'
<1>1. CASE lastNotified < period
  <2>1. Cardinality(Marking) <= Cardinality(Marking')
    BY <1>1, CountsPrime, FS_Subset
  <2>2. pushed[period] <= Cardinality(Marking) /\ pushed[period] \in Nat
    BY <1>1 DEF RepeatsInv, TypeOK
  <2>3. pushed'[period'] <= Cardinality(Marking')
    BY <2>1, <2>2, Counts, CountsPrime
  <2>4. ~(lastNotified' = period')
    BY <1>1 DEF TypeOK, Period
  <2>5. QED
    BY <2>3, <2>4 DEF RepeatsInv
<1>2. CASE lastNotified = period
  <2> DEFINE f == Cardinality(StaleFill)
             g == Cardinality(MayPush)
             h == Cardinality(MayPush')
             t == f * (2 * Workers - f + 1)
             b == Workers * (Workers + 1)
  <2>1. h <= g
    BY <1>2, Counts, FS_Subset
  <2>2. 2 * (pushed[period] + g) + t <= b
    BY <1>2 DEF RepeatsInv
  <2>3. pushed[period] \in Nat
    BY DEF TypeOK
  <2>4. t \in Int /\ b \in Int
    <3>1. f \in Nat /\ Workers \in Nat
      BY Counts
    <3> HIDE DEF f
    <3>2. QED
      BY <3>1
  <2>5. 2 * (pushed[period] + h) + t <= b
    <3>1. g \in Nat /\ h \in Nat
      BY Counts, CountsPrime
    <3> HIDE DEF f, g, h, t, b
    <3>2. QED
      BY <2>1, <2>2, <2>3, <2>4, <3>1
  <2>6. Cardinality(StaleFill') = f
    BY <1>2
  <2>7. ~(lastNotified' < period')
    BY <1>2 DEF TypeOK, Period
  <2>8. 2 * (pushed'[period'] + h) + t <= b
    BY <2>5
  <2>9. QED
    BY <2>6, <2>7, <2>8 DEF RepeatsInv, Workers
<1>3. lastNotified < period \/ lastNotified = period
  BY DEF RepeatsInv, InTime, TypeOK, Period
<1>4. QED
  BY <1>1, <1>2, <1>3

\* A worker pushes: it leaves those who may, or joins those who mark.
LEMMA PushRepeats ==
  ASSUME TypeOK, RepeatsInv, NoRepeatFault, NEW i \in Ingester, Push(i)
  PROVE  RepeatsInv'
<1>1. /\ ingester[i] = "checking" /\ seen[i] < period
      /\ pushed' = [pushed EXCEPT ![period] = pushed[period] + 1]
      /\ ingester' = [ingester EXCEPT ![i] = "marking"]
      /\ UNCHANGED <<period, lastNotified, cached, seen>>
  BY DEF Push, Goto
<1>2. /\ period \in Period /\ pushed \in [Period -> Nat] /\ period \in Nat
      /\ lastNotified \in Nat
  BY DEF TypeOK, Period
<1>3. /\ ingester'[i] = "marking"
      /\ \A j \in Ingester : j # i => ingester'[j] = ingester[j]
      /\ pushed'[period] = pushed[period] + 1
      /\ \A q \in Period : q # period => pushed'[q] = pushed[q]
  BY <1>1, <1>2 DEF TypeOK
<1>4. InTime'
  BY <1>1, <1>2, <1>3 DEF RepeatsInv, InTime, Workers
<1>5. CASE lastNotified < period
  <2>1. Marking' = Marking \cup {i} /\ i \notin Marking
    BY <1>1, <1>3 DEF Marking
  <2>2. Cardinality(Marking') = Cardinality(Marking) + 1
    BY <2>1, Counts, FS_AddElement
  <2>3. pushed[period] <= Cardinality(Marking)
    BY <1>5 DEF RepeatsInv
  <2>4. pushed'[period'] <= Cardinality(Marking')
    BY <1>1, <1>2, <1>3, <2>2, <2>3, Counts
  <2>5. ~(lastNotified' = period')
    BY <1>1, <1>2, <1>5
  <2>6. QED
    BY <1>4, <2>4, <2>5 DEF RepeatsInv
<1>6. CASE lastNotified = period
  <2> DEFINE f == Cardinality(StaleFill)
             g == Cardinality(MayPush)
             h == Cardinality(MayPush')
             t == f * (2 * Workers - f + 1)
             b == Workers * (Workers + 1)
  <2>1. i \in MayPush /\ MayPush' \subseteq MayPush \ {i}
    BY <1>1, <1>3 DEF MayPush, StaleFill, StaleCache
  <2>2. h <= g - 1
    <3>1. IsFiniteSet(MayPush \ {i}) /\ Cardinality(MayPush \ {i}) = g - 1
      BY <2>1, Counts, FS_RemoveElement
    <3>2. h <= Cardinality(MayPush \ {i})
      BY <2>1, <3>1, FS_Subset
    <3>3. QED
      BY <3>1, <3>2
  <2>3. StaleFill' = StaleFill
    BY <1>1, <1>3 DEF StaleFill
  <2>4. 2 * (pushed[period] + g) + t <= b
    BY <1>6 DEF RepeatsInv
  <2>5. t \in Int /\ b \in Int
    <3>1. f \in Nat /\ Workers \in Nat
      BY Counts
    <3> HIDE DEF f
    <3>2. QED
      BY <3>1
  <2>6. 2 * (pushed'[period] + h) + t <= b
    <3>1. g \in Nat /\ h \in Nat /\ pushed[period] \in Nat
      BY Counts, CountsPrime, <1>2
    <3> HIDE DEF f, g, h, t, b
    <3>2. QED
      BY <1>3, <2>2, <2>4, <2>5, <3>1
  <2>7. ~(lastNotified' < period')
    BY <1>1, <1>2, <1>6
  <2>8. Cardinality(StaleFill') = f
    BY <2>3
  <2>9. 2 * (pushed'[period'] + h) + t <= b
    BY <1>1, <2>6
  <2>10. QED
    BY <1>4, <2>7, <2>8, <2>9 DEF RepeatsInv, Workers
<1>7. lastNotified < period \/ lastNotified = period
  BY <1>2 DEF RepeatsInv, InTime
<1>8. QED
  BY <1>5, <1>6, <1>7

\* A worker caches an old value: it holds one no more, and who is not about to
\* cache another, to mark or to evict may push.
LEMMA FillRepeats ==
  ASSUME TypeOK, RepeatsInv, NoRepeatFault, NEW i \in Ingester,
         ingester[i] = "filling", cached' = {seen[i]},
         ingester' = [ingester EXCEPT ![i] = "checking"],
         UNCHANGED <<period, lastNotified, seen, pushed>>
  PROVE  RepeatsInv'
<1>1. period \in Nat /\ lastNotified \in Nat /\ pushed[period] \in Nat /\ seen[i] \in Nat
  BY Current
<1>2. /\ ingester'[i] = "checking"
      /\ \A j \in Ingester : j # i => ingester'[j] = ingester[j]
  BY DEF TypeOK
<1>3. InTime'
  BY DEF RepeatsInv, InTime, Workers
<1>4. CASE lastNotified < period
  <2>1. Marking' = Marking
    BY <1>2 DEF Marking
  <2>2. QED
    BY <1>1, <1>3, <1>4, <2>1, NoMoreRepeats
<1>5. CASE lastNotified = period /\ ~(seen[i] < period)
  <2>1. StaleFill' = StaleFill
    BY <1>2, <1>5 DEF StaleFill
  <2>2. ~StaleCache'
    BY <1>5 DEF StaleCache
  <2>3. MayPush' \subseteq MayPush
    BY <1>2, <1>5, <2>2 DEF MayPush
  <2>4. QED
    BY <1>1, <1>3, <1>5, <2>1, <2>3, NoMoreRepeats
<1>6. CASE lastNotified = period /\ seen[i] < period
  <2> DEFINE f == Cardinality(StaleFill)
             e == Cardinality(StaleFill')
             g == Cardinality(MayPush)
             h == Cardinality(MayPush')
             n == Workers
             t == f * (2 * n - f + 1)
             b == n * (n + 1)
  <2>1. i \in StaleFill /\ StaleFill' = StaleFill \ {i}
    BY <1>2, <1>6 DEF StaleFill
  <2>2. e = f - 1 /\ f >= 1
    BY <2>1, Counts, CountsPrime, FS_RemoveElement
  <2>3. h + e <= n
    <3>1. MayPush' \cap StaleFill' = {} /\ MayPush' \cup StaleFill' \subseteq Ingester
      <4>1. MayPush' \cap StaleFill' = {}
        BY DEF MayPush, StaleFill
      <4>2. QED
        BY <4>1 DEF MayPush, StaleFill
    <3>2. Cardinality(MayPush' \cup StaleFill') = h + e
      <4>1. Cardinality(MayPush' \cap StaleFill') = 0
        BY <3>1, FS_EmptySet
      <4>2. Cardinality(MayPush' \cup StaleFill') = h + e - Cardinality(MayPush' \cap StaleFill')
        BY CountsPrime, FS_Union
      <4>3. QED
        BY <4>1, <4>2, CountsPrime
    <3>3. Cardinality(MayPush' \cup StaleFill') <= n
      BY <3>1, WarningsAssumption, FS_Subset DEF Workers
    <3>4. QED
      BY <3>2, <3>3
  <2>4. f \in Nat /\ g \in Nat /\ h \in Nat /\ n \in Nat
    BY Counts, CountsPrime
  <2>5. 2 * (pushed[period] + g) + t <= b
    BY <1>6 DEF RepeatsInv
  <2>6. e * (2 * n - e + 1) = t - 2 * n + 2 * f - 2
    <3> HIDE DEF e, f, n
    <3>1. QED
      BY <2>2, <2>4, TriangleFill
  <2>7. t \in Int /\ b \in Int
    <3> HIDE DEF f, n
    <3>1. QED
      BY <2>4
  <2>8. 2 * (pushed[period] + h) + e * (2 * n - e + 1) <= b
    <3> DEFINE y == e * (2 * n - e + 1)
    <3>1. y = t - 2 * n + 2 * f - 2
      BY <2>6
    <3> HIDE DEF e, f, g, h, n, t, b, y
    <3>2. QED
      BY <1>1, <2>2, <2>3, <2>4, <2>5, <2>7, <3>1 DEF y
  <2>9. ~(lastNotified' < period') /\ NoRepeatFault
    BY <1>1, <1>6
  <2>10. 2 * (pushed'[period'] + h) + e * (2 * n - e + 1) <= b
    BY <2>8
  <2>11. QED
    BY <1>3, <2>9, <2>10 DEF RepeatsInv, Workers
<1>7. lastNotified < period \/ lastNotified = period
  BY <1>1 DEF RepeatsInv, InTime
<1>8. QED
  BY <1>4, <1>5, <1>6, <1>7

\* The row is marked: the first time in a period, whoever has pushed is marking,
\* and one of them at least holds no old row to cache.
LEMMA MarkRepeats ==
  ASSUME TypeOK, RepeatsInv, NoRepeatFault, NEW i \in Ingester,
         ingester[i] = "marking", lastNotified' = period,
         ingester' = [ingester EXCEPT ![i] = "evicting"],
         UNCHANGED <<period, cached, seen, pushed>>
  PROVE  RepeatsInv'
<1>1. period \in Nat /\ lastNotified \in Nat /\ pushed[period] \in Nat
  BY Current
<1>2. /\ ingester'[i] = "evicting"
      /\ \A j \in Ingester : j # i => ingester'[j] = ingester[j]
  BY DEF TypeOK
<1>3. InTime'
  BY <1>1 DEF RepeatsInv, InTime, Workers
<1>4. StaleFill' = StaleFill
  BY <1>2 DEF StaleFill
<1>5. MayPush' \subseteq MayPush
  BY <1>2, <1>4 DEF MayPush, StaleCache
<1>6. CASE lastNotified = period
  BY <1>1, <1>3, <1>4, <1>5, <1>6, NoMoreRepeats
<1>7. CASE lastNotified < period
  <2> DEFINE f == Cardinality(StaleFill)
             h == Cardinality(MayPush')
             m == Cardinality(Marking)
             n == Workers
             d == n - f
             t == f * (2 * n - f + 1)
             b == n * (n + 1)
  <2>1. i \in Marking /\ i \in Ingester
    BY DEF Marking
  <2>2. m >= 1
    <3>1. Cardinality(Marking \ {i}) = m - 1 /\ Cardinality(Marking \ {i}) \in Nat
      BY <2>1, Counts, FS_RemoveElement, FS_CardinalityType
    <3>2. QED
      BY <3>1, Counts
  <2>3. h + f + m <= n
    <3>1. MayPush' \cap StaleFill = {}
      <4>1. MayPush' \cap StaleFill' = {}
        BY DEF MayPush, StaleFill
      <4>2. QED
        BY <1>4, <4>1
    <3>2. (MayPush' \cup StaleFill) \cap Marking = {}
      <4>1. MayPush \cap Marking = {}
        BY DEF MayPush, Marking
      <4>2. StaleFill \cap Marking = {}
        BY DEF StaleFill, Marking
      <4>3. QED
        BY <1>5, <4>1, <4>2
    <3>3. Cardinality({}) = 0
      BY FS_EmptySet
    <3>4. IsFiniteSet(MayPush' \cup StaleFill) /\ Cardinality(MayPush' \cup StaleFill) = h + f - 0
      BY <3>1, <3>3, Counts, CountsPrime, FS_Union
    <3>5. Cardinality((MayPush' \cup StaleFill) \cup Marking)
            = Cardinality(MayPush' \cup StaleFill) + m - 0
      <4> DEFINE A == MayPush' \cup StaleFill
      <4>1. IsFiniteSet(A) /\ IsFiniteSet(Marking) /\ Cardinality(A \cap Marking) = 0
        BY <3>2, <3>3, <3>4, Counts
      <4> HIDE DEF A
      <4>2. Cardinality(A \cup Marking) = Cardinality(A) + m - Cardinality(A \cap Marking)
        BY <4>1, FS_Union
      <4>3. QED
        BY <4>1, <4>2 DEF A
    <3>6. Cardinality((MayPush' \cup StaleFill) \cup Marking) <= n
      <4>1. (MayPush' \cup StaleFill) \cup Marking \subseteq Ingester
        BY <1>5 DEF MayPush, StaleFill, Marking
      <4>2. QED
        BY <4>1, WarningsAssumption, FS_Subset DEF Workers
    <3>7. f \in Nat /\ h \in Nat /\ m \in Nat /\ n \in Nat
      BY Counts, CountsPrime
    <3> HIDE DEF f, h, m, n
    <3>8. QED
      BY <3>4, <3>5, <3>6, <3>7
  <2>4. f \in Nat /\ h \in Nat /\ m \in Nat /\ n \in Nat
    BY Counts, CountsPrime
  <2>5. pushed[period] <= m
    BY <1>7 DEF RepeatsInv
  <2> HIDE DEF f, h, m, n
  <2>6. d \in Nat /\ f + d = n /\ h + m <= d
    BY <2>3, <2>4
  <2>7. n * (n + 1) = f * (2 * n - f + 1) + d * (d + 1)
    <3> HIDE DEF d
    <3>1. QED
      BY <2>4, <2>6, TriangleSplit
  <2>8. 2 * d <= d * (d + 1)
    <3> HIDE DEF d
    <3>1. QED
      BY <2>6, TriangleAbove
  <2>9. 2 * (pushed[period] + h) + t <= b
    <3> DEFINE y == d * (d + 1)
    <3>1. b = t + y /\ 2 * d <= y
      BY <2>7, <2>8
    <3>2. t \in Int /\ b \in Int /\ y \in Int
      BY <2>4
    <3> HIDE DEF t, b, y, d
    <3>3. QED
      BY <1>1, <2>4, <2>5, <2>6, <3>1, <3>2
  <2>10. ~(lastNotified' < period')
    BY <1>1
  <2>11. Cardinality(StaleFill') = f /\ Cardinality(MayPush') = h
    BY <1>4 DEF f, h
  <2>12. 2 * (pushed'[period'] + h) + t <= b
    BY <2>9
  <2>13. QED
    BY <1>3, <2>10, <2>11, <2>12 DEF RepeatsInv, Workers, n
<1>8. lastNotified < period \/ lastNotified = period
  BY <1>1 DEF RepeatsInv, InTime
<1>9. QED
  BY <1>6, <1>7, <1>8

\* What RepeatsInv says of the current period is within the bound.
LEMMA CurrentBounded ==
  ASSUME TypeOK, RepeatsInv, NoRepeatFault
  PROVE  2 * pushed[period] <= Workers * (Workers + 1)
<1>1. period \in Nat /\ lastNotified \in Nat /\ pushed[period] \in Nat
  BY Current
<1> DEFINE n == Workers
           b == n * (n + 1)
<1>2. n \in Nat /\ b \in Int
  BY Counts
<1>3. 2 * n <= b
  <2>1. n \in Nat
    BY <1>2
  <2> HIDE DEF n
  <2>2. QED
    BY <2>1, TriangleAbove
<1>4. CASE lastNotified < period
  <2> DEFINE m == Cardinality(Marking)
  <2>1. pushed[period] <= m /\ m <= n /\ m \in Nat
    BY <1>4, Counts DEF RepeatsInv
  <2> HIDE DEF n, b, m
  <2>2. 2 * pushed[period] <= b
    BY <1>1, <1>2, <1>3, <2>1
  <2>3. QED
    BY <2>2 DEF b, n
<1>5. CASE lastNotified = period
  <2> DEFINE f == Cardinality(StaleFill)
             g == Cardinality(MayPush)
             t == f * (2 * n - f + 1)
  <2>1. 2 * (pushed[period] + g) + t <= b
    BY <1>5 DEF RepeatsInv
  <2>2. g \in Nat /\ f \in Nat /\ f <= n
    BY Counts
  <2>3. t \in Nat
    <3> DEFINE r == 2 * n - f + 1
    <3>1. r \in Nat
      <4> HIDE DEF f, n
      <4>1. QED
        BY <1>2, <2>2
    <3> HIDE DEF f, r
    <3>2. f * r \in Nat
      BY <2>2, <3>1
    <3>3. QED
      BY <3>2 DEF r
  <2> HIDE DEF n, b, g, t
  <2>4. 2 * pushed[period] <= b
    BY <1>1, <1>2, <2>1, <2>2, <2>3
  <2>5. QED
    BY <2>4 DEF b, n
<1>6. QED
  BY <1>1, <1>4, <1>5 DEF RepeatsInv, InTime

\* A new period starts with nothing pushed and no row of it to read.
LEMMA NewPeriodRepeats ==
  ASSUME TypeOK, RepeatsInv, NoRepeatFault, NewPeriod
  PROVE  RepeatsInv'
<1>1. /\ period' = period + 1 /\ period < MaxPeriod
      /\ UNCHANGED <<lastNotified, cached, ingester, seen, pushed>>
  BY DEF NewPeriod, ingestVars, publishVars
<1>2. /\ period \in Nat /\ lastNotified \in Nat /\ MaxPeriod \in Nat
      /\ period + 1 \in Period /\ period \in Period
      /\ Period \subseteq Nat
      /\ \A q \in Period : pushed[q] \in Nat
      /\ \A i \in Ingester : seen[i] \in Nat
      /\ \A v \in cached : v \in Nat
  BY <1>1, WarningsAssumption DEF TypeOK, Period
<1>3. 2 * pushed[period] <= Workers * (Workers + 1)
  BY CurrentBounded
<1>4. InTime'
  <2>1. InTime
    BY DEF RepeatsInv
  <2>2. \A q \in Period : q < period + 1 => 2 * pushed[q] <= Workers * (Workers + 1)
    BY <1>2, <1>3, <2>1 DEF InTime
  <2>3. QED
    BY <1>1, <1>2, <2>1, <2>2 DEF InTime, Workers
<1>5. lastNotified' < period' /\ pushed'[period'] = 0
  BY <1>1, <1>2 DEF RepeatsInv, InTime
<1>6. Cardinality(Marking') \in Nat
  BY CountsPrime
<1>7. ~(lastNotified' = period') /\ pushed'[period'] <= Cardinality(Marking')
  BY <1>1, <1>2, <1>5, <1>6
<1>8. QED
  BY <1>4, <1>7 DEF RepeatsInv

\* Every step keeps the bounds.
LEMMA RepeatsStep ==
  ASSUME TypeOK, RepeatsInv, [Next]_vars
  PROVE  RepeatsInv'
<1> SUFFICES ASSUME NoRepeatFault' PROVE RepeatsInv'
  BY DEF RepeatsInv
<1>1. TypeOK'
  BY NextTypes
<1>2. \A k \in FaultKind : faults[k] \in Nat /\ faults'[k] \in Nat
  BY <1>1 DEF TypeOK
<1>3. faults'["db"] = 0 /\ faults'["cache"] = 0 /\ faults'["crash"] = 0
  BY <1>2 DEF NoRepeatFault, FaultKind
<1>4. ASSUME NEW k \in {"db", "cache", "crash"}, Fault(k) PROVE FALSE
  <2>1. k \in FaultKind /\ faults'[k] = faults[k] + 1
    BY <1>4, FaultTypes DEF FaultKind
  <2>2. QED
    BY <2>1, <1>2, <1>3, <1>4
<1>5. NoRepeatFault
  <2>1. \A k \in FaultKind : faults'[k] >= faults[k]
    BY FaultsGrow
  <2>2. QED
    BY <2>1, <1>2, <1>3 DEF NoRepeatFault, FaultKind
<1>6. InTime /\ Workers \in Nat
  BY <1>5, Counts DEF RepeatsInv
<1> DEFINE Times == UNCHANGED <<period, lastNotified, pushed>>
<1>7. ASSUME UNCHANGED <<period, lastNotified, cached, ingestVars, pushed>>
      PROVE  RepeatsInv'
  <2>1. InTime' /\ StaleFill' = StaleFill /\ MayPush' = MayPush /\ Marking' = Marking
    BY <1>6, <1>7 DEF InTime, StaleFill, MayPush, Marking, StaleCache, ingestVars,
       publishVars, Workers
  <2>2. QED
    BY <1>5, <1>7, <2>1, NoMoreRepeats
<1>8. ASSUME NEW i \in Ingester, Times, InTime',
             \A j \in Ingester : j # i => ingester'[j] = ingester[j] /\ seen'[j] = seen[j],
             ingester[i] # "marking" /\ (ingester[i] = "filling" => ~(seen[i] < period)),
             lastNotified = period /\ ingester'[i] = "filling" => ~(seen'[i] < period),
             StaleCache' => StaleCache,
             ingester'[i] = "checking" /\ seen'[i] < period => i \in MayPush,
             StaleCache' /\ lastNotified = period => i \in MayPush \/ i \notin MayPush'
      PROVE  RepeatsInv'
  <2>1. Marking \subseteq Marking'
    BY <1>8 DEF Marking
  <2>2. lastNotified = period => StaleFill' = StaleFill
    BY <1>8 DEF StaleFill
  <2>3. ASSUME lastNotified = period PROVE MayPush' \subseteq MayPush
    <3>1. ASSUME NEW j \in MayPush', j # i PROVE j \in MayPush
      BY <1>8, <2>2, <2>3, <3>1 DEF MayPush
    <3>2. i \in MayPush' => i \in MayPush
      BY <1>8, <2>3 DEF MayPush
    <3>3. QED
      BY <3>1, <3>2
  <2>4. QED
    BY <1>5, <1>8, <2>1, <2>2, <2>3, NoMoreRepeats
<1>9. ASSUME NEW i \in Ingester, Ingest(i) PROVE RepeatsInv'
  <2> USE DEF Goto
  <2>1. /\ ingester \in [Ingester -> {"idle", "reading", "filling", "checking", "marking", "evicting"}]
        /\ seen \in [Ingester -> 0..MaxPeriod]
    BY DEF TypeOK
  <2>2. CASE CacheHit(i)
    <3>1. PICK v \in cached : seen' = [seen EXCEPT ![i] = v]
      BY <2>2 DEF CacheHit, publishVars
    <3>2. /\ ingester[i] = "idle" /\ ingester' = [ingester EXCEPT ![i] = "checking"]
          /\ UNCHANGED <<period, lastNotified, cached, pushed>>
      BY <2>2 DEF CacheHit, publishVars
    <3>3. /\ ingester'[i] = "checking" /\ seen'[i] = v
          /\ \A j \in Ingester : j # i => ingester'[j] = ingester[j] /\ seen'[j] = seen[j]
      BY <2>1, <3>1, <3>2
    <3>4. InTime'
      BY <1>6, <3>2, <3>3 DEF InTime, Workers
    <3>5. i \notin StaleFill
      BY <3>2 DEF StaleFill
    <3>6. v < period => i \in MayPush
      BY <3>2, <3>5 DEF MayPush, StaleCache
    <3>7. StaleCache => i \in MayPush
      BY <3>2, <3>5 DEF MayPush
    <3>8. StaleCache' => StaleCache
      BY <3>2 DEF StaleCache
    <3>9. QED
      BY <1>8, <3>2, <3>3, <3>4, <3>6, <3>7, <3>8
  <2>3. CASE CacheMiss(i)
    <3>1. cached = {}
      BY <1>4, <2>3 DEF CacheMiss, publishVars
    <3>2. /\ ingester[i] = "idle" /\ ingester' = [ingester EXCEPT ![i] = "reading"]
          /\ UNCHANGED <<period, lastNotified, cached, pushed, seen>>
      BY <2>3 DEF CacheMiss, publishVars
    <3>3. /\ ingester'[i] = "reading"
          /\ \A j \in Ingester : j # i => ingester'[j] = ingester[j] /\ seen'[j] = seen[j]
      BY <2>1, <3>2
    <3>4. InTime' /\ ~StaleCache'
      BY <1>6, <3>1, <3>2 DEF InTime, StaleCache, Workers
    <3>5. QED
      BY <1>8, <3>2, <3>3, <3>4
  <2>4. CASE ReadWarnings(i)
    <3>1. /\ ingester[i] = "reading" /\ ingester' = [ingester EXCEPT ![i] = "filling"]
          /\ seen' = [seen EXCEPT ![i] = lastNotified]
          /\ UNCHANGED <<period, lastNotified, cached, pushed>>
      BY <1>4, <2>4 DEF ReadWarnings, publishVars
    <3>2. /\ ingester'[i] = "filling" /\ seen'[i] = lastNotified
          /\ \A j \in Ingester : j # i => ingester'[j] = ingester[j] /\ seen'[j] = seen[j]
      BY <2>1, <3>1
    <3>3. InTime'
      BY <1>6, <3>1, <3>2 DEF InTime, Workers
    <3>4. (StaleCache' => StaleCache) /\ (StaleCache => i \in MayPush)
      BY <3>1 DEF StaleCache, MayPush, StaleFill
    <3>5. lastNotified = period => ~(lastNotified < period)
      BY Current
    <3>6. QED
      BY <1>8, <3>1, <3>2, <3>3, <3>4, <3>5
  <2>5. CASE Fill(i)
    <3>1. cached' = {seen[i]}
      BY <1>4, <2>5 DEF Fill
    <3>2. /\ ingester[i] = "filling" /\ ingester' = [ingester EXCEPT ![i] = "checking"]
          /\ UNCHANGED <<period, lastNotified, seen, pushed>>
      BY <2>5 DEF Fill, publishVars
    <3>3. QED
      BY <1>5, <3>1, <3>2, FillRepeats
  <2>6. CASE AlreadyNotified(i)
    <3>1. /\ ingester[i] = "checking" /\ ingester' = [ingester EXCEPT ![i] = "idle"]
          /\ UNCHANGED <<period, lastNotified, cached, pushed, seen>>
      BY <2>6 DEF AlreadyNotified, publishVars
    <3>2. QED
      <4>1. /\ ingester'[i] = "idle"
            /\ \A j \in Ingester : j # i => ingester'[j] = ingester[j] /\ seen'[j] = seen[j]
        BY <2>1, <3>1
      <4>2. InTime' /\ (StaleCache' => StaleCache) /\ (StaleCache => i \in MayPush)
        BY <1>6, <3>1 DEF InTime, StaleCache, MayPush, StaleFill, Workers
      <4>3. QED
        BY <1>8, <3>1, <4>1, <4>2
  <2>7. CASE Push(i)
    BY <1>5, <2>7, PushRepeats
  <2>8. ASSUME NEW landed \in BOOLEAN, PushFails(i, landed) PROVE RepeatsInv'
    <3>1. /\ ingester[i] = "checking" /\ seen[i] < period
          /\ ingester' = [ingester EXCEPT ![i] = "idle"] \/ ingester' = ingester
          /\ UNCHANGED <<period, lastNotified, cached, pushed, seen>>
      BY <2>8 DEF PushFails
    <3>2. /\ ingester'[i] \in {"idle", "checking"}
          /\ \A j \in Ingester : j # i => ingester'[j] = ingester[j] /\ seen'[j] = seen[j]
      BY <2>1, <3>1
    <3>3. InTime' /\ (StaleCache' => StaleCache) /\ i \in MayPush
      BY <1>6, <3>1 DEF InTime, StaleCache, MayPush, Workers
    <3>4. QED
      BY <1>8, <3>1, <3>2, <3>3
  <2>9. CASE Mark(i)
    <3>1. lastNotified' = period
      BY <1>4, <2>9 DEF Mark, publishVars
    <3>2. /\ ingester[i] = "marking" /\ ingester' = [ingester EXCEPT ![i] = "evicting"]
          /\ UNCHANGED <<period, cached, seen, pushed>>
      BY <2>9 DEF Mark, publishVars
    <3>3. QED
      BY <1>5, <3>1, <3>2, MarkRepeats
  <2>10. CASE Evict(i)
    <3>1. cached' = {}
      BY <1>4, <2>10 DEF Evict, publishVars
    <3>2. /\ ingester[i] = "evicting" /\ ingester' = [ingester EXCEPT ![i] = "idle"]
          /\ UNCHANGED <<period, lastNotified, seen, pushed>>
      BY <2>10 DEF Evict, publishVars
    <3>3. /\ ingester'[i] = "idle"
          /\ \A j \in Ingester : j # i => ingester'[j] = ingester[j] /\ seen'[j] = seen[j]
      BY <2>1, <3>2
    <3>4. InTime' /\ ~StaleCache'
      BY <1>6, <3>1, <3>2 DEF InTime, StaleCache, Workers
    <3>5. QED
      BY <1>8, <3>2, <3>3, <3>4
  <2>11. QED
    BY <1>9, <2>2, <2>3, <2>4, <2>5, <2>6, <2>7, <2>8, <2>9, <2>10 DEF Ingest
<1>10. ASSUME NEW i \in Ingester, IngesterCrash(i) PROVE RepeatsInv'
  BY <1>4, <1>10 DEF IngesterCrash
<1>11. ASSUME NEW h \in Handler, Handle(h) \/ HandlerCrash(h) PROVE RepeatsInv'
  <2>1. UNCHANGED <<period, lastNotified, cached, ingestVars, pushed>>
    BY <1>11 DEF Handle, Receive, Acquire, Skip, AcquireError, Fetch, FetchError, FanOut,
       Finish, AllFailed, HandlerCrash, publishVars
  <2>2. QED
    BY <2>1, <1>7
<1>12. CASE LockExpires \/ UNCHANGED vars
  <2>1. UNCHANGED <<period, lastNotified, cached, ingestVars, pushed>>
    BY <1>12 DEF LockExpires, vars, publishVars
  <2>2. QED
    BY <2>1, <1>7
<1>13. CASE CacheExpires
  <2>1. cached' = {} /\ UNCHANGED <<period, lastNotified, ingester, seen, pushed>>
    BY <1>13 DEF CacheExpires, ingestVars, publishVars
  <2>2. InTime' /\ StaleFill' = StaleFill /\ MayPush' \subseteq MayPush /\ Marking' = Marking
    BY <1>6, <2>1 DEF InTime, StaleFill, MayPush, Marking, StaleCache, Workers
  <2>3. QED
    BY <1>5, <2>1, <2>2, NoMoreRepeats
<1>14. CASE NewPeriod
  BY <1>5, <1>14, NewPeriodRepeats
<1>15. QED
  BY <1>9, <1>10, <1>11, <1>12, <1>13, <1>14 DEF Next

\* A publish that failed put at most one notification into the queue.
UnconfirmedInv == \A p \in Period : unconfirmed[p] <= faults["publish"]

LEMMA UnconfirmedStep ==
  ASSUME TypeOK, UnconfirmedInv, [Next]_vars
  PROVE  UnconfirmedInv'
<1>1. "publish" \in FaultKind
  BY DEF FaultKind
<1>2. faults'["publish"] >= faults["publish"] /\ faults["publish"] \in Nat
      /\ faults'["publish"] \in Nat
  BY <1>1, FaultsGrow, NextTypes DEF TypeOK
<1>3. \A p \in Period : unconfirmed[p] \in Nat
  BY DEF TypeOK
<1>4. CASE UNCHANGED unconfirmed
  BY <1>2, <1>3, <1>4 DEF UnconfirmedInv
<1>5. ASSUME NEW i \in Ingester, PushFails(i, TRUE) PROVE UnconfirmedInv'
  <2>1. faults'["publish"] = faults["publish"] + 1
    BY <1>1, <1>5, FaultTypes DEF PushFails
  <2>2. /\ unconfirmed \in [Period -> Nat]
        /\ unconfirmed' = [unconfirmed EXCEPT ![period] = unconfirmed[period] + 1]
    BY <1>5 DEF PushFails, TypeOK
  <2>3. ASSUME NEW p \in Period PROVE unconfirmed'[p] <= unconfirmed[p] + 1
    BY <1>3, <2>2
  <2>4. \A p \in Period : unconfirmed'[p] \in Nat
    BY NextTypes DEF TypeOK
  <2>5. QED
    BY <1>2, <1>3, <2>1, <2>3, <2>4 DEF UnconfirmedInv
<1>6. (\E i \in Ingester : PushFails(i, TRUE)) \/ UNCHANGED unconfirmed
  <2>1. ASSUME NEW i \in Ingester, Ingest(i) \/ IngesterCrash(i), ~PushFails(i, TRUE)
        PROVE  UNCHANGED unconfirmed
    BY <2>1 DEF Ingest, CacheHit, CacheMiss, ReadWarnings, Fill, AlreadyNotified, Push,
                PushFails, Mark, Evict, IngesterCrash, publishVars
  <2>2. ASSUME NEW h \in Handler, Handle(h) \/ HandlerCrash(h) PROVE UNCHANGED unconfirmed
    BY <2>2 DEF Handle, Receive, Acquire, Skip, AcquireError, Fetch, FetchError, FanOut,
                Finish, AllFailed, HandlerCrash, publishVars
  <2>3. CASE LockExpires \/ CacheExpires \/ NewPeriod \/ UNCHANGED vars
    BY <2>3 DEF LockExpires, CacheExpires, NewPeriod, vars, publishVars
  <2>4. QED
    BY <2>1, <2>2, <2>3 DEF Next
<1>7. QED
  BY <1>4, <1>5, <1>6

\* While the row, the cache and the workers answer, n ingestion workers push at
\* most 1 + ... + n notifications of one period, for any number of workers, and
\* at most one for each publish whose failure hid a message that arrived.
THEOREM RepeatsAreBounded == Spec => []RepeatsBounded
<1>1. Init => TypeOK /\ RepeatsInv
  <2> SUFFICES ASSUME Init PROVE RepeatsInv
    BY InitTypes
  <2>1. period = 1 /\ lastNotified = 0 /\ cached = {}
        /\ (\A i \in Ingester : seen[i] = 0) /\ \A q \in Period : pushed[q] = 0 /\ q >= 1
    BY DEF Init, Period
  <2>2. 1 \in Period /\ Cardinality(Marking) \in Nat
    BY WarningsAssumption, Counts DEF Period
  <2>3. InTime
    <3>1. \A q \in Period : q \in Nat
      BY DEF Period
    <3>2. \A q \in Period : ~(q < 1)
      BY <2>1, <3>1
    <3>3. QED
      BY <2>1, <3>1, <3>2 DEF InTime
  <2>4. QED
    BY <2>1, <2>2, <2>3 DEF RepeatsInv
<1>2. TypeOK /\ RepeatsInv /\ [Next]_vars => TypeOK' /\ RepeatsInv'
  BY NextTypes, RepeatsStep
<1>3. Init => UnconfirmedInv
  BY DEF Init, UnconfirmedInv, FaultKind
<1>4. TypeOK /\ UnconfirmedInv /\ [Next]_vars => UnconfirmedInv'
  BY UnconfirmedStep
<1>5. ASSUME TypeOK, RepeatsInv, NoRepeatFault, NEW p \in Period
      PROVE  2 * pushed[p] <= Workers * (Workers + 1)
  <2>1. 2 * pushed[period] <= Workers * (Workers + 1)
    BY <1>5, CurrentBounded
  <2>2. InTime
    BY <1>5 DEF RepeatsInv
  <2>3. period \in Nat /\ p \in Nat
    BY <1>5, Current DEF Period
  <2>4. CASE p > period
    <3>1. pushed[p] = 0
      BY <2>2, <2>4 DEF InTime
    <3>2. Workers \in Nat
      BY Counts
    <3>3. 2 * Workers <= Workers * (Workers + 1)
      BY <3>2, TriangleAbove
    <3> DEFINE b == Workers * (Workers + 1)
    <3>4. b \in Int
      BY <3>2
    <3> HIDE DEF b
    <3>5. 0 <= b
      BY <3>2, <3>3, <3>4 DEF b
    <3>6. QED
      BY <3>1, <3>5 DEF b
  <2>5. CASE p < period
    BY <2>2, <2>5 DEF InTime
  <2>6. CASE p = period
    BY <2>1, <2>6
  <2>7. QED
    BY <2>3, <2>4, <2>5, <2>6
<1>6. TypeOK /\ RepeatsInv /\ UnconfirmedInv => RepeatsBounded
  <2> SUFFICES ASSUME TypeOK, RepeatsInv, UnconfirmedInv, NoRepeatFault, NEW p \in Period
               PROVE  2 * (pushed[p] + unconfirmed[p])
                        <= Workers * (Workers + 1) + 2 * faults["publish"]
    BY DEF RepeatsBounded, NoRepeatFault, Workers
  <2>1. PICK b : b = Workers * (Workers + 1)
    OBVIOUS
  <2>2. b \in Int
    BY <2>1, Counts
  <2>3. 2 * pushed[p] <= b
    BY <1>5, <2>1
  <2>4. unconfirmed[p] <= faults["publish"] /\ faults["publish"] \in Nat
        /\ unconfirmed[p] \in Nat /\ pushed[p] \in Nat
    BY DEF UnconfirmedInv, TypeOK, FaultKind
  <2>5. 2 * (pushed[p] + unconfirmed[p]) <= b + 2 * faults["publish"]
    BY <2>2, <2>3, <2>4
  <2>6. QED
    BY <2>1, <2>5
<1>7. QED
  BY <1>1, <1>2, <1>3, <1>4, <1>6, PTL DEF Spec

=============================================================================
