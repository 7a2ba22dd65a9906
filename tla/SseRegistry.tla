---------------------------- MODULE SseRegistry ----------------------------
(***************************************************************************)
(* Realtime updates: the registry of server-sent-event connections of each *)
(* pod, the heartbeat task of every connection, and the subscriber task    *)
(* that forwards what the pods publish to its pod's connections.           *)
(*                                                                         *)
(* The registry is a DashMap: looking an entry up and changing it is one   *)
(* step under the lock of its shard. The lock is given up between finding  *)
(* an entry empty and removing it, so that is two steps.                   *)
(***************************************************************************)
EXTENDS Naturals, Sequences, FiniteSets

CONSTANTS
  Pod, Conn, Key,   \* Key: (project, subscription key)
  PodOf, KeyOf,     \* of every connection
  Message, ChannelOf, \* the key a message is published to
  MaxStreamErrors   \* bound: ends of a pod's Redis stream

ASSUME SseAssumption ==
  /\ PodOf \in [Conn -> Pod] /\ KeyOf \in [Conn -> Key]
  /\ ChannelOf \in [Message -> Key]
  /\ MaxStreamErrors \in Nat

VARIABLES
  browser,   \* per connection: not yet made, open, closed by the browser
  conns,     \* per pod and key: the Vec of registered connections
  entries,   \* per pod: keys the map has an entry for
  heartbeat, \* per connection: where its heartbeat task is
  subscriber, target, \* per pod: where the subscriber task is, key it removes
  stream,    \* per pod: messages in the subscription, oldest first
  published, \* messages send_to_key was called with
  received,  \* per connection: what was sent to the browser
  due,       \* per connection: what it should see (history)
  streamErrors

clientVars == <<browser, heartbeat>>
mapVars == <<conns, entries>>
subVars == <<subscriber, target, stream>>
logVars == <<published, received, due>>
vars == <<clientVars, mapVars, subVars, logVars, streamErrors>>

Registered(c) == c \in conns[PodOf[c]][KeyOf[c]]

\* The messages of key k in a stream s.
OfKey(s, k) ==
  LET upTo[n \in 0..Len(s)] ==
        IF n = 0 THEN <<>>
        ELSE IF ChannelOf[s[n]] = k THEN Append(upTo[n - 1], s[n]) ELSE upTo[n - 1]
  IN upTo[Len(s)]

\* Messages of connection c that its subscriber has not forwarded yet.
Pending(c) == OfKey(stream[PodOf[c]], KeyOf[c])

Init ==
  /\ browser = [c \in Conn |-> "none"] /\ heartbeat = [c \in Conn |-> "none"]
  /\ conns = [p \in Pod |-> [k \in Key |-> {}]] /\ entries = [p \in Pod |-> {}]
  /\ subscriber = [p \in Pod |-> "starting"]
  /\ target \in [Pod -> Key]
  /\ stream = [p \in Pod |-> <<>>]
  /\ published = {} /\ received = [c \in Conn |-> <<>>] /\ due = [c \in Conn |-> <<>>]
  /\ streamErrors = 0

-----------------------------------------------------------------------------
(* Connections.                                                            *)

\* create_sse_response: entry().or_insert_with().push(), then the heartbeat
\* task is spawned.
Connect(c) ==
  /\ browser[c] = "none"
  /\ browser' = [browser EXCEPT ![c] = "open"]
  /\ heartbeat' = [heartbeat EXCEPT ![c] = "beating"]
  /\ conns' = [conns EXCEPT ![PodOf[c]][KeyOf[c]] = @ \cup {c}]
  /\ entries' = [entries EXCEPT ![PodOf[c]] = @ \cup {KeyOf[c]}]
  /\ due' = [due EXCEPT ![c] = Pending(c)]
  /\ UNCHANGED <<subVars, published, received, streamErrors>>

Close(c) ==
  /\ browser[c] = "open"
  /\ browser' = [browser EXCEPT ![c] = "closed"]
  /\ UNCHANGED <<heartbeat, mapVars, subVars, logVars, streamErrors>>

\* Mutant: the failed heartbeat ends its task and leaves the map alone.
MutHeartbeatFails(c) ==
  /\ heartbeat[c] = "beating" /\ browser[c] = "closed"
  /\ heartbeat' = [heartbeat EXCEPT ![c] = "ended"]
  /\ UNCHANGED <<browser, mapVars, subVars, logVars, streamErrors>>

\* The heartbeat of a closed connection fails: it leaves the Vec, and a Vec
\* it leaves empty is removed in the next step.
HeartbeatFails(c) ==
  LET p == PodOf[c]  k == KeyOf[c]
      last == k \in entries[p] /\ conns[p][k] \subseteq {c} IN
  /\ heartbeat[c] = "beating" /\ browser[c] = "closed"
  /\ conns' = [conns EXCEPT ![p][k] = @ \ {c}]
  /\ heartbeat' = [heartbeat EXCEPT ![c] = IF last THEN "removing" ELSE "ended"]
  /\ UNCHANGED <<browser, entries, subVars, logVars, streamErrors>>

\* Mutant: the key is forgotten, its connections are not.
MutDrop(p, k) ==
  /\ entries' = [entries EXCEPT ![p] = @ \ {k}]
  /\ UNCHANGED conns

\* DashMap::remove: the entry goes, with whatever it holds by now.
Drop(p, k) ==
  /\ conns' = [conns EXCEPT ![p][k] = {}]
  /\ entries' = [entries EXCEPT ![p] = @ \ {k}]

HeartbeatRemoves(c) ==
  /\ heartbeat[c] = "removing"
  /\ Drop(PodOf[c], KeyOf[c])
  /\ heartbeat' = [heartbeat EXCEPT ![c] = "ended"]
  /\ UNCHANGED <<browser, subVars, logVars, streamErrors>>

-----------------------------------------------------------------------------
(* Publishing and forwarding.                                              *)

\* Redis pushes a message to the pods subscribed now and keeps no copy.
Publish(m) ==
  LET live == {p \in Pod : subscriber[p] \in {"waiting", "removing"}} IN
  /\ m \notin published
  /\ published' = published \cup {m}
  /\ stream' = [p \in Pod |-> IF p \in live THEN Append(stream[p], m) ELSE stream[p]]
  /\ due' = [c \in Conn |->
               IF browser[c] # "none" /\ PodOf[c] \in live /\ KeyOf[c] = ChannelOf[m]
               THEN Append(due[c], m) ELSE due[c]]
  /\ UNCHANGED <<clientVars, mapVars, subscriber, target, received, streamErrors>>

\* A publish error is logged; the update is lost.
PublishError(m) ==
  /\ m \notin published
  /\ published' = published \cup {m}
  /\ UNCHANGED <<clientVars, mapVars, subVars, received, due, streamErrors>>

Subscribe(p) ==
  /\ subscriber[p] = "starting"
  /\ subscriber' = [subscriber EXCEPT ![p] = "waiting"]
  /\ UNCHANGED <<clientVars, mapVars, target, stream, logVars, streamErrors>>

\* Mutant: forwarding stops at the first dead connection.
MutReached(p, k) ==
  IF \E c \in conns[p][k] : browser[c] = "closed" THEN {}
  ELSE conns[p][k]
\* The connections that take a message: the receiver of a closed one is gone.
Reached(p, k) == {c \in conns[p][k] : browser[c] = "open"}

\* Mutant: the message goes out again while dead connections are cleaned up.
MutSent(c, m) == IF Cardinality(conns[PodOf[c]][KeyOf[c]]) > 1 THEN <<m, m>> ELSE <<m>>
Sent(c, m) == <<m>>

\* send_to_local_connections for the oldest message: connections that cannot
\* be sent to leave the Vec; an empty Vec is removed in the next step.
Forward(p) ==
  LET m == Head(stream[p])  k == ChannelOf[m]  reached == Reached(p, k) IN
  /\ subscriber[p] = "waiting" /\ stream[p] # <<>>
  /\ stream' = [stream EXCEPT ![p] = Tail(@)]
  /\ received' = [c \in Conn |->
                    IF c \in reached THEN received[c] \o Sent(c, m) ELSE received[c]]
  /\ conns' = [conns EXCEPT ![p][k] = reached]
  /\ IF k \in entries[p] /\ reached = {}
     THEN /\ subscriber' = [subscriber EXCEPT ![p] = "removing"]
          /\ target' = [target EXCEPT ![p] = k]
     ELSE UNCHANGED <<subscriber, target>>
  /\ UNCHANGED <<clientVars, entries, published, due, streamErrors>>

ForwardRemoves(p) ==
  /\ subscriber[p] = "removing"
  /\ Drop(p, target[p])
  /\ subscriber' = [subscriber EXCEPT ![p] = "waiting"]
  /\ UNCHANGED <<clientVars, target, stream, logVars, streamErrors>>

\* The Redis stream ends, or could not be opened: start_redis_subscriber
\* returns and its task with it. Messages in the stream are lost.
StreamEnds(p) ==
  /\ subscriber[p] \in {"starting", "waiting"}
  /\ streamErrors < MaxStreamErrors
  /\ streamErrors' = streamErrors + 1
  /\ subscriber' = [subscriber EXCEPT ![p] = "ended"]
  /\ stream' = [stream EXCEPT ![p] = <<>>]
  /\ UNCHANGED <<clientVars, mapVars, target, logVars>>

-----------------------------------------------------------------------------
Heartbeat(c) == HeartbeatFails(c) \/ HeartbeatRemoves(c)
Subscriber(p) == Subscribe(p) \/ Forward(p) \/ ForwardRemoves(p)

Next ==
  \/ \E c \in Conn : Connect(c) \/ Close(c) \/ Heartbeat(c)
  \/ \E m \in Message : Publish(m) \/ PublishError(m)
  \/ \E p \in Pod : Subscriber(p) \/ StreamEnds(p)

Spec == Init /\ [][Next]_vars

\* Tasks keep running: heartbeats tick every 5 s, the subscriber polls its
\* stream. Browsers and publishers owe nothing.
FairSpec ==
  /\ Spec
  /\ \A c \in Conn : WF_vars(Heartbeat(c))
  /\ \A p \in Pod : WF_vars(Subscriber(p))

-----------------------------------------------------------------------------
(* Type invariant of connections, registry and subscribers.                *)
TypeOK ==
  /\ browser \in [Conn -> {"none", "open", "closed"}]
  /\ heartbeat \in [Conn -> {"none", "beating", "removing", "ended"}]
  /\ entries \in [Pod -> SUBSET Key]
  /\ conns \in [Pod -> [Key -> SUBSET Conn]]
  /\ \A p \in Pod, k \in Key : \A c \in conns[p][k] :
       k \in entries[p] /\ PodOf[c] = p /\ KeyOf[c] = k
  /\ subscriber \in [Pod -> {"starting", "waiting", "removing", "ended"}]
  /\ target \in [Pod -> Key]
  /\ stream \in [Pod -> Seq(Message)] /\ published \subseteq Message
  /\ received \in [Conn -> Seq(Message)] /\ due \in [Conn -> Seq(Message)]
  /\ streamErrors \in Nat

\* An open connection the map still holds, on a pod that is still subscribed,
\* has got exactly the messages of its key in the order they were published,
\* but for those still in the stream: no gap, no duplicate, nothing of another
\* key, whichever dead neighbours are cleaned up around it (create_sse_response
\* pushes before it returns, send_to_local_connections retains while sending).
NoGap ==
  \A c \in Conn :
    browser[c] = "open" /\ Registered(c) /\ subscriber[PodOf[c]] # "ended" =>
      due[c] = received[c] \o Pending(c)

\* Cleaning dead connections out of an entry (retain, in the heartbeat and in
\* send_to_local_connections) takes no open one with it: while the entry is in
\* the map, every open connection stays in it.
CleanupKeepsOpen ==
  [][\A p \in Pod, k \in Key : \A c \in conns[p][k] :
       browser[c] = "open" /\ k \in entries'[p] => c \in conns'[p][k]]_vars

\* Once the browsers are gone the map holds nothing, even for a connection
\* registered while its entry was being removed: the heartbeat of every
\* connection cleans up after it.
NothingLeaks ==
  (\A c \in Conn : browser[c] = "closed") ~> (\A p \in Pod : entries[p] = {})

\* "Remove entry if no active connections" (send_to_local_connections): an
\* entry with an open connection is never removed.
ActiveEntriesStay ==
  [][\A p \in Pod, k \in Key : \A c \in conns[p][k] :
       browser[c] = "open" => k \in entries'[p]]_vars

\* "drop the stream and let the caller reconnect" (RedisPubSub::subscribe): a
\* pod whose stream ended is subscribed again.
Resubscribes == \A p \in Pod : (subscriber[p] = "ended") ~> (subscriber[p] = "waiting")
=============================================================================
