------------------------- MODULE SseRegistryProofs -------------------------
(***************************************************************************)
(* Proofs about SseRegistry, for any number of pods, connections, keys and *)
(* messages.                                                               *)
(***************************************************************************)
EXTENDS SseRegistry, WellFoundedInduction, TLAPS

----------------------------------------------------------------------------
(* The messages of a key, by induction on the length of the stream.        *)

\* The order of the natural numbers, as the pairs it relates.
LEMMA NatOrder == IsWellFoundedOn({ss \in Nat \X Nat : ss[1] < ss[2]}, Nat)
<1>1. OpToRel(<, Nat) = {ss \in Nat \X Nat : ss[1] < ss[2]}
  BY DEF OpToRel
<1>2. QED
  BY <1>1, NatLessThanWellFounded

\* Induction: a number outside of S would have a least one beside it, whose
\* predecessor is in S.
LEMMA SetInduction ==
  ASSUME NEW S, 0 \in S, \A n \in Nat : n \in S => n + 1 \in S
  PROVE  Nat \subseteq S
<1> DEFINE R == {ss \in Nat \X Nat : ss[1] < ss[2]}
           T == Nat \ S
<1>1. SUFFICES ASSUME T # {} PROVE FALSE
  OBVIOUS
<1>2. T \subseteq Nat
  OBVIOUS
<1>3. PICK x \in T : \A y \in T : ~(<<y, x>> \in R)
  <2>1. IsWellFoundedOn(R, Nat)
    BY NatOrder
  <2> HIDE DEF R, T
  <2>2. QED
    BY <2>1, <1>1, <1>2, WFMin
<1>4. x \in Nat /\ x # 0 /\ x \notin S
  OBVIOUS
<1>5. x - 1 \in Nat /\ x = (x - 1) + 1
  BY <1>4
<1>6. <<x - 1, x>> \in R
  BY <1>4, <1>5
<1>7. x - 1 \in S
  <2>1. x - 1 \notin T
    BY <1>3, <1>6
  <2>2. QED
    BY <2>1, <1>5
<1>8. QED
  BY <1>4, <1>5, <1>7

\* g lists, for every prefix of s, its messages of key k.
Lists(g, s, k) ==
  /\ g \in [0..Len(s) -> Seq(Message)]
  /\ g[0] = <<>>
  /\ \A n \in 1..Len(s) :
       g[n] = IF ChannelOf[s[n]] = k THEN Append(g[n - 1], s[n]) ELSE g[n - 1]

\* One more message: the list of the longer stream.
Longer(g, s, m, k) ==
  [n \in 0..Len(s) + 1 |->
     IF n <= Len(s) THEN g[n]
     ELSE IF ChannelOf[m] = k THEN Append(g[Len(s)], m) ELSE g[Len(s)]]

\* The list of a stream goes on into the list of a longer one.
LEMMA ListsLonger ==
  ASSUME NEW s \in Seq(Message), NEW m \in Message, NEW k, NEW g, Lists(g, s, k)
  PROVE  Lists(Longer(g, s, m, k), Append(s, m), k)
<1> DEFINE h == Longer(g, s, m, k)
           t == Append(s, m)
<1>1. /\ t \in Seq(Message) /\ Len(t) = Len(s) + 1 /\ Len(s) \in Nat
      /\ t[Len(s) + 1] = m
      /\ \A n \in 1..Len(s) : t[n] = s[n]
  OBVIOUS
<1>2. /\ g \in [0..Len(s) -> Seq(Message)] /\ g[0] = <<>>
      /\ \A n \in 1..Len(s) :
           g[n] = IF ChannelOf[s[n]] = k THEN Append(g[n - 1], s[n]) ELSE g[n - 1]
  BY DEF Lists
<1>3. /\ \A n \in 0..Len(s) : h[n] = g[n]
      /\ h[Len(s) + 1] = IF ChannelOf[m] = k THEN Append(g[Len(s)], m) ELSE g[Len(s)]
      /\ DOMAIN h = 0..Len(t)
      /\ h = [n \in 0..Len(t) |-> h[n]]
  BY <1>1 DEF Longer
<1> HIDE DEF h, t
<1>4. ASSUME NEW n \in 0..Len(t) PROVE h[n] \in Seq(Message)
  <2>1. CASE n \in 0..Len(s)
    BY <2>1, <1>2, <1>3
  <2>2. CASE n = Len(s) + 1
    <3>1. g[Len(s)] \in Seq(Message)
      BY <1>1, <1>2
    <3>2. Append(g[Len(s)], m) \in Seq(Message)
      BY <3>1
    <3>3. QED
      BY <2>2, <3>1, <3>2, <1>3
  <2>3. QED
    BY <1>1, <2>1, <2>2
<1>5. h \in [0..Len(t) -> Seq(Message)]
  BY <1>3, <1>4
<1>6. h[0] = <<>>
  BY <1>1, <1>2, <1>3
<1>7. ASSUME NEW n \in 1..Len(t)
      PROVE h[n] = IF ChannelOf[t[n]] = k THEN Append(h[n - 1], t[n]) ELSE h[n - 1]
  <2>1. CASE n \in 1..Len(s)
    <3>1. n - 1 \in 0..Len(s) /\ n \in 0..Len(s)
      BY <2>1, <1>1
    <3>2. h[n] = g[n] /\ h[n - 1] = g[n - 1] /\ t[n] = s[n]
      BY <3>1, <2>1, <1>1, <1>3
    <3>3. QED
      BY <2>1, <3>2, <1>2
  <2>2. CASE n = Len(s) + 1
    <3>1. n - 1 = Len(s) /\ Len(s) \in 0..Len(s)
      BY <2>2, <1>1
    <3>2. h[n - 1] = g[Len(s)] /\ t[n] = m
      BY <3>1, <2>2, <1>1, <1>3
    <3>3. QED
      BY <2>2, <3>2, <1>3
  <2>3. QED
    BY <1>1, <2>1, <2>2
<1>8. QED
  BY <1>5, <1>6, <1>7 DEF Lists, h, t

\* Every stream has such a list.
LEMMA ListsExists ==
  ASSUME NEW k, NEW s \in Seq(Message)
  PROVE  \E g : Lists(g, s, k)
<1> DEFINE S == {n \in Nat : \A t \in Seq(Message) : Len(t) = n => \E g : Lists(g, t, k)}
<1>1. 0 \in S
  <2> SUFFICES ASSUME NEW t \in Seq(Message), Len(t) = 0
               PROVE  \E g : Lists(g, t, k)
    OBVIOUS
  <2> DEFINE g == [n \in 0..0 |-> <<>>]
  <2>1. <<>> \in Seq(Message)
    OBVIOUS
  <2>2. g \in [0..Len(t) -> Seq(Message)] /\ g[0] = <<>> /\ 1..Len(t) = {}
    BY <2>1
  <2>3. QED
    BY <2>2 DEF Lists
<1>2. ASSUME NEW n \in Nat, n \in S PROVE n + 1 \in S
  <2> SUFFICES ASSUME NEW t \in Seq(Message), Len(t) = n + 1
               PROVE  \E g : Lists(g, t, k)
    BY <1>2
  <2> DEFINE f == SubSeq(t, 1, n)
             m == t[n + 1]
  <2>1. f \in Seq(Message) /\ Len(f) = n /\ m \in Message
    OBVIOUS
  <2>2. t = Append(f, m)
    OBVIOUS
  <2>3. PICK g : Lists(g, f, k)
    BY <1>2, <2>1
  <2> HIDE DEF f, m
  <2>4. QED
    BY <2>1, <2>2, <2>3, ListsLonger
<1>3. Nat \subseteq S
  <2> HIDE DEF S
  <2>1. QED
    BY <1>1, <1>2, SetInduction
<1>4. QED
  BY <1>3

\* And it is what OfKey computes.
LEMMA OfKeyIs ==
  ASSUME NEW k, NEW s \in Seq(Message), NEW g, Lists(g, s, k)
  PROVE  OfKey(s, k) = g[Len(s)]
<1> DEFINE Step(f, n) == IF n = 0 THEN <<>>
                         ELSE IF ChannelOf[s[n]] = k THEN Append(f[n - 1], s[n]) ELSE f[n - 1]
           upTo == CHOOSE f : f = [n \in 0..Len(s) |-> Step(f, n)]
<1>1. OfKey(s, k) = upTo[Len(s)]
  BY DEF OfKey
<1>2. g = [n \in 0..Len(s) |-> Step(g, n)]
  <2>1. ASSUME NEW n \in 0..Len(s) PROVE g[n] = Step(g, n)
    <3>1. n = 0 \/ n \in 1..Len(s)
      OBVIOUS
    <3>2. QED
      BY <3>1 DEF Lists
  <2>2. g \in [0..Len(s) -> Seq(Message)]
    BY DEF Lists
  <2> HIDE DEF Step
  <2>3. QED
    BY <2>1, <2>2
<1>3. upTo = [n \in 0..Len(s) |-> Step(upTo, n)]
  <2> HIDE DEF Step
  <2>1. \E f : f = [n \in 0..Len(s) |-> Step(f, n)]
    BY <1>2
  <2>2. QED
    BY <2>1
<1>4. \A n \in 0..Len(s) : upTo[n] = Step(upTo, n)
  <2> HIDE DEF upTo, Step
  <2>1. QED
    BY <1>3
<1> HIDE DEF upTo
<1> DEFINE S == {n \in Nat : n <= Len(s) => upTo[n] = g[n]}
<1>5. 0 \in S
  BY <1>4 DEF Lists
<1>6. ASSUME NEW n \in Nat, n \in S PROVE n + 1 \in S
  <2> SUFFICES ASSUME n + 1 <= Len(s) PROVE upTo[n + 1] = g[n + 1]
    OBVIOUS
  <2>1. n + 1 \in 1..Len(s) /\ n + 1 \in 0..Len(s) /\ n + 1 # 0 /\ (n + 1) - 1 = n
    BY <1>6
  <2>2. upTo[n] = g[n]
    BY <1>6
  <2>3. QED
    BY <2>1, <2>2, <1>4 DEF Lists
<1>7. Nat \subseteq S
  <2> HIDE DEF S
  <2>1. QED
    BY <1>5, <1>6, SetInduction
<1>8. Len(s) \in Nat
  OBVIOUS
<1>9. QED
  BY <1>1, <1>7, <1>8

\* OfKey selects messages; taking one off the front of a stream, or putting one
\* at its end, takes it off or puts it at the end of what is selected.
LEMMA OfKeyType ==
  ASSUME NEW k, NEW s \in Seq(Message)
  PROVE  OfKey(s, k) \in Seq(Message)
<1>1. PICK g : Lists(g, s, k)
  BY ListsExists
<1>2. Len(s) \in 0..Len(s)
  OBVIOUS
<1>3. QED
  BY <1>1, <1>2, OfKeyIs DEF Lists

LEMMA OfKeyEmpty == \A k : OfKey(<<>>, k) = <<>>
<1> TAKE k
<1>1. <<>> \in Seq(Message) /\ Len(<<>>) = 0
  OBVIOUS
<1>2. PICK g : Lists(g, <<>>, k)
  BY <1>1, ListsExists
<1>3. g[0] = <<>>
  BY <1>2 DEF Lists
<1>4. QED
  BY <1>1, <1>2, <1>3, OfKeyIs

LEMMA OfKeyAppend ==
  ASSUME NEW k, NEW s \in Seq(Message), NEW m \in Message
  PROVE  OfKey(Append(s, m), k)
           = IF ChannelOf[m] = k THEN Append(OfKey(s, k), m) ELSE OfKey(s, k)
<1>1. PICK g : Lists(g, s, k)
  BY ListsExists
<1> DEFINE h == Longer(g, s, m, k)
<1>2. Lists(h, Append(s, m), k)
  BY <1>1, ListsLonger
<1>3. Append(s, m) \in Seq(Message) /\ Len(Append(s, m)) = Len(s) + 1 /\ Len(s) \in Nat
  OBVIOUS
<1>4. h[Len(s) + 1] = IF ChannelOf[m] = k THEN Append(g[Len(s)], m) ELSE g[Len(s)]
  BY <1>3 DEF Longer
<1>5. OfKey(s, k) = g[Len(s)]
  BY <1>1, OfKeyIs
<1> HIDE DEF h
<1>6. OfKey(Append(s, m), k) = h[Len(Append(s, m))]
  BY <1>2, <1>3, OfKeyIs
<1>7. QED
  BY <1>3, <1>4, <1>5, <1>6

LEMMA OfKeyHead ==
  ASSUME NEW k, NEW s \in Seq(Message), s # <<>>
  PROVE  OfKey(s, k)
           = IF ChannelOf[Head(s)] = k THEN <<Head(s)>> \o OfKey(Tail(s), k)
             ELSE OfKey(Tail(s), k)
<1> DEFINE t == Tail(s)
           first == IF ChannelOf[Head(s)] = k THEN <<Head(s)>> ELSE <<>>
<1>1. /\ t \in Seq(Message) /\ Len(t) \in Nat /\ Len(s) = Len(t) + 1 /\ Head(s) \in Message
      /\ Head(s) = s[1]
      /\ \A n \in 1..Len(t) : s[n + 1] = t[n] /\ t[n] \in Message
  OBVIOUS
<1>2. first \in Seq(Message)
  BY <1>1
<1>3. PICK g : Lists(g, t, k)
  BY <1>1, ListsExists
<1> DEFINE h == [n \in 0..Len(s) |-> IF n = 0 THEN <<>> ELSE first \o g[n - 1]]
<1>4. /\ g \in [0..Len(t) -> Seq(Message)] /\ g[0] = <<>>
      /\ \A n \in 1..Len(t) :
           g[n] = IF ChannelOf[t[n]] = k THEN Append(g[n - 1], t[n]) ELSE g[n - 1]
  BY <1>3 DEF Lists
<1>5. /\ DOMAIN h = 0..Len(s) /\ h[0] = <<>>
      /\ \A n \in 0..Len(t) : h[n + 1] = first \o g[n]
      /\ h = [n \in 0..Len(s) |-> h[n]]
  <2> HIDE DEF first, t
  <2>1. 0 \in 0..Len(s)
    BY <1>1
  <2>2. ASSUME NEW n \in 0..Len(t) PROVE h[n + 1] = first \o g[n]
    <3>1. n + 1 \in 0..Len(s) /\ n + 1 # 0 /\ (n + 1) - 1 = n
      BY <1>1
    <3>2. QED
      BY <3>1
  <2>3. QED
    BY <2>1, <2>2
<1>6. \A n \in 0..Len(t) : first \o g[n] \in Seq(Message)
  <2> HIDE DEF first, h
  <2>1. QED
    BY <1>2, <1>4
<1> HIDE DEF h, t
<1>7. h \in [0..Len(s) -> Seq(Message)]
  <2>1. ASSUME NEW n \in 0..Len(s) PROVE h[n] \in Seq(Message)
    <3>1. CASE n = 0
      BY <3>1, <1>5
    <3>2. CASE n # 0
      <4>1. n - 1 \in 0..Len(t) /\ n = (n - 1) + 1
        BY <3>2, <1>1
      <4> HIDE DEF first
      <4>2. QED
        BY <4>1, <1>5, <1>6
    <3>3. QED
      BY <3>1, <3>2
  <2>2. QED
    BY <2>1, <1>5
<1>8. ASSUME NEW n \in 1..Len(s)
      PROVE  h[n] = IF ChannelOf[s[n]] = k THEN Append(h[n - 1], s[n]) ELSE h[n - 1]
  <2>1. CASE n = 1
    <3>1. h[1] = first \o g[0]
      <4>1. 0 \in 0..Len(t) /\ 0 + 1 = 1
        BY <1>1
      <4> HIDE DEF first
      <4>2. QED
        BY <4>1, <1>5
    <3>2. first \o <<>> = first
      BY <1>2
    <3>3. h[1] = first /\ h[0] = <<>>
      BY <3>1, <3>2, <1>4, <1>5
    <3>4. Append(<<>>, Head(s)) = <<Head(s)>>
      BY <1>1
    <3>5. s[n] = Head(s) /\ n - 1 = 0
      BY <2>1, <1>1
    <3>6. QED
      BY <2>1, <3>3, <3>4, <3>5
  <2>2. CASE n # 1
    <3> DEFINE i == n - 1
    <3>1. i \in 1..Len(t) /\ i \in 0..Len(t) /\ i - 1 \in 0..Len(t) /\ n = i + 1 /\ i = (i - 1) + 1
      BY <2>2, <1>1
    <3>2. s[n] = t[i] /\ t[i] \in Message
      BY <3>1, <1>1
    <3> HIDE DEF i
    <3>3. h[n] = first \o g[i] /\ h[i] = first \o g[i - 1]
      BY <3>1, <1>5
    <3>4. g[i] = IF ChannelOf[t[i]] = k THEN Append(g[i - 1], t[i]) ELSE g[i - 1]
      BY <3>1, <1>4
    <3>5. first \o Append(g[i - 1], t[i]) = Append(first \o g[i - 1], t[i])
      <4>1. g[i - 1] \in Seq(Message)
        BY <3>1, <1>4
      <4> HIDE DEF first
      <4>2. QED
        BY <4>1, <1>2, <3>2
    <3>6. n - 1 = i
      BY <3>1
    <3> HIDE DEF first
    <3>7. QED
      BY <3>2, <3>3, <3>4, <3>5, <3>6
  <2>3. QED
    BY <2>1, <2>2
<1>9. Lists(h, s, k)
  BY <1>5, <1>7, <1>8 DEF Lists
<1>10. OfKey(s, k) = h[Len(s)] /\ OfKey(t, k) = g[Len(t)]
  BY <1>1, <1>3, <1>9, OfKeyIs
<1>11. Len(t) \in 0..Len(t)
  BY <1>1
<1>12. OfKey(s, k) = first \o OfKey(t, k)
  BY <1>1, <1>5, <1>10, <1>11
<1>13. OfKey(t, k) \in Seq(Message)
  BY <1>1, OfKeyType
<1>14. <<>> \o OfKey(t, k) = OfKey(t, k)
  BY <1>13
<1>15. QED
  BY <1>12, <1>14 DEF t

----------------------------------------------------------------------------
(* The registry.                                                           *)

\* The inductive invariant: the part of TypeOK that is about the registry. A
\* connection is registered under its own key of its own pod, in an entry of
\* the map, and a task that removes an entry removes one of its pod's keys.
RegistryInv ==
  /\ browser \in [Conn -> {"none", "open", "closed"}]
  /\ entries \in [Pod -> SUBSET Key]
  /\ conns \in [Pod -> [Key -> SUBSET Conn]]
  /\ \A p \in Pod, k \in Key : \A c \in conns[p][k] :
       k \in entries[p] /\ PodOf[c] = p /\ KeyOf[c] = k
  /\ target \in [Pod -> Key]
  /\ stream \in [Pod -> Seq(Message)]

\* What CleanupKeepsOpen says of a step.
KeepsOpen ==
  \A p \in Pod, k \in Key : \A c \in conns[p][k] :
    browser[c] = "open" /\ k \in entries'[p] => c \in conns'[p][k]

----------------------------------------------------------------------------
(* Steps on the map.                                                       *)

\* Removing an entry empties it, so nobody is left in an entry that is gone.
LEMMA DropSound ==
  ASSUME RegistryInv, NEW p \in Pod, NEW k \in Key, Drop(p, k)
  PROVE  /\ entries' \in [Pod -> SUBSET Key]
         /\ conns' \in [Pod -> [Key -> SUBSET Conn]]
         /\ \A q \in Pod, l \in Key : \A c \in conns'[q][l] :
              l \in entries'[q] /\ PodOf[c] = q /\ KeyOf[c] = l
         /\ KeepsOpen
<1>1. /\ entries' = [entries EXCEPT ![p] = @ \ {k}]
      /\ conns' = [conns EXCEPT ![p] = [conns[p] EXCEPT ![k] = {}]]
  BY DEF Drop
<1>2. /\ entries' \in [Pod -> SUBSET Key]
      /\ conns' \in [Pod -> [Key -> SUBSET Conn]]
  BY <1>1 DEF RegistryInv
<1>3. \A q \in Pod, l \in Key :
        /\ entries'[q] = IF q = p THEN entries[p] \ {k} ELSE entries[q]
        /\ conns'[q][l] = IF q = p /\ l = k THEN {} ELSE conns[q][l]
  BY <1>1 DEF RegistryInv
<1>4. \A q \in Pod, l \in Key : \A c \in conns'[q][l] :
        l \in entries'[q] /\ PodOf[c] = q /\ KeyOf[c] = l
  BY <1>3 DEF RegistryInv
<1>5. ASSUME NEW q \in Pod, NEW l \in Key, NEW c \in conns[q][l], l \in entries'[q]
      PROVE  c \in conns'[q][l]
  <2>1. ~(q = p /\ l = k)
    BY <1>1, <1>5 DEF RegistryInv
  <2>2. QED
    BY <1>3, <2>1
<1>6. QED
  BY <1>2, <1>4, <1>5 DEF KeepsOpen

\* The closed connections, and only they, leave an entry that stays.
LEMMA RetainSound ==
  ASSUME RegistryInv, NEW p \in Pod, NEW k \in Key, NEW kept,
         kept \subseteq conns[p][k],
         {c \in conns[p][k] : browser[c] = "open"} \subseteq kept,
         conns' = [conns EXCEPT ![p][k] = kept], UNCHANGED entries
  PROVE  /\ entries' \in [Pod -> SUBSET Key]
         /\ conns' \in [Pod -> [Key -> SUBSET Conn]]
         /\ \A q \in Pod, l \in Key : \A c \in conns'[q][l] :
              l \in entries'[q] /\ PodOf[c] = q /\ KeyOf[c] = l
         /\ KeepsOpen
<1>1. conns' \in [Pod -> [Key -> SUBSET Conn]]
  BY DEF RegistryInv
<1>2. \A q \in Pod, l \in Key :
        conns'[q][l] = IF q = p /\ l = k THEN kept ELSE conns[q][l]
  BY DEF RegistryInv
<1>3. \A q \in Pod, l \in Key : \A c \in conns'[q][l] :
        l \in entries'[q] /\ PodOf[c] = q /\ KeyOf[c] = l
  BY <1>2 DEF RegistryInv
<1>4. KeepsOpen
  BY <1>2 DEF KeepsOpen, RegistryInv
<1>5. QED
  BY <1>1, <1>3, <1>4 DEF RegistryInv

----------------------------------------------------------------------------
(* Every step keeps the registry sound and loses no open connection.       *)

LEMMA StepSound ==
  ASSUME RegistryInv, [Next]_vars
  PROVE  RegistryInv' /\ KeepsOpen
<1> USE SseAssumption
<1>1. CASE UNCHANGED vars
  BY <1>1 DEF RegistryInv, KeepsOpen, vars, clientVars, mapVars, subVars
<1>2. ASSUME NEW c \in Conn, Connect(c) PROVE RegistryInv' /\ KeepsOpen
  <2> DEFINE p == PodOf[c]
             k == KeyOf[c]
  <2>1. p \in Pod /\ k \in Key
    OBVIOUS
  <2>2. /\ browser' \in [Conn -> {"none", "open", "closed"}]
        /\ entries' \in [Pod -> SUBSET Key]
        /\ conns' \in [Pod -> [Key -> SUBSET Conn]]
    BY <1>2 DEF Connect, RegistryInv
  <2>3. \A q \in Pod, l \in Key :
          /\ entries'[q] = IF q = p THEN entries[p] \cup {k} ELSE entries[q]
          /\ conns'[q][l] = IF q = p /\ l = k THEN conns[p][k] \cup {c} ELSE conns[q][l]
    BY <1>2 DEF Connect, RegistryInv
  <2>4. UNCHANGED <<target, stream>>
    BY <1>2 DEF Connect, subVars
  <2>5. \A q \in Pod, l \in Key : \A d \in conns'[q][l] :
          l \in entries'[q] /\ PodOf[d] = q /\ KeyOf[d] = l
    BY <2>1, <2>3 DEF RegistryInv
  <2>6. \A q \in Pod, l \in Key : conns[q][l] \subseteq conns'[q][l]
    BY <2>3
  <2>7. QED
    BY <2>2, <2>4, <2>5, <2>6 DEF RegistryInv, KeepsOpen
<1>3. ASSUME NEW c \in Conn, Close(c) PROVE RegistryInv' /\ KeepsOpen
  BY <1>3 DEF Close, RegistryInv, KeepsOpen, mapVars, subVars
<1>4. ASSUME NEW c \in Conn, HeartbeatFails(c) PROVE RegistryInv' /\ KeepsOpen
  <2> DEFINE p == PodOf[c]
             k == KeyOf[c]
  <2>1. p \in Pod /\ k \in Key
    OBVIOUS
  <2>2. /\ conns' = [conns EXCEPT ![p][k] = conns[p][k] \ {c}]
        /\ UNCHANGED <<entries, browser, target, stream>>
        /\ browser[c] = "closed"
    BY <1>4 DEF HeartbeatFails, subVars
  <2> DEFINE kept == conns[p][k] \ {c}
  <2>3. /\ kept \subseteq conns[p][k]
        /\ {d \in conns[p][k] : browser[d] = "open"} \subseteq kept
        /\ conns' = [conns EXCEPT ![p][k] = kept]
    BY <2>2
  <2>4. /\ entries' \in [Pod -> SUBSET Key]
        /\ conns' \in [Pod -> [Key -> SUBSET Conn]]
        /\ \A q \in Pod, l \in Key : \A d \in conns'[q][l] :
             l \in entries'[q] /\ PodOf[d] = q /\ KeyOf[d] = l
        /\ KeepsOpen
    <3> HIDE DEF p, k, kept
    <3>1. UNCHANGED entries
      BY <2>2
    <3>2. QED
      BY <2>1, <2>3, <3>1, RetainSound
  <2>5. QED
    BY <2>2, <2>4 DEF RegistryInv
<1>5. ASSUME NEW c \in Conn, HeartbeatRemoves(c) PROVE RegistryInv' /\ KeepsOpen
  <2>1. Drop(PodOf[c], KeyOf[c]) /\ UNCHANGED <<browser, target, stream>>
    BY <1>5 DEF HeartbeatRemoves, subVars
  <2>2. QED
    BY <2>1, DropSound DEF RegistryInv
<1>6. ASSUME NEW m \in Message, Publish(m) \/ PublishError(m)
      PROVE  RegistryInv' /\ KeepsOpen
  <2>1. UNCHANGED <<browser, conns, entries, target>>
    BY <1>6 DEF Publish, PublishError, clientVars, mapVars, subVars
  <2>2. stream' \in [Pod -> Seq(Message)]
    <3>1. CASE Publish(m)
      <4> DEFINE live == {p \in Pod : subscriber[p] \in {"waiting", "removing"}}
      <4>1. stream' = [p \in Pod |-> IF p \in live THEN Append(stream[p], m) ELSE stream[p]]
        BY <3>1 DEF Publish
      <4>2. ASSUME NEW p \in Pod
            PROVE  stream[p] \in Seq(Message) /\ Append(stream[p], m) \in Seq(Message)
        <5>1. stream[p] \in Seq(Message)
          BY DEF RegistryInv
        <5>2. QED
          BY <5>1
      <4> HIDE DEF live
      <4>3. QED
        BY <4>1, <4>2
    <3>2. CASE PublishError(m)
      BY <3>2 DEF PublishError, subVars, RegistryInv
    <3>3. QED
      BY <1>6, <3>1, <3>2
  <2>3. QED
    BY <2>1, <2>2 DEF RegistryInv, KeepsOpen
<1>7. ASSUME NEW p \in Pod, Subscribe(p) \/ StreamEnds(p)
      PROVE  RegistryInv' /\ KeepsOpen
  <2>1. UNCHANGED <<browser, conns, entries, target>>
    BY <1>7 DEF Subscribe, StreamEnds, clientVars, mapVars
  <2>2. stream' \in [Pod -> Seq(Message)]
    <3>1. stream' = stream \/ stream' = [stream EXCEPT ![p] = <<>>]
      BY <1>7 DEF Subscribe, StreamEnds
    <3>2. <<>> \in Seq(Message)
      OBVIOUS
    <3>3. QED
      BY <3>1, <3>2 DEF RegistryInv
  <2>3. QED
    BY <2>1, <2>2 DEF RegistryInv, KeepsOpen
<1>8. ASSUME NEW p \in Pod, Forward(p) PROVE RegistryInv' /\ KeepsOpen
  <2> DEFINE m == Head(stream[p])
             k == ChannelOf[m]
  <2>1. stream[p] \in Seq(Message) /\ stream[p] # <<>>
    BY <1>8 DEF Forward, RegistryInv
  <2>2. m \in Message /\ Tail(stream[p]) \in Seq(Message)
    BY <2>1
  <2>3. k \in Key
    BY <2>2
  <2>4. /\ conns' = [conns EXCEPT ![p][k] = {c \in conns[p][k] : browser[c] = "open"}]
        /\ stream' = [stream EXCEPT ![p] = Tail(stream[p])]
        /\ target' = target \/ target' = [target EXCEPT ![p] = k]
        /\ UNCHANGED <<entries, browser>>
    BY <1>8 DEF Forward, Reached, clientVars
  <2>5. stream' \in [Pod -> Seq(Message)] /\ target' \in [Pod -> Key]
    BY <2>2, <2>3, <2>4 DEF RegistryInv
  <2>6. /\ entries' \in [Pod -> SUBSET Key]
        /\ conns' \in [Pod -> [Key -> SUBSET Conn]]
        /\ \A q \in Pod, l \in Key : \A d \in conns'[q][l] :
             l \in entries'[q] /\ PodOf[d] = q /\ KeyOf[d] = l
        /\ KeepsOpen
    <3> HIDE DEF m, k
    <3> DEFINE kept == {d \in conns[p][k] : browser[d] = "open"}
    <3>1. kept \subseteq conns[p][k]
      OBVIOUS
    <3>2. QED
      BY <2>3, <2>4, <3>1, RetainSound
  <2>7. QED
    BY <2>4, <2>5, <2>6 DEF RegistryInv
<1>9. ASSUME NEW p \in Pod, ForwardRemoves(p) PROVE RegistryInv' /\ KeepsOpen
  <2>1. Drop(p, target[p]) /\ UNCHANGED <<browser, target, stream>>
    BY <1>9 DEF ForwardRemoves, clientVars
  <2>2. target[p] \in Key
    BY DEF RegistryInv
  <2>3. QED
    BY <2>1, <2>2, DropSound DEF RegistryInv
<1>10. QED
  BY <1>1, <1>2, <1>3, <1>4, <1>5, <1>6, <1>7, <1>8, <1>9
  DEF Next, Heartbeat, Subscriber

----------------------------------------------------------------------------
(* What a connection got, what it has coming and what it should see.       *)

\* Nothing was sent to a connection that does not exist yet.
Fresh ==
  \A c \in Conn : browser[c] = "none" => received[c] = <<>> /\ ~Registered(c)

StreamInv == TypeOK /\ Fresh /\ NoGap

\* What NoGap says of one connection.
InStep(c) ==
  browser[c] = "open" /\ Registered(c) /\ subscriber[PodOf[c]] # "ended" =>
    due[c] = received[c] \o Pending(c)

\* A step that opens, registers and resubscribes nobody and leaves what a
\* connection got and has coming.
LEMMA SideStep ==
  ASSUME StreamInv, NEW c \in Conn,
         browser'[c] = "open" => browser[c] = "open",
         Registered(c)' => Registered(c),
         \/ subscriber'[PodOf[c]] = "ended"
         \/ /\ subscriber[PodOf[c]] # "ended"
            /\ stream'[PodOf[c]] = stream[PodOf[c]]
         \/ subscriber'[PodOf[c]] = subscriber[PodOf[c]] /\ stream'[PodOf[c]] = stream[PodOf[c]],
         received'[c] = received[c], due'[c] = due[c]
  PROVE  InStep(c)'
<1> SUFFICES ASSUME browser'[c] = "open", Registered(c)', subscriber'[PodOf[c]] # "ended"
             PROVE  due'[c] = received'[c] \o Pending(c)'
  BY DEF InStep
<1>1. due[c] = received[c] \o Pending(c)
  BY DEF StreamInv, NoGap
<1>2. Pending(c)' = Pending(c)
  BY DEF Pending
<1>3. QED
  BY <1>1, <1>2

\* Every step keeps the types.
LEMMA TypeSound ==
  ASSUME TypeOK, [Next]_vars
  PROVE  TypeOK'
<1> USE SseAssumption
<1>1. RegistryInv'
  BY StepSound DEF TypeOK, RegistryInv
<1>2. SUFFICES /\ heartbeat' \in [Conn -> {"none", "beating", "removing", "ended"}]
               /\ subscriber' \in [Pod -> {"starting", "waiting", "removing", "ended"}]
               /\ published' \subseteq Message
               /\ received' \in [Conn -> Seq(Message)] /\ due' \in [Conn -> Seq(Message)]
               /\ streamErrors' \in Nat
  BY <1>1 DEF TypeOK, RegistryInv
<1>3. CASE UNCHANGED vars
  BY <1>3 DEF TypeOK, vars, clientVars, mapVars, subVars, logVars
<1>4. ASSUME NEW c \in Conn, Connect(c) PROVE <1>2!1
  <2>1. Pending(c) \in Seq(Message)
    BY OfKeyType DEF Pending, TypeOK
  <2>2. QED
    BY <1>4, <2>1 DEF Connect, TypeOK, subVars
<1>5. ASSUME NEW c \in Conn, Close(c) \/ HeartbeatFails(c) \/ HeartbeatRemoves(c) PROVE <1>2!1
  <2>1. /\ UNCHANGED <<subscriber, published, received, due, streamErrors>>
        /\ \/ heartbeat' = heartbeat
           \/ \E h \in {"removing", "ended"} : heartbeat' = [heartbeat EXCEPT ![c] = h]
    BY <1>5 DEF Close, HeartbeatFails, HeartbeatRemoves, subVars, logVars
  <2>2. heartbeat \in [Conn -> {"none", "beating", "removing", "ended"}]
    BY DEF TypeOK
  <2>3. heartbeat' \in [Conn -> {"none", "beating", "removing", "ended"}]
    <3>1. CASE heartbeat' = heartbeat
      BY <3>1, <2>2
    <3>2. CASE heartbeat' = [heartbeat EXCEPT ![c] = "removing"]
      BY <3>2, <2>2
    <3>3. CASE heartbeat' = [heartbeat EXCEPT ![c] = "ended"]
      BY <3>3, <2>2
    <3>4. QED
      BY <2>1, <3>1, <3>2, <3>3
  <2>4. QED
    BY <2>1, <2>3 DEF TypeOK
<1>6. ASSUME NEW m \in Message, Publish(m) PROVE <1>2!1
  <2> DEFINE live == {p \in Pod : subscriber[p] \in {"waiting", "removing"}}
             at(c) == browser[c] # "none" /\ PodOf[c] \in live /\ KeyOf[c] = ChannelOf[m]
  <2>1. due' = [c \in Conn |-> IF at(c) THEN Append(due[c], m) ELSE due[c]]
    BY <1>6 DEF Publish
  <2> HIDE DEF at, live
  <2>2. ASSUME NEW c \in Conn PROVE due[c] \in Seq(Message) /\ Append(due[c], m) \in Seq(Message)
    <3>1. due[c] \in Seq(Message)
      BY DEF TypeOK
    <3>2. QED
      BY <3>1
  <2>3. due' \in [Conn -> Seq(Message)]
    BY <2>1, <2>2
  <2>4. QED
    BY <1>6, <2>3 DEF Publish, TypeOK, clientVars
<1>7. ASSUME NEW m \in Message, PublishError(m) PROVE <1>2!1
  BY <1>7 DEF PublishError, TypeOK, clientVars, subVars
<1>8. ASSUME NEW p \in Pod, Subscribe(p) \/ ForwardRemoves(p) \/ StreamEnds(p) PROVE <1>2!1
  <2>1. /\ UNCHANGED <<heartbeat, published, received, due>>
        /\ streamErrors' \in {streamErrors, streamErrors + 1}
        /\ \E h \in {"waiting", "ended"} : subscriber' = [subscriber EXCEPT ![p] = h]
    BY <1>8 DEF Subscribe, ForwardRemoves, StreamEnds, clientVars, logVars
  <2>2. QED
    BY <2>1 DEF TypeOK
<1>9. ASSUME NEW p \in Pod, Forward(p) PROVE <1>2!1
  <2> DEFINE m == Head(stream[p])
  <2>1. stream[p] \in Seq(Message) /\ stream[p] # <<>>
    BY <1>9 DEF Forward, TypeOK
  <2>2. m \in Message
    BY <2>1
  <2> DEFINE reached == Reached(p, ChannelOf[m])
  <2>3. received' = [c \in Conn |-> IF c \in reached THEN received[c] \o <<m>> ELSE received[c]]
    BY <1>9 DEF Forward, Sent
  <2>4. /\ subscriber' = subscriber \/ subscriber' = [subscriber EXCEPT ![p] = "removing"]
        /\ UNCHANGED <<heartbeat, published, due, streamErrors>>
    BY <1>9 DEF Forward, clientVars
  <2> HIDE DEF reached, m
  <2>5. ASSUME NEW c \in Conn PROVE received[c] \in Seq(Message) /\ received[c] \o <<m>> \in Seq(Message)
    <3>1. received[c] \in Seq(Message)
      BY DEF TypeOK
    <3>2. QED
      BY <3>1, <2>2
  <2>6. received' \in [Conn -> Seq(Message)]
    BY <2>3, <2>5
  <2>7. QED
    BY <2>4, <2>6 DEF TypeOK
<1>10. QED
  BY <1>3, <1>4, <1>5, <1>6, <1>7, <1>8, <1>9 DEF Next, Heartbeat, Subscriber

LEMMA ConcatAssoc ==
  ASSUME NEW S, NEW a \in Seq(S), NEW b \in Seq(S), NEW e \in S
  PROVE  a \o (<<e>> \o b) = (a \o <<e>>) \o b
OBVIOUS

\* Removing an entry registers nobody.
LEMMA DropRegisters ==
  ASSUME TypeOK, NEW p \in Pod, NEW k \in Key, Drop(p, k)
  PROVE  \A q \in Pod, l \in Key : conns'[q][l] \subseteq conns[q][l]
<1>1. conns' = [conns EXCEPT ![p] = [conns[p] EXCEPT ![k] = {}]]
  BY DEF Drop
<1>2. conns \in [Pod -> [Key -> SUBSET Conn]]
  BY DEF TypeOK
<1>3. \A q \in Pod, l \in Key :
        conns'[q][l] = IF q = p /\ l = k THEN {} ELSE conns[q][l]
  BY <1>1, <1>2
<1>4. QED
  BY <1>3

\* Every step keeps every connection in step with what was published.
LEMMA StreamStep ==
  ASSUME StreamInv, [Next]_vars
  PROVE  Fresh' /\ \A c \in Conn : InStep(c)'
<1> USE SseAssumption
<1> DEFINE Quiet ==
      /\ \A c \in Conn : browser'[c] \in {"none", "open"} => browser[c] = browser'[c]
      /\ \A q \in Pod, l \in Key : conns'[q][l] \subseteq conns[q][l]
      /\ \A p \in Pod : \/ subscriber'[p] = "ended"
                        \/ subscriber[p] # "ended" /\ stream'[p] = stream[p]
                        \/ subscriber'[p] = subscriber[p] /\ stream'[p] = stream[p]
      /\ UNCHANGED <<received, due>>
<1>1. TypeOK
  BY DEF StreamInv
<1>2. ASSUME Quiet PROVE Fresh' /\ \A c \in Conn : InStep(c)'
  <2>1. \A c \in Conn : Registered(c)' => Registered(c)
    BY <1>2 DEF Registered
  <2>2. Fresh'
    BY <1>2, <2>1 DEF StreamInv, Fresh
  <2>3. ASSUME NEW c \in Conn PROVE InStep(c)'
    <3>1. PodOf[c] \in Pod
      OBVIOUS
    <3>2. QED
      BY <1>2, <2>1, <3>1, SideStep
  <2>4. QED
    BY <2>2, <2>3
<1>3. CASE UNCHANGED vars
  <2>1. Quiet
    BY <1>3 DEF vars, clientVars, mapVars, subVars, logVars
  <2> HIDE DEF Quiet
  <2>2. QED
    BY <2>1, <1>2
<1>4. ASSUME NEW c \in Conn, Connect(c) PROVE Fresh' /\ \A d \in Conn : InStep(d)'
  <2> DEFINE p == PodOf[c]
             k == KeyOf[c]
  <2>1. /\ browser[c] = "none" /\ browser' = [browser EXCEPT ![c] = "open"]
        /\ conns' = [conns EXCEPT ![p] = [conns[p] EXCEPT ![k] = conns[p][k] \cup {c}]]
        /\ due' = [due EXCEPT ![c] = Pending(c)]
        /\ UNCHANGED <<subscriber, stream, received>>
    BY <1>4 DEF Connect, subVars
  <2>2. /\ p \in Pod /\ k \in Key
        /\ conns \in [Pod -> [Key -> SUBSET Conn]] /\ browser \in [Conn -> {"none", "open", "closed"}]
        /\ due \in [Conn -> Seq(Message)]
    BY <1>1 DEF TypeOK
  <2>3. \A q \in Pod, l \in Key :
          conns'[q][l] = IF q = p /\ l = k THEN conns[p][k] \cup {c} ELSE conns[q][l]
    <3> HIDE DEF p, k
    <3>1. QED
      BY <2>1, <2>2
  <2>4. ASSUME NEW d \in Conn, d # c
        PROVE  /\ browser'[d] = browser[d] /\ due'[d] = due[d]
               /\ Registered(d)' => Registered(d)
    <3>1. browser'[d] = browser[d] /\ due'[d] = due[d]
      BY <2>1, <2>2, <2>4
    <3>2. PodOf[d] \in Pod /\ KeyOf[d] \in Key
      OBVIOUS
    <3>3. Registered(d)' => Registered(d)
      BY <2>3, <2>4, <3>2 DEF Registered
    <3>4. QED
      BY <3>1, <3>3
  <2>5. Fresh'
    <3>1. browser'[c] = "open"
      BY <2>1, <2>2
    <3>2. QED
      BY <2>1, <2>4, <3>1 DEF StreamInv, Fresh
  <2>6. InStep(c)'
    <3>1. received'[c] = <<>>
      BY <2>1 DEF StreamInv, Fresh
    <3>2. due'[c] = Pending(c)
      BY <2>1, <2>2
    <3>3. Pending(c)' = Pending(c)
      BY <2>1 DEF Pending
    <3>4. Pending(c) \in Seq(Message)
      BY <1>1, OfKeyType DEF Pending, TypeOK
    <3>5. <<>> \o Pending(c) = Pending(c)
      BY <3>4
    <3>6. QED
      BY <3>1, <3>2, <3>3, <3>5 DEF InStep
  <2>7. ASSUME NEW d \in Conn, d # c PROVE InStep(d)'
    <3>1. subscriber'[PodOf[d]] = subscriber[PodOf[d]] /\ stream'[PodOf[d]] = stream[PodOf[d]]
          /\ received'[d] = received[d]
      BY <2>1
    <3>2. QED
      BY <2>4, <2>7, <3>1, SideStep
  <2>8. QED
    BY <2>5, <2>6, <2>7
<1>5. ASSUME NEW c \in Conn, Close(c) PROVE Quiet
  <2>1. browser' = [browser EXCEPT ![c] = "closed"] /\ UNCHANGED <<conns, subscriber, stream, received, due>>
    BY <1>5 DEF Close, mapVars, subVars, logVars
  <2>2. browser \in [Conn -> {"none", "open", "closed"}]
    BY <1>1 DEF TypeOK
  <2>3. QED
    BY <2>1, <2>2
<1>6. ASSUME NEW c \in Conn, HeartbeatFails(c) PROVE Quiet
  <2>1. /\ conns' = [conns EXCEPT ![PodOf[c]] = [conns[PodOf[c]] EXCEPT ![KeyOf[c]] = conns[PodOf[c]][KeyOf[c]] \ {c}]]
        /\ UNCHANGED <<browser, subscriber, stream, received, due>>
    BY <1>6 DEF HeartbeatFails, subVars, logVars
  <2>2. conns \in [Pod -> [Key -> SUBSET Conn]]
    BY <1>1 DEF TypeOK
  <2>3. \A q \in Pod, l \in Key : conns'[q][l] \subseteq conns[q][l]
    BY <2>1, <2>2
  <2>4. QED
    BY <2>1, <2>3
<1>7. ASSUME NEW c \in Conn, HeartbeatRemoves(c) PROVE Quiet
  <2>1. Drop(PodOf[c], KeyOf[c]) /\ UNCHANGED <<browser, subscriber, stream, received, due>>
    BY <1>7 DEF HeartbeatRemoves, subVars, logVars
  <2>2. QED
    BY <2>1, <1>1, DropRegisters
<1>8. ASSUME NEW m \in Message, Publish(m) PROVE Fresh' /\ \A c \in Conn : InStep(c)'
  <2> DEFINE live == {p \in Pod : subscriber[p] \in {"waiting", "removing"}}
             at(c) == browser[c] # "none" /\ PodOf[c] \in live /\ KeyOf[c] = ChannelOf[m]
  <2>1. /\ stream' = [p \in Pod |-> IF p \in live THEN Append(stream[p], m) ELSE stream[p]]
        /\ due' = [c \in Conn |-> IF at(c) THEN Append(due[c], m) ELSE due[c]]
        /\ UNCHANGED <<browser, conns, subscriber, received>>
    BY <1>8 DEF Publish, clientVars, mapVars
  <2>2. Fresh'
    BY <2>1 DEF StreamInv, Fresh, Registered
  <2>3. ASSUME NEW c \in Conn, InStep(c)!1' PROVE due'[c] = received'[c] \o Pending(c)'
    <3> DEFINE s == stream[PodOf[c]]
    <3>1. browser[c] = "open" /\ Registered(c) /\ subscriber[PodOf[c]] # "ended"
      BY <2>1, <2>3 DEF Registered
    <3>2. due[c] = received[c] \o Pending(c)
      BY <3>1 DEF StreamInv, NoGap
    <3>3. PodOf[c] \in Pod /\ s \in Seq(Message) /\ received[c] \in Seq(Message)
      BY <1>1 DEF TypeOK
    <3>4. CASE PodOf[c] \in live
      <4>1. stream'[PodOf[c]] = Append(s, m)
        BY <2>1, <3>3, <3>4
      <4>2. Pending(c)' = IF ChannelOf[m] = KeyOf[c] THEN Append(Pending(c), m) ELSE Pending(c)
        BY <4>1, <3>3, OfKeyAppend DEF Pending
      <4>3. Pending(c) \in Seq(Message)
        BY <3>3, OfKeyType DEF Pending
      <4>4. received[c] \o Append(Pending(c), m) = Append(received[c] \o Pending(c), m)
        <5> DEFINE pend == Pending(c)
                   got == received[c]
        <5>1. got \in Seq(Message) /\ pend \in Seq(Message)
          BY <4>3, <3>3
        <5> HIDE DEF pend, got
        <5>2. got \o Append(pend, m) = Append(got \o pend, m)
          BY ONLY <5>1, m \in Message
        <5>3. QED
          BY <5>2 DEF pend, got
      <4>5. due'[c] = IF ChannelOf[m] = KeyOf[c] THEN Append(due[c], m) ELSE due[c]
        BY <2>1, <3>1, <3>4
      <4>6. QED
        BY <4>2, <4>4, <4>5, <3>2, <2>1
    <3>5. CASE PodOf[c] \notin live
      <4>1. stream'[PodOf[c]] = s /\ due'[c] = due[c]
        BY <2>1, <3>3, <3>5
      <4>2. Pending(c)' = Pending(c)
        BY <4>1 DEF Pending
      <4>3. QED
        BY <4>1, <4>2, <3>2, <2>1
    <3>6. QED
      BY <3>4, <3>5
  <2>4. QED
    BY <2>2, <2>3 DEF InStep
<1>9. ASSUME NEW m \in Message, PublishError(m) PROVE Quiet
  BY <1>9 DEF PublishError, clientVars, mapVars, subVars
<1>10. ASSUME NEW p \in Pod, Subscribe(p) PROVE Quiet
  <2>1. /\ subscriber[p] = "starting" /\ subscriber' = [subscriber EXCEPT ![p] = "waiting"]
        /\ UNCHANGED <<browser, conns, stream, received, due>>
    BY <1>10 DEF Subscribe, clientVars, mapVars, logVars
  <2>2. \A q \in Pod : q = p \/ subscriber'[q] = subscriber[q]
    BY <2>1, <1>1 DEF TypeOK
  <2>3. QED
    BY <2>1, <2>2
<1>11. ASSUME NEW p \in Pod, StreamEnds(p) PROVE Quiet
  <2>1. /\ subscriber' = [subscriber EXCEPT ![p] = "ended"] /\ stream' = [stream EXCEPT ![p] = <<>>]
        /\ UNCHANGED <<browser, conns, received, due>>
    BY <1>11 DEF StreamEnds, clientVars, mapVars, logVars
  <2>2. /\ subscriber'[p] = "ended"
        /\ \A q \in Pod : q = p \/ (subscriber'[q] = subscriber[q] /\ stream'[q] = stream[q])
    BY <2>1, <1>1 DEF TypeOK
  <2>3. QED
    BY <2>1, <2>2
<1>12. ASSUME NEW p \in Pod, ForwardRemoves(p) PROVE Quiet
  <2>1. /\ subscriber[p] = "removing" /\ subscriber' = [subscriber EXCEPT ![p] = "waiting"]
        /\ Drop(p, target[p])
        /\ UNCHANGED <<browser, stream, received, due>>
    BY <1>12 DEF ForwardRemoves, clientVars, logVars
  <2>2. \A q \in Pod : q = p \/ subscriber'[q] = subscriber[q]
    BY <2>1, <1>1 DEF TypeOK
  <2>3. target[p] \in Key
    BY <1>1 DEF TypeOK
  <2>4. \A q \in Pod, l \in Key : conns'[q][l] \subseteq conns[q][l]
    BY <2>1, <2>3, <1>1, DropRegisters
  <2>5. QED
    BY <2>1, <2>2, <2>4
<1>13. ASSUME NEW p \in Pod, Forward(p) PROVE Fresh' /\ \A c \in Conn : InStep(c)'
  <2> DEFINE s == stream[p]
             m == Head(s)
             k == ChannelOf[m]
             reached == {c \in conns[p][k] : browser[c] = "open"}
  <2>1. /\ s \in Seq(Message) /\ s # <<>>
        /\ conns \in [Pod -> [Key -> SUBSET Conn]]
        /\ subscriber[p] = "waiting" /\ subscriber \in [Pod -> {"starting", "waiting", "removing", "ended"}]
        /\ stream \in [Pod -> Seq(Message)]
        /\ received \in [Conn -> Seq(Message)]
    BY <1>13, <1>1 DEF Forward, TypeOK
  <2>2. m \in Message /\ k \in Key /\ Tail(s) \in Seq(Message)
    BY <2>1
  <2>3. /\ stream' = [stream EXCEPT ![p] = Tail(s)]
        /\ received' = [c \in Conn |-> IF c \in reached THEN received[c] \o <<m>> ELSE received[c]]
        /\ conns' = [conns EXCEPT ![p] = [conns[p] EXCEPT ![k] = reached]]
        /\ subscriber' = subscriber \/ subscriber' = [subscriber EXCEPT ![p] = "removing"]
        /\ UNCHANGED <<browser, due>>
    BY <1>13 DEF Forward, Reached, Sent, clientVars
  <2>4. \A q \in Pod, l \in Key : conns'[q][l] \subseteq conns[q][l]
    <3> HIDE DEF s, m, k
    <3>1. \A q \in Pod, l \in Key :
            conns'[q][l] = IF q = p /\ l = k THEN reached ELSE conns[q][l]
      <4> HIDE DEF reached
      <4>1. QED
        BY <2>1, <2>2, <2>3
    <3>2. QED
      BY <3>1
  <2>5. \A c \in Conn : Registered(c)' => Registered(c)
    BY <2>4 DEF Registered
  <2>6. Fresh'
    BY <2>3, <2>5 DEF StreamInv, Fresh
  <2>7. ASSUME NEW c \in Conn, InStep(c)!1' PROVE due'[c] = received'[c] \o Pending(c)'
    <3>1. browser[c] = "open" /\ Registered(c) /\ PodOf[c] \in Pod /\ KeyOf[c] \in Key
      BY <2>3, <2>5, <2>7
    <3>2. CASE PodOf[c] = p
      <4>1. due[c] = received[c] \o Pending(c)
        BY <2>1, <3>1, <3>2 DEF StreamInv, NoGap
      <4>2. Pending(c) = IF k = KeyOf[c] THEN <<m>> \o OfKey(Tail(s), KeyOf[c])
                         ELSE OfKey(Tail(s), KeyOf[c])
        BY <2>1, <3>2, OfKeyHead DEF Pending
      <4>3. Pending(c)' = OfKey(Tail(s), KeyOf[c])
        <5>1. stream'[p] = Tail(s)
          BY <2>1, <2>3
        <5>2. QED
          BY <5>1, <3>2 DEF Pending
      <4>4. OfKey(Tail(s), KeyOf[c]) \in Seq(Message) /\ received[c] \in Seq(Message)
        BY <2>1, <2>2, OfKeyType
      <4>5. received[c] \o (<<m>> \o OfKey(Tail(s), KeyOf[c]))
              = (received[c] \o <<m>>) \o OfKey(Tail(s), KeyOf[c])
        <5> DEFINE rest == OfKey(Tail(s), KeyOf[c])
        <5> HIDE DEF rest, m
        <5>1. rest \in Seq(Message) /\ m \in Message /\ received[c] \in Seq(Message)
          BY <4>4, <2>2 DEF rest
        <5>2. received[c] \o (<<m>> \o rest) = (received[c] \o <<m>>) \o rest
          BY <5>1, ConcatAssoc, ZenonT(60)
        <5>3. QED
          BY <5>2 DEF rest
      <4>6. c \in reached <=> k = KeyOf[c]
        <5>1. k = KeyOf[c] => c \in conns[p][k]
          BY <3>1, <3>2 DEF Registered
        <5>2. c \in reached => k = KeyOf[c]
          BY <1>1, <2>2 DEF TypeOK
        <5>3. QED
          BY <3>1, <5>1, <5>2
      <4>7. received'[c] = IF k = KeyOf[c] THEN received[c] \o <<m>> ELSE received[c]
        <5> HIDE DEF reached, m, k
        <5>1. QED
          BY <2>3, <4>6
      <4> HIDE DEF reached, m, k, s
      <4>8. QED
        BY <4>1, <4>2, <4>3, <4>5, <4>7, <2>3
    <3>3. CASE PodOf[c] # p
      <4>1. c \notin reached
        BY <1>1, <2>2, <3>3 DEF TypeOK
      <4>2. received'[c] = received[c] /\ due'[c] = due[c]
        <5> HIDE DEF reached, m, k
        <5>1. QED
          BY <2>3, <4>1
      <4>3. stream'[PodOf[c]] = stream[PodOf[c]] /\ subscriber'[PodOf[c]] = subscriber[PodOf[c]]
        BY <2>1, <2>3, <3>1, <3>3
      <4>4. Pending(c)' = Pending(c)
        BY <4>3 DEF Pending
      <4>5. due[c] = received[c] \o Pending(c)
        BY <2>7, <3>1, <4>3 DEF StreamInv, NoGap
      <4>6. QED
        BY <4>2, <4>4, <4>5
    <3>4. QED
      BY <3>2, <3>3
  <2>8. QED
    BY <2>6, <2>7 DEF InStep
<1>14. QED
  <2> HIDE DEF Quiet
  <2>1. QED
    BY <1>2, <1>3, <1>4, <1>5, <1>6, <1>7, <1>8, <1>9, <1>10, <1>11, <1>12, <1>13
    DEF Next, Heartbeat, Subscriber

----------------------------------------------------------------------------
(* Theorems.                                                               *)

\* Every registered connection is in an entry of the map under its own pod and
\* key, whichever connections, heartbeats and removals race on the entry.
THEOREM RegistrySound == Spec => []RegistryInv
<1>1. Init => RegistryInv
  BY DEF Init, RegistryInv
<1>2. RegistryInv /\ [Next]_vars => RegistryInv'
  BY StepSound
<1>3. QED
  BY <1>1, <1>2, PTL DEF Spec

\* Cleaning dead connections out of an entry takes no open one with it, for any
\* number of connections, keys, and pods (retain in the heartbeat and in
\* send_to_local_connections).
THEOREM CleanupSpares == Spec => CleanupKeepsOpen
<1>1. RegistryInv /\ [Next]_vars => [KeepsOpen]_vars
  BY StepSound
<1>2. QED
  BY <1>1, RegistrySound, PTL DEF Spec, CleanupKeepsOpen, KeepsOpen

\* Every variable keeps its type, and every registered connection is in an entry
\* of the map under its own pod and key.
THEOREM TypeCorrect == Spec => []TypeOK
<1>1. Init => TypeOK
  <2> SUFFICES ASSUME Init PROVE TypeOK
    OBVIOUS
  <2>1. <<>> \in Seq(Message)
    OBVIOUS
  <2>2. QED
    BY <2>1, SseAssumption DEF Init, TypeOK
<1>2. TypeOK /\ [Next]_vars => TypeOK'
  BY TypeSound
<1>3. QED
  BY <1>1, <1>2, PTL DEF Spec

\* A registered open connection has got exactly the messages of its key in the
\* order they were published but for those still in its pod's stream, for any
\* number of connections, neighbours, pods and messages (create_sse_response
\* and send_to_local_connections).
THEOREM NothingMissed == Spec => []NoGap
<1>1. Init => StreamInv
  <2> SUFFICES ASSUME Init PROVE StreamInv
    OBVIOUS
  <2>1. <<>> \in Seq(Message)
    OBVIOUS
  <2>2. TypeOK
    BY <2>1, SseAssumption DEF Init, TypeOK
  <2>3. Fresh /\ NoGap
    BY SseAssumption DEF Init, Fresh, NoGap, Registered
  <2>4. QED
    BY <2>2, <2>3 DEF StreamInv
<1>2. StreamInv /\ [Next]_vars => StreamInv'
  <2> SUFFICES ASSUME StreamInv, [Next]_vars PROVE StreamInv'
    OBVIOUS
  <2>1. TypeOK'
    BY TypeSound DEF StreamInv
  <2>2. Fresh' /\ NoGap'
    BY StreamStep DEF NoGap, InStep
  <2>3. QED
    BY <2>1, <2>2 DEF StreamInv
<1>3. StreamInv => NoGap
  BY DEF StreamInv
<1>4. QED
  BY <1>1, <1>2, <1>3, PTL DEF Spec
============================================================================
