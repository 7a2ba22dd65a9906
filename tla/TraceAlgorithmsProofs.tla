----------------------- MODULE TraceAlgorithmsProofs ------------------------
(****************************************************************************)
(* Proofs about the functions of SpanTree and Transcript, for lists of spans *)
(* of every length.                                                          *)
(****************************************************************************)
EXTENDS MCTraceAlgorithms, FiniteSetTheorems, FunctionTheorems, SequenceTheorems,
        WellFoundedInduction, TLAPS

----------------------------------------------------------------------------
(* Numbers.                                                                 *)

LEMMA LeastNat ==
  ASSUME NEW S \in SUBSET Nat, S # {}
  PROVE  Min(S) \in S /\ \A x \in S : Min(S) <= x
<1> DEFINE R == {ss \in Nat \X Nat : ss[1] < ss[2]}
<1>1. PICK x \in S : \A y \in S : ~(<<y, x>> \in R)
  <2>1. IsWellFoundedOn(R, Nat)
    <3>1. OpToRel(<, Nat) = R
      BY DEF OpToRel
    <3>2. QED
      BY <3>1, NatLessThanWellFounded
  <2> HIDE DEF R
  <2>2. QED
    BY <2>1, WFMin
<1>2. ASSUME NEW y \in S PROVE x <= y
  <2>1. ~(<<y, x>>[1] < <<y, x>>[2]) \/ <<y, x>> \notin Nat \X Nat
    BY <1>1, <1>2
  <2>2. <<y, x>> \in Nat \X Nat /\ x \in Nat /\ y \in Nat
    BY <1>2
  <2>3. <<y, x>>[1] = y /\ <<y, x>>[2] = x
    OBVIOUS
  <2>4. QED
    BY <2>1, <2>2, <2>3
<1>3. QED
  BY <1>2 DEF Min

\* Induction over a set of numbers: one outside of P would have a least one
\* beside it.
LEMMA Induction ==
  ASSUME NEW I \in SUBSET Nat, NEW P,
         \A i \in I : (\A j \in I : j < i => j \in P) => i \in P
  PROVE  I \subseteq P
<1> DEFINE T == I \ P
           x == Min(T)
<1>1. SUFFICES ASSUME T # {} PROVE FALSE
  OBVIOUS
<1>2. x \in T /\ \A y \in T : x <= y
  BY <1>1, LeastNat
<1> HIDE DEF x
<1>3. \A j \in I : j < x => j \in P
  BY <1>2
<1>4. QED
  BY <1>2, <1>3

\* A rule for values of the numbers in I: those in B have one, another's is made
\* from the value of a smaller one.
Rule(N, I, D, B, base, up, step) ==
  /\ N \in Nat /\ I \in SUBSET (0..N) /\ B \in SUBSET I /\ base \in [B -> D]
  /\ up \in [I \ B -> I] /\ (\A i \in I \ B : up[i] < i) /\ step \in [I \ B -> [D -> D]]

\* There are such values.
LEMMA Recursion ==
  ASSUME NEW N, NEW I, NEW D, NEW B, NEW base, NEW up, NEW step, Rule(N, I, D, B, base, up, step)
  PROVE  \E f \in [I -> D] : \A i \in I : f[i] = IF i \in B THEN base[i] ELSE step[i][f[up[i]]]
<1> USE DEF Rule
<1> DEFINE Below(n) == {i \in I : i < n}
           Right(f, n) == \A i \in Below(n) : f[i] = IF i \in B THEN base[i] ELSE step[i][f[up[i]]]
           P == {n \in Nat : \E f \in [Below(n) -> D] : Right(f, n)}
<1>1. ASSUME NEW i \in I PROVE i \in Nat /\ i >= 0 /\ i <= N /\ i < N + 1
  <2>1. i \in 0..N
    OBVIOUS
  <2>2. QED
    BY <2>1
<1>2. ASSUME NEW i \in I \ B PROVE up[i] \in I /\ up[i] < i /\ up[i] \in Nat /\ i \in Nat
  <2>1. up[i] \in I /\ i \in I /\ up[i] < i
    OBVIOUS
  <2>2. QED
    BY <1>1, <2>1
<1>3. ASSUME NEW n \in Nat, \A j \in Nat : j < n => j \in P PROVE n \in P
  <2>1. CASE n = 0
    <3>1. Below(0) = {}
      <4>1. \A i \in I : ~(i < 0)
        BY <1>1
      <4>2. QED
        BY <4>1
    <3> DEFINE e == [i \in Below(0) |-> CHOOSE d \in D : TRUE]
    <3>2. e \in [Below(0) -> D]
      BY <3>1
    <3>3. Right(e, 0)
      BY <3>1
    <3> HIDE DEF Below, e
    <3>4. QED
      BY <2>1, <3>2, <3>3
  <2>2. CASE n # 0
    <3> DEFINE m == n - 1
    <3>1. m \in Nat /\ m < n /\ m + 1 = n
      BY <2>2
    <3>2. PICK f \in [Below(m) -> D] : Right(f, m)
      BY <1>3, <3>1
    <3> DEFINE new == IF m \in B THEN base[m] ELSE step[m][f[up[m]]]
               g == [i \in Below(n) |-> IF i = m THEN new ELSE f[i]]
    <3> HIDE DEF m
    <3>3. \A i \in Below(n) : i # m => i \in Below(m)
      BY <3>1
    <3>4. m \in I => new \in D
      <4>1. CASE m \in B
        BY <4>1
      <4>2. CASE m \in I \ B
        <5>1. up[m] \in Below(m)
          BY <4>2
        <5>2. f[up[m]] \in D
          BY <5>1
        <5>3. QED
          BY <4>2, <5>2
      <4>3. QED
        BY <4>1, <4>2
    <3>5. g \in [Below(n) -> D]
      <4> HIDE DEF new
      <4>1. ASSUME NEW i \in Below(n) PROVE (IF i = m THEN new ELSE f[i]) \in D
        BY <3>3, <3>4, <4>1
      <4>2. QED
        BY <4>1
    <3>6. ASSUME NEW i \in Below(n) PROVE g[i] = IF i \in B THEN base[i] ELSE step[i][g[up[i]]]
      <4>1. i \in I \ B => up[i] \in I /\ up[i] < i /\ up[i] \in Below(n) /\ up[i] # m /\ g[up[i]] = f[up[i]]
        <5> SUFFICES ASSUME i \in I \ B PROVE up[i] \in I /\ up[i] < i /\ up[i] \in Below(n) /\ up[i] # m /\ g[up[i]] = f[up[i]]
          OBVIOUS
        <5>1. up[i] \in I /\ up[i] < i /\ up[i] \in Nat /\ i \in Nat /\ i < n
          BY <1>2
        <5>2. up[i] < n /\ up[i] # m
          BY <3>1, <5>1
        <5>3. QED
          BY <5>1, <5>2
      <4>2. CASE i = m
        BY <4>1, <4>2
      <4>3. CASE i # m
        <5>1. i \in Below(m) /\ g[i] = f[i]
          BY <3>3, <4>3
        <5>2. f[i] = IF i \in B THEN base[i] ELSE step[i][f[up[i]]]
          BY <3>2, <5>1
        <5> HIDE DEF g
        <5>3. QED
          BY <4>1, <5>1, <5>2
      <4>4. QED
        BY <4>2, <4>3
    <3> HIDE DEF g
    <3>7. QED
      BY <3>5, <3>6
  <2>3. QED
    BY <2>1, <2>2
<1>4. Nat \subseteq P
  <2> HIDE DEF P
  <2>1. QED
    BY <1>3, Induction
<1>5. Below(N + 1) = I
  BY <1>1
<1>6. N + 1 \in P
  <2> HIDE DEF P
  <2>1. QED
    BY <1>4
<1>7. PICK f \in [Below(N + 1) -> D] : Right(f, N + 1)
  BY <1>6
<1> HIDE DEF Below
<1>8. QED
  BY <1>5, <1>7

\* In particular, one after the other.
Ladder(N, D, b, step) == N \in Nat /\ b \in D /\ step \in [1..N -> [D -> D]]

LEMMA Steps ==
  ASSUME NEW N, NEW D, NEW b, NEW step, Ladder(N, D, b, step)
  PROVE  \E f \in [0..N -> D] : f[0] = b /\ \A n \in 1..N : f[n] = step[n][f[n - 1]]
<1> USE DEF Ladder
<1> DEFINE B == {0}
           base == [n \in B |-> b]
           up == [n \in (0..N) \ B |-> n - 1]
           next == [n \in (0..N) \ B |-> step[n]]
<1>1. B \in SUBSET (0..N) /\ base \in [B -> D] /\ base[0] = b
  OBVIOUS
<1>2. (0..N) \ B = 1..N
  OBVIOUS
<1>3. /\ up \in [(0..N) \ B -> 0..N] /\ \A n \in (0..N) \ B : up[n] < n
      /\ next \in [(0..N) \ B -> [D -> D]]
  BY <1>2
<1>4. \A n \in 1..N : up[n] = n - 1 /\ next[n] = step[n]
  BY <1>2
<1> HIDE DEF base, up, next
<1> HIDE DEF B
<1>5. PICK f \in [0..N -> D] : \A i \in 0..N : f[i] = IF i \in B THEN base[i] ELSE next[i][f[up[i]]]
  <2>1. PICK I : I = 0..N
    OBVIOUS
  <2>2. I \in SUBSET (0..N)
    BY <2>1
  <2>3. B \in SUBSET I
    BY <1>1, <2>1
  <2>4. base \in [B -> D]
    BY <1>1
  <2>5. up \in [I \ B -> I]
    BY <1>3, <2>1
  <2>6. \A i \in I \ B : up[i] < i
    BY <1>3, <2>1
  <2>7. next \in [I \ B -> [D -> D]]
    BY <1>3, <2>1
  <2>8. Rule(N, I, D, B, base, up, next)
    BY <2>2, <2>3, <2>4, <2>5, <2>6, <2>7 DEF Rule
  <2>9. \E f \in [I -> D] : \A i \in I : f[i] = IF i \in B THEN base[i] ELSE next[i][f[up[i]]]
    BY <2>8, Recursion
  <2>10. QED
    BY <2>1, <2>9
<1> USE DEF B
<1>6. f[0] = b
  BY <1>1, <1>5
<1>7. ASSUME NEW n \in 1..N PROVE f[n] = step[n][f[n - 1]]
  <2>1. n \in 0..N /\ n \notin B
    OBVIOUS
  <2>2. f[n] = next[n][f[up[n]]]
    BY <1>5, <2>1
  <2>3. QED
    BY <1>4, <2>2
<1>8. QED
  BY <1>6, <1>7

----------------------------------------------------------------------------
(* Trees.                                                                   *)

\* The spans the lists are made of; that the strings of the model are strings is
\* for the provers.
Label == STRING \cup {"app", "DEFAULT", "LLM", "TOOL", "main", "sub"}

SpanRecord ==
  [id : Nat, parent : Nat \cup {None}, type : Label, path : Seq(Nat), names : Seq(Label),
   hash : Label \cup {None}, start : Nat, end : Nat, pending : BOOLEAN, collapsed : BOOLEAN,
   tokens : Nat, sum : Int]

LEMMA NewParent ==
  ASSUME NEW s \in SpanRecord, NEW p \in Nat \cup {None}
  PROVE  /\ [s EXCEPT !.parent = p] \in SpanRecord
         /\ [s EXCEPT !.parent = p].id = s.id /\ [s EXCEPT !.parent = p].parent = p
  BY DEF SpanRecord

\* A table of spans, each there once, with a number larger than its parent's.
Forest(S) ==
  /\ \E N \in Nat : Ids(S) \subseteq 0..N
  /\ \A s \in S : s.parent # None => s.parent \in Ids(S) /\ s.parent < s.id
  /\ \A s, t \in S : s.id = t.id => s = t

Parent(S, id) == The(S, id).parent

LEMMA TheOne ==
  ASSUME NEW S, Forest(S), NEW s \in S
  PROVE  The(S, s.id) = s /\ Parent(S, s.id) = s.parent /\ s.id \in Ids(S) /\ s.id \in Nat
<1>1. The(S, s.id) = s
  BY DEF The, Forest
<1>2. s.id \in Ids(S)
  BY DEF Ids
<1>3. s.id \in Nat
  BY <1>2 DEF Forest
<1>4. QED
  BY <1>1, <1>2, <1>3 DEF Parent

LEMMA ParentOf ==
  ASSUME NEW S, Forest(S), NEW id \in Ids(S)
  PROVE  /\ id \in Nat /\ The(S, id) \in S /\ The(S, id).id = id
         /\ Parent(S, id) # None => Parent(S, id) \in Ids(S) /\ Parent(S, id) < id /\ Parent(S, id) \in Nat
<1>1. PICK s \in S : s.id = id
  BY DEF Ids
<1>2. The(S, id) = s /\ Parent(S, id) = s.parent
  BY <1>1, TheOne
<1>3. \A x \in Ids(S) : x \in Nat
  BY DEF Forest
<1>4. QED
  BY <1>1, <1>2, <1>3 DEF Forest

\* getParentIds, unfolded once.
LEMMA ParentIdsDef ==
  ASSUME NEW S, Forest(S), NEW id \in Ids(S)
  PROVE  /\ ParentIds(S, id) \in Seq(Ids(S))
         /\ ParentIds(S, id) = IF Parent(S, id) = None THEN <<>>
                               ELSE Append(ParentIds(S, Parent(S, id)), Parent(S, id))
<1> DEFINE I == Ids(S)
           Up(f, i) == IF Parent(S, i) = None \/ Parent(S, i) \notin I THEN <<>>
                       ELSE Append(f[Parent(S, i)], Parent(S, i))
           up == CHOOSE f : f = [i \in I |-> Up(f, i)]
           B == {i \in I : Parent(S, i) = None}
           base == [i \in B |-> <<>>]
           parent == [i \in I \ B |-> Parent(S, i)]
           step == [i \in I \ B |-> [q \in Seq(I) |-> Append(q, Parent(S, i))]]
<1>1. \A i \in I : ParentIds(S, i) = up[i]
  BY DEF ParentIds, Parent
<1>2. PICK N \in Nat : I \subseteq 0..N
  BY DEF Forest
<1>3. \A i \in I \ B : Parent(S, i) \in I /\ Parent(S, i) < i
  BY ParentOf
<1>4. \A i \in B : Parent(S, i) = None
  OBVIOUS
<1> HIDE DEF I, B
<1>5. base \in [B -> Seq(I)]
  OBVIOUS
<1>6. parent \in [I \ B -> I] /\ \A i \in I \ B : parent[i] < i
  BY <1>3
<1>7. step \in [I \ B -> [Seq(I) -> Seq(I)]]
  BY <1>3
<1>8. B \in SUBSET I
  BY DEF B
<1>9. Rule(N, I, Seq(I), B, base, parent, step)
  BY <1>2, <1>5, <1>6, <1>7, <1>8 DEF Rule
<1>10. \A i \in B : base[i] = <<>>
  OBVIOUS
<1>11. \A i \in I \ B : parent[i] = Parent(S, i) /\ \A q \in Seq(I) : step[i][q] = Append(q, Parent(S, i))
  OBVIOUS
<1> HIDE DEF base, parent, step
<1>12. PICK f \in [I -> Seq(I)] : \A i \in I : f[i] = IF i \in B THEN base[i] ELSE step[i][f[parent[i]]]
  BY <1>9, Recursion
<1>13. ASSUME NEW i \in I PROVE f[i] = Up(f, i)
  <2>1. CASE i \in B
    BY <1>4, <1>10, <1>12, <2>1
  <2>2. CASE i \notin B
    <3>1. Parent(S, i) \in I /\ Parent(S, i) # None
      BY <1>3, <2>2 DEF B
    <3>2. f[i] = step[i][f[Parent(S, i)]]
      BY <1>11, <1>12, <2>2
    <3>3. f[Parent(S, i)] \in Seq(I)
      BY <1>12, <3>1
    <3>4. QED
      BY <1>11, <2>2, <3>1, <3>2, <3>3
  <2>3. QED
    BY <2>1, <2>2
<1>14. f = [i \in I |-> Up(f, i)]
  BY <1>12, <1>13
<1> HIDE DEF Up
<1>15. up = [i \in I |-> Up(up, i)]
  BY <1>14
<1>16. \A i \in I : up[i] = Up(up, i)
  BY <1>15
<1> USE DEF Up
<1> HIDE DEF up
<1> DEFINE Typed == {i \in I : up[i] \in Seq(I)}
<1>17. I \subseteq Typed
  <2>1. I \in SUBSET Nat
    BY <1>2
  <2>2. ASSUME NEW i \in I, \A j \in I : j < i => j \in Typed PROVE i \in Typed
    <3>1. CASE Parent(S, i) = None
      <4>1. up[i] = <<>>
        BY <1>16, <3>1
      <4>2. up[i] \in Seq(I)
        <5> HIDE DEF Up
        <5>1. QED
          BY <4>1
      <4>3. QED
        BY <4>2
    <3>2. CASE Parent(S, i) # None
      <4>1. Parent(S, i) \in I /\ Parent(S, i) < i
        BY <1>3, <3>2 DEF B
      <4>2. up[Parent(S, i)] \in Seq(I)
        BY <2>2, <4>1
      <4>3. up[i] = Append(up[Parent(S, i)], Parent(S, i))
        BY <1>16, <3>2, <4>1
      <4>4. Append(up[Parent(S, i)], Parent(S, i)) \in Seq(I)
        <5> HIDE DEF Up, Typed
        <5>1. QED
          BY <4>1, <4>2
      <4>5. QED
        BY <4>3, <4>4
    <3>3. QED
      BY <3>1, <3>2
  <2> HIDE DEF Typed
  <2>3. QED
    BY <2>1, <2>2, Induction
<1>18. \A i \in I : Parent(S, i) # None => Parent(S, i) \in I
  BY <1>3 DEF B
<1>19. id \in I
  BY DEF I
<1>20. QED
  BY <1>1, <1>16, <1>17, <1>18, <1>19 DEF I

\* The ids above a span: in the tree, each once, in the order of the numbers.
LEMMA Chain ==
  ASSUME NEW S, Forest(S), NEW id \in Ids(S)
  PROVE  /\ \A k \in DOMAIN ParentIds(S, id) : ParentIds(S, id)[k] \in Ids(S) /\ ParentIds(S, id)[k] < id
         /\ \A j, k \in DOMAIN ParentIds(S, id) : ParentIds(S, id)[j] = ParentIds(S, id)[k] => j = k
<1> DEFINE I == Ids(S)
           P(i) == ParentIds(S, i)
           Good(i) == /\ \A k \in DOMAIN P(i) : P(i)[k] \in I /\ P(i)[k] < i
                      /\ \A j, k \in DOMAIN P(i) : P(i)[j] = P(i)[k] => j = k
           G == {i \in I : Good(i)}
<1>1. I \in SUBSET Nat
  BY DEF Forest
<1>2. ASSUME NEW i \in I, \A j \in I : j < i => j \in G PROVE i \in G
  <2>1. CASE Parent(S, i) = None
    <3>1. P(i) = <<>>
      BY <2>1, ParentIdsDef
    <3>2. QED
      BY <3>1
  <2>2. CASE Parent(S, i) # None
    <3> DEFINE p == Parent(S, i)
    <3>1. p \in I /\ p < i /\ p \in Nat /\ i \in Nat
      BY <2>2, ParentOf
    <3>2. P(i) = Append(P(p), p) /\ P(p) \in Seq(I)
      BY <2>2, <3>1, ParentIdsDef
    <3>3. Good(p)
      BY <1>2, <3>1
    <3> HIDE DEF p
    <3>4. PICK q \in Seq(I) : q = P(p)
      BY <3>2
    <3>5. /\ \A k \in 1..Len(q) : q[k] \in I /\ q[k] < p
          /\ \A j, k \in 1..Len(q) : q[j] = q[k] => j = k
      BY <3>3, <3>4
    <3>6. P(i) = Append(q, p) /\ DOMAIN P(i) = 1..(Len(q) + 1) /\ P(i)[Len(q) + 1] = p
          /\ \A k \in 1..Len(q) : P(i)[k] = q[k]
      BY <3>1, <3>2, <3>4
    <3>7. ASSUME NEW k \in 1..(Len(q) + 1) PROVE P(i)[k] \in I /\ P(i)[k] < i
      <4>1. CASE k = Len(q) + 1
        BY <3>1, <3>6, <4>1
      <4>2. CASE k # Len(q) + 1
        <5>1. k \in 1..Len(q)
          BY <4>2
        <5>2. q[k] \in I /\ q[k] < p /\ q[k] \in Nat /\ P(i)[k] = q[k]
          BY <1>1, <3>5, <3>6, <5>1
        <5>3. QED
          BY <3>1, <5>2
      <4>3. QED
        BY <4>1, <4>2
    <3>8. ASSUME NEW j \in 1..(Len(q) + 1), NEW k \in 1..(Len(q) + 1), P(i)[j] = P(i)[k] PROVE j = k
      <4>1. \A m \in 1..Len(q) : q[m] \in Nat /\ q[m] # p /\ P(i)[m] = q[m]
        BY <1>1, <3>1, <3>5, <3>6
      <4>2. j \in 1..Len(q) \/ j = Len(q) + 1
        OBVIOUS
      <4>3. k \in 1..Len(q) \/ k = Len(q) + 1
        OBVIOUS
      <4>4. QED
        BY <3>5, <3>6, <3>8, <4>1, <4>2, <4>3
    <3>9. QED
      BY <3>6, <3>7, <3>8
  <2>3. QED
    BY <2>1, <2>2
<1>3. id \in G
  <2> HIDE DEF G
  <2>1. I \subseteq G
    BY <1>1, <1>2, Induction
  <2>2. QED
    BY <2>1
<1>4. QED
  BY <1>3

\* Who is above a span: its parent, and who is above its parent.
LEMMA AncestorsDef ==
  ASSUME NEW S, Forest(S), NEW id \in Ids(S)
  PROVE  /\ Ancestors(S, id) = IF Parent(S, id) = None THEN {}
                               ELSE Ancestors(S, Parent(S, id)) \cup {Parent(S, id)}
         /\ \A a \in Ancestors(S, id) : a \in Ids(S) /\ a \in Nat /\ a < id
<1> DEFINE Above == IF Parent(S, id) = None THEN {} ELSE Ancestors(S, Parent(S, id)) \cup {Parent(S, id)}
<1>1. ASSUME Parent(S, id) = None PROVE Ancestors(S, id) = Above
  <2>1. ParentIds(S, id) = <<>>
    BY <1>1, ParentIdsDef
  <2>2. QED
    BY <1>1, <2>1 DEF Ancestors, Range
<1>2. ASSUME Parent(S, id) # None PROVE Ancestors(S, id) = Above
  <2> DEFINE p == Parent(S, id)
  <2>1. p \in Ids(S)
    BY <1>2, ParentOf
  <2>2. PICK q \in Seq(Ids(S)) : q = ParentIds(S, p)
    BY <2>1, ParentIdsDef
  <2>3. ParentIds(S, id) = Append(q, p)
    BY <1>2, <2>2, ParentIdsDef
  <2> HIDE DEF p
  <2>4. Range(Append(q, p)) = Range(q) \cup {p}
    <3>1. DOMAIN Append(q, p) = 1..(Len(q) + 1) /\ Append(q, p)[Len(q) + 1] = p
          /\ (\A k \in 1..Len(q) : Append(q, p)[k] = q[k]) /\ DOMAIN q = 1..Len(q)
      BY <2>1
    <3>2. \A k \in 1..(Len(q) + 1) : k \in 1..Len(q) \/ k = Len(q) + 1
      OBVIOUS
    <3>3. \A k \in 1..Len(q) : k \in 1..(Len(q) + 1)
      OBVIOUS
    <3>4. Len(q) + 1 \in 1..(Len(q) + 1)
      OBVIOUS
    <3>5. PICK u : u = Append(q, p)
      OBVIOUS
    <3>6. Range(u) = Range(q) \cup {p}
      BY <3>1, <3>2, <3>3, <3>4, <3>5 DEF Range
    <3>7. QED
      BY <3>5, <3>6
  <2>5. Ancestors(S, id) = Ancestors(S, p) \cup {p}
    BY <2>2, <2>3, <2>4 DEF Ancestors
  <2>6. QED
    BY <1>2, <2>5 DEF p
<1>3. \A a \in Ancestors(S, id) : a \in Ids(S) /\ a < id
  BY Chain DEF Ancestors, Range
<1>4. \A a \in Ids(S) : a \in Nat
  BY DEF Forest
<1>5. Ancestors(S, id) = Above
  BY <1>1, <1>2
<1>6. QED
  BY <1>3, <1>4, <1>5

----------------------------------------------------------------------------
(* The search.                                                              *)

\* createParentRewiring, unfolded once.
LEMMA RewiringDef ==
  ASSUME NEW S, Forest(S), NEW kept \in SUBSET Ids(S)
  PROVE  \E nearest \in [Ids(S) -> kept \cup {None}] :
           /\ CreateParentRewiring(S, kept) = [id \in kept |-> nearest[id]]
           /\ \A i \in Ids(S) : nearest[i] = IF Parent(S, i) = None \/ Parent(S, i) \in kept THEN Parent(S, i)
                                             ELSE nearest[Parent(S, i)]
<1> DEFINE I == Ids(S)
           D == kept \cup {None}
           Up(f, i) == IF Parent(S, i) = None \/ Parent(S, i) \in kept THEN Parent(S, i)
                       ELSE IF Parent(S, i) \in I THEN f[Parent(S, i)] ELSE None
           near == CHOOSE f : f = [i \in I |-> Up(f, i)]
           B == {i \in I : Parent(S, i) = None \/ Parent(S, i) \in kept}
           base == [i \in B |-> Parent(S, i)]
           parent == [i \in I \ B |-> Parent(S, i)]
           step == [i \in I \ B |-> [d \in D |-> d]]
<1>1. CreateParentRewiring(S, kept) = [id \in kept |-> near[id]]
  BY DEF CreateParentRewiring, Parent
<1>2. PICK N \in Nat : I \subseteq 0..N
  BY DEF Forest
<1>3. \A i \in I \ B : Parent(S, i) \in I /\ Parent(S, i) < i
  BY ParentOf
<1>4. \A i \in I : i \in B <=> Parent(S, i) = None \/ Parent(S, i) \in kept
  OBVIOUS
<1>5. B \in SUBSET I
  OBVIOUS
<1> HIDE DEF I, B
<1>6. base \in [B -> D]
  BY <1>4, <1>5
<1>7. parent \in [I \ B -> I] /\ \A i \in I \ B : parent[i] < i
  BY <1>3
<1>8. step \in [I \ B -> [D -> D]]
  OBVIOUS
<1> HIDE DEF D
<1>9. Rule(N, I, D, B, base, parent, step)
  BY <1>2, <1>5, <1>6, <1>7, <1>8 DEF Rule
<1>10. \A i \in B : base[i] = Parent(S, i)
  OBVIOUS
<1>11. \A i \in I \ B : parent[i] = Parent(S, i) /\ \A d \in D : step[i][d] = d
  OBVIOUS
<1> HIDE DEF base, parent, step
<1>12. PICK f \in [I -> D] : \A i \in I : f[i] = IF i \in B THEN base[i] ELSE step[i][f[parent[i]]]
  BY <1>9, Recursion
<1>13. ASSUME NEW i \in I PROVE f[i] = Up(f, i)
  <2>1. CASE i \in B
    BY <1>4, <1>10, <1>12, <2>1
  <2>2. CASE i \notin B
    <3>1. Parent(S, i) \in I /\ f[Parent(S, i)] \in D
      BY <1>3, <1>12, <2>2
    <3>2. f[i] = step[i][f[Parent(S, i)]]
      BY <1>11, <1>12, <2>2
    <3>3. QED
      BY <1>4, <1>11, <2>2, <3>1, <3>2
  <2>3. QED
    BY <2>1, <2>2
<1>14. f = [i \in I |-> Up(f, i)]
  BY <1>12, <1>13
<1> HIDE DEF Up
<1>15. near = [i \in I |-> Up(near, i)]
  BY <1>14
<1>16. \A i \in I : near[i] = Up(near, i)
  BY <1>15
<1>17. DOMAIN near = I
  BY <1>15
<1> USE DEF Up
<1> HIDE DEF near
<1>18. \A i \in I : near[i] = IF Parent(S, i) = None \/ Parent(S, i) \in kept THEN Parent(S, i)
                              ELSE near[Parent(S, i)]
  BY <1>3, <1>4, <1>16
<1> DEFINE Typed == {i \in I : near[i] \in D}
<1>19. I \subseteq Typed
  <2>1. I \in SUBSET Nat
    BY <1>2
  <2>2. ASSUME NEW i \in I, \A j \in I : j < i => j \in Typed PROVE i \in Typed
    BY <1>3, <1>4, <1>18, <2>2 DEF D
  <2> HIDE DEF Typed
  <2>3. QED
    BY <2>1, <2>2, Induction
<1>20. near = [i \in I |-> near[i]]
  <2> HIDE DEF Up
  <2>1. PICK g : g = near
    OBVIOUS
  <2>2. g = [i \in I |-> Up(g, i)] /\ \A i \in I : g[i] = Up(g, i)
    BY <1>15, <1>16, <2>1
  <2>3. g = [i \in I |-> g[i]]
    BY <2>2
  <2>4. QED
    BY <2>1, <2>3
<1>21. near \in [I -> D]
  BY <1>19, <1>20
<1>22. QED
  BY <1>1, <1>18, <1>21 DEF I, D

\* The nearest kept span above another has the same kept spans above it.
LEMMA NearestAncestors ==
  ASSUME NEW S, Forest(S), NEW kept \in SUBSET Ids(S), NEW near \in [Ids(S) -> kept \cup {None}],
         \A i \in Ids(S) : near[i] = IF Parent(S, i) = None \/ Parent(S, i) \in kept THEN Parent(S, i)
                                     ELSE near[Parent(S, i)],
         NEW id \in Ids(S)
  PROVE  /\ near[id] # None => near[id] \in kept /\ near[id] < id
         /\ Ancestors(S, id) \cap kept =
              IF near[id] = None THEN {} ELSE (Ancestors(S, near[id]) \cap kept) \cup {near[id]}
<1> DEFINE I == Ids(S)
           Good(i) == /\ near[i] # None => near[i] \in kept /\ near[i] < i
                      /\ Ancestors(S, i) \cap kept =
                           IF near[i] = None THEN {} ELSE (Ancestors(S, near[i]) \cap kept) \cup {near[i]}
           G == {i \in I : Good(i)}
<1>1. I \in SUBSET Nat
  BY DEF Forest
<1>2. ASSUME NEW i \in I, \A j \in I : j < i => j \in G PROVE i \in G
  <2>1. CASE Parent(S, i) = None
    <3>1. near[i] = None /\ Ancestors(S, i) = {}
      BY <2>1, AncestorsDef
    <3>2. QED
      BY <3>1
  <2>2. CASE Parent(S, i) # None
    <3> DEFINE p == Parent(S, i)
    <3>1. p \in I /\ p < i /\ p \in Nat /\ i \in Nat
      BY <2>2, ParentOf
    <3>2. Ancestors(S, i) = Ancestors(S, p) \cup {p}
      BY <2>2, AncestorsDef
    <3>3. Good(p)
      BY <1>2, <3>1
    <3>4. CASE p \in kept
      <4>1. near[i] = p
        BY <3>4
      <4> HIDE DEF p
      <4>2. (Ancestors(S, p) \cup {p}) \cap kept = (Ancestors(S, p) \cap kept) \cup {p}
        BY <3>4
      <4>3. Good(i)
        BY <2>2, <3>1, <3>2, <3>4, <4>1, <4>2 DEF p
      <4>4. QED
        BY <4>3
    <3>5. CASE p \notin kept
      <4>1. near[i] = near[p]
        BY <2>2, <3>5
      <4> HIDE DEF p
      <4>2. (Ancestors(S, p) \cup {p}) \cap kept = Ancestors(S, p) \cap kept
        BY <3>5
      <4>3. near[p] \in Nat \cup {None}
        BY <1>1, <3>1
      <4>4. near[p] # None => near[p] < i
        BY <3>1, <3>3, <4>3
      <4>5. Good(i)
        BY <3>2, <3>3, <4>1, <4>2, <4>4
      <4>6. QED
        BY <4>5
    <3>6. QED
      BY <3>4, <3>5
  <2>3. QED
    BY <2>1, <2>2
<1>3. id \in G
  <2> HIDE DEF G
  <2>1. I \subseteq G
    BY <1>1, <1>2, Induction
  <2>2. QED
    BY <2>1
<1>4. QED
  BY <1>3

\* applyParentRewiring: the spans a search finds are a tree in which the same
\* found spans are above each other.
THEOREM SearchAncestry ==
  ASSUME NEW S, Forest(S), S \subseteq SpanRecord, NEW kept \in SUBSET Ids(S)
  PROVE  /\ Ids(TransformSpans(S, kept)) = kept
         /\ \A id \in kept : Ancestors(TransformSpans(S, kept), id) = Ancestors(S, id) \cap kept
<1> DEFINE T == TransformSpans(S, kept)
           up == CreateParentRewiring(S, kept)
           new(s) == [s EXCEPT !.parent = up[s.id]]
<1>1. PICK near \in [Ids(S) -> kept \cup {None}] :
           /\ up = [id \in kept |-> near[id]]
           /\ \A i \in Ids(S) : near[i] = IF Parent(S, i) = None \/ Parent(S, i) \in kept THEN Parent(S, i)
                                          ELSE near[Parent(S, i)]
  BY RewiringDef
<1>2. \A i \in Ids(S) :
        /\ near[i] # None => near[i] \in kept /\ near[i] < i
        /\ Ancestors(S, i) \cap kept =
             IF near[i] = None THEN {} ELSE (Ancestors(S, near[i]) \cap kept) \cup {near[i]}
  BY <1>1, NearestAncestors
<1>3. T = {new(s) : s \in {t \in S : t.id \in kept}}
  BY DEF TransformSpans
<1>4. \A i \in kept : up[i] = near[i] /\ i \in Ids(S) /\ up[i] \in Nat \cup {None}
  BY <1>1 DEF Forest
<1> HIDE DEF up, T
<1>5. ASSUME NEW s \in S, s.id \in kept
      PROVE  new(s).id = s.id /\ new(s).parent = near[s.id] /\ new(s) \in T
  <2>1. up[s.id] \in Nat \cup {None} /\ up[s.id] = near[s.id] /\ s \in SpanRecord
    BY <1>4, <1>5
  <2>2. new(s).id = s.id /\ new(s).parent = up[s.id]
    BY <2>1, NewParent
  <2>3. new(s) \in T
    BY <1>3, <1>5
  <2>4. QED
    BY <2>1, <2>2, <2>3
<1>6. \A t \in T : \E s \in S : s.id \in kept /\ t = new(s)
  BY <1>3
<1> HIDE DEF new
<1>7. Ids(T) = kept
  <2>1. ASSUME NEW i \in kept PROVE i \in Ids(T)
    <3>1. PICK s \in S : s.id = i
      BY DEF Ids
    <3>2. QED
      BY <1>5, <3>1 DEF Ids
  <2>2. QED
    BY <1>5, <1>6, <2>1 DEF Ids
<1>8. Forest(T)
  <2>1. PICK N \in Nat : Ids(S) \subseteq 0..N
    BY DEF Forest
  <2>2. Ids(T) \subseteq 0..N
    BY <1>7, <2>1
  <2>3. ASSUME NEW t \in T, t.parent # None PROVE t.parent \in Ids(T) /\ t.parent < t.id
    <3>1. PICK s \in S : s.id \in kept /\ t = new(s)
      BY <1>6
    <3>2. QED
      BY <1>2, <1>5, <1>7, <2>3, <3>1
  <2>4. ASSUME NEW t \in T, NEW u \in T, t.id = u.id PROVE t = u
    <3>1. PICK s \in S : s.id \in kept /\ t = new(s)
      BY <1>6
    <3>2. PICK r \in S : r.id \in kept /\ u = new(r)
      BY <1>6
    <3>3. s = r
      BY <1>5, <2>4, <3>1, <3>2 DEF Forest
    <3>4. QED
      BY <3>1, <3>2, <3>3
  <2>5. QED
    BY <2>2, <2>3, <2>4 DEF Forest
<1>9. ASSUME NEW i \in kept PROVE Parent(T, i) = near[i]
  <2>1. PICK s \in S : s.id = i
    BY DEF Ids
  <2>2. new(s) \in T /\ new(s).id = i /\ new(s).parent = near[i]
    BY <1>5, <2>1
  <2>3. QED
    BY <1>8, <2>2, TheOne
<1> DEFINE G == {i \in kept : Ancestors(T, i) = Ancestors(S, i) \cap kept}
<1>10. kept \subseteq G
  <2>1. kept \in SUBSET Nat
    BY DEF Forest
  <2>2. ASSUME NEW i \in kept, \A j \in kept : j < i => j \in G PROVE i \in G
    <3>1. Ancestors(T, i) = IF near[i] = None THEN {} ELSE Ancestors(T, near[i]) \cup {near[i]}
      BY <1>7, <1>8, <1>9, AncestorsDef
    <3>2. near[i] # None => near[i] \in G
      BY <1>2, <1>4, <2>2
    <3>3. Ancestors(T, i) = Ancestors(S, i) \cap kept
      BY <1>2, <1>4, <3>1, <3>2
    <3>4. QED
      BY <3>3
  <2> HIDE DEF G
  <2>3. QED
    BY <2>1, <2>2, Induction
<1>11. QED
  BY <1>7, <1>10 DEF T

----------------------------------------------------------------------------
(* The lists.                                                               *)

\* A list of the spans of a tree, each once.
Listed(L) ==
  /\ L \in Seq(SpanRecord)
  /\ \A i, j \in 1..Len(L) : L[i].id = L[j].id => i = j
  /\ Forest(Range(L))

\* The state: the numbers are those of the order in which the spans came.
ListInv ==
  /\ kind \in {"timeline", "tree", "agents"}
  /\ Listed(list)
  /\ Ids(All) = 1..Len(list)
  /\ kind = "timeline" => \A s \in All : s.end <= MaxTime /\ s.start <= s.end

\* M is L with s put somewhere.
With(L, s, M) ==
  /\ M \in Seq(SpanRecord) /\ Len(M) = Len(L) + 1
  /\ \E k \in 0..Len(L) : \A i \in 1..Len(M) :
       M[i] = IF i <= k THEN L[i] ELSE IF i = k + 1 THEN s ELSE L[i - 1]

LEMMA RangeOf == ASSUME NEW T, NEW L \in Seq(T) PROVE Range(L) = {L[i] : i \in 1..Len(L)}
  BY DEF Range

LEMMA WithRange ==
  ASSUME NEW L \in Seq(SpanRecord), NEW s \in SpanRecord, NEW M, With(L, s, M)
  PROVE  Range(M) = Range(L) \cup {s}
<1>1. PICK k \in 0..Len(L) : \A i \in 1..Len(M) : M[i] = IF i <= k THEN L[i] ELSE IF i = k + 1 THEN s ELSE L[i - 1]
  BY DEF With
<1>2. M \in Seq(SpanRecord) /\ Len(M) = Len(L) + 1 /\ Len(L) \in Nat /\ k \in Nat /\ k <= Len(L)
  BY DEF With
<1>3. ASSUME NEW i \in 1..Len(M) PROVE M[i] \in Range(L) \cup {s}
  <2>1. CASE i <= k
    <3>1. i \in 1..Len(L) /\ M[i] = L[i]
      BY <1>1, <1>2, <2>1
    <3>2. QED
      BY <3>1, RangeOf
  <2>2. CASE i = k + 1
    <3>1. M[i] = s
      BY <1>1, <1>2, <2>2
    <3>2. QED
      BY <3>1
  <2>3. CASE ~(i <= k) /\ i # k + 1
    <3>1. i - 1 \in 1..Len(L) /\ M[i] = L[i - 1]
      BY <1>1, <1>2, <2>3
    <3>2. QED
      BY <3>1, RangeOf
  <2>4. QED
    BY <2>1, <2>2, <2>3
<1>4. ASSUME NEW i \in 1..Len(L) PROVE L[i] \in Range(M)
  <2>1. CASE i <= k
    <3>1. i \in 1..Len(M) /\ M[i] = L[i]
      BY <1>1, <1>2, <2>1
    <3>2. QED
      BY <1>2, <3>1, RangeOf
  <2>2. CASE ~(i <= k)
    <3>1. i + 1 \in 1..Len(M) /\ ~(i + 1 <= k) /\ i + 1 # k + 1 /\ (i + 1) - 1 = i
      BY <1>2, <2>2
    <3>2. M[i + 1] = L[i]
      BY <1>1, <3>1
    <3>3. QED
      BY <1>2, <3>1, <3>2, RangeOf
  <2>3. QED
    BY <2>1, <2>2
<1>5. s \in Range(M)
  <2>1. k + 1 \in 1..Len(M) /\ ~(k + 1 <= k)
    BY <1>2
  <2>2. M[k + 1] = s
    BY <1>1, <2>1
  <2>3. QED
    BY <1>2, <2>1, <2>2, RangeOf
<1>6. QED
  BY <1>2, <1>3, <1>4, <1>5, RangeOf

\* A new span below the others leaves a tree.
LEMMA WithListed ==
  ASSUME NEW L, Listed(L), Ids(Range(L)) = 1..Len(L), NEW s \in SpanRecord, s.id = Len(L) + 1,
         s.parent \in {None} \cup Ids(Range(L)), NEW M, With(L, s, M)
  PROVE  Listed(M) /\ Ids(Range(M)) = 1..Len(M) /\ Range(M) = Range(L) \cup {s}
<1>1. L \in Seq(SpanRecord) /\ M \in Seq(SpanRecord) /\ Len(M) = Len(L) + 1 /\ Len(L) \in Nat
  BY DEF Listed, With
<1>2. Range(M) = Range(L) \cup {s}
  BY <1>1, WithRange
<1>3. Ids(Range(M)) = Ids(Range(L)) \cup {s.id}
  BY <1>2 DEF Ids
<1>4. 1..(Len(L) + 1) = (1..Len(L)) \cup {Len(L) + 1}
  BY <1>1
<1>5. Ids(Range(M)) = 1..Len(M)
  BY <1>1, <1>3, <1>4
<1>6. \A t \in Range(L) : t.id \in 1..Len(L) /\ t.id # s.id
  <2>1. \A t \in Range(L) : t.id \in Ids(Range(L))
    BY DEF Ids
  <2>2. \A n \in 1..Len(L) : n # Len(L) + 1
    BY <1>1
  <2>3. QED
    BY <2>1, <2>2
<1>7. Forest(Range(M))
  <2>1. Ids(Range(M)) \subseteq 0..(Len(L) + 1) /\ Len(L) + 1 \in Nat
    BY <1>1, <1>5
  <2>2. ASSUME NEW t \in Range(M), t.parent # None PROVE t.parent \in Ids(Range(M)) /\ t.parent < t.id
    <3>1. CASE t = s
      <4>1. s.parent \in 1..Len(L)
        BY <2>2, <3>1
      <4>2. QED
        BY <1>1, <1>3, <3>1, <4>1
    <3>2. CASE t # s
      <4>1. t \in Range(L)
        BY <1>2, <3>2
      <4>2. QED
        BY <1>3, <2>2, <4>1 DEF Forest, Listed
    <3>3. QED
      BY <3>1, <3>2
  <2>3. ASSUME NEW t \in Range(M), NEW u \in Range(M), t.id = u.id PROVE t = u
    BY <1>2, <1>6, <2>3 DEF Forest, Listed
  <2>4. QED
    BY <2>1, <2>2, <2>3 DEF Forest
<1>8. ASSUME NEW i \in 1..Len(M), NEW j \in 1..Len(M), M[i].id = M[j].id PROVE i = j
  <2>1. PICK k \in 0..Len(L) : \A n \in 1..Len(M) : M[n] = IF n <= k THEN L[n] ELSE IF n = k + 1 THEN s ELSE L[n - 1]
    BY DEF With
  <2> DEFINE at(n) == IF n <= k THEN n ELSE n - 1
  <2>2. \A n \in 1..Len(M) : n # k + 1 => at(n) \in 1..Len(L) /\ M[n] = L[at(n)]
    BY <1>1, <2>1
  <2>3. \A n \in 1..Len(L) : L[n].id # s.id
    BY <1>1, <1>6, RangeOf
  <2>4. M[k + 1] = s
    BY <1>1, <2>1
  <2>5. i = k + 1 <=> j = k + 1
    <3> HIDE DEF at
    <3>1. QED
      BY <1>8, <2>2, <2>3, <2>4
  <2>6. CASE i # k + 1 /\ j # k + 1
    <3>1. L[at(i)].id = L[at(j)].id /\ at(i) \in 1..Len(L) /\ at(j) \in 1..Len(L)
      <4> HIDE DEF at
      <4>1. QED
        BY <1>8, <2>2, <2>6
    <3>2. at(i) = at(j)
      <4> HIDE DEF at
      <4>1. QED
        BY <3>1 DEF Listed
    <3>3. QED
      BY <1>1, <2>6, <3>2
  <2>7. QED
    BY <2>5, <2>6
<1>9. QED
  BY <1>1, <1>2, <1>5, <1>7, <1>8 DEF Listed

LEMMA AppendWith ==
  ASSUME NEW L \in Seq(SpanRecord), NEW s \in SpanRecord
  PROVE  With(L, s, Append(L, s))
<1> DEFINE k == Len(L)
<1>1. k \in 0..Len(L) /\ Append(L, s) \in Seq(SpanRecord) /\ Len(Append(L, s)) = Len(L) + 1
  OBVIOUS
<1>2. \A i \in 1..(Len(L) + 1) : Append(L, s)[i] = IF i <= k THEN L[i] ELSE IF i = k + 1 THEN s ELSE L[i - 1]
  OBVIOUS
<1>3. QED
  BY <1>1, <1>2 DEF With

\* The two pieces of a list.
LEMMA Piece ==
  ASSUME NEW T, NEW L \in Seq(T), NEW k \in 0..Len(L)
  PROVE  /\ SubSeq(L, 1, k) \in Seq(T) /\ Len(SubSeq(L, 1, k)) = k
         /\ \A i \in 1..k : SubSeq(L, 1, k)[i] = L[i]
         /\ SubSeq(L, k + 1, Len(L)) \in Seq(T) /\ Len(SubSeq(L, k + 1, Len(L))) = Len(L) - k
         /\ \A i \in 1..(Len(L) - k) : SubSeq(L, k + 1, Len(L))[i] = L[k + i]
  OBVIOUS

LEMMA WithLast ==
  ASSUME NEW T, NEW L \in Seq(T), NEW s \in T
  PROVE  /\ L \o <<s>> \in Seq(T) /\ Len(L \o <<s>>) = Len(L) + 1 /\ (L \o <<s>>)[Len(L) + 1] = s
         /\ \A i \in 1..Len(L) : (L \o <<s>>)[i] = L[i]
<1>1. L \o <<s>> = Append(L, s)
  BY AppendIsConcat
<1>2. QED
  BY <1>1, AppendProperties

LEMMA InsertWith ==
  ASSUME NEW L \in Seq(SpanRecord), NEW s \in SpanRecord
  PROVE  With(L, s, InsertByStart(L, s))
<1> DEFINE n == Len(L)
           before == {i \in DOMAIN L : L[i].start <= s.start}
           k == Cardinality(before)
<1>1. n \in Nat /\ DOMAIN L = 1..n
  OBVIOUS
<1>2. k \in 0..n
  <2>1. IsFiniteSet(1..n) /\ Cardinality(1..n) = n
    BY <1>1, FS_Interval
  <2>2. before \subseteq 1..n
    BY <1>1
  <2>3. IsFiniteSet(before) /\ k <= n
    BY <2>1, <2>2, FS_Subset
  <2>4. QED
    BY <1>1, <2>3, FS_CardinalityType
<1>3. InsertByStart(L, s) = SubSeq(L, 1, k) \o <<s>> \o SubSeq(L, k + 1, n)
  BY DEF InsertByStart
<1> HIDE DEF k
<1>4. PICK A \in Seq(SpanRecord) : A = SubSeq(L, 1, k) /\ Len(A) = k /\ \A i \in 1..k : A[i] = L[i]
  <2>1. /\ SubSeq(L, 1, k) \in Seq(SpanRecord) /\ Len(SubSeq(L, 1, k)) = k
        /\ \A i \in 1..k : SubSeq(L, 1, k)[i] = L[i]
    BY <1>2, Piece
  <2>2. QED
    BY <2>1
<1>5. PICK C \in Seq(SpanRecord) : C = SubSeq(L, k + 1, n) /\ Len(C) = n - k /\ \A i \in 1..(n - k) : C[i] = L[k + i]
  <2>1. /\ SubSeq(L, k + 1, n) \in Seq(SpanRecord) /\ Len(SubSeq(L, k + 1, n)) = n - k
        /\ \A i \in 1..(n - k) : SubSeq(L, k + 1, n)[i] = L[k + i]
    BY <1>2, Piece
  <2>2. QED
    BY <2>1
<1> HIDE DEF n
<1>6. PICK B \in Seq(SpanRecord) : B = A \o <<s>> /\ Len(B) = Len(A) + 1 /\ B[Len(A) + 1] = s
                                  /\ \A i \in 1..Len(A) : B[i] = A[i]
  <2>1. /\ A \o <<s>> \in Seq(SpanRecord) /\ Len(A \o <<s>>) = Len(A) + 1 /\ (A \o <<s>>)[Len(A) + 1] = s
        /\ \A i \in 1..Len(A) : (A \o <<s>>)[i] = A[i]
    BY WithLast
  <2>2. QED
    BY <2>1
<1>7. Len(B) = k + 1 /\ B[k + 1] = s /\ \A i \in 1..k : B[i] = A[i]
  BY <1>4, <1>6
<1>8. PICK M \in Seq(SpanRecord) : M = B \o C
  <2>1. B \o C \in Seq(SpanRecord)
    BY <1>5, <1>6, ConcatProperties
  <2>2. QED
    BY <2>1
<1>9. /\ Len(M) = n + 1
      /\ \A i \in 1..(k + 1) : M[i] = B[i]
      /\ \A i \in 1..(n + 1) : i > k + 1 => M[i] = C[i - (k + 1)]
  <2>1. /\ Len(M) = Len(B) + Len(C)
        /\ \A i \in 1..(Len(B) + Len(C)) : M[i] = IF i <= Len(B) THEN B[i] ELSE C[i - Len(B)]
    <3>1. /\ Len(B \o C) = Len(B) + Len(C)
          /\ \A i \in 1..(Len(B) + Len(C)) : (B \o C)[i] = IF i <= Len(B) THEN B[i] ELSE C[i - Len(B)]
      BY <1>5, <1>6, ConcatProperties
    <3>2. QED
      BY <1>8, <3>1
  <2>2. Len(B) = k + 1 /\ Len(C) = n - k /\ Len(B) + Len(C) = n + 1 /\ k \in Nat /\ k <= n
    BY <1>1, <1>2, <1>5, <1>7
  <2>3. \A i \in 1..(n + 1) : M[i] = IF i <= k + 1 THEN B[i] ELSE C[i - (k + 1)]
    BY <2>1, <2>2
  <2>4. \A i \in 1..(k + 1) : i \in 1..(n + 1) /\ i <= k + 1
    BY <1>1, <2>2
  <2>5. \A i \in 1..(n + 1) : i > k + 1 => ~(i <= k + 1)
    BY <1>1, <2>2
  <2>6. QED
    BY <2>1, <2>2, <2>3, <2>4, <2>5
<1>10. ASSUME NEW i \in 1..(n + 1) PROVE M[i] = IF i <= k THEN L[i] ELSE IF i = k + 1 THEN s ELSE L[i - 1]
  <2>1. CASE i <= k
    <3>1. i \in 1..k /\ i \in 1..(k + 1)
      BY <1>2, <2>1
    <3>2. QED
      BY <1>4, <1>7, <1>9, <2>1, <3>1
  <2>2. CASE i = k + 1
    BY <1>2, <1>7, <1>9, <2>2
  <2>3. CASE i > k + 1
    <3>1. i - (k + 1) \in 1..(n - k) /\ k + (i - (k + 1)) = i - 1 /\ ~(i <= k) /\ i # k + 1
      BY <1>1, <1>2, <2>3
    <3>2. QED
      BY <1>5, <1>9, <2>3, <3>1
  <2>4. QED
    BY <1>2, <2>1, <2>2, <2>3
<1>11. InsertByStart(L, s) = M
  BY <1>3, <1>4, <1>5, <1>6, <1>8
<1>12. QED
  BY <1>2, <1>9, <1>10, <1>11 DEF With, n


LEMMA SpanTyped ==
  ASSUME Listed(list), NEW p \in Parents, NEW id \in Nat, NEW type \in Label
  PROVE  /\ Span(id, p, type) \in SpanRecord
         /\ Span(id, p, type).id = id /\ Span(id, p, type).parent = p
<1>1. p \in Nat \cup {None}
  BY DEF Parents, Listed, Forest
<1>2. PICK path \in Seq(Nat), names \in Seq(Label) :
        Span(id, p, type) =
          [id |-> id, parent |-> p, type |-> type, path |-> Append(path, id), names |-> Append(names, type),
           hash |-> None, start |-> id, end |-> id + 1, pending |-> FALSE, collapsed |-> FALSE, tokens |-> 0,
           sum |-> -1]
  <2>1. CASE p = None
    <3>1. Span(id, p, type) =
            [id |-> id, parent |-> p, type |-> type, path |-> Append(<<>>, id), names |-> Append(<<>>, type),
             hash |-> None, start |-> id, end |-> id + 1, pending |-> FALSE, collapsed |-> FALSE, tokens |-> 0,
             sum |-> -1]
      BY <2>1 DEF Span
    <3>2. <<>> \in Seq(Nat) /\ <<>> \in Seq(Label)
      OBVIOUS
    <3>3. QED
      BY <3>1, <3>2
  <2>2. CASE p # None
    <3> DEFINE a == The(Range(list), p)
    <3>1. a \in Range(list)
      BY <2>2, ParentOf DEF Parents, Listed
    <3>2. a \in SpanRecord
      BY <3>1, RangeOf DEF Listed
    <3>3. a.path \in Seq(Nat) /\ a.names \in Seq(Label)
      BY <3>2 DEF SpanRecord
    <3>4. Span(id, p, type) =
            [id |-> id, parent |-> p, type |-> type, path |-> Append(a.path, id), names |-> Append(a.names, type),
             hash |-> None, start |-> id, end |-> id + 1, pending |-> FALSE, collapsed |-> FALSE, tokens |-> 0,
             sum |-> -1]
      BY <2>2 DEF Span
    <3> HIDE DEF a
    <3>5. QED
      BY <3>3, <3>4
  <2>3. QED
    BY <2>1, <2>2
<1>3. Append(path, id) \in Seq(Nat)
  BY AppendProperties
<1>4. Append(names, type) \in Seq(Label)
  BY AppendProperties
<1>5. QED
  BY <1>1, <1>2, <1>3, <1>4 DEF SpanRecord

\* The other fields do not matter.
AtTimes(s, start, end) == [s EXCEPT !.start = start, !.end = end]

LEMMA NewTimes ==
  ASSUME NEW s \in SpanRecord, NEW start \in Nat, NEW end \in Nat
  PROVE  LET t == AtTimes(s, start, end)
         IN t \in SpanRecord /\ t.id = s.id /\ t.parent = s.parent /\ t.start = start /\ t.end = end
<1>1. PICK r \in SpanRecord : r = [s EXCEPT !.start = start]
  BY DEF SpanRecord
<1>2. r.id = s.id /\ r.parent = s.parent /\ r.start = start
  BY <1>1 DEF SpanRecord
<1>3. PICK t \in SpanRecord : t = [r EXCEPT !.end = end]
  BY DEF SpanRecord
<1>4. t.id = r.id /\ t.parent = r.parent /\ t.start = r.start /\ t.end = end
  BY <1>3 DEF SpanRecord
<1>5. QED
  BY <1>1, <1>2, <1>3, <1>4 DEF AtTimes

AsNode(s, collapsed, tokens) == [s EXCEPT !.collapsed = collapsed, !.tokens = tokens]

LEMMA NewNode ==
  ASSUME NEW s \in SpanRecord, NEW collapsed \in BOOLEAN, NEW tokens \in Nat
  PROVE  LET t == AsNode(s, collapsed, tokens)
         IN t \in SpanRecord /\ t.id = s.id /\ t.parent = s.parent /\ t.collapsed = collapsed /\ t.tokens = tokens
<1>1. PICK r \in SpanRecord : r = [s EXCEPT !.collapsed = collapsed]
  BY DEF SpanRecord
<1>2. r.id = s.id /\ r.parent = s.parent /\ r.collapsed = collapsed
  BY <1>1 DEF SpanRecord
<1>3. PICK t \in SpanRecord : t = [r EXCEPT !.tokens = tokens]
  BY DEF SpanRecord
<1>4. t.id = r.id /\ t.parent = r.parent /\ t.collapsed = r.collapsed /\ t.tokens = tokens
  BY <1>3 DEF SpanRecord
<1>5. QED
  BY <1>1, <1>2, <1>3, <1>4 DEF AsNode

AsCall(s, hash, tokens) == [s EXCEPT !.hash = hash, !.tokens = tokens]

LEMMA NewCall ==
  ASSUME NEW s \in SpanRecord, NEW hash \in Label \cup {None}, NEW tokens \in Nat
  PROVE  LET t == AsCall(s, hash, tokens)
         IN t \in SpanRecord /\ t.id = s.id /\ t.parent = s.parent /\ t.hash = hash /\ t.tokens = tokens
<1>1. PICK r \in SpanRecord : r = [s EXCEPT !.hash = hash]
  BY DEF SpanRecord
<1>2. r.id = s.id /\ r.parent = s.parent /\ r.hash = hash
  BY <1>1 DEF SpanRecord
<1>3. PICK t \in SpanRecord : t = [r EXCEPT !.tokens = tokens]
  BY DEF SpanRecord
<1>4. t.id = r.id /\ t.parent = r.parent /\ t.hash = r.hash /\ t.tokens = tokens
  BY <1>3 DEF SpanRecord
<1>5. QED
  BY <1>1, <1>2, <1>3, <1>4 DEF AsCall

LEMMA NewPath ==
  ASSUME NEW s \in SpanRecord
  PROVE  LET t == [s EXCEPT !.path = <<>>]
         IN t \in SpanRecord /\ t.id = s.id /\ t.parent = s.parent
<1>1. <<>> \in Seq(Nat)
  OBVIOUS
<1>2. QED
  BY <1>1 DEF SpanRecord

\* Both ways to add a span.
LEMMA Added ==
  ASSUME ListInv, NEW p \in Parents, NEW s \in SpanRecord, s.id = Len(list) + 1, s.parent = p,
         kind' = kind, kind = "timeline" => s.end <= MaxTime /\ s.start <= s.end,
         list' = InsertByStart(list, s) \/ list' = Append(list, s)
  PROVE  ListInv'
<1>1. list \in Seq(SpanRecord)
  BY DEF ListInv, Listed
<1>2. With(list, s, list')
  BY <1>1, InsertWith, AppendWith
<1>3. Listed(list') /\ Ids(Range(list')) = 1..Len(list') /\ Range(list') = Range(list) \cup {s}
  <2>1. PICK L : L = list
    OBVIOUS
  <2>2. PICK M : M = list'
    OBVIOUS
  <2>3. Listed(L) /\ Ids(Range(L)) = 1..Len(L) /\ s.id = Len(L) + 1 /\ s.parent \in {None} \cup Ids(Range(L)) /\ With(L, s, M)
    BY <1>2, <2>1, <2>2 DEF ListInv, All, Parents
  <2>4. QED
    BY <2>1, <2>2, <2>3, WithListed
<1>4. QED
  BY <1>3 DEF ListInv, All

\* The scaffold, with its ways and names as constants.
LEMMA MadeTyped ==
  ASSUME NEW id \in Nat, NEW tokens \in Nat, NEW parent \in Nat \cup {None}, NEW type \in Label,
         NEW path \in Seq(Nat), NEW names \in Seq(Label), NEW hash \in Label \cup {None}
  PROVE  LET s == [id |-> id, parent |-> parent, type |-> type, path |-> path, names |-> names, hash |-> hash,
                   start |-> id, end |-> 9, pending |-> FALSE, collapsed |-> FALSE, tokens |-> tokens, sum |-> -1]
         IN s \in SpanRecord /\ s.id = id /\ s.parent = parent
  BY DEF SpanRecord

LEMMA ScaffoldListed ==
  ASSUME NEW inner \in BOOLEAN
  PROVE  Listed(Scaffold(inner)) /\ Ids(Range(Scaffold(inner))) = 1..Len(Scaffold(inner))
<1> DEFINE made(id, parent, type, path, names, hash, tokens) ==
             [id |-> id, parent |-> parent, type |-> type, path |-> path, names |-> names, hash |-> hash,
              start |-> id, end |-> 9, pending |-> FALSE, collapsed |-> FALSE, tokens |-> tokens, sum |-> -1]
           Is(s, id, parent) == s \in SpanRecord /\ s.id = id /\ s.parent = parent
<1>1. \A a, b, c \in Label : <<a>> \in Seq(Label) /\ <<a, b>> \in Seq(Label) /\ <<a, b, c>> \in Seq(Label)
  OBVIOUS
<1>2. /\ "app" \in Label /\ "DEFAULT" \in Label /\ "LLM" \in Label /\ "TOOL" \in Label
      /\ "main" \in Label \cup {None} /\ "sub" \in Label \cup {None} /\ None \in Label \cup {None}
  BY DEF Label
<1>3. /\ <<1>> \in Seq(Nat) /\ <<1, 2>> \in Seq(Nat) /\ <<1, 3>> \in Seq(Nat) /\ <<1, 4>> \in Seq(Nat)
      /\ <<1, 3, 4>> \in Seq(Nat) /\ <<1, 3, 5>> \in Seq(Nat)
  OBVIOUS
<1>4. PICK root : root = made(1, None, "DEFAULT", <<1>>, <<"app">>, None, 0) /\ Is(root, 1, None)
  <2>1. PICK path \in Seq(Nat) : path = <<1>>
    BY <1>3, Zenon
  <2>2. PICK names \in Seq(Label) : names = <<"app">>
    BY <1>1, <1>2, Zenon
  <2>3. PICK s : s = made(1, None, "DEFAULT", path, names, None, 0)
    OBVIOUS
  <2>4. Is(s, 1, None)
    BY <1>2, <2>3, MadeTyped
  <2>5. QED
    BY <2>1, <2>2, <2>3, <2>4
<1>5. PICK main : main = made(2, 1, "LLM", <<1, 2>>, <<"app", "LLM">>, "main", 2) /\ Is(main, 2, 1)
  <2>1. PICK path \in Seq(Nat) : path = <<1, 2>>
    BY <1>3, Zenon
  <2>2. PICK names \in Seq(Label) : names = <<"app", "LLM">>
    BY <1>1, <1>2, Zenon
  <2>3. PICK s : s = made(2, 1, "LLM", path, names, "main", 2)
    OBVIOUS
  <2>4. Is(s, 2, 1)
    BY <1>2, <2>3, MadeTyped
  <2>5. QED
    BY <2>1, <2>2, <2>3, <2>4
<1>6. PICK tool : tool = made(3, 1, "TOOL", <<1, 3>>, <<"app", "TOOL">>, None, 0) /\ Is(tool, 3, 1)
  <2>1. PICK path \in Seq(Nat) : path = <<1, 3>>
    BY <1>3, Zenon
  <2>2. PICK names \in Seq(Label) : names = <<"app", "TOOL">>
    BY <1>1, <1>2, Zenon
  <2>3. PICK s : s = made(3, 1, "TOOL", path, names, None, 0)
    OBVIOUS
  <2>4. Is(s, 3, 1)
    BY <1>2, <2>3, MadeTyped
  <2>5. QED
    BY <2>1, <2>2, <2>3, <2>4
<1>7. PICK next : /\ next = IF inner THEN made(4, 3, "TOOL", <<1, 3, 4>>, <<"app", "TOOL", "TOOL">>, None, 0)
                             ELSE made(4, 1, "TOOL", <<1, 4>>, <<"app", "TOOL">>, None, 0)
                  /\ Is(next, 4, 3) \/ Is(next, 4, 1)
  <2>1. PICK path \in Seq(Nat) : path = IF inner THEN <<1, 3, 4>> ELSE <<1, 4>>
    BY <1>3, Zenon
  <2>2. PICK names \in Seq(Label) : names = IF inner THEN <<"app", "TOOL", "TOOL">> ELSE <<"app", "TOOL">>
    BY <1>1, <1>2, Zenon
  <2>3. PICK parent \in Nat \cup {None} : parent = IF inner THEN 3 ELSE 1
    OBVIOUS
  <2>4. PICK s : s = made(4, parent, "TOOL", path, names, None, 0)
    OBVIOUS
  <2>5. Is(s, 4, parent)
    BY <1>2, <2>4, MadeTyped
  <2>6. QED
    BY <2>1, <2>2, <2>3, <2>4, <2>5
<1>8. PICK call : call = made(5, 3, "LLM", <<1, 3, 5>>, <<"app", "TOOL", "LLM">>, "sub", 2) /\ Is(call, 5, 3)
  <2>1. PICK path \in Seq(Nat) : path = <<1, 3, 5>>
    BY <1>3, Zenon
  <2>2. PICK names \in Seq(Label) : names = <<"app", "TOOL", "LLM">>
    BY <1>1, <1>2, Zenon
  <2>3. PICK s : s = made(5, 3, "LLM", path, names, "sub", 2)
    OBVIOUS
  <2>4. Is(s, 5, 3)
    BY <1>2, <2>3, MadeTyped
  <2>5. QED
    BY <2>1, <2>2, <2>3, <2>4
<1>9. Scaffold(inner) = <<root, main, tool, next, call>>
  BY <1>4, <1>5, <1>6, <1>7, <1>8 DEF Scaffold
<1>10. PICK L \in Seq(SpanRecord) : L = <<root, main, tool, next, call>>
  <2>1. \A a, b, c, d, e \in SpanRecord : <<a, b, c, d, e>> \in Seq(SpanRecord)
    OBVIOUS
  <2> HIDE DEF made
  <2>2. <<root, main, tool, next, call>> \in Seq(SpanRecord)
    BY <1>4, <1>5, <1>6, <1>7, <1>8, <2>1, Zenon
  <2>3. QED
    BY <2>2
<1> HIDE DEF made
<1>11. /\ Len(L) = 5
       /\ Is(L[1], 1, None) /\ Is(L[2], 2, 1) /\ Is(L[3], 3, 1) /\ (Is(L[4], 4, 3) \/ Is(L[4], 4, 1)) /\ Is(L[5], 5, 3)
  <2> HIDE DEF Is
  <2>1. Len(L) = 5 /\ L[1] = root /\ L[2] = main /\ L[3] = tool /\ L[4] = next /\ L[5] = call
    BY <1>10
  <2>2. QED
    BY <1>4, <1>5, <1>6, <1>7, <1>8, <2>1
<1>12. \A i \in 1..5 : L[i].id = i /\ (L[i].parent # None => L[i].parent \in 1..5 /\ L[i].parent < i)
  <2>1. \A i \in 1..5 : i = 1 \/ i = 2 \/ i = 3 \/ i = 4 \/ i = 5
    OBVIOUS
  <2>2. QED
    BY <1>11, <2>1
<1>13. Range(L) = {L[i] : i \in 1..5}
  BY <1>11, RangeOf
<1>14. Ids(Range(L)) = 1..5
  BY <1>12, <1>13 DEF Ids
<1>15. Forest(Range(L))
  <2>1. Ids(Range(L)) \subseteq 0..5
    BY <1>14
  <2>2. \A s \in Range(L) : s.parent # None => s.parent \in Ids(Range(L)) /\ s.parent < s.id
    BY <1>12, <1>13, <1>14
  <2>3. \A s, t \in Range(L) : s.id = t.id => s = t
    BY <1>12, <1>13
  <2>4. QED
    BY <2>1, <2>2, <2>3 DEF Forest
<1>16. Listed(L)
  BY <1>11, <1>12, <1>15 DEF Listed
<1>17. QED
  BY <1>9, <1>10, <1>11, <1>14, <1>16

\* Every list is one of the spans of a tree, each once, and numbered.
THEOREM ListsAreTrees == Spec => []ListInv
<1>1. Init => ListInv
  <2>1. ASSUME kind \in {"timeline", "tree"}, list = <<>> PROVE ListInv
    <3>1. PICK L : L = list
      OBVIOUS
    <3>2. L \in Seq(SpanRecord) /\ Len(L) = 0
      BY <2>1, <3>1
    <3>3. Range(L) = {} /\ Ids(Range(L)) = {} /\ 1..Len(L) = {}
      <4>1. 1..Len(L) = {}
        BY <3>2
      <4>2. Range(L) = {}
        BY <3>2, <4>1, RangeOf
      <4>3. QED
        BY <4>1, <4>2 DEF Ids
    <3>4. Listed(L)
      BY <3>2, <3>3 DEF Listed, Forest
    <3>5. QED
      BY <2>1, <3>1, <3>3, <3>4 DEF ListInv, All
  <2>2. ASSUME kind = "agents", NEW inner \in BOOLEAN, list = Scaffold(inner) PROVE ListInv
    BY <2>2, ScaffoldListed DEF ListInv, All
  <2>3. QED
    BY <2>1, <2>2 DEF Init
<1>2. ASSUME ListInv, [Next]_<<kind, list>> PROVE ListInv'
  <2>1. ListInv /\ list \in Seq(SpanRecord) /\ Listed(list) /\ Len(list) + 1 \in Nat
    BY <1>2 DEF ListInv, Listed
  <2>2. PICK n \in Nat : n = Len(list) + 1
    BY <2>1
  <2>3. ASSUME NEW p \in Parents, NEW start \in 0..MaxTime, NEW end \in 0..MaxTime, AddInterval(p, start, end)
        PROVE  ListInv'
    <3>1. PICK s : s = Span(n, p, "DEFAULT")
      OBVIOUS
    <3>2. s \in SpanRecord /\ s.id = n /\ s.parent = p
      <4>1. "DEFAULT" \in Label
        BY DEF Label
      <4>2. QED
        BY <2>1, <3>1, <4>1, SpanTyped
    <3>3. PICK t : t = AtTimes(s, start, end)
      OBVIOUS
    <3>4. start \in Nat /\ end \in Nat /\ end <= MaxTime
      BY AlgorithmsAssumption
    <3>5. t \in SpanRecord /\ t.id = s.id /\ t.parent = s.parent /\ t.start = start /\ t.end = end
      <4>1. s \in SpanRecord /\ start \in Nat /\ end \in Nat
        BY <3>2, <3>4
      <4>2. AtTimes(s, start, end) \in SpanRecord /\ AtTimes(s, start, end).id = s.id
            /\ AtTimes(s, start, end).parent = s.parent
            /\ AtTimes(s, start, end).start = start /\ AtTimes(s, start, end).end = end
        BY <4>1, NewTimes
      <4>3. QED
        BY <3>3, <4>2
    <3>6. list' = InsertByStart(list, t) /\ kind' = kind /\ start <= end
      BY <2>2, <2>3, <3>1, <3>3 DEF AddInterval, AtTimes
    <3>7. QED
      BY <2>1, <2>2, <3>2, <3>4, <3>5, <3>6, Added
  <2>4. ASSUME NEW p \in Parents, NEW type \in {"LLM", "DEFAULT"}, NEW collapsed \in BOOLEAN,
               AddNode(p, type, collapsed)
        PROVE  ListInv'
    <3>1. PICK s : s = Span(n, p, type)
      OBVIOUS
    <3>2. s \in SpanRecord /\ s.id = n /\ s.parent = p
      <4>1. type \in Label
        BY DEF Label
      <4>2. QED
        BY <2>1, <3>1, <4>1, SpanTyped
    <3>3. PICK tokens \in Nat : tokens = IF type = "LLM" THEN n ELSE 0
      OBVIOUS
    <3>4. PICK t : t = AsNode(s, collapsed, tokens)
      OBVIOUS
    <3>5. t \in SpanRecord /\ t.id = s.id /\ t.parent = s.parent
      BY <3>2, <3>4, NewNode
    <3>6. list' = Append(list, t) /\ kind' = kind /\ kind # "timeline"
      BY <2>2, <2>4, <3>1, <3>3, <3>4 DEF AddNode, AsNode
    <3>7. QED
      BY <2>1, <2>2, <3>2, <3>5, <3>6, Added
  <2>5. ASSUME NEW p \in Parents, NEW hash \in Label \cup {None}, NEW bare \in BOOLEAN, AddCall(p, hash, bare)
        PROVE  ListInv'
    <3>1. PICK s : s = Span(n, p, "LLM")
      OBVIOUS
    <3>2. s \in SpanRecord /\ s.id = n /\ s.parent = p
      <4>1. "LLM" \in Label
        BY DEF Label
      <4>2. QED
        BY <2>1, <3>1, <4>1, SpanTyped
    <3>3. PICK tokens \in Nat : tokens = n
      OBVIOUS
    <3>4. PICK t : t = AsCall(s, hash, tokens)
      OBVIOUS
    <3>5. t \in SpanRecord /\ t.id = s.id /\ t.parent = s.parent
      BY <3>2, <3>4, NewCall
    <3>6. PICK u : u = IF bare THEN [t EXCEPT !.path = <<>>] ELSE t
      OBVIOUS
    <3>7. u \in SpanRecord /\ u.id = s.id /\ u.parent = s.parent
      BY <3>5, <3>6, NewPath
    <3>8. list' = Append(list, u) /\ kind' = kind /\ kind # "timeline"
      BY <2>2, <2>5, <3>1, <3>3, <3>4, <3>6 DEF AddCall, AsCall
    <3>9. QED
      BY <2>1, <2>2, <3>2, <3>7, <3>8, Added
  <2>6. ASSUME NEW p \in Parents, NEW type \in {"TOOL", "DEFAULT"}, AddTool(p, type)
        PROVE  ListInv'
    <3>1. PICK s : s = Span(n, p, type)
      OBVIOUS
    <3>2. s \in SpanRecord /\ s.id = n /\ s.parent = p
      <4>1. type \in Label
        BY DEF Label
      <4>2. QED
        BY <2>1, <3>1, <4>1, SpanTyped
    <3>3. list' = Append(list, s) /\ kind' = kind /\ kind # "timeline"
      BY <2>2, <2>6, <3>1 DEF AddTool
    <3>4. QED
      BY <2>1, <2>2, <3>2, <3>3, Added
  <2>7. CASE UNCHANGED <<kind, list>>
    BY <2>1, <2>7 DEF ListInv, All
  <2>8. {"main", "sub"} \subseteq Label
    BY DEF Label
  <2>9. QED
    BY <1>2, <2>3, <2>4, <2>5, <2>6, <2>7, <2>8 DEF Next
<1>3. QED
  BY <1>1, <1>2, PTL DEF Spec

\* For lists of every length: a search keeps the order of ancestors among the
\* spans it finds (createParentRewiring, applyParentRewiring).
THEOREM SearchesKeepAncestry == Spec => []SearchKeepsAncestry
<1>1. ListInv => SearchKeepsAncestry
  <2> SUFFICES ASSUME ListInv, NEW kept \in SUBSET Ids(All)
               PROVE  /\ Ids(TransformSpans(All, kept)) = kept
                      /\ \A id \in kept : Ancestors(TransformSpans(All, kept), id) = Ancestors(All, id) \cap kept
    BY DEF SearchKeepsAncestry
  <2>1. PICK S : S = All
    OBVIOUS
  <2>2. Forest(S) /\ S \subseteq SpanRecord
    BY <2>1, RangeOf DEF ListInv, Listed, All
  <2>3. kept \in SUBSET Ids(S)
    BY <2>1
  <2>4. QED
    BY <2>1, <2>2, <2>3, SearchAncestry
<1>2. QED
  BY <1>1, ListsAreTrees, PTL

----------------------------------------------------------------------------
(* The functions of SpanTree.                                               *)

LEMMA Counting ==
  ASSUME NEW N \in Nat, NEW P, 0 \in P, \A n \in 1..N : n - 1 \in P => n \in P
  PROVE  \A n \in 0..N : n \in P
<1>1. 0..N \in SUBSET Nat
  OBVIOUS
<1>2. ASSUME NEW i \in 0..N, \A j \in 0..N : j < i => j \in P PROVE i \in P
  <2>1. CASE i = 0
    BY <2>1
  <2>2. CASE i # 0
    <3>1. i \in 1..N /\ i - 1 \in 0..N /\ i - 1 < i
      BY <2>2
    <3>2. QED
      BY <1>2, <3>1
  <2>3. QED
    BY <2>1, <2>2
<1>3. PICK I : I = 0..N
  OBVIOUS
<1>4. I \in SUBSET Nat /\ \A i \in I : (\A j \in I : j < i => j \in P) => i \in P
  BY <1>1, <1>2, <1>3
<1>5. I \subseteq P
  BY <1>4, Induction
<1>6. QED
  BY <1>3, <1>5

\* A function that starts at b and follows the steps stays in D.
Climbs(g, N, D, b, step) ==
  /\ Ladder(N, D, b, step)
  /\ g = [n \in 0..N |-> g[n]] /\ g[0] = b
  /\ \A n \in 1..N : g[n - 1] \in D => g[n] = step[n][g[n - 1]]

LEMMA Climbing ==
  ASSUME NEW g, NEW N, NEW D, NEW b, NEW step, Climbs(g, N, D, b, step)
  PROVE  g \in [0..N -> D] /\ \A n \in 1..N : g[n] = step[n][g[n - 1]]
<1> DEFINE P == {n \in 0..N : g[n] \in D}
<1>1. N \in Nat /\ b \in D /\ g[0] = b /\ step \in [1..N -> [D -> D]]
  BY DEF Climbs, Ladder
<1>2. 0 \in P
  BY <1>1
<1>3. ASSUME NEW n \in 1..N, n - 1 \in P PROVE n \in P
  <2>1. n \in 0..N /\ g[n - 1] \in D /\ step[n] \in [D -> D]
    BY <1>1, <1>3
  <2>2. g[n] = step[n][g[n - 1]]
    BY <2>1 DEF Climbs
  <2>3. QED
    BY <2>1, <2>2
<1>4. \A n \in 0..N : g[n] \in D
  <2> HIDE DEF P
  <2>1. \A n \in 0..N : n \in P
    BY <1>1, <1>2, <1>3, Counting
  <2>2. QED
    BY <2>1 DEF P
<1>5. g \in [0..N -> D]
  BY <1>4 DEF Climbs
<1>6. \A n \in 1..N : n - 1 \in 0..N
  BY <1>1
<1>7. QED
  BY <1>4, <1>5, <1>6 DEF Climbs

NoDup(L) == \A i, j \in 1..Len(L) : L[i] = L[j] => i = j

SublistSteps(sub, T, L, S) ==
  /\ sub \in [0..Len(L) -> Seq(T)]
  /\ sub[0] = <<>> /\ Sublist(L, S) = sub[Len(L)]
  /\ \A n \in 1..Len(L) : sub[n] = IF L[n] \in S THEN Append(sub[n - 1], L[n]) ELSE sub[n - 1]

LEMMA SublistDef ==
  ASSUME NEW T, NEW L \in Seq(T), NEW S
  PROVE  \E sub : SublistSteps(sub, T, L, S)
<1> DEFINE N == Len(L)
           Def(f) == [n \in 0..N |-> IF n = 0 THEN <<>> ELSE IF L[n] \in S THEN Append(f[n - 1], L[n]) ELSE f[n - 1]]
           sub == CHOOSE f : f = Def(f)
           step == [n \in 1..N |-> [q \in Seq(T) |-> IF L[n] \in S THEN Append(q, L[n]) ELSE q]]
<1>1. Sublist(L, S) = sub[N]
  BY DEF Sublist
<1>2. N \in Nat /\ <<>> \in Seq(T)
  OBVIOUS
<1>3. step \in [1..N -> [Seq(T) -> Seq(T)]]
  <2>1. ASSUME NEW n \in 1..N, NEW q \in Seq(T) PROVE (IF L[n] \in S THEN Append(q, L[n]) ELSE q) \in Seq(T)
    <3>1. L[n] \in T
      OBVIOUS
    <3>2. QED
      BY <3>1, AppendProperties
  <2>2. QED
    BY <2>1
<1>4. \A n \in 1..N, q \in Seq(T) : step[n][q] = IF L[n] \in S THEN Append(q, L[n]) ELSE q
  OBVIOUS
<1> HIDE DEF step, N
<1>5. Ladder(N, Seq(T), <<>>, step)
  BY <1>2, <1>3 DEF Ladder
<1>6. PICK f \in [0..N -> Seq(T)] : f[0] = <<>> /\ \A n \in 1..N : f[n] = step[n][f[n - 1]]
  BY <1>5, Steps
<1>7. \A n \in 0..N : n # 0 => n \in 1..N /\ n - 1 \in 0..N
  BY <1>2
<1>8. ASSUME NEW n \in 0..N PROVE f[n] = IF n = 0 THEN <<>> ELSE IF L[n] \in S THEN Append(f[n - 1], L[n]) ELSE f[n - 1]
  BY <1>4, <1>6, <1>7
<1>9. f = Def(f)
  BY <1>8
<1> HIDE DEF Def
<1>10. sub = Def(sub)
  BY <1>9
<1> HIDE DEF sub
<1>11. PICK g : g = sub /\ g = Def(g)
  BY <1>10
<1> USE DEF Def
<1>12. g[0] = <<>> /\ \A n \in 1..N : g[n] = IF L[n] \in S THEN Append(g[n - 1], L[n]) ELSE g[n - 1]
  <2>1. \A n \in 1..N : n \in 0..N /\ n # 0
    BY <1>2
  <2>2. 0 \in 0..N
    BY <1>2
  <2>3. QED
    BY <1>11, <2>1, <2>2
<1>13. g = [n \in 0..N |-> g[n]]
  BY <1>11
<1> HIDE DEF Def
<1>14. \A n \in 1..N : g[n - 1] \in Seq(T) => g[n] = step[n][g[n - 1]]
  BY <1>4, <1>12
<1>15. Climbs(g, N, Seq(T), <<>>, step)
  BY <1>5, <1>12, <1>13, <1>14 DEF Climbs
<1>16. g \in [0..N -> Seq(T)]
  BY <1>15, Climbing
<1>17. QED
  BY <1>1, <1>11, <1>12, <1>16 DEF N, SublistSteps

\* Sublist: the members that are in S, each as often as before.
LEMMA SublistIs ==
  ASSUME NEW T, NEW L \in Seq(T), NoDup(L), NEW S
  PROVE  /\ Sublist(L, S) \in Seq(T) /\ NoDup(Sublist(L, S))
         /\ Range(Sublist(L, S)) = Range(L) \cap S
<1> DEFINE N == Len(L)
<1>1. PICK sub \in [0..N -> Seq(T)] :
           /\ sub[0] = <<>> /\ Sublist(L, S) = sub[N]
           /\ \A n \in 1..N : sub[n] = IF L[n] \in S THEN Append(sub[n - 1], L[n]) ELSE sub[n - 1]
  <2>1. PICK sub : SublistSteps(sub, T, L, S)
    BY SublistDef
  <2>2. QED
    BY <2>1 DEF SublistSteps
<1> DEFINE upTo(n) == {L[i] : i \in 1..n} \cap S
           P == {n \in 0..N : NoDup(sub[n]) /\ Range(sub[n]) = upTo(n)}
<1>2. N \in Nat /\ 0 \in 0..N /\ N \in 0..N
  OBVIOUS
<1>3. 0 \in P
  <2>1. sub[0] \in Seq(T) /\ Len(sub[0]) = 0
    BY <1>1, <1>2
  <2>2. 1..Len(sub[0]) = {}
    BY <2>1
  <2>3. Range(sub[0]) = {} /\ NoDup(sub[0])
    BY <2>1, <2>2, RangeOf DEF NoDup
  <2>4. upTo(0) = {}
    OBVIOUS
  <2>5. QED
    BY <1>2, <2>3, <2>4
<1>4. ASSUME NEW n \in 1..N, n - 1 \in P PROVE n \in P
  <2>1. n \in 0..N /\ n - 1 \in 0..N /\ L[n] \in T
    BY <1>2
  <2>2. PICK q \in Seq(T) : q = sub[n - 1]
    BY <2>1
  <2>3. NoDup(q) /\ Range(q) = upTo(n - 1)
    BY <1>4, <2>2
  <2>4. {L[i] : i \in 1..n} = {L[i] : i \in 1..(n - 1)} \cup {L[n]}
    <3>1. 1..n = (1..(n - 1)) \cup {n}
      BY <1>2
    <3>2. QED
      BY <3>1
  <2>5. CASE L[n] \in S
    <3>1. PICK M \in Seq(T) : M = Append(q, L[n])
      BY <2>1, AppendProperties
    <3>2. sub[n] = M /\ upTo(n) = upTo(n - 1) \cup {L[n]}
      BY <1>1, <2>2, <2>4, <2>5, <3>1
    <3>3. Len(M) = Len(q) + 1 /\ M[Len(q) + 1] = L[n] /\ \A i \in 1..Len(q) : M[i] = q[i]
      BY <2>1, <3>1, AppendProperties
    <3>4. 1..(Len(q) + 1) = (1..Len(q)) \cup {Len(q) + 1} /\ Len(q) \in Nat
      OBVIOUS
    <3>5. Range(M) = Range(q) \cup {L[n]}
      <4>1. Range(M) = {M[i] : i \in 1..(Len(q) + 1)} /\ Range(q) = {q[i] : i \in 1..Len(q)}
        BY <3>3, RangeOf
      <4>2. QED
        BY <3>3, <3>4, <4>1, ZenonT(60)
    <3>6. L[n] \notin Range(q)
      <4>1. SUFFICES ASSUME NEW i \in 1..(n - 1), L[i] = L[n] PROVE FALSE
        BY <2>3
      <4>2. i \in 1..N /\ i # n
        BY <1>2
      <4>3. QED
        BY <4>1, <4>2 DEF NoDup
    <3>7. \A i \in 1..Len(q) : M[i] \in Range(q)
      BY <3>3, RangeOf
    <3>8. NoDup(M)
      <4>1. SUFFICES ASSUME NEW i \in 1..(Len(q) + 1), NEW j \in 1..(Len(q) + 1), M[i] = M[j] PROVE i = j
        BY <3>3 DEF NoDup
      <4>2. (i \in 1..Len(q) \/ i = Len(q) + 1) /\ (j \in 1..Len(q) \/ j = Len(q) + 1)
        BY <3>4
      <4>3. QED
        BY <2>3, <3>3, <3>6, <3>7, <4>1, <4>2 DEF NoDup
    <3>9. QED
      BY <2>1, <2>3, <3>2, <3>5, <3>8
  <2>6. CASE L[n] \notin S
    <3>1. sub[n] = q /\ upTo(n) = upTo(n - 1)
      BY <1>1, <2>2, <2>4, <2>6
    <3>2. QED
      BY <2>1, <2>3, <3>1
  <2>7. QED
    BY <2>5, <2>6
<1>5. N \in P
  <2> HIDE DEF P
  <2>1. \A n \in 0..N : n \in P
    BY <1>2, <1>3, <1>4, Counting
  <2>2. QED
    BY <1>2, <2>1
<1>6. Range(L) = {L[i] : i \in 1..N}
  BY RangeOf
<1>7. QED
  BY <1>1, <1>2, <1>5, <1>6

----------------------------------------------------------------------------
(* A walk: the spans visited, and after them those still to visit, are one   *)
(* list C, of which the first p are visited.  A visit puts the children of   *)
(* the next span behind it.                                                 *)

\* D is C with kids behind the position p.
Grown(C, p, kids, D) ==
  /\ Len(D) = Len(C) + Len(kids)
  /\ \A i \in 1..p : D[i] = C[i]
  /\ \A i \in 1..Len(kids) : D[p + i] = kids[i]
  /\ \A i \in (p + 1)..Len(C) : D[Len(kids) + i] = C[i]

\* The children K of the spans of a tree L, each once.
KidsOf(L, K) ==
  /\ Listed(L) /\ K \in [Range(L) -> Seq(Range(L))]
  /\ \A s \in Range(L) : NoDup(K[s]) /\ \A t \in Range(K[s]) : t.parent = s.id

Walked(L, K, C, p) ==
  /\ C \in Seq(Range(L)) /\ NoDup(C) /\ p \in 0..Len(C)
  /\ \A i \in 1..Len(C) : C[i].parent # None =>
       \E j \in 1..p : j < i /\ C[i] \in Range(K[C[j]])
  /\ \A s \in Range(L) : s.parent = None => s \in Range(C)
  /\ \A j \in 1..p : Range(K[C[j]]) \subseteq Range(C)

\* Where the spans of D come from.
LEMMA GrownAt ==
  ASSUME NEW T, NEW C \in Seq(T), NEW p \in 0..Len(C), NEW kids \in Seq(T), NEW D \in Seq(T), Grown(C, p, kids, D),
         NEW i \in 1..Len(D)
  PROVE  \/ i \in 1..p /\ D[i] = C[i]
         \/ i > p /\ i - p \in 1..Len(kids) /\ D[i] = kids[i - p]
         \/ /\ i > p + Len(kids) /\ i - Len(kids) \in (p + 1)..Len(C) /\ i - Len(kids) \in 1..Len(C)
            /\ D[i] = C[i - Len(kids)]
<1>1. Len(C) \in Nat /\ Len(kids) \in Nat /\ Len(D) = Len(C) + Len(kids) /\ p \in Nat /\ p <= Len(C) /\ i \in Nat
  BY DEF Grown
<1>2. CASE i <= p
  <2>1. i \in 1..p
    BY <1>1, <1>2
  <2>2. QED
    BY <2>1 DEF Grown
<1>3. CASE i > p /\ i <= p + Len(kids)
  <2>1. i - p \in 1..Len(kids) /\ p + (i - p) = i
    BY <1>1, <1>3
  <2>2. D[p + (i - p)] = kids[i - p]
    BY <2>1 DEF Grown
  <2>3. QED
    BY <1>3, <2>1, <2>2
<1>4. CASE i > p + Len(kids)
  <2>1. i - Len(kids) \in (p + 1)..Len(C) /\ i - Len(kids) \in 1..Len(C) /\ Len(kids) + (i - Len(kids)) = i
    BY <1>1, <1>4
  <2>2. D[Len(kids) + (i - Len(kids))] = C[i - Len(kids)]
    BY <2>1 DEF Grown
  <2>3. QED
    BY <1>4, <2>1, <2>2
<1>5. QED
  BY <1>1, <1>2, <1>3, <1>4

LEMMA GrownRange ==
  ASSUME NEW T, NEW C \in Seq(T), NEW p \in 0..Len(C), NEW kids \in Seq(T), NEW D \in Seq(T), Grown(C, p, kids, D)
  PROVE  Range(D) = Range(C) \cup Range(kids)
<1>1. Len(C) \in Nat /\ Len(kids) \in Nat /\ Len(D) = Len(C) + Len(kids) /\ p \in Nat /\ p <= Len(C)
  BY DEF Grown
<1>2. ASSUME NEW i \in 1..Len(D) PROVE D[i] \in Range(C) \cup Range(kids)
  <2>1. CASE i \in 1..p /\ D[i] = C[i]
    <3>1. i \in 1..Len(C)
      BY <1>1, <2>1
    <3>2. QED
      BY <2>1, <3>1, RangeOf
  <2>2. CASE i - p \in 1..Len(kids) /\ D[i] = kids[i - p]
    BY <2>2, RangeOf
  <2>3. CASE i - Len(kids) \in 1..Len(C) /\ D[i] = C[i - Len(kids)]
    BY <2>3, RangeOf
  <2>4. QED
    BY <2>1, <2>2, <2>3, GrownAt
<1>3. ASSUME NEW i \in 1..Len(C) PROVE C[i] \in Range(D)
  <2>1. CASE i <= p
    <3>1. i \in 1..p /\ i \in 1..Len(D)
      BY <1>1, <2>1
    <3>2. D[i] = C[i]
      BY <3>1 DEF Grown
    <3>3. QED
      BY <3>1, <3>2, RangeOf
  <2>2. CASE i > p
    <3>1. i \in (p + 1)..Len(C) /\ Len(kids) + i \in 1..Len(D)
      BY <1>1, <2>2
    <3>2. D[Len(kids) + i] = C[i]
      BY <3>1 DEF Grown
    <3>3. QED
      BY <3>1, <3>2, RangeOf
  <2>3. QED
    BY <1>1, <2>1, <2>2
<1>4. ASSUME NEW i \in 1..Len(kids) PROVE kids[i] \in Range(D)
  <2>1. p + i \in 1..Len(D)
    BY <1>1
  <2>2. D[p + i] = kids[i]
    BY DEF Grown
  <2>3. QED
    BY <2>1, <2>2, RangeOf
<1>5. Range(D) \subseteq Range(C) \cup Range(kids)
  BY <1>2, RangeOf
<1>6. Range(C) \subseteq Range(D) /\ Range(kids) \subseteq Range(D)
  BY <1>3, <1>4, RangeOf, SMTT(60)
<1>7. QED
  BY <1>5, <1>6

\* The children of the next span are not in the list yet.
LEMMA KidsAreNew ==
  ASSUME NEW L, NEW K, KidsOf(L, K), NEW C, NEW p, Walked(L, K, C, p), NEW q, q = p + 1, q \in 1..Len(C)
  PROVE  /\ C[q] \in Range(L) /\ K[C[q]] \in Seq(Range(L)) /\ NoDup(K[C[q]])
         /\ \A t \in Range(K[C[q]]) : t.parent = C[q].id /\ t.parent # None /\ t \notin Range(C)
         /\ \A i \in 1..Len(C) : C[i].parent = C[q].id => C[i].parent = None
<1>1. C \in Seq(Range(L)) /\ p \in 0..Len(C) /\ p \in Nat /\ p < q
  BY DEF Walked
<1>2. C[q] \in Range(L)
  BY <1>1
<1>3. K[C[q]] \in Seq(Range(L)) /\ NoDup(K[C[q]]) /\ \A t \in Range(K[C[q]]) : t.parent = C[q].id
  BY <1>2 DEF KidsOf
<1>4. C[q].id # None
  BY <1>2, TheOne, AlgorithmsAssumption DEF KidsOf, Listed
<1>5. ASSUME NEW i \in 1..Len(C), C[i].parent = C[q].id PROVE FALSE
  <2>1. PICK j \in 1..p : j < i /\ C[i] \in Range(K[C[j]])
    BY <1>4, <1>5 DEF Walked
  <2>2. j \in 1..Len(C) /\ j # q
    BY <1>1
  <2>3. C[j] \in Range(L)
    BY <1>1, <2>2
  <2>4. C[i].parent = C[j].id
    BY <2>1, <2>3 DEF KidsOf
  <2>5. C[j] = C[q]
    BY <1>2, <1>5, <2>3, <2>4 DEF KidsOf, Listed, Forest
  <2>6. QED
    BY <2>2, <2>5 DEF Walked, NoDup
<1>6. \A t \in Range(C) : \E i \in 1..Len(C) : t = C[i]
  BY <1>1, RangeOf
<1>7. QED
  BY <1>2, <1>3, <1>4, <1>5, <1>6

LEMMA WalkOn ==
  ASSUME NEW L, NEW K, KidsOf(L, K), NEW C, NEW p, Walked(L, K, C, p), NEW q, q = p + 1, q \in 1..Len(C),
         NEW D \in Seq(Range(L)), Grown(C, q, K[C[q]], D)
  PROVE  Walked(L, K, D, q) /\ Range(D) = Range(C) \cup Range(K[C[q]])
<1>1. C \in Seq(Range(L)) /\ p \in 0..Len(C) /\ p \in Nat /\ p < q /\ NoDup(C) /\ q \in 0..Len(C) /\ q \in Nat
  BY DEF Walked
<1>2. PICK kids \in Seq(Range(L)) : kids = K[C[q]]
  <2>1. K[C[q]] \in Seq(Range(L))
    BY KidsAreNew
  <2>2. QED
    BY <2>1
<1>3. NoDup(kids) /\ \A t \in Range(kids) : t.parent = C[q].id /\ t.parent # None /\ t \notin Range(C)
  BY <1>2, KidsAreNew
<1>4. /\ Grown(C, q, kids, D) /\ Range(D) = Range(C) \cup Range(kids)
      /\ Len(D) = Len(C) + Len(kids) /\ Len(kids) \in Nat /\ Len(C) \in Nat /\ q <= Len(C)
  <2>1. Grown(C, q, kids, D)
    BY <1>2
  <2>2. Range(D) = Range(C) \cup Range(kids)
    BY <1>1, <2>1, GrownRange
  <2>3. Len(D) = Len(C) + Len(kids) /\ Len(kids) \in Nat /\ Len(C) \in Nat /\ q <= Len(C)
    BY <1>1, <2>1 DEF Grown
  <2>4. QED
    BY <2>1, <2>2, <2>3
<1>5. \A i \in 1..Len(C) : C[i] \in Range(C)
  BY <1>1, RangeOf
<1>6. \A i \in 1..Len(kids) : kids[i] \in Range(kids)
  BY RangeOf
<1>7. NoDup(D)
  <2>1. SUFFICES ASSUME NEW i \in 1..Len(D), NEW j \in 1..Len(D), D[i] = D[j] PROVE i = j
    BY DEF NoDup
  <2>2. \A n \in 1..Len(D) :
           \/ n \in 1..q /\ D[n] = C[n] /\ n \in 1..Len(C)
           \/ n - q \in 1..Len(kids) /\ D[n] = kids[n - q]
           \/ n > q + Len(kids) /\ n - Len(kids) \in 1..Len(C) /\ D[n] = C[n - Len(kids)]
    <3>1. \A n \in 1..q : n \in 1..Len(C)
      BY <1>1
    <3>2. QED
      BY <1>1, <1>4, <3>1, GrownAt, SMTT(60)
  <2>3. CASE D[i] \in Range(kids)
    <3>1. D[i] \notin Range(C)
      BY <1>3, <2>3
    <3>2. i - q \in 1..Len(kids) /\ D[i] = kids[i - q]
      BY <1>5, <2>2, <3>1
    <3>3. j - q \in 1..Len(kids) /\ D[j] = kids[j - q]
      BY <1>5, <2>1, <2>2, <3>1
    <3>4. i - q = j - q
      BY <1>3, <2>1, <3>2, <3>3 DEF NoDup
    <3>5. QED
      BY <1>1, <3>4
  <2>4. CASE D[i] \notin Range(kids)
    <3>1. \/ i \in 1..q /\ D[i] = C[i] /\ i \in 1..Len(C)
          \/ i > q + Len(kids) /\ i - Len(kids) \in 1..Len(C) /\ D[i] = C[i - Len(kids)]
      BY <1>6, <2>2, <2>4
    <3>2. \/ j \in 1..q /\ D[j] = C[j] /\ j \in 1..Len(C)
          \/ j > q + Len(kids) /\ j - Len(kids) \in 1..Len(C) /\ D[j] = C[j - Len(kids)]
      BY <1>6, <2>1, <2>2, <2>4
    <3>3. \A a, b \in 1..Len(C) : C[a] = C[b] => a = b
      BY <1>1 DEF NoDup
    <3>4. i \in Nat /\ j \in Nat
      OBVIOUS
    <3>5. ASSUME NEW a \in 1..Len(C), NEW b \in 1..Len(C), D[i] = C[a], D[j] = C[b] PROVE a = b
      BY <2>1, <3>3, <3>5
    <3>6. CASE i \in 1..q /\ D[i] = C[i] /\ i \in 1..Len(C)
      <4>1. CASE j \in 1..q /\ D[j] = C[j] /\ j \in 1..Len(C)
        BY <3>5, <3>6, <4>1
      <4>2. CASE j > q + Len(kids) /\ j - Len(kids) \in 1..Len(C) /\ D[j] = C[j - Len(kids)]
        <5>1. i = j - Len(kids)
          <6>1. PICK b \in 1..Len(C) : b = j - Len(kids) /\ D[j] = C[b]
            BY <4>2
          <6>2. i \in 1..Len(C) /\ D[i] = C[i]
            BY <3>6
          <6>3. i = b
            BY <3>5, <6>1, <6>2
          <6>4. QED
            BY <6>1, <6>3
        <5>2. QED
          BY <1>1, <1>4, <3>4, <3>6, <4>2, <5>1
      <4>3. QED
        BY <3>2, <4>1, <4>2
    <3>7. CASE i > q + Len(kids) /\ i - Len(kids) \in 1..Len(C) /\ D[i] = C[i - Len(kids)]
      <4>1. CASE j \in 1..q /\ D[j] = C[j] /\ j \in 1..Len(C)
        <5>1. j = i - Len(kids)
          <6>1. PICK a \in 1..Len(C) : a = i - Len(kids) /\ D[i] = C[a]
            BY <3>7
          <6>2. j \in 1..Len(C) /\ D[j] = C[j]
            BY <4>1
          <6>3. a = j
            BY <3>5, <6>1, <6>2
          <6>4. QED
            BY <6>1, <6>3
        <5>2. j <= q
          BY <1>1, <4>1
        <5>3. QED
          BY <1>1, <1>4, <3>4, <3>7, <5>1, <5>2
      <4>2. CASE j > q + Len(kids) /\ j - Len(kids) \in 1..Len(C) /\ D[j] = C[j - Len(kids)]
        <5>1. i - Len(kids) = j - Len(kids)
          <6>1. PICK a \in 1..Len(C) : a = i - Len(kids) /\ D[i] = C[a]
            BY <3>7
          <6>2. PICK b \in 1..Len(C) : b = j - Len(kids) /\ D[j] = C[b]
            BY <4>2
          <6>3. a = b
            BY <3>5, <6>1, <6>2
          <6>4. QED
            BY <6>1, <6>2, <6>3
        <5>2. QED
          BY <1>4, <3>4, <5>1
      <4>3. QED
        BY <3>2, <4>1, <4>2
    <3>8. QED
      BY <3>1, <3>6, <3>7
  <2>5. QED
    BY <2>3, <2>4
<1>8. \A j \in 1..q : D[j] = C[j] /\ j \in 1..Len(C)
  BY <1>1, <1>4 DEF Grown
<1>9. ASSUME NEW i \in 1..Len(D), D[i].parent # None PROVE \E j \in 1..q : j < i /\ D[i] \in Range(K[D[j]])
  <2>1. ASSUME NEW n \in 1..Len(C), D[i] = C[n], n <= i PROVE \E j \in 1..q : j < i /\ D[i] \in Range(K[D[j]])
    <3>1. PICK j \in 1..p : j < n /\ C[n] \in Range(K[C[j]])
      BY <1>9, <2>1 DEF Walked
    <3>2. j \in 1..q /\ j < i
      BY <1>1, <2>1, <3>1
    <3>3. QED
      BY <1>8, <2>1, <3>1, <3>2
  <2>2. CASE i \in 1..q /\ D[i] = C[i]
    <3>1. i \in 1..Len(C) /\ i <= i
      BY <1>1, <2>2
    <3>2. QED
      BY <2>1, <2>2, <3>1
  <2>3. CASE i > q /\ i - q \in 1..Len(kids) /\ D[i] = kids[i - q]
    <3>1. q \in 1..q /\ q < i /\ D[q] = C[q]
      BY <1>1, <1>8, <2>3
    <3>2. QED
      BY <1>2, <1>6, <2>3, <3>1
  <2>4. CASE i - Len(kids) \in 1..Len(C) /\ D[i] = C[i - Len(kids)]
    <3>1. i - Len(kids) <= i
      BY <1>4
    <3>2. QED
      BY <2>1, <2>4, <3>1
  <2>5. QED
    BY <1>1, <1>4, <2>2, <2>3, <2>4, GrownAt, SMTT(60)
<1>10. ASSUME NEW j \in 1..q PROVE Range(K[D[j]]) \subseteq Range(D)
  <2>1. CASE j = q
    BY <1>2, <1>4, <1>8, <2>1
  <2>2. CASE j # q
    <3>1. j \in 1..p
      BY <1>1, <2>2
    <3>2. QED
      BY <1>4, <1>8, <3>1 DEF Walked
  <2>3. QED
    BY <2>1, <2>2
<1>11. \A s \in Range(L) : s.parent = None => s \in Range(D)
  BY <1>4 DEF Walked
<1>12. q \in 0..Len(D)
  BY <1>1, <1>4
<1>13. QED
  BY <1>2, <1>4, <1>7, <1>9, <1>10, <1>11, <1>12 DEF Walked

LEMMA Numbers == ASSUME NEW n \in Nat PROVE IsFiniteSet(1..n) /\ Cardinality(1..n) = n
<1>1. 1 \in Int /\ n \in Int /\ (IF 1 > n THEN 0 ELSE n - 1 + 1) = n
  OBVIOUS
<1>2. QED
  BY <1>1, FS_Interval

\* A list without doubles has as many members as places.
LEMMA Members ==
  ASSUME NEW T, NEW L \in Seq(T)
  PROVE  /\ IsFiniteSet(Range(L)) /\ Cardinality(Range(L)) <= Len(L)
         /\ NoDup(L) => Cardinality(Range(L)) = Len(L)
<1> DEFINE g == [i \in 1..Len(L) |-> L[i]]
<1>1. PICK n \in Nat : n = Len(L)
  OBVIOUS
<1>2. PICK R : R = Range(L)
  OBVIOUS
<1>3. R = {L[i] : i \in 1..n}
  BY <1>1, <1>2, RangeOf
<1>4. g \in [1..n -> R] /\ \A i \in 1..n : g[i] = L[i]
  BY <1>1, <1>3
<1> HIDE DEF g
<1>5. g \in Surjection(1..n, R)
  BY <1>3, <1>4 DEF Surjection
<1>6. IsFiniteSet(R) /\ Cardinality(R) <= Cardinality(1..n)
      /\ (Cardinality(R) = Cardinality(1..n) <=> g \in Injection(1..n, R))
  BY <1>5, Numbers, FS_Surjection
<1>7. NoDup(L) => g \in Injection(1..n, R)
  BY <1>1, <1>4 DEF NoDup, Injection, IsInjective
<1>8. QED
  BY <1>1, <1>2, <1>6, <1>7, Numbers

\* A list of members of another, each once, is not longer.
LEMMA Fits ==
  ASSUME NEW T, NEW C \in Seq(T), NoDup(C), NEW L \in Seq(T), Range(C) \subseteq Range(L)
  PROVE  Len(C) <= Len(L)
<1>1. IsFiniteSet(Range(L)) /\ Cardinality(Range(L)) <= Len(L) /\ Cardinality(Range(C)) = Len(C)
  BY Members
<1>2. Cardinality(Range(C)) <= Cardinality(Range(L)) /\ Cardinality(Range(L)) \in Nat
  BY <1>1, FS_Subset, FS_CardinalityType
<1>3. Len(C) \in Nat /\ Len(L) \in Nat
  OBVIOUS
<1>4. QED
  BY <1>1, <1>2, <1>3

LEMMA WiderSeq == ASSUME NEW S, NEW T, S \subseteq T, NEW c \in Seq(S) PROVE c \in Seq(T)
  OBVIOUS

\* A walk of as many visits as there are spans; it stops when none is left.
Walk(L, K, C, p) ==
  /\ KidsOf(L, K)
  /\ C \in [0..Len(L) -> Seq(Range(L))] /\ p \in [0..Len(L) -> Nat]
  /\ Walked(L, K, C[0], 0) /\ p[0] = 0
  /\ \A n \in 1..Len(L) :
       IF p[n - 1] = Len(C[n - 1]) THEN p[n] = p[n - 1] /\ C[n] = C[n - 1]
       ELSE p[n] = p[n - 1] + 1 /\ Grown(C[n - 1], p[n], K[C[n - 1][p[n]]], C[n])

LEMMA WalkEnds ==
  ASSUME NEW L, NEW K, NEW C, NEW p, Walk(L, K, C, p)
  PROVE  /\ \A n \in 0..Len(L) : Walked(L, K, C[n], p[n])
         /\ p[Len(L)] = Len(C[Len(L)])
<1>1. PICK N \in Nat : N = Len(L)
  BY DEF Walk, KidsOf, Listed
<1> DEFINE P == {n \in 0..N : Walked(L, K, C[n], p[n]) /\ (p[n] = n \/ p[n] = Len(C[n]))}
<1>2. KidsOf(L, K) /\ L \in Seq(SpanRecord)
  BY DEF Walk, KidsOf, Listed
<1>3. 0 \in P
  BY <1>1 DEF Walk
<1>4. ASSUME NEW n \in 1..N, n - 1 \in P PROVE n \in P
  <2> DEFINE A == C[n - 1]
             a == p[n - 1]
             B == C[n]
             q == p[n]
  <2>1. n - 1 \in 0..N /\ n \in 0..N /\ n \in 1..Len(L) /\ n \in Nat
    BY <1>1
  <2>2. A \in Seq(Range(L)) /\ B \in Seq(Range(L)) /\ a \in Nat /\ q \in Nat
    BY <1>1, <2>1 DEF Walk
  <2>3. Walked(L, K, A, a) /\ (a = n - 1 \/ a = Len(A))
    BY <1>4
  <2>4. IF a = Len(A) THEN q = a /\ B = A ELSE q = a + 1 /\ Grown(A, q, K[A[q]], B)
    BY <2>1 DEF Walk
  <2> HIDE DEF A, B, a, q
  <2>5. CASE a = Len(A)
    <3>1. Walked(L, K, B, q) /\ q = Len(B)
      BY <2>3, <2>4, <2>5
    <3>2. QED
      BY <2>1, <3>1 DEF B, q
  <2>6. CASE a # Len(A)
    <3>1. q \in 1..Len(A) /\ q = a + 1
      BY <2>2, <2>3, <2>4, <2>6 DEF Walked
    <3>2. Grown(A, q, K[A[q]], B)
      BY <2>4, <2>6
    <3>3. Walked(L, K, B, q)
      BY <1>2, <2>2, <2>3, <3>1, <3>2, WalkOn
    <3>4. q = n
      BY <2>1, <2>3, <2>6, <3>1
    <3>5. QED
      BY <2>1, <3>3, <3>4 DEF B, q
  <2>7. QED
    BY <2>5, <2>6
<1>5. \A n \in 0..N : n \in P
  <2> HIDE DEF P
  <2>1. QED
    BY <1>3, <1>4, Counting
<1>6. \A n \in 0..N : Walked(L, K, C[n], p[n]) /\ (p[n] = n \/ p[n] = Len(C[n]))
  BY <1>5
<1>7. Walked(L, K, C[N], p[N]) /\ (p[N] = N \/ p[N] = Len(C[N]))
  BY <1>6
<1>8. p[N] = Len(C[N])
  <2>1. C[N] \in Seq(Range(L)) /\ NoDup(C[N]) /\ p[N] \in 0..Len(C[N])
    BY <1>7 DEF Walked
  <2>2. PICK c \in Seq(Range(L)) : c = C[N]
    BY <2>1
  <2>3. Range(c) \subseteq Range(L)
    BY RangeOf
  <2>4. PICK T : T = Range(L) \cup SpanRecord
    OBVIOUS
  <2>5. c \in Seq(T) /\ L \in Seq(T)
    BY <1>2, <2>4, WiderSeq
  <2>6. Len(c) <= N
    BY <1>1, <2>1, <2>2, <2>3, <2>5, Fits
  <2>7. QED
    BY <1>7, <2>1, <2>2, <2>6
<1>9. QED
  BY <1>1, <1>6, <1>8

LEMMA ListedIs ==
  ASSUME NEW L, Listed(L)
  PROVE  L \in Seq(Range(L)) /\ NoDup(L) /\ Range(L) \subseteq SpanRecord
<1>1. L \in Seq(SpanRecord)
  BY DEF Listed
<1>2. Range(L) = {L[i] : i \in 1..Len(L)}
  BY <1>1, RangeOf
<1>3. L \in Seq(Range(L))
  BY <1>1, <1>2
<1>4. NoDup(L)
  BY DEF NoDup, Listed
<1>5. QED
  BY <1>1, <1>2, <1>3, <1>4

\* getChildSpansMap: the children of a span, each once.
LEMMA ChildSpansIs ==
  ASSUME NEW L, Listed(L), NEW id
  PROVE  /\ ChildSpans(L, id) \in Seq(Range(L)) /\ NoDup(ChildSpans(L, id))
         /\ Range(ChildSpans(L, id)) = {s \in Range(L) : s.parent = id}
<1>1. PICK S : S = {s \in Range(L) : s.parent = id}
  OBVIOUS
<1>2. L \in Seq(Range(L)) /\ NoDup(L)
  BY ListedIs
<1>3. /\ Sublist(L, S) \in Seq(Range(L)) /\ NoDup(Sublist(L, S))
      /\ Range(Sublist(L, S)) = Range(L) \cap S
  BY <1>2, SublistIs
<1>4. ChildSpans(L, id) = Sublist(L, S) /\ Range(L) \cap S = {s \in Range(L) : s.parent = id}
  BY <1>1 DEF ChildSpans
<1>5. QED
  BY <1>3, <1>4

\* What stands first and what is put in its place.
LEMMA Pushed ==
  ASSUME NEW T, NEW todo \in Seq(T), todo # <<>>, NEW kids \in Seq(T)
  PROVE  /\ Head(todo) \in T /\ Head(todo) = todo[1] /\ 1 \in 1..Len(todo)
         /\ kids \o Tail(todo) \in Seq(T)
         /\ Len(kids \o Tail(todo)) = Len(kids) + Len(todo) - 1
         /\ \A i \in 1..Len(kids) : (kids \o Tail(todo))[i] = kids[i]
         /\ \A i \in 2..Len(todo) : (kids \o Tail(todo))[Len(kids) + i - 1] = todo[i]
<1>1. Len(todo) \in Nat /\ Len(todo) >= 1 /\ Len(kids) \in Nat
  OBVIOUS
<1>2. PICK t \in Seq(T) : t = Tail(todo)
  <2>1. Tail(todo) \in Seq(T)
    OBVIOUS
  <2>2. QED
    BY <2>1
<1>3. Len(t) = Len(todo) - 1 /\ \A i \in 1..Len(t) : t[i] = todo[i + 1]
  BY <1>2
<1>4. PICK M \in Seq(T) : M = kids \o t
  <2>1. kids \o t \in Seq(T)
    BY ConcatProperties
  <2>2. QED
    BY <2>1
<1>5. /\ Len(M) = Len(kids) + Len(t)
      /\ \A i \in 1..(Len(kids) + Len(t)) : M[i] = IF i <= Len(kids) THEN kids[i] ELSE t[i - Len(kids)]
  <2>1. /\ Len(kids \o t) = Len(kids) + Len(t)
        /\ \A i \in 1..(Len(kids) + Len(t)) : (kids \o t)[i] = IF i <= Len(kids) THEN kids[i] ELSE t[i - Len(kids)]
    BY ConcatProperties
  <2>2. QED
    BY <1>4, <2>1
<1>6. ASSUME NEW i \in 1..Len(kids) PROVE M[i] = kids[i]
  <2>1. i \in 1..(Len(kids) + Len(t)) /\ i <= Len(kids)
    BY <1>1, <1>3
  <2>2. QED
    BY <1>5, <2>1
<1>7. ASSUME NEW i \in 2..Len(todo) PROVE M[Len(kids) + i - 1] = todo[i]
  <2>1. PICK k : k = Len(kids) + i - 1
    OBVIOUS
  <2>2. k \in 1..(Len(kids) + Len(t)) /\ ~(k <= Len(kids)) /\ k - Len(kids) = i - 1 /\ i - 1 \in 1..Len(t) /\ (i - 1) + 1 = i
    BY <1>1, <1>3, <2>1
  <2>3. M[k] = t[i - 1] /\ t[i - 1] = todo[i]
    BY <1>3, <1>5, <2>2
  <2>4. QED
    BY <2>1, <2>3
<1>8. Len(M) = Len(kids) + Len(todo) - 1
  BY <1>1, <1>3, <1>5
<1>9. Head(todo) \in T /\ Head(todo) = todo[1] /\ 1 \in 1..Len(todo)
  BY <1>1
<1>10. QED
  BY <1>2, <1>4, <1>6, <1>7, <1>8, <1>9

\* dfsOrder, unfolded: what it has seen and what is left after each visit.
Visits(L) == [seen : Seq(Range(L)), todo : Seq(Range(L))]

LEMMA VisitIs ==
  ASSUME NEW L, Listed(L), NEW w \in Visits(L), w.todo # <<>>
  PROVE  /\ Visit(L, w) \in Visits(L)
         /\ Visit(L, w).seen = Append(w.seen, Head(w.todo))
         /\ Visit(L, w).todo = ChildSpans(L, Head(w.todo).id) \o Tail(w.todo)
<1>1. PICK todo \in Seq(Range(L)) : todo = w.todo
  BY DEF Visits
<1>2. PICK seen \in Seq(Range(L)) : seen = w.seen
  BY DEF Visits
<1>3. PICK h \in Range(L) : h = Head(todo)
  <2>1. Head(todo) \in Range(L)
    BY <1>1
  <2>2. QED
    BY <2>1
<1>4. PICK kids \in Seq(Range(L)) : kids = ChildSpans(L, h.id)
  <2>1. ChildSpans(L, h.id) \in Seq(Range(L))
    BY ChildSpansIs
  <2>2. QED
    BY <2>1
<1>5. kids \o Tail(todo) \in Seq(Range(L))
  BY <1>1, Pushed
<1>6. Append(seen, h) \in Seq(Range(L))
  BY AppendProperties
<1>7. Visit(L, w) = [seen |-> Append(seen, h), todo |-> kids \o Tail(todo)]
  BY <1>1, <1>2, <1>3, <1>4 DEF Visit
<1>8. Visit(L, w).seen = Append(seen, h) /\ Visit(L, w).todo = kids \o Tail(todo)
  BY <1>7
<1>9. Visit(L, w) \in Visits(L)
  BY <1>5, <1>6, <1>7 DEF Visits
<1>10. QED
  BY <1>1, <1>2, <1>3, <1>4, <1>8, <1>9

VisitSteps(walk, L) ==
  /\ walk \in [0..Len(L) -> Visits(L)] /\ OrderedSpans(L) = walk[Len(L)].seen
  /\ walk[0] = [seen |-> <<>>, todo |-> ChildSpans(L, None)]
  /\ \A n \in 1..Len(L) : walk[n] = IF walk[n - 1].todo = <<>> THEN walk[n - 1] ELSE Visit(L, walk[n - 1])

LEMMA OrderedSpansDef ==
  ASSUME NEW L, Listed(L)
  PROVE  \E walk : VisitSteps(walk, L)
<1> DEFINE N == Len(L)
           D == Visits(L)
           b == [seen |-> <<>>, todo |-> ChildSpans(L, None)]
           Def(f) == [n \in 0..N |-> IF n = 0 THEN b ELSE LET w == f[n - 1] IN IF w.todo = <<>> THEN w ELSE Visit(L, w)]
           walk == CHOOSE f : f = Def(f)
           step == [n \in 1..N |-> [w \in D |-> IF w.todo = <<>> THEN w ELSE Visit(L, w)]]
<1>1. OrderedSpans(L) = walk[N].seen
  BY DEF OrderedSpans
<1>2. N \in Nat /\ b \in D
  <2>1. ChildSpans(L, None) \in Seq(Range(L))
    BY ChildSpansIs
  <2>2. QED
    BY <2>1 DEF Listed, Visits
<1> HIDE DEF N, D
<1>3. step \in [1..N -> [D -> D]]
  <2>1. ASSUME NEW w \in D PROVE (IF w.todo = <<>> THEN w ELSE Visit(L, w)) \in D
    BY VisitIs DEF D
  <2>2. QED
    BY <2>1
<1>4. \A n \in 1..N, w \in D : step[n][w] = IF w.todo = <<>> THEN w ELSE Visit(L, w)
  OBVIOUS
<1> HIDE DEF step, b
<1>5. Ladder(N, D, b, step)
  BY <1>2, <1>3 DEF Ladder
<1>6. PICK f \in [0..N -> D] : f[0] = b /\ \A n \in 1..N : f[n] = step[n][f[n - 1]]
  BY <1>5, Steps
<1>7. \A n \in 0..N : n # 0 => n \in 1..N /\ n - 1 \in 0..N
  BY <1>2
<1>8. ASSUME NEW n \in 0..N PROVE f[n] = IF n = 0 THEN b ELSE LET w == f[n - 1] IN IF w.todo = <<>> THEN w ELSE Visit(L, w)
  BY <1>4, <1>6, <1>7
<1>9. f = Def(f)
  BY <1>8
<1> HIDE DEF Def
<1>10. walk = Def(walk)
  BY <1>9
<1> HIDE DEF walk
<1>11. PICK g : g = walk /\ g = Def(g)
  BY <1>10
<1> USE DEF Def
<1>12. g[0] = b /\ \A n \in 1..N : g[n] = IF g[n - 1].todo = <<>> THEN g[n - 1] ELSE Visit(L, g[n - 1])
  <2>1. \A n \in 1..N : n \in 0..N /\ n # 0
    BY <1>2
  <2>2. 0 \in 0..N
    BY <1>2
  <2>3. QED
    BY <1>11, <2>1, <2>2
<1>13. g = [n \in 0..N |-> g[n]]
  BY <1>11
<1> HIDE DEF Def
<1>14. \A n \in 1..N : g[n - 1] \in D => g[n] = step[n][g[n - 1]]
  BY <1>4, <1>12
<1>15. Climbs(g, N, D, b, step)
  BY <1>5, <1>12, <1>13, <1>14 DEF Climbs
<1>16. g \in [0..N -> D]
  BY <1>15, Climbing
<1>17. QED
  BY <1>1, <1>11, <1>12, <1>16 DEF N, D, b, VisitSteps

LEMMA ConcatAt ==
  ASSUME NEW T, NEW a \in Seq(T), NEW b \in Seq(T)
  PROVE  /\ a \o b \in Seq(T) /\ Len(a \o b) = Len(a) + Len(b)
         /\ \A i \in 1..Len(a) : (a \o b)[i] = a[i]
         /\ \A i \in 1..Len(b) : (a \o b)[Len(a) + i] = b[i]
<1>1. Len(a) \in Nat /\ Len(b) \in Nat
  OBVIOUS
<1>2. /\ a \o b \in Seq(T) /\ Len(a \o b) = Len(a) + Len(b)
      /\ \A i \in 1..(Len(a) + Len(b)) : (a \o b)[i] = IF i <= Len(a) THEN a[i] ELSE b[i - Len(a)]
  BY ConcatProperties
<1>3. ASSUME NEW i \in 1..Len(a) PROVE (a \o b)[i] = a[i]
  <2>1. i \in 1..(Len(a) + Len(b)) /\ i <= Len(a)
    BY <1>1
  <2>2. QED
    BY <1>2, <2>1
<1>4. ASSUME NEW i \in 1..Len(b) PROVE (a \o b)[Len(a) + i] = b[i]
  <2>1. PICK k : k = Len(a) + i
    OBVIOUS
  <2>2. k \in 1..(Len(a) + Len(b)) /\ ~(k <= Len(a)) /\ k - Len(a) = i
    BY <1>1, <2>1
  <2>3. QED
    BY <1>2, <2>1, <2>2
<1>5. QED
  BY <1>2, <1>3, <1>4

\* A visit is a step of the walk.
LEMMA VisitGrows ==
  ASSUME NEW T, NEW seen \in Seq(T), NEW todo \in Seq(T), todo # <<>>, NEW kids \in Seq(T)
  PROVE  Grown(seen \o todo, Len(seen) + 1, kids, Append(seen, Head(todo)) \o (kids \o Tail(todo)))
<1>1. Len(seen) \in Nat /\ Len(todo) \in Nat /\ Len(kids) \in Nat /\ 1 \in 1..Len(todo) /\ Head(todo) = todo[1] /\ todo[1] \in T
  BY Pushed
<1>2. PICK c, t, k \in Nat : c = Len(seen) /\ t = Len(todo) /\ k = Len(kids)
  BY <1>1
<1>3. PICK C \in Seq(T) : C = seen \o todo
  <2>1. seen \o todo \in Seq(T)
    BY ConcatAt
  <2>2. QED
    BY <2>1
<1>4. Len(C) = c + t /\ (\A i \in 1..c : C[i] = seen[i]) /\ \A i \in 1..t : C[c + i] = todo[i]
  BY <1>2, <1>3, ConcatAt
<1>5. PICK a \in Seq(T) : a = Append(seen, Head(todo))
  <2>1. Append(seen, todo[1]) \in Seq(T)
    BY <1>1, AppendProperties
  <2>2. QED
    BY <1>1, <2>1
<1>6. Len(a) = c + 1 /\ a[c + 1] = todo[1] /\ \A i \in 1..c : a[i] = seen[i]
  BY <1>1, <1>2, <1>5, AppendProperties
<1>7. PICK b \in Seq(T) : b = kids \o Tail(todo)
  <2>1. kids \o Tail(todo) \in Seq(T)
    BY Pushed
  <2>2. QED
    BY <2>1
<1>8. Len(b) = k + t - 1 /\ (\A i \in 1..k : b[i] = kids[i]) /\ \A i \in 2..t : b[k + i - 1] = todo[i]
  BY <1>2, <1>7, Pushed
<1>9. PICK D \in Seq(T) : D = a \o b
  <2>1. a \o b \in Seq(T)
    BY ConcatAt
  <2>2. QED
    BY <2>1
<1>10. Len(D) = Len(a) + Len(b) /\ (\A i \in 1..Len(a) : D[i] = a[i]) /\ \A i \in 1..Len(b) : D[Len(a) + i] = b[i]
  BY <1>9, ConcatAt
<1>11. Len(D) = Len(C) + k
  BY <1>4, <1>6, <1>8, <1>10
<1>12. ASSUME NEW i \in 1..(c + 1) PROVE D[i] = C[i]
  <2>1. D[i] = a[i]
    BY <1>6, <1>10
  <2>2. CASE i = c + 1
    <3>1. C[c + 1] = todo[1]
      <4>1. 1 \in 1..t
        BY <1>1, <1>2
      <4>2. QED
        BY <1>4, <4>1
    <3>2. QED
      BY <1>6, <2>1, <2>2, <3>1
  <2>3. CASE i # c + 1
    <3>1. i \in 1..c
      BY <2>3
    <3>2. QED
      BY <1>4, <1>6, <2>1, <3>1
  <2>4. QED
    BY <2>2, <2>3
<1>13. ASSUME NEW i \in 1..k PROVE D[(c + 1) + i] = kids[i]
  <2>1. i \in 1..Len(b)
    BY <1>1, <1>2, <1>8
  <2>2. D[Len(a) + i] = b[i] /\ b[i] = kids[i]
    BY <1>8, <1>10, <2>1
  <2>3. QED
    BY <1>6, <2>2
<1>14. ASSUME NEW i \in ((c + 1) + 1)..(c + t) PROVE D[k + i] = C[i]
  <2>1. PICK j : j = i - c
    OBVIOUS
  <2>2. j \in 2..t /\ j \in 1..t /\ c + j = i /\ k + j - 1 \in 1..Len(b)
    BY <1>1, <1>2, <1>8, <2>1
  <2>3. C[i] = todo[j]
    BY <1>4, <2>2
  <2>4. PICK m : m = k + j - 1
    OBVIOUS
  <2>5. b[m] = todo[j] /\ D[Len(a) + m] = b[m]
    BY <1>8, <1>10, <2>2, <2>4
  <2>6. Len(a) + m = k + i
    BY <1>6, <2>1, <2>2, <2>4
  <2>7. QED
    BY <2>3, <2>5, <2>6
<1>15. Grown(C, c + 1, kids, D)
  BY <1>2, <1>4, <1>11, <1>12, <1>13, <1>14 DEF Grown
<1>16. QED
  BY <1>2, <1>3, <1>5, <1>7, <1>9, <1>15

AllKids(L) == [s \in Range(L) |-> ChildSpans(L, s.id)]

LEMMA AllKidsOf == ASSUME NEW L, Listed(L) PROVE KidsOf(L, AllKids(L))
  BY ChildSpansIs DEF KidsOf, AllKids

\* A walk begins with the top-level spans.
LEMMA RootsWalked ==
  ASSUME NEW L, NEW K, KidsOf(L, K), NEW C, C = ChildSpans(L, None)
  PROVE  Walked(L, K, C, 0)
<1>1. Listed(L)
  BY DEF KidsOf
<1>2. C \in Seq(Range(L)) /\ NoDup(C) /\ Range(C) = {s \in Range(L) : s.parent = None}
  BY <1>1, ChildSpansIs
<1>3. \A i \in 1..Len(C) : C[i].parent = None
  BY <1>2, RangeOf
<1>4. 0 \in 0..Len(C)
  BY <1>2
<1>5. QED
  BY <1>2, <1>3, <1>4 DEF Walked

LEMMA OrderedWalk ==
  ASSUME NEW L, Listed(L)
  PROVE  \E C, p : Walk(L, AllKids(L), C, p) /\ OrderedSpans(L) = C[Len(L)]
<1>1. PICK walk : VisitSteps(walk, L)
  BY OrderedSpansDef
<1>2. PICK N \in Nat : N = Len(L)
  BY DEF Listed
<1>3. PICK K : K = AllKids(L)
  OBVIOUS
<1>4. KidsOf(L, K) /\ \A s \in Range(L) : K[s] = ChildSpans(L, s.id)
  BY <1>3, AllKidsOf DEF AllKids
<1> DEFINE C == [n \in 0..N |-> walk[n].seen \o walk[n].todo]
           p == [n \in 0..N |-> Len(walk[n].seen)]
<1>5. ASSUME NEW n \in 0..N
      PROVE  walk[n].seen \in Seq(Range(L)) /\ walk[n].todo \in Seq(Range(L)) /\ walk[n] \in Visits(L)
    BY <1>1, <1>2 DEF VisitSteps, Visits
<1>6. ASSUME NEW n \in 0..N PROVE C[n] \in Seq(Range(L)) /\ p[n] \in Nat /\ Len(C[n]) = p[n] + Len(walk[n].todo)
  <2>1. PICK a \in Seq(Range(L)) : a = walk[n].seen
    BY <1>5
  <2>2. PICK b \in Seq(Range(L)) : b = walk[n].todo
    BY <1>5
  <2>3. a \o b \in Seq(Range(L)) /\ Len(a \o b) = Len(a) + Len(b) /\ Len(a) \in Nat
    BY ConcatAt
  <2>4. C[n] = a \o b /\ p[n] = Len(a)
    BY <2>1, <2>2
  <2>5. QED
    BY <2>2, <2>3, <2>4
<1>7. C \in [0..N -> Seq(Range(L))] /\ p \in [0..N -> Nat]
  BY <1>6
<1>8. \A n \in 0..N : C[n] = walk[n].seen \o walk[n].todo /\ p[n] = Len(walk[n].seen)
  OBVIOUS
<1> HIDE DEF C, p
<1>9. Walked(L, K, C[0], 0) /\ p[0] = 0
  <2>1. 0 \in 0..N
    OBVIOUS
  <2>2. walk[0].seen = <<>> /\ walk[0].todo = ChildSpans(L, None)
    BY <1>1 DEF VisitSteps
  <2>3. C[0] = <<>> \o ChildSpans(L, None) /\ p[0] = 0
    BY <1>8, <2>1, <2>2
  <2>4. ChildSpans(L, None) \in Seq(Range(L))
    BY ChildSpansIs
  <2>5. C[0] = ChildSpans(L, None)
    BY <2>3, <2>4, ConcatEmptySeq
  <2>6. QED
    BY <1>4, <2>3, <2>5, RootsWalked
<1>10. ASSUME NEW n \in 1..N
       PROVE  IF p[n - 1] = Len(C[n - 1]) THEN p[n] = p[n - 1] /\ C[n] = C[n - 1]
              ELSE p[n] = p[n - 1] + 1 /\ Grown(C[n - 1], p[n], K[C[n - 1][p[n]]], C[n])
  <2>1. n - 1 \in 0..N /\ n \in 0..N /\ n \in 1..Len(L)
    BY <1>2
  <2>2. PICK w \in Visits(L) : w = walk[n - 1]
    BY <1>5, <2>1
  <2>3. PICK seen \in Seq(Range(L)) : seen = w.seen
    BY <1>5, <2>1, <2>2
  <2>4. PICK todo \in Seq(Range(L)) : todo = w.todo
    BY <1>5, <2>1, <2>2
  <2>5. C[n - 1] = seen \o todo /\ p[n - 1] = Len(seen) /\ Len(C[n - 1]) = Len(seen) + Len(todo)
        /\ Len(seen) \in Nat /\ Len(todo) \in Nat
    <3>1. C[n - 1] = walk[n - 1].seen \o walk[n - 1].todo /\ p[n - 1] = Len(walk[n - 1].seen)
      BY <1>8, <2>1
    <3>2. Len(C[n - 1]) = p[n - 1] + Len(walk[n - 1].todo)
      BY <1>6, <2>1
    <3>3. Len(seen) \in Nat /\ Len(todo) \in Nat
      OBVIOUS
    <3>4. QED
      BY <2>2, <2>3, <2>4, <3>1, <3>2, <3>3
  <2>6. walk[n] = IF todo = <<>> THEN w ELSE Visit(L, w)
    BY <1>1, <2>1, <2>2, <2>4 DEF VisitSteps
  <2>7. CASE todo = <<>>
    <3>1. p[n - 1] = Len(C[n - 1])
      BY <2>5, <2>7
    <3>2. p[n] = p[n - 1] /\ C[n] = C[n - 1]
      BY <1>8, <2>1, <2>2, <2>6, <2>7
    <3>3. QED
      BY <3>1, <3>2
  <2>8. CASE todo # <<>>
    <3>1. 1 \in 1..Len(todo) /\ Head(todo) = todo[1] /\ todo[1] \in Range(L)
      BY <2>8, Pushed
    <3>2. PICK kids \in Seq(Range(L)) : kids = ChildSpans(L, todo[1].id)
      <4>1. ChildSpans(L, todo[1].id) \in Seq(Range(L))
        BY ChildSpansIs
      <4>2. QED
        BY <4>1
    <3>3. walk[n].seen = Append(seen, Head(todo)) /\ walk[n].todo = kids \o Tail(todo)
      <4>1. w.todo # <<>>
        BY <2>4, <2>8
      <4>2. /\ Visit(L, w).seen = Append(w.seen, Head(w.todo))
            /\ Visit(L, w).todo = ChildSpans(L, Head(w.todo).id) \o Tail(w.todo)
        BY <4>1, VisitIs
      <4>3. walk[n] = Visit(L, w)
        BY <2>6, <2>8
      <4>4. QED
        BY <2>3, <2>4, <3>1, <3>2, <4>2, <4>3
    <3>4. C[n] = Append(seen, Head(todo)) \o (kids \o Tail(todo)) /\ p[n] = Len(Append(seen, Head(todo)))
      BY <1>8, <2>1, <3>3
    <3>5. Len(Append(seen, Head(todo))) = Len(seen) + 1
      BY <3>1, AppendProperties
    <3>6. Grown(seen \o todo, Len(seen) + 1, kids, Append(seen, Head(todo)) \o (kids \o Tail(todo)))
      BY <2>8, VisitGrows
    <3>7. (seen \o todo)[Len(seen) + 1] = todo[1]
      BY <3>1, ConcatAt
    <3>8. p[n] = Len(seen) + 1 /\ K[C[n - 1][p[n]]] = kids
      BY <1>4, <2>5, <3>1, <3>2, <3>4, <3>5, <3>7
    <3>9. p[n - 1] # Len(C[n - 1])
      BY <2>5, <3>1
    <3>10. QED
      BY <2>5, <3>4, <3>6, <3>8, <3>9
  <2>9. QED
    BY <2>7, <2>8
<1>11. Walk(L, K, C, p)
  BY <1>2, <1>4, <1>7, <1>9, <1>10 DEF Walk
<1>12. p[N] = Len(C[N])
  BY <1>2, <1>11, WalkEnds
<1>13. OrderedSpans(L) = C[N]
  <2>1. N \in 0..N
    OBVIOUS
  <2>2. PICK seen \in Seq(Range(L)) : seen = walk[N].seen
    BY <1>5, <2>1
  <2>3. PICK todo \in Seq(Range(L)) : todo = walk[N].todo
    BY <1>5, <2>1
  <2>4. Len(todo) = 0
    BY <1>6, <1>12, <2>1, <2>3
  <2>5. todo = <<>>
    BY <2>4
  <2>6. C[N] = seen
    BY <1>8, <2>1, <2>2, <2>3, <2>5, ConcatEmptySeq, ZenonT(60)
  <2>7. QED
    BY <1>1, <1>2, <2>2, <2>6 DEF VisitSteps
<1>14. QED
  BY <1>2, <1>3, <1>11, <1>13

----------------------------------------------------------------------------
(* The condensed timeline.                                                  *)

\* Every span once, and after its parent.
Ordered(L, order) ==
  /\ order \in Seq(Range(L)) /\ NoDup(order) /\ Range(order) = Range(L)
  /\ \A i \in 1..Len(order) : order[i].parent # None =>
       \E j \in 1..Len(order) : j < i /\ order[j].id = order[i].parent

\* dfsOrder comes to every span.
LEMMA OrderedSpansIs ==
  ASSUME NEW L, Listed(L)
  PROVE  Ordered(L, OrderedSpans(L))
<1>1. PICK C, p : Walk(L, AllKids(L), C, p) /\ OrderedSpans(L) = C[Len(L)]
  BY OrderedWalk
<1>2. PICK K : K = AllKids(L)
  OBVIOUS
<1>3. PICK order : order = OrderedSpans(L)
  OBVIOUS
<1>4. Walked(L, K, order, Len(order))
  <2>1. Len(L) \in 0..Len(L)
    BY DEF Listed
  <2>2. Walked(L, K, C[Len(L)], p[Len(L)]) /\ p[Len(L)] = Len(C[Len(L)])
    BY <1>1, <1>2, <2>1, WalkEnds
  <2>3. QED
    BY <1>1, <1>3, <2>2
<1>5. order \in Seq(Range(L)) /\ NoDup(order) /\ Range(order) = {order[i] : i \in 1..Len(order)}
  BY <1>4, RangeOf DEF Walked
<1>6. \A s \in Range(L) : K[s] = ChildSpans(L, s.id)
  BY <1>2 DEF AllKids
<1>7. \A i \in 1..Len(order) : order[i].parent # None =>
        \E j \in 1..Len(order) : j < i /\ order[j].id = order[i].parent
  <2>1. SUFFICES ASSUME NEW i \in 1..Len(order), order[i].parent # None
                 PROVE  \E j \in 1..Len(order) : j < i /\ order[j].id = order[i].parent
    OBVIOUS
  <2>2. PICK j \in 1..Len(order) : j < i /\ order[i] \in Range(K[order[j]])
    BY <1>4, <2>1 DEF Walked
  <2>3. order[j] \in Range(L)
    BY <1>5
  <2>4. order[i].parent = order[j].id
    BY <1>6, <2>2, <2>3, ChildSpansIs
  <2>5. QED
    BY <2>2, <2>4
<1>8. Range(L) \subseteq Range(order)
  <2> DEFINE I == Ids(Range(L))
             P == {id \in I : The(Range(L), id) \in Range(order)}
  <2>1. Forest(Range(L)) /\ I \in SUBSET Nat
    BY DEF Listed, Forest
  <2>2. ASSUME NEW id \in I, \A j \in I : j < id => j \in P PROVE id \in P
    <3>1. PICK s \in Range(L) : s = The(Range(L), id) /\ s.id = id
      BY <2>1, ParentOf
    <3>2. CASE s.parent = None
      BY <1>4, <3>1, <3>2 DEF Walked
    <3>3. CASE s.parent # None
      <4>1. s.parent \in I /\ s.parent < id
        BY <2>1, <3>1, <3>3 DEF Forest
      <4>2. s.parent \in P
        BY <2>2, <4>1
      <4>3. PICK t \in Range(order) : t = The(Range(L), s.parent)
        BY <4>2
      <4>4. t.id = s.parent /\ t \in Range(L)
        BY <2>1, <4>1, <4>3, ParentOf
      <4>5. PICK j \in 1..Len(order) : t = order[j]
        BY <1>5
      <4>6. Range(K[t]) \subseteq Range(order)
        BY <1>4, <4>5 DEF Walked
      <4>7. s \in Range(K[t])
        BY <1>6, <4>4, ChildSpansIs
      <4>8. QED
        BY <3>1, <4>6, <4>7
    <3>4. QED
      BY <3>2, <3>3
  <2> HIDE DEF P
  <2>3. I \subseteq P
    BY <2>1, <2>2, Induction
  <2>4. ASSUME NEW s \in Range(L) PROVE s \in Range(order)
    <3>1. The(Range(L), s.id) = s /\ s.id \in I
      BY <2>1, TheOne
    <3>2. QED
      BY <2>3, <3>1 DEF P
  <2>5. QED
    BY <2>4
<1>9. QED
  BY <1>3, <1>5, <1>7, <1>8 DEF Ordered

\* The rows of some of the spans.
Tables(L) == UNION {[A -> Nat] : A \in SUBSET Ids(Range(L))}

\* The row of the parent, if it has one.
Above(rows, s) == IF s.parent \in DOMAIN rows THEN rows[s.parent] ELSE -1

\* new is rows with s in the first row below its parent that has room for it.
Placed(L, rows, s, new) ==
  /\ new \in [DOMAIN rows \cup {s.id} -> Nat]
  /\ \A id \in DOMAIN rows \ {s.id} : new[id] = rows[id]
  /\ new[s.id] > Above(rows, s)
  /\ \A t \in Range(L) : t.id \in DOMAIN rows /\ rows[t.id] = new[s.id] => ~HasOverlap(L, s, t)
  /\ \A r \in Nat : Above(rows, s) < r /\ r < new[s.id] => r \in Range(rows)

\* There are as many rows to try as to have one that is empty.
LEMMA FreeRow ==
  ASSUME NEW L, Listed(L), NEW rows \in Tables(L), NEW f \in Nat
  PROVE  /\ Cardinality(DOMAIN rows) \in Nat
         /\ \E r \in f..(f + Cardinality(DOMAIN rows)) : r \notin Range(rows)
<1>1. PICK A \in SUBSET Ids(Range(L)) : rows \in [A -> Nat]
  BY DEF Tables
<1>2. IsFiniteSet(A)
  <2>1. PICK N \in Nat : Ids(Range(L)) \subseteq 0..N
    BY DEF Listed, Forest
  <2>2. IsFiniteSet(0..N) /\ A \subseteq 0..N
    BY <2>1, FS_Interval
  <2>3. QED
    BY <2>2, FS_Subset
<1>3. PICK R : R = Range(rows)
  OBVIOUS
<1>4. rows \in Surjection(A, R)
  BY <1>1, <1>3 DEF Surjection, Range
<1>5. IsFiniteSet(R) /\ Cardinality(R) <= Cardinality(A) /\ Cardinality(A) \in Nat /\ Cardinality(R) \in Nat
  BY <1>2, <1>4, FS_Surjection, FS_CardinalityType
<1>6. PICK c \in Nat : c = Cardinality(A)
  BY <1>5
<1>7. ASSUME f..(f + c) \subseteq R PROVE FALSE
  <2>1. Cardinality(f..(f + c)) <= Cardinality(R)
    BY <1>5, <1>7, FS_Subset
  <2>2. Cardinality(f..(f + c)) = c + 1
    <3>1. f \in Int /\ f + c \in Int /\ (IF f > f + c THEN 0 ELSE (f + c) - f + 1) = c + 1
      OBVIOUS
    <3>2. QED
      BY <3>1, FS_Interval
  <2>3. QED
    BY <1>5, <1>6, <2>1, <2>2
<1>8. QED
  BY <1>1, <1>3, <1>6, <1>7

LEMMA PlaceSpanIs ==
  ASSUME NEW L, Listed(L), NEW rows \in Tables(L), NEW s \in Range(L)
  PROVE  Placed(L, rows, s, PlaceSpan(L, rows, s)) /\ PlaceSpan(L, rows, s) \in Tables(L)
<1>1. PICK A \in SUBSET Ids(Range(L)) : rows \in [A -> Nat]
  BY DEF Tables
<1>2. PICK a \in Nat \cup {-1} : a = Above(rows, s)
  BY <1>1 DEF Above
<1> DEFINE free(r) == \A t \in Range(L) : t.id \in DOMAIN rows /\ rows[t.id] = r => ~HasOverlap(L, s, t)
           Open == {r \in (a + 1)..(a + 1 + Cardinality(DOMAIN rows)) : free(r)}
           target == Min(Open)
           new == [id \in DOMAIN rows \cup {s.id} |-> IF id = s.id THEN target ELSE rows[id]]
<1>3. PlaceSpan(L, rows, s) = new
  BY <1>2 DEF PlaceSpan, Above
<1>4. PICK f \in Nat : f = a + 1
  OBVIOUS
<1>5. PICK e \in f..(f + Cardinality(DOMAIN rows)) : e \notin Range(rows)
  BY FreeRow
<1>6. Open \in SUBSET Nat /\ e \in Open
  <2>1. DOMAIN rows = A
    BY <1>1
  <2>2. \A t \in Range(L) : t.id \in DOMAIN rows => rows[t.id] \in Range(rows)
    BY DEF Range
  <2>3. free(e)
    BY <1>5, <2>2
  <2>4. (a + 1)..(a + 1 + Cardinality(DOMAIN rows)) = f..(f + Cardinality(DOMAIN rows))
    BY <1>4
  <2>5. \A r \in f..(f + Cardinality(DOMAIN rows)) : r \in Nat
    OBVIOUS
  <2>6. QED
    BY <1>5, <2>3, <2>4, <2>5
<1>7. target \in Open /\ \A r \in Open : target <= r
  <2> HIDE DEF Open
  <2>1. QED
    BY <1>6, LeastNat
<1>8. target \in Nat /\ target > a /\ free(target)
  <2> HIDE DEF free, target
  <2>1. target \in (a + 1)..(a + 1 + Cardinality(DOMAIN rows)) /\ free(target) /\ target \in Nat
    BY <1>6, <1>7
  <2>2. QED
    BY <2>1
<1>9. ASSUME NEW r \in Nat, a < r, r < target PROVE r \in Range(rows)
  <2>1. r \in (a + 1)..(a + 1 + Cardinality(DOMAIN rows))
    <3> HIDE DEF free, target
    <3>1. target \in (a + 1)..(a + 1 + Cardinality(DOMAIN rows))
      BY <1>7
    <3>2. PICK c \in Nat : c = Cardinality(DOMAIN rows)
      BY FreeRow
    <3>3. QED
      BY <1>8, <1>9, <3>1, <3>2
  <2>2. ~free(r)
    <3> HIDE DEF free, target
    <3>1. r \notin Open
      BY <1>6, <1>7, <1>9
    <3>2. QED
      BY <2>1, <3>1
  <2>3. PICK t \in Range(L) : t.id \in DOMAIN rows /\ rows[t.id] = r
    BY <2>2
  <2>4. QED
    BY <2>3 DEF Range
<1>10. new \in [DOMAIN rows \cup {s.id} -> Nat] /\ new[s.id] = target /\ \A id \in DOMAIN rows \ {s.id} : new[id] = rows[id]
  <2> HIDE DEF target
  <2>1. QED
    BY <1>1, <1>8
<1>11. Placed(L, rows, s, new)
  <2> HIDE DEF target, new
  <2>1. QED
    BY <1>2, <1>8, <1>9, <1>10 DEF Placed
<1>12. new \in Tables(L)
  <2>1. DOMAIN rows \cup {s.id} \in SUBSET Ids(Range(L))
    BY <1>1 DEF Ids
  <2> HIDE DEF new
  <2>2. QED
    BY <1>10, <2>1 DEF Tables
<1>13. QED
  BY <1>3, <1>11, <1>12

\* The placements of transformSpansToCondensedTimeline, one after the other.
Placements(placed, L, order) ==
  /\ placed \in [0..Len(order) -> Tables(L)]
  /\ placed[0] = [id \in {} |-> 0] /\ CondensedRows(L) = placed[Len(order)]
  /\ \A n \in 1..Len(order) : placed[n] = PlaceSpan(L, placed[n - 1], order[n])

LEMMA CondensedRowsDef ==
  ASSUME NEW L, Listed(L), NEW order, order = OrderedSpans(L)
  PROVE  \E placed : Placements(placed, L, order)
<1> DEFINE N == Len(order)
           D == Tables(L)
           b == [id \in {} |-> 0]
           Def(f) == [n \in 0..N |-> IF n = 0 THEN b ELSE PlaceSpan(L, f[n - 1], order[n])]
           placed == CHOOSE f : f = Def(f)
           step == [n \in 1..N |-> [w \in D |-> PlaceSpan(L, w, order[n])]]
<1>1. CondensedRows(L) = placed[N]
  BY DEF CondensedRows
<1>2. N \in Nat /\ b \in D /\ \A n \in 1..N : order[n] \in Range(L)
  <2>1. order \in Seq(Range(L))
    BY OrderedSpansIs DEF Ordered
  <2>2. b \in [{} -> Nat] /\ {} \in SUBSET Ids(Range(L))
    OBVIOUS
  <2>3. b \in Tables(L)
    BY <2>2 DEF Tables
  <2>4. QED
    BY <2>1, <2>3
<1> HIDE DEF N, D
<1>3. step \in [1..N -> [D -> D]]
  <2>1. ASSUME NEW n \in 1..N, NEW w \in D PROVE PlaceSpan(L, w, order[n]) \in D
    BY <1>2, PlaceSpanIs DEF D
  <2>2. QED
    BY <2>1
<1>4. \A n \in 1..N, w \in D : step[n][w] = PlaceSpan(L, w, order[n])
  OBVIOUS
<1> HIDE DEF step, b
<1>5. Ladder(N, D, b, step)
  BY <1>2, <1>3 DEF Ladder
<1>6. PICK f \in [0..N -> D] : f[0] = b /\ \A n \in 1..N : f[n] = step[n][f[n - 1]]
  BY <1>5, Steps
<1>7. \A n \in 0..N : n # 0 => n \in 1..N /\ n - 1 \in 0..N
  BY <1>2
<1>8. ASSUME NEW n \in 0..N PROVE f[n] = IF n = 0 THEN b ELSE PlaceSpan(L, f[n - 1], order[n])
  BY <1>4, <1>6, <1>7
<1>9. f = Def(f)
  BY <1>8
<1> HIDE DEF Def
<1>10. placed = Def(placed)
  BY <1>9
<1> HIDE DEF placed
<1>11. PICK g : g = placed /\ g = Def(g)
  BY <1>10
<1> USE DEF Def
<1>12. g[0] = b /\ \A n \in 1..N : g[n] = PlaceSpan(L, g[n - 1], order[n])
  <2>1. \A n \in 1..N : n \in 0..N /\ n # 0
    BY <1>2
  <2>2. 0 \in 0..N
    BY <1>2
  <2>3. QED
    BY <1>11, <2>1, <2>2
<1>13. g = [n \in 0..N |-> g[n]]
  BY <1>11
<1> HIDE DEF Def
<1>14. \A n \in 1..N : g[n - 1] \in D => g[n] = step[n][g[n - 1]]
  BY <1>4, <1>12
<1>15. Climbs(g, N, D, b, step)
  BY <1>5, <1>12, <1>13, <1>14 DEF Climbs
<1>16. g \in [0..N -> D]
  BY <1>15, Climbing
<1>17. QED
  BY <1>1, <1>11, <1>12, <1>16 DEF N, D, b, Placements

Apart(s, t) == s.end <= t.start \/ t.end <= s.start

\* The spans of A are in their rows.
InPlace(L, rows, A) ==
  /\ A \in SUBSET Ids(Range(L)) /\ rows \in [A -> Nat]
  /\ \A s \in Range(L) : s.id \in A /\ s.parent # None => s.parent \in A /\ rows[s.parent] < rows[s.id]
  /\ \A s, t \in Range(L) : s # t /\ s.id \in A /\ t.id \in A /\ rows[s.id] = rows[t.id] => Apart(s, t)
  /\ \A id \in A, r \in Nat : r < rows[id] => r \in Range(rows)

\* One more.
LEMMA PlaceOne ==
  ASSUME NEW L, Listed(L), NEW A, NEW rows, InPlace(L, rows, A), NEW s \in Range(L), s.id \notin A,
         s.parent # None => s.parent \in A, NEW new, Placed(L, rows, s, new)
  PROVE  InPlace(L, new, A \cup {s.id})
<1> DEFINE B == A \cup {s.id}
<1>1. A \in SUBSET Ids(Range(L)) /\ rows \in [A -> Nat] /\ DOMAIN rows = A
  BY DEF InPlace
<1>2. new \in [B -> Nat] /\ new[s.id] \in Nat /\ \A id \in A : new[id] = rows[id]
  BY <1>1 DEF Placed
<1>3. B \in SUBSET Ids(Range(L))
  BY <1>1 DEF Ids
<1>4. Forest(Range(L)) /\ \A t \in Range(L) : t.id = s.id => t = s
  BY DEF Listed, Forest
<1>5. \A t \in Range(L) : t.start \in Nat /\ t.end \in Nat
  BY ListedIs DEF SpanRecord
<1>6. ASSUME NEW t \in Range(L), t.id \in B, t.parent # None PROVE t.parent \in B /\ new[t.parent] < new[t.id]
  <2>1. CASE t.id = s.id
    <3>1. t = s /\ s.parent \in A
      BY <1>4, <1>6, <2>1
    <3>2. Above(rows, s) = rows[s.parent]
      BY <1>1, <3>1 DEF Above
    <3>3. rows[s.parent] \in Nat /\ new[s.parent] = rows[s.parent] /\ new[s.id] > rows[s.parent]
      BY <1>1, <1>2, <3>1, <3>2 DEF Placed
    <3>4. QED
      BY <1>2, <3>1, <3>3
  <2>2. CASE t.id # s.id
    <3>1. t.id \in A
      BY <1>6, <2>2
    <3>2. t.parent \in A /\ rows[t.parent] < rows[t.id]
      BY <1>6, <3>1 DEF InPlace
    <3>3. QED
      BY <1>2, <3>1, <3>2
  <2>3. QED
    BY <2>1, <2>2
<1>7. ASSUME NEW t \in Range(L), t.id \in A, rows[t.id] = new[s.id] PROVE Apart(s, t) /\ Apart(t, s)
  <2>1. ~HasOverlap(L, s, t)
    BY <1>1, <1>7 DEF Placed
  <2>2. s.end <= t.start \/ s.start >= t.end
    BY <2>1 DEF HasOverlap
  <2>3. QED
    BY <1>5, <2>2 DEF Apart
<1>8. ASSUME NEW t \in Range(L), NEW u \in Range(L), t # u, t.id \in B, u.id \in B, new[t.id] = new[u.id]
      PROVE  Apart(t, u)
  <2>1. CASE t.id = s.id
    <3>1. t = s /\ u.id # s.id
      BY <1>4, <1>8, <2>1
    <3>2. u.id \in A /\ rows[u.id] = new[s.id]
      BY <1>2, <1>8, <3>1
    <3>3. QED
      BY <1>7, <3>1, <3>2
  <2>2. CASE u.id = s.id
    <3>1. u = s /\ t.id # s.id
      BY <1>4, <1>8, <2>2
    <3>2. t.id \in A /\ rows[t.id] = new[s.id]
      BY <1>2, <1>8, <3>1
    <3>3. QED
      BY <1>7, <3>1, <3>2
  <2>3. CASE t.id # s.id /\ u.id # s.id
    <3>1. t.id \in A /\ u.id \in A /\ rows[t.id] = rows[u.id]
      BY <1>2, <1>8, <2>3
    <3>2. QED
      BY <1>8, <3>1 DEF InPlace
  <2>4. QED
    BY <2>1, <2>2, <2>3
<1>9. Range(rows) \subseteq Range(new)
  <2>1. \A id \in A : id \in DOMAIN new /\ new[id] = rows[id]
    BY <1>2
  <2>2. QED
    BY <1>1, <2>1 DEF Range
<1>10. ASSUME NEW id \in B, NEW r \in Nat, r < new[id] PROVE r \in Range(new)
  <2>1. CASE id \in A
    <3>1. r \in Range(rows)
      BY <1>2, <1>10, <2>1 DEF InPlace
    <3>2. QED
      BY <1>9, <3>1
  <2>2. CASE id = s.id
    <3>1. r < new[s.id]
      BY <1>10, <2>2
    <3>2. CASE Above(rows, s) < r
      BY <1>9, <3>1, <3>2 DEF Placed
    <3>3. CASE ~(Above(rows, s) < r)
      <4>1. s.parent \in A /\ Above(rows, s) = rows[s.parent]
        BY <1>1, <3>3 DEF Above
      <4>2. rows[s.parent] \in Nat
        BY <1>1, <4>1
      <4>3. r = rows[s.parent] \/ r < rows[s.parent]
        BY <3>3, <4>1, <4>2
      <4>4. r \in Range(rows)
        BY <1>1, <4>1, <4>3 DEF InPlace, Range
      <4>5. QED
        BY <1>9, <4>4
    <3>4. QED
      BY <3>2, <3>3
  <2>3. QED
    BY <2>1, <2>2
<1>11. QED
  BY <1>2, <1>3, <1>6, <1>8, <1>10 DEF InPlace

LEMMA GreatestNat ==
  ASSUME NEW S \in SUBSET Nat, S # {}, NEW N \in Nat, \A x \in S : x <= N
  PROVE  Max(S) \in S /\ \A x \in S : x <= Max(S)
<1> DEFINE T == {N - x : x \in S}
<1>1. T \in SUBSET Nat /\ T # {}
  <2>1. \A x \in S : N - x \in Nat
    OBVIOUS
  <2>2. QED
    BY <2>1
<1>2. Min(T) \in T /\ \A y \in T : Min(T) <= y
  <2> HIDE DEF T
  <2>1. QED
    BY <1>1, LeastNat
<1>3. PICK z \in S : Min(T) = N - z
  <2>1. PICK y : y = Min(T)
    OBVIOUS
  <2>2. y \in T
    BY <1>2, <2>1
  <2>3. QED
    BY <2>1, <2>2
<1>4. ASSUME NEW x \in S PROVE x <= z
  <2>1. N - x \in T
    OBVIOUS
  <2>2. N - z <= N - x
    <3> HIDE DEF T
    <3>1. QED
      BY <1>2, <1>3, <2>1
  <2>3. QED
    BY <2>2
<1>5. \A x \in S : z >= x
  BY <1>4
<1>6. Max(S) \in S /\ \A x \in S : Max(S) >= x
  BY <1>5 DEF Max
<1>7. QED
  BY <1>6

\* The rows of the whole list.
LEMMA CondensedRowsInPlace ==
  ASSUME NEW L, Listed(L)
  PROVE  InPlace(L, CondensedRows(L), Ids(Range(L)))
<1>1. PICK order : order = OrderedSpans(L)
  OBVIOUS
<1>2. /\ order \in Seq(Range(L)) /\ NoDup(order) /\ Range(order) = Range(L)
      /\ Range(order) = {order[i] : i \in 1..Len(order)}
      /\ \A i \in 1..Len(order) : order[i].parent # None =>
           \E j \in 1..Len(order) : j < i /\ order[j].id = order[i].parent
  BY <1>1, OrderedSpansIs, RangeOf DEF Ordered
<1>3. PICK placed : Placements(placed, L, order)
  BY <1>1, CondensedRowsDef
<1>4. PICK N \in Nat : N = Len(order)
  BY <1>2
<1> DEFINE upTo(n) == {order[i].id : i \in 1..n}
           P == {n \in 0..N : InPlace(L, placed[n], upTo(n))}
<1>5. 0 \in P
  <2>1. upTo(0) = {} /\ 0 \in 0..N
    OBVIOUS
  <2>2. PICK rows : rows = [id \in {} |-> 0]
    OBVIOUS
  <2>3. InPlace(L, rows, {})
    BY <2>2 DEF InPlace
  <2>4. InPlace(L, placed[0], {})
    BY <1>3, <2>2, <2>3 DEF Placements
  <2> HIDE DEF upTo
  <2>5. QED
    BY <2>1, <2>4
<1>6. ASSUME NEW n \in 1..N, n - 1 \in P PROVE n \in P
  <2>1. PICK A : A = upTo(n - 1)
    OBVIOUS
  <2>2. PICK rows : rows = placed[n - 1]
    OBVIOUS
  <2>3. InPlace(L, rows, A)
    BY <1>6, <2>1, <2>2
  <2>4. PICK s \in Range(L) : s = order[n]
    BY <1>2, <1>4
  <2>5. n - 1 \in 0..N /\ n \in 1..Len(order) /\ rows \in Tables(L)
    BY <1>3, <1>4, <2>2 DEF Placements
  <2>6. placed[n] = PlaceSpan(L, rows, s)
    BY <1>3, <2>2, <2>4, <2>5 DEF Placements
  <2>7. Placed(L, rows, s, placed[n])
    BY <2>5, <2>6, PlaceSpanIs
  <2>8. upTo(n) = A \cup {s.id}
    <3>1. 1..n = (1..(n - 1)) \cup {n}
      OBVIOUS
    <3>2. QED
      BY <2>1, <2>4, <3>1
  <2>9. s.id \notin A
    <3>1. SUFFICES ASSUME NEW i \in 1..(n - 1), order[i].id = s.id PROVE FALSE
      BY <2>1
    <3>2. i \in 1..Len(order) /\ i # n
      BY <1>4
    <3>3. order[i] \in Range(L)
      BY <1>2, <3>2
    <3>4. order[i] = s
      BY <3>1, <3>3 DEF Listed, Forest
    <3>5. QED
      BY <1>2, <2>4, <2>5, <3>2, <3>4 DEF NoDup
  <2>10. ASSUME s.parent # None PROVE s.parent \in A
    <3>1. PICK j \in 1..Len(order) : j < n /\ order[j].id = s.parent
      BY <1>2, <2>4, <2>5, <2>10
    <3>2. j \in 1..(n - 1)
      BY <3>1
    <3>3. QED
      BY <2>1, <3>1, <3>2
  <2> HIDE DEF upTo
  <2>11. InPlace(L, placed[n], A \cup {s.id})
    BY <2>3, <2>7, <2>9, <2>10, PlaceOne
  <2>12. QED
    BY <2>8, <2>11
<1>7. \A n \in 0..N : n \in P
  <2> HIDE DEF P
  <2>1. QED
    BY <1>5, <1>6, Counting
<1>8. InPlace(L, placed[N], upTo(N))
  <2>1. N \in 0..N
    OBVIOUS
  <2>2. QED
    BY <1>7, <2>1
<1>9. upTo(N) = Ids(Range(L))
  BY <1>2, <1>4 DEF Ids
<1>10. QED
  BY <1>3, <1>4, <1>8, <1>9 DEF Placements

\* No row is empty.
LEMMA RowsAreFull ==
  ASSUME NEW L, Listed(L), L # <<>>, NEW rows, InPlace(L, rows, Ids(Range(L)))
  PROVE  Range(rows) = 0..Max(Range(rows))
<1>1. PICK A : A = Ids(Range(L))
  OBVIOUS
<1>2. rows \in [A -> Nat] /\ \A id \in A, r \in Nat : r < rows[id] => r \in Range(rows)
  BY <1>1 DEF InPlace
<1>3. PICK R : R = Range(rows)
  OBVIOUS
<1>4. R \in SUBSET Nat /\ R = {rows[id] : id \in A}
  BY <1>2, <1>3 DEF Range
<1>5. R # {}
  <2>1. L[1] \in Range(L)
    <3>1. L \in Seq(SpanRecord) /\ 1 \in 1..Len(L)
      BY DEF Listed
    <3>2. QED
      BY <3>1, RangeOf
  <2>2. L[1].id \in A
    BY <1>1, <2>1 DEF Ids
  <2>3. QED
    BY <1>4, <2>2
<1>6. \A x \in R, r \in Nat : r < x => r \in R
  BY <1>2, <1>3, <1>4
<1>7. IsFiniteSet(R) /\ Cardinality(R) \in Nat
  <2>1. IsFiniteSet(A)
    <3>1. PICK N \in Nat : A \subseteq 0..N
      BY <1>1 DEF Listed, Forest
    <3>2. IsFiniteSet(0..N)
      BY FS_Interval
    <3>3. QED
      BY <3>1, <3>2, FS_Subset
  <2>2. rows \in Surjection(A, R)
    BY <1>2, <1>4 DEF Surjection
  <2>3. QED
    BY <2>1, <2>2, FS_Surjection, FS_CardinalityType
<1>8. PICK c \in Nat : c = Cardinality(R)
  BY <1>7
<1>9. ASSUME NEW x \in R PROVE x <= c
  <2>1. x \in Nat
    BY <1>4
  <2>2. 0..x \subseteq R
    <3>1. ASSUME NEW r \in 0..x PROVE r \in R
      <4>1. r \in Nat /\ (r < x \/ r = x)
        BY <2>1
      <4>2. QED
        BY <1>6, <4>1
    <3>2. QED
      BY <3>1
  <2>3. Cardinality(0..x) = x + 1
    <3>1. 0 \in Int /\ x \in Int /\ (IF 0 > x THEN 0 ELSE x - 0 + 1) = x + 1
      BY <2>1
    <3>2. QED
      BY <3>1, FS_Interval
  <2>4. Cardinality(0..x) <= c
    BY <1>7, <1>8, <2>2, FS_Subset
  <2>5. QED
    BY <2>1, <2>3, <2>4
<1>10. PICK m \in R : m = Max(R) /\ \A x \in R : x <= m
  BY <1>4, <1>5, <1>9, GreatestNat
<1>11. R = 0..m
  <2>1. ASSUME NEW r \in 0..m PROVE r \in R
    <3>1. m \in Nat /\ r \in Nat /\ (r < m \/ r = m)
      BY <1>4
    <3>2. QED
      BY <1>6, <3>1
  <2>2. ASSUME NEW r \in R PROVE r \in 0..m
    BY <1>4, <1>10
  <2>3. QED
    BY <2>1, <2>2
<1>12. QED
  BY <1>3, <1>10, <1>11

\* transformSpansToCondensedTimeline: whatever the list, every span has a row, a
\* child is below its parent, spans that share a row do not share time, and no
\* row is left empty.
THEOREM TimelineIsSound == Spec => []TimelineSound
<1>1. ListInv => TimelineSound
  <2>1. SUFFICES ASSUME ListInv, list # <<>>
                 PROVE  /\ DOMAIN CondensedRows(list) = Ids(All)
                        /\ \A s \in All : s.parent # None => CondensedRows(list)[s.id] > CondensedRows(list)[s.parent]
                        /\ \A s, t \in All : s # t /\ CondensedRows(list)[s.id] = CondensedRows(list)[t.id] =>
                             s.end <= t.start \/ t.end <= s.start
                        /\ Range(CondensedRows(list)) = 0..Max(Range(CondensedRows(list)))
    BY DEF TimelineSound
  <2>2. PICK L : L = list
    OBVIOUS
  <2>3. PICK rows : rows = CondensedRows(L)
    OBVIOUS
  <2>4. Listed(L) /\ L # <<>>
    BY <2>1, <2>2 DEF ListInv
  <2>5. InPlace(L, rows, Ids(Range(L)))
    BY <2>3, <2>4, CondensedRowsInPlace
  <2>6. Range(rows) = 0..Max(Range(rows))
    BY <2>4, <2>5, RowsAreFull
  <2>7. PICK S : S = Range(L)
    OBVIOUS
  <2>8. \A s \in S : s.id \in Ids(S)
    BY DEF Ids
  <2>9. rows \in [Ids(S) -> Nat]
    BY <2>5, <2>7 DEF InPlace
  <2>10. ASSUME NEW s \in S, s.parent # None PROVE rows[s.id] > rows[s.parent]
    <3>1. s.parent \in Ids(S) /\ rows[s.parent] < rows[s.id]
      BY <2>5, <2>7, <2>8, <2>10 DEF InPlace
    <3>2. rows[s.parent] \in Nat /\ rows[s.id] \in Nat
      BY <2>8, <2>9, <3>1
    <3>3. QED
      BY <3>1, <3>2
  <2>11. \A s, t \in S : s # t /\ rows[s.id] = rows[t.id] => s.end <= t.start \/ t.end <= s.start
    BY <2>5, <2>7, <2>8 DEF InPlace, Apart
  <2>12. QED
    BY <2>2, <2>3, <2>6, <2>7, <2>9, <2>10, <2>11 DEF All
<1>2. QED
  BY <1>1, ListsAreTrees, PTL

----------------------------------------------------------------------------
(* The tree.                                                                *)

\* A span with the lines that pass it, the row drawn for it, and what is left
\* to draw below it.
Items(L) == [span : Range(L), mask : Seq(BOOLEAN)]

RowOf(L, x) ==
  [id |-> x.span.id, depth |-> Len(x.mask), mask |-> x.mask, hasChildren |-> ChildSpans(L, x.span.id) # <<>>]

Below(L, x) ==
  LET kids == Children(L, x.span)
  IN  [i \in DOMAIN kids |-> [span |-> kids[i], mask |-> Append(x.mask, i # Len(kids))]]

TopItems(L) ==
  LET roots == ChildSpans(L, None)
  IN  [i \in DOMAIN roots |-> [span |-> roots[i], mask |-> <<>>]]

Drawn(L) == [rows : Seq({RowOf(L, x) : x \in Items(L)}), todo : Seq(Items(L))]

LEMMA ChildrenIs ==
  ASSUME NEW L, Listed(L), NEW s \in Range(L)
  PROVE  /\ Children(L, s) \in Seq(Range(L)) /\ NoDup(Children(L, s))
         /\ Range(Children(L, s)) = IF s.collapsed THEN {} ELSE {t \in Range(L) : t.parent = s.id}
<1>1. CASE s.collapsed
  <2>1. Children(L, s) = <<>>
    BY <1>1 DEF Children
  <2>2. <<>> \in Seq(Range(L)) /\ NoDup(<<>>) /\ Range(<<>>) = {}
    BY DEF NoDup, Range
  <2>3. QED
    BY <1>1, <2>1, <2>2
<1>2. CASE ~s.collapsed
  BY <1>2, ChildSpansIs DEF Children
<1>3. QED
  BY <1>1, <1>2

LEMMA BelowIs ==
  ASSUME NEW L, Listed(L), NEW x \in Items(L), NEW kids, kids = Children(L, x.span)
  PROVE  /\ kids \in Seq(Range(L)) /\ Below(L, x) \in Seq(Items(L)) /\ Len(Below(L, x)) = Len(kids)
         /\ \A i \in 1..Len(kids) :
              /\ Below(L, x)[i].span = kids[i]
              /\ Below(L, x)[i].mask = Append(x.mask, i # Len(kids))
<1>1. x.span \in Range(L) /\ x.mask \in Seq(BOOLEAN)
  BY DEF Items
<1>2. kids \in Seq(Range(L)) /\ DOMAIN kids = 1..Len(kids)
  <2>1. kids \in Seq(Range(L))
    BY <1>1, ChildrenIs
  <2>2. QED
    BY <2>1
<1>3. Below(L, x) = [i \in 1..Len(kids) |-> [span |-> kids[i], mask |-> Append(x.mask, i # Len(kids))]]
  BY <1>2 DEF Below
<1>4. ASSUME NEW i \in 1..Len(kids)
      PROVE  [span |-> kids[i], mask |-> Append(x.mask, i # Len(kids))] \in Items(L)
  <2>1. (i # Len(kids)) \in BOOLEAN
    OBVIOUS
  <2>2. Append(x.mask, i # Len(kids)) \in Seq(BOOLEAN)
    BY <1>1, <2>1, AppendProperties
  <2>3. kids[i] \in Range(L)
    BY <1>2
  <2>4. QED
    BY <2>2, <2>3 DEF Items
<1>5. Len(kids) \in Nat
  BY <1>2
<1>6. PICK m \in Nat : m = Len(kids)
  BY <1>5
<1>7. Below(L, x) \in [1..m -> Items(L)]
  BY <1>3, <1>4, <1>6
<1>8. Below(L, x) \in Seq(Items(L)) /\ Len(Below(L, x)) = m
  BY <1>7
<1>9. ASSUME NEW i \in 1..Len(kids)
      PROVE  Below(L, x)[i].span = kids[i] /\ Below(L, x)[i].mask = Append(x.mask, i # Len(kids))
  BY <1>3
<1>10. QED
  BY <1>2, <1>6, <1>8, <1>9

LEMMA TopItemsIs ==
  ASSUME NEW L, Listed(L), NEW roots, roots = ChildSpans(L, None)
  PROVE  /\ roots \in Seq(Range(L)) /\ TopItems(L) \in Seq(Items(L)) /\ Len(TopItems(L)) = Len(roots)
         /\ \A i \in 1..Len(roots) : TopItems(L)[i].span = roots[i] /\ TopItems(L)[i].mask = <<>>
<1>1. roots \in Seq(Range(L)) /\ DOMAIN roots = 1..Len(roots)
  <2>1. roots \in Seq(Range(L))
    BY ChildSpansIs
  <2>2. QED
    BY <2>1
<1>2. TopItems(L) = [i \in 1..Len(roots) |-> [span |-> roots[i], mask |-> <<>>]]
  BY <1>1 DEF TopItems
<1>3. \A i \in 1..Len(roots) : [span |-> roots[i], mask |-> <<>>] \in Items(L)
  <2>1. <<>> \in Seq(BOOLEAN)
    OBVIOUS
  <2>2. QED
    BY <1>1, <2>1 DEF Items
<1>4. Len(roots) \in Nat
  BY <1>1
<1>5. PICK m \in Nat : m = Len(roots)
  BY <1>4
<1>6. TopItems(L) \in [1..m -> Items(L)]
  BY <1>2, <1>3, <1>5
<1>7. TopItems(L) \in Seq(Items(L)) /\ Len(TopItems(L)) = m
  BY <1>6
<1>8. QED
  BY <1>1, <1>2, <1>5, <1>7

LEMMA DrawRowIs ==
  ASSUME NEW L, Listed(L), NEW d \in Drawn(L), d.todo # <<>>
  PROVE  /\ DrawRow(L, d) \in Drawn(L)
         /\ DrawRow(L, d).rows = Append(d.rows, RowOf(L, Head(d.todo)))
         /\ DrawRow(L, d).todo = Below(L, Head(d.todo)) \o Tail(d.todo)
<1> DEFINE R == {RowOf(L, x) : x \in Items(L)}
<1>1. PICK todo \in Seq(Items(L)) : todo = d.todo
  BY DEF Drawn
<1>2. PICK rows \in Seq(R) : rows = d.rows
  BY DEF Drawn
<1>3. PICK x \in Items(L) : x = Head(todo)
  <2>1. Head(todo) \in Items(L)
    BY <1>1
  <2>2. QED
    BY <2>1
<1>4. PICK next \in Seq(Items(L)) : next = Below(L, x)
  <2>1. Below(L, x) \in Seq(Items(L))
    BY BelowIs
  <2>2. QED
    BY <2>1
<1>5. next \o Tail(todo) \in Seq(Items(L))
  BY <1>1, Pushed
<1>6. Append(rows, RowOf(L, x)) \in Seq(R)
  BY AppendProperties
<1>7. DrawRow(L, d) = [rows |-> Append(rows, RowOf(L, x)), todo |-> next \o Tail(todo)]
  BY <1>1, <1>2, <1>3, <1>4 DEF DrawRow, RowOf, Below
<1> HIDE DEF R
<1>8. DrawRow(L, d).rows = Append(rows, RowOf(L, x)) /\ DrawRow(L, d).todo = next \o Tail(todo)
  BY <1>7
<1>9. DrawRow(L, d) \in Drawn(L)
  BY <1>5, <1>6, <1>7 DEF Drawn, R
<1>10. QED
  BY <1>1, <1>2, <1>3, <1>4, <1>8, <1>9

\* transformSpansToTree, unfolded.
DrawSteps(drawn, L) ==
  /\ drawn \in [0..Len(L) -> Drawn(L)] /\ TransformSpansToTree(L) = drawn[Len(L)].rows
  /\ drawn[0] = [rows |-> <<>>, todo |-> TopItems(L)]
  /\ \A n \in 1..Len(L) : drawn[n] = IF drawn[n - 1].todo = <<>> THEN drawn[n - 1] ELSE DrawRow(L, drawn[n - 1])

LEMMA TreeDef ==
  ASSUME NEW L, Listed(L)
  PROVE  \E drawn : DrawSteps(drawn, L)
<1> DEFINE N == Len(L)
           D == Drawn(L)
           b == [rows |-> <<>>, todo |-> TopItems(L)]
           Def(f) == [n \in 0..N |-> IF n = 0 THEN b ELSE LET w == f[n - 1] IN IF w.todo = <<>> THEN w ELSE DrawRow(L, w)]
           drawn == CHOOSE f : f = Def(f)
           step == [n \in 1..N |-> [w \in D |-> IF w.todo = <<>> THEN w ELSE DrawRow(L, w)]]
<1>1. TransformSpansToTree(L) = drawn[N].rows
  BY DEF TransformSpansToTree, TopItems
<1>2. N \in Nat /\ b \in D
  <2>1. TopItems(L) \in Seq(Items(L))
    BY TopItemsIs
  <2>2. <<>> \in Seq({RowOf(L, x) : x \in Items(L)})
    OBVIOUS
  <2>3. QED
    BY <2>1, <2>2 DEF Listed, Drawn
<1> HIDE DEF N, D
<1>3. step \in [1..N -> [D -> D]]
  <2>1. ASSUME NEW w \in D PROVE (IF w.todo = <<>> THEN w ELSE DrawRow(L, w)) \in D
    BY DrawRowIs DEF D
  <2>2. QED
    BY <2>1
<1>4. \A n \in 1..N, w \in D : step[n][w] = IF w.todo = <<>> THEN w ELSE DrawRow(L, w)
  OBVIOUS
<1> HIDE DEF step, b
<1>5. Ladder(N, D, b, step)
  BY <1>2, <1>3 DEF Ladder
<1>6. PICK f \in [0..N -> D] : f[0] = b /\ \A n \in 1..N : f[n] = step[n][f[n - 1]]
  BY <1>5, Steps
<1>7. \A n \in 0..N : n # 0 => n \in 1..N /\ n - 1 \in 0..N
  BY <1>2
<1>8. ASSUME NEW n \in 0..N PROVE f[n] = IF n = 0 THEN b ELSE LET w == f[n - 1] IN IF w.todo = <<>> THEN w ELSE DrawRow(L, w)
  BY <1>4, <1>6, <1>7
<1>9. f = Def(f)
  BY <1>8
<1> HIDE DEF Def
<1>10. drawn = Def(drawn)
  BY <1>9
<1> HIDE DEF drawn
<1>11. PICK g : g = drawn /\ g = Def(g)
  BY <1>10
<1> USE DEF Def
<1>12. g[0] = b /\ \A n \in 1..N : g[n] = IF g[n - 1].todo = <<>> THEN g[n - 1] ELSE DrawRow(L, g[n - 1])
  <2>1. \A n \in 1..N : n \in 0..N /\ n # 0
    BY <1>2
  <2>2. 0 \in 0..N
    BY <1>2
  <2>3. QED
    BY <1>11, <2>1, <2>2
<1>13. g = [n \in 0..N |-> g[n]]
  BY <1>11
<1> HIDE DEF Def
<1>14. \A n \in 1..N : g[n - 1] \in D => g[n] = step[n][g[n - 1]]
  BY <1>4, <1>12
<1>15. Climbs(g, N, D, b, step)
  BY <1>5, <1>12, <1>13, <1>14 DEF Climbs
<1>16. g \in [0..N -> D]
  BY <1>15, Climbing
<1>17. QED
  BY <1>1, <1>11, <1>12, <1>16 DEF N, D, b, DrawSteps

OpenKids(L) == [s \in Range(L) |-> Children(L, s)]

LEMMA OpenKidsOf == ASSUME NEW L, Listed(L) PROVE KidsOf(L, OpenKids(L))
<1>1. ASSUME NEW s \in Range(L)
      PROVE  Children(L, s) \in Seq(Range(L)) /\ NoDup(Children(L, s)) /\ \A t \in Range(Children(L, s)) : t.parent = s.id
  BY ChildrenIs
<1>2. QED
  BY <1>1 DEF KidsOf, OpenKids

\* The ancestors of a span of a walk have been visited, and had children to go on with.
Visited(K, C, p, i, a) == \E j \in 1..p : j < i /\ C[j].id = a /\ Range(K[C[j]]) # {}

LEMMA AncestorsWalked ==
  ASSUME NEW L, NEW K, KidsOf(L, K), NEW C, NEW p, Walked(L, K, C, p), NEW i \in 1..Len(C),
         NEW a \in Ancestors(Range(L), C[i].id)
  PROVE  Visited(K, C, p, i, a)
<1> USE DEF Visited
<1> DEFINE S == Range(L)
           Seen(k) == \A b \in Ancestors(S, C[k].id) : \E j \in 1..p : j < k /\ C[j].id = b /\ Range(K[C[j]]) # {}
           P == {k \in 1..Len(C) : Seen(k)}
<1>1. C \in Seq(S) /\ p \in Nat /\ p <= Len(C) /\ Len(C) \in Nat
  BY DEF Walked
<1>2. Forest(S) /\ None \notin Ids(S)
  BY AlgorithmsAssumption DEF KidsOf, Listed, Forest
<1>3. ASSUME NEW k \in 1..Len(C), \A j \in 1..Len(C) : j < k => j \in P PROVE k \in P
  <2>1. C[k] \in S /\ Parent(S, C[k].id) = C[k].parent /\ C[k].id \in Ids(S)
    BY <1>1, <1>2, TheOne
  <2>2. CASE C[k].parent = None
    <3>1. Ancestors(S, C[k].id) = {}
      BY <1>2, <2>1, <2>2, AncestorsDef
    <3>2. QED
      BY <3>1
  <2>3. CASE C[k].parent # None
    <3>1. PICK j \in 1..p : j < k /\ C[k] \in Range(K[C[j]])
      BY <2>3 DEF Walked
    <3>2. j \in 1..Len(C) /\ j \in P
      <4>1. j \in 1..Len(C)
        BY <1>1
      <4> HIDE DEF P
      <4>2. QED
        BY <1>3, <3>1, <4>1
    <3>3. C[j] \in S /\ C[j].id = C[k].parent
      BY <1>1, <3>1, <3>2 DEF KidsOf
    <3>4. Ancestors(S, C[k].id) = Ancestors(S, C[j].id) \cup {C[j].id}
      BY <1>2, <2>1, <2>3, <3>3, AncestorsDef
    <3>5. ASSUME NEW b \in Ancestors(S, C[k].id) PROVE \E m \in 1..p : m < k /\ C[m].id = b /\ Range(K[C[m]]) # {}
      <4>1. CASE b = C[j].id
        BY <3>1, <4>1
      <4>2. CASE b \in Ancestors(S, C[j].id)
        <5>1. PICK m \in 1..p : m < j /\ C[m].id = b /\ Range(K[C[m]]) # {}
          BY <3>2, <4>2
        <5>2. m < k
          BY <1>1, <3>1, <5>1
        <5>3. QED
          BY <5>1, <5>2
      <4>3. QED
        BY <3>4, <3>5, <4>1, <4>2
    <3>6. QED
      BY <3>5
  <2>4. QED
    BY <2>2, <2>3
<1>4. PICK I : I = 1..Len(C)
  OBVIOUS
<1>5. I \in SUBSET Nat /\ \A k \in I : (\A j \in I : j < k => j \in P) => k \in P
  <2> HIDE DEF P
  <2>1. QED
    BY <1>1, <1>3, <1>4
<1>6. I \subseteq P
  <2> HIDE DEF P
  <2>1. QED
    BY <1>5, Induction
<1>7. i \in P
  BY <1>4, <1>6
<1>8. QED
  BY <1>7

SpansOf(X) == [i \in 1..Len(X) |-> X[i].span]

\* The ids from the root down to the parent.
Way(L, s) == ParentIds(Range(L), s.id)

\* The lines that pass X[i] lead to the children below it that its ancestors still have.
Passes(L, X, i) ==
  /\ Len(X[i].mask) = Len(Way(L, X[i].span))
  /\ \A d \in 1..Len(X[i].mask) :
       X[i].mask[d] <=> \E j \in (i + 1)..Len(X) : X[j].span.parent = Way(L, X[i].span)[d]

LEMMA SpansOfIs ==
  ASSUME NEW L, NEW X \in Seq(Items(L))
  PROVE  /\ SpansOf(X) \in Seq(Range(L)) /\ Len(SpansOf(X)) = Len(X)
         /\ \A i \in 1..Len(X) : SpansOf(X)[i] = X[i].span
<1>1. PICK n \in Nat : n = Len(X)
  OBVIOUS
<1>2. \A i \in 1..n : X[i].span \in Range(L)
  <2>1. \A i \in 1..n : X[i] \in Items(L)
    BY <1>1
  <2>2. QED
    BY <2>1 DEF Items
<1>3. SpansOf(X) = [i \in 1..n |-> X[i].span]
  BY <1>1 DEF SpansOf
<1>4. SpansOf(X) \in [1..n -> Range(L)]
  BY <1>2, <1>3
<1>5. SpansOf(X) \in Seq(Range(L)) /\ Len(SpansOf(X)) = n
  BY <1>4
<1>6. QED
  BY <1>1, <1>3, <1>5

LEMMA SpansGrow ==
  ASSUME NEW L, Listed(L), NEW X \in Seq(Items(L)), NEW q \in 1..Len(X), NEW Y \in Seq(Items(L)),
         Grown(X, q, Below(L, X[q]), Y)
  PROVE  Grown(SpansOf(X), q, OpenKids(L)[SpansOf(X)[q]], SpansOf(Y))
<1>1. X[q] \in Items(L) /\ X[q].span \in Range(L)
  <2>1. X[q] \in Items(L)
    OBVIOUS
  <2>2. QED
    BY <2>1 DEF Items
<1>2. PICK kids : kids = Children(L, X[q].span)
  OBVIOUS
<1>3. PICK next : next = Below(L, X[q])
  OBVIOUS
<1>4. /\ kids \in Seq(Range(L)) /\ next \in Seq(Items(L)) /\ Len(next) = Len(kids)
      /\ \A i \in 1..Len(kids) : next[i].span = kids[i]
  BY <1>1, <1>2, <1>3, BelowIs
<1>5. SpansOf(X)[q] = X[q].span /\ OpenKids(L)[SpansOf(X)[q]] = kids
  BY <1>1, <1>2, SpansOfIs DEF OpenKids
<1>6. PICK C, D : C = SpansOf(X) /\ D = SpansOf(Y)
  OBVIOUS
<1>7. /\ Len(C) = Len(X) /\ Len(D) = Len(Y) /\ (\A i \in 1..Len(X) : C[i] = X[i].span)
      /\ \A i \in 1..Len(Y) : D[i] = Y[i].span
  BY <1>6, SpansOfIs
<1>8. Grown(X, q, next, Y)
  BY <1>3
<1>9. /\ Len(Y) = Len(X) + Len(kids) /\ (\A i \in 1..q : Y[i] = X[i])
      /\ (\A i \in 1..Len(kids) : Y[q + i] = next[i]) /\ \A i \in (q + 1)..Len(X) : Y[Len(kids) + i] = X[i]
  BY <1>4, <1>8 DEF Grown
<1>10. Len(X) \in Nat /\ Len(kids) \in Nat /\ q \in Nat /\ q <= Len(X)
  BY <1>4
<1>11. ASSUME NEW i \in 1..q PROVE D[i] = C[i]
  <2>1. i \in 1..Len(X) /\ i \in 1..Len(Y)
    BY <1>9, <1>10
  <2>2. QED
    BY <1>7, <1>9, <2>1
<1>12. ASSUME NEW i \in 1..Len(kids) PROVE D[q + i] = kids[i]
  <2>1. q + i \in 1..Len(Y)
    BY <1>9, <1>10
  <2>2. QED
    BY <1>4, <1>7, <1>9, <2>1
<1>13. ASSUME NEW i \in (q + 1)..Len(X) PROVE D[Len(kids) + i] = C[i]
  <2>1. i \in 1..Len(X) /\ Len(kids) + i \in 1..Len(Y)
    BY <1>9, <1>10
  <2>2. QED
    BY <1>7, <1>9, <2>1
<1>14. Grown(C, q, kids, D)
  BY <1>7, <1>9, <1>11, <1>12, <1>13 DEF Grown
<1>15. QED
  BY <1>5, <1>6, <1>14

\* What a visit of X[q] does to X: its children come in after it.
Opened(L, X, q, kids, Y) ==
  /\ X \in Seq(Items(L)) /\ Y \in Seq(Items(L)) /\ q \in 1..Len(X) /\ q \in Nat
  /\ kids = Children(L, X[q].span) /\ kids \in Seq(Range(L))
  /\ Len(Y) = Len(X) + Len(kids)
  /\ \A i \in 1..q : Y[i] = X[i]
  /\ \A i \in 1..Len(kids) : Y[q + i].span = kids[i] /\ Y[q + i].mask = Append(X[q].mask, i # Len(kids))
  /\ \A i \in (q + 1)..Len(X) : Y[Len(kids) + i] = X[i]

LEMMA OpenedIs ==
  ASSUME NEW L, Listed(L), NEW X \in Seq(Items(L)), NEW q \in 1..Len(X), NEW Y \in Seq(Items(L)),
         Grown(X, q, Below(L, X[q]), Y)
  PROVE  Opened(L, X, q, Children(L, X[q].span), Y)
<1>1. X[q] \in Items(L)
  OBVIOUS
<1>2. PICK kids : kids = Children(L, X[q].span)
  OBVIOUS
<1>3. PICK next : next = Below(L, X[q])
  OBVIOUS
<1>4. /\ kids \in Seq(Range(L)) /\ Len(next) = Len(kids)
      /\ \A i \in 1..Len(kids) : next[i].span = kids[i] /\ next[i].mask = Append(X[q].mask, i # Len(kids))
  <2>1. /\ kids \in Seq(Range(L)) /\ Len(Below(L, X[q])) = Len(kids)
        /\ \A i \in 1..Len(kids) : /\ Below(L, X[q])[i].span = kids[i]
                                   /\ Below(L, X[q])[i].mask = Append(X[q].mask, i # Len(kids))
    <3>1. PICK x \in Items(L) : x = X[q]
      BY <1>1
    <3>2. kids = Children(L, x.span)
      BY <1>2, <3>1
    <3>3. /\ kids \in Seq(Range(L)) /\ Len(Below(L, x)) = Len(kids)
          /\ \A i \in 1..Len(kids) : /\ Below(L, x)[i].span = kids[i]
                                     /\ Below(L, x)[i].mask = Append(x.mask, i # Len(kids))
      <4>1. PICK y : y = Below(L, x)
        OBVIOUS
      <4>2. /\ kids \in Seq(Range(L)) /\ y \in Seq(Items(L)) /\ Len(y) = Len(kids)
            /\ \A i \in 1..Len(kids) : y[i].span = kids[i] /\ y[i].mask = Append(x.mask, i # Len(kids))
        BY <3>2, <4>1, BelowIs, SMTT(60)
      <4>3. QED
        BY <4>1, <4>2, Zenon
    <3>4. x.mask = X[q].mask /\ Below(L, x) = Below(L, X[q])
      BY <3>1, Zenon
    <3>5. ASSUME NEW i \in 1..Len(kids)
          PROVE  Below(L, X[q])[i].span = kids[i] /\ Below(L, X[q])[i].mask = Append(X[q].mask, i # Len(kids))
      <4>1. Below(L, x)[i].span = kids[i] /\ Below(L, x)[i].mask = Append(x.mask, i # Len(kids))
        BY <3>3, Zenon
      <4>2. QED
        BY <3>4, <4>1, Zenon
    <3>6. kids \in Seq(Range(L)) /\ Len(Below(L, X[q])) = Len(kids)
      BY <3>3, <3>4, Zenon
    <3>7. QED
      BY <3>5, <3>6, Zenon
  <2>2. QED
    BY <1>3, <2>1, Zenon
<1>5. Grown(X, q, next, Y)
  BY <1>3
<1>6. /\ Len(Y) = Len(X) + Len(kids) /\ (\A i \in 1..q : Y[i] = X[i])
      /\ (\A i \in 1..Len(kids) : Y[q + i] = next[i]) /\ \A i \in (q + 1)..Len(X) : Y[Len(kids) + i] = X[i]
  BY <1>4, <1>5 DEF Grown
<1>7. \A i \in 1..Len(kids) : Y[q + i].span = kids[i] /\ Y[q + i].mask = Append(X[q].mask, i # Len(kids))
  BY <1>4, <1>6
<1>8. q \in Nat
  OBVIOUS
<1>9. Opened(L, X, q, kids, Y)
  BY <1>2, <1>4, <1>6, <1>7, <1>8 DEF Opened
<1>10. QED
  BY <1>2, <1>9

\* Where an item of Y comes from.
LEMMA OpenedAt ==
  ASSUME NEW L, NEW X, NEW q, NEW kids, NEW Y, Opened(L, X, q, kids, Y), NEW i \in 1..Len(Y)
  PROVE  \/ i \in 1..q /\ i \in 1..Len(X) /\ Y[i] = X[i]
         \/ i > q /\ i - q \in 1..Len(kids) /\ Y[i].span = kids[i - q]
            /\ Y[i].mask = Append(X[q].mask, (i - q) # Len(kids))
         \/ i > q + Len(kids) /\ i - Len(kids) \in (q + 1)..Len(X) /\ i - Len(kids) \in 1..Len(X) /\ Y[i] = X[i - Len(kids)]
<1>1. Len(X) \in Nat /\ Len(kids) \in Nat /\ Len(Y) = Len(X) + Len(kids) /\ q \in Nat /\ q <= Len(X) /\ i \in Nat
  BY DEF Opened
<1>2. CASE i <= q
  <2>1. i \in 1..q /\ i \in 1..Len(X)
    BY <1>1, <1>2
  <2>2. QED
    BY <2>1 DEF Opened
<1>3. CASE i > q /\ i <= q + Len(kids)
  <2>1. PICK c : c = i - q
    OBVIOUS
  <2>2. c \in 1..Len(kids) /\ q + c = i
    BY <1>1, <1>3, <2>1
  <2>3. Y[q + c].span = kids[c] /\ Y[q + c].mask = Append(X[q].mask, c # Len(kids))
    BY <2>2 DEF Opened
  <2>4. QED
    BY <1>3, <2>1, <2>2, <2>3
<1>4. CASE i > q + Len(kids)
  <2>1. i - Len(kids) \in (q + 1)..Len(X) /\ i - Len(kids) \in 1..Len(X) /\ Len(kids) + (i - Len(kids)) = i
    BY <1>1, <1>4
  <2>2. Y[Len(kids) + (i - Len(kids))] = X[i - Len(kids)]
    BY <2>1 DEF Opened
  <2>3. QED
    BY <1>4, <2>1, <2>2
<1>5. QED
  BY <1>1, <1>2, <1>3, <1>4

\* X[i] is Y[k], and a is not the one whose children have come in.
Carried(X, q, kids, i, k, a) ==
  /\ i \in 0..Len(X) /\ k = IF i <= q THEN i ELSE i + Len(kids)
  /\ \A c \in 1..Len(kids) : kids[c].parent # a

\* What comes below X[i] still does, and no other child of a.
LEMMA StillBelow ==
  ASSUME NEW L, NEW X, NEW q, NEW kids, NEW Y, Opened(L, X, q, kids, Y), NEW i, NEW k, NEW a,
         Carried(X, q, kids, i, k, a)
  PROVE  (\E j \in (i + 1)..Len(X) : X[j].span.parent = a) <=> (\E j \in (k + 1)..Len(Y) : Y[j].span.parent = a)
<1> USE DEF Carried
<1>1. Len(X) \in Nat /\ Len(kids) \in Nat /\ Len(Y) = Len(X) + Len(kids) /\ q \in Nat /\ q <= Len(X) /\ i \in Nat /\ k \in Nat
  BY DEF Opened
<1>2. ASSUME NEW j \in (i + 1)..Len(X), X[j].span.parent = a PROVE \E m \in (k + 1)..Len(Y) : Y[m].span.parent = a
  <2>1. CASE j <= q
    <3>1. j \in 1..q /\ j \in (k + 1)..Len(Y)
      BY <1>1, <2>1
    <3>2. Y[j] = X[j]
      BY <3>1 DEF Opened
    <3>3. QED
      BY <1>2, <3>1, <3>2
  <2>2. CASE j > q
    <3>1. j \in (q + 1)..Len(X) /\ Len(kids) + j \in (k + 1)..Len(Y)
      BY <1>1, <2>2
    <3>2. Y[Len(kids) + j] = X[j]
      BY <3>1 DEF Opened
    <3>3. QED
      BY <1>2, <3>1, <3>2
  <2>3. QED
    BY <1>1, <2>1, <2>2
<1>3. ASSUME NEW j \in (k + 1)..Len(Y), Y[j].span.parent = a PROVE \E m \in (i + 1)..Len(X) : X[m].span.parent = a
  <2>1. j \in 1..Len(Y) /\ j \in Nat
    BY <1>1
  <2>2. CASE j \in 1..q /\ j \in 1..Len(X) /\ Y[j] = X[j]
    <3>1. j \in (i + 1)..Len(X)
      BY <1>1, <2>2
    <3>2. QED
      BY <1>3, <2>2, <3>1
  <2>3. CASE j > q /\ j - q \in 1..Len(kids) /\ Y[j].span = kids[j - q]
    BY <1>3, <2>3
  <2>4. CASE j > q + Len(kids) /\ j - Len(kids) \in (q + 1)..Len(X) /\ Y[j] = X[j - Len(kids)]
    <3>1. j - Len(kids) \in (i + 1)..Len(X)
      BY <1>1, <2>4
    <3>2. QED
      BY <1>3, <2>4, <3>1
  <2>5. QED
    BY <2>1, <2>2, <2>3, <2>4, OpenedAt
<1>4. QED
  BY <1>2, <1>3

LEMMA WayIs ==
  ASSUME NEW L, Listed(L), NEW s \in Range(L)
  PROVE  /\ Way(L, s) \in Seq(Ids(Range(L))) /\ Range(Way(L, s)) = Ancestors(Range(L), s.id)
         /\ s.parent = None => Way(L, s) = <<>>
         /\ \A t \in Range(L) : t.parent = s.id => Way(L, t) = Append(Way(L, s), s.id)
<1>1. Forest(Range(L)) /\ None \notin Ids(Range(L))
  BY AlgorithmsAssumption DEF Listed, Forest
<1>2. s.id \in Ids(Range(L)) /\ Parent(Range(L), s.id) = s.parent
  BY <1>1, TheOne
<1>3. ParentIds(Range(L), s.id) \in Seq(Ids(Range(L)))
  BY <1>1, <1>2, ParentIdsDef
<1>4. s.parent = None => ParentIds(Range(L), s.id) = <<>>
  BY <1>1, <1>2, ParentIdsDef
<1>5. ASSUME NEW t \in Range(L), t.parent = s.id PROVE Way(L, t) = Append(Way(L, s), s.id)
  <2>1. t.id \in Ids(Range(L)) /\ Parent(Range(L), t.id) = s.id /\ s.id # None
    BY <1>1, <1>2, <1>5, TheOne
  <2>2. QED
    BY <1>1, <2>1, ParentIdsDef DEF Way
<1>6. QED
  BY <1>3, <1>4, <1>5 DEF Way, Ancestors

\* buildTreeWithCollapse keeps every line: those of the rows above, those of the
\* rows still to come, and those of the children it goes on with.
LEMMA LinesGrow ==
  ASSUME NEW L, Listed(L), NEW X, NEW q, NEW kids, NEW Y, Opened(L, X, q, kids, Y), NEW p, q = p + 1,
         Walked(L, OpenKids(L), SpansOf(X), p), \A i \in 1..Len(X) : Passes(L, X, i)
  PROVE  \A i \in 1..Len(Y) : Passes(L, Y, i)
<1>1. /\ Len(X) \in Nat /\ Len(kids) \in Nat /\ Len(Y) = Len(X) + Len(kids) /\ q \in Nat /\ q <= Len(X)
      /\ q \in 1..Len(X) /\ X \in Seq(Items(L)) /\ kids \in Seq(Range(L)) /\ kids = Children(L, X[q].span)
  BY DEF Opened
<1>2. PICK C : C = SpansOf(X)
  OBVIOUS
<1>3. C \in Seq(Range(L)) /\ Len(C) = Len(X) /\ \A i \in 1..Len(X) : C[i] = X[i].span
  BY <1>1, <1>2, SpansOfIs
<1>4. PICK K : K = OpenKids(L)
  OBVIOUS
<1>5. KidsOf(L, K) /\ Walked(L, K, C, p) /\ NoDup(C) /\ p \in Nat /\ p <= Len(C)
  BY <1>2, <1>4, OpenKidsOf DEF Walked
<1>6. PICK h \in Range(L) : h = X[q].span /\ h = C[q]
  BY <1>1, <1>3
<1>7. PICK id \in Ids(Range(L)) : id = h.id
  BY <1>6 DEF Ids
<1>8. id # None
  BY <1>7, AlgorithmsAssumption DEF Listed, Forest
<1>9. ASSUME NEW i \in 1..Len(X), NEW d \in 1..Len(Way(L, X[i].span)) PROVE Way(L, X[i].span)[d] # id
  <2>1. SUFFICES ASSUME Way(L, X[i].span)[d] = id PROVE FALSE
    OBVIOUS
  <2>2. C[i] \in Range(L) /\ X[i].span = C[i]
    BY <1>3
  <2>3. Way(L, C[i]) \in Seq(Ids(Range(L))) /\ Range(Way(L, C[i])) = Ancestors(Range(L), C[i].id)
    BY <2>2, WayIs
  <2>4. id \in Ancestors(Range(L), C[i].id)
    <3>1. PICK w \in Seq(Ids(Range(L))) : w = Way(L, C[i])
      BY <2>3
    <3>2. w[d] = id /\ d \in 1..Len(w)
      BY <1>9, <2>1, <2>2, <3>1
    <3>3. id \in Range(w)
      BY <3>2, RangeOf
    <3>4. QED
      BY <2>3, <3>1, <3>3
  <2>5. PICK j \in 1..p : C[j].id = id
    <3>1. i \in 1..Len(C)
      BY <1>3
    <3>2. Visited(K, C, p, i, id)
      BY <1>5, <2>4, <3>1, AncestorsWalked
    <3>3. QED
      BY <3>2 DEF Visited
  <2>6. j \in 1..Len(C) /\ j # q
    BY <1>1, <1>3, <1>5
  <2>7. C[j] \in Range(L)
    BY <1>3, <2>6
  <2>8. C[j] = C[q]
    BY <1>6, <1>7, <2>5, <2>7 DEF Listed, Forest
  <2>9. QED
    BY <1>1, <1>3, <1>5, <2>6, <2>8 DEF NoDup
<1>10. ASSUME NEW c \in 1..Len(kids)
       PROVE  kids[c] \in Range(L) /\ kids[c].parent = id /\ Way(L, kids[c]) = Append(Way(L, h), id)
  <2>1. kids[c] \in Range(kids) /\ kids[c] \in Range(L)
    BY <1>1, RangeOf
  <2>2. kids[c].parent = id
    <3>1. K[h] = kids
      BY <1>1, <1>4, <1>6 DEF OpenKids
    <3>2. QED
      BY <1>5, <1>6, <1>7, <2>1, <3>1 DEF KidsOf
  <2>3. QED
    BY <1>7, <2>1, <2>2, WayIs
<1>11. ASSUME NEW i \in 1..Len(X) PROVE X[i].span.parent # id
  <2>1. q \in 1..Len(C) /\ i \in 1..Len(C)
    BY <1>1, <1>3
  <2>2. C[i].parent = C[q].id => C[i].parent = None
    BY <1>5, <2>1, KidsAreNew
  <2>3. QED
    BY <1>3, <1>6, <1>7, <1>8, <2>2
<1>12. ASSUME NEW i \in 1..Len(X), NEW k \in 1..Len(Y), k = IF i <= q THEN i ELSE i + Len(kids), Y[k] = X[i]
       PROVE  Passes(L, Y, k)
  <2>1. Passes(L, X, i)
    OBVIOUS
  <2>2. ASSUME NEW d \in 1..Len(X[i].mask)
        PROVE  X[i].mask[d] <=> \E j \in (k + 1)..Len(Y) : Y[j].span.parent = Way(L, X[i].span)[d]
    <3>1. PICK a : a = Way(L, X[i].span)[d]
      OBVIOUS
    <3>2. d \in 1..Len(Way(L, X[i].span))
      BY <2>1 DEF Passes
    <3>3. \A c \in 1..Len(kids) : kids[c].parent # a
      BY <1>9, <1>10, <3>1, <3>2
    <3>4. i \in 0..Len(X)
      BY <1>1
    <3>5. (\E j \in (i + 1)..Len(X) : X[j].span.parent = a) <=> (\E j \in (k + 1)..Len(Y) : Y[j].span.parent = a)
      <4>1. Carried(X, q, kids, i, k, a)
        BY <1>12, <3>3, <3>4 DEF Carried
      <4>2. QED
        BY <4>1, StillBelow
    <3>6. X[i].mask[d] <=> \E j \in (i + 1)..Len(X) : X[j].span.parent = a
      BY <2>1, <3>1 DEF Passes
    <3>7. QED
      BY <3>1, <3>5, <3>6
  <2>3. QED
    BY <1>12, <2>1, <2>2 DEF Passes
<1>13. ASSUME NEW k \in 1..Len(Y), NEW c \in 1..Len(kids), k = q + c, Y[k].span = kids[c],
              Y[k].mask = Append(X[q].mask, c # Len(kids))
       PROVE  Passes(L, Y, k)
  <2>1. k = q + c
    BY <1>13
  <2>2. PICK way \in Seq(Ids(Range(L))) : way = Way(L, h)
    BY WayIs
  <2>3. PICK mask \in Seq(BOOLEAN) : mask = X[q].mask
    <3>1. X[q] \in Items(L)
      BY <1>1
    <3>2. QED
      BY <3>1 DEF Items
  <2>4. PICK last \in BOOLEAN : last = (c # Len(kids))
    OBVIOUS
  <2>5. Passes(L, X, q)
    BY <1>1
  <2>6. Len(mask) = Len(way) /\ Len(mask) \in Nat
    <3>1. Len(X[q].mask) = Len(Way(L, X[q].span))
      BY <2>5 DEF Passes
    <3>2. Len(mask) = Len(way)
      BY <1>6, <2>2, <2>3, <3>1, Zenon
    <3>3. Len(mask) \in Nat
      OBVIOUS
    <3>4. QED
      BY <3>2, <3>3
  <2>7. /\ Len(Append(mask, last)) = Len(mask) + 1 /\ Append(mask, last)[Len(mask) + 1] = last
        /\ \A d \in 1..Len(mask) : Append(mask, last)[d] = mask[d]
    BY AppendProperties
  <2>8. /\ Len(Append(way, id)) = Len(way) + 1 /\ Append(way, id)[Len(way) + 1] = id
        /\ \A d \in 1..Len(way) : Append(way, id)[d] = way[d]
    BY AppendProperties
  <2>9. Y[k].mask = Append(mask, last) /\ Way(L, Y[k].span) = Append(way, id)
    BY <1>10, <1>13, <2>2, <2>3, <2>4
  <2>10. ASSUME NEW d \in 1..Len(mask)
        PROVE  mask[d] <=> \E j \in (k + 1)..Len(Y) : Y[j].span.parent = way[d]
    <3>1. PICK a : a = way[d] /\ a # id
      <4>1. d \in 1..Len(Way(L, X[q].span)) /\ way[d] = Way(L, X[q].span)[d]
        BY <1>6, <2>2, <2>6
      <4>2. QED
        BY <1>1, <1>9, <4>1
    <3>2. mask[d] <=> \E j \in (q + 1)..Len(X) : X[j].span.parent = a
      BY <1>6, <2>2, <2>3, <2>5, <3>1, SMTT(60) DEF Passes
    <3>3. q \in 0..Len(X) /\ \A m \in 1..Len(kids) : kids[m].parent # a
      BY <1>1, <1>10, <3>1
    <3>4. q = IF q <= q THEN q ELSE q + Len(kids)
      BY <1>1
    <3>5. (\E j \in (q + 1)..Len(X) : X[j].span.parent = a) <=> (\E j \in (q + 1)..Len(Y) : Y[j].span.parent = a)
      <4>1. Carried(X, q, kids, q, q, a)
        BY <3>3, <3>4 DEF Carried
      <4>2. QED
        BY <4>1, StillBelow
    <3>6. ASSUME NEW j \in (q + 1)..Len(Y), Y[j].span.parent = a PROVE j \in (k + 1)..Len(Y)
      <4>1. CASE j <= k
        <5>1. PICK m : m = j - q
          OBVIOUS
        <5>2. m \in 1..Len(kids) /\ q + m = j
          BY <1>1, <2>1, <4>1, <5>1, SMTT(60)
        <5>3. Y[j].span = kids[m]
          BY <5>2 DEF Opened
        <5>4. QED
          BY <3>3, <3>6, <5>2, <5>3
      <4>2. QED
        BY <1>1, <4>1
    <3>7. \A j \in (k + 1)..Len(Y) : j \in (q + 1)..Len(Y)
      BY <1>1, <2>1
    <3>8. QED
      BY <3>1, <3>2, <3>5, <3>6, <3>7
  <2>11. last <=> \E j \in (k + 1)..Len(Y) : Y[j].span.parent = id
    <3>1. ASSUME c # Len(kids) PROVE \E j \in (k + 1)..Len(Y) : Y[j].span.parent = id
      <4>1. c + 1 \in 1..Len(kids) /\ q + (c + 1) \in (k + 1)..Len(Y)
        BY <1>1, <2>1, <3>1
      <4>2. Y[q + (c + 1)].span = kids[c + 1]
        BY <4>1 DEF Opened
      <4>3. QED
        BY <1>10, <4>1, <4>2
    <3>2. ASSUME NEW j \in (k + 1)..Len(Y), Y[j].span.parent = id PROVE c # Len(kids)
      <4>1. j \in 1..Len(Y) /\ j \in Nat /\ j > q
        BY <1>1, <2>1
      <4>2. CASE j - q \in 1..Len(kids)
        BY <1>1, <2>1, <4>1, <4>2
      <4>3. CASE j - Len(kids) \in 1..Len(X) /\ Y[j] = X[j - Len(kids)]
        BY <1>11, <3>2, <4>3
      <4>4. j - q \in 1..Len(kids) \/ (j - Len(kids) \in 1..Len(X) /\ Y[j] = X[j - Len(kids)])
        <5>1. ~(j \in 1..q)
          BY <1>1, <4>1
        <5>2. QED
          BY <4>1, <5>1, OpenedAt
      <4>5. QED
        BY <4>2, <4>3, <4>4
    <3>3. QED
      BY <2>4, <3>1, <3>2
  <2>12. ASSUME NEW d \in 1..Len(Append(mask, last))
         PROVE  Append(mask, last)[d] <=> \E j \in (k + 1)..Len(Y) : Y[j].span.parent = Append(way, id)[d]
    <3>1. CASE d \in 1..Len(mask)
      <4>1. d \in 1..Len(way)
        BY <2>6, <3>1
      <4>2. Append(mask, last)[d] = mask[d] /\ Append(way, id)[d] = way[d]
        BY <2>7, <2>8, <3>1, <4>1
      <4>3. QED
        BY <2>10, <3>1, <4>2
    <3>2. CASE d = Len(mask) + 1
      <4>1. Append(mask, last)[d] = last /\ Append(way, id)[d] = id
        BY <2>6, <2>7, <2>8, <3>2
      <4>2. QED
        BY <2>11, <4>1
    <3>3. d \in 1..Len(mask) \/ d = Len(mask) + 1
      BY <2>6, <2>7
    <3>4. QED
      BY <3>1, <3>2, <3>3
  <2>13. Len(Append(mask, last)) = Len(Append(way, id))
    BY <2>6, <2>7, <2>8
  <2>14. QED
    BY <2>9, <2>12, <2>13 DEF Passes
<1>14. ASSUME NEW k \in 1..Len(Y) PROVE Passes(L, Y, k)
  <2>1. CASE k \in 1..q /\ k \in 1..Len(X) /\ Y[k] = X[k]
    <3>1. k = IF k <= q THEN k ELSE k + Len(kids)
      BY <1>1, <2>1
    <3>2. QED
      BY <1>12, <2>1, <3>1
  <2>2. CASE k > q /\ k - q \in 1..Len(kids) /\ Y[k].span = kids[k - q]
             /\ Y[k].mask = Append(X[q].mask, (k - q) # Len(kids))
    <3>1. PICK c \in 1..Len(kids) : c = k - q
      BY <2>2
    <3>2. k = q + c
      BY <1>1, <3>1
    <3>3. Y[k].span = kids[c] /\ Y[k].mask = Append(X[q].mask, c # Len(kids))
      BY <2>2, <3>1
    <3>4. QED
      BY <1>13, <3>2, <3>3
  <2>3. CASE k > q + Len(kids) /\ k - Len(kids) \in (q + 1)..Len(X) /\ k - Len(kids) \in 1..Len(X) /\ Y[k] = X[k - Len(kids)]
    <3>1. PICK i \in 1..Len(X) : i = k - Len(kids)
      BY <2>3
    <3>2. k = IF i <= q THEN i ELSE i + Len(kids)
      BY <1>1, <2>3, <3>1
    <3>3. QED
      BY <1>12, <2>3, <3>1, <3>2
  <2>4. QED
    BY <2>1, <2>2, <2>3, OpenedAt, SMTT(60)
<1>15. QED
  BY <1>14

\* X: what has been drawn and, after p items, what is left to draw.
Drawing(L, X, p) ==
  /\ X \in Seq(Items(L)) /\ Walked(L, OpenKids(L), SpansOf(X), p)
  /\ \A i \in 1..Len(X) : Passes(L, X, i)

\* rows are those of the items seen.
RowsOf(L, rows, seen) ==
  /\ seen \in Seq(Items(L)) /\ Len(rows) = Len(seen)
  /\ \A i \in 1..Len(seen) : rows[i] = RowOf(L, seen[i])

LEMMA DrawingStarts == ASSUME NEW L, Listed(L) PROVE Drawing(L, TopItems(L), 0)
<1>1. PICK roots : roots = ChildSpans(L, None)
  OBVIOUS
<1>2. PICK X : X = TopItems(L)
  OBVIOUS
<1>3. /\ roots \in Seq(Range(L)) /\ X \in Seq(Items(L)) /\ Len(X) = Len(roots)
      /\ \A i \in 1..Len(roots) : X[i].span = roots[i] /\ X[i].mask = <<>>
  BY <1>1, <1>2, TopItemsIs
<1>4. PICK C \in Seq(Range(L)) : C = SpansOf(X) /\ Len(C) = Len(X) /\ \A i \in 1..Len(X) : C[i] = X[i].span
  BY <1>3, SpansOfIs
<1>5. C = roots
  BY <1>3, <1>4
<1>6. Walked(L, OpenKids(L), C, 0)
  BY <1>1, <1>5, OpenKidsOf, RootsWalked
<1>7. ASSUME NEW i \in 1..Len(X) PROVE Passes(L, X, i)
  <2>1. roots[i] \in Range(roots) /\ X[i].span = roots[i] /\ X[i].mask = <<>>
    BY <1>3, RangeOf
  <2>2. roots[i] \in Range(L) /\ roots[i].parent = None
    BY <1>1, <2>1, ChildSpansIs
  <2>3. Way(L, X[i].span) = <<>>
    BY <2>1, <2>2, WayIs
  <2>4. Len(<<>>) = 0 /\ 1..0 = {}
    OBVIOUS
  <2>5. QED
    BY <2>1, <2>3, <2>4 DEF Passes
<1>8. QED
  BY <1>2, <1>3, <1>4, <1>6, <1>7 DEF Drawing

LEMMA DrawingGoesOn ==
  ASSUME NEW L, Listed(L), NEW X, NEW p, Drawing(L, X, p), NEW q, q = p + 1, q \in 1..Len(X),
         NEW Y \in Seq(Items(L)), Grown(X, q, Below(L, X[q]), Y)
  PROVE  Drawing(L, Y, q)
<1>1. X \in Seq(Items(L)) /\ Walked(L, OpenKids(L), SpansOf(X), p) /\ \A i \in 1..Len(X) : Passes(L, X, i)
  BY DEF Drawing
<1>2. PICK kids : kids = Children(L, X[q].span)
  OBVIOUS
<1>3. Opened(L, X, q, kids, Y)
  BY <1>1, <1>2, OpenedIs
<1>4. \A i \in 1..Len(Y) : Passes(L, Y, i)
  BY <1>1, <1>3, LinesGrow
<1>5. PICK C, D, K : C = SpansOf(X) /\ D = SpansOf(Y) /\ K = OpenKids(L)
  OBVIOUS
<1>6. Grown(C, q, K[C[q]], D) /\ D \in Seq(Range(L)) /\ Len(C) = Len(X)
  BY <1>1, <1>5, SpansGrow, SpansOfIs
<1>7. Walked(L, K, C, p) /\ KidsOf(L, K) /\ q \in 1..Len(C)
  BY <1>1, <1>5, <1>6, OpenKidsOf
<1>8. Walked(L, K, D, q)
  BY <1>6, <1>7, WalkOn
<1>9. QED
  BY <1>4, <1>5, <1>8 DEF Drawing

Showing(L, seen, d, n) ==
  /\ seen \in Seq(Items(L)) /\ d.todo \in Seq(Items(L)) /\ Drawing(L, seen \o d.todo, Len(seen))
  /\ RowsOf(L, d.rows, seen) /\ (Len(seen) = n \/ d.todo = <<>>)

LEMMA ShowingGoesOn ==
  ASSUME NEW L, Listed(L), NEW seen, NEW d \in Drawn(L), NEW n \in Nat, Showing(L, seen, d, n), d.todo # <<>>
  PROVE  Showing(L, Append(seen, Head(d.todo)), DrawRow(L, d), n + 1)
<1>1. seen \in Seq(Items(L)) /\ Drawing(L, seen \o d.todo, Len(seen)) /\ RowsOf(L, d.rows, seen) /\ Len(seen) = n
  BY DEF Showing
<1>2. PICK todo \in Seq(Items(L)) : todo = d.todo /\ todo # <<>>
  BY DEF Drawn
<1>3. PICK R : R = {RowOf(L, x) : x \in Items(L)}
  OBVIOUS
<1>4. PICK rows \in Seq(R) : rows = d.rows
  BY <1>3 DEF Drawn
<1>5. PICK x \in Items(L) : x = Head(todo)
  <2>1. Head(todo) \in Items(L)
    BY <1>2, Pushed
  <2>2. QED
    BY <2>1
<1>6. PICK next \in Seq(Items(L)) : next = Below(L, x)
  <2>1. Below(L, x) \in Seq(Items(L))
    BY BelowIs
  <2>2. QED
    BY <2>1
<1>7. PICK rest \in Seq(Items(L)) : rest = next \o Tail(todo)
  <2>1. next \o Tail(todo) \in Seq(Items(L))
    BY <1>2, Pushed
  <2>2. QED
    BY <2>1
<1>8. PICK X \in Seq(Items(L)) : X = seen \o todo
  <2>1. seen \o todo \in Seq(Items(L))
    BY <1>1, ConcatAt
  <2>2. QED
    BY <2>1
<1>9. PICK new \in Seq(Items(L)) : new = Append(seen, x)
  <2>1. Append(seen, x) \in Seq(Items(L))
    BY <1>1, AppendProperties
  <2>2. QED
    BY <2>1
<1>10. PICK Y \in Seq(Items(L)) : Y = new \o rest
  <2>1. new \o rest \in Seq(Items(L))
    BY ConcatAt
  <2>2. QED
    BY <2>1
<1>11. PICK q \in Nat : q = n + 1
  OBVIOUS
<1>12. Grown(X, q, next, Y)
  BY <1>1, <1>2, <1>5, <1>7, <1>8, <1>9, <1>10, <1>11, VisitGrows
<1>13. q \in 1..Len(X) /\ X[q] = x
  <2>1. 1 \in 1..Len(todo) /\ x = todo[1] /\ Len(todo) \in Nat
    BY <1>2, <1>5, Pushed
  <2>2. Len(X) = Len(seen) + Len(todo) /\ X[Len(seen) + 1] = todo[1]
    <3>1. PICK s \in Seq(Items(L)) : s = seen
      BY <1>1
    <3>2. Len(s \o todo) = Len(s) + Len(todo) /\ (s \o todo)[Len(s) + 1] = todo[1]
      BY <2>1, ConcatAt
    <3>3. QED
      BY <1>8, <3>1, <3>2
  <2>3. QED
    BY <1>1, <1>11, <2>1, <2>2
<1>14. Drawing(L, Y, q)
  <2>1. Drawing(L, X, n)
    BY <1>1, <1>2, <1>8
  <2>2. Grown(X, q, Below(L, X[q]), Y)
    BY <1>6, <1>12, <1>13
  <2>3. QED
    BY <1>11, <1>13, <2>1, <2>2, DrawingGoesOn
<1>15. /\ Len(new) = q /\ new[q] = x /\ \A i \in 1..n : new[i] = seen[i]
  BY <1>1, <1>9, <1>11, AppendProperties
<1>16. PICK row \in R : row = RowOf(L, x)
  BY <1>3
<1>17. PICK drawn \in Seq(R) : drawn = Append(rows, row)
  <2>1. Append(rows, row) \in Seq(R)
    BY AppendProperties
  <2>2. QED
    BY <2>1
<1>18. Len(rows) = n /\ \A i \in 1..n : rows[i] = RowOf(L, seen[i])
  BY <1>1, <1>4 DEF RowsOf
<1>19. Len(drawn) = q /\ drawn[q] = row /\ \A i \in 1..n : drawn[i] = rows[i]
  BY <1>11, <1>17, <1>18, AppendProperties
<1>20. RowsOf(L, drawn, new)
  <2>1. ASSUME NEW i \in 1..q PROVE drawn[i] = RowOf(L, new[i])
    <3>1. CASE i = q
      BY <1>15, <1>16, <1>19, <3>1
    <3>2. CASE i # q
      <4>1. i \in 1..n
        BY <1>11, <3>2
      <4>2. QED
        BY <1>15, <1>18, <1>19, <4>1
    <3>3. QED
      BY <3>1, <3>2
  <2>2. QED
    BY <1>15, <1>19, <2>1 DEF RowsOf
<1>21. DrawRow(L, d).rows = drawn /\ DrawRow(L, d).todo = rest
  BY <1>2, <1>4, <1>5, <1>6, <1>7, <1>16, <1>17, DrawRowIs
<1>22. Append(seen, Head(d.todo)) = new
  BY <1>2, <1>5, <1>9
<1>23. Drawing(L, new \o DrawRow(L, d).todo, Len(new))
  BY <1>10, <1>14, <1>15, <1>21
<1>24. Showing(L, new, DrawRow(L, d), n + 1)
  BY <1>11, <1>15, <1>20, <1>21, <1>23 DEF Showing
<1>25. QED
  BY <1>22, <1>24

\* The tree is drawn to its end.
Shows(L, rows, X) == Drawing(L, X, Len(X)) /\ RowsOf(L, rows, X)

LEMMA TreeShows ==
  ASSUME NEW L, Listed(L)
  PROVE  \E X : Shows(L, TransformSpansToTree(L), X)
<1>1. PICK drawn : DrawSteps(drawn, L)
  BY TreeDef
<1>2. PICK N \in Nat : N = Len(L)
  BY DEF Listed
<1>3. \A n \in 0..N : drawn[n] \in Drawn(L)
  BY <1>1, <1>2 DEF DrawSteps
<1> DEFINE P == {n \in 0..N : \E seen : Showing(L, seen, drawn[n], n)}
<1>4. 0 \in P
  <2>1. PICK top \in Seq(Items(L)) : top = TopItems(L)
    <3>1. TopItems(L) \in Seq(Items(L))
      BY TopItemsIs
    <3>2. QED
      BY <3>1
  <2>2. PICK none \in Seq(Items(L)) : none = <<>>
    <3>1. <<>> \in Seq(Items(L))
      OBVIOUS
    <3>2. QED
      BY <3>1
  <2>3. none \o top = top /\ Len(none) = 0
    BY <2>2, ConcatEmptySeq
  <2>4. Drawing(L, none \o top, Len(none))
    BY <2>1, <2>3, DrawingStarts
  <2>5. drawn[0].rows = none /\ drawn[0].todo = top
    BY <1>1, <2>1, <2>2 DEF DrawSteps
  <2>6. RowsOf(L, none, none)
    BY <2>3 DEF RowsOf
  <2>7. Showing(L, none, drawn[0], 0)
    BY <2>3, <2>4, <2>5, <2>6 DEF Showing
  <2>8. 0 \in 0..N
    OBVIOUS
  <2>9. QED
    BY <2>7, <2>8
<1>5. ASSUME NEW n \in 1..N, n - 1 \in P PROVE n \in P
  <2>1. n \in 0..N /\ n - 1 \in 0..N /\ n - 1 \in Nat /\ (n - 1) + 1 = n /\ n \in 1..Len(L)
    BY <1>2
  <2>2. PICK seen : Showing(L, seen, drawn[n - 1], n - 1)
    BY <1>5
  <2>3. PICK d \in Drawn(L) : d = drawn[n - 1]
    BY <1>3, <2>1
  <2>4. drawn[n] = IF d.todo = <<>> THEN d ELSE DrawRow(L, d)
    BY <1>1, <2>1, <2>3 DEF DrawSteps
  <2>5. CASE d.todo = <<>>
    <3>1. Showing(L, seen, d, n)
      BY <2>2, <2>3, <2>5 DEF Showing
    <3>2. QED
      BY <2>1, <2>4, <2>5, <3>1
  <2>6. CASE d.todo # <<>>
    <3>1. PICK m \in Nat : m = n - 1 /\ m + 1 = n
      BY <2>1
    <3>2. Showing(L, seen, d, m)
      BY <2>2, <2>3, <3>1
    <3>3. PICK new : new = Append(seen, Head(d.todo))
      OBVIOUS
    <3>4. Showing(L, new, DrawRow(L, d), m + 1)
      BY <2>6, <3>2, <3>3, ShowingGoesOn
    <3>5. Showing(L, new, drawn[n], n)
      BY <2>4, <2>6, <3>1, <3>4
    <3>6. QED
      BY <2>1, <3>5
  <2>7. QED
    BY <2>5, <2>6
<1>6. \A n \in 0..N : n \in P
  <2> HIDE DEF P
  <2>1. QED
    BY <1>4, <1>5, Counting
<1>7. PICK seen : Showing(L, seen, drawn[N], N)
  <2>1. N \in 0..N
    OBVIOUS
  <2>2. QED
    BY <1>6, <2>1
<1>8. PICK todo \in Seq(Items(L)) : todo = drawn[N].todo
  BY <1>7 DEF Showing
<1>9. seen \in Seq(Items(L)) /\ Drawing(L, seen \o todo, Len(seen)) /\ (Len(seen) = N \/ todo = <<>>)
  BY <1>7, <1>8 DEF Showing
<1>10. PICK X \in Seq(Items(L)) : X = seen \o todo /\ Len(X) = Len(seen) + Len(todo)
  <2>1. seen \in Seq(Items(L))
    BY <1>9
  <2>2. seen \o todo \in Seq(Items(L)) /\ Len(seen \o todo) = Len(seen) + Len(todo)
    BY <2>1, ConcatAt
  <2>3. QED
    BY <2>2
<1>11. todo = <<>>
  <2>1. PICK C \in Seq(Range(L)) : C = SpansOf(X) /\ Len(C) = Len(X)
    BY <1>10, SpansOfIs
  <2>2. NoDup(C)
    BY <1>9, <1>10, <2>1 DEF Drawing, Walked
  <2>3. Range(C) \subseteq Range(L) /\ L \in Seq(Range(L))
    BY RangeOf, ListedIs, SMTT(60)
  <2>4. Len(C) <= N
    BY <1>2, <2>2, <2>3, Fits
  <2>5. Len(seen) \in Nat /\ Len(todo) \in Nat
    BY <1>9
  <2>6. Len(todo) = 0 \/ todo = <<>>
    BY <1>9, <1>10, <2>1, <2>4, <2>5
  <2>7. QED
    BY <2>6
<1>12. X = seen
  BY <1>9, <1>10, <1>11, ConcatEmptySeq
<1>13. Shows(L, drawn[N].rows, X)
  BY <1>7, <1>9, <1>10, <1>12 DEF Shows, Showing
<1>14. QED
  BY <1>1, <1>2, <1>13 DEF DrawSteps

\* No ancestor is collapsed.
Open(S) == {t \in S : \A a \in Ancestors(S, t.id) : ~The(S, a).collapsed}

\* The rows of a tree and what they are for.
TreeRows(L, rows) ==
  /\ \A i, j \in DOMAIN rows : rows[i].id = rows[j].id => i = j
  /\ {rows[i].id : i \in DOMAIN rows} = {s.id : s \in Open(Range(L))}
  /\ \A i \in DOMAIN rows :
       /\ rows[i].depth = Cardinality(Ancestors(Range(L), rows[i].id))
       /\ The(Range(L), rows[i].id).parent # None =>
            \E j \in DOMAIN rows : j < i /\ rows[j].id = The(Range(L), rows[i].id).parent

LineIs(L, rows, i, d) ==
  rows[i].mask[d] <=>
    \E j \in DOMAIN rows :
      j > i /\ The(Range(L), rows[j].id).parent = Append(ParentIds(Range(L), rows[i].id), rows[i].id)[d]

TreeLines(L, rows) == \A i \in DOMAIN rows : \A d \in 1..rows[i].depth : LineIs(L, rows, i, d)

\* What the walk through the open children comes to.
LEMMA OpenWalk ==
  ASSUME NEW L, Listed(L), NEW C, Walked(L, OpenKids(L), C, Len(C))
  PROVE  Range(C) = Open(Range(L))
<1> DEFINE S == Range(L)
<1>1. PICK K : K = OpenKids(L)
  OBVIOUS
<1>2. C \in Seq(S) /\ Walked(L, K, C, Len(C)) /\ KidsOf(L, K) /\ Range(C) = {C[i] : i \in 1..Len(C)}
  BY <1>1, OpenKidsOf, RangeOf DEF Walked
<1>3. Forest(S) /\ \A s \in S : K[s] = Children(L, s)
  BY <1>1 DEF Listed, OpenKids
<1>4. ASSUME NEW i \in 1..Len(C) PROVE C[i] \in Open(S)
  <2>1. C[i] \in S
    BY <1>2
  <2>2. ASSUME NEW a \in Ancestors(S, C[i].id) PROVE ~The(S, a).collapsed
    <3>1. Visited(K, C, Len(C), i, a)
      BY <1>2, AncestorsWalked
    <3>2. PICK j \in 1..Len(C) : C[j].id = a /\ Range(K[C[j]]) # {}
      BY <3>1 DEF Visited
    <3>3. C[j] \in S
      BY <1>2
    <3>4. The(S, a) = C[j] /\ Range(Children(L, C[j])) # {}
      BY <1>3, <3>2, <3>3, TheOne
    <3>5. QED
      BY <3>3, <3>4, ChildrenIs
  <2>3. QED
    BY <2>1, <2>2 DEF Open
<1>5. Open(S) \subseteq Range(C)
  <2> DEFINE I == Ids(S)
             P == {id \in I : The(S, id) \in Open(S) => The(S, id) \in Range(C)}
  <2>1. I \in SUBSET Nat /\ None \notin I
    BY <1>3, AlgorithmsAssumption DEF Forest
  <2>2. ASSUME NEW id \in I, \A j \in I : j < id => j \in P PROVE id \in P
    <3>1. PICK s \in S : s = The(S, id) /\ s.id = id
      BY <1>3, ParentOf
    <3>2. SUFFICES ASSUME s \in Open(S) PROVE s \in Range(C)
      BY <3>1
    <3>3. CASE s.parent = None
      BY <1>2, <3>3 DEF Walked
    <3>4. CASE s.parent # None
      <4>1. s.parent \in I /\ s.parent < id
        BY <1>3, <3>1, <3>4 DEF Forest
      <4>2. PICK t \in S : t = The(S, s.parent) /\ t.id = s.parent
        BY <1>3, <4>1, ParentOf
      <4>3. Parent(S, id) = s.parent
        BY <1>3, <3>1, TheOne
      <4>4. Ancestors(S, id) = Ancestors(S, t.id) \cup {t.id}
        BY <1>3, <3>4, <4>2, <4>3, AncestorsDef
      <4>5. t \in Open(S) /\ ~t.collapsed
        BY <3>1, <3>2, <4>2, <4>4 DEF Open
      <4>6. t \in Range(C)
        BY <2>2, <4>1, <4>2, <4>5
      <4>7. PICK j \in 1..Len(C) : t = C[j]
        BY <1>2, <4>6
      <4>8. Range(K[t]) \subseteq Range(C)
        BY <1>2, <4>7 DEF Walked
      <4>9. s \in Range(K[t])
        <5>1. Range(Children(L, t)) = {u \in S : u.parent = t.id}
          BY <4>5, ChildrenIs
        <5>2. QED
          BY <1>3, <4>2, <5>1
      <4>10. QED
        BY <4>8, <4>9
    <3>5. QED
      BY <3>3, <3>4
  <2> HIDE DEF P
  <2>3. I \subseteq P
    BY <2>1, <2>2, Induction
  <2>4. ASSUME NEW s \in Open(S) PROVE s \in Range(C)
    <3>1. s \in S
      BY DEF Open
    <3>2. The(S, s.id) = s /\ s.id \in I
      BY <1>3, <3>1, TheOne
    <3>3. QED
      BY <2>3, <2>4, <3>2 DEF P
  <2>5. QED
    BY <2>4
<1>6. Range(C) \subseteq Open(S)
  BY <1>2, <1>4
<1>7. QED
  BY <1>5, <1>6

\* transformSpansToTree, for every list.
LEMMA TreeIs ==
  ASSUME NEW L, Listed(L)
  PROVE  TreeRows(L, TransformSpansToTree(L)) /\ TreeLines(L, TransformSpansToTree(L))
<1>1. PICK rows : rows = TransformSpansToTree(L)
  OBVIOUS
<1>2. PICK X : Shows(L, rows, X)
  BY <1>1, TreeShows
<1>3. PICK N \in Nat : N = Len(X) /\ X \in Seq(Items(L)) /\ Len(rows) = N
  <2>1. X \in Seq(Items(L)) /\ Len(rows) = Len(X)
    BY <1>2 DEF Shows, RowsOf
  <2>2. Len(X) \in Nat
    BY <2>1
  <2>3. QED
    BY <2>1, <2>2
<1>4. DOMAIN rows = 1..N
  <2>1. PICK drawn : DrawSteps(drawn, L)
    BY TreeDef
  <2>2. drawn[Len(L)] \in Drawn(L)
    BY <2>1 DEF DrawSteps, Listed
  <2>3. PICK R : R = {RowOf(L, x) : x \in Items(L)}
    OBVIOUS
  <2>4. rows \in Seq(R)
    BY <1>1, <2>1, <2>2, <2>3 DEF DrawSteps, Drawn
  <2>5. QED
    BY <1>3, <2>4
<1>5. PICK C : C = SpansOf(X)
  OBVIOUS
<1>6. C \in Seq(Range(L)) /\ Len(C) = N /\ \A i \in 1..N : C[i] = X[i].span
  BY <1>3, <1>5, SpansOfIs
<1>7. Walked(L, OpenKids(L), C, N) /\ \A i \in 1..N : Passes(L, X, i)
  BY <1>2, <1>3, <1>5 DEF Shows, Drawing
<1>8. Range(C) = Open(Range(L)) /\ Range(C) = {C[i] : i \in 1..N} /\ NoDup(C)
  <2>1. Range(C) = Open(Range(L))
    BY <1>6, <1>7, OpenWalk
  <2>2. Range(C) = {C[i] : i \in 1..N}
    BY <1>6, RangeOf
  <2>3. NoDup(C)
    BY <1>7 DEF Walked
  <2>4. QED
    BY <2>1, <2>2, <2>3
<1>9. Forest(Range(L))
  BY DEF Listed
<1>10. ASSUME NEW i \in 1..N
       PROVE  /\ rows[i].id = C[i].id /\ rows[i].mask = X[i].mask /\ C[i] \in Range(L)
              /\ The(Range(L), rows[i].id) = C[i]
  <2>1. rows[i] = RowOf(L, X[i])
    BY <1>2, <1>3 DEF Shows, RowsOf
  <2>2. rows[i].id = C[i].id /\ rows[i].mask = X[i].mask
    BY <1>6, <2>1 DEF RowOf
  <2>3. C[i] \in Range(L)
    BY <1>6
  <2>4. QED
    BY <1>9, <2>2, <2>3, TheOne
<1>11. ASSUME NEW i \in 1..N
       PROVE  rows[i].depth = Len(Way(L, C[i])) /\ rows[i].depth = Cardinality(Ancestors(Range(L), C[i].id))
  <2>1. rows[i] = RowOf(L, X[i])
    BY <1>2, <1>3 DEF Shows, RowsOf
  <2>2. rows[i].depth = Len(X[i].mask)
    BY <2>1 DEF RowOf
  <2>3. Len(X[i].mask) = Len(Way(L, C[i]))
    BY <1>6, <1>7 DEF Passes
  <2>4. C[i] \in Range(L) /\ C[i].id \in Ids(Range(L))
    BY <1>9, <1>10, TheOne
  <2>5. PICK way \in Seq(Ids(Range(L))) : way = Way(L, C[i]) /\ way = ParentIds(Range(L), C[i].id)
    BY <2>4, WayIs DEF Way
  <2>6. \A j, k \in DOMAIN way : way[j] = way[k] => j = k
    BY <1>9, <2>4, <2>5, Chain
  <2>7. NoDup(way)
    BY <2>6 DEF NoDup
  <2>8. Cardinality(Range(way)) = Len(way)
    BY <2>7, Members
  <2>9. Range(way) = Ancestors(Range(L), C[i].id)
    BY <2>4, <2>5, WayIs
  <2>10. QED
    BY <2>2, <2>3, <2>5, <2>8, <2>9
<1>12. TreeRows(L, rows)
  <2>1. ASSUME NEW i \in 1..N, NEW j \in 1..N, rows[i].id = rows[j].id PROVE i = j
    <3>1. C[i] = C[j]
      BY <1>10, <2>1
    <3>2. QED
      BY <1>6, <1>8, <3>1 DEF NoDup
  <2>2. {rows[i].id : i \in 1..N} = {s.id : s \in Open(Range(L))}
    <3>1. \A i \in 1..N : rows[i].id = C[i].id
      BY <1>10
    <3>2. QED
      BY <1>8, <3>1
  <2>3. ASSUME NEW i \in 1..N, C[i].parent # None PROVE \E j \in 1..N : j < i /\ rows[j].id = C[i].parent
    <3>1. PICK j \in 1..N : j < i /\ C[i] \in Range(OpenKids(L)[C[j]])
      BY <1>6, <1>7, <2>3 DEF Walked
    <3>2. C[i].parent = C[j].id
      BY <1>10, <3>1, OpenKidsOf DEF KidsOf
    <3>3. QED
      BY <1>10, <3>1, <3>2
  <2>4. ASSUME NEW i \in 1..N
        PROVE  /\ rows[i].depth = Cardinality(Ancestors(Range(L), rows[i].id))
               /\ The(Range(L), rows[i].id).parent # None =>
                    \E j \in 1..N : j < i /\ rows[j].id = The(Range(L), rows[i].id).parent
    BY <1>10, <1>11, <2>3
  <2>5. QED
    BY <1>4, <2>1, <2>2, <2>4 DEF TreeRows
<1>13. TreeLines(L, rows)
  <2>1. SUFFICES ASSUME NEW i \in 1..N, NEW d \in 1..rows[i].depth PROVE LineIs(L, rows, i, d)
    BY <1>4 DEF TreeLines
  <2>2. PICK way \in Seq(Ids(Range(L))) : way = Way(L, C[i]) /\ way = ParentIds(Range(L), rows[i].id)
    BY <1>10, WayIs DEF Way
  <2>3. d \in 1..Len(way) /\ rows[i].id \in Ids(Range(L))
    BY <1>10, <1>11, <2>2 DEF Ids
  <2>4. Append(way, rows[i].id)[d] = way[d]
    BY <2>3, AppendProperties
  <2>5. X[i].mask[d] <=> \E j \in (i + 1)..N : X[j].span.parent = way[d]
    <3>1. d \in 1..Len(X[i].mask) /\ Way(L, X[i].span) = way
      BY <1>6, <1>7, <2>2, <2>3, ZenonT(60) DEF Passes
    <3>2. QED
      BY <1>3, <1>7, <3>1 DEF Passes
  <2>6. \A j \in 1..N : The(Range(L), rows[j].id).parent = X[j].span.parent
    BY <1>6, <1>10
  <2>7. (\E j \in (i + 1)..N : X[j].span.parent = way[d])
          <=> \E j \in DOMAIN rows : j > i /\ The(Range(L), rows[j].id).parent = way[d]
    <3>1. \A j : j \in (i + 1)..N <=> j \in DOMAIN rows /\ j \in 1..N /\ j > i
      BY <1>4
    <3>2. QED
      BY <1>4, <2>6, <3>1
  <2>8. rows[i].mask = X[i].mask
    BY <1>10
  <2>9. QED
    BY <2>2, <2>4, <2>5, <2>7, <2>8 DEF LineIs
<1>14. QED
  BY <1>1, <1>12, <1>13

----------------------------------------------------------------------------
(* A selection.                                                             *)

LEMMA AncestorsUp ==
  ASSUME NEW S, Forest(S), NEW id \in Ids(S), NEW a \in Ancestors(S, id), Parent(S, a) # None
  PROVE  Parent(S, a) \in Ancestors(S, id)
<1> DEFINE P == {i \in Ids(S) : a \in Ancestors(S, i) => Parent(S, a) \in Ancestors(S, i)}
<1>1. Ids(S) \in SUBSET Nat
  BY DEF Forest
<1>2. ASSUME NEW i \in Ids(S), \A j \in Ids(S) : j < i => j \in P PROVE i \in P
  <2>1. SUFFICES ASSUME a \in Ancestors(S, i) PROVE Parent(S, a) \in Ancestors(S, i)
    OBVIOUS
  <2>2. PICK p : p = Parent(S, i)
    OBVIOUS
  <2>3. p # None /\ Ancestors(S, i) = Ancestors(S, p) \cup {p}
    BY <2>1, <2>2, AncestorsDef
  <2>4. p \in Ids(S) /\ p < i
    BY <2>2, <2>3, ParentOf
  <2>5. CASE a = p
    <3>1. Ancestors(S, p) = Ancestors(S, Parent(S, a)) \cup {Parent(S, a)}
      BY <2>4, <2>5, AncestorsDef
    <3>2. QED
      BY <2>3, <3>1
  <2>6. CASE a \in Ancestors(S, p)
    BY <1>2, <2>3, <2>4, <2>6
  <2>7. QED
    BY <2>1, <2>3, <2>5, <2>6
<1>3. Ids(S) \subseteq P
  <2> HIDE DEF P
  <2>1. QED
    BY <1>1, <1>2, Induction
<1>4. QED
  BY <1>3

\* One step up for everyone.
Risen(S, ids) == ids \cup {s.parent : s \in {t \in S : t.id \in ids /\ t.parent # None}}

Rises(up, S, ids) ==
  /\ up \in [0..Cardinality(S) -> SUBSET Ids(S)] /\ up[0] = ids /\ WithAncestors(S, ids) = up[Cardinality(S)]
  /\ \A n \in 1..Cardinality(S) : up[n] = Risen(S, up[n - 1])

LEMMA WithAncestorsDef ==
  ASSUME NEW S, Forest(S), IsFiniteSet(S), NEW ids \in SUBSET Ids(S)
  PROVE  \E up : Rises(up, S, ids)
<1> DEFINE N == Cardinality(S)
           D == SUBSET Ids(S)
           Def(f) == [n \in 0..N |-> IF n = 0 THEN ids ELSE LET below == f[n - 1] IN Risen(S, below)]
           up == CHOOSE f : f = Def(f)
           step == [n \in 1..N |-> [w \in D |-> Risen(S, w)]]
<1>1. WithAncestors(S, ids) = up[N]
  BY DEF WithAncestors, Risen
<1>2. N \in Nat /\ ids \in D
  BY FS_CardinalityType
<1> HIDE DEF N
<1>3. step \in [1..N -> [D -> D]]
  <2>1. ASSUME NEW w \in D PROVE Risen(S, w) \in D
    BY DEF Risen, Forest
  <2>2. QED
    BY <2>1
<1>4. \A n \in 1..N, w \in D : step[n][w] = Risen(S, w)
  OBVIOUS
<1> HIDE DEF step, D
<1>5. Ladder(N, D, ids, step)
  BY <1>2, <1>3 DEF Ladder
<1>6. PICK f \in [0..N -> D] : f[0] = ids /\ \A n \in 1..N : f[n] = step[n][f[n - 1]]
  BY <1>5, Steps
<1>7. \A n \in 0..N : n # 0 => n \in 1..N /\ n - 1 \in 0..N
  BY <1>2
<1>8. ASSUME NEW n \in 0..N PROVE f[n] = IF n = 0 THEN ids ELSE LET below == f[n - 1] IN Risen(S, below)
  BY <1>4, <1>6, <1>7
<1>9. f = Def(f)
  BY <1>8
<1> HIDE DEF Def
<1>10. up = Def(up)
  BY <1>9
<1> HIDE DEF up
<1>11. PICK g : g = up /\ g = Def(g)
  BY <1>10
<1> USE DEF Def
<1>12. g[0] = ids /\ \A n \in 1..N : g[n] = Risen(S, g[n - 1])
  <2>1. \A n \in 1..N : n \in 0..N /\ n # 0
    BY <1>2
  <2>2. 0 \in 0..N
    BY <1>2
  <2>3. QED
    BY <1>11, <2>1, <2>2
<1>13. g = [n \in 0..N |-> g[n]]
  BY <1>11
<1> HIDE DEF Def
<1>14. \A n \in 1..N : g[n - 1] \in D => g[n] = step[n][g[n - 1]]
  BY <1>4, <1>12
<1>15. Climbs(g, N, D, ids, step)
  BY <1>5, <1>12, <1>13, <1>14 DEF Climbs
<1>16. g \in [0..N -> D]
  BY <1>15, Climbing
<1>17. QED
  BY <1>1, <1>11, <1>12, <1>16 DEF N, D, Rises

ClosedUp(S, ids) == \A t \in S : t.id \in ids /\ t.parent # None => t.parent \in ids

\* computeVisibleSpanIds: the selected spans and what is above them, to the root.
LEMMA WithAncestorsIs ==
  ASSUME NEW S, Forest(S), IsFiniteSet(S), NEW ids \in SUBSET Ids(S), NEW visible, visible = WithAncestors(S, ids)
  PROVE  /\ visible \in SUBSET Ids(S) /\ ids \subseteq visible /\ ClosedUp(S, visible)
         /\ \A x \in visible : x \in ids \/ \E id \in ids : x \in Ancestors(S, id)
<1>1. PICK up : Rises(up, S, ids)
  BY WithAncestorsDef
<1>2. PICK N \in Nat : N = Cardinality(S)
  BY FS_CardinalityType
<1>3. /\ up \in [0..N -> SUBSET Ids(S)] /\ up[0] = ids /\ visible = up[N]
      /\ \A n \in 1..N : up[n] = Risen(S, up[n - 1])
  BY <1>1, <1>2 DEF Rises
<1>4. IsFiniteSet(Ids(S)) /\ Cardinality(Ids(S)) <= N /\ Cardinality(Ids(S)) \in Nat
  <2> DEFINE g == [s \in S |-> s.id]
  <2>1. g \in Surjection(S, Ids(S))
    BY DEF Surjection, Ids
  <2>2. QED
    BY <1>2, <2>1, FS_Surjection, FS_CardinalityType
<1> DEFINE Due(x) == x \in ids \/ \E id \in ids : x \in Ancestors(S, id)
           Far(n) == /\ ids \subseteq up[n] /\ \A x \in up[n] : Due(x)
                     /\ ClosedUp(S, up[n]) \/ n <= Cardinality(up[n])
           P == {n \in 0..N : Far(n)}
<1>5. \A n \in 0..N : up[n] \in SUBSET Ids(S) /\ IsFiniteSet(up[n]) /\ Cardinality(up[n]) \in Nat
  <2>1. \A n \in 0..N : up[n] \in SUBSET Ids(S)
    BY <1>3
  <2>2. QED
    BY <1>4, <2>1, FS_Subset, FS_CardinalityType
<1>6. 0 \in P
  <2>1. 0 \in 0..N
    OBVIOUS
  <2>2. 0 <= Cardinality(up[0])
    BY <1>5, <2>1
  <2>3. QED
    BY <1>3, <2>1, <2>2
<1>7. ASSUME NEW n \in 1..N, n - 1 \in P PROVE n \in P
  <2>1. n \in 0..N /\ n - 1 \in 0..N
    OBVIOUS
  <2>2. PICK A \in SUBSET Ids(S) : A = up[n - 1]
    BY <1>5, <2>1
  <2>3. PICK B \in SUBSET Ids(S) : B = up[n]
    BY <1>5, <2>1
  <2>4. B = Risen(S, A)
    BY <1>3, <2>2, <2>3
  <2>5. ids \subseteq A /\ (\A x \in A : Due(x)) /\ (ClosedUp(S, A) \/ n - 1 <= Cardinality(A))
    BY <1>7, <2>2
  <2>6. A \subseteq B
    BY <2>4 DEF Risen
  <2>7. ASSUME NEW x \in B PROVE Due(x)
    <3>1. CASE x \in A
      BY <2>5, <3>1
    <3>2. CASE x \notin A
      <4>1. PICK t \in S : t.id \in A /\ t.parent # None /\ x = t.parent
        BY <2>4, <3>2 DEF Risen
      <4>2. Parent(S, t.id) = x /\ t.id \in Ids(S)
        BY <4>1, TheOne
      <4>3. CASE t.id \in ids
        <5>1. Ancestors(S, t.id) = Ancestors(S, x) \cup {x}
          BY <4>1, <4>2, AncestorsDef
        <5>2. QED
          BY <4>3, <5>1
      <4>4. CASE t.id \notin ids
        <5>1. PICK id \in ids : t.id \in Ancestors(S, id)
          BY <2>5, <4>1, <4>4
        <5>2. x \in Ancestors(S, id)
          BY <4>1, <4>2, <5>1, AncestorsUp
        <5>3. QED
          BY <5>2
      <4>5. QED
        BY <4>3, <4>4
    <3>3. QED
      BY <3>1, <3>2
  <2>8. ClosedUp(S, B) \/ n <= Cardinality(B)
    <3>1. CASE ClosedUp(S, A)
      <4>1. B = A
        BY <2>4, <3>1 DEF Risen, ClosedUp
      <4>2. QED
        BY <3>1, <4>1
    <3>2. CASE ~ClosedUp(S, A)
      <4>1. PICK t \in S : t.id \in A /\ t.parent # None /\ t.parent \notin A
        BY <3>2 DEF ClosedUp
      <4>2. IsFiniteSet(A) /\ IsFiniteSet(B) /\ Cardinality(A) \in Nat /\ Cardinality(B) \in Nat
        BY <1>5, <2>1, <2>2, <2>3
      <4>3. A # B /\ A \in SUBSET B
        BY <2>4, <2>6, <4>1 DEF Risen
      <4>4. Cardinality(A) < Cardinality(B)
        <5>1. Cardinality(A) <= Cardinality(B) /\ Cardinality(B) # Cardinality(A)
          BY <4>2, <4>3, FS_Subset
        <5>2. QED
          BY <4>2, <5>1
      <4>5. n - 1 <= Cardinality(A)
        BY <2>5, <3>2
      <4>6. QED
        BY <4>2, <4>4, <4>5
    <3>3. QED
      BY <3>1, <3>2
  <2>9. ids \subseteq B
    BY <2>5, <2>6
  <2> HIDE DEF Due
  <2>10. QED
    BY <2>1, <2>3, <2>7, <2>8, <2>9
<1>8. \A n \in 0..N : n \in P
  <2> HIDE DEF P
  <2>1. QED
    BY <1>6, <1>7, Counting
<1>9. Far(N) /\ N \in 0..N
  <2>1. N \in 0..N
    OBVIOUS
  <2> HIDE DEF Far
  <2>2. QED
    BY <1>8, <2>1
<1>10. ClosedUp(S, visible)
  <2>1. CASE ClosedUp(S, up[N])
    BY <1>3, <2>1
  <2>2. CASE N <= Cardinality(up[N])
    <3>1. up[N] \in SUBSET Ids(S) /\ Cardinality(up[N]) <= Cardinality(Ids(S)) /\ Cardinality(up[N]) \in Nat
      BY <1>4, <1>5, <1>9, FS_Subset
    <3>2. Cardinality(Ids(S)) = Cardinality(up[N])
      BY <1>4, <2>2, <3>1
    <3>3. Ids(S) = up[N]
      BY <1>4, <3>1, <3>2, FS_Subset
    <3>4. QED
      BY <1>3, <3>3 DEF ClosedUp, Forest
  <2>3. QED
    BY <1>9, <2>1, <2>2
<1>11. QED
  BY <1>3, <1>5, <1>9, <1>10

\* The part of a tree that is shown is a tree.
LEMMA VisibleListed ==
  ASSUME NEW L, Listed(L), NEW ids \in SUBSET Ids(Range(L)), ClosedUp(Range(L), ids),
         NEW T, T = {s \in Range(L) : s.id \in ids}, NEW M, M = Sublist(L, T)
  PROVE  Listed(M) /\ Range(M) = T /\ Ids(T) = ids
<1>1. PICK S : S = Range(L) /\ Forest(S) /\ S \subseteq SpanRecord
  BY ListedIs DEF Listed
<1>2. M \in Seq(S) /\ NoDup(M) /\ Range(M) = T
  <2>1. L \in Seq(S) /\ NoDup(L)
    BY <1>1, ListedIs
  <2>2. Sublist(L, T) \in Seq(S) /\ NoDup(Sublist(L, T)) /\ Range(Sublist(L, T)) = Range(L) \cap T
    BY <2>1, SublistIs
  <2>3. QED
    BY <1>1, <2>2
<1>3. Ids(T) = ids
  BY <1>1 DEF Ids
<1>4. Forest(T)
  BY <1>1, <1>3 DEF Forest, ClosedUp
<1>5. M \in Seq(SpanRecord)
  BY <1>1, <1>2
<1>6. ASSUME NEW i \in 1..Len(M), NEW j \in 1..Len(M), M[i].id = M[j].id PROVE i = j
  <2>1. M[i] \in S /\ M[j] \in S
    BY <1>2
  <2>2. M[i] = M[j]
    BY <1>1, <1>6, <2>1 DEF Forest
  <2>3. QED
    BY <1>2, <2>2 DEF NoDup
<1>7. QED
  BY <1>2, <1>3, <1>4, <1>5, <1>6 DEF Listed

\* What is above a span that is shown is as it was.
LEMMA VisibleAncestors ==
  ASSUME NEW S, Forest(S), NEW T, Forest(T), T \subseteq S, NEW ids \in SUBSET Ids(S), Ids(T) = ids
  PROVE  \A id \in ids : The(T, id) = The(S, id) /\ Ancestors(T, id) = Ancestors(S, id)
                         /\ Ancestors(S, id) \subseteq ids
<1> DEFINE P == {i \in ids : Ancestors(T, i) = Ancestors(S, i) /\ Ancestors(S, i) \subseteq ids}
<1>1. ids \in SUBSET Nat
  BY DEF Forest
<1>2. ASSUME NEW i \in ids PROVE The(T, i) = The(S, i) /\ Parent(T, i) = Parent(S, i)
  <2>1. PICK s \in T : s.id = i
    BY DEF Ids
  <2>2. s \in S
    BY <2>1
  <2>3. The(T, i) = The(S, i)
    BY <2>1, <2>2, TheOne
  <2>4. QED
    BY <2>3 DEF Parent
<1>3. ASSUME NEW i \in ids, \A j \in ids : j < i => j \in P PROVE i \in P
  <2>1. PICK p : p = Parent(S, i) /\ p = Parent(T, i)
    BY <1>2
  <2>2. CASE p = None
    <3>1. Ancestors(T, i) = {} /\ Ancestors(S, i) = {}
      BY <2>1, <2>2, AncestorsDef
    <3>2. QED
      BY <3>1
  <2>3. CASE p # None
    <3>1. Ancestors(T, i) = Ancestors(T, p) \cup {p}
      <4>1. i \in Ids(T) /\ p = Parent(T, i)
        BY <2>1
      <4>2. QED
        BY <2>3, <4>1, AncestorsDef
    <3>2. Ancestors(S, i) = Ancestors(S, p) \cup {p}
      <4>1. i \in Ids(S) /\ p = Parent(S, i)
        BY <2>1
      <4>2. QED
        BY <2>3, <4>1, AncestorsDef
    <3>3. p \in ids /\ p < i
      BY <2>1, <2>3, ParentOf
    <3>4. Ancestors(T, p) = Ancestors(S, p) /\ Ancestors(S, p) \subseteq ids
      BY <1>3, <3>3
    <3>5. PICK A : A = Ancestors(S, p) /\ A = Ancestors(T, p)
      BY <3>4
    <3>6. Ancestors(T, i) = Ancestors(S, i) /\ Ancestors(S, i) \subseteq ids
      BY <3>1, <3>2, <3>3, <3>4, <3>5
    <3>7. QED
      BY <3>6
  <2>4. QED
    BY <2>2, <2>3
<1>4. ids \subseteq P
  <2> HIDE DEF P
  <2>1. QED
    BY <1>1, <1>3, Induction
<1>5. QED
  BY <1>2, <1>4

\* The rows of a tree, with their depths.
Places(rows) == {<<rows[i].id, rows[i].depth>> : i \in DOMAIN rows}

LEMMA PlacesAre ==
  ASSUME NEW L, Listed(L)
  PROVE  Places(TransformSpansToTree(L)) = {<<s.id, Cardinality(Ancestors(Range(L), s.id))>> : s \in Open(Range(L))}
<1>1. PICK rows : rows = TransformSpansToTree(L)
  OBVIOUS
<1>2. TreeRows(L, rows)
  BY <1>1, TreeIs
<1>3. PICK Depth : Depth = [id \in {rows[i].id : i \in DOMAIN rows} |-> Cardinality(Ancestors(Range(L), id))]
  OBVIOUS
<1>4. Places(rows) = {<<id, Depth[id]>> : id \in {rows[i].id : i \in DOMAIN rows}}
  BY <1>2, <1>3 DEF Places, TreeRows
<1>5. {rows[i].id : i \in DOMAIN rows} = {s.id : s \in Open(Range(L))}
  BY <1>2 DEF TreeRows
<1>6. \A s \in Open(Range(L)) : Depth[s.id] = Cardinality(Ancestors(Range(L), s.id))
  BY <1>3, <1>5
<1>7. QED
  BY <1>1, <1>4, <1>5, <1>6

\* A selection neither moves nor opens a row.
LEMMA SelectionPlaces ==
  ASSUME NEW L, Listed(L), NEW visible \in SUBSET Ids(Range(L)), ClosedUp(Range(L), visible)
  PROVE  Places(GetTreeSpans(L, visible)) =
           {p \in Places(TransformSpansToTree(L)) : visible = {} \/ p[1] \in visible}
<1>1. CASE visible = {}
  BY <1>1 DEF GetTreeSpans
<1>2. CASE visible # {}
  <2>1. PICK S : S = Range(L) /\ Forest(S)
    BY DEF Listed
  <2>2. PICK T : T = {s \in S : s.id \in visible}
    OBVIOUS
  <2>3. PICK M : M = Sublist(L, T)
    OBVIOUS
  <2>4. Listed(M) /\ Range(M) = T /\ Ids(T) = visible
    BY <2>1, <2>2, <2>3, VisibleListed
  <2>5. Forest(T)
    BY <2>4 DEF Listed
  <2>6. T \subseteq S /\ visible \in SUBSET Ids(S)
    BY <2>1, <2>2
  <2>7. \A id \in visible : The(T, id) = The(S, id) /\ Ancestors(T, id) = Ancestors(S, id)
                            /\ Ancestors(S, id) \subseteq visible
    BY <2>1, <2>4, <2>5, <2>6, VisibleAncestors
  <2>8. Open(T) = {s \in Open(S) : s.id \in visible}
    BY <2>2, <2>7 DEF Open
  <2>9. \A s \in Open(T) : s.id \in visible
    BY <2>8
  <2>10. Places(TransformSpansToTree(M)) = {<<s.id, Cardinality(Ancestors(T, s.id))>> : s \in Open(T)}
    BY <2>4, PlacesAre
  <2>11. Places(TransformSpansToTree(L)) = {<<s.id, Cardinality(Ancestors(S, s.id))>> : s \in Open(S)}
    BY <2>1, PlacesAre
  <2>12. PICK D : D = [s \in Open(S) |-> Cardinality(Ancestors(S, s.id))]
    OBVIOUS
  <2>13. Places(TransformSpansToTree(M)) = {<<s.id, D[s]>> : s \in Open(T)}
    BY <2>7, <2>8, <2>9, <2>10, <2>12
  <2>14. Places(TransformSpansToTree(L)) = {<<s.id, D[s]>> : s \in Open(S)}
    BY <2>11, <2>12
  <2>15. GetTreeSpans(L, visible) = TransformSpansToTree(M)
    BY <1>2, <2>1, <2>2, <2>3 DEF GetTreeSpans
  <2>16. QED
    BY <1>2, <2>8, <2>13, <2>14, <2>15
<1>3. QED
  BY <1>1, <1>2

\* transformSpansToTree: whatever the list and whatever is collapsed, it shows
\* each span that has no collapsed ancestor once, after its parent, at the depth
\* of its ancestors, and with the lines of those that have more children below;
\* and getTreeSpans keeps of a selection the rows it and the way to it had there.
THEOREM TreeIsShown == Spec => []TreeShown
<1>1. ListInv => TreeShown
  <2> SUFFICES ASSUME ListInv PROVE TreeComplete /\ BranchLines /\ SelectionShown
    BY DEF TreeShown
  <2>1. PICK L : L = list
    OBVIOUS
  <2>2. PICK S : S = Range(L) /\ S = All
    BY <2>1 DEF All
  <2>3. Listed(L) /\ Forest(S) /\ IsFiniteSet(S)
    <3>1. Listed(L)
      BY <2>1 DEF ListInv
    <3>2. IsFiniteSet(Range(L))
      BY <3>1, Members DEF Listed
    <3>3. QED
      BY <2>2, <3>1, <3>2 DEF Listed
  <2>4. PICK rows : rows = TransformSpansToTree(L)
    OBVIOUS
  <2>5. TreeRows(L, rows) /\ TreeLines(L, rows)
    BY <2>3, <2>4, TreeIs
  <2>6. TreeComplete
    <3> DEFINE at(id) == CHOOSE i \in DOMAIN rows : rows[i].id = id
               ids == [i \in DOMAIN rows |-> rows[i].id]
    <3>1. IsInjective(ids)
      BY <2>5 DEF TreeRows, IsInjective
    <3>2. {rows[i].id : i \in DOMAIN rows} = {s.id : s \in {t \in S : \A a \in Ancestors(S, t.id) : ~The(S, a).collapsed}}
      BY <2>2, <2>5 DEF TreeRows, Open
    <3>3. ASSUME NEW i \in DOMAIN rows
          PROVE  /\ rows[i].depth = Cardinality(Ancestors(S, rows[i].id))
                 /\ The(S, rows[i].id).parent # None => at(The(S, rows[i].id).parent) < i
      <4>1. rows[i].depth = Cardinality(Ancestors(S, rows[i].id))
        BY <2>2, <2>5 DEF TreeRows
      <4>2. ASSUME The(S, rows[i].id).parent # None PROVE at(The(S, rows[i].id).parent) < i
        <5>1. PICK p : p = The(S, rows[i].id).parent
          OBVIOUS
        <5>2. PICK j \in DOMAIN rows : j < i /\ rows[j].id = p
          BY <2>2, <2>5, <4>2, <5>1 DEF TreeRows
        <5>3. at(p) \in DOMAIN rows /\ rows[at(p)].id = p
          BY <5>2
        <5>4. at(p) = j
          <6> HIDE DEF at
          <6>1. QED
            BY <2>5, <5>2, <5>3 DEF TreeRows
        <5>5. QED
          BY <5>1, <5>2, <5>4
      <4>3. QED
        BY <4>1, <4>2
    <3>4. QED
      BY <2>1, <2>2, <2>4, <3>1, <3>2, <3>3, ZenonT(60) DEF TreeComplete
  <2>7. BranchLines
    <3>1. TreeLines(list, TransformSpansToTree(list))
      BY <2>1, <2>4, <2>5
    <3>2. QED
      BY <3>1 DEF TreeLines, LineIs, BranchLines, All
  <2>8. SelectionShown
    <3>1. SUFFICES ASSUME NEW selection \in SUBSET Ids(All)
                   PROVE  LET visible == WithAncestors(All, selection)
                          IN /\ Places(GetTreeSpans(list, visible)) =
                                  {p \in Places(TransformSpansToTree(list)) : visible = {} \/ p[1] \in visible}
                             /\ \A id \in visible \ selection : \E s \in selection : id \in Ancestors(All, s)
      BY Zenon DEF SelectionShown, Places
    <3>2. PICK visible : visible = WithAncestors(All, selection)
      OBVIOUS
    <3>3. /\ visible \in SUBSET Ids(S) /\ ClosedUp(S, visible)
          /\ \A x \in visible : x \in selection \/ \E id \in selection : x \in Ancestors(S, id)
      BY <2>2, <2>3, <3>2, WithAncestorsIs
    <3>4. Places(GetTreeSpans(L, visible)) =
            {p \in Places(TransformSpansToTree(L)) : visible = {} \/ p[1] \in visible}
      <4>1. Listed(L) /\ visible \in SUBSET Ids(Range(L)) /\ ClosedUp(Range(L), visible)
        BY <2>2, <2>3, <3>3
      <4>2. QED
        BY <4>1, SelectionPlaces
    <3>5. QED
      BY <2>1, <2>2, <3>2, <3>3, <3>4
  <2>9. QED
    BY <2>6, <2>7, <2>8
<1>2. QED
  BY <1>1, ListsAreTrees, PTL


----------------------------------------------------------------------------
(* Lists of lists.                                                          *)

\* FlattenSeq, one list after the other.
FlatSteps(f, T, seqs) ==
  /\ f \in [0..Len(seqs) -> Seq(T)] /\ f[0] = <<>> /\ FlattenSeq(seqs) = f[Len(seqs)]
  /\ \A n \in 1..Len(seqs) : f[n] = f[n - 1] \o seqs[n]

LEMMA FlattenDef ==
  ASSUME NEW T, NEW seqs \in Seq(Seq(T))
  PROVE  \E f : FlatSteps(f, T, seqs)
<1> DEFINE N == Len(seqs)
           D == Seq(T)
           Def(f) == [n \in 1..N |-> IF n = 1 THEN seqs[n] ELSE f[n - 1] \o seqs[n]]
           g == CHOOSE f : f = Def(f)
           step == [n \in 1..N |-> [q \in D |-> q \o seqs[n]]]
<1>1. FlattenSeq(seqs) = IF N = 0 THEN seqs ELSE g[N]
  BY DEF FlattenSeq
<1>2. N \in Nat /\ <<>> \in D /\ \A n \in 1..N : seqs[n] \in D
  OBVIOUS
<1>3. \A n \in 1..N : <<>> \o seqs[n] = seqs[n]
  BY <1>2, ConcatEmptySeq
<1>4. step \in [1..N -> [D -> D]]
  <2>1. ASSUME NEW n \in 1..N, NEW q \in D PROVE q \o seqs[n] \in D
    BY <1>2, ConcatProperties
  <2>2. QED
    BY <2>1
<1> HIDE DEF N, D
<1>5. \A n \in 1..N, q \in D : step[n][q] = q \o seqs[n]
  OBVIOUS
<1> HIDE DEF step
<1>6. Ladder(N, D, <<>>, step)
  BY <1>2, <1>4 DEF Ladder
<1>7. PICK f \in [0..N -> D] : f[0] = <<>> /\ \A n \in 1..N : f[n] = step[n][f[n - 1]]
  BY <1>6, Steps
<1>8. \A n \in 1..N : n - 1 \in 0..N /\ (n # 1 => n - 1 \in 1..N) /\ n \in 0..N /\ n # 0
  BY <1>2
<1>9. \A n \in 1..N : f[n] = f[n - 1] \o seqs[n]
  BY <1>5, <1>7, <1>8
<1>10. PICK k \in [1..N -> D] : \A n \in 1..N : k[n] = f[n]
  <2>1. [n \in 1..N |-> f[n]] \in [1..N -> D]
    BY <1>7, <1>8
  <2>2. QED
    BY <2>1
<1>11. ASSUME NEW n \in 1..N PROVE k[n] = IF n = 1 THEN seqs[n] ELSE k[n - 1] \o seqs[n]
  <2>1. CASE n = 1
    <3>1. n - 1 = 0
      BY <2>1
    <3>2. f[n] = <<>> \o seqs[n]
      BY <1>7, <1>9, <3>1
    <3>3. QED
      BY <1>3, <1>10, <2>1, <3>2
  <2>2. CASE n # 1
    BY <1>8, <1>9, <1>10, <2>2
  <2>3. QED
    BY <2>1, <2>2
<1>12. k = Def(k)
  BY <1>10, <1>11
<1> HIDE DEF Def
<1>13. g = Def(g)
  BY <1>12
<1> HIDE DEF g
<1>14. PICK h : h = g /\ h = Def(h)
  BY <1>13
<1> USE DEF Def
<1>15. \A n \in 1..N : h[n] = IF n = 1 THEN seqs[n] ELSE h[n - 1] \o seqs[n]
  BY <1>14
<1> HIDE DEF Def
<1> DEFINE m == [n \in 0..N |-> IF n = 0 THEN <<>> ELSE h[n]]
<1>16. m[0] = <<>> /\ \A n \in 1..N : m[n] = h[n]
  BY <1>2, <1>8
<1>17. m = [n \in 0..N |-> m[n]]
  OBVIOUS
<1> HIDE DEF m
<1>18. ASSUME NEW n \in 1..N PROVE m[n] = m[n - 1] \o seqs[n]
  <2>1. CASE n = 1
    <3>1. n - 1 = 0
      BY <2>1
    <3>2. m[n] = seqs[n] /\ m[n - 1] = <<>>
      BY <1>15, <1>16, <2>1, <3>1
    <3>3. QED
      BY <1>3, <3>2
  <2>2. CASE n # 1
    <3>1. n - 1 \in 1..N
      BY <1>8, <2>2
    <3>2. m[n] = h[n] /\ m[n - 1] = h[n - 1] /\ h[n] = h[n - 1] \o seqs[n]
      BY <1>15, <1>16, <2>2, <3>1
    <3>3. QED
      BY <3>2
  <2>3. QED
    BY <2>1, <2>2
<1>19. \A n \in 1..N : m[n - 1] \in D => m[n] = step[n][m[n - 1]]
  BY <1>5, <1>18
<1>20. Climbs(m, N, D, <<>>, step)
  BY <1>6, <1>16, <1>17, <1>19 DEF Climbs
<1>21. m \in [0..N -> D]
  BY <1>20, Climbing
<1>22. FlattenSeq(seqs) = m[N]
  <2>1. CASE N = 0
    <3>1. seqs = <<>>
      BY <2>1, EmptySeq DEF N
    <3>2. QED
      BY <1>1, <1>16, <2>1, <3>1
  <2>2. CASE N # 0
    <3>1. N \in 1..N
      BY <1>2, <2>2
    <3>2. QED
      BY <1>1, <1>14, <1>16, <2>2, <3>1
  <2>3. QED
    BY <2>1, <2>2
<1>23. QED
  BY <1>16, <1>18, <1>21, <1>22 DEF N, D, FlatSteps

----------------------------------------------------------------------------
(* Breadcrumbs.                                                             *)

\* groupIntoSections: lists of spans, none of them empty.
LEMMA SectionsTyped ==
  ASSUME NEW T, NEW L \in Seq(T)
  PROVE  GroupIntoSections(L) \in Seq(Seq(T) \ {<<>>})
<1> DEFINE N == Len(L)
           D == Seq(Seq(T) \ {<<>>})
           b == <<>>
           next(n, q) == IF q = <<>> \/ L[n].type = "LLM" THEN Append(q, <<L[n]>>)
                         ELSE [q EXCEPT ![Len(q)] = Append(@, L[n])]
           Def(f) == [n \in 0..N |-> IF n = 0 THEN b ELSE next(n, f[n - 1])]
           g == CHOOSE f : f = Def(f)
           step == [n \in 1..N |-> [q \in D |-> next(n, q)]]
<1>1. GroupIntoSections(L) = g[N]
  BY DEF GroupIntoSections
<1>2. N \in Nat /\ b \in D /\ \A n \in 1..N : L[n] \in T
  OBVIOUS
<1> HIDE DEF N, D
<1>3. step \in [1..N -> [D -> D]]
  <2>1. ASSUME NEW n \in 1..N, NEW q \in D PROVE next(n, q) \in D
    <3>1. L[n] \in T /\ <<L[n]>> \in Seq(T) \ {<<>>}
      BY <1>2
    <3>2. PICK NE : NE = Seq(T) \ {<<>>}
      OBVIOUS
    <3>3. q \in Seq(NE) /\ <<L[n]>> \in NE
      BY <3>1, <3>2 DEF D
    <3>4. Append(q, <<L[n]>>) \in Seq(NE)
      BY <3>3, AppendProperties
    <3>5. ASSUME q # <<>> PROVE [q EXCEPT ![Len(q)] = Append(@, L[n])] \in Seq(NE)
      <4>1. Len(q) \in 1..Len(q)
        BY <3>3, <3>5
      <4>2. PICK x \in NE : x = q[Len(q)]
        BY <3>3, <4>1
      <4>3. x \in Seq(T)
        BY <3>2
      <4>4. Append(x, L[n]) \in Seq(T) /\ Len(Append(x, L[n])) = Len(x) + 1 /\ Len(x) \in Nat
        BY <3>1, <4>3, AppendProperties
      <4>5. Append(x, L[n]) # <<>>
        <5>1. PICK z \in Seq(T) : z = Append(x, L[n])
          BY <4>4
        <5>2. z = <<>> => Len(z) = 0
          OBVIOUS
        <5>3. Len(z) # 0
          BY <4>4, <5>1
        <5>4. QED
          BY <5>1, <5>2, <5>3
      <4>6. PICK y \in NE : y = Append(x, L[n])
        BY <3>2, <4>4, <4>5
      <4>7. [q EXCEPT ![Len(q)] = y] \in Seq(NE)
        BY <3>3, <4>1, ExceptSeq
      <4>8. [q EXCEPT ![Len(q)] = Append(@, L[n])] = [q EXCEPT ![Len(q)] = y]
        BY <4>2, <4>6
      <4>9. QED
        BY <4>7, <4>8
    <3>6. QED
      BY <3>2, <3>4, <3>5 DEF D
  <2>2. QED
    BY <2>1
<1>4. \A n \in 1..N, q \in D : step[n][q] = next(n, q)
  OBVIOUS
<1> HIDE DEF step, b
<1>5. Ladder(N, D, b, step)
  BY <1>2, <1>3 DEF Ladder
<1>6. PICK f \in [0..N -> D] : f[0] = b /\ \A n \in 1..N : f[n] = step[n][f[n - 1]]
  BY <1>5, Steps
<1>7. \A n \in 0..N : n # 0 => n \in 1..N /\ n - 1 \in 0..N
  BY <1>2
<1>8. ASSUME NEW n \in 0..N PROVE f[n] = IF n = 0 THEN b ELSE next(n, f[n - 1])
  BY <1>4, <1>6, <1>7
<1>9. f = Def(f)
  BY <1>8
<1> HIDE DEF Def
<1>10. g = Def(g)
  BY <1>9
<1> HIDE DEF g
<1>11. PICK h : h = g /\ h = Def(h)
  BY <1>10
<1> USE DEF Def
<1>12. h[0] = b /\ \A n \in 1..N : h[n] = next(n, h[n - 1])
  <2>1. \A n \in 1..N : n \in 0..N /\ n # 0
    BY <1>2
  <2>2. 0 \in 0..N
    BY <1>2
  <2>3. QED
    BY <1>11, <2>1, <2>2
<1>13. h = [n \in 0..N |-> h[n]]
  BY <1>11
<1> HIDE DEF Def, next
<1>14. \A n \in 1..N : h[n - 1] \in D => h[n] = step[n][h[n - 1]]
  BY <1>4, <1>12
<1>15. Climbs(h, N, D, b, step)
  BY <1>5, <1>12, <1>13, <1>14 DEF Climbs
<1>16. h \in [0..N -> D]
  BY <1>15, Climbing
<1>17. N \in 0..N
  BY <1>2
<1>18. h[N] \in D
  BY <1>16, <1>17
<1>19. QED
  BY <1>1, <1>11, <1>18 DEF N, D

LEMMA DistinctTyped ==
  ASSUME NEW T, NEW ids \in Seq(T)
  PROVE  Distinct(ids) \in Seq(T)
<1> DEFINE N == Len(ids)
           D == Seq(T)
           b == <<>>
           next(n, q) == IF ids[n] \in Range(q) THEN q ELSE Append(q, ids[n])
           Def(f) == [n \in 0..N |-> IF n = 0 THEN b ELSE next(n, f[n - 1])]
           g == CHOOSE f : f = Def(f)
           step == [n \in 1..N |-> [q \in D |-> next(n, q)]]
<1>1. Distinct(ids) = g[N]
  BY DEF Distinct
<1>2. N \in Nat /\ b \in D /\ \A n \in 1..N : ids[n] \in T
  OBVIOUS
<1> HIDE DEF N, D
<1>3. step \in [1..N -> [D -> D]]
  <2>1. ASSUME NEW n \in 1..N, NEW q \in D PROVE next(n, q) \in D
    <3>1. ids[n] \in T /\ q \in Seq(T)
      BY <1>2 DEF D
    <3>2. Append(q, ids[n]) \in Seq(T)
      BY <3>1, AppendProperties
    <3>3. QED
      BY <3>1, <3>2 DEF D
  <2>2. QED
    BY <2>1
<1>4. \A n \in 1..N, q \in D : step[n][q] = next(n, q)
  OBVIOUS
<1> HIDE DEF step, b
<1>5. Ladder(N, D, b, step)
  BY <1>2, <1>3 DEF Ladder
<1>6. PICK f \in [0..N -> D] : f[0] = b /\ \A n \in 1..N : f[n] = step[n][f[n - 1]]
  BY <1>5, Steps
<1>7. \A n \in 0..N : n # 0 => n \in 1..N /\ n - 1 \in 0..N
  BY <1>2
<1>8. ASSUME NEW n \in 0..N PROVE f[n] = IF n = 0 THEN b ELSE next(n, f[n - 1])
  BY <1>4, <1>6, <1>7
<1>9. f = Def(f)
  BY <1>8
<1> HIDE DEF Def
<1>10. g = Def(g)
  BY <1>9
<1> HIDE DEF g
<1>11. PICK h : h = g /\ h = Def(h)
  BY <1>10
<1> USE DEF Def
<1>12. h[0] = b /\ \A n \in 1..N : h[n] = next(n, h[n - 1])
  <2>1. \A n \in 1..N : n \in 0..N /\ n # 0
    BY <1>2
  <2>2. 0 \in 0..N
    BY <1>2
  <2>3. QED
    BY <1>11, <2>1, <2>2
<1>13. h = [n \in 0..N |-> h[n]]
  BY <1>11
<1> HIDE DEF Def, next
<1>14. \A n \in 1..N : h[n - 1] \in D => h[n] = step[n][h[n - 1]]
  BY <1>4, <1>12
<1>15. Climbs(h, N, D, b, step)
  BY <1>5, <1>12, <1>13, <1>14 DEF Climbs
<1>16. h \in [0..N -> D]
  BY <1>15, Climbing
<1>17. N \in 0..N
  BY <1>2
<1>18. h[N] \in D
  BY <1>16, <1>17
<1>19. QED
  BY <1>1, <1>11, <1>18 DEF N, D

LEMMA FlattenTyped ==
  ASSUME NEW T, NEW seqs \in Seq(Seq(T))
  PROVE  FlattenSeq(seqs) \in Seq(T)
<1>1. PICK f : FlatSteps(f, T, seqs)
  BY FlattenDef
<1>2. Len(seqs) \in 0..Len(seqs)
  OBVIOUS
<1>3. f[Len(seqs)] \in Seq(T)
  BY <1>1, <1>2 DEF FlatSteps
<1>4. QED
  BY <1>1, <1>3 DEF FlatSteps

LEMMA ContextTyped ==
  ASSUME NEW S, Forest(S), NEW section \in Seq(S) \ {<<>>}
  PROVE  SpansInContext(S, section) \in Seq(Ids(S))
<1> DEFINE chains == [i \in DOMAIN section |-> Append(ParentIds(S, section[i].id), section[i].id)]
           shared == {k \in DOMAIN chains[1] :
                        \A i \in DOMAIN chains : k \in DOMAIN chains[i] /\ chains[i][k] = chains[1][k]}
           from == Max(shared \cup {1})
           below == [i \in DOMAIN chains |-> SubSeq(chains[i], from, Len(chains[i]))]
<1>1. SpansInContext(S, section) = Distinct(FlattenSeq(below))
  BY DEF SpansInContext
<1>2. PICK n \in Nat : n = Len(section) /\ DOMAIN section = 1..n /\ 1 \in 1..n
  <2>1. section \in Seq(S) /\ section # <<>>
    OBVIOUS
  <2>2. Len(section) \in Nat /\ DOMAIN section = 1..Len(section) /\ Len(section) # 0
    BY <2>1
  <2>3. PICK n : n = Len(section)
    OBVIOUS
  <2>4. n \in Nat /\ DOMAIN section = 1..n /\ 1 \in 1..n
    BY <2>2, <2>3
  <2>5. QED
    BY <2>3, <2>4
<1>3. PICK I : I = Ids(S)
  OBVIOUS
<1>4. ASSUME NEW i \in 1..n
      PROVE  Append(ParentIds(S, section[i].id), section[i].id) \in Seq(I)
             /\ Len(Append(ParentIds(S, section[i].id), section[i].id)) >= 1
  <2>1. section[i] \in S
    BY <1>2
  <2>2. section[i].id \in I
    BY <1>3, <2>1 DEF Ids
  <2>3. ParentIds(S, section[i].id) \in Seq(I)
    BY <1>3, <2>2, ParentIdsDef
  <2>4. PICK q \in Seq(I) : q = ParentIds(S, section[i].id)
    BY <2>3
  <2>5. Append(q, section[i].id) \in Seq(I) /\ Len(Append(q, section[i].id)) = Len(q) + 1 /\ Len(q) \in Nat
    BY <2>2, AppendProperties
  <2>6. QED
    BY <2>4, <2>5
<1>5. DOMAIN chains = 1..n /\ \A i \in 1..n : chains[i] \in Seq(I) /\ Len(chains[i]) >= 1
  BY <1>2, <1>4
<1> HIDE DEF chains
<1>6. PICK c \in Seq(I) : c = chains[1] /\ Len(c) >= 1
  BY <1>2, <1>5
<1>7. shared \in SUBSET (1..Len(c))
  BY <1>6
<1> HIDE DEF shared
<1>8. from \in Nat /\ from >= 1
  <2>1. PICK X : X = shared \cup {1}
    OBVIOUS
  <2>2. X \in SUBSET Nat /\ X # {} /\ 1 \in X /\ Len(c) \in Nat /\ \A x \in X : x <= Len(c)
    BY <1>6, <1>7, <2>1
  <2>3. Max(X) \in X /\ \A x \in X : x <= Max(X)
    BY <2>2, GreatestNat
  <2>4. QED
    BY <2>1, <2>2, <2>3
<1> HIDE DEF from
<1>9. ASSUME NEW i \in 1..n PROVE SubSeq(chains[i], from, Len(chains[i])) \in Seq(I)
  <2>1. PICK d \in Seq(I) : d = chains[i]
    BY <1>5
  <2>2. \A j \in from..Len(d) : d[j] \in I
    BY <1>8
  <2>3. from \in Int /\ Len(d) \in Int
    BY <1>8
  <2>4. SubSeq(d, from, Len(d)) \in Seq(I)
    BY <2>2, <2>3, SubSeqProperties
  <2>5. QED
    BY <2>1, <2>4
<1>10. below \in Seq(Seq(I))
  <2>1. DOMAIN below = 1..n /\ \A i \in 1..n : below[i] \in Seq(I)
    BY <1>5, <1>9
  <2>2. below = [i \in 1..n |-> below[i]]
    BY <1>5
  <2> HIDE DEF below
  <2>3. below \in [1..n -> Seq(I)]
    BY <2>1, <2>2
  <2>4. QED
    BY <2>3
<1> HIDE DEF below
<1>11. FlattenSeq(below) \in Seq(I)
  BY <1>10, FlattenTyped
<1>12. QED
  BY <1>1, <1>3, <1>11, DistinctTyped

\* Two places of one name have different numbers.
LEMMA NumberIs ==
  ASSUME NEW S, NEW T, NEW context \in Seq(T), NEW x \in Range(context)
  PROVE  /\ Number(S, context, x) \in Nat
         /\ \A y \in Range(context) :
              Name(S, x) = Name(S, y) /\ Number(S, context, x) = Number(S, context, y) => x = y
<1> DEFINE at(z) == CHOOSE k \in DOMAIN context : context[k] = z
           upTo(z) == {k \in 1..at(z) : Name(S, context[k]) = Name(S, z)}
<1>1. \A z : Number(S, context, z) = Cardinality(upTo(z))
  BY DEF Number
<1>2. ASSUME NEW z \in Range(context)
      PROVE  /\ at(z) \in Nat /\ at(z) >= 1 /\ context[at(z)] = z
             /\ IsFiniteSet(upTo(z)) /\ Cardinality(upTo(z)) \in Nat /\ at(z) \in upTo(z)
  <2>1. \E k \in DOMAIN context : context[k] = z
    BY DEF Range
  <2>2. at(z) \in DOMAIN context /\ context[at(z)] = z
    BY <2>1
  <2>3. at(z) \in Nat /\ at(z) >= 1
    BY <2>2
  <2> HIDE DEF at
  <2>4. IsFiniteSet(1..at(z)) /\ upTo(z) \subseteq 1..at(z)
    BY <2>3, Numbers
  <2>5. IsFiniteSet(upTo(z))
    BY <2>4, FS_Subset
  <2>6. QED
    BY <2>2, <2>3, <2>5, FS_CardinalityType
<1> HIDE DEF at
<1>3. ASSUME NEW a \in Range(context), NEW b \in Range(context), Name(S, a) = Name(S, b), at(a) < at(b)
      PROVE  Cardinality(upTo(a)) # Cardinality(upTo(b))
  <2>1. at(a) \in Nat /\ at(b) \in Nat
    BY <1>2
  <2>2. upTo(a) \subseteq upTo(b)
    BY <1>3, <2>1
  <2>3. at(b) \in upTo(b)
    BY <1>2
  <2>4. at(b) \notin 1..at(a)
    BY <1>3, <2>1
  <2>5. at(b) \notin upTo(a)
    BY <2>4
  <2>6. QED
    BY <1>2, <2>2, <2>3, <2>5, FS_Subset
<1>4. ASSUME NEW y \in Range(context), Name(S, x) = Name(S, y), Cardinality(upTo(x)) = Cardinality(upTo(y))
      PROVE  x = y
  <2>1. at(x) \in Nat /\ at(y) \in Nat
    BY <1>2
  <2>2. ~(at(x) < at(y)) /\ ~(at(y) < at(x))
    BY <1>3, <1>4
  <2>3. at(x) = at(y)
    BY <2>1, <2>2
  <2>4. QED
    BY <1>2, <2>3
<1>5. QED
  BY <1>1, <1>2, <1>4

LEMMA SectionsIs ==
  ASSUME NEW L, Listed(L)
  PROVE  /\ Sections(L) \in Seq(Seq(Range(L)) \ {<<>>})
         /\ \A n \in 1..Len(Sections(L)) : SpansInContext(Range(L), Sections(L)[n]) \in Seq(Ids(Range(L)))
<1>1. PICK X : X = {s \in Range(L) : s.type # "DEFAULT"}
  OBVIOUS
<1>2. PICK M : M = Sublist(L, X)
  OBVIOUS
<1>3. M \in Seq(Range(L))
  BY <1>2, ListedIs, SublistIs
<1>4. GroupIntoSections(M) \in Seq(Seq(Range(L)) \ {<<>>})
  BY <1>3, SectionsTyped
<1>5. Sections(L) = GroupIntoSections(M)
  BY <1>1, <1>2 DEF Sections
<1>6. PICK s \in Seq(Seq(Range(L)) \ {<<>>}) : s = Sections(L)
  BY <1>4, <1>5
<1>7. ASSUME NEW n \in 1..Len(s) PROVE SpansInContext(Range(L), s[n]) \in Seq(Ids(Range(L)))
  <2>1. s[n] \in Seq(Range(L)) \ {<<>>}
    BY <1>6
  <2>2. QED
    BY <2>1, ContextTyped DEF Listed
<1>8. QED
  BY <1>6, <1>7

\* The numbers of the spans of a section replace earlier ones.
LEMMA NumberSectionIs ==
  ASSUME NEW L, NEW context \in Seq(Ids(Range(L))), NEW map \in Tables(L)
  PROVE  /\ NumberSection(Range(L), context, map) \in Tables(L)
         /\ DOMAIN NumberSection(Range(L), context, map) = DOMAIN map \cup Range(context)
         /\ \A id \in DOMAIN map \cup Range(context) :
              NumberSection(Range(L), context, map)[id] =
                IF id \in Range(context) THEN Number(Range(L), context, id) ELSE map[id]
<1>1. PICK A \in SUBSET Ids(Range(L)) : map \in [A -> Nat]
  BY DEF Tables
<1>2. PICK B \in SUBSET Ids(Range(L)) : B = Range(context)
  BY RangeOf
<1>3. PICK S : S = Range(L)
  OBVIOUS
<1>4. \A id \in B : Number(S, context, id) \in Nat
  BY <1>2, NumberIs
<1>5. PICK m : m = [id \in A \cup B |-> IF id \in B THEN Number(S, context, id) ELSE map[id]]
  OBVIOUS
<1>6. NumberSection(S, context, map) = m
  BY <1>1, <1>2, <1>5 DEF NumberSection
<1>7. m \in [A \cup B -> Nat]
  BY <1>1, <1>4, <1>5
<1>8. m \in Tables(L)
  <2>1. A \cup B \in SUBSET Ids(Range(L))
    OBVIOUS
  <2>2. QED
    BY <1>7, <2>1 DEF Tables
<1>9. \A id \in A \cup B : m[id] = IF id \in B THEN Number(S, context, id) ELSE map[id]
  BY <1>5
<1>10. QED
  BY <1>1, <1>2, <1>3, <1>6, <1>7, <1>8, <1>9

NameSteps(map, L) ==
  LET N == Len(Sections(L))
  IN /\ map \in [0..N -> Tables(L)] /\ BuildSpanNameMap(L) = map[N]
     /\ \A n \in 1..N :
          map[n] = NumberSection(Range(L), SpansInContext(Range(L), Sections(L)[n]), map[n - 1])

\* buildSpanNameMap, a section after the other.
LEMMA NameMapDef ==
  ASSUME NEW L, Listed(L)
  PROVE  \E map : NameSteps(map, L)
<1> DEFINE N == Len(Sections(L))
           D == Tables(L)
           b == [id \in {} |-> 0]
           next(n, q) == NumberSection(Range(L), SpansInContext(Range(L), Sections(L)[n]), q)
           Def(f) == [n \in 0..N |-> IF n = 0 THEN b ELSE next(n, f[n - 1])]
           g == CHOOSE f : f = Def(f)
           step == [n \in 1..N |-> [q \in D |-> next(n, q)]]
<1>1. BuildSpanNameMap(L) = g[N]
  BY DEF BuildSpanNameMap
<1>2. N \in Nat /\ b \in D /\ \A n \in 1..N : SpansInContext(Range(L), Sections(L)[n]) \in Seq(Ids(Range(L)))
  <2>1. Sections(L) \in Seq(Seq(Range(L)) \ {<<>>})
    BY SectionsIs
  <2>2. N \in Nat
    BY <2>1
  <2>3. b \in [{} -> Nat] /\ {} \in SUBSET Ids(Range(L))
    OBVIOUS
  <2>4. b \in Tables(L)
    BY <2>3 DEF Tables
  <2>5. QED
    BY <2>2, <2>4, SectionsIs
<1> HIDE DEF N, D
<1>3. step \in [1..N -> [D -> D]]
  <2>1. ASSUME NEW n \in 1..N, NEW q \in D PROVE next(n, q) \in D
    BY <1>2, NumberSectionIs DEF D
  <2>2. QED
    BY <2>1
<1>4. \A n \in 1..N, q \in D : step[n][q] = next(n, q)
  OBVIOUS
<1> HIDE DEF step, b
<1>5. Ladder(N, D, b, step)
  BY <1>2, <1>3 DEF Ladder
<1>6. PICK f \in [0..N -> D] : f[0] = b /\ \A n \in 1..N : f[n] = step[n][f[n - 1]]
  BY <1>5, Steps
<1>7. \A n \in 0..N : n # 0 => n \in 1..N /\ n - 1 \in 0..N
  BY <1>2
<1>8. ASSUME NEW n \in 0..N PROVE f[n] = IF n = 0 THEN b ELSE next(n, f[n - 1])
  BY <1>4, <1>6, <1>7
<1>9. f = Def(f)
  BY <1>8
<1> HIDE DEF Def
<1>10. g = Def(g)
  BY <1>9
<1> HIDE DEF g
<1>11. PICK h : h = g /\ h = Def(h)
  BY <1>10
<1> USE DEF Def
<1>12. h[0] = b /\ \A n \in 1..N : h[n] = next(n, h[n - 1])
  <2>1. \A n \in 1..N : n \in 0..N /\ n # 0
    BY <1>2
  <2>2. 0 \in 0..N
    BY <1>2
  <2>3. QED
    BY <1>11, <2>1, <2>2
<1>13. h = [n \in 0..N |-> h[n]]
  BY <1>11
<1> HIDE DEF Def
<1>14. \A n \in 1..N : h[n - 1] \in D => h[n] = step[n][h[n - 1]]
  BY <1>4, <1>12
<1>15. Climbs(h, N, D, b, step)
  BY <1>5, <1>12, <1>13, <1>14 DEF Climbs
<1>16. h \in [0..N -> D]
  BY <1>15, Climbing
<1>17. QED
  BY <1>1, <1>11, <1>12, <1>16 DEF N, D, b, NameSteps

Context(L, k) == SpansInContext(Range(L), Sections(L)[k])

\* The number of a span is that of the last section it is in.
LEMMA LastNumber ==
  ASSUME NEW L, Listed(L), NEW k \in 1..Len(Sections(L)), NEW x \in Range(Context(L, k)),
         \A n \in 1..Len(Sections(L)) : k < n => x \notin Range(Context(L, n))
  PROVE  BuildSpanNameMap(L)[x] = Number(Range(L), Context(L, k), x)
<1> DEFINE v == Number(Range(L), Context(L, k), x)
<1>1. PICK N \in Nat : N = Len(Sections(L))
  BY SectionsIs
<1>2. PICK map \in [0..N -> Tables(L)] :
        /\ BuildSpanNameMap(L) = map[N]
        /\ \A n \in 1..N : map[n] = NumberSection(Range(L), Context(L, n), map[n - 1])
  <2>1. PICK map : NameSteps(map, L)
    BY NameMapDef
  <2>2. QED
    BY <1>1, <2>1 DEF NameSteps, Context
<1>3. \A n \in 1..N : n - 1 \in 0..N /\ n \in 0..N
  BY <1>1
<1>4. ASSUME NEW n \in 1..N
      PROVE  /\ DOMAIN map[n] = DOMAIN map[n - 1] \cup Range(Context(L, n))
             /\ \A id \in DOMAIN map[n - 1] \cup Range(Context(L, n)) :
                  map[n][id] = IF id \in Range(Context(L, n)) THEN Number(Range(L), Context(L, n), id)
                               ELSE map[n - 1][id]
  <2>1. PICK c \in Seq(Ids(Range(L))) : c = Context(L, n)
    BY <1>1, SectionsIs DEF Context
  <2>2. PICK m \in Tables(L) : m = map[n - 1]
    BY <1>3
  <2>3. map[n] = NumberSection(Range(L), c, m)
    BY <1>2, <2>1, <2>2
  <2>4. /\ DOMAIN NumberSection(Range(L), c, m) = DOMAIN m \cup Range(c)
        /\ \A id \in DOMAIN m \cup Range(c) :
             NumberSection(Range(L), c, m)[id] = IF id \in Range(c) THEN Number(Range(L), c, id) ELSE m[id]
    BY NumberSectionIs
  <2>5. QED
    BY <2>1, <2>2, <2>3, <2>4
<1> DEFINE P == {n \in 0..N : n >= k => x \in DOMAIN map[n] /\ map[n][x] = v}
<1> HIDE DEF v
<1>5. k \in 1..N /\ k \in Nat /\ k >= 1
  BY <1>1
<1>6. 0 \in P
  BY <1>1, <1>5
<1>7. ASSUME NEW n \in 1..N, n - 1 \in P PROVE n \in P
  <2>1. CASE n < k
    BY <1>3, <1>5, <2>1
  <2>2. CASE n = k
    <3>1. x \in Range(Context(L, n)) /\ v = Number(Range(L), Context(L, n), x)
      BY <2>2 DEF v
    <3>2. QED
      BY <1>3, <1>4, <3>1
  <2>3. CASE n > k
    <3>1. x \notin Range(Context(L, n))
      BY <1>1, <2>3
    <3>2. n - 1 >= k
      BY <1>5, <2>3
    <3>3. x \in DOMAIN map[n - 1] /\ map[n - 1][x] = v
      BY <1>7, <3>2
    <3>4. QED
      BY <1>3, <1>4, <3>1, <3>3
  <2>4. QED
    BY <1>5, <2>1, <2>2, <2>3
<1>8. N \in P
  <2> HIDE DEF P
  <2>1. \A n \in 0..N : n \in P
    BY <1>1, <1>6, <1>7, Counting
  <2>2. QED
    BY <1>1, <2>1
<1>9. N >= k
  BY <1>5
<1>10. map[N][x] = v
  BY <1>8, <1>9
<1>11. QED
  BY <1>2, <1>10 DEF v

\* The places of the spans in the sections, and the last of each span.
Inside(L) == UNION {{<<k, x>> : x \in Range(Context(L, k))} : k \in DOMAIN Sections(L)}
LastInside(L) == {m \in Inside(L) : ~ \E n \in Inside(L) : n[2] = m[2] /\ n[1] > m[1]}
LabelOf(L, m) == <<m[1], Name(Range(L), m[2]), BuildSpanNameMap(L)[m[2]]>>

LEMMA LabelsDiffer ==
  ASSUME NEW L, Listed(L)
  PROVE  Cardinality({LabelOf(L, m) : m \in LastInside(L)}) = Cardinality(LastInside(L))
<1>1. PICK N \in Nat : N = Len(Sections(L)) /\ DOMAIN Sections(L) = 1..N
  <2>1. PICK s \in Seq(Seq(Range(L)) \ {<<>>}) : s = Sections(L)
    BY SectionsIs
  <2>2. DOMAIN s = 1..Len(s) /\ Len(s) \in Nat
    OBVIOUS
  <2>3. QED
    BY <2>1, <2>2
<1>2. ASSUME NEW m \in Inside(L)
      PROVE  m[1] \in 1..N /\ m[2] \in Range(Context(L, m[1])) /\ m[2] \in Ids(Range(L)) /\ m = <<m[1], m[2]>>
  <2>1. PICK k \in 1..N : \E x \in Range(Context(L, k)) : m = <<k, x>>
    BY <1>1 DEF Inside
  <2>2. PICK x \in Range(Context(L, k)) : m = <<k, x>>
    BY <2>1
  <2>3. Context(L, k) \in Seq(Ids(Range(L)))
    BY <1>1, SectionsIs DEF Context
  <2>4. x \in Ids(Range(L))
    BY <2>3, RangeOf
  <2>5. QED
    BY <2>2, <2>4
<1>3. IsFiniteSet(LastInside(L))
  <2>1. PICK M \in Nat : Ids(Range(L)) \subseteq 0..M
    BY DEF Listed, Forest
  <2>2. IsFiniteSet(0..M) /\ IsFiniteSet(1..N)
    BY FS_Interval
  <2>3. IsFiniteSet((1..N) \X (0..M))
    BY <2>2, FS_Product
  <2>4. LastInside(L) \subseteq (1..N) \X (0..M)
    BY <1>2, <2>1 DEF LastInside
  <2>5. QED
    BY <2>3, <2>4, FS_Subset
<1>4. ASSUME NEW m \in LastInside(L)
      PROVE  BuildSpanNameMap(L)[m[2]] = Number(Range(L), Context(L, m[1]), m[2])
  <2>1. m \in Inside(L)
    BY DEF LastInside
  <2>2. PICK k \in 1..N : k = m[1]
    BY <1>2, <2>1
  <2>3. PICK x \in Range(Context(L, k)) : m = <<k, x>> /\ m[1] = k /\ m[2] = x
    BY <1>2, <2>1, <2>2
  <2>4. ASSUME NEW n \in 1..N, k < n, x \in Range(Context(L, n)) PROVE FALSE
    <3>1. <<n, x>> \in Inside(L)
      BY <1>1, <2>4 DEF Inside
    <3>2. <<n, x>>[2] = m[2] /\ <<n, x>>[1] > m[1]
      BY <1>1, <2>3, <2>4
    <3>3. QED
      BY <3>1, <3>2 DEF LastInside
  <2>5. BuildSpanNameMap(L)[x] = Number(Range(L), Context(L, k), x)
    BY <1>1, <2>4, LastNumber
  <2>6. QED
    BY <2>3, <2>5
<1>5. ASSUME NEW m \in LastInside(L), NEW n \in LastInside(L), LabelOf(L, m) = LabelOf(L, n) PROVE m = n
  <2>1. m \in Inside(L) /\ n \in Inside(L)
    BY DEF LastInside
  <2>2. /\ m[1] = n[1] /\ Name(Range(L), m[2]) = Name(Range(L), n[2])
        /\ BuildSpanNameMap(L)[m[2]] = BuildSpanNameMap(L)[n[2]]
    BY <1>5 DEF LabelOf
  <2>3. PICK c \in Seq(Ids(Range(L))) : c = Context(L, m[1])
    BY <1>1, <1>2, <2>1, SectionsIs DEF Context
  <2>4. m[2] \in Range(c) /\ n[2] \in Range(c)
    BY <1>2, <2>1, <2>2, <2>3
  <2>5. Number(Range(L), c, m[2]) = Number(Range(L), c, n[2])
    BY <1>4, <2>2, <2>3
  <2>6. m[2] = n[2]
    <3>1. PICK x \in Range(c) : x = m[2]
      BY <2>4
    <3>2. PICK y \in Range(c) : y = n[2]
      BY <2>4
    <3>3. Name(Range(L), x) = Name(Range(L), y) /\ Number(Range(L), c, x) = Number(Range(L), c, y)
      BY <2>2, <2>5, <3>1, <3>2
    <3>4. x = y
      BY <3>3, NumberIs
    <3>5. QED
      BY <3>1, <3>2, <3>4
  <2>7. QED
    BY <1>2, <2>1, <2>2, <2>6
<1>6. PICK A : A = LastInside(L)
  OBVIOUS
<1>7. PICK B : B = {LabelOf(L, m) : m \in A}
  OBVIOUS
<1> DEFINE f == [m \in A |-> LabelOf(L, m)]
<1>8. f \in [A -> B] /\ \A m \in A : f[m] = LabelOf(L, m)
  BY <1>7
<1> HIDE DEF f
<1>9. f \in Surjection(A, B)
  BY <1>7, <1>8 DEF Surjection
<1>10. f \in Injection(A, B)
  BY <1>5, <1>6, <1>8 DEF Injection, IsInjective
<1>11. Cardinality(B) = Cardinality(A)
  BY <1>3, <1>6, <1>9, <1>10, FS_Surjection
<1>12. QED
  BY <1>6, <1>7, <1>11

\* For lists of every length: two spans of one name that were last in one
\* section have different numbers in the breadcrumbs (buildSpanNameMap).
THEOREM NumbersTellApart == Spec => []NumbersDiffer
<1>1. ListInv => NumbersDiffer
  <2> SUFFICES ASSUME ListInv PROVE NumbersDiffer
    OBVIOUS
  <2>1. PICK L : L = list
    OBVIOUS
  <2>2. Listed(L) /\ Range(L) = All
    BY <2>1 DEF ListInv, All
  <2>3. Cardinality({LabelOf(L, m) : m \in LastInside(L)}) = Cardinality(LastInside(L))
    BY <2>2, LabelsDiffer
  <2>4. /\ Inside(L) = UNION {{<<k, x>> : x \in Range(SpansInContext(All, Sections(list)[k]))} :
                               k \in DOMAIN Sections(list)}
        /\ \A m : LabelOf(L, m) = <<m[1], Name(All, m[2]), BuildSpanNameMap(list)[m[2]]>>
    BY <2>1, <2>2 DEF Inside, LabelOf, Context
  <2>5. QED
    BY <2>3, <2>4 DEF NumbersDiffer, LastInside
<1>2. QED
  BY <1>1, ListsAreTrees, PTL

----------------------------------------------------------------------------
(* The entries of the transcript.                                           *)

\* The member of a sublist that comes first came first in the list.
LEMMA SublistFirst ==
  ASSUME NEW T, NEW L \in Seq(T), NEW S
  PROVE  \/ Sublist(L, S) = <<>> /\ \A i \in 1..Len(L) : L[i] \notin S
         \/ /\ Sublist(L, S) # <<>>
            /\ \E i \in 1..Len(L) : Sublist(L, S)[1] = L[i] /\ L[i] \in S /\ \A j \in 1..Len(L) : j < i => L[j] \notin S
<1> DEFINE N == Len(L)
           First(q, n) ==
             \/ q = <<>> /\ \A i \in 1..n : L[i] \notin S
             \/ /\ q # <<>>
                /\ \E i \in 1..n : q[1] = L[i] /\ L[i] \in S /\ \A j \in 1..N : j < i => L[j] \notin S
<1>1. PICK sub \in [0..N -> Seq(T)] :
           /\ sub[0] = <<>> /\ Sublist(L, S) = sub[N]
           /\ \A n \in 1..N : sub[n] = IF L[n] \in S THEN Append(sub[n - 1], L[n]) ELSE sub[n - 1]
  <2>1. PICK sub : SublistSteps(sub, T, L, S)
    BY SublistDef
  <2>2. QED
    BY <2>1 DEF SublistSteps
<1> DEFINE P == {n \in 0..N : First(sub[n], n)}
<1>2. N \in Nat /\ 0 \in 0..N /\ N \in 0..N
  OBVIOUS
<1> HIDE DEF N
<1>3. 0 \in P
  BY <1>1, <1>2
<1>4. ASSUME NEW n \in 1..N, n - 1 \in P PROVE n \in P
  <2>1. n \in 0..N /\ n - 1 \in 0..N /\ L[n] \in T
    BY <1>2 DEF N
  <2>2. PICK q \in Seq(T) : q = sub[n - 1]
    BY <2>1
  <2>3. First(q, n - 1)
    BY <1>4, <2>2
  <2>4. \A i \in 1..n : i \in 1..(n - 1) \/ i = n
    BY <1>2
  <2>5. \A i \in 1..(n - 1) : i \in 1..n
    BY <1>2
  <2>6. CASE L[n] \notin S
    <3>1. sub[n] = q
      BY <1>1, <2>2, <2>6
    <3>2. First(q, n)
      BY <2>3, <2>4, <2>5, <2>6
    <3>3. QED
      BY <2>1, <3>1, <3>2
  <2>7. CASE L[n] \in S
    <3>1. PICK r \in Seq(T) : r = Append(q, L[n])
      BY <2>1, AppendProperties
    <3>2. sub[n] = r
      BY <1>1, <2>2, <2>7, <3>1
    <3>3. /\ r # <<>> /\ (q = <<>> => r[1] = L[n]) /\ (q # <<>> => r[1] = q[1])
      BY <2>1, <3>1
    <3>4. First(r, n)
      <4>1. CASE q = <<>>
        <5>1. \A j \in 1..N : j < n => L[j] \notin S
          <6>1. \A j \in 1..N : j < n => j \in 1..(n - 1)
            BY <1>2
          <6>2. QED
            BY <2>3, <4>1, <6>1
        <5>2. n \in 1..n
          BY <1>2
        <5>3. QED
          BY <2>7, <3>3, <4>1, <5>1, <5>2
      <4>2. CASE q # <<>>
        BY <2>3, <2>5, <3>3, <4>2
      <4>3. QED
        BY <4>1, <4>2
    <3>5. QED
      BY <2>1, <3>2, <3>4
  <2>8. QED
    BY <2>6, <2>7
<1>5. N \in P
  <2> HIDE DEF P
  <2>1. \A n \in 0..N : n \in P
    BY <1>2, <1>3, <1>4, Counting
  <2>2. QED
    BY <1>2, <2>1
<1>6. QED
  BY <1>1, <1>5 DEF N

\* Rows: the entries that show a span.
Rows(F) == {i \in 1..Len(F) : F[i].type \in RowTypes}

RowsAre(F, ids) ==
  /\ \A i, j \in Rows(F) : F[i].id = F[j].id => i = j
  /\ {F[i].id : i \in Rows(F)} = ids

\* f may be a row of a group after e.
Follows(e, f) ==
  /\ e.type = "group-input" \/ (e.type = "group-span" /\ ~e.isLast)
  /\ e.group = f.group

InBlocks(F) ==
  \A i \in 1..Len(F) : F[i].type = "group-span" =>
    /\ i - 1 \in 1..Len(F) /\ Follows(F[i - 1], F[i])
    /\ F[i].isLast <=> (i = Len(F) \/ F[i + 1].type # "group-span")

\* A part of the transcript, with the ids of its rows.
Part(F, T, ids) == F \in Seq(T) /\ RowsAre(F, ids) /\ InBlocks(F)

LEMMA NoPart == ASSUME NEW T PROVE Part(<<>>, T, {})
<1>1. <<>> \in Seq(T)
  OBVIOUS
<1>2. PICK F \in Seq(T) : F = <<>>
  BY <1>1
<1>3. 1..Len(F) = {}
  BY <1>2
<1>4. Part(F, T, {})
  BY <1>3 DEF Part, RowsAre, InBlocks, Rows
<1>5. QED
  BY <1>2, <1>4

LEMMA Parts ==
  ASSUME NEW T, NEW F, NEW ids, Part(F, T, ids), NEW G, NEW more, Part(G, T, more), ids \cap more = {}
  PROVE  Part(F \o G, T, ids \cup more)
<1>1. F \in Seq(T) /\ G \in Seq(T)
  BY DEF Part
<1>2. PICK H \in Seq(T) : H = F \o G
  BY <1>1, ConcatAt
<1>3. PICK n \in Nat, m \in Nat : n = Len(F) /\ m = Len(G)
  BY <1>1
<1>4. Len(H) = n + m /\ (\A i \in 1..n : H[i] = F[i]) /\ \A i \in 1..m : H[n + i] = G[i]
  BY <1>1, <1>2, <1>3, ConcatAt
<1>5. \A i \in 1..(n + m) : i \in 1..n \/ (i - n \in 1..m /\ n + (i - n) = i)
  OBVIOUS
<1>6. \A i \in 1..n : i \in 1..(n + m)
  OBVIOUS
<1>7. \A i \in 1..m : n + i \in 1..(n + m)
  OBVIOUS
<1>8. \A i \in Rows(H) : (i \in Rows(F) /\ H[i] = F[i]) \/ (i - n \in Rows(G) /\ H[i] = G[i - n])
  <2>1. SUFFICES ASSUME NEW i \in Rows(H)
                 PROVE  (i \in Rows(F) /\ H[i] = F[i]) \/ (i - n \in Rows(G) /\ H[i] = G[i - n])
    OBVIOUS
  <2>2. i \in 1..(n + m) /\ H[i].type \in RowTypes
    BY <1>4 DEF Rows
  <2>3. CASE i \in 1..n
    BY <1>3, <1>4, <2>2, <2>3 DEF Rows
  <2>4. CASE i \notin 1..n
    <3>1. PICK j \in 1..m : j = i - n /\ i = n + j
      BY <1>5, <2>2, <2>4
    <3>2. H[i] = G[j]
      BY <1>4, <3>1
    <3>3. j \in Rows(G)
      BY <1>3, <2>2, <3>2 DEF Rows
    <3>4. QED
      BY <3>1, <3>2, <3>3
  <2>5. QED
    BY <2>3, <2>4
<1>9. (\A i \in Rows(F) : i \in Rows(H) /\ H[i] = F[i]) /\ \A i \in Rows(G) : n + i \in Rows(H) /\ H[n + i] = G[i]
  BY <1>3, <1>4, <1>6, <1>7 DEF Rows
<1>10. /\ \A i \in Rows(F) : F[i].id \in ids
       /\ \A i \in Rows(G) : G[i].id \in more
       /\ \A x \in ids : \E i \in Rows(F) : F[i].id = x
       /\ \A x \in more : \E i \in Rows(G) : G[i].id = x
  BY DEF Part, RowsAre
<1>11. \A i, j \in Rows(H) : H[i].id = H[j].id => i = j
  <2>1. SUFFICES ASSUME NEW i \in Rows(H), NEW j \in Rows(H), H[i].id = H[j].id PROVE i = j
    OBVIOUS
  <2>2. CASE i \in Rows(F) /\ H[i] = F[i] /\ j \in Rows(F) /\ H[j] = F[j]
    BY <2>1, <2>2 DEF Part, RowsAre
  <2>3. CASE i - n \in Rows(G) /\ H[i] = G[i - n] /\ j - n \in Rows(G) /\ H[j] = G[j - n]
    <3>1. i - n = j - n
      BY <2>1, <2>3 DEF Part, RowsAre
    <3>2. i \in Int /\ j \in Int /\ n \in Int
      BY <2>1 DEF Rows
    <3>3. QED
      BY <3>1, <3>2
  <2>4. QED
    BY <1>8, <1>10, <2>1, <2>2, <2>3
<1>12. {H[i].id : i \in Rows(H)} = ids \cup more
  <2>1. \A i \in Rows(H) : H[i].id \in ids \cup more
    BY <1>8, <1>10
  <2>2. \A x \in ids \cup more : \E i \in Rows(H) : H[i].id = x
    BY <1>9, <1>10
  <2>3. QED
    BY <2>1, <2>2
<1>13. ASSUME NEW i \in 1..(n + m), H[i].type = "group-span"
       PROVE  /\ i - 1 \in 1..(n + m) /\ Follows(H[i - 1], H[i])
              /\ H[i].isLast <=> (i = n + m \/ H[i + 1].type # "group-span")
  <2>1. CASE i \in 1..n
    <3>1. /\ i - 1 \in 1..n /\ Follows(F[i - 1], F[i])
          /\ F[i].isLast <=> (i = n \/ F[i + 1].type # "group-span")
      BY <1>3, <1>4, <1>13, <2>1 DEF Part, InBlocks
    <3>2. i - 1 \in 1..(n + m) /\ Follows(H[i - 1], H[i]) /\ H[i] = F[i]
      BY <1>4, <1>6, <2>1, <3>1
    <3>3. CASE i # n
      <4>1. i + 1 \in 1..n /\ i # n + m
        BY <2>1, <3>3
      <4>2. QED
        BY <1>4, <3>1, <3>2, <3>3, <4>1
    <3>4. CASE i = n /\ m = 0
      <4>1. i = n + m
        BY <3>4
      <4>2. QED
        BY <3>1, <3>2, <3>4, <4>1
    <3>5. CASE i = n /\ m # 0
      <4>1. 1 \in 1..m /\ ~(1 - 1 \in 1..m) /\ i + 1 = n + 1 /\ i # n + m
        BY <3>5
      <4>2. H[i + 1] = G[1]
        BY <1>4, <4>1
      <4>3. G[1].type # "group-span"
        BY <1>3, <4>1 DEF Part, InBlocks
      <4>4. QED
        BY <3>1, <3>2, <3>5, <4>1, <4>2, <4>3
    <3>6. QED
      BY <3>3, <3>4, <3>5
  <2>2. CASE i \notin 1..n
    <3>1. PICK j \in 1..m : i = n + j
      BY <1>5, <1>13, <2>2
    <3>2. H[i] = G[j]
      BY <1>4, <3>1
    <3>3. /\ j - 1 \in 1..m /\ Follows(G[j - 1], G[j])
          /\ G[j].isLast <=> (j = m \/ G[j + 1].type # "group-span")
      BY <1>3, <1>13, <3>2 DEF Part, InBlocks
    <3>4. i - 1 = n + (j - 1) /\ i - 1 \in 1..(n + m)
      BY <3>1, <3>3
    <3>5. H[i - 1] = G[j - 1]
      BY <1>4, <3>3, <3>4
    <3>6. i = n + m <=> j = m
      BY <3>1
    <3>7. ASSUME j # m PROVE H[i + 1] = G[j + 1]
      <4>1. j + 1 \in 1..m /\ i + 1 = n + (j + 1)
        BY <3>1, <3>7
      <4>2. QED
        BY <1>4, <4>1
    <3>8. QED
      BY <3>2, <3>3, <3>4, <3>5, <3>6, <3>7
  <2>3. QED
    BY <2>1, <2>2
<1>14. InBlocks(H)
  <2>1. n + m = Len(H)
    BY <1>4
  <2>2. QED
    BY <1>13, <2>1 DEF InBlocks
<1>15. RowsAre(H, ids \cup more)
  BY <1>11, <1>12 DEF RowsAre
<1>16. QED
  BY <1>2, <1>14, <1>15 DEF Part

\* The entries of the spans M, with those rows of groups and those rows of
\* their own that there may be.
EntryOf(L, M, anchor) ==
  LET I == Ids(Range(L))
      A == Range(anchor)
  IN {e \in [type : {"span"}, id : I] :
        anchor[e.id] = None \/ \A t \in Range(M) : anchor[t.id] = anchor[e.id] => ~IsLlm(t)}
     \cup {e \in [type : {"group-span"}, id : I, group : A \ {None}, isLast : BOOLEAN] : anchor[e.id] = e.group}
     \cup [type : {"group"}, group : A, first : I, last : I]
     \cup [type : {"group-input"}, group : A, first : I]

LEMMA OnePart ==
  ASSUME NEW T, NEW e \in T, e.type = "span"
  PROVE  Part(<<e>>, T, {e.id})
<1>1. <<e>> \in Seq(T)
  OBVIOUS
<1>2. PICK F \in Seq(T) : F = <<e>>
  BY <1>1
<1>3. Len(F) = 1 /\ F[1] = e /\ 1..Len(F) = {1}
  BY <1>2
<1>4. Rows(F) = {1}
  BY <1>3 DEF Rows, RowTypes
<1>5. RowsAre(F, {e.id})
  BY <1>3, <1>4 DEF RowsAre
<1>6. InBlocks(F)
  BY <1>3 DEF InBlocks
<1>7. Part(F, T, {e.id})
  BY <1>5, <1>6 DEF Part
<1>8. QED
  BY <1>2, <1>7

\* The rows of some spans.
LEMMA SpansAreRows ==
  ASSUME NEW L, Listed(L), NEW spans \in Seq(Range(L)), NoDup(spans)
  PROVE  /\ \A i, j \in 1..Len(spans) : spans[i].id = spans[j].id => i = j
         /\ {spans[i].id : i \in 1..Len(spans)} = Ids(Range(spans))
         /\ \A i \in 1..Len(spans) : spans[i] \in Range(spans) /\ spans[i].id \in Ids(Range(L))
<1>1. \A i \in 1..Len(spans) : spans[i] \in Range(L)
  OBVIOUS
<1>2. \A i, j \in 1..Len(spans) : spans[i].id = spans[j].id => i = j
  BY <1>1 DEF Listed, Forest, NoDup
<1>3. Range(spans) = {spans[i] : i \in 1..Len(spans)}
  BY RangeOf
<1>4. {spans[i].id : i \in 1..Len(spans)} = Ids(Range(spans))
  BY <1>3 DEF Ids
<1>5. QED
  BY <1>1, <1>2, <1>3, <1>4 DEF Ids

LEMMA PlainPart ==
  ASSUME NEW L, Listed(L), NEW spans \in Seq(Range(L)), NoDup(spans), NEW T,
         \A i \in 1..Len(spans) : SpanEntry(spans[i]) \in T
  PROVE  Part([i \in DOMAIN spans |-> SpanEntry(spans[i])], T, Ids(Range(spans)))
<1>1. PICK n \in Nat : n = Len(spans) /\ DOMAIN spans = 1..n
  OBVIOUS
<1>2. PICK F : F = [i \in DOMAIN spans |-> SpanEntry(spans[i])]
  OBVIOUS
<1>3. F \in [1..n -> T] /\ \A i \in 1..n : F[i] = SpanEntry(spans[i])
  BY <1>1, <1>2
<1>4. F \in Seq(T) /\ Len(F) = n
  BY <1>3
<1>5. \A i \in 1..n : F[i].type = "span" /\ F[i].id = spans[i].id
  BY <1>3 DEF SpanEntry
<1>6. Rows(F) = 1..n
  BY <1>4, <1>5 DEF Rows, RowTypes
<1>7. RowsAre(F, Ids(Range(spans)))
  BY <1>1, <1>5, <1>6, SpansAreRows DEF RowsAre
<1>8. InBlocks(F)
  BY <1>4, <1>5 DEF InBlocks
<1>9. QED
  BY <1>2, <1>4, <1>7, <1>8 DEF Part

LEMMA GroupPart ==
  ASSUME NEW L, Listed(L), NEW M \in Seq(Range(L)), NEW anchor, NEW a \in Range(anchor) \ {None},
         NEW spans \in Seq(Range(L)), NoDup(spans), Range(spans) = {s \in Range(M) : anchor[s.id] = a}
  PROVE  Part(GroupBlock(spans, a), EntryOf(L, M, anchor), Ids(Range(spans)))
<1> DEFINE T == EntryOf(L, M, anchor)
           calls == {s \in Range(spans) : IsLlm(s)}
<1>1. PICK n \in Nat : n = Len(spans) /\ DOMAIN spans = 1..n
  OBVIOUS
<1>2. PICK llms : llms = Sublist(spans, calls)
  OBVIOUS
<1>3. llms \in Seq(Range(L)) /\ Range(llms) = calls
  BY <1>2, SublistIs
<1>4. PICK I : I = Ids(Range(L))
  OBVIOUS
<1>5. \A i \in 1..n : spans[i] \in Range(spans) /\ spans[i].id \in I /\ anchor[spans[i].id] = a
  BY <1>1, <1>4, SpansAreRows
<1>6. CASE llms = <<>>
  <2>1. GroupBlock(spans, a) = [i \in DOMAIN spans |-> SpanEntry(spans[i])]
    BY <1>2, <1>6 DEF GroupBlock
  <2>2. \A t \in Range(M) : anchor[t.id] = a => ~IsLlm(t)
    <3>1. 1..Len(llms) = {}
      BY <1>6
    <3>2. calls = {}
      BY <1>3, <3>1, RangeOf
    <3>3. QED
      BY <3>2
  <2>3. ASSUME NEW i \in 1..n PROVE SpanEntry(spans[i]) \in T
    <3>1. PICK e : e = SpanEntry(spans[i])
      OBVIOUS
    <3>2. e \in [type : {"span"}, id : I] /\ e.id = spans[i].id
      BY <1>5, <3>1 DEF SpanEntry
    <3>3. anchor[e.id] = a
      BY <1>5, <3>2
    <3>4. e \in T
      BY <1>4, <2>2, <3>2, <3>3 DEF EntryOf
    <3>5. QED
      BY <3>1, <3>4
  <2> HIDE DEF T
  <2>4. QED
    BY <1>1, <2>1, <2>3, PlainPart DEF T
<1>7. CASE llms # <<>>
  <2> DEFINE g == [type |-> "group", group |-> a, first |-> llms[1].id, last |-> Last(llms).id]
             h == [type |-> "group-input", group |-> a, first |-> llms[1].id]
             rows == [i \in DOMAIN spans |->
                        [type |-> "group-span", id |-> spans[i].id, group |-> a, isLast |-> i = Len(spans)]]
  <2>1. GroupBlock(spans, a) = <<g, h>> \o rows
    BY <1>2, <1>7 DEF GroupBlock
  <2>2. g \in T /\ h \in T
    <3>1. 1 \in 1..Len(llms) /\ Len(llms) \in 1..Len(llms)
      BY <1>3, <1>7
    <3>2. llms[1] \in Range(L) /\ llms[Len(llms)] \in Range(L)
      BY <1>3, <3>1
    <3>3. llms[1].id \in I /\ Last(llms).id \in I
      BY <1>4, <3>2 DEF Ids, Last
    <3>4. g \in [type : {"group"}, group : Range(anchor), first : I, last : I]
      BY <3>3
    <3>5. h \in [type : {"group-input"}, group : Range(anchor), first : I]
      BY <3>3
    <3> HIDE DEF g, h
    <3>6. QED
      BY <1>4, <3>4, <3>5 DEF EntryOf
  <2>3. ASSUME NEW i \in 1..n
        PROVE  /\ rows[i] \in T /\ rows[i].type = "group-span" /\ rows[i].id = spans[i].id /\ rows[i].group = a
               /\ rows[i].isLast <=> i = n
    <3>1. PICK last \in BOOLEAN : last = (i = n)
      OBVIOUS
    <3>2. PICK e : e = [type |-> "group-span", id |-> spans[i].id, group |-> a, isLast |-> last]
      OBVIOUS
    <3>3. rows[i] = e
      BY <1>1, <3>1, <3>2
    <3>4. e \in [type : {"group-span"}, id : I, group : Range(anchor) \ {None}, isLast : BOOLEAN]
      BY <1>5, <3>2
    <3>5. e.type = "group-span" /\ e.id = spans[i].id /\ e.group = a /\ e.isLast = last
      BY <3>2
    <3>6. anchor[e.id] = e.group
      BY <1>5, <3>5
    <3>7. e \in T
      BY <1>4, <3>4, <3>6 DEF EntryOf
    <3> HIDE DEF rows, T
    <3>8. QED
      BY <3>1, <3>3, <3>5, <3>7
  <2>4. DOMAIN rows = 1..n /\ rows = [i \in 1..n |-> rows[i]]
    BY <1>1
  <2>5. g.type = "group" /\ h.type = "group-input" /\ h.group = a
    OBVIOUS
  <2> HIDE DEF rows, T, g, h
  <2>6. PICK R \in Seq(T) : R = rows /\ Len(R) = n
    <3>1. rows \in [1..n -> T]
      BY <2>3, <2>4
    <3>2. rows \in Seq(T) /\ Len(rows) = n
      BY <3>1
    <3>3. QED
      BY <3>2
  <2>7. PICK top \in Seq(T) : top = <<g, h>> /\ Len(top) = 2 /\ top[1] = g /\ top[2] = h
    <3>1. <<g, h>> \in Seq(T) /\ Len(<<g, h>>) = 2 /\ <<g, h>>[1] = g /\ <<g, h>>[2] = h
      BY <2>2
    <3>2. QED
      BY <3>1
  <2>8. PICK F \in Seq(T) : F = top \o R
    BY ConcatAt
  <2>9. Len(F) = 2 + n /\ F[1] = g /\ F[2] = h /\ \A i \in 1..n : F[2 + i] = R[i]
    <3>1. /\ Len(F) = Len(top) + Len(R)
          /\ \A i \in 1..Len(top) : F[i] = top[i]
          /\ \A i \in 1..Len(R) : F[Len(top) + i] = R[i]
      BY <2>8, ConcatAt
    <3>2. QED
      BY <2>6, <2>7, <3>1
  <2>10. \A i \in 1..n : /\ F[2 + i].type = "group-span" /\ F[2 + i].id = spans[i].id /\ F[2 + i].group = a
                         /\ F[2 + i].isLast <=> i = n
    BY <2>3, <2>6, <2>9, ZenonT(60)
  <2>11. \A i \in 1..(2 + n) : i = 1 \/ i = 2 \/ (i - 2 \in 1..n /\ 2 + (i - 2) = i)
    OBVIOUS
  <2>12. \A i \in 1..n : 2 + i \in 1..(2 + n)
    OBVIOUS
  <2>13. \A i \in Rows(F) : i - 2 \in 1..n /\ 2 + (i - 2) = i
    BY <2>5, <2>9, <2>11 DEF Rows, RowTypes
  <2>14. \A i \in 1..n : 2 + i \in Rows(F)
    BY <2>9, <2>10, <2>12 DEF Rows, RowTypes
  <2>15. RowsAre(F, Ids(Range(spans)))
    <3>1. ASSUME NEW i \in Rows(F), NEW j \in Rows(F), F[i].id = F[j].id PROVE i = j
      <4>1. PICK p \in 1..n : i = 2 + p
        BY <2>13
      <4>2. PICK q \in 1..n : j = 2 + q
        BY <2>13
      <4>3. spans[p].id = spans[q].id
        BY <2>10, <3>1, <4>1, <4>2
      <4>4. p = q
        BY <1>1, <4>3, SpansAreRows
      <4>5. QED
        BY <4>1, <4>2, <4>4
    <3>2. {F[i].id : i \in Rows(F)} = {spans[i].id : i \in 1..n}
      <4>1. ASSUME NEW i \in Rows(F) PROVE F[i].id \in {spans[k].id : k \in 1..n}
        <5>1. PICK p \in 1..n : i = 2 + p
          BY <2>13
        <5>2. QED
          BY <2>10, <5>1
      <4>2. ASSUME NEW p \in 1..n PROVE spans[p].id \in {F[i].id : i \in Rows(F)}
        BY <2>10, <2>14
      <4>3. QED
        BY <4>1, <4>2
    <3>3. QED
      BY <1>1, <3>1, <3>2, SpansAreRows DEF RowsAre
  <2>16. InBlocks(F)
    <3>1. SUFFICES ASSUME NEW i \in 1..(2 + n), F[i].type = "group-span"
                   PROVE  /\ i - 1 \in 1..(2 + n) /\ Follows(F[i - 1], F[i])
                          /\ F[i].isLast <=> (i = 2 + n \/ F[i + 1].type # "group-span")
      BY <2>9 DEF InBlocks
    <3>2. PICK p \in 1..n : i = 2 + p
      BY <2>5, <2>9, <2>11, <3>1
    <3>3. i - 1 \in 1..(2 + n)
      BY <3>2
    <3>4. Follows(F[i - 1], F[i])
      <4>1. F[i].group = a
        BY <2>10, <3>2
      <4>2. CASE p = 1
        <5>1. i - 1 = 2
          BY <3>2, <4>2
        <5>2. F[i - 1] = h
          BY <2>9, <5>1
        <5>3. QED
          BY <2>5, <4>1, <5>2 DEF Follows
      <4>3. CASE p # 1
        <5>1. p - 1 \in 1..n /\ i - 1 = 2 + (p - 1) /\ p - 1 # n
          BY <3>2, <4>3
        <5>2. F[i - 1].type = "group-span" /\ F[i - 1].group = a /\ ~F[i - 1].isLast
          BY <2>10, <5>1
        <5>3. QED
          BY <4>1, <5>2 DEF Follows
      <4>4. QED
        BY <4>2, <4>3
    <3>5. F[i].isLast <=> (i = 2 + n \/ F[i + 1].type # "group-span")
      <4>1. F[i].isLast <=> p = n
        BY <2>10, <3>2
      <4>2. CASE p = n
        <5>1. i = 2 + n
          BY <3>2, <4>2
        <5>2. QED
          BY <4>1, <4>2, <5>1
      <4>3. CASE p # n
        <5>1. p + 1 \in 1..n /\ i + 1 = 2 + (p + 1) /\ i # 2 + n
          BY <3>2, <4>3
        <5>2. F[i + 1].type = "group-span"
          BY <2>10, <5>1
        <5>3. QED
          BY <4>1, <4>3, <5>1, <5>2
      <4>4. QED
        BY <4>2, <4>3
    <3>6. QED
      BY <3>3, <3>4, <3>5
  <2>17. Part(F, T, Ids(Range(spans)))
    BY <2>15, <2>16 DEF Part
  <2>18. QED
    BY <2>1, <2>6, <2>7, <2>8, <2>17 DEF T
<1>8. QED
  BY <1>6, <1>7

\* Spans that are shown together.
Kin(anchor, s, t) == s = t \/ (anchor[s.id] # None /\ anchor[s.id] = anchor[t.id])

\* What the n-th span of M adds to the transcript: nothing, or all that is shown
\* with it.
Reveals(M, anchor, n) == \A j \in 1..Len(M) : j < n => ~Kin(anchor, M[j], M[n])
Revealed(M, anchor, n) ==
  IF Reveals(M, anchor, n) THEN Ids({t \in Range(M) : Kin(anchor, t, M[n])}) ELSE {}

GroupOf(M, anchor, a) == Sublist(M, {s \in Range(M) : anchor[s.id] = a})

EntriesAt(M, anchor, s) ==
  CASE anchor[s.id] = None -> <<SpanEntry(s)>>
    [] anchor[s.id] # None /\ GroupOf(M, anchor, anchor[s.id])[1] = s ->
         GroupBlock(GroupOf(M, anchor, anchor[s.id]), anchor[s.id])
    [] OTHER -> <<>>

\* The spans of a list, and the entries of them.
Showable(L, M, anchor) == Listed(L) /\ M \in Seq(Range(L)) /\ NoDup(M) /\ DOMAIN anchor = Ids(Range(L))

LEMMA EntriesAtIs ==
  ASSUME NEW L, NEW M, NEW anchor, Showable(L, M, anchor), NEW n \in 1..Len(M)
  PROVE  Part(EntriesAt(M, anchor, M[n]), EntryOf(L, M, anchor), Revealed(M, anchor, n))
<1> DEFINE T == EntryOf(L, M, anchor)
<1> USE DEF Showable
<1>1. PICK s : s = M[n]
  OBVIOUS
<1>2. PICK a : a = anchor[s.id]
  OBVIOUS
<1>3. s \in Range(M) /\ s \in Range(L) /\ s.id \in Ids(Range(L)) /\ a \in Range(anchor)
  <2>1. s \in Range(M) /\ s \in Range(L)
    BY <1>1, RangeOf
  <2>2. s.id \in Ids(Range(L))
    BY <2>1 DEF Ids
  <2>3. QED
    BY <1>2, <2>1, <2>2 DEF Range
<1>4. CASE a = None
  <2>1. EntriesAt(M, anchor, s) = <<SpanEntry(s)>>
    BY <1>2, <1>4 DEF EntriesAt
  <2>2. \A t : Kin(anchor, t, s) <=> t = s
    BY <1>2, <1>4 DEF Kin
  <2>3. Reveals(M, anchor, n)
    <3>1. \A j \in 1..Len(M) : j < n => j # n
      OBVIOUS
    <3>2. QED
      BY <1>1, <2>2, <3>1 DEF Reveals, NoDup
  <2>4. Revealed(M, anchor, n) = {s.id}
    <3>1. {t \in Range(M) : Kin(anchor, t, s)} = {s}
      BY <1>3, <2>2
    <3>2. Ids({s}) = {s.id}
      BY DEF Ids
    <3>3. QED
      BY <1>1, <2>3, <3>1, <3>2 DEF Revealed
  <2>5. PICK e : e = SpanEntry(s)
    OBVIOUS
  <2>6. e \in [type : {"span"}, id : Ids(Range(L))] /\ e.id = s.id /\ e.type = "span"
    BY <1>3, <2>5 DEF SpanEntry
  <2>7. e \in T
    BY <1>2, <1>4, <2>6 DEF EntryOf
  <2> HIDE DEF T
  <2>8. Part(<<e>>, T, {e.id})
    BY <2>6, <2>7, OnePart
  <2>9. QED
    BY <1>1, <2>1, <2>4, <2>5, <2>6, <2>8 DEF T
<1>5. CASE a # None
  <2> DEFINE S == {t \in Range(M) : anchor[t.id] = a}
  <2>1. PICK spans : spans = GroupOf(M, anchor, a)
    OBVIOUS
  <2>2. spans \in Seq(Range(L)) /\ NoDup(spans) /\ Range(spans) = S /\ spans = Sublist(M, S)
    <3>1. Range(M) \cap S = S
      OBVIOUS
    <3>2. QED
      BY <2>1, <3>1, SublistIs DEF GroupOf
  <2>3. \A t \in Range(M) : Kin(anchor, t, s) <=> t \in S
    BY <1>2, <1>5 DEF Kin
  <2>4. s \in S
    BY <1>2, <1>3
  <2> HIDE DEF S
  <2>5. PICK i \in 1..Len(M) : spans[1] = M[i] /\ M[i] \in S /\ \A j \in 1..Len(M) : j < i => M[j] \notin S
    BY <1>1, <2>2, <2>4, SublistFirst
  <2>6. \A j \in 1..Len(M) : M[j] \in Range(M)
    BY RangeOf
  <2>7. spans[1] = s <=> i = n
    BY <1>1, <2>5 DEF NoDup
  <2>8. Reveals(M, anchor, n) <=> i = n
    <3>1. ASSUME i = n PROVE Reveals(M, anchor, n)
      BY <1>1, <2>3, <2>5, <2>6, <3>1 DEF Reveals
    <3>2. ASSUME i # n PROVE ~Reveals(M, anchor, n)
      <4>1. ~(n < i)
        BY <1>1, <2>4, <2>5
      <4>2. i < n
        BY <3>2, <4>1
      <4>3. Kin(anchor, M[i], s)
        BY <2>3, <2>5, <2>6
      <4>4. QED
        BY <1>1, <4>2, <4>3 DEF Reveals
    <3>3. QED
      BY <3>1, <3>2
  <2>9. CASE i = n
    <3>1. EntriesAt(M, anchor, s) = GroupBlock(spans, a)
      BY <1>2, <1>5, <2>1, <2>7, <2>9 DEF EntriesAt
    <3>2. {t \in Range(M) : Kin(anchor, t, s)} = S
      BY <2>3 DEF S
    <3>3. Revealed(M, anchor, n) = Ids(Range(spans))
      BY <1>1, <2>2, <2>8, <2>9, <3>2 DEF Revealed
    <3>4. a \in Range(anchor) \ {None}
      BY <1>3, <1>5
    <3>5. Range(spans) = {t \in Range(M) : anchor[t.id] = a}
      BY <2>2 DEF S
    <3>6. Part(GroupBlock(spans, a), EntryOf(L, M, anchor), Ids(Range(spans)))
      BY <2>2, <3>4, <3>5, GroupPart
    <3>7. QED
      BY <1>1, <3>1, <3>3, <3>6
  <2>10. CASE i # n
    <3>1. EntriesAt(M, anchor, s) = <<>>
      BY <1>2, <1>5, <2>1, <2>7, <2>10 DEF EntriesAt
    <3>2. Revealed(M, anchor, n) = {}
      BY <2>8, <2>10 DEF Revealed
    <3>3. QED
      BY <1>1, <3>1, <3>2, NoPart
  <2>11. QED
    BY <2>9, <2>10
<1>6. QED
  BY <1>4, <1>5

\* What is shown is not shown again, and every span is.
LEMMA RevealedOnce ==
  ASSUME NEW L, NEW M, NEW anchor, Showable(L, M, anchor)
  PROVE  /\ \A i, j \in 1..Len(M) : i < j => Revealed(M, anchor, i) \cap Revealed(M, anchor, j) = {}
         /\ UNION {Revealed(M, anchor, i) : i \in 1..Len(M)} = Ids(Range(M))
<1> USE DEF Showable
<1>1. \A i \in 1..Len(M) : M[i] \in Range(M) /\ M[i] \in Range(L)
  BY RangeOf
<1>2. \A i \in 1..Len(M) : \A x \in Revealed(M, anchor, i) :
        Reveals(M, anchor, i) /\ \E t \in Range(M) : Kin(anchor, t, M[i]) /\ t.id = x
  BY DEF Revealed, Ids
<1>3. ASSUME NEW i \in 1..Len(M), NEW j \in 1..Len(M), i < j,
             NEW x \in Revealed(M, anchor, i), x \in Revealed(M, anchor, j)
      PROVE  FALSE
  <2>1. PICK t \in Range(M) : Kin(anchor, t, M[i]) /\ t.id = x
    BY <1>2
  <2>2. PICK u \in Range(M) : Kin(anchor, u, M[j]) /\ u.id = x
    BY <1>2, <1>3
  <2>3. Range(M) \subseteq Range(L)
    BY RangeOf
  <2>4. t = u
    BY <2>1, <2>2, <2>3 DEF Listed, Forest
  <2>5. Kin(anchor, M[i], M[j])
    BY <2>1, <2>2, <2>4 DEF Kin
  <2>6. QED
    BY <1>2, <1>3, <2>5 DEF Reveals
<1>4. ASSUME NEW j \in 1..Len(M) PROVE \E i \in 1..Len(M) : M[j].id \in Revealed(M, anchor, i)
  <2> DEFINE K == {i \in 1..Len(M) : Kin(anchor, M[i], M[j])}
  <2>1. K \in SUBSET Nat /\ j \in K
    BY DEF Kin
  <2>2. PICK i \in K : \A k \in K : i <= k
    <3> HIDE DEF K
    <3>1. Min(K) \in K /\ \A k \in K : Min(K) <= k
      BY <2>1, LeastNat
    <3>2. QED
      BY <3>1
  <2>3. \A k \in 1..Len(M) : Kin(anchor, M[k], M[i]) => k \in K
    BY <2>2 DEF Kin
  <2>4. Reveals(M, anchor, i)
    <3>1. SUFFICES ASSUME NEW k \in 1..Len(M), k < i, Kin(anchor, M[k], M[i]) PROVE FALSE
      BY DEF Reveals
    <3>2. k \in K
      BY <2>3, <3>1
    <3>3. i <= k /\ i \in 1..Len(M)
      BY <2>2, <3>2
    <3>4. QED
      BY <3>1, <3>3
  <2>5. Kin(anchor, M[j], M[i])
    BY <2>2 DEF Kin
  <2>6. M[j] \in {t \in Range(M) : Kin(anchor, t, M[i])}
    BY <1>1, <2>5
  <2>7. M[j].id \in Revealed(M, anchor, i)
    BY <2>4, <2>6 DEF Revealed, Ids
  <2>8. QED
    BY <2>2, <2>7
<1>5. UNION {Revealed(M, anchor, i) : i \in 1..Len(M)} = Ids(Range(M))
  <2>1. ASSUME NEW i \in 1..Len(M), NEW x \in Revealed(M, anchor, i) PROVE x \in Ids(Range(M))
    BY <1>2 DEF Ids
  <2>2. ASSUME NEW x \in Ids(Range(M)) PROVE \E i \in 1..Len(M) : x \in Revealed(M, anchor, i)
    <3>1. PICK j \in 1..Len(M) : x = M[j].id
      BY RangeOf DEF Ids
    <3>2. QED
      BY <1>4, <3>1
  <2>3. QED
    BY <2>1, <2>2
<1>6. QED
  BY <1>3, <1>5

LEMMA EntriesIs ==
  ASSUME NEW L, NEW M, NEW anchor, Showable(L, M, anchor)
  PROVE  Part(Entries(M, anchor), EntryOf(L, M, anchor), Ids(Range(M)))
<1> DEFINE upTo(n) == UNION {Revealed(M, anchor, i) : i \in 1..n}
<1>1. PICK T : T = EntryOf(L, M, anchor)
  OBVIOUS
<1>2. PICK N \in Nat : N = Len(M) /\ DOMAIN M = 1..N
  BY DEF Showable
<1>3. PICK blocks : blocks = [i \in 1..N |-> EntriesAt(M, anchor, M[i])]
  OBVIOUS
<1>4. Entries(M, anchor) = FlattenSeq(blocks)
  BY <1>2, <1>3 DEF Entries, EntriesAt, GroupOf
<1>5. \A i \in 1..N : Part(blocks[i], T, Revealed(M, anchor, i))
  BY <1>1, <1>2, <1>3, EntriesAtIs
<1>6. blocks \in Seq(Seq(T)) /\ Len(blocks) = N
  <2>1. \A i \in 1..N : blocks[i] \in Seq(T)
    BY <1>5 DEF Part
  <2>2. blocks \in [1..N -> Seq(T)]
    BY <1>3, <2>1
  <2>3. QED
    BY <2>2
<1>7. PICK f \in [0..N -> Seq(T)] : f[0] = <<>> /\ FlattenSeq(blocks) = f[N]
                                   /\ \A n \in 1..N : f[n] = f[n - 1] \o blocks[n]
  <2>1. PICK f : FlatSteps(f, T, blocks)
    BY <1>6, FlattenDef
  <2>2. QED
    BY <1>6, <2>1 DEF FlatSteps
<1> DEFINE P == {n \in 0..N : Part(f[n], T, upTo(n))}
<1>8. 0 \in P
  <2>1. upTo(0) = {}
    OBVIOUS
  <2>2. QED
    BY <1>2, <1>7, <2>1, NoPart
<1>9. ASSUME NEW n \in 1..N, n - 1 \in P PROVE n \in P
  <2>1. n \in 0..N /\ 1..n = 1..(n - 1) \cup {n}
    OBVIOUS
  <2>2. upTo(n) = upTo(n - 1) \cup Revealed(M, anchor, n)
    BY <2>1
  <2>3. upTo(n - 1) \cap Revealed(M, anchor, n) = {}
    <3>1. \A i \in 1..(n - 1) : i \in 1..N /\ i < n
      BY <1>2
    <3>2. \A i \in 1..(n - 1) : Revealed(M, anchor, i) \cap Revealed(M, anchor, n) = {}
      BY <1>2, <3>1, RevealedOnce
    <3>3. QED
      BY <3>2
  <2> HIDE DEF upTo
  <2>4. Part(f[n - 1], T, upTo(n - 1))
    BY <1>9
  <2>5. Part(blocks[n], T, Revealed(M, anchor, n))
    BY <1>5
  <2>6. Part(f[n - 1] \o blocks[n], T, upTo(n - 1) \cup Revealed(M, anchor, n))
    BY <2>3, <2>4, <2>5, Parts
  <2>7. QED
    BY <1>7, <2>1, <2>2, <2>6
<1>10. Part(f[N], T, upTo(N))
  <2> HIDE DEF P
  <2>1. \A n \in 0..N : n \in P
    BY <1>2, <1>8, <1>9, Counting
  <2>2. N \in P
    BY <1>2, <2>1
  <2>3. QED
    BY <2>2 DEF P
<1>11. upTo(N) = Ids(Range(M))
  BY <1>2, RevealedOnce
<1> HIDE DEF upTo
<1>12. QED
  BY <1>1, <1>4, <1>7, <1>10, <1>11

\* What buildTranscriptListEntries is made of.
LEMMA TranscriptIs ==
  ASSUME NEW L, Listed(L), NEW visible
  PROVE  /\ Showable(L, ListSpans(L, visible), SpanToAnchor(L))
         /\ Part(BuildTranscriptListEntries(L, visible), EntryOf(L, ListSpans(L, visible), SpanToAnchor(L)),
                 Ids(Range(ListSpans(L, visible))))
         /\ Range(ListSpans(L, visible)) = {s \in Range(L) : (visible = {} \/ s.id \in visible) /\ s.type # "DEFAULT"}
<1>1. PICK X : X = {s \in Range(L) : (visible = {} \/ s.id \in visible) /\ s.type # "DEFAULT"}
  OBVIOUS
<1>2. PICK M : M = ListSpans(L, visible)
  OBVIOUS
<1>3. M = Sublist(L, X)
  BY <1>1, <1>2 DEF ListSpans
<1>4. M \in Seq(Range(L)) /\ NoDup(M) /\ Range(M) = Range(L) \cap X
  BY <1>3, ListedIs, SublistIs
<1>5. PICK anchor : anchor = SpanToAnchor(L)
  OBVIOUS
<1>6. DOMAIN anchor = Ids(Range(L))
  BY <1>5 DEF SpanToAnchor
<1>7. Showable(L, M, anchor)
  BY <1>4, <1>6 DEF Showable
<1>8. BuildTranscriptListEntries(L, visible) = Entries(M, anchor)
  BY <1>2, <1>5 DEF BuildTranscriptListEntries
<1>9. Part(Entries(M, anchor), EntryOf(L, M, anchor), Ids(Range(M)))
  BY <1>7, EntriesIs
<1>10. Range(M) = X
  BY <1>1, <1>4
<1>11. QED
  BY <1>1, <1>2, <1>5, <1>7, <1>8, <1>9, <1>10

\* For lists of every length: whatever is selected, each visible span is one row
\* of the transcript, and the rows of a group are one block below its header
\* (buildTranscriptListEntries).
THEOREM TranscriptIsWhole == Spec => []EveryVisibleOnce
<1>1. ListInv => EveryVisibleOnce
  <2> SUFFICES ASSUME ListInv, NEW visible \in Selections, NEW E, E = BuildTranscriptListEntries(list, visible)
               PROVE  LET rows == {i \in DOMAIN E : E[i].type \in RowTypes}
                      IN /\ \A i, j \in rows : E[i].id = E[j].id => i = j
                         /\ {E[i].id : i \in rows} = Ids(Range(ListSpans(list, visible)))
                         /\ \A i \in DOMAIN E : E[i].type = "group-span" =>
                              /\ E[i - 1].type = "group-input" \/ (E[i - 1].type = "group-span" /\ ~E[i - 1].isLast)
                              /\ E[i - 1].group = E[i].group
                              /\ E[i].isLast <=> (i = Len(E) \/ E[i + 1].type # "group-span")
    BY DEF EveryVisibleOnce
  <2>1. PICK L : L = list
    OBVIOUS
  <2>2. Listed(L)
    BY <2>1 DEF ListInv
  <2>3. PICK T : Part(E, T, Ids(Range(ListSpans(L, visible))))
    BY <2>1, <2>2, TranscriptIs
  <2>4. E \in Seq(T) /\ RowsAre(E, Ids(Range(ListSpans(L, visible)))) /\ InBlocks(E)
    BY <2>3 DEF Part
  <2>5. DOMAIN E = 1..Len(E)
    BY <2>4
  <2>6. Rows(E) = {i \in DOMAIN E : E[i].type \in RowTypes}
    BY <2>5 DEF Rows
  <2>7. /\ \A i, j \in Rows(E) : E[i].id = E[j].id => i = j
        /\ {E[i].id : i \in Rows(E)} = Ids(Range(ListSpans(list, visible)))
    BY <2>1, <2>4 DEF RowsAre
  <2>8. \A i \in DOMAIN E : E[i].type = "group-span" =>
          /\ E[i - 1].type = "group-input" \/ (E[i - 1].type = "group-span" /\ ~E[i - 1].isLast)
          /\ E[i - 1].group = E[i].group
          /\ E[i].isLast <=> (i = Len(E) \/ E[i + 1].type # "group-span")
    BY <2>4, <2>5 DEF InBlocks, Follows
  <2>9. QED
    BY <2>6, <2>7, <2>8, Zenon
<1>2. QED
  BY <1>1, ListsAreTrees, PTL

----------------------------------------------------------------------------
(* The LLM calls and their agents.                                          *)

LEMMA WithNoDup ==
  ASSUME NEW L \in Seq(SpanRecord), NoDup(L), NEW s, s \notin Range(L), NEW M, With(L, s, M)
  PROVE  NoDup(M)
<1>1. PICK k \in 0..Len(L) : \A i \in 1..Len(M) : M[i] = IF i <= k THEN L[i] ELSE IF i = k + 1 THEN s ELSE L[i - 1]
  BY DEF With
<1>2. Len(M) = Len(L) + 1 /\ Len(L) \in Nat /\ k \in Nat /\ k <= Len(L)
  BY DEF With
<1> DEFINE at(i) == IF i <= k THEN i ELSE i - 1
<1>3. \A i \in 1..Len(M) : i # k + 1 => at(i) \in 1..Len(L) /\ M[i] = L[at(i)]
  BY <1>1, <1>2
<1>4. \A i, j \in 1..Len(M) : i # k + 1 /\ j # k + 1 /\ at(i) = at(j) => i = j
  BY <1>2
<1>5. M[k + 1] = s
  <2>1. k + 1 \in 1..Len(M) /\ ~(k + 1 <= k)
    BY <1>2
  <2>2. QED
    BY <1>1, <2>1
<1>6. \A i \in 1..Len(L) : L[i] # s
  BY RangeOf
<1> HIDE DEF at
<1>7. QED
  BY <1>3, <1>4, <1>5, <1>6 DEF NoDup

Llms(L) == {s \in Range(L) : IsLlm(s)}

LlmSteps(sorted, L) ==
  LET llms == Sublist(L, Llms(L))
  IN /\ sorted \in [0..Len(llms) -> Seq(SpanRecord)] /\ sorted[0] = <<>> /\ LlmSpans(L) = sorted[Len(llms)]
     /\ \A n \in 1..Len(llms) : sorted[n] = InsertByStart(sorted[n - 1], llms[n])

LEMMA LlmsListed ==
  ASSUME NEW L, Listed(L)
  PROVE  /\ Sublist(L, Llms(L)) \in Seq(SpanRecord) /\ NoDup(Sublist(L, Llms(L)))
         /\ Range(Sublist(L, Llms(L))) = Llms(L)
<1>1. L \in Seq(SpanRecord) /\ NoDup(L)
  BY ListedIs DEF Listed
<1>2. Range(L) \cap Llms(L) = Llms(L)
  BY DEF Llms
<1>3. QED
  BY <1>1, <1>2, SublistIs

\* llmSpans.sort, one span after the other.
LEMMA LlmSpansDef ==
  ASSUME NEW L, Listed(L)
  PROVE  \E sorted : LlmSteps(sorted, L)
<1> DEFINE N == Len(Sublist(L, Llms(L)))
           D == Seq(SpanRecord)
           b == <<>>
           Def(f) == [n \in 0..N |-> IF n = 0 THEN b ELSE InsertByStart(f[n - 1], Sublist(L, Llms(L))[n])]
           g == CHOOSE f : f = Def(f)
           step == [n \in 1..N |-> [q \in D |-> InsertByStart(q, Sublist(L, Llms(L))[n])]]
<1>1. LlmSpans(L) = g[N]
  BY DEF LlmSpans, SortByStart, Llms
<1>2. N \in Nat /\ b \in D /\ \A n \in 1..N : Sublist(L, Llms(L))[n] \in SpanRecord
  BY LlmsListed
<1> HIDE DEF N, D
<1>3. step \in [1..N -> [D -> D]]
  <2>1. ASSUME NEW n \in 1..N, NEW q \in D PROVE (InsertByStart(q, Sublist(L, Llms(L))[n])) \in D
    <3>1. With(q, Sublist(L, Llms(L))[n], InsertByStart(q, Sublist(L, Llms(L))[n]))
      BY <1>2, InsertWith DEF D
    <3>2. QED
      BY <3>1 DEF With, D
  <2>2. QED
    BY <2>1
<1>4. \A n \in 1..N, q \in D : step[n][q] = InsertByStart(q, Sublist(L, Llms(L))[n])
  OBVIOUS
<1> HIDE DEF step, b
<1>5. Ladder(N, D, b, step)
  BY <1>2, <1>3 DEF Ladder
<1>6. PICK f \in [0..N -> D] : f[0] = b /\ \A n \in 1..N : f[n] = step[n][f[n - 1]]
  BY <1>5, Steps
<1>7. \A n \in 0..N : n # 0 => n \in 1..N /\ n - 1 \in 0..N
  BY <1>2
<1>8. ASSUME NEW n \in 0..N PROVE f[n] = IF n = 0 THEN b ELSE InsertByStart(f[n - 1], Sublist(L, Llms(L))[n])
  BY <1>4, <1>6, <1>7
<1>9. f = Def(f)
  BY <1>8
<1> HIDE DEF Def
<1>10. g = Def(g)
  BY <1>9
<1> HIDE DEF g
<1>11. PICK h : h = g /\ h = Def(h)
  BY <1>10
<1> USE DEF Def
<1>12. h[0] = b /\ \A n \in 1..N : h[n] = InsertByStart(h[n - 1], Sublist(L, Llms(L))[n])
  <2>1. \A n \in 1..N : n \in 0..N /\ n # 0
    BY <1>2
  <2>2. 0 \in 0..N
    BY <1>2
  <2>3. QED
    BY <1>11, <2>1, <2>2
<1>13. h = [n \in 0..N |-> h[n]]
  BY <1>11
<1> HIDE DEF Def
<1>14. \A n \in 1..N : h[n - 1] \in D => h[n] = step[n][h[n - 1]]
  BY <1>4, <1>12
<1>15. Climbs(h, N, D, b, step)
  BY <1>5, <1>12, <1>13, <1>14 DEF Climbs
<1>16. h \in [0..N -> D]
  BY <1>15, Climbing
<1>17. QED
  BY <1>1, <1>11, <1>12, <1>16 DEF N, D, b, LlmSteps

\* The LLM calls, each once.
LEMMA LlmSpansIs ==
  ASSUME NEW L, Listed(L)
  PROVE  LlmSpans(L) \in Seq(Range(L)) /\ NoDup(LlmSpans(L)) /\ Range(LlmSpans(L)) = Llms(L)
<1>1. PICK M \in Seq(SpanRecord) : M = Sublist(L, Llms(L)) /\ NoDup(M) /\ Range(M) = Llms(L)
  BY LlmsListed
<1>2. PICK N \in Nat : N = Len(M)
  OBVIOUS
<1>3. PICK f \in [0..N -> Seq(SpanRecord)] :
        /\ f[0] = <<>> /\ LlmSpans(L) = f[N]
        /\ \A n \in 1..N : f[n] = InsertByStart(f[n - 1], M[n])
  <2>1. PICK f : LlmSteps(f, L)
    BY LlmSpansDef
  <2>2. QED
    BY <1>1, <1>2, <2>1 DEF LlmSteps
<1> DEFINE upTo(n) == {M[i] : i \in 1..n}
           P == {n \in 0..N : NoDup(f[n]) /\ Range(f[n]) = upTo(n)}
<1>4. 0 \in P
  <2>1. f[0] \in Seq(SpanRecord) /\ Len(f[0]) = 0 /\ 1..Len(f[0]) = {}
    BY <1>2, <1>3
  <2>2. Range(f[0]) = {} /\ NoDup(f[0])
    BY <2>1, RangeOf DEF NoDup
  <2>3. QED
    BY <1>2, <2>2
<1>5. ASSUME NEW n \in 1..N, n - 1 \in P PROVE n \in P
  <2>1. n \in 0..N /\ n - 1 \in 0..N /\ M[n] \in SpanRecord /\ 1..n = 1..(n - 1) \cup {n}
    BY <1>2
  <2>2. PICK q \in Seq(SpanRecord) : q = f[n - 1]
    BY <2>1
  <2>3. NoDup(q) /\ Range(q) = upTo(n - 1)
    BY <1>5, <2>2
  <2>4. PICK r : r = InsertByStart(q, M[n]) /\ r = f[n]
    BY <1>3, <2>2
  <2>5. With(q, M[n], r)
    BY <2>1, <2>4, InsertWith
  <2>6. upTo(n) = upTo(n - 1) \cup {M[n]}
    BY <2>1
  <2>7. Range(r) = upTo(n)
    BY <2>1, <2>3, <2>5, <2>6, WithRange
  <2>8. M[n] \notin upTo(n - 1)
    <3>1. \A i \in 1..(n - 1) : i \in 1..N /\ i # n
      BY <1>2
    <3>2. QED
      BY <1>1, <1>2, <3>1 DEF NoDup
  <2>9. NoDup(r)
    BY <2>3, <2>5, <2>8, WithNoDup
  <2>10. QED
    BY <2>1, <2>4, <2>7, <2>9
<1>6. N \in P
  <2> HIDE DEF P
  <2>1. \A n \in 0..N : n \in P
    BY <1>2, <1>4, <1>5, Counting
  <2>2. QED
    BY <1>2, <2>1
<1>7. PICK R \in Seq(SpanRecord) : R = LlmSpans(L)
  <2>1. N \in 0..N
    BY <1>2
  <2>2. QED
    BY <1>3, <2>1
<1>8. NoDup(R) /\ Range(R) = Llms(L)
  <2>1. upTo(N) = Range(M)
    BY <1>2, RangeOf
  <2>2. QED
    BY <1>1, <1>3, <1>6, <1>7, <2>1
<1>9. R \in Seq(Range(L))
  <2>1. PICK X : X = Range(L)
    OBVIOUS
  <2>2. \A i \in 1..Len(R) : R[i] \in X
    BY <1>8, <2>1, RangeOf DEF Llms
  <2>3. R = [i \in 1..Len(R) |-> R[i]] /\ Len(R) \in Nat
    OBVIOUS
  <2>4. R \in [1..Len(R) -> X]
    BY <2>2, <2>3
  <2>5. R \in Seq(X)
    BY <2>3, <2>4
  <2>6. QED
    BY <2>1, <2>5
<1>10. QED
  BY <1>7, <1>8, <1>9

\* The first calls with a prompt hash.
LEMMA HashedIs ==
  ASSUME NEW L, Listed(L)
  PROVE  Hashed(L) \in Seq(Range(L)) /\ Range(Hashed(L)) \subseteq Llms(L)
<1>1. PICK llms : llms = LlmSpans(L)
  OBVIOUS
<1>2. PICK all : all = Sublist(llms, {s \in Range(llms) : s.hash # None})
  OBVIOUS
<1>3. all \in Seq(Range(L)) /\ Range(all) \subseteq Llms(L)
  BY <1>1, <1>2, LlmSpansIs, SublistIs
<1>4. PICK k : k = Min({Window, Len(all)})
  OBVIOUS
<1>5. Hashed(L) = SubSeq(all, 1, k)
  BY <1>1, <1>2, <1>4 DEF Hashed
<1>6. k \in 0..Len(all)
  <2>1. PICK X : X = {Window, Len(all)}
    OBVIOUS
  <2>2. X \in SUBSET Nat /\ X # {} /\ Len(all) \in X /\ Len(all) \in Nat
    BY <1>3, <2>1, WindowAssumption
  <2>3. Min(X) \in X /\ \A x \in X : Min(X) <= x
    BY <2>2, LeastNat
  <2>4. QED
    BY <1>4, <2>1, <2>2, <2>3
<1>7. PICK w \in Seq(Range(L)) : w = Hashed(L) /\ Len(w) = k /\ \A i \in 1..k : w[i] = all[i]
  <2>1. PICK q \in Seq(Range(L)) : q = all
    BY <1>3
  <2>2. /\ SubSeq(q, 1, k) \in Seq(Range(L)) /\ Len(SubSeq(q, 1, k)) = k
        /\ \A i \in 1..k : SubSeq(q, 1, k)[i] = q[i]
    BY <1>6, <2>1, Piece
  <2>3. PICK w \in Seq(Range(L)) : w = SubSeq(q, 1, k)
    BY <2>2
  <2>4. w = Hashed(L) /\ Len(w) = k /\ \A i \in 1..k : w[i] = all[i]
    BY <1>5, <2>1, <2>2, <2>3
  <2>5. QED
    BY <2>4
<1>8. \A i \in 1..k : i \in 1..Len(all)
  BY <1>3, <1>6
<1>9. \A i \in 1..k : all[i] \in Range(all)
  BY <1>3, <1>8, RangeOf
<1>10. Range(w) \subseteq Llms(L)
  BY <1>3, <1>7, <1>9, RangeOf
<1>11. QED
  BY <1>7, <1>10

\* The id of a call that stands for the agent of s: the first with the same key.
SameAgent(L, s) == {i \in DOMAIN LlmSpans(L) : AgentKey(L, LlmSpans(L)[i]) = AgentKey(L, s)}
AnchorOf(L, s) == LlmSpans(L)[Min(SameAgent(L, s))].id

LEMMA AnchorOfIs ==
  ASSUME NEW L, Listed(L), NEW s \in Llms(L)
  PROVE  /\ AnchorOf(L, s) \in Nat
         /\ \A t \in Llms(L) : AnchorOf(L, s) = AnchorOf(L, t) <=> AgentKey(L, s) = AgentKey(L, t)
<1>1. PICK llms \in Seq(Range(L)) : llms = LlmSpans(L)
  BY LlmSpansIs
<1>2. Range(llms) = Llms(L) /\ DOMAIN llms = 1..Len(llms) /\ \A i \in 1..Len(llms) : llms[i] \in Range(L)
  BY <1>1, LlmSpansIs
<1>3. ASSUME NEW t \in Llms(L)
      PROVE  /\ llms[Min(SameAgent(L, t))] \in Range(L)
             /\ AgentKey(L, llms[Min(SameAgent(L, t))]) = AgentKey(L, t)
  <2>1. PICK X : X = SameAgent(L, t)
    OBVIOUS
  <2>2. X = {i \in 1..Len(llms) : AgentKey(L, llms[i]) = AgentKey(L, t)}
    BY <1>1, <1>2, <2>1 DEF SameAgent
  <2>3. PICK j \in 1..Len(llms) : llms[j] = t
    BY <1>2, RangeOf
  <2>4. X \in SUBSET Nat /\ j \in X
    BY <2>2, <2>3
  <2>5. Min(X) \in X
    BY <2>4, LeastNat
  <2>6. QED
    BY <1>2, <2>1, <2>2, <2>5
<1>4. \A t \in Llms(L) : AnchorOf(L, t) = llms[Min(SameAgent(L, t))].id
  BY <1>1 DEF AnchorOf
<1>5. AnchorOf(L, s) \in Nat
  <2>1. Range(L) \subseteq SpanRecord
    BY ListedIs
  <2>2. QED
    BY <1>3, <1>4, <2>1 DEF SpanRecord
<1>6. ASSUME NEW t \in Llms(L), AnchorOf(L, s) = AnchorOf(L, t) PROVE AgentKey(L, s) = AgentKey(L, t)
  <2>1. llms[Min(SameAgent(L, s))] = llms[Min(SameAgent(L, t))]
    BY <1>3, <1>4, <1>6 DEF Listed, Forest
  <2>2. QED
    BY <1>3, <2>1
<1>7. ASSUME NEW t \in Llms(L), AgentKey(L, s) = AgentKey(L, t) PROVE AnchorOf(L, s) = AnchorOf(L, t)
  BY <1>7 DEF AnchorOf, SameAgent
<1>8. QED
  BY <1>5, <1>6, <1>7

\* computeSubagentBoundaries: without a call with a hash, nothing; else the
\* agent of every call.
LEMMA AgentsOfIs ==
  ASSUME NEW L, Listed(L)
  PROVE  /\ DOMAIN AgentsOf(L) = IF Hashed(L) = <<>> THEN {} ELSE Ids(Llms(L))
         /\ Hashed(L) # <<>> => \A s \in Llms(L) :
              AgentsOf(L)[s.id] = IF Cluster(s) = MainAgent(Hashed(L)) THEN None ELSE AnchorOf(L, s)
<1> DEFINE llms == LlmSpans(L)
           anchor(s) == llms[Min({i \in DOMAIN llms : AgentKey(L, llms[i]) = AgentKey(L, s)})].id
           agent(s) == IF Cluster(s) = MainAgent(Hashed(L)) THEN None ELSE anchor(s)
           D == IF Hashed(L) = <<>> THEN {} ELSE Ids(Range(llms))
           agents == [id \in D |-> agent(The(Range(llms), id))]
<1>1. AgentsOf(L) = agents
  BY DEF AgentsOf
<1>2. Range(llms) = Llms(L)
  BY LlmSpansIs
<1>3. \A s : agent(s) = IF Cluster(s) = MainAgent(Hashed(L)) THEN None ELSE AnchorOf(L, s)
  BY DEF AnchorOf, SameAgent
<1> HIDE DEF agent, llms
<1>4. DOMAIN agents = D /\ D = IF Hashed(L) = <<>> THEN {} ELSE Ids(Llms(L))
  BY <1>2
<1>5. ASSUME Hashed(L) # <<>>, NEW s \in Llms(L) PROVE agents[s.id] = agent(s)
  <2>1. s.id \in D
    BY <1>2, <1>5 DEF Ids
  <2>2. The(Llms(L), s.id) = s
    BY DEF The, Llms, Listed, Forest
  <2>3. QED
    BY <1>2, <2>1, <2>2
<1> HIDE DEF agents, D
<1>6. QED
  BY <1>1, <1>3, <1>4, <1>5

\* The one with the most, and of several the one with the least.
LEMMA BestOf ==
  ASSUME NEW B, B # {}, NEW most \in [B -> Nat], NEW least \in [B -> Nat], NEW N \in Nat,
         \A a \in B : most[a] <= N
  PROVE  \E a \in B : \A b \in B : most[a] > most[b] \/ (most[a] = most[b] /\ least[a] <= least[b])
<1> DEFINE V == {most[a] : a \in B}
<1>1. V \in SUBSET Nat /\ V # {} /\ \A x \in V : x <= N
  OBVIOUS
<1>2. PICK v \in V : \A x \in V : x <= v
  <2> HIDE DEF V
  <2>1. Max(V) \in V /\ \A x \in V : x <= Max(V)
    BY <1>1, GreatestNat
  <2>2. QED
    BY <2>1
<1> DEFINE W == {least[a] : a \in {b \in B : most[b] = v}}
<1>3. W \in SUBSET Nat /\ W # {}
  OBVIOUS
<1>4. PICK w \in W : \A x \in W : w <= x
  <2> HIDE DEF W
  <2>1. Min(W) \in W /\ \A x \in W : Min(W) <= x
    BY <1>3, LeastNat
  <2>2. QED
    BY <2>1
<1>5. PICK a \in B : most[a] = v /\ least[a] = w
  OBVIOUS
<1>6. ASSUME NEW b \in B PROVE most[a] > most[b] \/ (most[a] = most[b] /\ least[a] <= least[b])
  <2>1. most[b] <= most[a] /\ most[a] \in Nat /\ most[b] \in Nat
    BY <1>2, <1>5
  <2>2. CASE most[b] = most[a]
    <3>1. least[b] \in W
      BY <1>5, <2>2
    <3>2. least[a] <= least[b]
      <4> HIDE DEF W
      <4>1. QED
        BY <1>4, <1>5, <3>1
    <3>3. QED
      BY <2>2, <3>2
  <2>3. QED
    BY <2>1, <2>2
<1>7. QED
  BY <1>6

\* Agents are those of calls.
AgentTable(L, agent) == DOMAIN agent \subseteq Ids(Llms(L))

LEMMA NearestIs ==
  ASSUME NEW L, Listed(L), NEW agent, AgentTable(L, agent), NEW above, NEW s \in Range(L)
  PROVE  NearestPreceding(LlmSpans(L), agent, AgentsAbove(L, agent, above), above, s)
           \in {None} \cup AgentsAbove(L, agent, above)
<1>1. PICK llms \in Seq(Range(L)) : llms = LlmSpans(L) /\ Range(llms) = Llms(L)
  BY LlmSpansIs
<1> DEFINE calls(a) == {i \in DOMAIN llms : agent[llms[i].id] = a}
           ends(a) == {llms[i].start : i \in {k \in calls(a) : llms[k].start <= s.start}}
           claimed(a) == {i \in calls(a) : above \in Strict(llms[i])}
           last(a) == Max(ends(a))
           claim(a) == Min(claimed(a))
           begun == {a \in AgentsAbove(L, agent, above) : \E i \in calls(a) : llms[i].start <= s.start}
           best(a) == \A b \in begun : last(a) > last(b) \/ (last(a) = last(b) /\ claim(a) <= claim(b))
<1>2. NearestPreceding(LlmSpans(L), agent, AgentsAbove(L, agent, above), above, s) =
        IF begun = {} THEN None ELSE CHOOSE a \in begun : best(a)
  BY <1>1 DEF NearestPreceding
<1>3. begun \subseteq AgentsAbove(L, agent, above)
  OBVIOUS
<1>4. DOMAIN llms = 1..Len(llms) /\ \A i \in 1..Len(llms) : llms[i] \in Range(L) /\ llms[i].start \in Nat
  <2>1. \A i \in 1..Len(llms) : llms[i] \in Range(L)
    OBVIOUS
  <2>2. Range(L) \subseteq SpanRecord
    BY ListedIs
  <2>3. \A i \in 1..Len(llms) : llms[i].start \in Nat
    BY <2>1, <2>2 DEF SpanRecord
  <2>4. QED
    BY <2>1, <2>3
<1>5. s.start \in Nat
  BY ListedIs DEF SpanRecord
<1>6. ASSUME NEW a \in begun PROVE last(a) \in Nat /\ last(a) <= s.start
  <2>1. ends(a) \in SUBSET Nat /\ ends(a) # {} /\ \A x \in ends(a) : x <= s.start
    BY <1>4
  <2> HIDE DEF ends
  <2>2. last(a) \in ends(a)
    BY <1>5, <2>1, GreatestNat
  <2> HIDE DEF last
  <2>3. QED
    BY <2>1, <2>2
<1>7. ASSUME NEW a \in begun PROVE claim(a) \in Nat
  <2>1. PICK t \in Range(L) : t.id \in DOMAIN agent /\ above \in Strict(t) /\ agent[t.id] = a
    BY DEF AgentsAbove
  <2>2. t \in Llms(L)
    BY <2>1 DEF AgentTable, Ids, Llms, Listed, Forest
  <2>3. PICK i \in 1..Len(llms) : llms[i] = t
    BY <1>1, <2>2, RangeOf
  <2>4. i \in claimed(a)
    BY <1>4, <2>1, <2>3
  <2>5. claimed(a) \in SUBSET Nat
    BY <1>4
  <2> HIDE DEF claimed
  <2>6. claim(a) \in claimed(a)
    BY <2>4, <2>5, LeastNat
  <2> HIDE DEF claim
  <2>7. QED
    BY <2>5, <2>6
<1> HIDE DEF last, claim, begun
<1>8. CASE begun # {}
  <2> DEFINE most == [a \in begun |-> last(a)]
             least == [a \in begun |-> claim(a)]
  <2>1. most \in [begun -> Nat] /\ least \in [begun -> Nat] /\ \A a \in begun : most[a] <= s.start
    BY <1>6, <1>7
  <2>2. \A a \in begun : most[a] = last(a) /\ least[a] = claim(a)
    OBVIOUS
  <2> HIDE DEF most, least
  <2>3. PICK a \in begun : \A b \in begun : most[a] > most[b] \/ (most[a] = most[b] /\ least[a] <= least[b])
    BY <1>5, <1>8, <2>1, BestOf
  <2>4. best(a)
    BY <2>2, <2>3
  <2> HIDE DEF best
  <2>5. (CHOOSE b \in begun : best(b)) \in begun
    BY <2>4
  <2>6. QED
    BY <1>2, <1>3, <1>8, <2>5
<1>9. CASE begun = {}
  BY <1>2, <1>9
<1>10. QED
  BY <1>8, <1>9

\* The ancestors of a span that an agent claims.
Claimed(L, agent, s) == {i \in 1..(Len(s.path) - 1) : AgentsAbove(L, agent, s.path[i]) # {}}

LEMMA ResolveIs ==
  ASSUME NEW L, Listed(L), NEW agent, AgentTable(L, agent), NEW s \in Range(L),
         ResolveSubagent(L, agent, s) # None
  PROVE  /\ Claimed(L, agent, s) # {}
         /\ None \notin AgentsAbove(L, agent, s.path[Max(Claimed(L, agent, s))])
         /\ ResolveSubagent(L, agent, s) \in AgentsAbove(L, agent, s.path[Max(Claimed(L, agent, s))])
<1>1. PICK claimed : claimed = Claimed(L, agent, s)
  OBVIOUS
<1>2. PICK deepest : deepest = s.path[Max(claimed)]
  OBVIOUS
<1>3. PICK claims : claims = AgentsAbove(L, agent, deepest)
  OBVIOUS
<1>4. PICK r : r = ResolveSubagent(L, agent, s)
  OBVIOUS
<1>5. r = CASE claimed = {} -> None
            [] claimed # {} /\ None \in claims -> None
            [] claimed # {} /\ None \notin claims /\ Cardinality(claims) = 1 -> CHOOSE a \in claims : TRUE
            [] OTHER -> NearestPreceding(LlmSpans(L), agent, claims, deepest, s)
  BY <1>1, <1>2, <1>3, <1>4 DEF ResolveSubagent, Claimed
<1>6. claimed # {} /\ None \notin claims
  BY <1>4, <1>5
<1>7. CASE Cardinality(claims) = 1
  <2>1. claims # {}
    BY <1>7, FS_EmptySet
  <2>2. (CHOOSE a \in claims : TRUE) \in claims
    BY <2>1
  <2>3. QED
    BY <1>1, <1>2, <1>3, <1>4, <1>5, <1>6, <1>7, <2>2
<1>8. CASE Cardinality(claims) # 1
  <2>1. r = NearestPreceding(LlmSpans(L), agent, claims, deepest, s)
    BY <1>5, <1>6, <1>8
  <2>2. r \in claims
    BY <1>3, <1>4, <2>1, NearestIs
  <2>3. QED
    BY <1>1, <1>2, <1>3, <1>4, <1>6, <2>2
<1>9. QED
  BY <1>7, <1>8

\* buildSpanToAnchorMap: calls have their agent, other spans one they share an
\* ancestor with.
LEMMA SpanToAnchorIs ==
  ASSUME NEW L, Listed(L)
  PROVE  /\ AgentTable(L, AgentsOf(L))
         /\ DOMAIN SpanToAnchor(L) = Ids(Range(L))
         /\ \A s \in Range(L) : ~IsLlm(s) => SpanToAnchor(L)[s.id] = ResolveSubagent(L, AgentsOf(L), s)
         /\ \A s \in Llms(L) : SpanToAnchor(L)[s.id] =
              IF Hashed(L) = <<>> \/ Cluster(s) = MainAgent(Hashed(L)) THEN None ELSE AnchorOf(L, s)
<1> DEFINE agent == AgentsOf(L)
           anchor(s) == IF ~IsLlm(s) THEN ResolveSubagent(L, agent, s)
                        ELSE IF s.id \in DOMAIN agent THEN agent[s.id] ELSE None
           S == Range(L)
           map == [id \in Ids(S) |-> anchor(The(S, id))]
<1>1. SpanToAnchor(L) = map
  BY DEF SpanToAnchor
<1>2. \A s \in S : The(S, s.id) = s /\ s.id \in Ids(S)
  BY TheOne DEF Listed
<1>3. \A s \in Llms(L) : s \in S /\ IsLlm(s) /\ s.id \in Ids(Llms(L))
  BY DEF Llms, Ids
<1>4. DOMAIN agent = IF Hashed(L) = <<>> THEN {} ELSE Ids(Llms(L))
  BY AgentsOfIs
<1>5. Hashed(L) # <<>> => \A s \in Llms(L) : agent[s.id] = IF Cluster(s) = MainAgent(Hashed(L)) THEN None ELSE AnchorOf(L, s)
  BY AgentsOfIs
<1> HIDE DEF agent, S
<1>6. DOMAIN map = Ids(S) /\ \A s \in S : map[s.id] = anchor(s)
  BY <1>2
<1> HIDE DEF map
<1>7. ASSUME NEW s \in Llms(L)
      PROVE  map[s.id] = IF Hashed(L) = <<>> \/ Cluster(s) = MainAgent(Hashed(L)) THEN None ELSE AnchorOf(L, s)
  <2>1. map[s.id] = IF s.id \in DOMAIN agent THEN agent[s.id] ELSE None
    BY <1>3, <1>6
  <2>2. QED
    BY <1>3, <1>4, <1>5, <2>1
<1>8. \A s \in S : ~IsLlm(s) => map[s.id] = ResolveSubagent(L, agent, s)
  BY <1>6
<1>9. QED
  BY <1>1, <1>4, <1>6, <1>7, <1>8 DEF AgentTable, agent, S

\* The agents of calls are the same in both tables.
LEMMA SameAgents ==
  ASSUME NEW L, Listed(L), NEW s \in Range(L), s.id \in DOMAIN AgentsOf(L)
  PROVE  s \in Llms(L) /\ Hashed(L) # <<>> /\ SpanToAnchor(L)[s.id] = AgentsOf(L)[s.id]
<1>1. Hashed(L) # <<>> /\ s.id \in Ids(Llms(L))
  BY AgentsOfIs
<1>2. s \in Llms(L)
  BY <1>1 DEF Ids, Llms, Listed, Forest
<1>3. QED
  BY <1>1, <1>2, AgentsOfIs, SpanToAnchorIs

\* Every group has a call.
LEMMA GroupsHaveCalls ==
  ASSUME NEW L, Listed(L), NEW id \in Ids(Range(L)), SpanToAnchor(L)[id] # None
  PROVE  \E s \in Llms(L) : SpanToAnchor(L)[s.id] = SpanToAnchor(L)[id]
<1>1. PICK s \in Range(L) : s.id = id
  BY DEF Ids
<1>2. CASE IsLlm(s)
  BY <1>1, <1>2 DEF Llms
<1>3. CASE ~IsLlm(s)
  <2>1. PICK agent : agent = AgentsOf(L)
    OBVIOUS
  <2>2. SpanToAnchor(L)[id] = ResolveSubagent(L, agent, s) /\ AgentTable(L, agent)
    BY <1>1, <1>3, <2>1, SpanToAnchorIs
  <2>3. PICK above : ResolveSubagent(L, agent, s) \in AgentsAbove(L, agent, above)
    BY <2>2, ResolveIs
  <2>4. PICK t \in Range(L) : t.id \in DOMAIN agent /\ agent[t.id] = ResolveSubagent(L, agent, s)
    BY <2>3 DEF AgentsAbove
  <2>5. QED
    BY <2>1, <2>2, <2>4, SameAgents
<1>4. QED
  BY <1>2, <1>3

\* The members of the groups.
MembersOf(L) ==
  UNION {{<<id, a>> : id \in ComputeSubagentGroups(L)[a]} : a \in DOMAIN ComputeSubagentGroups(L)}

LEMMA MembersOfIs ==
  ASSUME NEW L, Listed(L)
  PROVE  /\ \A m \in MembersOf(L) : m[1] \in Ids(Range(L)) /\ SpanToAnchor(L)[m[1]] = m[2] /\ m[2] # None
         /\ \A id \in Ids(Range(L)) : SpanToAnchor(L)[id] # None => <<id, SpanToAnchor(L)[id]>> \in MembersOf(L)
<1>1. PICK anchor : anchor = SpanToAnchor(L) /\ DOMAIN anchor = Ids(Range(L))
  BY SpanToAnchorIs
<1>2. PICK groups : groups = ComputeSubagentGroups(L)
  OBVIOUS
<1>3. /\ DOMAIN groups = Range(anchor) \ {None}
      /\ \A a \in Range(anchor) \ {None} : groups[a] = {id \in DOMAIN anchor : anchor[id] = a}
  BY <1>1, <1>2 DEF ComputeSubagentGroups
<1>4. MembersOf(L) = UNION {{<<id, a>> : id \in groups[a]} : a \in DOMAIN groups}
  BY <1>2 DEF MembersOf
<1>5. ASSUME NEW m \in MembersOf(L) PROVE m[1] \in Ids(Range(L)) /\ anchor[m[1]] = m[2] /\ m[2] # None
  <2>1. PICK a \in DOMAIN groups : m \in {<<id, a>> : id \in groups[a]}
    BY <1>4
  <2>2. PICK id \in groups[a] : m = <<id, a>>
    BY <2>1
  <2>3. m[1] = id /\ m[2] = a
    BY <2>2
  <2>4. QED
    BY <1>1, <1>3, <2>1, <2>2, <2>3
<1>6. ASSUME NEW id \in Ids(Range(L)), anchor[id] # None PROVE <<id, anchor[id]>> \in MembersOf(L)
  <2>1. PICK a : a = anchor[id]
    OBVIOUS
  <2>2. a \in Range(anchor)
    BY <1>1, <2>1 DEF Range
  <2>3. a \in DOMAIN groups /\ id \in groups[a]
    BY <1>1, <1>3, <1>6, <2>1, <2>2
  <2>4. <<id, a>> \in UNION {{<<x, b>> : x \in groups[b]} : b \in DOMAIN groups}
    BY <2>3
  <2>5. QED
    BY <1>4, <2>1, <2>4
<1>7. QED
  BY <1>1, <1>5, <1>6

\* For lists of every length: the transcript and the condensed timeline agree on
\* the groups, whatever is selected (buildTranscriptListEntries,
\* computeSubagentGroups).
THEOREM OneGrouping == Spec => []GroupsAgree
<1>1. ListInv => GroupsAgree
  <2> SUFFICES ASSUME ListInv, NEW visible \in Selections, NEW E, E = BuildTranscriptListEntries(list, visible),
                      NEW i \in DOMAIN E
               PROVE  LET alone(a) == \A m \in MembersOf(list) : m[2] = a /\ m[1] \in visible => ~IsLlm(The(All, m[1]))
                      IN /\ E[i].type = "group-span" => <<E[i].id, E[i].group>> \in MembersOf(list)
                         /\ E[i].type = "span" =>
                              \A m \in MembersOf(list) : m[1] = E[i].id => visible # {} /\ alone(m[2])
    BY DEF GroupsAgree, MembersOf
  <2>1. PICK L : L = list
    OBVIOUS
  <2>2. Listed(L) /\ All = Range(L)
    BY <2>1 DEF ListInv, All
  <2>3. PICK M : M = ListSpans(L, visible)
    OBVIOUS
  <2>4. PICK anchor : anchor = SpanToAnchor(L)
    OBVIOUS
  <2>5. E \in Seq(EntryOf(L, M, anchor))
    BY <2>1, <2>2, <2>3, <2>4, TranscriptIs DEF Part
  <2>6. PICK e \in EntryOf(L, M, anchor) : e = E[i]
    BY <2>5
  <2>7. PICK members : members = MembersOf(L)
    OBVIOUS
  <2>8. ASSUME e.type = "group-span" PROVE <<e.id, e.group>> \in members
    <3>1. e.id \in Ids(Range(L)) /\ anchor[e.id] = e.group /\ e.group # None
      BY <2>6, <2>8 DEF EntryOf
    <3>2. QED
      BY <2>2, <2>4, <2>7, <3>1, MembersOfIs
  <2>9. ASSUME e.type = "span", NEW m \in members, m[1] = e.id
        PROVE  visible # {} /\ \A n \in members : n[2] = m[2] /\ n[1] \in visible => ~IsLlm(The(All, n[1]))
    <3>1. anchor[e.id] = m[2] /\ m[2] # None /\ e.id \in Ids(Range(L))
      BY <2>2, <2>4, <2>7, <2>9, MembersOfIs
    <3>2. \A t \in Range(M) : anchor[t.id] = m[2] => ~IsLlm(t)
      BY <2>6, <2>9, <3>1 DEF EntryOf
    <3>3. Range(M) = {s \in Range(L) : (visible = {} \/ s.id \in visible) /\ s.type # "DEFAULT"}
      BY <2>2, <2>3, TranscriptIs
    <3>4. \A s \in Range(L) : IsLlm(s) => s.type # "DEFAULT"
      BY DEF IsLlm
    <3>5. visible # {}
      <4>1. PICK s \in Llms(L) : anchor[s.id] = m[2]
        BY <2>2, <2>4, <3>1, GroupsHaveCalls
      <4>2. QED
        BY <3>2, <3>3, <3>4, <4>1 DEF Llms
    <3>6. ASSUME NEW n \in members, n[2] = m[2], n[1] \in visible PROVE ~IsLlm(The(All, n[1]))
      <4>1. n[1] \in Ids(Range(L)) /\ anchor[n[1]] = m[2]
        BY <2>2, <2>4, <2>7, <3>6, MembersOfIs
      <4>2. PICK s \in Range(L) : s.id = n[1] /\ The(All, n[1]) = s
        <5>1. PICK s \in Range(L) : s.id = n[1]
          BY <4>1 DEF Ids
        <5>2. QED
          BY <2>2, <5>1, TheOne DEF Listed
      <4>3. QED
        BY <3>2, <3>3, <3>4, <3>6, <4>1, <4>2
    <3>7. QED
      BY <3>5, <3>6
  <2>10. QED
    BY <2>1, <2>6, <2>7, <2>8, <2>9
<1>2. QED
  BY <1>1, ListsAreTrees, PTL


----------------------------------------------------------------------------
(* The lists of agents.                                                     *)

PathAbove(S, s) == IF s.parent = None THEN <<>> ELSE The(S, s.parent).path

\* A span of a list of agents in the tree S: its path is its parent's and its
\* id, and only a call can be without; a call is below a span that is none.
NestedSpan(S, s) ==
  /\ s.names # <<>> /\ s.type # "CACHED"
  /\ s.path = Append(PathAbove(S, s), s.id) \/ (IsLlm(s) /\ s.path = <<>>)
  /\ IsLlm(s) => s.parent # None /\ ~IsLlm(The(S, s.parent))

CallsNested == kind = "agents" => \A s \in All : NestedSpan(All, s)

LEMMA StillNested ==
  ASSUME NEW S, NEW T, Forest(S), Forest(T), S \subseteq T, NEW s \in S, NestedSpan(S, s)
  PROVE  NestedSpan(T, s)
<1>1. CASE s.parent = None
  BY <1>1 DEF NestedSpan, PathAbove
<1>2. CASE s.parent # None
  <2>1. PICK p : p = The(S, s.parent) /\ p \in S /\ p.id = s.parent
    BY <1>2, ParentOf DEF Forest
  <2>2. The(T, s.parent) = p
    BY <2>1, TheOne
  <2>3. QED
    BY <1>2, <2>1, <2>2 DEF NestedSpan, PathAbove
<1>3. QED
  BY <1>1, <1>2

\* What a new span has from its parent.
LEMMA BelowParent ==
  ASSUME Listed(list), NEW p \in Ids(All), NEW id \in Nat, NEW type \in Label
  PROVE  /\ Span(id, p, type).path = Append(The(All, p).path, id)
         /\ Span(id, p, type).names # <<>> /\ Span(id, p, type).type = type
<1>1. p # None
  BY AlgorithmsAssumption DEF Listed, Forest, All
<1>2. PICK a \in SpanRecord : a = The(All, p)
  BY ParentOf, ListedIs DEF Listed, All
<1>3. PICK path, names : path = Append(a.path, id) /\ names = Append(a.names, type)
  OBVIOUS
<1>4. Span(id, p, type) =
        [id |-> id, parent |-> p, type |-> type, path |-> path, names |-> names,
         hash |-> None, start |-> id, end |-> id + 1, pending |-> FALSE, collapsed |-> FALSE, tokens |-> 0,
         sum |-> -1]
  BY <1>1, <1>2, <1>3 DEF Span, All
<1>5. names # <<>>
  <2>1. PICK q \in Seq(Label) : q = a.names
    BY DEF SpanRecord
  <2>2. Append(q, type) # <<>>
    BY <2>1
  <2>3. QED
    BY <1>3, <2>1, <2>2
<1>6. QED
  BY <1>2, <1>3, <1>4, <1>5

LEMMA AddedNested ==
  ASSUME ListInv, ListInv', CallsNested, kind = "agents", kind' = kind, NEW p \in Ids(All), NEW s \in SpanRecord,
         s.parent = p, s.names # <<>>, s.type # "CACHED",
         s.path = Append(The(All, p).path, s.id) \/ (IsLlm(s) /\ s.path = <<>>),
         IsLlm(s) => The(All, p).type # "LLM", list' = Append(list, s)
  PROVE  CallsNested'
<1>1. PICK S : S = All
  OBVIOUS
<1>2. PICK T : T = All'
  OBVIOUS
<1>3. T = S \cup {s}
  <2>1. PICK L \in Seq(SpanRecord) : L = list
    BY DEF ListInv, Listed
  <2>2. PICK M : M = list' /\ With(L, s, M)
    BY <2>1, AppendWith
  <2>3. Range(M) = Range(L) \cup {s}
    BY <2>1, <2>2, WithRange
  <2>4. QED
    BY <1>1, <1>2, <2>1, <2>2, <2>3 DEF All
<1>4. Forest(S) /\ Forest(T)
  BY <1>1, <1>2 DEF ListInv, Listed, All
<1>5. \A t \in S : NestedSpan(S, t)
  BY <1>1 DEF CallsNested
<1>6. \A t \in S : NestedSpan(T, t)
  BY <1>3, <1>4, <1>5, StillNested
<1>7. PICK above : above = The(S, p) /\ above \in S /\ above.id = p
  BY <1>1, <1>4, ParentOf
<1>8. The(T, p) = above
  BY <1>3, <1>4, <1>7, TheOne
<1>9. p # None
  BY <1>1, <1>4, AlgorithmsAssumption DEF Forest
<1>10. IsLlm(s) => ~IsLlm(above)
  BY <1>1, <1>5, <1>7 DEF NestedSpan, IsLlm
<1>11. NestedSpan(T, s)
  BY <1>1, <1>7, <1>8, <1>9, <1>10 DEF NestedSpan, PathAbove
<1>12. QED
  BY <1>2, <1>3, <1>6, <1>11 DEF CallsNested


LEMMA ScaffoldNested ==
  ASSUME NEW inner \in BOOLEAN
  PROVE  \A s \in Range(Scaffold(inner)) : NestedSpan(Range(Scaffold(inner)), s)
<1> DEFINE made(id, parent, type, path, names, hash, tokens) ==
             [id |-> id, parent |-> parent, type |-> type, path |-> path, names |-> names, hash |-> hash,
              start |-> id, end |-> 9, pending |-> FALSE, collapsed |-> FALSE, tokens |-> tokens, sum |-> -1]
           Is(s, id, parent, type, path) ==
             s.id = id /\ s.parent = parent /\ s.type = type /\ s.path = path /\ s.names # <<>>
<1>1. PICK root : root = made(1, None, "DEFAULT", <<1>>, <<"app">>, None, 0)
  OBVIOUS
<1>2. PICK main : main = made(2, 1, "LLM", <<1, 2>>, <<"app", "LLM">>, "main", 2)
  OBVIOUS
<1>3. PICK tool : tool = made(3, 1, "TOOL", <<1, 3>>, <<"app", "TOOL">>, None, 0)
  OBVIOUS
<1>4. PICK next : next = IF inner THEN made(4, 3, "TOOL", <<1, 3, 4>>, <<"app", "TOOL", "TOOL">>, None, 0)
                         ELSE made(4, 1, "TOOL", <<1, 4>>, <<"app", "TOOL">>, None, 0)
  OBVIOUS
<1>5. PICK call : call = made(5, 3, "LLM", <<1, 3, 5>>, <<"app", "TOOL", "LLM">>, "sub", 2)
  OBVIOUS
<1>6. Scaffold(inner) = <<root, main, tool, next, call>>
  BY <1>1, <1>2, <1>3, <1>4, <1>5 DEF Scaffold
<1>7. /\ Is(root, 1, None, "DEFAULT", <<1>>) /\ Is(main, 2, 1, "LLM", <<1, 2>>)
      /\ Is(tool, 3, 1, "TOOL", <<1, 3>>) /\ Is(call, 5, 3, "LLM", <<1, 3, 5>>)
      /\ Is(next, 4, 3, "TOOL", <<1, 3, 4>>) \/ Is(next, 4, 1, "TOOL", <<1, 4>>)
  <2>1. Is(root, 1, None, "DEFAULT", <<1>>)
    BY <1>1
  <2>2. Is(main, 2, 1, "LLM", <<1, 2>>)
    BY <1>2
  <2>3. Is(tool, 3, 1, "TOOL", <<1, 3>>)
    BY <1>3
  <2>4. Is(next, 4, 3, "TOOL", <<1, 3, 4>>) \/ Is(next, 4, 1, "TOOL", <<1, 4>>)
    BY <1>4
  <2>5. Is(call, 5, 3, "LLM", <<1, 3, 5>>)
    BY <1>5
  <2> HIDE DEF Is, made
  <2>6. QED
    BY <2>1, <2>2, <2>3, <2>4, <2>5
<1>8. PICK S : S = Range(Scaffold(inner))
  OBVIOUS
<1> HIDE DEF made
<1>9. S = {root, main, tool, next, call}
  <2>1. PICK L : L = <<root, main, tool, next, call>>
    OBVIOUS
  <2>2. S = {L[1], L[2], L[3], L[4], L[5]}
    <3>1. DOMAIN L = 1..5 /\ 1..5 = {1, 2, 3, 4, 5}
      BY <2>1
    <3>2. QED
      BY <1>6, <1>8, <2>1, <3>1 DEF Range
  <2>3. L[1] = root /\ L[2] = main /\ L[3] = tool /\ L[4] = next /\ L[5] = call
    BY <2>1
  <2>4. QED
    BY <2>2, <2>3
<1>10. Forest(S)
  BY <1>8, ScaffoldListed DEF Listed
<1>11. The(S, 1) = root /\ The(S, 3) = tool
  BY <1>7, <1>9, <1>10, TheOne
<1>12. <<1>> = Append(<<>>, 1) /\ <<1, 2>> = Append(<<1>>, 2) /\ <<1, 3>> = Append(<<1>>, 3)
       /\ <<1, 4>> = Append(<<1>>, 4) /\ <<1, 3, 4>> = Append(<<1, 3>>, 4) /\ <<1, 3, 5>> = Append(<<1, 3>>, 5)
  OBVIOUS
<1>13. None # 1 /\ None # 3
  BY AlgorithmsAssumption
<1>14. NestedSpan(S, root)
  BY <1>7, <1>12 DEF NestedSpan, PathAbove, IsLlm
<1>15. NestedSpan(S, main)
  BY <1>7, <1>11, <1>12, <1>13 DEF NestedSpan, PathAbove, IsLlm
<1>16. NestedSpan(S, tool)
  BY <1>7, <1>11, <1>12, <1>13 DEF NestedSpan, PathAbove, IsLlm
<1>17. NestedSpan(S, next)
  BY <1>7, <1>11, <1>12, <1>13 DEF NestedSpan, PathAbove, IsLlm
<1>18. NestedSpan(S, call)
  BY <1>7, <1>11, <1>12, <1>13 DEF NestedSpan, PathAbove, IsLlm
<1>19. QED
  BY <1>8, <1>9, <1>14, <1>15, <1>16, <1>17, <1>18

\* Every list of agents is one of nested spans.
THEOREM CallsAreNested == Spec => []CallsNested
<1>1. Init => CallsNested
  BY ScaffoldNested DEF Init, CallsNested, All
<1>2. ASSUME ListInv, ListInv', CallsNested, [Next]_<<kind, list>> PROVE CallsNested'
  <2>1. ListInv /\ Listed(list) /\ Len(list) + 1 \in Nat
    BY <1>2 DEF ListInv, Listed
  <2>2. PICK n \in Nat : n = Len(list) + 1
    BY <2>1
  <2>3. ASSUME NEW p \in Parents, NEW start \in 0..MaxTime, NEW end \in 0..MaxTime, AddInterval(p, start, end)
        PROVE  CallsNested'
    BY <2>3 DEF AddInterval, CallsNested
  <2>4. ASSUME NEW p \in Parents, NEW type \in {"LLM", "DEFAULT"}, NEW collapsed \in BOOLEAN,
               AddNode(p, type, collapsed)
        PROVE  CallsNested'
    BY <2>4 DEF AddNode, CallsNested
  <2>5. ASSUME NEW p \in Parents, p # None, NEW hash \in Label \cup {None}, NEW bare \in BOOLEAN, AddCall(p, hash, bare)
        PROVE  CallsNested'
    <3>1. p \in Ids(All) /\ "LLM" \in Label
      BY <2>5 DEF Parents, All, Label
    <3>2. PICK s \in SpanRecord : s = Span(n, p, "LLM")
      BY <2>1, <2>2, <3>1, SpanTyped
    <3>3. s.id = n /\ s.parent = p
      BY <2>1, <2>2, <3>1, <3>2, SpanTyped
    <3>4. s.path = Append(The(All, p).path, n) /\ s.names # <<>> /\ s.type = "LLM"
      BY <2>1, <2>2, <3>1, <3>2, BelowParent
    <3>5. PICK t \in SpanRecord : t = AsCall(s, hash, n) /\ t.id = n /\ t.parent = p
      BY <2>2, <3>2, <3>3, NewCall
    <3>6. t.path = s.path /\ t.names = s.names /\ t.type = s.type
      BY <3>5 DEF AsCall, SpanRecord
    <3>7. PICK u : u = IF bare THEN [t EXCEPT !.path = <<>>] ELSE t
      OBVIOUS
    <3>8. u \in SpanRecord /\ u.id = n /\ u.parent = p
      BY <3>5, <3>7, NewPath
    <3>9. (u.path = t.path \/ u.path = <<>>) /\ u.names = t.names /\ u.type = t.type
      BY <3>7 DEF SpanRecord
    <3>10. list' = Append(list, u) /\ kind' = kind /\ kind = "agents" /\ The(All, p).type # "LLM"
      BY <2>2, <2>5, <3>2, <3>5, <3>7 DEF AddCall, AsCall, All
    <3>11. u.names # <<>> /\ u.type # "CACHED" /\ IsLlm(u)
           /\ (u.path = Append(The(All, p).path, u.id) \/ (IsLlm(u) /\ u.path = <<>>))
      BY <3>4, <3>6, <3>8, <3>9 DEF IsLlm
    <3>12. QED
      BY <1>2, <3>1, <3>8, <3>10, <3>11, AddedNested
  <2>6. ASSUME NEW p \in Parents, p # None, NEW type \in {"TOOL", "DEFAULT"}, AddTool(p, type)
        PROVE  CallsNested'
    <3>1. p \in Ids(All) /\ type \in Label
      BY <2>6 DEF Parents, All, Label
    <3>2. PICK s \in SpanRecord : s = Span(n, p, type)
      BY <2>1, <2>2, <3>1, SpanTyped
    <3>3. s.id = n /\ s.parent = p
      BY <2>1, <2>2, <3>1, <3>2, SpanTyped
    <3>4. s.path = Append(The(All, p).path, n) /\ s.names # <<>> /\ s.type = type
      BY <2>1, <2>2, <3>1, <3>2, BelowParent
    <3>5. list' = Append(list, s) /\ kind' = kind /\ kind = "agents"
      BY <2>2, <2>6, <3>2 DEF AddTool
    <3>6. ~IsLlm(s) /\ s.type # "CACHED"
      BY <3>4 DEF IsLlm
    <3>7. QED
      BY <1>2, <3>1, <3>3, <3>4, <3>5, <3>6, AddedNested
  <2>7. CASE UNCHANGED <<kind, list>>
    BY <1>2, <2>7 DEF CallsNested, All
  <2>8. {"main", "sub"} \subseteq Label
    BY DEF Label
  <2>9. QED
    BY <1>2, <2>3, <2>4, <2>5, <2>6, <2>7, <2>8 DEF Next
<1>3. QED
  BY <1>1, <1>2, ListsAreTrees, PTL DEF Spec


----------------------------------------------------------------------------
(* Tools and the agents they work for.                                      *)

\* How far s shares its way from the root with t, and with the calls of a.
Own(s) == IF s.path = <<>> THEN {} ELSE 1..(Len(s.path) - 1)
SharedWith(s, t) == {i \in Own(s) : s.path[i] \in Strict(t)} \cup {0}
Shared(s, t) == Max(SharedWith(s, t))
Ways(L, anchor, s, a) == {Shared(s, t) : t \in {u \in Llms(L) : anchor[u.id] = a}} \cup {0}
WayTo(L, anchor, s, a) == Max(Ways(L, anchor, s, a))

LEMMA SharedIs ==
  ASSUME NEW s \in SpanRecord, NEW t
  PROVE  /\ Shared(s, t) \in Nat /\ Shared(s, t) <= Len(s.path) /\ Len(s.path) \in Nat
         /\ Shared(s, t) \in SharedWith(s, t) /\ \A i \in SharedWith(s, t) : i <= Shared(s, t)
<1>1. PICK path \in Seq(Nat) : path = s.path
  BY DEF SpanRecord
<1>2. PICK X : X = SharedWith(s, t)
  OBVIOUS
<1>3. X \in SUBSET Nat /\ X # {} /\ \A i \in X : i <= Len(s.path)
  <2>1. Len(path) \in Nat /\ 0 <= Len(path) /\ \A i \in 1..(Len(path) - 1) : i <= Len(path)
    OBVIOUS
  <2>2. \A i \in X : i = 0 \/ i \in 1..(Len(path) - 1)
    BY <1>1, <1>2 DEF SharedWith, Own
  <2>3. 0 \in X
    BY <1>2 DEF SharedWith
  <2>4. QED
    BY <1>1, <2>1, <2>2, <2>3
<1>4. Len(s.path) \in Nat
  BY <1>1
<1>5. Max(X) \in X /\ \A i \in X : i <= Max(X)
  BY <1>3, <1>4, GreatestNat
<1>6. QED
  BY <1>2, <1>3, <1>4, <1>5 DEF Shared

LEMMA WayToIs ==
  ASSUME NEW L, Listed(L), NEW anchor, NEW s \in SpanRecord, NEW a
  PROVE  /\ WayTo(L, anchor, s, a) \in Nat
         /\ WayTo(L, anchor, s, a) \in Ways(L, anchor, s, a)
         /\ \A i \in Ways(L, anchor, s, a) : i <= WayTo(L, anchor, s, a)
<1>1. PICK X : X = Ways(L, anchor, s, a)
  OBVIOUS
<1>2. PICK N \in Nat : N = Len(s.path)
  BY SharedIs
<1>3. \A i \in X : i \in Nat /\ i <= N
  <2>1. \A t : Shared(s, t) \in Nat /\ Shared(s, t) <= N
    BY <1>2, SharedIs
  <2>2. QED
    BY <1>1, <1>2, <2>1 DEF Ways
<1>4. 0 \in X
  BY <1>1 DEF Ways
<1>5. Max(X) \in X /\ \A i \in X : i <= Max(X)
  BY <1>3, <1>4, GreatestNat
<1>6. QED
  BY <1>1, <1>3, <1>5 DEF WayTo

\* The agents above a span are those of the calls below it.
LEMMA AgentsAboveIs ==
  ASSUME NEW L, Listed(L), NEW x
  PROVE  /\ \A a \in AgentsAbove(L, AgentsOf(L), x) :
              \E t \in Llms(L) : x \in Strict(t) /\ SpanToAnchor(L)[t.id] = a
         /\ Hashed(L) # <<>> => \A t \in Llms(L) : x \in Strict(t) =>
              SpanToAnchor(L)[t.id] \in AgentsAbove(L, AgentsOf(L), x)
         /\ AgentsAbove(L, AgentsOf(L), x) # {} => Hashed(L) # <<>>
<1>1. PICK agent : agent = AgentsOf(L)
  OBVIOUS
<1>2. ASSUME NEW a \in AgentsAbove(L, agent, x)
      PROVE  /\ \E t \in Llms(L) : x \in Strict(t) /\ SpanToAnchor(L)[t.id] = a
             /\ Hashed(L) # <<>>
  <2>1. PICK t \in Range(L) : t.id \in DOMAIN agent /\ x \in Strict(t) /\ agent[t.id] = a
    BY DEF AgentsAbove
  <2>2. QED
    BY <1>1, <2>1, SameAgents
<1>3. ASSUME Hashed(L) # <<>>, NEW t \in Llms(L), x \in Strict(t)
      PROVE  SpanToAnchor(L)[t.id] \in AgentsAbove(L, agent, x)
  <2>1. t \in Range(L) /\ t.id \in DOMAIN agent
    BY <1>1, <1>3, AgentsOfIs DEF Llms, Ids
  <2>2. agent[t.id] \in AgentsAbove(L, agent, x)
    BY <1>3, <2>1 DEF AgentsAbove
  <2>3. QED
    BY <1>1, <2>1, <2>2, SameAgents
<1>4. QED
  BY <1>1, <1>2, <1>3

\* The deepest ancestor that an agent claims is as far as any agent goes along
\* with the tool.
LEMMA ToolsResolved ==
  ASSUME NEW L, Listed(L), NEW s \in Range(L), ~IsLlm(s), NEW anchor, anchor = SpanToAnchor(L), anchor[s.id] # None
  PROVE  /\ WayTo(L, anchor, s, anchor[s.id]) > WayTo(L, anchor, s, None)
         /\ \A a : WayTo(L, anchor, s, a) <= WayTo(L, anchor, s, anchor[s.id])
<1>1. PICK C : C = Claimed(L, AgentsOf(L), s)
  OBVIOUS
<1>2. PICK r : r = anchor[s.id]
  OBVIOUS
<1>3. PICK above : above = [i \in Own(s) |-> AgentsAbove(L, AgentsOf(L), s.path[i])]
  OBVIOUS
<1>4. s \in SpanRecord /\ Len(s.path) \in Nat /\ Own(s) \subseteq 1..(Len(s.path) - 1)
  <2>1. s \in SpanRecord
    BY ListedIs
  <2>2. Own(s) \subseteq 1..(Len(s.path) - 1)
    BY DEF Own
  <2>3. QED
    BY <2>1, <2>2, SharedIs
<1>5. C = {i \in Own(s) : above[i] # {}}
  <2>1. s.path = <<>> => 1..(Len(s.path) - 1) = {}
    <3>1. s.path = <<>> => Len(s.path) = 0
      OBVIOUS
    <3>2. Len(s.path) = 0 => 1..(Len(s.path) - 1) = {}
      OBVIOUS
    <3>3. QED
      BY <3>1, <3>2
  <2>2. Own(s) = 1..(Len(s.path) - 1)
    BY <2>1 DEF Own
  <2>3. QED
    BY <1>1, <1>3, <2>2 DEF Claimed
<1>6. PICK m : m = Max(C)
  OBVIOUS
<1>7. C # {} /\ None \notin AgentsAbove(L, AgentsOf(L), s.path[m]) /\ r \in AgentsAbove(L, AgentsOf(L), s.path[m])
  <2>1. AgentTable(L, AgentsOf(L)) /\ r = ResolveSubagent(L, AgentsOf(L), s)
    BY <1>2, SpanToAnchorIs
  <2>2. QED
    BY <1>1, <1>2, <1>6, <2>1, ResolveIs
<1>8. m \in C /\ m \in Nat /\ m > 0 /\ \A i \in C : i <= m
  <2>1. C \in SUBSET Nat /\ \A i \in C : i <= Len(s.path) /\ i > 0
    BY <1>4, <1>5
  <2>2. m \in C /\ \A i \in C : i <= m
    BY <1>4, <1>6, <1>7, <2>1, GreatestNat
  <2>3. QED
    BY <2>1, <2>2
<1>9. m \in Own(s) /\ None \notin above[m] /\ r \in above[m]
  BY <1>3, <1>5, <1>7, <1>8
<1>10. Hashed(L) # <<>>
  BY <1>7, AgentsAboveIs
<1>11. \A i \in Own(s), t \in Llms(L) : s.path[i] \in Strict(t) => anchor[t.id] \in above[i]
  BY <1>3, <1>10, AgentsAboveIs
<1>12. \A i \in Own(s) : \A a \in above[i] : \E t \in Llms(L) : s.path[i] \in Strict(t) /\ anchor[t.id] = a
  BY <1>3, AgentsAboveIs
<1>13. ASSUME NEW t \in Llms(L)
       PROVE  Shared(s, t) <= m /\ (Shared(s, t) = m => anchor[t.id] \in above[m])
  <2>1. PICK i : i = Shared(s, t)
    OBVIOUS
  <2>2. i = 0 \/ (i \in Own(s) /\ s.path[i] \in Strict(t))
    BY <1>4, <2>1, SharedIs DEF SharedWith
  <2>3. i # 0 => i \in C /\ anchor[t.id] \in above[i]
    BY <1>5, <1>11, <2>2
  <2>4. CASE i = 0
    <3>1. 0 <= m /\ 0 # m
      BY <1>8
    <3>2. QED
      BY <2>1, <2>4, <3>1
  <2>5. CASE i # 0
    <3>1. i <= m
      BY <1>8, <2>3, <2>5
    <3>2. QED
      BY <2>1, <2>3, <2>5, <3>1
  <2>6. QED
    BY <2>4, <2>5
<1>14. ASSUME NEW a PROVE WayTo(L, anchor, s, a) <= m /\ (WayTo(L, anchor, s, a) = m => a \in above[m])
  <2>1. PICK w : w = WayTo(L, anchor, s, a)
    OBVIOUS
  <2>2. w = 0 \/ \E t \in Llms(L) : anchor[t.id] = a /\ w = Shared(s, t)
    BY <1>4, <2>1, WayToIs DEF Ways
  <2>3. QED
    BY <1>8, <1>13, <2>1, <2>2
<1>15. WayTo(L, anchor, s, r) = m
  <2>1. PICK t \in Llms(L) : s.path[m] \in Strict(t) /\ anchor[t.id] = r
    BY <1>9, <1>12
  <2>2. m \in SharedWith(s, t)
    BY <1>9, <2>1 DEF SharedWith
  <2>3. m <= Shared(s, t)
    BY <1>4, <2>2, SharedIs
  <2>4. Shared(s, t) = m
    <3>1. PICK x \in Nat : x = Shared(s, t)
      BY <1>4, SharedIs
    <3>2. QED
      BY <1>8, <1>13, <2>3, <3>1
  <2>5. m \in Ways(L, anchor, s, r)
    BY <2>1, <2>4 DEF Ways
  <2>6. PICK w \in Nat : w = WayTo(L, anchor, s, r)
    BY <1>4, WayToIs
  <2>7. m <= w /\ w <= m
    BY <1>4, <1>14, <2>5, <2>6, WayToIs
  <2>8. QED
    BY <1>8, <2>6, <2>7
<1>16. WayTo(L, anchor, s, None) < m
  <2>1. PICK w \in Nat : w = WayTo(L, anchor, s, None)
    BY <1>4, WayToIs
  <2>2. w <= m /\ w # m
    BY <1>9, <1>14, <2>1
  <2>3. QED
    BY <1>8, <2>1, <2>2
<1>17. QED
  BY <1>2, <1>8, <1>14, <1>15, <1>16

LEMMA ToolsGrouped ==
  ASSUME ListInv
  PROVE  ToolsWithTheirAgent
<1>1. PICK anchor : anchor = SpanToAnchor(list)
  OBVIOUS
<1>2. SUFFICES ASSUME NEW s \in All \ {t \in All : IsLlm(t)}, anchor[s.id] # None
      PROVE  /\ WayTo(list, anchor, s, anchor[s.id]) > WayTo(list, anchor, s, None)
             /\ \A a \in Range(anchor) : WayTo(list, anchor, s, a) <= WayTo(list, anchor, s, anchor[s.id])
  BY <1>1, SMTT(60) DEF ToolsWithTheirAgent, WayTo, Ways, Shared, SharedWith, Own, Llms, All
<1>3. Listed(list) /\ s \in Range(list) /\ ~IsLlm(s)
  BY DEF ListInv, All
<1>4. QED
  BY <1>1, <1>2, <1>3, ToolsResolved


----------------------------------------------------------------------------
(* The main agent.                                                          *)

LEMMA FrontOf ==
  ASSUME NEW T, NEW L \in Seq(T), L # <<>>
  PROVE  /\ Front(L) \in Seq(T) /\ Len(L) \in Nat /\ Len(L) > 0 /\ Len(Front(L)) = Len(L) - 1
         /\ \A i \in 1..(Len(L) - 1) : Front(L)[i] = L[i]
<1>1. PICK k : k = Len(L) - 1
  OBVIOUS
<1>2. Len(L) \in Nat /\ Len(L) > 0
  OBVIOUS
<1>3. k \in 0..Len(L)
  BY <1>1, <1>2
<1>4. Front(L) = SubSeq(L, 1, k)
  BY <1>1 DEF Front
<1>5. /\ SubSeq(L, 1, k) \in Seq(T) /\ Len(SubSeq(L, 1, k)) = k
      /\ \A i \in 1..k : SubSeq(L, 1, k)[i] = L[i]
  BY <1>3, Piece
<1>6. QED
  BY <1>1, <1>2, <1>4, <1>5

\* Numbers in a list have a bound.
LEMMA Bounded ==
  ASSUME NEW n \in Nat, NEW f \in [1..n -> Nat]
  PROVE  \E N \in Nat : \A i \in 1..n : f[i] <= N
<1> DEFINE P == {k \in 0..n : \E N \in Nat : \A i \in 1..k : f[i] <= N}
<1>1. 0 \in P
  <2>1. 1..0 = {} /\ 0 \in 0..n
    OBVIOUS
  <2>2. QED
    BY <2>1
<1>2. ASSUME NEW k \in 1..n, k - 1 \in P PROVE k \in P
  <2>1. PICK N \in Nat : \A i \in 1..(k - 1) : f[i] <= N
    BY <1>2
  <2>2. PICK M \in Nat : N <= M /\ f[k] <= M
    <3>1. f[k] \in Nat
      OBVIOUS
    <3>2. N + f[k] \in Nat /\ N <= N + f[k] /\ f[k] <= N + f[k]
      BY <3>1
    <3>3. QED
      BY <3>2
  <2>3. ASSUME NEW i \in 1..k PROVE f[i] <= M
    <3>1. CASE i = k
      BY <2>2, <3>1
    <3>2. CASE i # k
      <4>1. i \in 1..(k - 1) /\ i \in 1..n
        BY <3>2
      <4>2. f[i] <= N /\ f[i] \in Nat
        BY <2>1, <4>1
      <4>3. QED
        BY <2>2, <4>2
    <3>3. QED
      BY <3>1, <3>2
  <2>4. QED
    BY <2>3
<1> HIDE DEF P
<1>3. n \in P
  <2>1. \A k \in 0..n : k \in P
    BY <1>1, <1>2, Counting
  <2>2. QED
    BY <2>1
<1>4. QED
  BY <1>3 DEF P

\* The main agent is the agent of a call with the shortest path of the first
\* calls with a prompt hash.
LEMMA MainAgentIs ==
  ASSUME NEW L, Listed(L), Hashed(L) # <<>>
  PROVE  \E s \in Range(Hashed(L)) :
           MainAgent(Hashed(L)) = Cluster(s) /\ \A t \in Range(Hashed(L)) : Len(s.names) <= Len(t.names)
<1>1. PICK w \in Seq(Range(L)) : w = Hashed(L)
  BY HashedIs
<1>2. PICK n \in Nat : n = Len(w)
  OBVIOUS
<1>3. n > 0 /\ DOMAIN w = 1..n
  <2>1. w # <<>> => Len(w) > 0
    OBVIOUS
  <2>2. QED
    BY <1>1, <1>2, <2>1
<1>4. PICK len : len = [i \in 1..n |-> Len(w[i].names)]
  OBVIOUS
<1>5. PICK tokens : tokens = [i \in 1..n |-> w[i].tokens]
  OBVIOUS
<1>6. \A i \in 1..n : w[i] \in Range(L) /\ w[i] \in SpanRecord
  BY <1>2, ListedIs
<1>7. len \in [1..n -> Nat] /\ tokens \in [1..n -> Nat]
  <2>1. \A s \in SpanRecord : s.tokens \in Nat /\ s.names \in Seq(Label)
    BY DEF SpanRecord
  <2>2. \A names \in Seq(Label) : Len(names) \in Nat
    OBVIOUS
  <2>3. QED
    BY <1>4, <1>5, <1>6, <2>1, <2>2
<1> DEFINE better(i, j) ==
             \/ Len(w[i].names) < Len(w[j].names)
             \/ /\ Len(w[i].names) = Len(w[j].names)
                /\ w[i].tokens > w[j].tokens \/ (w[i].tokens = w[j].tokens /\ i <= j)
           Wins(i) == \A j \in 1..n : better(i, j)
<1>8. MainAgent(Hashed(L)) = Cluster(w[CHOOSE i \in 1..n : Wins(i)])
  BY <1>1, <1>3 DEF MainAgent
<1>9. PICK least \in Nat : (\E i \in 1..n : len[i] = least) /\ \A i \in 1..n : least <= len[i]
  <2>1. PICK V : V = {len[i] : i \in 1..n}
    OBVIOUS
  <2>2. V \in SUBSET Nat /\ V # {}
    BY <1>3, <1>7, <2>1
  <2>3. Min(V) \in V /\ \A x \in V : Min(V) <= x
    BY <2>2, LeastNat
  <2>4. QED
    BY <2>1, <2>2, <2>3
<1>10. PICK B : B = {i \in 1..n : len[i] = least}
  OBVIOUS
<1>11. PICK N \in Nat : \A i \in 1..n : tokens[i] <= N
  BY <1>7, Bounded
<1>12. PICK most \in [B -> Nat] : \A i \in B : most[i] = tokens[i]
  <2>1. [i \in B |-> tokens[i]] \in [B -> Nat]
    BY <1>7, <1>10
  <2>2. QED
    BY <2>1
<1>13. PICK first \in [B -> Nat] : \A i \in B : first[i] = i
  <2>1. [i \in B |-> i] \in [B -> Nat]
    BY <1>10
  <2>2. QED
    BY <2>1
<1>14. PICK a \in B : \A b \in B : most[a] > most[b] \/ (most[a] = most[b] /\ first[a] <= first[b])
  <2>1. B # {} /\ \A i \in B : most[i] <= N
    BY <1>9, <1>10, <1>11, <1>12
  <2>2. QED
    BY <2>1, BestOf
<1>15. Wins(a)
  <2>1. a \in 1..n /\ len[a] = least
    BY <1>10
  <2>2. ASSUME NEW j \in 1..n
        PROVE  \/ len[a] < len[j]
               \/ /\ len[a] = len[j]
                  /\ tokens[a] > tokens[j] \/ (tokens[a] = tokens[j] /\ a <= j)
    <3>1. CASE j \in B
      <4>1. len[j] = least
        BY <1>10, <3>1
      <4>2. tokens[a] > tokens[j] \/ (tokens[a] = tokens[j] /\ a <= j)
        BY <1>12, <1>13, <1>14, <3>1
      <4>3. QED
        BY <2>1, <4>1, <4>2
    <3>2. CASE j \notin B
      <4>1. len[j] # least /\ least <= len[j] /\ len[j] \in Nat
        BY <1>7, <1>9, <1>10, <3>2
      <4>2. QED
        BY <2>1, <4>1
    <3>3. QED
      BY <3>1, <3>2
  <2>3. \A j \in 1..n : len[j] = Len(w[j].names) /\ tokens[j] = w[j].tokens
    BY <1>4, <1>5
  <2>4. ASSUME NEW j \in 1..n PROVE better(a, j)
    BY <2>1, <2>2, <2>3
  <2>5. QED
    BY <2>4
<1>16. PICK i : i = CHOOSE k \in 1..n : Wins(k)
  OBVIOUS
<1>17. i \in 1..n /\ Wins(i)
  <2>1. a \in 1..n
    BY <1>10
  <2> HIDE DEF Wins
  <2>2. QED
    BY <1>15, <1>16, <2>1
<1>18. ASSUME NEW j \in 1..n PROVE len[i] <= len[j]
  <2>1. len[i] = Len(w[i].names) /\ len[j] = Len(w[j].names) /\ len[i] \in Nat /\ len[j] \in Nat
    BY <1>4, <1>7, <1>17
  <2>2. Len(w[i].names) < Len(w[j].names) \/ Len(w[i].names) = Len(w[j].names)
    BY <1>17
  <2>3. QED
    BY <2>1, <2>2
<1>19. MainAgent(Hashed(L)) = Cluster(w[i]) /\ w[i] \in Range(w)
  BY <1>2, <1>8, <1>16, <1>17, RangeOf
<1>20. ASSUME NEW t \in Range(w) PROVE Len(w[i].names) <= Len(t.names)
  <2>1. PICK j \in 1..n : w[j] = t
    BY <1>2, RangeOf
  <2>2. QED
    BY <1>4, <1>17, <1>18, <2>1
<1>21. QED
  BY <1>1, <1>19, <1>20


\* Without a call with a prompt hash there is no group.
LEMMA NoAgents ==
  ASSUME NEW L, Listed(L), Hashed(L) = <<>>, NEW id \in DOMAIN SpanToAnchor(L)
  PROVE  SpanToAnchor(L)[id] = None
<1>1. SUFFICES ASSUME SpanToAnchor(L)[id] # None PROVE FALSE
  OBVIOUS
<1>2. id \in Ids(Range(L))
  BY SpanToAnchorIs
<1>3. PICK s \in Llms(L) : SpanToAnchor(L)[s.id] = SpanToAnchor(L)[id]
  BY <1>1, <1>2, GroupsHaveCalls
<1>4. SpanToAnchor(L)[s.id] = None
  BY <1>3, SpanToAnchorIs
<1>5. QED
  BY <1>1, <1>3, <1>4

\* A call stands alone if it is of the main agent.
LEMMA Alone ==
  ASSUME NEW L, Listed(L), Hashed(L) # <<>>, NEW s \in Llms(L)
  PROVE  SpanToAnchor(L)[s.id] = None <=> Cluster(s) = MainAgent(Hashed(L))
<1>1. AnchorOf(L, s) # None
  BY AnchorOfIs, AlgorithmsAssumption
<1>2. QED
  BY <1>1, SpanToAnchorIs

LEMMA SameDepth ==
  ASSUME NEW s \in SpanRecord, NEW t \in SpanRecord, s.names # <<>>, t.names # <<>>, Cluster(s) = Cluster(t)
  PROVE  Len(s.names) = Len(t.names)
<1>1. PICK q \in Seq(Label) : q = s.names
  BY DEF SpanRecord
<1>2. PICK r \in Seq(Label) : r = t.names
  BY DEF SpanRecord
<1>3. Front(q) = Front(r)
  BY <1>1, <1>2 DEF Cluster, ParentPath
<1>4. Len(q) \in Nat /\ Len(r) \in Nat /\ Len(Front(q)) = Len(q) - 1 /\ Len(Front(r)) = Len(r) - 1
  BY <1>1, <1>2, FrontOf
<1>5. QED
  BY <1>1, <1>2, <1>3, <1>4

LEMMA MainAgentInline ==
  ASSUME ListInv, CallsNested
  PROVE  MainInline
<1>1. SUFFICES ASSUME kind = "agents" PROVE MainInline
  BY DEF MainInline
<1>2. PICK L : L = list
  OBVIOUS
<1>3. Listed(L) /\ All = Range(L)
  BY <1>2 DEF ListInv, All
<1>4. PICK agent : agent = SpanToAnchor(L)
  OBVIOUS
<1>5. PICK w \in Seq(Range(L)) : w = Hashed(L) /\ Range(w) \subseteq Llms(L)
  BY <1>3, HashedIs
<1>6. PICK early : early = Range(w)
  OBVIOUS
<1>7. early = {} <=> w = <<>>
  <2>1. Range(w) = {w[i] : i \in 1..Len(w)} /\ Len(w) \in Nat
    BY RangeOf
  <2>2. w # <<>> => 1 \in 1..Len(w)
    OBVIOUS
  <2>3. w = <<>> => 1..Len(w) = {}
    <3>1. Len(<<>>) = 0 /\ 1..0 = {}
      OBVIOUS
    <3>2. QED
      BY <3>1
  <2>4. QED
    BY <1>6, <2>1, <2>2, <2>3
<1>8. \A s \in Range(L) : s \in SpanRecord /\ s.names # <<>>
  BY <1>1, <1>3, ListedIs DEF CallsNested, NestedSpan
<1>9. \A s \in Llms(L) : s \in Range(L)
  BY DEF Llms
<1>10. early = {} => \A id \in DOMAIN agent : agent[id] = None
  BY <1>3, <1>4, <1>5, <1>7, NoAgents
<1>11. ASSUME early # {}
       PROVE  /\ {s \in early : agent[s.id] = None} # {}
              /\ \A s \in {r \in early : agent[r.id] = None}, t \in early : Len(s.names) <= Len(t.names)
  <2>1. Hashed(L) # <<>>
    BY <1>5, <1>7, <1>11
  <2>2. PICK m \in early : MainAgent(Hashed(L)) = Cluster(m) /\ \A t \in early : Len(m.names) <= Len(t.names)
    BY <1>3, <1>5, <1>6, <2>1, MainAgentIs
  <2>3. agent[m.id] = None
    BY <1>3, <1>4, <1>5, <1>6, <2>1, <2>2, Alone
  <2>4. ASSUME NEW s \in early, agent[s.id] = None, NEW t \in early PROVE Len(s.names) <= Len(t.names)
    <3>1. Cluster(s) = Cluster(m)
      BY <1>3, <1>4, <1>5, <1>6, <2>1, <2>2, <2>4, Alone
    <3>2. Len(s.names) = Len(m.names)
      BY <1>5, <1>6, <1>8, <1>9, <3>1, SameDepth
    <3>3. QED
      BY <2>2, <3>2
  <2>5. QED
    BY <2>2, <2>3, <2>4
<1>12. ASSUME NEW s \in Llms(L), NEW t \in Llms(L), Cluster(s) = Cluster(t)
       PROVE  agent[s.id] = None <=> agent[t.id] = None
  <2>1. CASE Hashed(L) = <<>>
    BY <1>3, <1>4, <2>1, SpanToAnchorIs
  <2>2. CASE Hashed(L) # <<>>
    BY <1>3, <1>4, <1>12, <2>2, Alone
  <2>3. QED
    BY <2>1, <2>2
<1>13. \A s, t \in All : IsLlm(s) /\ IsLlm(t) /\ Cluster(s) = Cluster(t) =>
         (agent[s.id] = None <=> agent[t.id] = None)
  BY <1>3, <1>12 DEF Llms
<1>14. QED
  BY <1>2, <1>4, <1>5, <1>6, <1>10, <1>11, <1>13 DEF MainInline


----------------------------------------------------------------------------
(* Invocations of one agent.                                                *)

LEMMA AppendIs ==
  ASSUME NEW T, NEW q \in Seq(T), NEW x \in T
  PROVE  /\ Append(q, x) \in Seq(T) /\ Append(q, x) # <<>> /\ Front(Append(q, x)) = q
         /\ Len(q) \in Nat /\ Len(Append(q, x)) = Len(q) + 1 /\ Append(q, x)[Len(q) + 1] = x
         /\ \A i \in 1..Len(q) : Append(q, x)[i] = q[i]
<1>1. PICK r \in Seq(T) : r = Append(q, x)
  BY AppendProperties
<1>2. r # <<>> /\ Len(r) = Len(q) + 1 /\ r[Len(q) + 1] = x /\ \A i \in 1..Len(q) : r[i] = q[i]
  BY <1>1, AppendProperties
<1>3. PICK n \in Nat : n = Len(q)
  OBVIOUS
<1>4. PICK f \in Seq(T) : f = Front(r) /\ Len(f) = n /\ \A i \in 1..n : f[i] = r[i]
  <2>1. /\ Front(r) \in Seq(T) /\ Len(Front(r)) = Len(r) - 1
        /\ \A i \in 1..(Len(r) - 1) : Front(r)[i] = r[i]
    BY <1>2, FrontOf
  <2>2. Len(r) - 1 = n
    BY <1>2, <1>3
  <2>3. QED
    BY <2>1, <2>2
<1>5. f = q
  <2>1. Len(f) = Len(q) /\ \A i \in 1..Len(f) : f[i] = q[i]
    BY <1>2, <1>3, <1>4
  <2>2. QED
    BY <2>1, SeqEqual
<1>6. QED
  BY <1>1, <1>2, <1>3, <1>4, <1>5

Caller(L, s) == The(Range(L), s.parent)
CallsLike(L, s) == {t \in Llms(L) : Cluster(t) = Cluster(s)}
Looping(L, s) == Cardinality({t \in CallsLike(L, s) : t.parent = s.parent}) >= 2

NestedList(L) == Listed(L) /\ \A s \in Range(L) : NestedSpan(Range(L), s)

\* A call and what is above it.
LEMMA CallBelow ==
  ASSUME NEW L, NestedList(L), NEW s \in Llms(L)
  PROVE  /\ s.parent # None /\ Caller(L, s) \in Range(L) /\ Caller(L, s).id = s.parent
         /\ Caller(L, s).path = Append(PathAbove(Range(L), Caller(L, s)), s.parent)
         /\ s.path = <<>> \/ s.path = Append(Caller(L, s).path, s.id)
<1>1. PICK S : S = Range(L) /\ Forest(S) /\ s \in S /\ IsLlm(s)
  BY DEF NestedList, Listed, Llms
<1>2. NestedSpan(S, s)
  BY <1>1 DEF NestedList
<1>3. PICK p : p = The(S, s.parent)
  OBVIOUS
<1>4. s.parent # None /\ ~IsLlm(p)
  BY <1>1, <1>2, <1>3 DEF NestedSpan
<1>5. p \in S /\ p.id = s.parent
  BY <1>1, <1>3, <1>4, ParentOf DEF Forest
<1>6. p.path = Append(PathAbove(S, p), p.id)
  BY <1>1, <1>4, <1>5 DEF NestedList, NestedSpan
<1>7. s.path = <<>> \/ s.path = Append(p.path, s.id)
  BY <1>2, <1>3, <1>4 DEF NestedSpan, PathAbove
<1>8. QED
  BY <1>1, <1>3, <1>4, <1>5, <1>6, <1>7 DEF Caller

\* The paths above a span are numbers.
LEMMA PathsTyped ==
  ASSUME NEW L, Listed(L), NEW p \in Range(L)
  PROVE  p.path \in Seq(Nat) /\ PathAbove(Range(L), p) \in Seq(Nat) /\ p.id \in Nat
<1>1. \A s \in Range(L) : s.path \in Seq(Nat) /\ s.id \in Nat
  BY ListedIs DEF SpanRecord
<1>2. CASE p.parent = None
  BY <1>1, <1>2 DEF PathAbove
<1>3. CASE p.parent # None
  <2>1. The(Range(L), p.parent) \in Range(L)
    BY <1>3, ParentOf DEF Listed, Forest
  <2>2. QED
    BY <1>1, <1>3, <2>1 DEF PathAbove
<1>4. QED
  BY <1>2, <1>3

\* The second last id of a path is the parent.
LEMMA ParentIsDirect ==
  ASSUME NEW L, NestedList(L), NEW s \in Llms(L)
  PROVE  DirectParent(s) = s.parent
<1>1. CASE s.path = <<>>
  <2>1. ~(Len(s.path) >= 2)
    <3>1. Len(<<>>) = 0
      OBVIOUS
    <3>2. QED
      BY <1>1, <3>1
  <2>2. QED
    BY <2>1 DEF DirectParent
<1>2. CASE s.path # <<>>
  <2>1. PICK p \in Range(L) : p = Caller(L, s)
    BY CallBelow
  <2>2. PICK q \in Seq(Nat) : q = PathAbove(Range(L), p)
    BY PathsTyped DEF NestedList
  <2>3. PICK r \in Seq(Nat) : r = p.path
    BY PathsTyped DEF NestedList
  <2>4. s.parent \in Nat /\ s.id \in Nat
    <3>1. s \in Range(L)
      BY DEF Llms
    <3>2. QED
      BY <2>1, <3>1, CallBelow, PathsTyped DEF NestedList
  <2>5. r = Append(q, s.parent) /\ s.path = Append(r, s.id)
    BY <1>2, <2>1, <2>2, <2>3, CallBelow
  <2>6. Len(q) \in Nat /\ Len(r) = Len(q) + 1 /\ r[Len(q) + 1] = s.parent
    BY <2>4, <2>5, AppendIs
  <2>7. Len(s.path) = Len(r) + 1 /\ \A i \in 1..Len(r) : s.path[i] = r[i]
    BY <2>4, <2>5, AppendIs
  <2>8. Len(s.path) >= 2 /\ Len(s.path) - 1 = Len(q) + 1 /\ Len(q) + 1 \in 1..Len(r)
    BY <2>6, <2>7
  <2>9. s.path[Len(s.path) - 1] = s.parent
    BY <2>6, <2>7, <2>8
  <2>10. QED
    BY <2>8, <2>9 DEF DirectParent
<1>3. QED
  BY <1>1, <1>2

\* computeInvocationRoots: a call that loops with others has the path of its
\* parent, another the path above it.
LEMMA PrefixIs ==
  ASSUME NEW L, NestedList(L), NEW s \in Llms(L), s.path # <<>>
  PROVE  StructuralPrefix(CallsLike(L, s), s) =
           IF Looping(L, s) THEN Caller(L, s).path ELSE PathAbove(Range(L), Caller(L, s))
<1>1. PICK p \in Range(L) : p = Caller(L, s)
  BY CallBelow
<1>2. PICK q \in Seq(Nat) : q = PathAbove(Range(L), p)
  BY PathsTyped DEF NestedList
<1>3. PICK r \in Seq(Nat) : r = p.path
  BY PathsTyped DEF NestedList
<1>4. s.parent \in Nat /\ s.id \in Nat
  <2>1. s \in Range(L)
    BY DEF Llms
  <2>2. QED
    BY <1>1, <2>1, CallBelow, PathsTyped DEF NestedList
<1>5. r = Append(q, s.parent) /\ s.path = Append(r, s.id)
  BY <1>1, <1>2, <1>3, CallBelow
<1>6. Len(q) \in Nat /\ Len(r) = Len(q) + 1 /\ Front(r) = q
  BY <1>4, <1>5, AppendIs
<1>7. Len(s.path) = Len(r) + 1 /\ Front(s.path) = r
  <2>1. s.path = Append(r, s.id)
    BY <1>5
  <2>2. QED
    BY <1>4, <2>1, AppendIs
<1>8. Len(s.path) >= 2 /\ ~(Len(s.path) < 2) /\ (Len(s.path) <= 2 => Len(q) = 0)
  BY <1>6, <1>7
<1>9. Len(q) = 0 => q = <<>>
  OBVIOUS
<1>10. PICK C : C = CallsLike(L, s)
  OBVIOUS
<1>11. PICK container \in BOOLEAN : container <=> Looping(L, s)
  <2>1. \E b \in BOOLEAN : b <=> Looping(L, s)
    <3>1. CASE Looping(L, s)
      BY <3>1
    <3>2. CASE ~Looping(L, s)
      BY <3>2
    <3>3. QED
      BY <3>1, <3>2
  <2>2. QED
    BY <2>1
<1>12. container <=> Cardinality({t \in C : DirectParent(t) = DirectParent(s)}) >= 2
  <2>1. \A t \in C : DirectParent(t) = t.parent
    BY <1>10, ParentIsDirect DEF CallsLike
  <2>2. {t \in C : DirectParent(t) = DirectParent(s)} = {t \in C : t.parent = s.parent}
    BY <2>1, ParentIsDirect
  <2>3. QED
    BY <1>10, <1>11, <2>2 DEF Looping
<1>13. StructuralPrefix(C, s) =
         CASE container /\ Len(s.path) >= 2 -> Front(s.path)
           [] container /\ Len(s.path) < 2  -> IF s.parent = None THEN <<>> ELSE <<s.parent>>
           [] ~container /\ Len(s.path) <= 2 -> <<>>
           [] OTHER -> Front(Front(s.path))
  BY <1>12, ParentIsDirect DEF StructuralPrefix
<1>14. PICK n : n = Len(s.path)
  OBVIOUS
<1>15. StructuralPrefix(C, s) =
         CASE container /\ n >= 2 -> r
           [] container /\ n < 2  -> IF s.parent = None THEN <<>> ELSE <<s.parent>>
           [] ~container /\ n <= 2 -> <<>>
           [] OTHER -> q
  BY <1>6, <1>7, <1>13, <1>14
<1>16. StructuralPrefix(C, s) = IF container THEN r ELSE q
  BY <1>8, <1>9, <1>14, <1>15
<1>17. QED
  BY <1>1, <1>2, <1>3, <1>10, <1>11, <1>16

\* Two calls of a subagent are of one invocation if they have one prefix.
LEMMA SameInvocation ==
  ASSUME NEW L, Listed(L), NEW s \in Llms(L), NEW t \in Llms(L), Cluster(s) = Cluster(t),
         SpanToAnchor(L)[s.id] # None, SpanToAnchor(L)[t.id] # None
  PROVE  SpanToAnchor(L)[s.id] = SpanToAnchor(L)[t.id] <=>
           StructuralPrefix(CallsLike(L, s), s) = StructuralPrefix(CallsLike(L, t), t)
<1>1. SpanToAnchor(L)[s.id] = AnchorOf(L, s) /\ SpanToAnchor(L)[t.id] = AnchorOf(L, t)
  BY SpanToAnchorIs
<1>2. AnchorOf(L, s) = AnchorOf(L, t) <=> AgentKey(L, s) = AgentKey(L, t)
  BY AnchorOfIs
<1>3. PICK C : C = CallsLike(L, s)
  OBVIOUS
<1>4. C = CallsLike(L, t) /\ s \in C /\ t \in C
  BY <1>3 DEF CallsLike
<1>5. AgentKey(L, s) = <<Cluster(s), InvocationRoot(C, s)>> /\ AgentKey(L, t) = <<Cluster(t), InvocationRoot(C, t)>>
  <2>1. C = {u \in Range(L) : IsLlm(u) /\ Cluster(u) = Cluster(s)}
    BY <1>3 DEF CallsLike, Llms
  <2>2. C = {u \in Range(L) : IsLlm(u) /\ Cluster(u) = Cluster(t)}
    BY <2>1
  <2>3. QED
    BY <2>1, <2>2 DEF AgentKey
<1>6. AgentKey(L, s) = AgentKey(L, t) <=> InvocationRoot(C, s) = InvocationRoot(C, t)
  BY <1>5
<1>7. InvocationRoot(C, s) = InvocationRoot(C, t) <=> StructuralPrefix(C, s) = StructuralPrefix(C, t)
  <2>1. CASE StructuralPrefix(C, s) = StructuralPrefix(C, t)
    BY <2>1 DEF InvocationRoot
  <2>2. CASE StructuralPrefix(C, s) # StructuralPrefix(C, t)
    <3>1. InvocationRoot(C, s) = StructuralPrefix(C, s) /\ InvocationRoot(C, t) = StructuralPrefix(C, t)
      BY <1>4, <2>2 DEF InvocationRoot
    <3>2. QED
      BY <2>2, <3>1
  <2>3. QED
    BY <2>1, <2>2
<1>8. QED
  BY <1>1, <1>2, <1>3, <1>4, <1>6, <1>7

LEMMA InvocationsAreApart ==
  ASSUME ListInv, CallsNested
  PROVE  InvocationsApart
<1>1. SUFFICES ASSUME kind = "agents" PROVE InvocationsApart
  BY DEF InvocationsApart
<1>2. PICK L : L = list
  OBVIOUS
<1>3. All = Range(L) /\ NestedList(L) /\ Listed(L)
  BY <1>1, <1>2 DEF ListInv, All, CallsNested, NestedList
<1>4. PICK agent : agent = SpanToAnchor(L)
  OBVIOUS
<1>5. ASSUME NEW s \in Llms(L), agent[s.id] # None, s.path # <<>>,
             NEW t \in Llms(L), agent[t.id] # None, t.path # <<>>, Cluster(s) = Cluster(t)
      PROVE  /\ Looping(L, s) /\ Looping(L, t) => (agent[s.id] = agent[t.id] <=> s.parent = t.parent)
             /\ ~Looping(L, s) /\ ~Looping(L, t) /\ Caller(L, s).parent = Caller(L, t).parent =>
                  agent[s.id] = agent[t.id]
  <2>1. PICK p \in Range(L) : p = Caller(L, s)
    BY <1>3, CallBelow
  <2>2. PICK q \in Range(L) : q = Caller(L, t)
    BY <1>3, CallBelow
  <2>3. p.id = s.parent /\ q.id = t.parent
    BY <1>3, <2>1, <2>2, CallBelow
  <2>4. p.path = Append(PathAbove(Range(L), p), p.id) /\ q.path = Append(PathAbove(Range(L), q), q.id)
    BY <1>3, <2>1, <2>2, CallBelow
  <2>5. agent[s.id] = agent[t.id] <=>
          (IF Looping(L, s) THEN p.path ELSE PathAbove(Range(L), p)) =
          (IF Looping(L, t) THEN q.path ELSE PathAbove(Range(L), q))
    BY <1>3, <1>4, <1>5, <2>1, <2>2, SameInvocation, PrefixIs
  <2>6. s.parent = t.parent => p = q
    BY <2>1, <2>2 DEF Caller
  <2>7. p.path = q.path => s.parent = t.parent
    <3>1. PICK x \in Seq(Nat) : x = PathAbove(Range(L), p)
      BY <1>3, PathsTyped
    <3>2. PICK y \in Seq(Nat) : y = PathAbove(Range(L), q)
      BY <1>3, PathsTyped
    <3>3. p.id \in Nat /\ q.id \in Nat
      BY <1>3, PathsTyped
    <3>4. Len(x) \in Nat /\ Len(y) \in Nat /\ Len(p.path) = Len(x) + 1 /\ Len(q.path) = Len(y) + 1
          /\ p.path[Len(x) + 1] = p.id /\ q.path[Len(y) + 1] = q.id
      BY <2>4, <3>1, <3>2, <3>3, AppendIs
    <3>5. p.path = q.path => Len(x) = Len(y)
      BY <3>4
    <3>6. QED
      BY <2>3, <3>4, <3>5
  <2>8. p.parent = q.parent => PathAbove(Range(L), p) = PathAbove(Range(L), q)
    BY DEF PathAbove
  <2>9. QED
    BY <2>1, <2>2, <2>5, <2>6, <2>7, <2>8
<1>6. \A s \in Llms(L) : s.parent # None
  BY <1>3, CallBelow
<1>7. QED
  BY <1>2, <1>3, <1>4, <1>5, <1>6 DEF InvocationsApart, Looping, CallsLike, Llms, Caller

\* For lists of every length: invocations of one agent that loop at different
\* places are different groups and those of one place one
\* (computeInvocationRoots), the main agent's calls stand alone
\* (computeSubagentBoundaries), and a tool is in the group of the agent it works
\* for (buildSpanToAnchorMap).
THEOREM AgentsAreGrouped == Spec => []AgentsGrouped
<1>1. ListInv /\ CallsNested => AgentsGrouped
  BY InvocationsAreApart, MainAgentInline, ToolsGrouped DEF AgentsGrouped
<1>2. QED
  BY <1>1, ListsAreTrees, CallsAreNested, PTL

=============================================================================
