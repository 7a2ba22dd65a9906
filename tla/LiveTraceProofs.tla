-------------------------- MODULE LiveTraceProofs --------------------------
(****************************************************************************)
(* Proofs about LiveTrace, for every trace, every moment a view opens and     *)
(* every value of the bounds.                                                *)
(*                                                                           *)
(* First the functions of SpanRows on tables of rows: what placeholders add   *)
(* (EnrichRows), what drawing rows again leaves alone (RedrawnKeeps), what an  *)
(* event does to a table (UpdateRows), where a search hangs the spans it      *)
(* finds (SearchParents), what a response holds (ResponseRows).  Then the      *)
(* invariant: what the store and everything on its way holds (LiveInv), and   *)
(* that what was handled is not lost again (PastInv), with a lemma per action. *)
(*                                                                           *)
(* Then the numbers: sums over finite sets (Total), who stands above whom in  *)
(* the tree rows make (Over), what calculateSpanMetrics gives a row           *)
(* (SubtreeMetrics), how far computeVisibleSpanIds climbs (AllAncestors), and *)
(* two more invariants on top of LiveInv: the rows of the store and of the    *)
(* responses have their sums (MetricInv), and the totals count what was       *)
(* handled (CountInv).                                                        *)
(****************************************************************************)
EXTENDS LiveTrace, FiniteSetTheorems, FunctionTheorems, WellFoundedInduction, TLAPS

----------------------------------------------------------------------------
(* Numbers.                                                                 *)

LEMMA NatOrder == IsWellFoundedOn({ss \in Nat \X Nat : ss[1] < ss[2]}, Nat)
<1>1. OpToRel(<, Nat) = {ss \in Nat \X Nat : ss[1] < ss[2]}
  BY DEF OpToRel
<1>2. QED
  BY <1>1, NatLessThanWellFounded

LEMMA LeastNat ==
  ASSUME NEW S \in SUBSET Nat, S # {}
  PROVE  Min(S) \in S /\ \A x \in S : Min(S) <= x
<1> DEFINE R == {ss \in Nat \X Nat : ss[1] < ss[2]}
<1>1. PICK x \in S : \A y \in S : ~(<<y, x>> \in R)
  <2>1. IsWellFoundedOn(R, Nat)
    BY NatOrder
  <2> HIDE DEF R
  <2>2. QED
    BY <2>1, WFMin
<1>2. ASSUME NEW y \in S PROVE x <= y
  <2>1. ~(<<y, x>>[1] < <<y, x>>[2]) \/ <<y, x>> \notin Nat \X Nat
    BY <1>1, <1>2
  <2>2. <<y, x>> \in Nat \X Nat /\ x \in Nat /\ y \in Nat
    BY <1>2
  <2>3. <<y, x>>[1] = y /\ <<y, x>>[2] = x
    OBVIOUS
  <2>4. ~(y < x)
    BY <2>1, <2>2, <2>3
  <2>5. QED
    BY <2>2, <2>4
<1>3. QED
  BY <1>2 DEF Min

\* Induction: a number outside of S would have a least one beside it, whose
\* predecessor is in S.
LEMMA SetInduction ==
  ASSUME NEW S, 0 \in S, \A n \in Nat : n \in S => n + 1 \in S
  PROVE  Nat \subseteq S
<1> DEFINE T == Nat \ S
           x == Min(T)
<1>1. SUFFICES ASSUME T # {} PROVE FALSE
  OBVIOUS
<1>2. x \in T /\ \A y \in T : x <= y
  BY <1>1, LeastNat
<1>3. x \in Nat /\ x # 0
  BY <1>2
<1> HIDE DEF x
<1>4. x - 1 \in Nat /\ (x - 1) + 1 = x
  BY <1>3
<1>5. x - 1 \in S
  BY <1>2, <1>4
<1>6. QED
  BY <1>2, <1>4, <1>5

LEMMA GreatestNat ==
  ASSUME NEW S \in SUBSET Nat, S # {}, IsFiniteSet(S)
  PROVE  Max(S) \in S /\ \A x \in S : Max(S) >= x
<1> DEFINE Has(T) == \E x \in T : \A y \in T : x >= y
           G == {n \in Nat : \A T \in SUBSET Nat : IsFiniteSet(T) /\ T # {} /\ Cardinality(T) = n => Has(T)}
<1>1. 0 \in G
  BY FS_EmptySet
<1>2. ASSUME NEW n \in Nat, n \in G PROVE n + 1 \in G
  <2> SUFFICES ASSUME NEW T \in SUBSET Nat, IsFiniteSet(T), T # {}, Cardinality(T) = n + 1 PROVE Has(T)
    OBVIOUS
  <2>1. PICK x \in T : TRUE
    OBVIOUS
  <2> DEFINE U == T \ {x}
  <2>2. IsFiniteSet(U) /\ Cardinality(U) = n
    <3>1. IsFiniteSet(T \ {x}) /\ Cardinality(T \ {x}) = Cardinality(T) - 1
      BY <2>1, FS_RemoveElement
    <3>2. QED
      BY <3>1
  <2>3. CASE U = {}
    BY <2>1, <2>3
  <2>4. CASE U # {}
    <3>1. PICK y \in U : \A z \in U : y >= z
      BY <1>2, <2>2, <2>4
    <3>2. CASE x >= y
      BY <2>1, <3>1, <3>2
    <3>3. CASE ~(x >= y)
      BY <2>1, <3>1, <3>3
    <3>4. QED
      BY <3>2, <3>3
  <2>5. QED
    BY <2>3, <2>4
<1>3. Nat \subseteq G
  <2> HIDE DEF G
  <2>1. QED
    BY <1>1, <1>2, SetInduction
<1>4. Cardinality(S) \in Nat
  BY FS_CardinalityType
<1>5. Has(S)
  BY <1>3, <1>4
<1>6. QED
  BY <1>5 DEF Max

----------------------------------------------------------------------------
(* Paths.                                                                   *)

LEMMA PathOf ==
  ASSUME NEW s \in Spans
  PROVE  /\ Path[s] \in Seq(Spans) /\ Len(Path[s]) \in Nat /\ Len(Path[s]) > 0
         /\ DOMAIN Path[s] = 1..Len(Path[s]) /\ Path[s][Len(Path[s])] = s
         /\ Parent[s] = None => Path[s] = <<s>>
         /\ Parent[s] # None =>
              /\ Parent[s] \in Spans /\ Len(Path[s]) = Len(Path[Parent[s]]) + 1
              /\ \A k \in 1..Len(Path[Parent[s]]) : Path[s][k] = Path[Parent[s]][k]
<1>1. CASE Parent[s] = None
  <2>1. Path[s] = <<s>>
    BY <1>1, TraceAssumption
  <2>2. QED
    BY <1>1, <2>1
<1>2. CASE Parent[s] # None
  <2>1. PICK p \in Spans : p = Parent[s]
    BY <1>2, TraceAssumption
  <2>2. PICK q \in Seq(Spans) : q = Path[p]
    BY TraceAssumption
  <2>3. Path[s] = Append(q, s)
    BY <1>2, <2>1, <2>2, TraceAssumption
  <2>4. QED
    BY <1>2, <2>1, <2>2, <2>3
<1>3. QED
  BY <1>1, <1>2

\* On a path, everyone follows its parent.
LEMMA PathClimbs ==
  ASSUME NEW s \in Spans, NEW k \in 1..Len(Path[s])
  PROVE  /\ Path[s][k] \in Spans
         /\ IF k > 1 THEN k - 1 \in 1..Len(Path[s]) /\ Path[s][k - 1] = Parent[Path[s][k]]
            ELSE Parent[Path[s][k]] = None
<1> DEFINE Climbs(t) ==
             \A j \in 1..Len(Path[t]) :
               IF j > 1 THEN Path[t][j - 1] = Parent[Path[t][j]] ELSE Parent[Path[t][j]] = None
           Bad == {t \in Spans : ~Climbs(t)}
           Lens == {Len(Path[t]) : t \in Bad}
<1>1. Bad = {}
  <2>1. SUFFICES ASSUME Bad # {} PROVE FALSE
    OBVIOUS
  <2>2. Lens \in SUBSET Nat /\ Lens # {}
    <3>1. \A t \in Bad : Len(Path[t]) \in Nat
      BY PathOf
    <3> HIDE DEF Bad
    <3>2. QED
      BY <2>1, <3>1
  <2>3. PICK t \in Bad : \A u \in Bad : Len(Path[t]) <= Len(Path[u])
    <3>1. PICK n \in Lens : \A m \in Lens : n <= m
      <4> HIDE DEF Lens
      <4>1. QED
        BY <2>2, LeastNat
    <3>2. QED
      BY <3>1
  <2>4. CASE Parent[t] = None
    BY <2>3, <2>4, PathOf
  <2>5. CASE Parent[t] # None
    <3> DEFINE u == Parent[t]
               n == Len(Path[u])
    <3>1. /\ u \in Spans /\ n \in Nat /\ n > 0 /\ Len(Path[t]) = n + 1 /\ Path[t][n + 1] = t /\ Path[u][n] = u
          /\ \A j \in 1..n : Path[t][j] = Path[u][j]
      BY <2>3, <2>5, PathOf
    <3>2. Climbs(u)
      <4>1. u \notin Bad
        BY <2>3, <3>1, SMTT(60)
      <4>2. QED
        BY <3>1, <4>1
    <3>3. ASSUME NEW j \in 1..Len(Path[t])
          PROVE  IF j > 1 THEN Path[t][j - 1] = Parent[Path[t][j]] ELSE Parent[Path[t][j]] = None
      <4> HIDE DEF u, n
      <4>1. CASE j = n + 1
        <5>1. j > 1 /\ j - 1 = n /\ n \in 1..n
          BY <3>1, <4>1
        <5>2. Path[t][n] = u /\ Path[t][n + 1] = t
          BY <3>1, <5>1
        <5>3. Path[t][j - 1] = Parent[Path[t][j]]
          BY <4>1, <5>1, <5>2 DEF u
        <5>4. QED
          BY <5>1, <5>3
      <4>2. CASE j # n + 1
        <5>1. j \in 1..n /\ (j > 1 => j - 1 \in 1..n)
          BY <3>1, <3>3, <4>2
        <5>2. Path[t][j] = Path[u][j] /\ (j > 1 => Path[t][j - 1] = Path[u][j - 1])
          BY <3>1, <5>1
        <5>3. IF j > 1 THEN Path[u][j - 1] = Parent[Path[u][j]] ELSE Parent[Path[u][j]] = None
          BY <3>2, <5>1 DEF n
        <5>4. QED
          BY <5>2, <5>3
      <4>3. QED
        BY <4>1, <4>2
    <3>4. QED
      BY <2>3, <3>3
  <2>6. QED
    BY <2>4, <2>5
<1>2. Climbs(s)
  BY <1>1
<1>3. Path[s][k] \in Spans /\ (k > 1 => k - 1 \in 1..Len(Path[s]))
  BY PathOf
<1>4. QED
  BY <1>2, <1>3

\* The ids on the path of s: itself, and with anyone its parent.
LEMMA OnPath ==
  ASSUME NEW s \in Spans
  PROVE  /\ Range(Path[s]) \subseteq Spans /\ s \in Range(Path[s])
         /\ Parent[s] = None => Range(Path[s]) = {s}
         /\ \A a \in Range(Path[s]) : Parent[a] # None => Parent[a] \in Range(Path[s])
         /\ \A k \in DOMAIN Path[s] :
              (IF k > 1 THEN Path[s][k - 1] ELSE None) = Parent[Path[s][k]]
<1>1. DOMAIN Path[s] = 1..Len(Path[s]) /\ Len(Path[s]) \in 1..Len(Path[s])
  BY PathOf
<1>2. Range(Path[s]) = {Path[s][k] : k \in 1..Len(Path[s])}
  BY <1>1 DEF Range
<1>3. Range(Path[s]) \subseteq Spans /\ s \in Range(Path[s])
  <2>1. s \in Range(Path[s])
    BY <1>1, <1>2, PathOf
  <2>2. QED
    BY <1>2, <2>1, PathClimbs
<1>4. Parent[s] = None => Range(Path[s]) = {s}
  BY <1>2, PathOf
<1>5. ASSUME NEW k \in DOMAIN Path[s]
      PROVE  (IF k > 1 THEN Path[s][k - 1] ELSE None) = Parent[Path[s][k]]
  BY <1>1, PathClimbs
<1>6. ASSUME NEW a \in Range(Path[s]), Parent[a] # None PROVE Parent[a] \in Range(Path[s])
  <2>1. PICK k \in 1..Len(Path[s]) : a = Path[s][k]
    BY <1>2
  <2>2. k > 1 /\ k - 1 \in 1..Len(Path[s]) /\ Path[s][k - 1] = Parent[a]
    BY <1>6, <2>1, PathClimbs
  <2>3. QED
    BY <1>2, <2>2
<1>7. QED
  BY <1>3, <1>4, <1>5, <1>6

\* Whoever stands at k on a path has a path of that length: all are different.
LEMMA PathLength ==
  ASSUME NEW s \in Spans
  PROVE  /\ \A k \in 1..Len(Path[s]) : Len(Path[Path[s][k]]) = k
         /\ \A j, k \in 1..Len(Path[s]) : Path[s][j] = Path[s][k] => j = k
<1> DEFINE N == {n \in Nat : n + 1 \in 1..Len(Path[s]) => Len(Path[Path[s][n + 1]]) = n + 1}
<1>1. Len(Path[s]) \in Nat
  BY PathOf
<1>2. 0 \in N
  <2> SUFFICES ASSUME 1 \in 1..Len(Path[s]) PROVE Len(Path[Path[s][1]]) = 1
    OBVIOUS
  <2>1. Path[s][1] \in Spans /\ Parent[Path[s][1]] = None
    BY PathClimbs
  <2>2. Path[Path[s][1]] = <<Path[s][1]>>
    BY <2>1, PathOf
  <2>3. QED
    BY <2>2
<1>3. ASSUME NEW n \in Nat, n \in N PROVE n + 1 \in N
  <2> SUFFICES ASSUME n + 2 \in 1..Len(Path[s]) PROVE Len(Path[Path[s][n + 2]]) = n + 2
    OBVIOUS
  <2>1. n + 1 \in 1..Len(Path[s]) /\ (n + 2) - 1 = n + 1
    BY <1>1
  <2>2. /\ Path[s][n + 2] \in Spans /\ Path[s][n + 1] \in Spans
        /\ Path[s][n + 1] = Parent[Path[s][n + 2]]
    BY <2>1, PathClimbs
  <2>3. Parent[Path[s][n + 2]] # None
    BY <2>2, TraceAssumption
  <2>4. Len(Path[Path[s][n + 2]]) = Len(Path[Path[s][n + 1]]) + 1
    BY <2>2, <2>3, PathOf
  <2>5. Len(Path[Path[s][n + 1]]) = n + 1
    BY <1>3, <2>1
  <2>6. QED
    BY <2>4, <2>5
<1>4. Nat \subseteq N
  <2> HIDE DEF N
  <2>1. N \subseteq Nat
    BY DEF N
  <2>2. QED
    BY <1>2, <1>3, SetInduction
<1>5. ASSUME NEW k \in 1..Len(Path[s]) PROVE Len(Path[Path[s][k]]) = k
  <2>1. k - 1 \in Nat /\ (k - 1) + 1 = k
    BY <1>1
  <2>2. k - 1 \in N
    BY <1>4, <2>1
  <2>3. QED
    BY <2>1, <2>2
<1>6. QED
  BY <1>5

----------------------------------------------------------------------------
(* Tables of rows.                                                          *)

\* The parent p a row of s may have: none, or someone above s on its path.
Ahead(s, p) == p = None \/ \E k \in 1..Len(Path[s]) : k < Len(Path[s]) /\ Path[s][k] = p

LEMMA ParentAhead ==
  ASSUME NEW s \in Spans
  PROVE  Ahead(s, Parent[s])
<1>1. CASE Parent[s] = None
  BY <1>1 DEF Ahead
<1>2. CASE Parent[s] # None
  <2> DEFINE p == Parent[s]
             n == Len(Path[p])
  <2>1. p \in Spans /\ Len(Path[s]) = n + 1 /\ \A k \in 1..n : Path[s][k] = Path[p][k]
    BY <1>2, PathOf
  <2>2. n \in Nat /\ n > 0 /\ Path[p][n] = p
    BY <2>1, PathOf
  <2> HIDE DEF n, p
  <2>3. n \in 1..Len(Path[s]) /\ n < Len(Path[s]) /\ Path[s][n] = p
    BY <2>1, <2>2
  <2>4. QED
    BY <2>3 DEF Ahead, p
<1>3. QED
  BY <1>1, <1>2

\* What a row has of its span.
Described(r) ==
  /\ r.pending => r.parent = Parent[r.id] /\ r.type = "DEFAULT"
  /\ ~r.pending => r.tokens = Tokens[r.id] /\ r.type = IF Tokens[r.id] > 0 THEN "LLM" ELSE "DEFAULT"

\* A row of the trace: of a span that has ended, or a placeholder.
Row(r) ==
  /\ r = [id |-> r.id, parent |-> r.parent, path |-> r.path, type |-> r.type, start |-> r.start,
          end |-> r.end, pending |-> r.pending, collapsed |-> r.collapsed, tokens |-> r.tokens, sum |-> r.sum]
  /\ r.id \in Spans /\ r.parent \in Spans \cup {None}
  /\ r.pending \in BOOLEAN /\ r.collapsed \in BOOLEAN
  /\ r.start \in Nat /\ r.end \in Nat
  /\ r.pending => r.path = <<>>
  /\ ~r.pending => r.path = Path[r.id]
  /\ Ahead(r.id, r.parent) /\ Described(r)

Unique(S) == \A r, t \in S : r.id = t.id => r = t

Table(S) == (\A r \in S : Row(r)) /\ Unique(S)

Ended(S) == {s \in S : ~s.pending}

\* NoOrphan, of a table.
Closed(S) == \A s \in S : s.parent # None => s.parent \in Ids(S)

\* What placeholders make closed: parents are rows, or ahead on the path.
Anchored(S) ==
  \A s \in S : s.parent # None => s.parent \in Ids(S) \/ (~s.pending /\ s.parent = Parent[s.id])

\* PendingCovers, of a table.
Covers(S) ==
  \A p, s \in S :
    p.pending /\ ~s.pending /\ s.parent # None /\ p.id \in Range(s.path)
      => p.start <= s.start /\ s.end <= p.end

\* The rows of a view that no search made: parents are those of the spans,
\* placeholders are on paths, and everyone on a path is there.
Plain(S) == \A s \in Ended(S) : s.parent = Parent[s.id]
Named(S) == \A p \in S : p.pending => \E s \in Ended(S) : p.id \in Range(Path[s.id])
Full(S)  == \A s \in Ended(S) : Range(Path[s.id]) \subseteq Ids(S)
Exact(S) == Plain(S) /\ Named(S) /\ Full(S)

LEMMA FiniteImage ==
  ASSUME NEW S, IsFiniteSet(S), NEW f
  PROVE  IsFiniteSet({f[x] : x \in S})
<1> DEFINE g == [x \in S |-> f[x]]
<1>1. g \in Surjection(S, {f[x] : x \in S})
  BY DEF Surjection
<1> HIDE DEF g
<1>2. QED
  BY <1>1, FS_Surjection

\* Ids are as many as rows.
LEMMA TableFinite ==
  ASSUME NEW S, Table(S)
  PROVE  IsFiniteSet(S) /\ Ids(S) \subseteq Spans /\ Cardinality(Ids(S)) = Cardinality(S)
<1> DEFINE f == [r \in S |-> r.id]
<1>1. Ids(S) \subseteq Spans
  BY DEF Table, Row, Ids
<1>2. \A r, t \in S : f[r] = f[t] => r = t
  BY DEF Table, Unique
<1>3. f \in Injection(S, Spans) /\ f \in Bijection(S, Ids(S))
  <2>1. f \in [S -> Spans] /\ f \in [S -> Ids(S)] /\ \A i \in Ids(S) : \E r \in S : f[r] = i
    BY <1>1 DEF Ids
  <2> HIDE DEF f
  <2>2. IsInjective(f)
    BY <1>2, <2>1 DEF IsInjective
  <2>3. QED
    BY <2>1, <2>2 DEF Bijection, Injection, Surjection
<1> HIDE DEF f
<1>4. IsFiniteSet(S)
  BY <1>3, FS_Injection, TraceAssumption
<1>5. ExistsBijection(S, Ids(S))
  BY <1>3 DEF ExistsBijection
<1>6. QED
  BY <1>1, <1>4, <1>5, FS_Bijection

LEMMA TheOne ==
  ASSUME NEW S, Unique(S), NEW s \in S
  PROVE  The(S, s.id) = s /\ {t \in S : t.id = s.id} = {s}
BY DEF The, Unique

\* The earliest start and the latest end of some rows.
LEMMA RowTimes ==
  ASSUME NEW S, Table(S), NEW A \in SUBSET S, A # {}
  PROVE  /\ Min({s.start : s \in A}) \in Nat /\ Max({s.end : s \in A}) \in Nat
         /\ \A s \in A : Min({t.start : t \in A}) <= s.start /\ s.end <= Max({t.end : t \in A})
<1> DEFINE starts == {s.start : s \in A}
           ends   == {s.end : s \in A}
<1>1. starts \in SUBSET Nat /\ starts # {} /\ ends \in SUBSET Nat /\ ends # {}
  BY DEF Table, Row
<1>2. IsFiniteSet(ends)
  <2> DEFINE f == [r \in A |-> r.end]
  <2>1. IsFiniteSet(A)
    BY TableFinite, FS_Subset
  <2>2. f \in Surjection(A, ends)
    BY DEF Surjection
  <2> HIDE DEF f, ends
  <2>3. QED
    BY <2>1, <2>2, FS_Surjection
<1>3. Min(starts) \in starts /\ \A x \in starts : Min(starts) <= x
  <2> HIDE DEF starts, ends
  <2>1. QED
    BY <1>1, LeastNat
<1>4. Max(ends) \in ends /\ \A x \in ends : Max(ends) >= x
  <2> HIDE DEF starts, ends
  <2>1. QED
    BY <1>1, <1>2, GreatestNat
<1>5. \A s \in A : s.start \in starts /\ s.end \in ends
  OBVIOUS
<1>6. QED
  <2> HIDE DEF starts, ends
  <2>1. \A s \in A : Min(starts) <= s.start /\ s.end <= Max(ends)
    BY <1>1, <1>3, <1>4, <1>5
  <2>2. Min(starts) \in Nat /\ Max(ends) \in Nat
    BY <1>1, <1>3, <1>4
  <2>3. QED
    BY <2>1, <2>2 DEF starts, ends

----------------------------------------------------------------------------
(* Placeholders.                                                            *)

\* Only spans that have ended claim one.
LEMMA Claimants ==
  ASSUME NEW S, Table(S), NEW id
  PROVE  Claims(S, id) = {s \in Ended(S) : s.parent # None /\ id \in Range(Path[s.id])}
<1>1. ASSUME NEW s \in S, s.pending PROVE Range(s.path) = {}
  <2>1. s.path = <<>>
    BY <1>1 DEF Table, Row
  <2>2. QED
    BY <2>1 DEF Range
<1>2. \A s \in S : s.pending \in BOOLEAN /\ (~s.pending => s.path = Path[s.id])
  BY DEF Table, Row
<1>3. QED
  BY <1>1, <1>2 DEF Claims, Ended

LEMMA PendingId ==
  ASSUME NEW S, Table(S), NEW id
  PROVE  id \in PendingIds(S)
           <=> IF id \in Ids(S) THEN \E o \in S : o.id = id /\ o.pending
               ELSE Claims(S, id) # {}
BY DEF PendingIds, Claims, Ids, Table, Unique

\* The placeholder an id gets: the one it had with other times, or a new one.
Holds(p, S, id) ==
  /\ Row(p) /\ p.id = id /\ p.pending
  /\ \A s \in Claims(S, id) : p.start <= s.start /\ s.end <= p.end
  /\ IF id \in Ids(S)
     THEN \E o \in S : o.id = id /\ o.pending /\ p.parent = o.parent /\ p.collapsed = o.collapsed /\ p.sum = o.sum
     ELSE ~p.collapsed /\ p.parent = Parent[id] /\ p.sum = -1

LEMMA PlaceholderRow ==
  ASSUME NEW S, Table(S), NEW id \in PendingIds(S)
  PROVE  Holds(Placeholder(S, id), S, id)
<1> DEFINE own   == {s \in S : s.id = id}
           all   == own \cup Claims(S, id)
           child == CHOOSE s \in Claims(S, id) : TRUE
           i     == CHOOSE k \in DOMAIN child.path : child.path[k] = id
           above == IF i > 1 THEN child.path[i - 1] ELSE None
           new   == [id |-> id, parent |-> above, path |-> <<>>,
                     type |-> "DEFAULT", start |-> child.start, end |-> child.end,
                     pending |-> TRUE, collapsed |-> FALSE, tokens |-> 0, sum |-> -1]
           base  == IF own # {} THEN The(S, id) ELSE new
           first == Min({s.start : s \in all})
           last  == Max({s.end : s \in all})
<1>1. Placeholder(S, id) = [base EXCEPT !.start = first, !.end = last]
  BY DEF Placeholder
<1>2. all \in SUBSET S /\ all # {}
  BY PendingId DEF Claims, Ids
<1>3. /\ first \in Nat /\ last \in Nat
      /\ \A s \in Claims(S, id) : first <= s.start /\ s.end <= last
  <2>1. first \in Nat /\ last \in Nat /\ \A s \in all : first <= s.start /\ s.end <= last
    <3> HIDE DEF all
    <3>1. QED
      BY <1>2, RowTimes
  <2>2. QED
    BY <2>1
<1>4. CASE id \in Ids(S)
  <2>1. PICK o \in S : o.id = id /\ o.pending
    BY <1>4, PendingId
  <2>2. base = o
    BY <2>1, TheOne DEF Table
  <2>3. Row(o)
    BY DEF Table
  <2>4. Placeholder(S, id) = [o EXCEPT !.start = first, !.end = last]
    BY <1>1, <2>2
  <2> HIDE DEF first, last, base
  <2>5. PICK p : p = [o EXCEPT !.start = first, !.end = last]
    OBVIOUS
  <2>6. /\ p = [id |-> o.id, parent |-> o.parent, path |-> o.path, type |-> o.type, start |-> first,
                end |-> last, pending |-> o.pending, collapsed |-> o.collapsed, tokens |-> o.tokens, sum |-> o.sum]
    BY <2>3, <2>5 DEF Row
  <2>7. Row(p) /\ p.id = id /\ p.pending = TRUE /\ p.start = first /\ p.end = last
        /\ p.parent = o.parent /\ p.collapsed = o.collapsed /\ p.sum = o.sum
    <3>1. /\ p.id = o.id /\ p.parent = o.parent /\ p.path = o.path /\ p.type = o.type /\ p.start = first
          /\ p.end = last /\ p.pending = o.pending /\ p.collapsed = o.collapsed /\ p.tokens = o.tokens /\ p.sum = o.sum
      BY <2>6
    <3>2. QED
      BY <1>3, <2>1, <2>3, <2>6, <3>1 DEF Row, Described
  <2>8. QED
    BY <1>3, <1>4, <2>1, <2>4, <2>5, <2>7 DEF Holds
<1>5. CASE id \notin Ids(S)
  <2>1. child \in Claims(S, id)
    BY <1>5, PendingId
  <2>2. PICK c \in Ended(S) : c = child /\ c.path = Path[c.id] /\ c.id \in Spans /\ id \in Range(Path[c.id])
    BY <2>1, Claimants DEF Table, Row, Ended
  <2>3. i \in DOMAIN Path[c.id] /\ Path[c.id][i] = id
    BY <2>2 DEF Range
  <2>4. above = Parent[id] /\ id \in Spans
    <3>1. above = IF i > 1 THEN Path[c.id][i - 1] ELSE None
      <4>1. above = IF i > 1 THEN child.path[i - 1] ELSE None
        OBVIOUS
      <4>2. child.path = Path[c.id]
        BY <2>2
      <4> HIDE DEF above, i, child
      <4>3. QED
        BY <4>1, <4>2
    <3> HIDE DEF above, i
    <3>2. QED
      BY <2>2, <2>3, <3>1, OnPath
  <2>5. base = new
    BY <1>5 DEF Ids
  <2>6. Parent[id] \in Spans \cup {None}
    BY <2>4, TraceAssumption
  <2> HIDE DEF first, last, child, above
  <2>7. PICK p : p = [new EXCEPT !.start = first, !.end = last]
    OBVIOUS
  <2>8. p = [id |-> id, parent |-> above, path |-> <<>>, type |-> "DEFAULT", start |-> first, end |-> last,
             pending |-> TRUE, collapsed |-> FALSE, tokens |-> 0, sum |-> -1]
    BY <2>7
  <2>9. /\ p.id = id /\ p.parent = above /\ p.path = <<>> /\ p.type = "DEFAULT" /\ p.start = first /\ p.end = last
        /\ p.pending = TRUE /\ p.collapsed = FALSE /\ p.tokens = 0 /\ p.sum = -1
    BY <2>8
  <2>10. Row(p)
    <3>1. Ahead(p.id, p.parent) /\ Described(p)
      BY <2>4, <2>9, ParentAhead DEF Described
    <3>2. QED
      BY <1>3, <2>4, <2>6, <2>8, <2>9, <3>1 DEF Row
  <2>11. Placeholder(S, id) = p
    BY <1>1, <2>5, <2>7
  <2>12. QED
    BY <1>3, <1>5, <2>4, <2>9, <2>10, <2>11 DEF Holds
<1>6. QED
  BY <1>4, <1>5

LEMMA EnrichRows ==
  ASSUME NEW S, Table(S)
  PROVE  /\ Table(EnrichSpansWithPending(S))
         /\ Ended(EnrichSpansWithPending(S)) = Ended(S)
         /\ Ids(S) \subseteq Ids(EnrichSpansWithPending(S))
         /\ \A a \in PendingIds(S) : a \in Ids(EnrichSpansWithPending(S))
         /\ \A p \in EnrichSpansWithPending(S) : p.pending => p.id \in PendingIds(S) /\ Holds(p, S, p.id)
<1> DEFINE new == {Placeholder(S, id) : id \in PendingIds(S)}
           T   == EnrichSpansWithPending(S)
<1>1. T = Ended(S) \cup new
  BY DEF EnrichSpansWithPending, Ended
<1>2. \A p \in new : p.pending /\ p.id \in PendingIds(S) /\ Row(p) /\ Holds(p, S, p.id)
  BY PlaceholderRow DEF Holds
<1>3. \A a \in PendingIds(S) : \E p \in new : p.id = a
  BY PlaceholderRow DEF Holds
<1>4. \A s \in Ended(S) : Row(s) /\ ~s.pending /\ s \in S
  BY DEF Ended, Table
<1> HIDE DEF new, T
<1>5. Unique(T)
  <2>1. ASSUME NEW r \in Ended(S), NEW p \in new PROVE r.id # p.id
    <3>1. SUFFICES ASSUME r.id = p.id PROVE FALSE
      OBVIOUS
    <3>2. PICK o \in S : o.id = r.id /\ o.pending
      BY <1>2, <1>4, <3>1, PendingId DEF Ids
    <3>3. QED
      BY <1>4, <3>2 DEF Table, Unique
  <2>2. ASSUME NEW r \in Ended(S), NEW t \in Ended(S), r.id = t.id PROVE r = t
    BY <1>4, <2>2 DEF Table, Unique
  <2>3. ASSUME NEW p \in new, NEW q \in new, p.id = q.id PROVE p = q
    <3>1. PICK a \in PendingIds(S) : p = Placeholder(S, a) /\ p.id = a
      BY PlaceholderRow DEF new, Holds
    <3>2. PICK b \in PendingIds(S) : q = Placeholder(S, b) /\ q.id = b
      BY PlaceholderRow DEF new, Holds
    <3>3. QED
      BY <2>3, <3>1, <3>2
  <2>4. ASSUME NEW r \in T, NEW t \in T, r.id = t.id PROVE r = t
    <3>1. r \in Ended(S) \/ r \in new
      BY <1>1
    <3>2. t \in Ended(S) \/ t \in new
      BY <1>1
    <3>3. QED
      BY <2>1, <2>2, <2>3, <2>4, <3>1, <3>2
  <2>5. QED
    BY <2>4 DEF Unique
<1>6. Table(T)
  BY <1>1, <1>2, <1>4, <1>5 DEF Table
<1>7. Ended(T) = Ended(S)
  BY <1>1, <1>2, <1>4 DEF Ended
<1>8. \A a \in PendingIds(S) : a \in Ids(T)
  BY <1>1, <1>3 DEF Ids
<1>9. Ids(S) \subseteq Ids(T)
  <2> SUFFICES ASSUME NEW s \in S PROVE s.id \in Ids(T)
    BY DEF Ids
  <2>1. CASE ~s.pending
    BY <1>1, <2>1 DEF Ended, Ids
  <2>2. CASE s.pending
    BY <1>8, <2>2, PendingId DEF Ids
  <2>3. QED
    BY <2>1, <2>2
<1>10. \A p \in T : p.pending => p.id \in PendingIds(S) /\ Holds(p, S, p.id)
  BY <1>1, <1>2, <1>4
<1>11. QED
  BY <1>6, <1>7, <1>8, <1>9, <1>10 DEF T

\* Placeholders cover the rows below them, whatever was there before.
LEMMA EnrichCovers ==
  ASSUME NEW S, Table(S)
  PROVE  Covers(EnrichSpansWithPending(S))
<1> DEFINE T == EnrichSpansWithPending(S)
<1> SUFFICES ASSUME NEW p \in T, NEW s \in T, p.pending, ~s.pending, s.parent # None, p.id \in Range(s.path)
             PROVE  p.start <= s.start /\ s.end <= p.end
  BY DEF Covers
<1>1. Holds(p, S, p.id)
  BY EnrichRows
<1>2. s \in Ended(T)
  BY DEF Ended
<1>3. s \in S
  BY <1>2, EnrichRows DEF Ended
<1>4. s \in Claims(S, p.id)
  BY <1>3 DEF Claims
<1>5. QED
  BY <1>1, <1>4 DEF Holds

\* Who is on the path of a span that has ended gets a row.
LEMMA EnrichFull ==
  ASSUME NEW S, Table(S), NEW s \in Ended(S), s.parent # None, NEW a \in Range(Path[s.id])
  PROVE  a \in Ids(EnrichSpansWithPending(S))
<1>1. CASE a \in Ids(S)
  BY <1>1, EnrichRows
<1>2. CASE a \notin Ids(S)
  <2>1. a \in PendingIds(S)
    BY <1>2, PendingId, Claimants
  <2>2. QED
    BY <2>1, EnrichRows
<1>3. QED
  BY <1>1, <1>2

LEMMA EnrichClosed ==
  ASSUME NEW S, Table(S), Anchored(S)
  PROVE  Closed(EnrichSpansWithPending(S))
<1> DEFINE T == EnrichSpansWithPending(S)
<1> SUFFICES ASSUME NEW s \in T, s.parent # None PROVE s.parent \in Ids(T)
  BY DEF Closed
<1>1. Ids(S) \subseteq Ids(T)
  BY EnrichRows
<1>2. CASE ~s.pending
  <2>1. s \in Ended(T)
    BY <1>2 DEF Ended
  <2>2. s \in Ended(S) /\ s \in S
    BY <2>1, EnrichRows DEF Ended
  <2>3. CASE s.parent \in Ids(S)
    BY <1>1, <2>3
  <2>4. CASE s.parent = Parent[s.id]
    <3>1. s.id \in Spans
      BY <2>2 DEF Table, Row
    <3>2. s.parent \in Range(Path[s.id])
      BY <2>4, <3>1, OnPath
    <3>3. QED
      BY <2>2, <3>2, EnrichFull
  <2>5. QED
    BY <2>2, <2>3, <2>4 DEF Anchored
<1>3. CASE s.pending
  <2>1. PICK a \in PendingIds(S) : a = s.id /\ Holds(s, S, a)
    BY <1>3, EnrichRows
  <2>2. CASE a \in Ids(S)
    <3>1. PICK o \in S : o.pending /\ s.parent = o.parent
      BY <2>1, <2>2 DEF Holds
    <3>2. s.parent \in Ids(S)
      BY <3>1 DEF Anchored
    <3>3. QED
      BY <1>1, <3>2
  <2>3. CASE a \notin Ids(S)
    <3>1. s.parent = Parent[a]
      BY <2>1, <2>3 DEF Holds
    <3>2. PICK c \in Ended(S) : c.parent # None /\ a \in Range(Path[c.id])
      BY <2>3, PendingId, Claimants
    <3>3. c.id \in Spans
      BY DEF Ended, Table, Row
    <3>4. s.parent \in Range(Path[c.id])
      BY <3>1, <3>2, <3>3, OnPath
    <3>5. QED
      BY <3>2, <3>4, EnrichFull
  <2>4. QED
    BY <2>2, <2>3
<1>4. QED
  BY <1>2, <1>3, EnrichRows DEF Table, Row

LEMMA EnrichExact ==
  ASSUME NEW S, Table(S), Plain(S), Named(S)
  PROVE  Exact(EnrichSpansWithPending(S))
<1> DEFINE T == EnrichSpansWithPending(S)
<1>1. Ended(T) = Ended(S)
  BY EnrichRows
<1>2. Plain(T)
  BY <1>1 DEF Plain
<1>3. Named(T)
  <2> SUFFICES ASSUME NEW p \in T, p.pending PROVE \E s \in Ended(T) : p.id \in Range(Path[s.id])
    BY DEF Named
  <2>1. p.id \in PendingIds(S)
    BY EnrichRows
  <2>2. CASE p.id \in Ids(S)
    BY <1>1, <2>1, <2>2, PendingId DEF Named
  <2>3. CASE p.id \notin Ids(S)
    BY <1>1, <2>1, <2>3, PendingId, Claimants
  <2>4. QED
    BY <2>2, <2>3
<1>4. Full(T)
  <2> SUFFICES ASSUME NEW s \in Ended(S), NEW a \in Range(Path[s.id]) PROVE a \in Ids(T)
    BY <1>1 DEF Full
  <2>1. s.id \in Spans /\ s \in S /\ s.parent = Parent[s.id]
    BY DEF Ended, Table, Row, Plain
  <2>2. CASE s.parent # None
    BY <2>2, EnrichFull
  <2>3. CASE s.parent = None
    <3>1. Range(Path[s.id]) = {s.id}
      BY <2>1, <2>3, OnPath
    <3>2. a \in Ids(S)
      BY <2>1, <3>1 DEF Ids
    <3>3. QED
      BY <3>2, EnrichRows
  <2>4. QED
    BY <2>2, <2>3
<1>5. QED
  BY <1>2, <1>3, <1>4 DEF Exact

\* Placeholders change no branch.
LEMMA EnrichCollapsed ==
  ASSUME NEW S, Table(S)
  PROVE  Collapsed(EnrichSpansWithPending(S)) = Collapsed(S)
<1> DEFINE T == EnrichSpansWithPending(S)
<1>1. ASSUME NEW s \in S, s.collapsed PROVE \E t \in T : t.id = s.id /\ t.collapsed
  <2>1. CASE ~s.pending
    BY <1>1, <2>1, EnrichRows DEF Ended
  <2>2. CASE s.pending
    <3>1. s.id \in PendingIds(S) /\ s.id \in Ids(S)
      BY <2>2, PendingId DEF Ids
    <3>2. PICK p \in T : p.id = s.id
      BY <3>1, EnrichRows DEF Ids
    <3>3. p.pending
      <4>1. SUFFICES ASSUME ~p.pending PROVE FALSE
        OBVIOUS
      <4>2. p \in Ended(T)
        BY <4>1 DEF Ended
      <4>3. p \in S
        BY <4>2, EnrichRows DEF Ended
      <4>4. QED
        BY <2>2, <3>2, <4>1, <4>3 DEF Table, Unique
    <3>4. PICK a \in PendingIds(S) : a = s.id /\ Holds(p, S, a)
      BY <3>2, <3>3, EnrichRows
    <3>5. PICK o \in S : o.id = a /\ p.collapsed = o.collapsed
      BY <3>1, <3>4 DEF Holds
    <3>6. o = s
      BY <3>4, <3>5 DEF Table, Unique
    <3>7. QED
      BY <1>1, <3>2, <3>5, <3>6
  <2>3. QED
    BY <2>1, <2>2 DEF Table, Row
<1>2. ASSUME NEW t \in T, t.collapsed PROVE \E s \in S : s.id = t.id /\ s.collapsed
  <2>1. CASE ~t.pending
    <3>1. t \in Ended(T)
      BY <2>1 DEF Ended
    <3>2. QED
      BY <1>2, <3>1, EnrichRows DEF Ended
  <2>2. CASE t.pending
    <3>1. PICK a \in PendingIds(S) : a = t.id /\ Holds(t, S, a)
      BY <2>2, EnrichRows
    <3>2. CASE a \in Ids(S)
      BY <1>2, <3>1, <3>2 DEF Holds
    <3>3. CASE a \notin Ids(S)
      BY <1>2, <3>1, <3>3 DEF Holds
    <3>4. QED
      BY <3>2, <3>3
  <2>3. QED
    BY <2>1, <2>2, EnrichRows DEF Table, Row
<1> HIDE DEF T
<1>3. Collapsed(T) = Collapsed(S)
  BY <1>1, <1>2 DEF Collapsed
<1>4. QED
  BY <1>3 DEF T

----------------------------------------------------------------------------
(* Rows drawn again, with other sums or other branches open.                *)

Drawn(t, s) ==
  /\ Row(t)
  /\ t.id = s.id /\ t.parent = s.parent /\ t.path = s.path
  /\ t.start = s.start /\ t.end = s.end /\ t.pending = s.pending

Redrawn(T, S) ==
  /\ \A t \in T : \E s \in S : Drawn(t, s)
  /\ \A s \in S : \E t \in T : Drawn(t, s)
  /\ Unique(T)

LEMMA RedrawnKeeps ==
  ASSUME NEW S, NEW T, Table(S), Redrawn(T, S)
  PROVE  /\ Table(T) /\ Ids(T) = Ids(S) /\ Ids(Ended(T)) = Ids(Ended(S))
         /\ Closed(S) => Closed(T)
         /\ Covers(S) => Covers(T)
         /\ Plain(S) => Plain(T)
         /\ Exact(S) => Exact(T)
         /\ Ended(S) = S => Ended(T) = T
<1>1. \A t \in T : \E s \in S : Drawn(t, s)
  BY DEF Redrawn
<1>2. \A s \in S : \E t \in T : Drawn(t, s)
  BY DEF Redrawn
<1>3. Table(T)
  BY <1>1 DEF Redrawn, Table, Drawn
<1>4. Ids(T) = Ids(S)
  BY <1>1, <1>2 DEF Ids, Drawn
<1>5. \A t \in Ended(T) : \E s \in Ended(S) : Drawn(t, s)
  BY <1>1 DEF Ended, Drawn
<1>6. \A s \in Ended(S) : \E t \in Ended(T) : Drawn(t, s)
  BY <1>2 DEF Ended, Drawn
<1>7. Ids(Ended(T)) = Ids(Ended(S))
  BY <1>5, <1>6 DEF Ids, Drawn
<1>8. ASSUME Closed(S) PROVE Closed(T)
  BY <1>1, <1>4, <1>8 DEF Closed, Drawn
<1>9. ASSUME Covers(S) PROVE Covers(T)
  BY <1>1, <1>9 DEF Covers, Drawn
<1>13. ASSUME Plain(S) PROVE Plain(T)
  BY <1>5, <1>13 DEF Plain, Drawn
<1>10. ASSUME Exact(S) PROVE Exact(T)
  <2>1. Plain(T)
    BY <1>10, <1>13 DEF Exact
  <2>2. Named(T)
    <3> SUFFICES ASSUME NEW p \in T, p.pending PROVE \E t \in Ended(T) : p.id \in Range(Path[t.id])
      BY DEF Named
    <3>1. PICK q \in S : q.id = p.id /\ q.pending
      BY <1>1 DEF Drawn
    <3>2. PICK s \in Ended(S) : p.id \in Range(Path[s.id])
      BY <1>10, <3>1 DEF Exact, Named
    <3>3. PICK t \in Ended(T) : t.id = s.id
      BY <1>6 DEF Drawn
    <3>4. QED
      BY <3>2, <3>3
  <2>3. Full(T)
    BY <1>4, <1>5, <1>10 DEF Exact, Full, Drawn
  <2>4. QED
    BY <2>1, <2>2, <2>3 DEF Exact
<1>11. ASSUME Ended(S) = S PROVE Ended(T) = T
  BY <1>1, <1>11 DEF Ended, Drawn
<1>12. QED
  BY <1>3, <1>4, <1>7, <1>8, <1>9, <1>10, <1>11, <1>13

LEMMA SumDrawn ==
  ASSUME NEW s, Row(s), NEW x
  PROVE  /\ Drawn([s EXCEPT !.sum = x], s) /\ [s EXCEPT !.sum = x].collapsed = s.collapsed
         /\ [s EXCEPT !.sum = x].sum = x
<1>1. PICK p : p = [s EXCEPT !.sum = x]
  OBVIOUS
<1>2. p = [id |-> s.id, parent |-> s.parent, path |-> s.path, type |-> s.type, start |-> s.start, end |-> s.end,
           pending |-> s.pending, collapsed |-> s.collapsed, tokens |-> s.tokens, sum |-> x]
  BY <1>1 DEF Row
<1>3. /\ p.id = s.id /\ p.parent = s.parent /\ p.path = s.path /\ p.type = s.type /\ p.start = s.start
      /\ p.end = s.end /\ p.pending = s.pending /\ p.collapsed = s.collapsed /\ p.tokens = s.tokens /\ p.sum = x
  BY <1>2
<1>4. Drawn(p, s)
  BY <1>2, <1>3 DEF Row, Described, Drawn
<1>5. QED
  BY <1>1, <1>3, <1>4

LEMMA BranchDrawn ==
  ASSUME NEW s, Row(s), NEW b \in BOOLEAN
  PROVE  Drawn([s EXCEPT !.collapsed = b], s) /\ [s EXCEPT !.collapsed = b].sum = s.sum
<1>1. PICK p : p = [s EXCEPT !.collapsed = b]
  OBVIOUS
<1>2. p = [id |-> s.id, parent |-> s.parent, path |-> s.path, type |-> s.type, start |-> s.start, end |-> s.end,
           pending |-> s.pending, collapsed |-> b, tokens |-> s.tokens, sum |-> s.sum]
  BY <1>1 DEF Row
<1>3. /\ p.id = s.id /\ p.parent = s.parent /\ p.path = s.path /\ p.type = s.type /\ p.start = s.start
      /\ p.end = s.end /\ p.pending = s.pending /\ p.collapsed = b /\ p.tokens = s.tokens /\ p.sum = s.sum
  BY <1>2
<1>4. Drawn(p, s)
  BY <1>2, <1>3 DEF Row, Described, Drawn
<1>5. QED
  BY <1>1, <1>3, <1>4

LEMMA SameDrawn ==
  ASSUME NEW s, Row(s)
  PROVE  Drawn(s, s)
BY DEF Drawn

LEMMA ImageRedrawn ==
  ASSUME NEW S, Table(S), NEW g, \A s \in S : Drawn(g[s], s)
  PROVE  Redrawn({g[s] : s \in S}, S)
<1> DEFINE T == {g[s] : s \in S}
<1>1. Unique(T)
  <2> SUFFICES ASSUME NEW s \in S, NEW r \in S, g[s].id = g[r].id PROVE g[s] = g[r]
    BY DEF Unique
  <2>1. s.id = r.id
    BY DEF Drawn
  <2>2. QED
    BY <2>1 DEF Table, Unique
<1>2. QED
  BY <1>1 DEF Redrawn

LEMMA AggregateRows ==
  ASSUME NEW S, Table(S)
  PROVE  /\ Redrawn(AggregateSpanMetrics(S), S)
         /\ Collapsed(AggregateSpanMetrics(S)) = Collapsed(S)
         /\ \A t \in AggregateSpanMetrics(S) : \E s \in S :
              /\ Drawn(t, s)
              /\ t.sum = IF CalculateMetrics(S)[s] = -1 THEN s.sum ELSE CalculateMetrics(S)[s]
<1> DEFINE metrics == CalculateMetrics(S)
           g == [s \in S |-> [s EXCEPT !.sum = IF metrics[s] = -1 THEN s.sum ELSE metrics[s]]]
           T == {g[s] : s \in S}
<1>1. AggregateSpanMetrics(S) = T
  BY DEF AggregateSpanMetrics
<1>2. ASSUME NEW s \in S
      PROVE  /\ Drawn(g[s], s) /\ g[s].collapsed = s.collapsed
             /\ g[s].sum = IF metrics[s] = -1 THEN s.sum ELSE metrics[s]
  <2>1. Row(s)
    BY DEF Table
  <2>2. PICK x : x = IF metrics[s] = -1 THEN s.sum ELSE metrics[s]
    OBVIOUS
  <2>3. g[s] = [s EXCEPT !.sum = x]
    BY <2>2
  <2> HIDE DEF g, metrics
  <2>4. QED
    BY <2>1, <2>2, <2>3, SumDrawn
<1> HIDE DEF g
<1>3. Redrawn(T, S)
  BY <1>2, ImageRedrawn
<1>4. Collapsed(T) = Collapsed(S)
  BY <1>2 DEF Collapsed, Drawn
<1>5. \A t \in T : \E s \in S : Drawn(t, s) /\ t.sum = IF metrics[s] = -1 THEN s.sum ELSE metrics[s]
  BY <1>2
<1>6. QED
  BY <1>1, <1>3, <1>4, <1>5

\* Branches opened or closed, as in ShowSpans, SelectSpanById and ToggleCollapse.
Opened(T, S) == Redrawn(T, S) /\ \A t \in T : \E s \in S : Drawn(t, s) /\ t.sum = s.sum

LEMMA BranchesRedrawn ==
  ASSUME NEW S, Table(S), NEW F
  PROVE  /\ Opened({[s EXCEPT !.collapsed = FALSE] : s \in S}, S)
         /\ Opened({IF s.id \in F THEN [s EXCEPT !.collapsed = FALSE] ELSE s : s \in S}, S)
         /\ Opened({IF s.id = F THEN [s EXCEPT !.collapsed = ~s.collapsed] ELSE s : s \in S}, S)
<1> DEFINE f == [s \in S |-> [s EXCEPT !.collapsed = FALSE]]
           g == [s \in S |-> IF s.id \in F THEN [s EXCEPT !.collapsed = FALSE] ELSE s]
           h == [s \in S |-> IF s.id = F THEN [s EXCEPT !.collapsed = ~s.collapsed] ELSE s]
<1>1. ASSUME NEW s \in S
      PROVE  /\ Drawn(s, s)
             /\ \A b \in BOOLEAN : Drawn([s EXCEPT !.collapsed = b], s) /\ [s EXCEPT !.collapsed = b].sum = s.sum
  <2>1. Row(s)
    BY DEF Table
  <2>2. QED
    BY <2>1, SameDrawn, BranchDrawn
<1>2. \A s \in S : Drawn(f[s], s) /\ f[s].sum = s.sum
  BY <1>1
<1>3. \A s \in S : Drawn(g[s], s) /\ g[s].sum = s.sum
  BY <1>1
<1>4. ASSUME NEW s \in S PROVE Drawn(h[s], s) /\ h[s].sum = s.sum
  <2>1. PICK b \in BOOLEAN : b = (~s.collapsed)
    OBVIOUS
  <2>2. h[s] = IF s.id = F THEN [s EXCEPT !.collapsed = b] ELSE s
    BY <2>1
  <2>3. QED
    BY <1>1, <2>2
<1>5. Opened({f[s] : s \in S}, S) /\ Opened({g[s] : s \in S}, S) /\ Opened({h[s] : s \in S}, S)
  <2> HIDE DEF f, g, h
  <2>1. QED
    BY <1>2, <1>3, <1>4, ImageRedrawn DEF Opened
<1>6. QED
  BY <1>5

----------------------------------------------------------------------------
(* An event.                                                                *)

LEMMA RealRow ==
  ASSUME NEW s \in Spans, NEW b \in BOOLEAN
  PROVE  /\ Row(Real(s)) /\ Real(s).id = s /\ ~Real(s).pending /\ Real(s).parent = Parent[s]
         /\ Real(s).start = Start[s] /\ Real(s).end = End[s]
         /\ Row([Real(s) EXCEPT !.collapsed = b]) /\ [Real(s) EXCEPT !.collapsed = b].id = s
         /\ ~[Real(s) EXCEPT !.collapsed = b].pending /\ [Real(s) EXCEPT !.collapsed = b].parent = Parent[s]
         /\ [Real(s) EXCEPT !.collapsed = b].collapsed = b
         /\ Real(s).sum = -1 /\ [Real(s) EXCEPT !.collapsed = b].sum = -1
<1>1. Parent[s] \in Spans \cup {None} /\ Start[s] \in Nat /\ End[s] \in Nat
  BY TraceAssumption
<1>2. PICK type : type = IF Tokens[s] > 0 THEN "LLM" ELSE "DEFAULT"
  OBVIOUS
<1>3. Real(s) = [id |-> s, parent |-> Parent[s], path |-> Path[s], type |-> type, start |-> Start[s], end |-> End[s],
                 pending |-> FALSE, collapsed |-> FALSE, tokens |-> Tokens[s], sum |-> -1]
  BY <1>2 DEF Real
<1>4. ASSUME NEW c \in BOOLEAN, NEW p,
             p = [id |-> s, parent |-> Parent[s], path |-> Path[s], type |-> type, start |-> Start[s], end |-> End[s],
                  pending |-> FALSE, collapsed |-> c, tokens |-> Tokens[s], sum |-> -1]
      PROVE  Row(p) /\ p.id = s /\ ~p.pending /\ p.parent = Parent[s] /\ p.start = Start[s] /\ p.end = End[s]
             /\ p.collapsed = c /\ p.sum = -1
  <2>1. /\ p.id = s /\ p.parent = Parent[s] /\ p.path = Path[s] /\ p.type = type /\ p.start = Start[s]
        /\ p.end = End[s] /\ p.pending = FALSE /\ p.collapsed = c /\ p.tokens = Tokens[s] /\ p.sum = -1
    BY <1>4
  <2>2. QED
    <3>1. Ahead(s, Parent[s]) /\ Described(p)
      BY <1>2, <2>1, ParentAhead DEF Described
    <3>2. QED
      BY <1>1, <1>4, <2>1, <3>1 DEF Row
<1>5. PICK p : p = Real(s)
  OBVIOUS
<1>6. PICK q : q = [Real(s) EXCEPT !.collapsed = b]
  OBVIOUS
<1>7. q = [id |-> s, parent |-> Parent[s], path |-> Path[s], type |-> type, start |-> Start[s], end |-> End[s],
           pending |-> FALSE, collapsed |-> b, tokens |-> Tokens[s], sum |-> -1]
  <2>1. PICK o : o = FALSE
    OBVIOUS
  <2>2. PICK r : r = [id |-> s, parent |-> Parent[s], path |-> Path[s], type |-> type, start |-> Start[s],
                      end |-> End[s], pending |-> o, collapsed |-> o, tokens |-> Tokens[s], sum |-> -1]
    OBVIOUS
  <2>3. Real(s) = r
    BY <1>3, <2>1, <2>2
  <2>4. q = [r EXCEPT !.collapsed = b]
    BY <1>6, <2>3
  <2>5. q = [id |-> s, parent |-> Parent[s], path |-> Path[s], type |-> type, start |-> Start[s],
             end |-> End[s], pending |-> o, collapsed |-> b, tokens |-> Tokens[s], sum |-> -1]
    BY <2>2, <2>4
  <2>6. QED
    BY <2>1, <2>5
<1>8. Row(p) /\ p.id = s /\ ~p.pending /\ p.parent = Parent[s] /\ p.start = Start[s] /\ p.end = End[s] /\ p.sum = -1
  BY <1>3, <1>4, <1>5
<1>9. Row(q) /\ q.id = s /\ ~q.pending /\ q.parent = Parent[s] /\ q.collapsed = b /\ q.sum = -1
  BY <1>4, <1>7
<1>10. QED
  BY <1>5, <1>6, <1>8, <1>9

LEMMA UpdateRows ==
  ASSUME NEW S, Table(S), NEW s \in Spans
  PROVE  /\ Table(UpdateSpans(S, s))
         /\ Ids(S) \subseteq Ids(UpdateSpans(S, s))
         /\ Ids(Ended(UpdateSpans(S, s))) = Ids(Ended(S)) \cup {s}
         /\ Closed(S) => Closed(UpdateSpans(S, s))
         /\ Covers(UpdateSpans(S, s))
         /\ Exact(S) => Exact(UpdateSpans(S, s))
         /\ Collapsed(UpdateSpans(S, s)) = Collapsed(S)
<1> DEFINE old  == {t \in S : t.id = s}
           open == \E t \in old : t.collapsed
           new  == [Real(s) EXCEPT !.collapsed = open]
           M    == (S \ old) \cup {new}
           T    == EnrichSpansWithPending(M)
<1>1. UpdateSpans(S, s) = AggregateSpanMetrics(T)
  BY DEF UpdateSpans
<1>2. open \in BOOLEAN
  OBVIOUS
<1>3. Row(new) /\ new.id = s /\ ~new.pending /\ new.parent = Parent[s] /\ new.collapsed = open
  <2> HIDE DEF open
  <2>1. QED
    BY <1>2, RealRow
<1>4. PICK n : n = new
  OBVIOUS
<1>5. Row(n) /\ n.id = s /\ ~n.pending /\ n.parent = Parent[s] /\ (n.collapsed <=> \E t \in S : t.id = s /\ t.collapsed)
  BY <1>3, <1>4
<1>6. \A t : t \in M <=> (t \in S /\ t.id # s) \/ t = n
  BY <1>4
<1> HIDE DEF M, new
<1>7. Table(M)
  BY <1>5, <1>6 DEF Table, Unique
<1>8. Ids(M) = Ids(S) \cup {s}
  BY <1>5, <1>6 DEF Ids
<1>9. Ids(Ended(M)) = Ids(Ended(S)) \cup {s}
  BY <1>5, <1>6 DEF Ids, Ended
<1>10. ASSUME Closed(S) PROVE Anchored(M)
  BY <1>5, <1>6, <1>8, <1>10 DEF Closed, Anchored
<1>11. ASSUME Exact(S) PROVE Plain(M) /\ Named(M)
  <2>1. Plain(M)
    BY <1>5, <1>6, <1>11 DEF Exact, Plain, Ended
  <2>2. Named(M)
    <3> SUFFICES ASSUME NEW p \in M, p.pending PROVE \E t \in Ended(M) : p.id \in Range(Path[t.id])
      BY DEF Named
    <3>1. p \in S
      BY <1>5, <1>6
    <3>2. PICK r \in Ended(S) : p.id \in Range(Path[r.id])
      BY <1>11, <3>1 DEF Exact, Named
    <3>3. PICK t \in Ended(M) : t.id = r.id
      BY <1>9 DEF Ids
    <3>4. QED
      BY <3>2, <3>3
  <2>3. QED
    BY <2>1, <2>2
<1>12. Collapsed(M) = Collapsed(S)
  BY <1>5, <1>6 DEF Collapsed
<1>13. /\ Table(T) /\ Ids(M) \subseteq Ids(T) /\ Ended(T) = Ended(M) /\ Covers(T)
       /\ Anchored(M) => Closed(T)
       /\ Plain(M) /\ Named(M) => Exact(T)
       /\ Collapsed(T) = Collapsed(M)
  BY <1>7, EnrichRows, EnrichCovers, EnrichClosed, EnrichExact, EnrichCollapsed
<1> HIDE DEF T
<1>14. PICK U : U = AggregateSpanMetrics(T)
  OBVIOUS
<1>15. Redrawn(U, T) /\ Collapsed(U) = Collapsed(T)
  BY <1>13, <1>14, AggregateRows
<1>16. /\ Table(U) /\ Ids(U) = Ids(T) /\ Ids(Ended(U)) = Ids(Ended(T)) /\ Covers(U)
       /\ Closed(T) => Closed(U)
       /\ Exact(T) => Exact(U)
  BY <1>13, <1>15, RedrawnKeeps
<1>17. UpdateSpans(S, s) = U
  BY <1>1, <1>14
<1>18. Closed(S) => Closed(U)
  BY <1>10, <1>13, <1>16
<1>19. Exact(S) => Exact(U)
  BY <1>11, <1>13, <1>16
<1>20. Collapsed(U) = Collapsed(S)
  BY <1>12, <1>13, <1>15
<1>21. Ids(S) \subseteq Ids(U) /\ Ids(Ended(U)) = Ids(Ended(S)) \cup {s}
  BY <1>8, <1>9, <1>13, <1>16
<1>22. QED
  BY <1>16, <1>17, <1>18, <1>19, <1>20, <1>21

----------------------------------------------------------------------------
(* A search.                                                                *)

\* One step of the walk up: f says where it ends for those above.
Climb(f, stored, kept, id) ==
  IF Parent[id] = None \/ Parent[id] \in kept THEN Parent[id]
  ELSE IF Parent[id] \in stored THEN f[Parent[id]] ELSE None

\* On the path of id, k is the last kept one above it, and the walk gets there.
LastKept(stored, kept, id, k) ==
  /\ k \in 1..Len(Path[id]) /\ k < Len(Path[id])
  /\ Path[id][k] \in kept
  /\ \A j \in 1..Len(Path[id]) : k < j /\ j < Len(Path[id]) => Path[id][j] \in stored \ kept

LEMMA LastKeptUnique ==
  ASSUME NEW stored, NEW kept, NEW id \in Spans, NEW k, NEW m,
         LastKept(stored, kept, id, k), LastKept(stored, kept, id, m)
  PROVE  k = m
<1>1. Len(Path[id]) \in Nat
  BY PathOf
<1>2. k \in Nat /\ m \in Nat /\ k \in 1..Len(Path[id]) /\ m \in 1..Len(Path[id])
  BY <1>1 DEF LastKept
<1>3. ~(k < m) /\ ~(m < k)
  BY <1>1, <1>2 DEF LastKept
<1>4. QED
  BY <1>2, <1>3

\* The walk is defined: where it ends can be told from the path.
Ends(f, stored, kept, id) ==
  IF \E k : LastKept(stored, kept, id, k) THEN \E k : LastKept(stored, kept, id, k) /\ f[id] = Path[id][k]
  ELSE f[id] = None

LEMMA ClimbExists ==
  ASSUME NEW stored \in SUBSET Spans, NEW kept
  PROVE  \E f : /\ f = [id \in stored |-> Climb(f, stored, kept, id)]
               /\ \A id \in stored : Ends(f, stored, kept, id)
<1> DEFINE LastKeptAt(id) == CHOOSE k : LastKept(stored, kept, id, k)
           f == [id \in stored |-> IF \E k : LastKept(stored, kept, id, k) THEN Path[id][LastKeptAt(id)] ELSE None]
<1>1. ASSUME NEW id \in stored, NEW k, LastKept(stored, kept, id, k) PROVE f[id] = Path[id][k]
  <2>1. LastKept(stored, kept, id, LastKeptAt(id))
    BY <1>1
  <2> HIDE DEF LastKeptAt
  <2>2. LastKeptAt(id) = k
    BY <1>1, <2>1, LastKeptUnique
  <2>3. QED
    BY <1>1, <2>2
<1>2. ASSUME NEW id \in stored, ~\E k : LastKept(stored, kept, id, k) PROVE f[id] = None
  BY <1>2
<1>3. DOMAIN f = stored /\ f = [id \in stored |-> f[id]]
  OBVIOUS
<1> HIDE DEF f
<1>4. ASSUME NEW id \in stored PROVE f[id] = Climb(f, stored, kept, id)
  <2> DEFINE p == Parent[id]
             n == Len(Path[id])
  <2>1. id \in Spans /\ n \in Nat /\ n > 0 /\ Path[id][n] = id
    BY PathOf
  <2>2. CASE p = None
    <3>1. Path[id] = <<id>>
      BY <2>1, <2>2, PathOf
    <3>2. ~\E k : LastKept(stored, kept, id, k)
      BY <2>1, <3>1 DEF LastKept
    <3>3. QED
      BY <1>2, <2>2, <3>2 DEF Climb
  <2>3. CASE p # None
    <3>1. p \in Spans /\ Len(Path[p]) \in Nat /\ Len(Path[p]) > 0 /\ n = Len(Path[p]) + 1
          /\ \A k \in 1..Len(Path[p]) : Path[id][k] = Path[p][k]
      BY <2>1, <2>3, PathOf
    <3>2. Path[p][Len(Path[p])] = p
      BY <3>1, PathOf
    <3> DEFINE m == Len(Path[p])
    <3>3. m \in 1..m /\ m \in 1..n /\ m < n /\ Path[id][m] = p
      BY <3>1, <3>2
    <3> HIDE DEF p
    <3>4. CASE p \in kept
      <4>1. LastKept(stored, kept, id, m)
        BY <2>1, <3>1, <3>3, <3>4 DEF LastKept
      <4>2. f[id] = p
        BY <1>1, <3>3, <4>1
      <4>3. QED
        BY <3>4, <4>2 DEF Climb, p
    <3>5. CASE p \notin kept /\ p \notin stored
      <4>1. ASSUME NEW k, LastKept(stored, kept, id, k) PROVE FALSE
        <5>1. k \in 1..n /\ k < n /\ k # m
          BY <3>3, <3>5, <4>1 DEF LastKept
        <5>2. k < m
          BY <2>1, <3>1, <5>1
        <5>3. QED
          BY <3>3, <3>5, <4>1, <5>2 DEF LastKept
      <4>2. QED
        BY <1>2, <2>3, <3>5, <4>1 DEF Climb, p
    <3>6. CASE p \notin kept /\ p \in stored
      <4>1. ASSUME NEW k PROVE LastKept(stored, kept, id, k) <=> LastKept(stored, kept, p, k)
        <5>1. ASSUME LastKept(stored, kept, id, k) PROVE LastKept(stored, kept, p, k)
          <6>1. k \in 1..n /\ k < n /\ k # m
            BY <3>3, <3>6, <5>1 DEF LastKept
          <6>2. k \in 1..m /\ k < m
            BY <2>1, <3>1, <6>1
          <6>3. ASSUME NEW j \in 1..m, k < j, j < m PROVE Path[p][j] \in stored \ kept
            <7>1. j \in 1..n /\ j < n
              BY <3>1, <6>3
            <7>2. Path[id][j] \in stored \ kept
              BY <5>1, <6>3, <7>1 DEF LastKept
            <7>3. QED
              BY <3>1, <7>2
          <6>4. Path[p][k] \in kept
            BY <3>1, <5>1, <6>2 DEF LastKept
          <6>5. QED
            BY <6>2, <6>3, <6>4 DEF LastKept
        <5>2. ASSUME LastKept(stored, kept, p, k) PROVE LastKept(stored, kept, id, k)
          <6>1. k \in 1..m /\ k < m
            BY <5>2 DEF LastKept
          <6>2. k \in 1..n /\ k < n
            BY <3>1, <6>1
          <6>3. ASSUME NEW j \in 1..n, k < j, j < n PROVE Path[id][j] \in stored \ kept
            <7>1. CASE j = m
              BY <3>3, <3>6, <7>1
            <7>2. CASE j # m
              <8>1. j \in 1..m /\ j < m
                BY <3>1, <6>3, <7>2
              <8>2. Path[p][j] \in stored \ kept
                BY <5>2, <6>3, <8>1 DEF LastKept
              <8>3. QED
                BY <3>1, <8>1, <8>2
            <7>3. QED
              BY <7>1, <7>2
          <6>4. Path[id][k] \in kept
            BY <3>1, <5>2, <6>1 DEF LastKept
          <6>5. QED
            BY <6>2, <6>3, <6>4 DEF LastKept
        <5>3. QED
          BY <5>1, <5>2
      <4>2. Climb(f, stored, kept, id) = f[p]
        BY <2>3, <3>6 DEF Climb, p
      <4>3. CASE \E k : LastKept(stored, kept, id, k)
        <5>1. PICK k : LastKept(stored, kept, id, k) /\ LastKept(stored, kept, p, k)
          BY <4>1, <4>3
        <5>2. f[id] = Path[id][k] /\ f[p] = Path[p][k]
          BY <1>1, <3>6, <5>1
        <5>3. k \in 1..m
          BY <5>1 DEF LastKept
        <5>4. QED
          BY <3>1, <4>2, <5>2, <5>3
      <4>4. CASE ~\E k : LastKept(stored, kept, id, k)
        BY <1>2, <3>6, <4>1, <4>2, <4>4
      <4>5. QED
        BY <4>3, <4>4
    <3>7. QED
      BY <3>4, <3>5, <3>6
  <2>4. QED
    BY <2>2, <2>3
<1>5. f = [id \in stored |-> Climb(f, stored, kept, id)]
  BY <1>3, <1>4
<1>6. \A id \in stored : Ends(f, stored, kept, id)
  BY <1>1, <1>2 DEF Ends
<1>7. QED
  BY <1>5, <1>6

\* There is one such walk: the first to end differently, on the shortest path,
\* would differ a step further up.
LEMMA ClimbUnique ==
  ASSUME NEW stored \in SUBSET Spans, NEW kept, NEW f, NEW g,
         f = [id \in stored |-> Climb(f, stored, kept, id)],
         g = [id \in stored |-> Climb(g, stored, kept, id)]
  PROVE  \A id \in stored : f[id] = g[id]
<1> DEFINE Bad == {id \in stored : f[id] # g[id]}
           Lens == {Len(Path[id]) : id \in Bad}
<1>1. \A id \in stored : f[id] = Climb(f, stored, kept, id) /\ g[id] = Climb(g, stored, kept, id)
  OBVIOUS
<1>2. SUFFICES ASSUME Bad # {} PROVE FALSE
  OBVIOUS
<1>3. Lens \in SUBSET Nat /\ Lens # {}
  <2>1. \A id \in Bad : Len(Path[id]) \in Nat
    BY PathOf
  <2> HIDE DEF Bad
  <2>2. QED
    BY <1>2, <2>1
<1>4. PICK id \in Bad : \A u \in Bad : Len(Path[id]) <= Len(Path[u])
  <2>1. PICK n \in Lens : \A m \in Lens : n <= m
    <3> HIDE DEF Lens
    <3>1. QED
      BY <1>3, LeastNat
  <2>2. QED
    BY <2>1
<1>5. Parent[id] \in stored /\ f[id] = f[Parent[id]] /\ g[id] = g[Parent[id]] /\ Parent[id] # None
  BY <1>1, TraceAssumption DEF Climb
<1>6. Parent[id] \in Bad
  BY <1>5
<1>7. Len(Path[id]) = Len(Path[Parent[id]]) + 1 /\ Len(Path[Parent[id]]) \in Nat
  BY <1>5, PathOf
<1>8. QED
  BY <1>4, <1>6, <1>7

\* createParentRewiring: a span a search finds gets the nearest ancestor that it
\* also finds, if everyone between them is stored; otherwise it becomes a root.
THEOREM SearchParents ==
  ASSUME NEW stored \in SUBSET Spans, NEW kept \in SUBSET stored, NEW id \in kept
  PROVE  Ends(CreateParentRewiring({Real(s) : s \in stored}, kept), stored, kept, id)
<1> DEFINE S == {Real(s) : s \in stored}
           Above(f, i) == IF The(S, i).parent = None \/ The(S, i).parent \in kept THEN The(S, i).parent
                          ELSE IF The(S, i).parent \in Ids(S) THEN f[The(S, i).parent] ELSE None
           nearest == CHOOSE f : f = [i \in Ids(S) |-> Above(f, i)]
<1>1. CreateParentRewiring(S, kept)[id] = nearest[id]
  BY DEF CreateParentRewiring
<1>2. \A s \in stored : Real(s).id = s /\ Real(s).parent = Parent[s]
  BY RealRow
<1>3. Ids(S) = stored
  BY <1>2 DEF Ids
<1>4. ASSUME NEW i \in stored PROVE The(S, i).parent = Parent[i]
  <2>1. Real(i) \in S /\ Real(i).id = i /\ \A t \in S : t.id = i => t = Real(i)
    BY <1>2
  <2> HIDE DEF S
  <2>2. The(S, i) = Real(i)
    BY <2>1 DEF The
  <2>3. QED
    BY <1>2, <2>2
<1> HIDE DEF S
<1>5. ASSUME NEW f, NEW i \in stored PROVE Above(f, i) = Climb(f, stored, kept, i)
  BY <1>3, <1>4 DEF Climb
<1>6. \A f : f = [i \in Ids(S) |-> Above(f, i)] <=> f = [i \in stored |-> Climb(f, stored, kept, i)]
  <2> HIDE DEF Above
  <2>1. QED
    BY <1>3, <1>5
<1>7. PICK f : f = [i \in stored |-> Climb(f, stored, kept, i)] /\ Ends(f, stored, kept, id)
  BY ClimbExists
<1>8. nearest = [i \in stored |-> Climb(nearest, stored, kept, i)]
  <2>2. f = [i \in Ids(S) |-> Above(f, i)]
    BY <1>6, <1>7
  <2> HIDE DEF Above
  <2>3. nearest = [i \in Ids(S) |-> Above(nearest, i)]
    BY <2>2
  <2>4. QED
    BY <1>6, <2>3
<1> HIDE DEF nearest
<1>9. nearest[id] = f[id]
  BY <1>7, <1>8, ClimbUnique
<1>10. PICK c : c = CreateParentRewiring(S, kept) /\ c[id] = f[id]
  BY <1>1, <1>9
<1>11. Ends(c, stored, kept, id)
  BY <1>7, <1>10 DEF Ends
<1>12. QED
  BY <1>10, <1>11 DEF S

LEMMA RewiredParents ==
  ASSUME NEW stored \in SUBSET Spans, NEW kept \in SUBSET stored, NEW id \in kept
  PROVE  /\ CreateParentRewiring({Real(s) : s \in stored}, kept)[id] \in kept \cup {None}
         /\ Ahead(id, CreateParentRewiring({Real(s) : s \in stored}, kept)[id])
<1>1. PICK c : c = CreateParentRewiring({Real(s) : s \in stored}, kept)
  OBVIOUS
<1>2. Ends(c, stored, kept, id)
  BY <1>1, SearchParents
<1>3. c[id] \in kept \cup {None} /\ Ahead(id, c[id])
  BY <1>2 DEF Ends, LastKept, Ahead
<1>4. QED
  BY <1>1, <1>3

LEMMA RealRows ==
  ASSUME NEW K \in SUBSET Spans
  PROVE  /\ Table({Real(s) : s \in K}) /\ Ids({Real(s) : s \in K}) = K
         /\ Ended({Real(s) : s \in K}) = {Real(s) : s \in K}
         /\ Plain({Real(s) : s \in K})
         /\ \A r \in {Real(s) : s \in K} : r.sum = -1
<1> DEFINE S == {Real(s) : s \in K}
<1>1. \A s \in K : /\ Row(Real(s)) /\ Real(s).id = s /\ ~Real(s).pending /\ Real(s).parent = Parent[s]
                  /\ Real(s).sum = -1
  BY RealRow
<1>2. \A r \in S : \E s \in K : r = Real(s)
  OBVIOUS
<1>3. Table(S)
  BY <1>1, <1>2 DEF Table, Unique
<1>4. Ids(S) = K
  BY <1>1 DEF Ids
<1>5. Ended(S) = S
  BY <1>1 DEF Ended
<1>6. Plain(S)
  BY <1>1, <1>2 DEF Plain, Ended
<1>7. \A r \in S : r.sum = -1
  BY <1>1, <1>2
<1>8. QED
  BY <1>3, <1>4, <1>5, <1>6, <1>7

LEMMA ParentRow ==
  ASSUME NEW s, Row(s), ~s.pending, NEW q \in Spans \cup {None}, Ahead(s.id, q)
  PROVE  /\ Row([s EXCEPT !.parent = q]) /\ [s EXCEPT !.parent = q].id = s.id
         /\ [s EXCEPT !.parent = q].pending = s.pending /\ [s EXCEPT !.parent = q].parent = q
         /\ [s EXCEPT !.parent = q].sum = s.sum
<1>1. PICK p : p = [s EXCEPT !.parent = q]
  OBVIOUS
<1>2. p = [id |-> s.id, parent |-> q, path |-> s.path, type |-> s.type, start |-> s.start, end |-> s.end,
           pending |-> s.pending, collapsed |-> s.collapsed, tokens |-> s.tokens, sum |-> s.sum]
  BY <1>1 DEF Row
<1>3. /\ p.id = s.id /\ p.parent = q /\ p.path = s.path /\ p.type = s.type /\ p.start = s.start
      /\ p.end = s.end /\ p.pending = s.pending /\ p.collapsed = s.collapsed /\ p.tokens = s.tokens /\ p.sum = s.sum
  BY <1>2
<1>4. Row(p)
  BY <1>2, <1>3 DEF Row, Described
<1>5. QED
  BY <1>1, <1>3, <1>4

LEMMA SearchRows ==
  ASSUME NEW stored \in SUBSET Spans, NEW kept \in SUBSET stored, NEW T,
         T = TransformSpans({Real(s) : s \in stored}, kept)
  PROVE  /\ Table(T) /\ Ids(T) = kept /\ Ended(T) = T /\ Closed(T)
         /\ \A r \in T : r.sum = -1 /\ r.parent = CreateParentRewiring({Real(s) : s \in stored}, kept)[r.id]
<1> DEFINE all == {Real(s) : s \in stored}
           up  == CreateParentRewiring(all, kept)
           new(i) == [Real(i) EXCEPT !.parent = up[i]]
<1>1. \A s \in stored : Row(Real(s)) /\ Real(s).id = s /\ ~Real(s).pending /\ Real(s).sum = -1
  BY RealRow
<1>2. \A i \in kept : up[i] \in kept \cup {None} /\ up[i] \in Spans \cup {None} /\ Ahead(i, up[i])
  BY RewiredParents
<1>3. T = {[s EXCEPT !.parent = up[s.id]] : s \in {t \in all : t.id \in kept}}
  BY DEF TransformSpans
<1> HIDE DEF up
<1>4. T = {new(i) : i \in kept}
  BY <1>1, <1>3
<1>5. ASSUME NEW i \in kept
      PROVE  Row(new(i)) /\ new(i).id = i /\ ~new(i).pending /\ new(i).parent = up[i] /\ new(i).sum = -1
  <2>1. PICK r : r = Real(i)
    OBVIOUS
  <2>2. Row(r) /\ r.id = i /\ ~r.pending /\ r.sum = -1
    BY <1>1, <2>1
  <2>3. /\ Row([r EXCEPT !.parent = up[i]]) /\ [r EXCEPT !.parent = up[i]].id = r.id
        /\ [r EXCEPT !.parent = up[i]].pending = r.pending /\ [r EXCEPT !.parent = up[i]].parent = up[i]
        /\ [r EXCEPT !.parent = up[i]].sum = r.sum
    BY <1>2, <2>2, ParentRow
  <2>4. QED
    BY <2>1, <2>2, <2>3
<1>6. \A r \in T : \E i \in kept : r = new(i)
  BY <1>4
<1>7. \A i \in kept : new(i) \in T
  BY <1>4
<1> HIDE DEF new
<1>8. Table(T)
  BY <1>5, <1>6 DEF Table, Unique
<1>9. Ids(T) = kept
  BY <1>5, <1>6, <1>7 DEF Ids
<1>10. Ended(T) = T
  BY <1>5, <1>6 DEF Ended
<1>11. Closed(T)
  BY <1>2, <1>5, <1>6, <1>9 DEF Closed
<1>12. \A r \in T : r.sum = -1 /\ r.parent = up[r.id]
  BY <1>5, <1>6
<1>13. QED
  BY <1>8, <1>9, <1>10, <1>11, <1>12 DEF up

----------------------------------------------------------------------------
(* A response.                                                              *)

\* What a request brings: rows of stored spans, without placeholders, parents
\* those of the spans or, for a search, among the rows.
Response(R, stored) ==
  Table(R) /\ Ended(R) = R /\ Ids(R) \subseteq stored

LEMMA ResponseRows ==
  ASSUME NEW search \in BOOLEAN, NEW within
  PROVE  /\ Response(GetTraceSpans(search, within), Stored)
         /\ search => Closed(GetTraceSpans(search, within))
         /\ ~search => /\ Plain(GetTraceSpans(search, within))
                       /\ Ids(GetTraceSpans(search, within)) = Stored \cap within
<1> DEFINE all  == {Real(s) : s \in Stored}
           kept == {s \in Stored \cap within : search => s \in Matching}
           B    == IF search THEN TransformSpans(all, kept) ELSE {Real(s) : s \in kept}
<1>1. GetTraceSpans(search, within) = AggregateSpanMetrics(B)
  BY DEF GetTraceSpans
<1>2. Stored \in SUBSET Spans /\ kept \in SUBSET Stored /\ kept \in SUBSET Spans
  BY DEF Stored
<1>3. ~search => kept = Stored \cap within
  OBVIOUS
<1> HIDE DEF kept
<1>4. Table(B) /\ Ended(B) = B /\ Ids(B) = kept /\ (search => Closed(B)) /\ (~search => Plain(B))
  <2>1. CASE search
    <3>1. B = TransformSpans(all, kept)
      BY <2>1
    <3> HIDE DEF B
    <3>2. QED
      BY <1>2, <2>1, <3>1, SearchRows
  <2>2. CASE ~search
    <3>1. B = {Real(s) : s \in kept}
      BY <2>2
    <3> HIDE DEF B
    <3>2. QED
      BY <1>2, <2>2, <3>1, RealRows
  <2>3. QED
    BY <2>1, <2>2
<1> HIDE DEF B
<1>5. PICK R : R = AggregateSpanMetrics(B)
  OBVIOUS
<1>6. Redrawn(R, B)
  BY <1>4, <1>5, AggregateRows
<1>7. /\ Table(R) /\ Ids(R) = Ids(B) /\ Ended(R) = R
      /\ search => Closed(R)
      /\ ~search => Plain(R)
  BY <1>4, <1>6, RedrawnKeeps
<1>8. Ids(R) \subseteq Stored
  BY <1>2, <1>4, <1>7
<1>9. ~search => Ids(R) = Stored \cap within
  BY <1>3, <1>4, <1>7
<1>10. Response(R, Stored)
  BY <1>7, <1>8 DEF Response
<1>11. QED
  BY <1>1, <1>5, <1>7, <1>9, <1>10

\* A response opens one of its rows, or none.
LEMMA SelectRows ==
  ASSUME NEW rows, Table(rows), rows = {} \/ Ended(rows) # {}, NEW address
  PROVE  SpanToSelect(rows, address) # None => SpanToSelect(rows, address) \in Ids(rows)
<1> DEFINE first  == CHOOSE id \in Ids(rows) : IsFirst({r \in rows : ~r.pending}, id)
           wanted == IF link # None THEN link ELSE address
           starts == {s.start : s \in Ended(rows)}
<1>1. CASE rows = {}
  BY <1>1 DEF SpanToSelect
<1>2. CASE rows # {}
  <2>1. starts \in SUBSET Nat /\ starts # {}
    BY <1>2 DEF Ended, Table, Row
  <2>2. PICK x \in starts : \A y \in starts : x <= y
    <3> HIDE DEF starts
    <3>1. QED
      BY <2>1, LeastNat
  <2>3. PICK s \in Ended(rows) : \A t \in Ended(rows) : s.start <= t.start
    BY <2>2
  <2>4. s.id \in Ids(rows) /\ IsFirst({r \in rows : ~r.pending}, s.id)
    BY <2>3 DEF Ended, Ids, IsFirst
  <2>5. first \in Ids(rows)
    BY <2>4
  <2> HIDE DEF first
  <2>6. SpanToSelect(rows, address) = IF wanted # None THEN IF wanted \in Ids(rows) THEN wanted ELSE first
                                      ELSE IF page THEN first ELSE None
    <3>1. CASE wanted # None
      BY <1>2, <3>1 DEF SpanToSelect, first
    <3>2. CASE wanted = None
      BY <1>2, <3>2 DEF SpanToSelect, first
    <3>3. QED
      BY <3>1, <3>2
  <2>7. QED
    BY <2>5, <2>6
<1>3. QED
  BY <1>1, <1>2

----------------------------------------------------------------------------
(* The invariant.                                                           *)

\* The store: a closed table of rows of stored spans and placeholders.
StoreInv ==
  /\ Table(shown) /\ Closed(shown) /\ Covers(shown)
  /\ Ids(Ended(shown)) \subseteq Stored
  /\ ~searched => Exact(shown)
  /\ selected # None => selected \in Ids(shown)

\* What ingestion and the stream hold.
StreamInv ==
  /\ stage \in [Spans -> {"running", "stored", "sent"}]
  /\ feed \subseteq {s \in Spans : stage[s] = "sent"}
  /\ connected \/ feed = {}
  /\ {url, link} \subseteq Spans \cup {None}
  /\ raced \in {"no", "total", "view"}

\* Times of the trace.
Timed(row) == row.start \in Nat /\ row.end \in Nat

RowInv ==
  /\ trace # None => Timed(trace)
  /\ traceRequest.phase = "answered" /\ traceRequest.row # None => Timed(traceRequest.row)

Asking(r)   == r.phase = "asked"
Answered(r) == r.phase = "answered"

Request(r, stored) ==
  /\ r = [phase |-> r.phase, search |-> r.search, rows |-> r.rows, url |-> r.url, within |-> r.within]
  /\ r.search \in BOOLEAN
  /\ Answered(r) => /\ Response(r.rows, stored)
                    /\ r.search => Closed(r.rows)
                    /\ ~r.search => Plain(r.rows)

IsList(list) == \E R : list \in Seq(R)

RequestsInv ==
  /\ IsList(requests) /\ 1 \in DOMAIN requests
  /\ \A i \in DOMAIN requests : Request(requests[i], Stored)

LiveInv == StoreInv /\ StreamInv /\ RowInv /\ RequestsInv

\* The spans whose events were handled, or sent before the view opened.
Handled == {s \in Spans : stage[s] = "sent" /\ s \notin feed}

\* A response on its way, of all spans, will bring those of H.
Brings(r, H) ==
  ~r.search =>
    /\ Asking(r) => H \subseteq r.within
    /\ Answered(r) => H \subseteq Ids(r.rows)

\* A row whose times take in a span.
Spanned(row, s) == row.start <= Start[s] /\ End[s] <= row.end

\* Unless an event was lost or overtaken, what was handled is in the rows, will
\* be brought by the first response, and is brought by every later one: the
\* times of the trace that limit a request take in all of what was handled.
InTime ==
  /\ \A i \in DOMAIN requests : Brings(requests[i], Handled)
  /\ trace # None => \A s \in Handled : Spanned(trace, s)
  /\ traceRequest.phase = "answered" /\ traceRequest.row # None => \A s \in Handled : Spanned(traceRequest.row, s)
  /\ ~searched => Handled \subseteq Ids(Ended(shown)) \/ Asking(requests[1]) \/ Answered(requests[1])

PastInv == raced # "view" => InTime

----------------------------------------------------------------------------
(* Times and lists.                                                         *)

LEMMA LastEndType ==
  ASSUME NEW S \in SUBSET Spans
  PROVE  LastEnd(S) \in Nat /\ \A s \in S : End[s] <= LastEnd(S)
<1> DEFINE ends == {End[s] : s \in S}
           all  == ends \cup {0}
<1>1. \A s \in Spans : End[s] \in Nat
  BY TraceAssumption
<1>2. all \in SUBSET Nat /\ all # {}
  BY <1>1
<1>3. IsFiniteSet(all)
  <2>1. IsFiniteSet(S)
    BY FS_Subset, TraceAssumption
  <2>2. IsFiniteSet(ends)
    BY <2>1, FiniteImage
  <2> HIDE DEF ends
  <2>3. QED
    BY <2>2, FS_AddElement
<1>4. \A s \in S : End[s] \in all
  OBVIOUS
<1> HIDE DEF all
<1>5. Max(all) \in all /\ \A x \in all : Max(all) >= x
  BY <1>2, <1>3, GreatestNat
<1>6. Max(all) \in Nat /\ \A s \in S : End[s] <= Max(all)
  BY <1>1, <1>2, <1>4, <1>5
<1>7. QED
  BY <1>6 DEF LastEnd, all

LEMMA FirstStartType ==
  ASSUME NEW S \in SUBSET Spans, S # {}
  PROVE  FirstStart(S) \in {Start[s] : s \in S} /\ FirstStart(S) \in Nat /\ \A s \in S : FirstStart(S) <= Start[s]
<1> DEFINE starts == {Start[s] : s \in S}
<1>1. starts \in SUBSET Nat /\ starts # {}
  <2>1. \A s \in Spans : Start[s] \in Nat
    BY TraceAssumption
  <2>2. QED
    BY <2>1
<1>2. \A s \in S : Start[s] \in starts
  OBVIOUS
<1> HIDE DEF starts
<1>3. Min(starts) \in starts /\ \A x \in starts : Min(starts) <= x
  BY <1>1, LeastNat
<1>4. QED
  BY <1>1, <1>2, <1>3 DEF FirstStart, starts

LEMMA Sooner ==
  ASSUME NEW m \in Nat, NEW n \in Nat
  PROVE  /\ Min({m, n}) \in {m, n} /\ Min({m, n}) \in Nat
         /\ Min({m, n}) <= m /\ Min({m, n}) <= n
<1>1. {m, n} \in SUBSET Nat /\ {m, n} # {}
  OBVIOUS
<1>2. Min({m, n}) \in {m, n} /\ \A x \in {m, n} : Min({m, n}) <= x
  BY <1>1, LeastNat
<1>3. QED
  BY <1>2

LEMMA Later ==
  ASSUME NEW m \in Nat, NEW n \in Nat
  PROVE  Max({m, n}) \in Nat /\ m <= Max({m, n}) /\ n <= Max({m, n})
<1>1. {m, n} \in SUBSET Nat /\ {m, n} # {} /\ {m, n} = {m} \cup {n}
  OBVIOUS
<1>2. IsFiniteSet({m, n})
  <2>1. IsFiniteSet({m})
    BY FS_Singleton
  <2>2. IsFiniteSet({m} \cup {n})
    BY <2>1, FS_AddElement
  <2>3. QED
    BY <1>1, <2>2
<1>3. Max({m, n}) \in {m, n} /\ \A x \in {m, n} : Max({m, n}) >= x
  BY <1>1, <1>2, GreatestNat
<1>4. QED
  BY <1>3

LEMMA Appended ==
  ASSUME NEW list, IsList(list), NEW x
  PROVE  /\ IsList(Append(list, x))
         /\ DOMAIN Append(list, x) = DOMAIN list \cup {Len(list) + 1}
         /\ \A i \in DOMAIN list : Append(list, x)[i] = list[i]
         /\ Append(list, x)[Len(list) + 1] = x
<1>1. PICK R : list \in Seq(R)
  BY DEF IsList
<1>2. list \in Seq(R \cup {x})
  BY <1>1
<1>3. Append(list, x) \in Seq(R \cup {x})
  BY <1>2
<1>4. QED
  BY <1>2, <1>3 DEF IsList

LEMMA Replaced ==
  ASSUME NEW list, IsList(list), NEW i \in DOMAIN list, NEW x
  PROVE  /\ IsList([list EXCEPT ![i] = x])
         /\ DOMAIN [list EXCEPT ![i] = x] = DOMAIN list
         /\ [list EXCEPT ![i] = x][i] = x
         /\ \A j \in DOMAIN list : j # i => [list EXCEPT ![i] = x][j] = list[j]
<1>1. PICK R : list \in Seq(R)
  BY DEF IsList
<1>2. list \in Seq(R \cup {x})
  BY <1>1
<1>3. [list EXCEPT ![i] = x] \in Seq(R \cup {x})
  BY <1>2
<1>4. QED
  BY <1>2, <1>3 DEF IsList

LEMMA RequestRecord ==
  ASSUME NEW search \in BOOLEAN, NEW row, NEW address
  PROVE  /\ \A stored : Request(Asked(search, row, address), stored)
         /\ Asking(Asked(search, row, address)) /\ ~Answered(Asked(search, row, address))
         /\ Asked(search, row, address).search = search
         /\ Asked(search, row, address).within = {s \in Spans : row = None \/ (row.start <= Start[s] /\ Start[s] <= row.end)}
<1>1. PICK within : within = {s \in Spans : row = None \/ (row.start <= Start[s] /\ Start[s] <= row.end)}
  OBVIOUS
<1>2. PICK r : r = [phase |-> "asked", search |-> search, rows |-> {}, url |-> address, within |-> within]
  OBVIOUS
<1>3. Asked(search, row, address) = r
  BY <1>1, <1>2 DEF Asked
<1>4. r.phase = "asked" /\ r.search = search /\ r.rows = {} /\ r.url = address /\ r.within = within
  BY <1>2
<1>5. Asking(r) /\ ~Answered(r)
  BY <1>4 DEF Asking, Answered
<1>6. r = [phase |-> r.phase, search |-> r.search, rows |-> r.rows, url |-> r.url, within |-> r.within]
  BY <1>2, <1>4
<1>7. \A stored : Request(r, stored)
  BY <1>4, <1>5, <1>6 DEF Request
<1>8. QED
  BY <1>1, <1>3, <1>4, <1>5, <1>7

\* The times of a row that take in what was handled let it through.
LEMMA WithinRow ==
  ASSUME NEW H \in SUBSET Spans, NEW row, row # None => Timed(row) /\ \A s \in H : Spanned(row, s)
  PROVE  H \subseteq {s \in Spans : row = None \/ (row.start <= Start[s] /\ Start[s] <= row.end)}
<1> SUFFICES ASSUME NEW s \in H, row # None PROVE row.start <= Start[s] /\ Start[s] <= row.end
  OBVIOUS
<1>1. Start[s] \in Nat /\ End[s] \in Nat /\ Start[s] <= End[s]
  BY TraceAssumption
<1>2. row.start <= Start[s] /\ End[s] <= row.end /\ row.start \in Nat /\ row.end \in Nat
  BY DEF Timed, Spanned
<1>3. QED
  BY <1>1, <1>2

LEMMA DoneRecord ==
  /\ \A stored : Request(Done, stored)
  /\ ~Asking(Done) /\ ~Answered(Done)
<1>1. PICK r : r = Asked(FALSE, None, None)
  OBVIOUS
<1>2. PICK within : r = [phase |-> "asked", search |-> FALSE, rows |-> {}, url |-> None, within |-> within]
  BY <1>1 DEF Asked
<1>3. PICK d : d = Done
  OBVIOUS
<1>4. d = [r EXCEPT !.phase = "done"]
  BY <1>1, <1>3 DEF Done
<1>5. d = [phase |-> "done", search |-> FALSE, rows |-> {}, url |-> None, within |-> within]
  BY <1>2, <1>4
<1>6. d.phase = "done" /\ d.search = FALSE /\ d.rows = {} /\ d.url = None /\ d.within = within
  BY <1>5
<1>7. ~Asking(d) /\ ~Answered(d)
  BY <1>6 DEF Asking, Answered
<1>8. \A stored : Request(d, stored)
  BY <1>5, <1>6, <1>7 DEF Request
<1>9. QED
  BY <1>3, <1>7, <1>8

Reply(a, r, rows) == a = [r EXCEPT !.phase = "answered", !.rows = rows]

LEMMA AnsweredRecord ==
  ASSUME NEW stored, NEW r, Request(r, stored), NEW rows, Response(rows, stored),
         r.search => Closed(rows), ~r.search => Plain(rows), NEW a, Reply(a, r, rows)
  PROVE  /\ Request(a, stored) /\ Answered(a) /\ ~Asking(a)
         /\ a.search = r.search /\ a.rows = rows
<1>1. a = [phase |-> "answered", search |-> r.search, rows |-> rows, url |-> r.url, within |-> r.within]
  BY DEF Request, Reply
<1>2. a.phase = "answered" /\ a.search = r.search /\ a.rows = rows /\ a.url = r.url /\ a.within = r.within
  BY <1>1
<1>3. Answered(a) /\ ~Asking(a)
  BY <1>2 DEF Asking, Answered
<1>4. QED
  BY <1>1, <1>2, <1>3 DEF Request

----------------------------------------------------------------------------
(* The invariant holds when the view opens.                                 *)

LEMMA NoRows ==
  /\ Table({}) /\ Closed({}) /\ Covers({}) /\ Exact({})
  /\ Ids(Ended({})) = {} /\ Ids({}) = {} /\ Ended({}) = {}
BY DEF Table, Unique, Closed, Covers, Exact, Plain, Named, Full, Ids, Ended

LEMMA TraceRowTime ==
  ASSUME Stored # {}
  PROVE  Timed(TraceRow) /\ \A s \in Stored : Spanned(TraceRow, s)
<1>1. Stored \in SUBSET Spans
  BY DEF Stored
<1>2. TraceRow.start = FirstStart(Stored) /\ TraceRow.end = LastEnd(Stored)
  BY DEF TraceRow
<1>3. LastEnd(Stored) \in Nat /\ \A s \in Stored : End[s] <= LastEnd(Stored)
  BY <1>1, LastEndType
<1>4. FirstStart(Stored) \in Nat /\ \A s \in Stored : FirstStart(Stored) <= Start[s]
  BY <1>1, FirstStartType
<1>5. QED
  BY <1>2, <1>3, <1>4 DEF Timed, Spanned

LEMMA Opens ==
  ASSUME Init
  PROVE  LiveInv /\ PastInv
<1>1. PICK stages \in [Spans -> {"running", "stored", "sent"}], isPage \in BOOLEAN, linked \in Spans \cup {None} :
        Open(stages, isPage, linked)
  BY DEF Init
<1>2. trace # None => Timed(trace) /\ \A s \in Stored : Spanned(trace, s)
  BY <1>1, TraceRowTime DEF Open
<1>3. PICK r : r = Asked(FALSE, trace, linked)
  OBVIOUS
<1>4. /\ Request(r, Stored) /\ Asking(r) /\ ~Answered(r)
      /\ r.within = {s \in Spans : trace = None \/ (trace.start <= Start[s] /\ Start[s] <= trace.end)}
  BY <1>3, RequestRecord
<1>5. requests = <<r>>
  BY <1>1, <1>3 DEF Open
<1>6. IsList(requests) /\ DOMAIN requests = {1} /\ requests[1] = r
  <2>1. requests \in Seq({r})
    BY <1>5
  <2>2. IsList(requests)
    BY <2>1 DEF IsList
  <2>3. DOMAIN <<r>> = 1..1 /\ 1..1 = {1} /\ <<r>>[1] = r
    OBVIOUS
  <2>4. QED
    BY <1>5, <2>2, <2>3
<1>7. traceRequest.phase # "answered"
  BY <1>1 DEF Open
<1>8. StoreInv
  BY <1>1, NoRows DEF Open, StoreInv
<1>9. StreamInv
  BY <1>1 DEF Open, StreamInv
<1>10. RowInv
  BY <1>2, <1>7 DEF RowInv
<1>11. RequestsInv
  BY <1>4, <1>6 DEF RequestsInv
<1>12. InTime
  <2>1. Handled \subseteq Stored
    BY DEF Handled, Stored
  <2>2. Handled \subseteq r.within
    <3>1. Handled \in SUBSET Spans /\ (trace # None => Timed(trace) /\ \A s \in Handled : Spanned(trace, s))
      BY <1>2, <2>1 DEF Handled
    <3>2. QED
      BY <1>4, <3>1, WithinRow
  <2>3. Brings(r, Handled)
    BY <1>4, <2>2 DEF Brings
  <2>4. QED
    BY <1>2, <1>4, <1>6, <1>7, <2>1, <2>3 DEF InTime
<1>13. QED
  BY <1>8, <1>9, <1>10, <1>11, <1>12 DEF LiveInv, PastInv

----------------------------------------------------------------------------
(* The steps of ingestion and the stream.                                   *)

\* What is stored stays stored.
LEMMA MoreStored ==
  ASSUME NEW stored, NEW more, stored \subseteq more, NEW r, Request(r, stored)
  PROVE  Request(r, more)
BY DEF Request, Response

LEMMA IngestKeeps ==
  ASSUME LiveInv, PastInv, NEW s \in Spans, Ingest(s)
  PROVE  LiveInv' /\ PastInv'
<1>1. Stored \subseteq Stored'
  BY DEF LiveInv, StreamInv, Ingest, Stored
<1>2. StoreInv'
  BY <1>1 DEF LiveInv, StoreInv, Ingest, User
<1>3. StreamInv'
  BY DEF LiveInv, StreamInv, Ingest, Stream, Fixed, User
<1>4. RowInv'
  BY DEF LiveInv, RowInv, Ingest
<1>5. RequestsInv'
  BY <1>1, MoreStored DEF LiveInv, RequestsInv, Ingest
<1>6. Handled' = Handled
  BY DEF LiveInv, StreamInv, Handled, Ingest, Stream
<1>7. PastInv'
  BY <1>6 DEF PastInv, InTime, Ingest
<1>8. QED
  BY <1>2, <1>3, <1>4, <1>5, <1>7 DEF LiveInv

LEMMA SendKeeps ==
  ASSUME LiveInv, PastInv, NEW s \in Spans, Send(s)
  PROVE  LiveInv' /\ PastInv'
<1>1. Stored' = Stored
  BY DEF LiveInv, StreamInv, Send, Stored
<1>2. StoreInv'
  BY <1>1 DEF LiveInv, StoreInv, Send, User
<1>3. StreamInv'
  BY DEF LiveInv, StreamInv, Send, Reach, Fixed, User
<1>4. RowInv'
  BY DEF LiveInv, RowInv, Send
<1>5. RequestsInv'
  BY <1>1 DEF LiveInv, RequestsInv, Send
<1>6. ASSUME raced' # "view" PROVE Handled' = Handled /\ raced # "view"
  BY <1>6 DEF LiveInv, StreamInv, Handled, Send, Reach
<1>7. PastInv'
  BY <1>6 DEF PastInv, InTime, Send
<1>8. QED
  BY <1>2, <1>3, <1>4, <1>5, <1>7 DEF LiveInv

LEMMA FewerHandled ==
  ASSUME NEW r, NEW H, NEW K, K \subseteq H, Brings(r, H)
  PROVE  Brings(r, K)
BY DEF Brings

LEMMA SendAgainKeeps ==
  ASSUME LiveInv, PastInv, NEW s \in Spans, SendAgain(s)
  PROVE  LiveInv' /\ PastInv'
<1>1. Stored' = Stored
  BY DEF SendAgain, Stored
<1>2. StoreInv'
  BY <1>1 DEF LiveInv, StoreInv, SendAgain, User
<1>3. StreamInv'
  BY DEF LiveInv, StreamInv, SendAgain, Fixed, User, AtLeastTotal
<1>4. RowInv'
  BY DEF LiveInv, RowInv, SendAgain
<1>5. RequestsInv'
  BY <1>1 DEF LiveInv, RequestsInv, SendAgain
<1>6. ASSUME raced' # "view" PROVE Handled' \subseteq Handled /\ raced # "view"
  BY <1>6 DEF Handled, SendAgain, AtLeastTotal
<1>7. PastInv'
  <2> SUFFICES ASSUME raced' # "view" PROVE InTime'
    BY DEF PastInv
  <2>1. InTime /\ Handled' \subseteq Handled
    BY <1>6 DEF PastInv
  <2>2. \A i \in DOMAIN requests : Brings(requests[i], Handled')
    BY <2>1, FewerHandled DEF InTime
  <2>3. QED
    BY <2>1, <2>2 DEF InTime, SendAgain
<1>8. QED
  BY <1>2, <1>3, <1>4, <1>5, <1>7 DEF LiveInv

LEMMA ConnectKeeps ==
  ASSUME LiveInv, PastInv, Connect
  PROVE  LiveInv' /\ PastInv'
<1>1. Stored' = Stored /\ Handled' = Handled
  BY DEF Connect, Stored, Handled, Server
<1>2. StoreInv'
  BY <1>1 DEF LiveInv, StoreInv, Connect, User
<1>3. StreamInv'
  BY DEF LiveInv, StreamInv, Connect, Server, Fixed, User
<1>4. RowInv'
  BY DEF LiveInv, RowInv, Connect
<1>5. RequestsInv'
  BY <1>1 DEF LiveInv, RequestsInv, Connect
<1>6. PastInv'
  BY <1>1 DEF PastInv, InTime, Connect
<1>7. QED
  BY <1>2, <1>3, <1>4, <1>5, <1>6 DEF LiveInv

LEMMA DisconnectKeeps ==
  ASSUME LiveInv, PastInv, Disconnect
  PROVE  LiveInv' /\ PastInv'
<1>1. Stored' = Stored
  BY DEF Disconnect, Stored, Server
<1>2. StoreInv'
  BY <1>1 DEF LiveInv, StoreInv, Disconnect, User
<1>3. StreamInv'
  BY DEF LiveInv, StreamInv, Disconnect, Server, Fixed, User
<1>4. RowInv'
  BY DEF LiveInv, RowInv, Disconnect
<1>5. RequestsInv'
  BY <1>1 DEF LiveInv, RequestsInv, Disconnect
<1>6. ASSUME raced' # "view" PROVE Handled' = Handled /\ raced # "view"
  BY <1>6 DEF Handled, Disconnect, Server
<1>7. PastInv'
  BY <1>6 DEF PastInv, InTime, Disconnect
<1>8. QED
  BY <1>2, <1>3, <1>4, <1>5, <1>7 DEF LiveInv

----------------------------------------------------------------------------
(* An event.                                                                *)

LEMMA Reselected ==
  ASSUME NEW S, NEW loads, NEW current, current # None => current \in Ids(S)
  PROVE  Reselect(S, loads, current) # None => Reselect(S, loads, current) \in Ids(S)
BY DEF Reselect

LEMMA EventKeeps ==
  ASSUME LiveInv, PastInv, NEW s \in Spans, HandleEvent(s)
  PROVE  LiveInv' /\ PastInv'
<1>1. Stored' = Stored /\ s \in Stored /\ s \in feed
  BY DEF HandleEvent, LiveInv, StreamInv, Stored, Server
<1>2. /\ Table(shown') /\ Ids(shown) \subseteq Ids(shown')
      /\ Ids(Ended(shown')) = Ids(Ended(shown)) \cup {s}
      /\ Closed(shown') /\ Covers(shown')
      /\ Exact(shown) => Exact(shown')
  <2>1. Table(shown) /\ Closed(shown) /\ shown' = UpdateSpans(shown, s)
    BY DEF LiveInv, StoreInv, HandleEvent
  <2>2. QED
    BY <2>1, UpdateRows
<1>3. selected' # None => selected' \in Ids(shown')
  <2>1. selected' = Reselect(shown', loading, selected)
    BY DEF HandleEvent
  <2>2. QED
    BY <1>2, <2>1, Reselected DEF LiveInv, StoreInv
<1>4. StoreInv'
  BY <1>1, <1>2, <1>3 DEF LiveInv, StoreInv, HandleEvent
<1>5. StreamInv'
  BY DEF LiveInv, StreamInv, HandleEvent, Server, Fixed
<1>6. ASSUME trace # None
      PROVE  Timed(trace') /\ Spanned(trace', s) /\ \A t \in Spans : Spanned(trace, t) => Spanned(trace', t)
  <2>1. trace'.start = Min({trace.start, Start[s]}) /\ trace'.end = Max({trace.end, End[s]})
    BY <1>6 DEF HandleEvent, UpdateTrace
  <2>2. trace.start \in Nat /\ trace.end \in Nat /\ Start[s] \in Nat /\ End[s] \in Nat
    BY <1>6, TraceAssumption DEF LiveInv, RowInv, Timed
  <2>3. trace'.start \in Nat /\ trace'.start <= trace.start /\ trace'.start <= Start[s]
    BY <2>1, <2>2, Sooner
  <2>4. trace'.end \in Nat /\ trace.end <= trace'.end /\ End[s] <= trace'.end
    BY <2>1, <2>2, Later
  <2>5. ASSUME NEW t \in Spans, Spanned(trace, t) PROVE Spanned(trace', t)
    <3>1. Start[t] \in Nat /\ End[t] \in Nat /\ trace.start <= Start[t] /\ End[t] <= trace.end
      BY <2>5, TraceAssumption DEF Spanned
    <3>2. trace'.start <= Start[t] /\ End[t] <= trace'.end
      BY <2>2, <2>3, <2>4, <3>1
    <3>3. QED
      BY <3>2 DEF Spanned
  <2>6. QED
    BY <2>3, <2>4, <2>5 DEF Timed, Spanned
<1>7. trace' # None => trace # None
  BY DEF HandleEvent
<1>8. RowInv'
  BY <1>6, <1>7 DEF LiveInv, RowInv, HandleEvent
<1>9. RequestsInv'
  BY <1>1 DEF LiveInv, RequestsInv, HandleEvent
<1>10. Handled' = Handled \cup {s}
  BY <1>1 DEF LiveInv, StreamInv, Handled, HandleEvent, Server
<1>11. ASSUME raced' # "view"
       PROVE  /\ raced # "view" /\ traceRequest.phase # "answered"
              /\ \A i \in DOMAIN requests :
                   /\ Answered(requests[i]) => s \in Ids(requests[i].rows)
                   /\ Asking(requests[i]) => s \in requests[i].within
  <2> DEFINE late(r) == \/ r.phase = "answered" /\ s \notin Ids(r.rows)
                        \/ r.phase = "asked" /\ s \notin r.within
  <2>1. {r \in Range(requests) : late(r)} = {}
    BY <1>11 DEF HandleEvent
  <2>2. \A i \in DOMAIN requests : ~late(requests[i])
    BY <2>1 DEF Range
  <2>3. QED
    BY <1>11, <2>2 DEF HandleEvent, Answered, Asking
<1>12. PastInv'
  <2> SUFFICES ASSUME raced' # "view" PROVE InTime'
    BY DEF PastInv
  <2>1. InTime
    BY <1>11 DEF PastInv
  <2>2. ASSUME NEW i \in DOMAIN requests PROVE Brings(requests[i], Handled')
    <3>1. Brings(requests[i], Handled)
      BY <2>1 DEF InTime
    <3>3. Asking(requests[i]) => s \in requests[i].within
      BY <1>11
    <3>4. Answered(requests[i]) => s \in Ids(requests[i].rows)
      BY <1>11
    <3>5. QED
      BY <1>10, <3>1, <3>3, <3>4 DEF Brings
  <2>3. trace' # None => \A t \in Handled' : Spanned(trace', t)
    <3> SUFFICES ASSUME trace' # None, NEW t \in Handled' PROVE Spanned(trace', t)
      OBVIOUS
    <3>1. trace # None
      BY <1>7
    <3>2. CASE t = s
      BY <1>6, <3>1, <3>2
    <3>3. CASE t # s
      <4>1. t \in Handled /\ t \in Spans
        BY <1>10, <3>3 DEF Handled
      <4>2. QED
        BY <1>6, <2>1, <3>1, <4>1 DEF InTime
    <3>4. QED
      BY <3>2, <3>3
  <2>4. ~searched' => \/ Handled' \subseteq Ids(Ended(shown'))
                      \/ Asking(requests'[1]) \/ Answered(requests'[1])
    BY <1>2, <1>10, <2>1 DEF InTime, HandleEvent
  <2>5. requests' = requests /\ traceRequest' = traceRequest
    BY DEF HandleEvent
  <2>6. QED
    BY <1>11, <2>2, <2>3, <2>4, <2>5 DEF InTime
<1>13. QED
  BY <1>4, <1>5, <1>8, <1>9, <1>12 DEF LiveInv

----------------------------------------------------------------------------
(* The request for the trace.                                               *)

LEMMA AnswerTraceKeeps ==
  ASSUME LiveInv, PastInv, AnswerTrace
  PROVE  LiveInv' /\ PastInv'
<1>1. Stored' = Stored /\ Handled' = Handled /\ Handled \subseteq Stored
  BY DEF AnswerTrace, Stored, Handled, Server, Stream
<1>2. StoreInv'
  BY <1>1 DEF LiveInv, StoreInv, AnswerTrace, User
<1>3. StreamInv'
  BY DEF LiveInv, StreamInv, AnswerTrace, Server, Stream, Fixed, User, AtLeastTotal
<1>4. traceRequest'.row # None => traceRequest'.row = TraceRow /\ Stored # {}
  BY DEF AnswerTrace
<1>5. RowInv'
  BY <1>4, TraceRowTime DEF LiveInv, RowInv, AnswerTrace
<1>6. RequestsInv'
  BY <1>1 DEF LiveInv, RequestsInv, AnswerTrace
<1>7. raced' # "view" => raced # "view"
  BY DEF AnswerTrace, AtLeastTotal
<1>8. PastInv'
  BY <1>1, <1>4, <1>7, TraceRowTime DEF PastInv, InTime, AnswerTrace
<1>9. QED
  BY <1>2, <1>3, <1>5, <1>6, <1>8 DEF LiveInv

LEMMA ShowTraceKeeps ==
  ASSUME LiveInv, PastInv, ShowTrace
  PROVE  LiveInv' /\ PastInv'
<1>1. Stored' = Stored /\ Handled' = Handled
  BY DEF ShowTrace, Stored, Handled, Server, Stream
<1>2. StoreInv'
  BY <1>1 DEF LiveInv, StoreInv, ShowTrace, User
<1>3. StreamInv'
  BY DEF LiveInv, StreamInv, ShowTrace, Server, Stream, Fixed, User
<1>4. traceRequest.phase = "answered" /\ trace' = traceRequest.row /\ traceRequest'.phase # "answered"
  BY DEF ShowTrace
<1>5. RowInv'
  BY <1>4 DEF LiveInv, RowInv
<1>6. RequestsInv'
  BY <1>1 DEF LiveInv, RequestsInv, ShowTrace
<1>7. PastInv'
  BY <1>1, <1>4 DEF PastInv, InTime, ShowTrace
<1>8. QED
  BY <1>2, <1>3, <1>5, <1>6, <1>7 DEF LiveInv

LEMMA TraceFailsKeeps ==
  ASSUME LiveInv, PastInv, TraceFails
  PROVE  LiveInv' /\ PastInv'
<1>1. Stored' = Stored /\ Handled' = Handled
  BY DEF TraceFails, Stored, Handled, Server, Stream
<1>2. StoreInv'
  BY <1>1 DEF LiveInv, StoreInv, TraceFails, User
<1>3. StreamInv'
  BY DEF LiveInv, StreamInv, TraceFails, Server, Stream, Fixed, User
<1>4. trace' = trace /\ traceRequest'.phase # "answered"
  BY DEF TraceFails
<1>5. RowInv'
  BY <1>4 DEF LiveInv, RowInv
<1>6. RequestsInv'
  BY <1>1 DEF LiveInv, RequestsInv, TraceFails
<1>7. PastInv'
  BY <1>1, <1>4 DEF PastInv, InTime, TraceFails
<1>8. QED
  BY <1>2, <1>3, <1>5, <1>6, <1>7 DEF LiveInv

----------------------------------------------------------------------------
(* The requests for spans.                                                  *)

LEMMA AskKeeps ==
  ASSUME LiveInv, PastInv, NEW search \in BOOLEAN, Ask(search)
  PROVE  LiveInv' /\ PastInv'
<1>1. Stored' = Stored /\ Handled' = Handled
  BY DEF Ask, Stored, Handled, Server, Stream
<1>2. StoreInv'
  BY <1>1 DEF LiveInv, StoreInv, Ask, User
<1>3. StreamInv'
  BY DEF LiveInv, StreamInv, Ask, Server, Stream, Fixed, User
<1>4. RowInv'
  BY DEF LiveInv, RowInv, Ask
<1>5. PICK r : r = Asked(search, trace, url)
  OBVIOUS
<1>6. /\ Request(r, Stored) /\ Asking(r) /\ ~Answered(r)
      /\ r.within = {s \in Spans : trace = None \/ (trace.start <= Start[s] /\ Start[s] <= trace.end)}
  BY <1>5, RequestRecord
<1>7. PICK n : n = Len(requests) + 1
  OBVIOUS
<1>8. /\ IsList(requests') /\ DOMAIN requests' = DOMAIN requests \cup {n}
      /\ \A i \in DOMAIN requests : requests'[i] = requests[i]
      /\ requests'[n] = r /\ 1 \in DOMAIN requests
  BY <1>5, <1>7, Appended DEF LiveInv, RequestsInv, Ask
<1>9. RequestsInv'
  BY <1>1, <1>6, <1>8 DEF LiveInv, RequestsInv
<1>10. PastInv'
  <2> SUFFICES ASSUME raced' # "view" PROVE InTime'
    BY DEF PastInv
  <2>1. InTime
    BY DEF PastInv, Ask
  <2>2. Handled \subseteq r.within
    <3>1. Handled \in SUBSET Spans /\ (trace # None => Timed(trace) /\ \A s \in Handled : Spanned(trace, s))
      BY <2>1 DEF InTime, Handled, LiveInv, RowInv
    <3>2. QED
      BY <1>6, <3>1, WithinRow
  <2>3. Brings(r, Handled)
    BY <1>6, <2>2 DEF Brings
  <2>4. \A i \in DOMAIN requests' : Brings(requests'[i], Handled)
    BY <1>8, <2>1, <2>3 DEF InTime
  <2>5. requests'[1] = requests[1]
    BY <1>8
  <2>6. QED
    BY <1>1, <2>1, <2>4, <2>5 DEF InTime, Ask
<1>11. QED
  BY <1>2, <1>3, <1>4, <1>9, <1>10 DEF LiveInv

LEMMA AnswerKeeps ==
  ASSUME LiveInv, PastInv, NEW i \in DOMAIN requests, Answer(i)
  PROVE  LiveInv' /\ PastInv'
<1>1. Stored' = Stored /\ Handled' = Handled
  BY DEF Answer, Stored, Handled, Server, Stream
<1>2. StoreInv'
  BY <1>1 DEF LiveInv, StoreInv, Answer, User
<1>3. StreamInv'
  BY DEF LiveInv, StreamInv, Answer, Server, Stream, Fixed, User
<1>4. RowInv'
  BY DEF LiveInv, RowInv, Answer
<1>5. PICK r : r = requests[i]
  OBVIOUS
<1>6. Request(r, Stored) /\ r.search \in BOOLEAN /\ Asking(r) /\ IsList(requests) /\ 1 \in DOMAIN requests
  BY <1>5 DEF LiveInv, RequestsInv, Request, Answer, Asking
<1>7. PICK rows : rows = GetTraceSpans(r.search, r.within)
  OBVIOUS
<1>8. /\ Response(rows, Stored)
      /\ r.search => Closed(rows)
      /\ ~r.search => /\ Plain(rows)
                      /\ Ids(rows) = Stored \cap r.within
  BY <1>6, <1>7, ResponseRows
<1>9. PICK a : a = [r EXCEPT !.phase = "answered", !.rows = rows]
  OBVIOUS
<1>10. requests' = [requests EXCEPT ![i] = a]
  BY <1>5, <1>7, <1>9 DEF Answer
<1>11. Request(a, Stored) /\ Answered(a) /\ ~Asking(a) /\ a.search = r.search /\ a.rows = rows
  <2>1. Request(r, Stored) /\ Response(rows, Stored) /\ (r.search => Closed(rows)) /\ (~r.search => Plain(rows))
    BY <1>6, <1>8
  <2>2. Reply(a, r, rows)
    BY <1>9 DEF Reply
  <2>3. QED
    BY <2>1, <2>2, AnsweredRecord
<1>12. /\ IsList(requests') /\ DOMAIN requests' = DOMAIN requests /\ requests'[i] = a
       /\ \A j \in DOMAIN requests : j # i => requests'[j] = requests[j]
  BY <1>6, <1>10, Replaced
<1>13. RequestsInv'
  BY <1>1, <1>6, <1>11, <1>12 DEF LiveInv, RequestsInv
<1>14. PastInv'
  <2> SUFFICES ASSUME raced' # "view" PROVE InTime'
    BY DEF PastInv
  <2>1. InTime
    BY DEF PastInv, Answer
  <2>2. ASSUME ~r.search PROVE Handled \subseteq Ids(rows)
    <3>1. Handled \subseteq Stored
      BY DEF Handled, Stored
    <3>2. Handled \subseteq r.within
      BY <1>5, <1>6, <2>1, <2>2 DEF InTime, Brings
    <3>3. QED
      BY <1>8, <2>2, <3>1, <3>2
  <2>3. Brings(a, Handled)
    BY <1>11, <2>2 DEF Brings
  <2>4. \A j \in DOMAIN requests' : Brings(requests'[j], Handled)
    BY <1>12, <2>1, <2>3 DEF InTime
  <2>5. Asking(requests[1]) \/ Answered(requests[1]) => Asking(requests'[1]) \/ Answered(requests'[1])
    BY <1>6, <1>11, <1>12
  <2>6. QED
    BY <1>1, <2>1, <2>4, <2>5 DEF InTime, Answer
<1>15. QED
  BY <1>2, <1>3, <1>4, <1>13, <1>14 DEF LiveInv

LEMMA ShowSpansKeeps ==
  ASSUME LiveInv, PastInv, NEW i \in DOMAIN requests, ShowSpans(i)
  PROVE  LiveInv' /\ PastInv'
<1>1. Stored' = Stored /\ Handled' = Handled
  BY DEF ShowSpans, Stored, Handled, Server, Stream
<1>2. StreamInv'
  BY DEF LiveInv, StreamInv, ShowSpans, Server, Stream, Fixed
<1>3. RowInv'
  BY DEF LiveInv, RowInv, ShowSpans
<1>4. PICK r : r = requests[i]
  OBVIOUS
<1>5. PICK rows : rows = IF r.search THEN r.rows ELSE EnrichSpansWithPending(r.rows)
  OBVIOUS
<1>6. /\ r.phase = "answered"
      /\ requests' = [requests EXCEPT ![i] = Done]
      /\ shown' = {[s EXCEPT !.collapsed = FALSE] : s \in rows}
      /\ searched' = r.search
      /\ selected' = Reselect(shown', FALSE, SpanToSelect(rows, r.url))
  BY <1>4, <1>5 DEF ShowSpans
<1>7. /\ IsList(requests) /\ 1 \in DOMAIN requests /\ r.search \in BOOLEAN
      /\ Response(r.rows, Stored)
      /\ r.search => Closed(r.rows)
      /\ ~r.search => Plain(r.rows)
  BY <1>4, <1>6 DEF LiveInv, RequestsInv, Request, Answered
<1>8. PICK R : R = r.rows
  OBVIOUS
<1>9. Table(R) /\ Ended(R) = R /\ Ids(R) \subseteq Stored
  BY <1>7, <1>8 DEF Response
<1>10. /\ Table(rows) /\ Closed(rows) /\ Covers(rows) /\ Ended(rows) = R
       /\ ~r.search => Exact(rows)
  <2>1. CASE r.search
    <3>1. rows = R
      BY <1>5, <1>8, <2>1
    <3>2. Covers(R)
      BY <1>9 DEF Covers, Ended
    <3>3. QED
      BY <1>7, <1>8, <1>9, <2>1, <3>1, <3>2
  <2>2. CASE ~r.search
    <3>1. rows = EnrichSpansWithPending(R)
      BY <1>5, <1>8, <2>2
    <3>2. Plain(R) /\ Named(R) /\ Anchored(R)
      BY <1>7, <1>8, <1>9, <2>2 DEF Plain, Named, Anchored, Ended
    <3>3. QED
      BY <1>9, <3>1, <3>2, EnrichRows, EnrichCovers, EnrichClosed, EnrichExact
  <2>3. QED
    BY <1>7, <2>1, <2>2
<1>11. Redrawn(shown', rows)
  BY <1>6, <1>10, BranchesRedrawn DEF Opened
<1>12. /\ Table(shown') /\ Closed(shown') /\ Covers(shown') /\ Ids(shown') = Ids(rows)
       /\ Ids(Ended(shown')) = Ids(R)
       /\ ~r.search => Exact(shown')
  BY <1>10, <1>11, RedrawnKeeps
<1>13. rows = {} \/ Ended(rows) # {}
  <2> SUFFICES ASSUME R = {} PROVE rows = {}
    BY <1>10
  <2>1. CASE r.search
    BY <1>5, <1>8, <2>1
  <2>2. CASE ~r.search
    <3>1. PendingIds({}) = {}
      BY DEF PendingIds
    <3>2. QED
      BY <1>5, <1>8, <2>2, <3>1 DEF EnrichSpansWithPending
  <2>3. QED
    BY <1>7, <2>1, <2>2
<1>14. selected' # None => selected' \in Ids(shown')
  BY <1>6, <1>10, <1>12, <1>13, SelectRows, Reselected
<1>15. StoreInv'
  BY <1>1, <1>6, <1>9, <1>12, <1>14 DEF StoreInv
<1>16. /\ IsList(requests') /\ DOMAIN requests' = DOMAIN requests /\ requests'[i] = Done
       /\ \A j \in DOMAIN requests : j # i => requests'[j] = requests[j]
  BY <1>6, <1>7, Replaced
<1>17. RequestsInv'
  BY <1>1, <1>7, <1>16, DoneRecord DEF LiveInv, RequestsInv
<1>18. PastInv'
  <2> SUFFICES ASSUME raced' # "view" PROVE InTime'
    BY DEF PastInv
  <2>1. InTime
    BY DEF PastInv, ShowSpans
  <2>2. Brings(Done, Handled)
    BY DoneRecord DEF Brings
  <2>3. \A j \in DOMAIN requests' : Brings(requests'[j], Handled)
    BY <1>16, <2>1, <2>2 DEF InTime
  <2>4. ~r.search => Handled \subseteq Ids(R)
    BY <1>4, <1>6, <1>8, <2>1 DEF InTime, Brings, Answered
  <2>5. QED
    BY <1>1, <1>6, <1>12, <2>1, <2>3, <2>4 DEF InTime, ShowSpans
<1>19. QED
  BY <1>2, <1>3, <1>15, <1>17, <1>18 DEF LiveInv

LEMMA SpansFailKeeps ==
  ASSUME LiveInv, PastInv, NEW i \in DOMAIN requests, SpansFail(i)
  PROVE  LiveInv' /\ PastInv'
<1>1. Stored' = Stored
  BY DEF SpansFail, Stored, Server
<1>2. selected' # None => selected' \in Ids(shown')
  <2>1. selected' = Reselect(shown, FALSE, selected) /\ shown' = shown
    BY DEF SpansFail
  <2>2. QED
    BY <2>1, Reselected DEF LiveInv, StoreInv
<1>3. StoreInv'
  BY <1>1, <1>2 DEF LiveInv, StoreInv, SpansFail
<1>4. StreamInv'
  BY DEF LiveInv, StreamInv, SpansFail, Server, Stream, Fixed
<1>5. RowInv'
  BY DEF LiveInv, RowInv, SpansFail
<1>6. requests' = [requests EXCEPT ![i] = Done] /\ IsList(requests) /\ 1 \in DOMAIN requests
  BY DEF LiveInv, RequestsInv, SpansFail
<1>7. /\ IsList(requests') /\ DOMAIN requests' = DOMAIN requests /\ requests'[i] = Done
      /\ \A j \in DOMAIN requests : j # i => requests'[j] = requests[j]
  BY <1>6, Replaced
<1>8. RequestsInv'
  BY <1>1, <1>6, <1>7, DoneRecord DEF LiveInv, RequestsInv
<1>9. PastInv'
  BY DEF PastInv, SpansFail
<1>10. QED
  BY <1>3, <1>4, <1>5, <1>8, <1>9 DEF LiveInv

----------------------------------------------------------------------------
(* The user.                                                                *)

\* The user touches only branches and the open span.
LEMMA UserKeeps ==
  ASSUME LiveInv, PastInv,
         UNCHANGED <<Server, Stream, Fixed, traceRequest, trace, requests, searched, raced>>,
         shown' = shown \/ Redrawn(shown', shown),
         selected' # None => selected' \in Ids(shown'),
         url' \in Spans \cup {None}
  PROVE  LiveInv' /\ PastInv'
<1>1. Stored' = Stored /\ Handled' = Handled
  BY DEF Stored, Handled, Server, Stream
<1>2. Table(shown) /\ Closed(shown) /\ Covers(shown) /\ Ids(Ended(shown)) \subseteq Stored
      /\ (~searched => Exact(shown))
  BY DEF LiveInv, StoreInv
<1>3. /\ Table(shown') /\ Closed(shown') /\ Covers(shown') /\ Ids(Ended(shown')) = Ids(Ended(shown))
      /\ Exact(shown) => Exact(shown')
  BY <1>2, RedrawnKeeps
<1>4. StoreInv'
  BY <1>1, <1>2, <1>3 DEF StoreInv
<1>5. StreamInv'
  BY DEF LiveInv, StreamInv, Server, Stream, Fixed
<1>6. RowInv'
  BY DEF LiveInv, RowInv
<1>7. RequestsInv'
  BY <1>1 DEF LiveInv, RequestsInv
<1>8. PastInv'
  BY <1>1, <1>3 DEF PastInv, InTime
<1>9. QED
  BY <1>4, <1>5, <1>6, <1>7, <1>8 DEF LiveInv

LEMMA UserSteps ==
  ASSUME LiveInv, PastInv,
         ClosePanel \/ \E id \in Spans : SelectRow(id) \/ SelectSpanById(id) \/ ToggleCollapse(id)
  PROVE  LiveInv' /\ PastInv'
<1>1. Table(shown) /\ (selected # None => selected \in Ids(shown)) /\ url \in Spans \cup {None}
  BY DEF LiveInv, StoreInv, StreamInv
<1>2. CASE ClosePanel
  BY <1>1, <1>2, UserKeeps DEF ClosePanel
<1>3. ASSUME NEW id \in Spans, SelectRow(id) PROVE LiveInv' /\ PastInv'
  BY <1>1, <1>3, UserKeeps DEF SelectRow
<1>4. ASSUME NEW id \in Spans, SelectSpanById(id) PROVE LiveInv' /\ PastInv'
  <2>1. PICK above : above = WithAncestors(shown, {id}) \ {id}
    OBVIOUS
  <2>2. /\ id \in Ids(shown)
        /\ shown' = {IF s.id \in above THEN [s EXCEPT !.collapsed = FALSE] ELSE s : s \in shown}
        /\ selected' = IF above # {} THEN Reselect(shown', loading, id) ELSE id
        /\ UNCHANGED <<Server, Stream, Fixed, traceRequest, trace, requests, searched, url, raced>>
    BY <1>4, <2>1 DEF SelectSpanById
  <2>3. Redrawn(shown', shown)
    BY <1>1, <2>2, BranchesRedrawn DEF Opened
  <2>4. Ids(shown') = Ids(shown)
    BY <1>1, <2>3, RedrawnKeeps
  <2>5. selected' # None => selected' \in Ids(shown')
    BY <2>2, <2>4, Reselected
  <2>6. QED
    BY <1>1, <2>2, <2>3, <2>5, UserKeeps
<1>5. ASSUME NEW id \in Spans, ToggleCollapse(id) PROVE LiveInv' /\ PastInv'
  <2>1. /\ shown' = {IF s.id = id THEN [s EXCEPT !.collapsed = ~s.collapsed] ELSE s : s \in shown}
        /\ selected' = Reselect(shown', loading, selected)
        /\ UNCHANGED <<Server, Stream, Fixed, traceRequest, trace, requests, searched, url, raced>>
    BY <1>5 DEF ToggleCollapse
  <2>2. Redrawn(shown', shown)
    <3>1. Opened(shown', shown)
      BY <1>1, <2>1, BranchesRedrawn
    <3>2. QED
      BY <3>1 DEF Opened
  <2>3. Ids(shown') = Ids(shown)
    BY <1>1, <2>2, RedrawnKeeps
  <2>4. selected' # None => selected' \in Ids(shown')
    BY <1>1, <2>1, <2>3, Reselected
  <2>5. QED
    BY <1>1, <2>1, <2>2, <2>4, UserKeeps
<1>6. QED
  BY <1>2, <1>3, <1>4, <1>5

----------------------------------------------------------------------------
(* The theorems.                                                            *)

LEMMA StepKeeps ==
  ASSUME LiveInv, PastInv, [Next]_vars
  PROVE  LiveInv' /\ PastInv'
<1>1. CASE UNCHANGED vars
  <2>1. /\ UNCHANGED <<Server, Stream, Fixed, traceRequest, trace, requests, searched, raced>>
        /\ shown' = shown /\ selected' = selected /\ url' = url
    BY <1>1 DEF vars, Server, Stream, Fixed
  <2>2. (selected # None => selected \in Ids(shown)) /\ url \in Spans \cup {None}
    BY DEF LiveInv, StoreInv, StreamInv
  <2>3. QED
    BY <2>1, <2>2, UserKeeps
<1>2. ASSUME NEW s \in Spans, Ingest(s) \/ Send(s) \/ SendAgain(s) \/ HandleEvent(s) PROVE LiveInv' /\ PastInv'
  BY <1>2, IngestKeeps, SendKeeps, SendAgainKeeps, EventKeeps
<1>3. CASE Connect \/ Disconnect
  BY <1>3, ConnectKeeps, DisconnectKeeps
<1>4. CASE AnswerTrace \/ ShowTrace \/ TraceFails
  BY <1>4, AnswerTraceKeeps, ShowTraceKeeps, TraceFailsKeeps
<1>5. ASSUME NEW search \in BOOLEAN, Ask(search) PROVE LiveInv' /\ PastInv'
  BY <1>5, AskKeeps
<1>6. ASSUME NEW i \in DOMAIN requests, Answer(i) \/ ShowSpans(i) \/ SpansFail(i) PROVE LiveInv' /\ PastInv'
  BY <1>6, AnswerKeeps, ShowSpansKeeps, SpansFailKeeps
<1>7. CASE ClosePanel \/ \E id \in Spans : SelectRow(id) \/ SelectSpanById(id) \/ ToggleCollapse(id)
  BY <1>7, UserSteps
<1>8. QED
  BY <1>1, <1>2, <1>3, <1>4, <1>5, <1>6, <1>7 DEF Next

\* The invariant holds in every state: no order of responses, events, faults and
\* clicks leaves it.
THEOREM Invariance == Spec => [](LiveInv /\ PastInv)
<1>1. Init => LiveInv /\ PastInv
  BY Opens
<1>2. LiveInv /\ PastInv /\ [Next]_vars => (LiveInv /\ PastInv)'
  BY StepKeeps
<1>3. QED
  BY <1>1, <1>2, PTL DEF Spec

\* The rows of the store are spans of the trace, each once, those without a
\* placeholder are stored, and the open span is one of the rows.
THEOREM TypeCorrect == Spec => []TypeOK
<1>1. LiveInv => TypeOK
  <2> SUFFICES ASSUME LiveInv PROVE TypeOK
    OBVIOUS
  <2>1. Cardinality(Ids(shown)) = Cardinality(shown) /\ Ids(shown) \subseteq Spans
    BY TableFinite DEF LiveInv, StoreInv
  <2>2. \A s \in shown : ~s.pending => s.id \in Stored
    BY DEF LiveInv, StoreInv, Ended, Ids
  <2>3. QED
    BY <2>1, <2>2 DEF LiveInv, StoreInv, StreamInv, TypeOK
<1>2. QED
  BY <1>1, Invariance, PTL

\* With nothing on its way, what was handled is all that is stored.
LEMMA WholeView ==
  ASSUME LiveInv, PastInv
  PROVE  ViewExact
<1> SUFFICES ASSUME Quiet, ~searched, raced # "view"
             PROVE  /\ Ids({s \in shown : ~s.pending}) = Stored
                    /\ Ids({s \in shown : s.pending}) = Missing
  BY DEF ViewExact
<1>1. Table(shown) /\ Exact(shown) /\ Ids(Ended(shown)) \subseteq Stored
  BY DEF LiveInv, StoreInv
<1>2. Handled = Stored
  BY DEF Quiet, LiveInv, StreamInv, Handled, Stored
<1>3. ~Asking(requests[1]) /\ ~Answered(requests[1])
  BY DEF Quiet, LiveInv, RequestsInv, Asking, Answered
<1>4. Ids(Ended(shown)) = Stored
  BY <1>1, <1>2, <1>3 DEF PastInv, InTime
<1>5. ASSUME NEW p \in shown, p.pending PROVE p.id \in Missing
  <2>1. p.id \in Spans /\ p.id \notin Stored
    BY <1>1, <1>4, <1>5 DEF Table, Row, Unique, Ended, Ids
  <2>2. PICK s \in Ended(shown) : p.id \in Range(Path[s.id])
    BY <1>1, <1>5 DEF Exact, Named
  <2>3. s.id \in Stored
    BY <1>4 DEF Ids
  <2>4. QED
    BY <2>1, <2>2, <2>3 DEF Missing
<1>6. ASSUME NEW a \in Missing PROVE a \in Ids({p \in shown : p.pending})
  <2>1. PICK t \in Stored : a \in Range(Path[t])
    BY DEF Missing
  <2>2. PICK s \in Ended(shown) : s.id = t
    BY <1>4 DEF Ids
  <2>3. PICK p \in shown : p.id = a
    BY <1>1, <2>1, <2>2 DEF Exact, Full, Ids
  <2>4. p.pending
    BY <1>4, <2>3 DEF Missing, Ended, Ids
  <2>5. QED
    BY <2>3, <2>4 DEF Ids
<1>7. QED
  BY <1>4, <1>5, <1>6 DEF Ids, Ended

\* No row hangs from a span that is not there, placeholders cover what is below
\* them, and once all is quiet the rows are the tree of what is stored
\* (enrichSpansWithPending, onRealtimeUpdateSpans and fetchSpans in any order).
THEOREM WholeRows == Spec => []RowsWhole
<1>1. LiveInv /\ PastInv => RowsWhole
  <2> SUFFICES ASSUME LiveInv, PastInv PROVE RowsWhole
    OBVIOUS
  <2>1. NoOrphan /\ PendingCovers
    BY DEF LiveInv, StoreInv, Closed, Covers, NoOrphan, PendingCovers
  <2>2. QED
    BY <2>1, WholeView DEF RowsWhole
<1>2. QED
  BY <1>1, Invariance, PTL

\* onRealtimeUpdateSpans opens and closes no branch, and leaves the open span of a
\* view without a link alone.
THEOREM UserStateKept == Spec => EventKeepsUserState
<1> DEFINE A == \A s \in Spans : s \in feed /\ s \notin feed' /\ connected'
                  => /\ Collapsed(shown') = Collapsed(shown)
                     /\ link = None => selected' = selected
<1>1. ASSUME LiveInv, [Next]_vars PROVE [A]_vars
  <2> SUFFICES ASSUME NEW t \in Spans, t \in feed, t \notin feed', connected', Next
               PROVE  Collapsed(shown') = Collapsed(shown) /\ (link = None => selected' = selected)
    BY <1>1
  <2>1. PICK s \in Spans : HandleEvent(s)
    <3>1. ~UNCHANGED feed /\ ~Disconnect
      BY DEF Disconnect
    <3>2. ASSUME NEW s \in Spans, Ingest(s) \/ Send(s) \/ SendAgain(s) PROVE FALSE
      BY <3>2 DEF Ingest, Send, Reach, SendAgain, Stream
    <3>3. CASE Connect \/ AnswerTrace \/ ShowTrace \/ TraceFails \/ ClosePanel
      BY <3>1, <3>3 DEF Connect, AnswerTrace, ShowTrace, TraceFails, ClosePanel, Stream
    <3>4. ASSUME NEW search \in BOOLEAN, Ask(search) PROVE FALSE
      BY <3>1, <3>4 DEF Ask, Stream
    <3>5. ASSUME NEW i \in DOMAIN requests, Answer(i) \/ ShowSpans(i) \/ SpansFail(i) PROVE FALSE
      BY <3>1, <3>5 DEF Answer, ShowSpans, SpansFail, Stream
    <3>6. ASSUME NEW id \in Spans, SelectRow(id) \/ SelectSpanById(id) \/ ToggleCollapse(id) PROVE FALSE
      BY <3>1, <3>6 DEF SelectRow, SelectSpanById, ToggleCollapse, Stream
    <3>7. QED
      BY <3>1, <3>2, <3>3, <3>4, <3>5, <3>6 DEF Next
  <2>2. Table(shown) /\ shown' = UpdateSpans(shown, s) /\ selected' = Reselect(shown', loading, selected)
    BY <1>1, <2>1 DEF HandleEvent, LiveInv, StoreInv
  <2>3. Collapsed(shown') = Collapsed(shown) /\ Table(shown')
    BY <2>2, UpdateRows
  <2>4. None \notin Ids(shown')
    BY <2>3, TableFinite, TraceAssumption
  <2>5. link = None => selected' = selected
    BY <2>2, <2>4 DEF Reselect
  <2>6. QED
    BY <2>3, <2>5
<1>2. QED
  BY <1>1, Invariance, PTL DEF Spec, EventKeepsUserState

----------------------------------------------------------------------------
(* Sums over finite sets.                                                 *)

\* The sum of w over S.
Total(w, S) == FoldSet(LAMBDA s, sum : sum + w[s], 0, S)

\* What a sum is over T, from the sums f over its subsets.
Added(f, w, T) ==
  IF T = {} THEN 0
  ELSE LET x == CHOOSE x \in T : TRUE IN f[T \ {x}] + w[x]

SumsOver(f, w, S) == f = [T \in SUBSET S |-> Added(f, w, T)]
Sums(f, w, S) == \A T \in SUBSET S : f[T] = Added(f, w, T)

\* CHOOSE in the definition of FoldSet finds such a function.
LEMMA SumsExist ==
  ASSUME NEW S, IsFiniteSet(S), NEW w
  PROVE  \E f : SumsOver(f, w, S)
<1> DEFINE D(n) == {T \in SUBSET S : Cardinality(T) <= n}
           N    == {n \in Nat : \E f : f = [T \in D(n) |-> Added(f, w, T)]}
<1>1. \A T \in SUBSET S : IsFiniteSet(T) /\ Cardinality(T) \in Nat
  BY FS_Subset, FS_CardinalityType
<1>2. 0 \in N
  <2> DEFINE f == [T \in D(0) |-> 0]
  <2>1. \A T \in D(0) : T = {}
    BY <1>1, FS_EmptySet
  <2>2. f = [T \in D(0) |-> Added(f, w, T)]
    BY <2>1 DEF Added
  <2> HIDE DEF f
  <2>3. QED
    BY <2>2
<1>3. ASSUME NEW n \in N PROVE n + 1 \in N
  <2>1. PICK f : f = [T \in D(n) |-> Added(f, w, T)]
    OBVIOUS
  <2> DEFINE g == [T \in D(n + 1) |-> IF T \in D(n) THEN f[T] ELSE Added(f, w, T)]
  <2>2. ASSUME NEW T \in D(n + 1), T # {} PROVE LET x == CHOOSE x \in T : TRUE IN T \ {x} \in D(n)
    <3> DEFINE x == CHOOSE x \in T : TRUE
    <3>1. x \in T
      BY <2>2
    <3>2. Cardinality(T \ {x}) = Cardinality(T) - 1
      BY <1>1, <3>1, FS_RemoveElement
    <3>3. QED
      BY <1>1, <3>2
  <2>3. D(n) \subseteq D(n + 1)
    BY <1>1
  <2>4. ASSUME NEW T \in D(n) PROVE f[T] = Added(f, w, T)
    BY <2>1
  <2>5. ASSUME NEW T \in D(n + 1) PROVE Added(g, w, T) = Added(f, w, T)
    <3> DEFINE x == CHOOSE x \in T : TRUE
    <3>1. T # {} => g[T \ {x}] = f[T \ {x}]
      BY <2>2, <2>3
    <3> HIDE DEF g
    <3>2. QED
      BY <3>1 DEF Added
  <2>6. \A T \in D(n + 1) : g[T] = Added(g, w, T)
    BY <2>4, <2>5
  <2>7. g = [T \in D(n + 1) |-> g[T]]
    OBVIOUS
  <2> HIDE DEF g, D
  <2>8. g = [T \in D(n + 1) |-> Added(g, w, T)]
    BY <2>6, <2>7
  <2>9. QED
    BY <2>8
<1>4. Cardinality(S) \in N
  <2>1. Nat \subseteq N
    <3> HIDE DEF N
    <3>1. N \subseteq Nat
      BY DEF N
    <3>2. QED
      BY <1>2, <1>3, SetInduction
  <2>2. QED
    BY <1>1, <2>1
<1>5. D(Cardinality(S)) = SUBSET S
  BY <1>1, FS_Subset
<1>6. QED
  BY <1>4, <1>5 DEF SumsOver

LEMMA TotalSums ==
  ASSUME NEW S, IsFiniteSet(S), NEW w
  PROVE  \E f : Sums(f, w, S) /\ Total(w, S) = f[S]
<1> DEFINE f == CHOOSE f : f = [T \in SUBSET S |-> Added(f, w, T)]
<1>1. f = [T \in SUBSET S |-> Added(f, w, T)]
  BY SumsExist DEF SumsOver
<1>2. Total(w, S) = f[S]
  BY DEF Total, FoldSet, MapThenFoldSet, Added
<1> HIDE DEF f
<1>3. Sums(f, w, S)
  BY <1>1 DEF Sums
<1>4. QED
  BY <1>2, <1>3

\* A sum does not depend on the order in which it is added up.
LEMMA SumsOrder ==
  ASSUME NEW S, IsFiniteSet(S), NEW w, \A s \in S : w[s] \in Nat, NEW f, Sums(f, w, S)
  PROVE  \A T \in SUBSET S : f[T] \in Nat /\ \A x \in T : f[T] = f[T \ {x}] + w[x]
<1> DEFINE D(n) == {T \in SUBSET S : Cardinality(T) <= n}
           InAnyOrder(T) == f[T] \in Nat /\ \A x \in T : f[T] = f[T \ {x}] + w[x]
           N    == {n \in Nat : \A T \in D(n) : InAnyOrder(T)}
<1>1. \A T \in SUBSET S : IsFiniteSet(T) /\ Cardinality(T) \in Nat
  BY FS_Subset, FS_CardinalityType
<1>2. 0 \in N
  <2>1. \A T \in D(0) : T = {}
    BY <1>1, FS_EmptySet
  <2>2. f[{}] = 0
    BY DEF Sums, Added
  <2>3. InAnyOrder({})
    BY <2>2
  <2> HIDE DEF InAnyOrder, D
  <2>4. QED
    BY <2>1, <2>3
<1>3. ASSUME NEW n \in N PROVE n + 1 \in N
  <2>1. ASSUME NEW T \in D(n + 1), NEW x \in T PROVE T \ {x} \in D(n)
    <3>1. Cardinality(T \ {x}) = Cardinality(T) - 1
      BY <1>1, FS_RemoveElement
    <3>2. QED
      BY <1>1, <3>1
  <2>2. ASSUME NEW T \in D(n + 1) PROVE InAnyOrder(T)
    <3>1. CASE T = {}
      BY <1>2, <3>1 DEF Sums, Added
    <3>2. CASE T # {}
      <4> DEFINE y == CHOOSE y \in T : TRUE
      <4>1. y \in T
        BY <3>2
      <4>2. f[T] = f[T \ {y}] + w[y]
        BY <3>2 DEF Sums, Added
      <4> HIDE DEF y
      <4>3. InAnyOrder(T \ {y}) /\ w[y] \in Nat
        BY <2>1, <4>1
      <4>4. ASSUME NEW x \in T, x # y PROVE f[T] = f[T \ {x}] + w[x]
        <5>1. InAnyOrder(T \ {x}) /\ w[x] \in Nat
          BY <2>1
        <5>2. (T \ {y}) \ {x} = (T \ {x}) \ {y} /\ x \in T \ {y} /\ y \in T \ {x}
          BY <4>1, <4>4
        <5>3. f[T \ {y}] = f[(T \ {y}) \ {x}] + w[x]
          BY <4>3, <4>4
        <5>4. f[T \ {x}] = f[(T \ {x}) \ {y}] + w[y]
          BY <4>1, <4>4, <5>1
        <5>5. f[(T \ {x}) \ {y}] \in Nat
          <6>1. Cardinality((T \ {x}) \ {y}) <= Cardinality(T \ {x}) /\ (T \ {x}) \ {y} \in SUBSET S
            BY <1>1, FS_Subset
          <6>2. T \ {x} \in D(n)
            BY <2>1
          <6>3. (T \ {x}) \ {y} \in D(n)
            BY <1>1, <6>1, <6>2
          <6>4. QED
            BY <6>3
        <5>6. f[T \ {x}] \in Nat /\ w[x] \in Nat /\ w[y] \in Nat
          BY <4>3, <5>1
        <5>7. f[(T \ {y}) \ {x}] = f[(T \ {x}) \ {y}]
          BY <5>2
        <5> HIDE DEF InAnyOrder, N
        <5>8. QED
          BY <4>2, <5>3, <5>4, <5>5, <5>6, <5>7
      <4>5. f[T] \in Nat
        BY <4>2, <4>3
      <4>6. \A x \in T : f[T] = f[T \ {x}] + w[x]
        BY <4>2, <4>4
      <4>7. QED
        BY <4>5, <4>6
    <3>3. QED
      BY <3>1, <3>2
  <2>3. QED
    BY <2>2
<1>4. Cardinality(S) \in N
  <2>1. Nat \subseteq N
    <3> HIDE DEF N
    <3>1. N \subseteq Nat
      BY DEF N
    <3>2. QED
      BY <1>2, <1>3, SetInduction
  <2>2. QED
    BY <1>1, <2>1
<1>5. ASSUME NEW T \in SUBSET S PROVE InAnyOrder(T)
  <2>1. T \in D(Cardinality(S))
    BY <1>1, FS_Subset
  <2> HIDE DEF InAnyOrder, D
  <2>2. QED
    BY <1>4, <2>1
<1>6. QED
  BY <1>5

LEMMA SumsAgree ==
  ASSUME NEW S, IsFiniteSet(S), NEW R, NEW w, NEW f, Sums(f, w, S), NEW g, Sums(g, w, R)
  PROVE  \A T \in SUBSET (S \cap R) : f[T] = g[T]
<1> DEFINE D(n) == {T \in SUBSET (S \cap R) : Cardinality(T) <= n}
           N    == {n \in Nat : \A T \in D(n) : f[T] = g[T]}
<1>1. \A T \in SUBSET (S \cap R) : IsFiniteSet(T) /\ Cardinality(T) \in Nat /\ Cardinality(T) <= Cardinality(S)
  BY FS_Subset, FS_CardinalityType
<1>2. 0 \in N
  <2>1. \A T \in D(0) : T = {}
    BY <1>1, FS_EmptySet
  <2>2. f[{}] = 0 /\ g[{}] = 0
    BY DEF Sums, Added
  <2>3. QED
    BY <2>1, <2>2
<1>3. ASSUME NEW n \in N PROVE n + 1 \in N
  <2>1. ASSUME NEW T \in D(n + 1) PROVE f[T] = g[T]
    <3>1. CASE T = {}
      BY <3>1 DEF Sums, Added
    <3>2. CASE T # {}
      <4> DEFINE y == CHOOSE y \in T : TRUE
      <4>1. y \in T
        BY <3>2
      <4>2. Cardinality(T \ {y}) = Cardinality(T) - 1
        BY <1>1, <4>1, FS_RemoveElement
      <4>3. T \ {y} \in D(n)
        BY <1>1, <4>2
      <4>4. f[T] = f[T \ {y}] + w[y] /\ g[T] = g[T \ {y}] + w[y]
        BY <3>2 DEF Sums, Added
      <4> HIDE DEF y
      <4>5. QED
        BY <4>3, <4>4
    <3>3. QED
      BY <3>1, <3>2
  <2>2. QED
    BY <2>1
<1>4. Cardinality(S) \in N
  <2>1. Nat \subseteq N
    <3> HIDE DEF N
    <3>1. N \subseteq Nat
      BY DEF N
    <3>2. QED
      BY <1>2, <1>3, SetInduction
  <2>2. QED
    BY FS_CardinalityType, <2>1
<1>5. ASSUME NEW T \in SUBSET (S \cap R) PROVE f[T] = g[T]
  <2>1. T \in D(Cardinality(S))
    BY <1>1
  <2> HIDE DEF D
  <2>2. QED
    BY <1>4, <2>1
<1>6. QED
  BY <1>5

\* What is added to a set is added to its sum.
LEMMA TotalAdd ==
  ASSUME NEW S, IsFiniteSet(S), NEW x, x \notin S, NEW w, \A s \in S \cup {x} : w[s] \in Nat
  PROVE  Total(w, S) \in Nat /\ Total(w, S \cup {x}) = Total(w, S) + w[x]
<1> DEFINE R == S \cup {x}
<1>1. IsFiniteSet(R) /\ \A s \in R : w[s] \in Nat
  BY FS_AddElement
<1>2. x \in R /\ R \ {x} = S /\ S \in SUBSET (S \cap R)
  OBVIOUS
<1>3. PICK f : Sums(f, w, S) /\ Total(w, S) = f[S]
  BY TotalSums
<1>4. f[S] \in Nat
  BY <1>3, SumsOrder
<1>5. Total(w, R) = Total(w, S) + w[x]
  <2> HIDE DEF R
  <2>1. PICK g : Sums(g, w, R) /\ Total(w, R) = g[R]
    BY <1>1, TotalSums
  <2>2. f[S] = g[S]
    BY <1>2, <1>3, <2>1, SumsAgree
  <2>3. g[R] = g[R \ {x}] + w[x]
    BY <1>1, <1>2, <2>1, SumsOrder
  <2>4. QED
    BY <1>2, <1>3, <2>1, <2>2, <2>3
<1>6. QED
  BY <1>3, <1>4, <1>5

LEMMA TotalEmpty == ASSUME NEW w PROVE Total(w, {}) = 0
<1>1. PICK f : Sums(f, w, {}) /\ Total(w, {}) = f[{}]
  BY TotalSums, FS_EmptySet
<1>2. QED
  BY <1>1 DEF Sums, Added

\* Induction over a finite set, one member at a time.
LEMMA FiniteInduction ==
  ASSUME NEW S, IsFiniteSet(S), NEW G, {} \in G,
         \A T \in SUBSET S : \A x \in S \ T : T \in G => T \cup {x} \in G
  PROVE  S \in G
<1> DEFINE N == {n \in Nat : \A T \in SUBSET S : Cardinality(T) = n => T \in G}
<1>1. \A T \in SUBSET S : IsFiniteSet(T) /\ Cardinality(T) \in Nat
  BY FS_Subset, FS_CardinalityType
<1>2. 0 \in N
  BY <1>1, FS_EmptySet
<1>3. ASSUME NEW n \in Nat, n \in N PROVE n + 1 \in N
  <2> SUFFICES ASSUME NEW T \in SUBSET S, Cardinality(T) = n + 1 PROVE T \in G
    OBVIOUS
  <2>1. T # {}
    <3>1. Cardinality({}) = 0
      BY FS_EmptySet
    <3>2. QED
      BY <3>1
  <2>2. PICK x \in T : TRUE
    BY <2>1
  <2>3. Cardinality(T \ {x}) = n
    <3>1. Cardinality(T \ {x}) = Cardinality(T) - 1
      BY <1>1, <2>2, FS_RemoveElement
    <3>2. QED
      BY <3>1
  <2>4. T \ {x} \in G
    BY <1>3, <2>3
  <2>5. (T \ {x}) \cup {x} = T
    OBVIOUS
  <2>6. QED
    BY <2>4, <2>5
<1>4. Nat \subseteq N
  <2> HIDE DEF N
  <2>1. N \subseteq Nat
    BY DEF N
  <2>2. QED
    BY <1>2, <1>3, SetInduction
<1>5. QED
  BY <1>1, <1>4

LEMMA TotalType ==
  ASSUME NEW S, IsFiniteSet(S), NEW w, \A s \in S : w[s] \in Nat
  PROVE  Total(w, S) \in Nat
BY TotalSums, SumsOrder

\* The sum of two sets without a common member.
LEMMA TotalJoin ==
  ASSUME NEW A, IsFiniteSet(A), NEW B, IsFiniteSet(B), A \cap B = {}, NEW w, \A s \in A \cup B : w[s] \in Nat
  PROVE  Total(w, A \cup B) = Total(w, A) + Total(w, B)
<1> DEFINE G == {T \in SUBSET B : Total(w, A \cup T) = Total(w, A) + Total(w, T)}
<1>1. {} \in G
  <2>1. A \cup {} = A /\ Total(w, A) \in Nat
    BY TotalType
  <2>2. QED
    BY <2>1, TotalEmpty
<1>2. ASSUME NEW T \in SUBSET B, NEW x \in B \ T, T \in G PROVE T \cup {x} \in G
  <2>1. IsFiniteSet(T) /\ IsFiniteSet(A \cup T)
    BY FS_Subset, FS_Union
  <2> DEFINE U == A \cup T
  <2>2. U \cup {x} = A \cup (T \cup {x}) /\ x \notin U
    OBVIOUS
  <2>3. Total(w, U) \in Nat /\ Total(w, U \cup {x}) = Total(w, U) + w[x]
    <3>1. IsFiniteSet(U) /\ \A s \in U \cup {x} : w[s] \in Nat
      BY <2>1
    <3> HIDE DEF U
    <3>2. QED
      BY <2>2, <3>1, TotalAdd
  <2>4. Total(w, T) \in Nat /\ Total(w, T \cup {x}) = Total(w, T) + w[x]
    BY <2>1, TotalAdd
  <2>5. Total(w, A) \in Nat /\ w[x] \in Nat
    BY TotalType
  <2>6. Total(w, U) = Total(w, A) + Total(w, T)
    BY <1>2
  <2> HIDE DEF U
  <2>7. Total(w, A \cup (T \cup {x})) = Total(w, A) + Total(w, T \cup {x})
    BY <2>2, <2>3, <2>4, <2>5, <2>6
  <2>8. QED
    BY <2>7
<1>3. B \in G
  <2> HIDE DEF G
  <2>1. QED
    BY <1>1, <1>2, FiniteInduction
<1>4. QED
  BY <1>3

\* The sum of the sums of a family of sets.
LEMMA TotalFamily ==
  ASSUME NEW K, IsFiniteSet(K), NEW C, NEW w, NEW g,
         \A k \in K : IsFiniteSet(C[k]) /\ g[k] = Total(w, C[k]) /\ \A s \in C[k] : w[s] \in Nat,
         \A j, k \in K : j # k => C[j] \cap C[k] = {}
  PROVE  /\ IsFiniteSet(UNION {C[k] : k \in K})
         /\ Total(g, K) = Total(w, UNION {C[k] : k \in K})
<1> DEFINE All(T) == UNION {C[k] : k \in T}
           G == {T \in SUBSET K : IsFiniteSet(All(T)) /\ Total(g, T) = Total(w, All(T))}
<1>1. {} \in G
  <2>1. All({}) = {}
    OBVIOUS
  <2>2. QED
    BY <2>1, TotalEmpty, FS_EmptySet
<1>2. ASSUME NEW T \in SUBSET K, NEW x \in K \ T, T \in G PROVE T \cup {x} \in G
  <2>1. All(T \cup {x}) = All(T) \cup C[x]
    OBVIOUS
  <2>2. All(T) \cap C[x] = {} /\ \A s \in All(T) \cup C[x] : w[s] \in Nat
    OBVIOUS
  <2>3. IsFiniteSet(All(T)) /\ Total(g, T) = Total(w, All(T)) /\ IsFiniteSet(C[x]) /\ g[x] = Total(w, C[x])
    BY <1>2
  <2>4. \A k \in K : g[k] \in Nat
    BY TotalType
  <2>5. IsFiniteSet(T)
    BY FS_Subset
  <2>6. Total(g, T \cup {x}) = Total(g, T) + g[x]
    BY <2>4, <2>5, TotalAdd
  <2> HIDE DEF All
  <2>7. Total(w, All(T) \cup C[x]) = Total(w, All(T)) + Total(w, C[x])
    BY <2>2, <2>3, TotalJoin
  <2>8. IsFiniteSet(All(T) \cup C[x])
    BY <2>3, FS_Union
  <2>9. QED
    BY <2>1, <2>3, <2>6, <2>7, <2>8
<1>3. K \in G
  <2> HIDE DEF G
  <2>1. QED
    BY <1>1, <1>2, FiniteInduction
<1>4. QED
  BY <1>3

LEMMA TotalSame ==
  ASSUME NEW S, IsFiniteSet(S), NEW w, NEW v, \A s \in S : w[s] = v[s]
  PROVE  Total(w, S) = Total(v, S)
<1>1. PICK f : Sums(f, w, S) /\ Total(w, S) = f[S]
  BY TotalSums
<1>2. PICK g : Sums(g, v, S) /\ Total(v, S) = g[S]
  BY TotalSums
<1>3. ASSUME NEW T \in SUBSET S PROVE Added(f, w, T) = Added(f, v, T)
  <2>1. T # {} => (CHOOSE x \in T : TRUE) \in S
    OBVIOUS
  <2>2. QED
    BY <2>1 DEF Added
<1>4. Sums(f, v, S)
  BY <1>1, <1>3 DEF Sums
<1>5. f[S] = g[S]
  BY <1>2, <1>4, SumsAgree
<1>6. QED
  BY <1>1, <1>2, <1>5

\* The tokens of some rows.
RowTokens(C) == FoldSet(LAMBDA t, sum : sum + t.tokens, 0, C)

LEMMA RowTokensTotal ==
  ASSUME NEW C, IsFiniteSet(C), NEW w, \A t \in C : w[t] = t.tokens
  PROVE  RowTokens(C) = Total(w, C)
<1> DEFINE Step(f, T) == IF T = {} THEN 0 ELSE LET x == CHOOSE x \in T : TRUE IN f[T \ {x}] + x.tokens
           f == CHOOSE f : f = [T \in SUBSET C |-> Step(f, T)]
<1>1. RowTokens(C) = f[C]
  BY DEF RowTokens, FoldSet, MapThenFoldSet
<1>2. ASSUME NEW h, NEW T \in SUBSET C PROVE Step(h, T) = Added(h, w, T)
  <2>1. T # {} => (CHOOSE x \in T : TRUE) \in C
    OBVIOUS
  <2>2. QED
    BY <2>1 DEF Added
<1> HIDE DEF Step, f
<1>3. PICK h : SumsOver(h, w, C)
  BY SumsExist
<1>4. h = [T \in SUBSET C |-> Step(h, T)]
  BY <1>2, <1>3 DEF SumsOver
<1>5. f = [T \in SUBSET C |-> Step(f, T)]
  BY <1>4 DEF f
<1>6. Sums(f, w, C)
  BY <1>2, <1>5 DEF Sums
<1>7. PICK g : Sums(g, w, C) /\ Total(w, C) = g[C]
  BY TotalSums
<1>8. f[C] = g[C]
  BY <1>6, <1>7, SumsAgree
<1>9. QED
  BY <1>1, <1>7, <1>8

\* Spans that have ended, by their rows or by their ids.
LEMMA RowTokensSum ==
  ASSUME NEW S, Table(S), NEW C \in SUBSET Ended(S)
  PROVE  RowTokens(C) = SumOf(Ids(C))
<1> DEFINE w == [t \in C |-> t.tokens]
           G == {T \in SUBSET C : IsFiniteSet(Ids(T)) /\ Total(w, T) = Total(Tokens, Ids(T))}
<1>1. IsFiniteSet(C) /\ IsFiniteSet(S)
  BY TableFinite, FS_Subset DEF Ended
<1>2. \A t \in C : t.id \in Spans /\ w[t] = Tokens[t.id] /\ w[t] \in Nat /\ Tokens[t.id] \in Nat
  BY TraceAssumption DEF Ended, Table, Row, Described
<1>3. \A r, t \in C : r.id = t.id => r = t
  BY DEF Ended, Table, Unique
<1> HIDE DEF w
<1>4. {} \in G
  <2>1. Ids({}) = {}
    BY DEF Ids
  <2>2. QED
    BY <2>1, TotalEmpty, FS_EmptySet
<1>5. ASSUME NEW T \in SUBSET C, NEW x \in C \ T, T \in G PROVE T \cup {x} \in G
  <2>1. Ids(T \cup {x}) = Ids(T) \cup {x.id} /\ x.id \notin Ids(T)
    BY <1>3 DEF Ids
  <2>2. IsFiniteSet(T)
    BY <1>1, FS_Subset
  <2>3. Total(w, T \cup {x}) = Total(w, T) + w[x]
    BY <1>2, <2>2, TotalAdd
  <2>4. \A i \in Ids(T) \cup {x.id} : Tokens[i] \in Nat
    BY <1>2 DEF Ids
  <2>5. IsFiniteSet(Ids(T)) /\ Total(w, T) = Total(Tokens, Ids(T))
    BY <1>5
  <2>6. Total(Tokens, Ids(T) \cup {x.id}) = Total(Tokens, Ids(T)) + Tokens[x.id]
    BY <2>1, <2>4, <2>5, TotalAdd
  <2>7. IsFiniteSet(Ids(T) \cup {x.id})
    BY <2>5, FS_AddElement
  <2>8. QED
    BY <1>2, <2>1, <2>3, <2>5, <2>6, <2>7
<1>6. C \in G
  <2> HIDE DEF G
  <2>1. QED
    BY <1>1, <1>4, <1>5, FiniteInduction
<1>7. RowTokens(C) = Total(w, C)
  BY <1>1, RowTokensTotal DEF w
<1>8. Total(Tokens, Ids(C)) = SumOf(Ids(C))
  BY DEF SumOf, Total
<1>9. QED
  BY <1>6, <1>7, <1>8

----------------------------------------------------------------------------
(* The tree that rows make, and the calls in it.                          *)

\* Whoever has a row in X has its parent in X.
Rises(S, X) == \A s \in S : s.id \in X /\ s.parent # None => s.parent \in X

\* a stands at or above b in the tree the rows make.
Over(S, a, b) == \A X \in SUBSET Spans : b \in X /\ Rises(S, X) => a \in X

Below(S, a) == {b \in Ids(S) : Over(S, a, b)}
Calling(S)  == Ids({t \in S : t.type = "LLM"})

\* The LLM rows at the leaves below a.
Calls(S, a) == {b \in Below(S, a) \cap Calling(S) : \A u \in S : u.parent # b}

LEMMA ParentShorter ==
  ASSUME NEW r, Row(r), r.parent # None
  PROVE  /\ Len(Path[r.parent]) \in Nat /\ Len(Path[r.id]) \in Nat
         /\ Len(Path[r.parent]) < Len(Path[r.id])
<1>1. r.id \in Spans /\ r.parent \in Spans /\ Ahead(r.id, r.parent)
  BY DEF Row
<1>2. PICK k \in 1..Len(Path[r.id]) : k < Len(Path[r.id]) /\ Path[r.id][k] = r.parent
  BY <1>1 DEF Ahead
<1>3. Len(Path[r.parent]) = k
  BY <1>1, <1>2, PathLength
<1>4. Len(Path[r.id]) \in Nat
  BY <1>1, PathOf
<1>5. QED
  BY <1>2, <1>3, <1>4

LEMMA OverSelf == ASSUME NEW S, NEW b PROVE Over(S, b, b)
BY DEF Over

LEMMA OverParent ==
  ASSUME NEW S, NEW s \in S, s.parent # None, NEW a, Over(S, a, s.parent)
  PROVE  Over(S, a, s.id)
BY DEF Over, Rises

LEMMA OverRises ==
  ASSUME NEW S, NEW s \in S, s.parent # None, NEW b, Over(S, s.id, b)
  PROVE  Over(S, s.parent, b)
BY DEF Over, Rises

\* Up from a row one comes by its parent.
LEMMA OverRow ==
  ASSUME NEW S, Table(S), NEW s \in S, NEW a, Over(S, a, s.id), a # s.id
  PROVE  s.parent # None /\ Over(S, a, s.parent)
<1> DEFINE X == {s.id} \cup {x \in Spans : s.parent # None /\ Over(S, x, s.parent)}
<1>1. X \in SUBSET Spans /\ s.id \in X
  BY DEF Table, Row
<1>2. Rises(S, X)
  <2> SUFFICES ASSUME NEW t \in S, t.id \in X, t.parent # None PROVE t.parent \in X
    BY DEF Rises
  <2>1. t.parent \in Spans
    BY DEF Table, Row
  <2>2. CASE t.id = s.id
    <3>1. t = s
      BY <2>2 DEF Table, Unique
    <3>2. QED
      BY <2>1, <3>1, OverSelf
  <2>3. CASE t.id # s.id
    <3>1. s.parent # None /\ Over(S, t.id, s.parent)
      BY <2>3
    <3>2. Over(S, t.parent, s.parent)
      BY <3>1, OverRises
    <3>3. QED
      BY <2>1, <3>1, <3>2
  <2>4. QED
    BY <2>2, <2>3
<1>3. a \in X
  <2> HIDE DEF X
  <2>1. QED
    BY <1>1, <1>2 DEF Over
<1>4. QED
  BY <1>3

LEMMA OverShorter ==
  ASSUME NEW S, Table(S), NEW b \in Spans, NEW a, Over(S, a, b)
  PROVE  a \in Spans /\ Len(Path[a]) <= Len(Path[b])
<1> DEFINE X == {x \in Spans : Len(Path[x]) <= Len(Path[b])}
<1>1. b \in X
  BY PathOf
<1>2. Rises(S, X)
  <2> SUFFICES ASSUME NEW t \in S, t.id \in X, t.parent # None PROVE t.parent \in X
    BY DEF Rises
  <2>1. Row(t) /\ t.parent \in Spans
    BY DEF Table, Row
  <2>2. QED
    BY <2>1, ParentShorter, PathOf
<1>3. X \in SUBSET Spans
  OBVIOUS
<1>4. a \in X
  <2> HIDE DEF X
  <2>1. QED
    BY <1>1, <1>2, <1>3 DEF Over
<1>5. QED
  BY <1>4

LEMMA OverStranger ==
  ASSUME NEW S, NEW b \in Spans, b \notin Ids(S), NEW a, Over(S, a, b)
  PROVE  a = b
<1>1. Rises(S, {b})
  BY DEF Rises, Ids
<1>2. QED
  BY <1>1 DEF Over

\* Nobody is below two children of one row.
LEMMA OneChild ==
  ASSUME NEW S, Table(S), NEW j \in S, NEW k \in S, j # k, j.parent = k.parent, j.parent # None,
         NEW b \in Spans
  PROVE  ~(Over(S, j.id, b) /\ Over(S, k.id, b))
<1> DEFINE Bad == {x \in Spans : Over(S, j.id, x) /\ Over(S, k.id, x)}
           Lens == {Len(Path[x]) : x \in Bad}
<1>1. SUFFICES ASSUME Bad # {} PROVE FALSE
  OBVIOUS
<1>2. \A x \in Spans : Len(Path[x]) \in Nat
  BY PathOf
<1>3. PICK c \in Bad : \A x \in Bad : Len(Path[c]) <= Len(Path[x])
  <2>1. Lens \in SUBSET Nat /\ Lens # {}
    BY <1>1, <1>2
  <2>2. PICK n \in Lens : \A m \in Lens : n <= m
    <3> HIDE DEF Lens
    <3>1. QED
      BY <2>1, LeastNat
  <2>3. QED
    BY <2>2
<1>4. c \in Spans /\ Over(S, j.id, c) /\ Over(S, k.id, c)
  BY <1>3
<1>5. j.id # k.id /\ Row(j) /\ Row(k) /\ j.parent \in Spans
  BY DEF Table, Unique, Row
<1>6. PICK t \in S : t.id = c
  <2>1. c \in Ids(S)
    BY <1>4, <1>5, OverStranger
  <2>2. QED
    BY <2>1 DEF Ids
<1>7. ~Over(S, j.id, k.parent) /\ ~Over(S, k.id, j.parent)
  <2>1. Len(Path[j.parent]) < Len(Path[j.id]) /\ Len(Path[k.parent]) < Len(Path[k.id])
    BY <1>5, ParentShorter
  <2>2. j.id \in Spans /\ k.id \in Spans
    BY <1>5 DEF Row
  <2>3. QED
    BY <1>2, <1>5, <2>1, <2>2, OverShorter
<1>8. c # j.id /\ c # k.id
  <2>1. ASSUME c = j.id PROVE FALSE
    <3>1. Over(S, k.id, j.parent)
      BY <1>4, <1>5, <2>1, OverRow
    <3>2. QED
      BY <1>7, <3>1
  <2>2. ASSUME c = k.id PROVE FALSE
    <3>1. Over(S, j.id, k.parent)
      BY <1>4, <1>5, <2>2, OverRow
    <3>2. QED
      BY <1>7, <3>1
  <2>3. QED
    BY <2>1, <2>2
<1>9. t.parent # None /\ Over(S, j.id, t.parent) /\ Over(S, k.id, t.parent)
  BY <1>4, <1>6, <1>8, OverRow
<1>10. t.parent \in Bad /\ Len(Path[t.parent]) < Len(Path[c])
  <2>1. Row(t) /\ t.parent \in Spans
    BY <1>9 DEF Table, Row
  <2>2. QED
    BY <1>6, <1>9, <2>1, ParentShorter
<1>11. QED
  BY <1>2, <1>3, <1>10

\* Down from a row one comes by a child.
LEMMA OverChild ==
  ASSUME NEW S, Table(S), NEW s \in S, NEW b \in Spans, b # s.id
  PROVE  Over(S, s.id, b) <=> \E k \in S : k.parent = s.id /\ Over(S, k.id, b)
<1>0. s.id \in Spans /\ s.id # None
  BY TraceAssumption DEF Table, Row
<1>1. ASSUME NEW k \in S, k.parent = s.id, Over(S, k.id, b) PROVE Over(S, s.id, b)
  BY <1>0, <1>1, OverRises
<1>2. ASSUME \A k \in S : k.parent = s.id => ~Over(S, k.id, b) PROVE ~Over(S, s.id, b)
  <2> DEFINE X == {x \in Spans : Over(S, x, b) /\ x # s.id}
  <2>1. X \in SUBSET Spans /\ b \in X /\ s.id \notin X
    BY OverSelf
  <2>2. Rises(S, X)
    <3> SUFFICES ASSUME NEW t \in S, t.id \in X, t.parent # None PROVE t.parent \in X
      BY DEF Rises
    <3>1. t.parent \in Spans /\ Over(S, t.parent, b)
      BY OverRises DEF Table, Row
    <3>2. QED
      BY <1>2, <3>1
  <2> HIDE DEF X
  <2>3. QED
    BY <2>1, <2>2 DEF Over
<1>3. QED
  BY <1>1, <1>2

----------------------------------------------------------------------------
(* The sums of subtrees.                                                  *)

\* The rows right below a row.
Children(S, s) == {t \in S : t.parent = s.id}

\* What the sum of a row should be.
Due(S, s) == IF Calls(S, s.id) = {} THEN -1 ELSE SumOf(Calls(S, s.id))

\* One step of calculateSpanMetrics: f says what the children have.
Metric(f, S, s) ==
  LET kids  == {t \in S : t.parent = s.id}
      below == {t \in kids : f[t] # -1}
  IN  IF kids = {} THEN IF s.type = "LLM" THEN s.tokens ELSE -1
      ELSE IF below = {} THEN -1
      ELSE FoldSet(LAMBDA t, sum : sum + f[t], 0, below)

\* The calls below a row are those of its children.
LEMMA ChildCalls ==
  ASSUME NEW S, Table(S), NEW s \in S
  PROVE  IF Children(S, s) = {} THEN Calls(S, s.id) = IF s.type = "LLM" THEN {s.id} ELSE {}
         ELSE /\ Calls(S, s.id) = UNION {Calls(S, k.id) : k \in Children(S, s)}
              /\ \A j, k \in Children(S, s) : j # k => Calls(S, j.id) \cap Calls(S, k.id) = {}
<1>1. s.id \in Spans /\ s.id # None /\ Ids(S) \subseteq Spans
  BY TableFinite, TraceAssumption DEF Table, Row
<1>2. s.id \in Ids(S) /\ s.id \in Below(S, s.id)
  BY OverSelf DEF Ids, Below
<1>3. CASE Children(S, s) = {}
  <2>1. Below(S, s.id) = {s.id}
    BY <1>1, <1>2, <1>3, OverChild DEF Below, Children
  <2>2. s.id \in Calling(S) <=> s.type = "LLM"
    BY DEF Calling, Ids, Table, Unique
  <2>3. \A u \in S : u.parent # s.id
    BY <1>3 DEF Children
  <2>4. QED
    BY <1>3, <2>1, <2>2, <2>3 DEF Calls
<1>4. CASE Children(S, s) # {}
  <2>1. PICK u \in S : u.parent = s.id
    BY <1>4 DEF Children
  <2>2. s.id \notin Calls(S, s.id)
    BY <2>1 DEF Calls
  <2>3. ASSUME NEW k \in Children(S, s) PROVE s.id \notin Calls(S, k.id) /\ k \in S /\ k.parent = s.id
    BY <2>1 DEF Calls, Children
  <2>4. ASSUME NEW b \in Calls(S, s.id) PROVE \E k \in Children(S, s) : b \in Calls(S, k.id)
    <3>1. b \in Spans /\ b # s.id /\ Over(S, s.id, b)
      BY <1>1, <2>2 DEF Calls, Below
    <3>2. PICK k \in S : k.parent = s.id /\ Over(S, k.id, b)
      BY <3>1, OverChild
    <3>3. QED
      BY <3>2 DEF Calls, Below, Children
  <2>5. ASSUME NEW k \in Children(S, s), NEW b \in Calls(S, k.id) PROVE b \in Calls(S, s.id)
    <3>1. b \in Spans /\ b # s.id /\ Over(S, k.id, b)
      BY <1>1, <2>3 DEF Calls, Below
    <3>2. Over(S, s.id, b)
      BY <2>3, <3>1, OverChild
    <3>3. QED
      BY <3>2 DEF Calls, Below
  <2>6. Calls(S, s.id) = UNION {Calls(S, k.id) : k \in Children(S, s)}
    BY <2>4, <2>5
  <2>7. ASSUME NEW j \in Children(S, s), NEW k \in Children(S, s), j # k, NEW b,
               b \in Calls(S, j.id), b \in Calls(S, k.id)
        PROVE  FALSE
    <3>1. b \in Spans /\ Over(S, j.id, b) /\ Over(S, k.id, b)
      BY <1>1, <2>7 DEF Calls, Below
    <3>2. j \in S /\ k \in S /\ j.parent = k.parent /\ j.parent # None
      BY <1>1, <2>3
    <3>3. QED
      BY <2>7, <3>1, <3>2, OneChild
  <2>8. QED
    BY <1>4, <2>6, <2>7
<1>5. QED
  BY <1>3, <1>4

LEMMA CallsFinite ==
  ASSUME NEW S, Table(S), NEW a
  PROVE  /\ IsFiniteSet(Calls(S, a)) /\ \A b \in Calls(S, a) : b \in Spans /\ Tokens[b] \in Nat
         /\ SumOf(Calls(S, a)) \in Nat /\ SumOf(Calls(S, a)) = Total(Tokens, Calls(S, a))
<1>1. Calls(S, a) \subseteq Spans
  BY TableFinite DEF Calls, Below
<1>2. IsFiniteSet(Calls(S, a))
  BY <1>1, FS_Subset, TraceAssumption
<1>3. \A b \in Calls(S, a) : b \in Spans /\ Tokens[b] \in Nat
  BY <1>1, TraceAssumption
<1>4. SumOf(Calls(S, a)) = Total(Tokens, Calls(S, a))
  BY DEF SumOf, Total
<1>5. Total(Tokens, Calls(S, a)) \in Nat
  BY <1>2, <1>3, TotalType
<1>6. QED
  BY <1>2, <1>3, <1>4, <1>5

\* What is due to all rows is due step by step.
LEMMA DueMetric ==
  ASSUME NEW S, Table(S), NEW f, \A t \in S : f[t] = Due(S, t), NEW s \in S
  PROVE  Metric(f, S, s) = Due(S, s)
<1> DEFINE kids  == Children(S, s)
           below == {t \in kids : f[t] # -1}
<1>1. Metric(f, S, s) = IF kids = {} THEN IF s.type = "LLM" THEN s.tokens ELSE -1
                        ELSE IF below = {} THEN -1 ELSE Total(f, below)
  BY DEF Metric, Children, Total
<1>2. CASE kids = {}
  <2>1. Calls(S, s.id) = IF s.type = "LLM" THEN {s.id} ELSE {}
    BY <1>2, ChildCalls
  <2>2. CASE s.type = "LLM"
    <3>1. s.tokens = Tokens[s.id] /\ s.id \in Spans /\ Tokens[s.id] \in Nat
      BY <2>2, TraceAssumption DEF Table, Row, Described
    <3>2. Total(Tokens, {} \cup {s.id}) = Total(Tokens, {}) + Tokens[s.id]
      BY <3>1, FS_EmptySet, TotalAdd
    <3>3. {} \cup {s.id} = {s.id} /\ Total(Tokens, {}) = 0
      BY TotalEmpty
    <3>4. SumOf(Calls(S, s.id)) = s.tokens
      BY <2>1, <2>2, <3>1, <3>2, <3>3, CallsFinite
    <3>5. QED
      BY <1>1, <1>2, <2>1, <2>2, <3>4 DEF Due
  <2>3. CASE s.type # "LLM"
    BY <1>1, <1>2, <2>1, <2>3 DEF Due
  <2>4. QED
    BY <2>2, <2>3
<1>3. CASE kids # {}
  <2>1. /\ Calls(S, s.id) = UNION {Calls(S, k.id) : k \in kids}
        /\ \A j, k \in kids : j # k => Calls(S, j.id) \cap Calls(S, k.id) = {}
    BY <1>3, ChildCalls
  <2>2. kids \subseteq S
    BY DEF Children
  <2>3. \A k \in kids : f[k] = IF Calls(S, k.id) = {} THEN -1 ELSE Total(Tokens, Calls(S, k.id))
    BY <2>2, CallsFinite DEF Due
  <2>4. \A k \in kids : k \in below <=> Calls(S, k.id) # {}
    BY <2>2, <2>3, CallsFinite
  <2>5. CASE below = {}
    BY <1>1, <1>3, <2>1, <2>4, <2>5 DEF Due
  <2>6. CASE below # {}
    <3> DEFINE C == [k \in below |-> Calls(S, k.id)]
    <3>1. IsFiniteSet(below)
      BY <2>2, TableFinite, FS_Subset
    <3>2. \A k \in below : /\ IsFiniteSet(C[k]) /\ f[k] = Total(Tokens, C[k])
                           /\ \A b \in C[k] : Tokens[b] \in Nat
      BY <2>3, <2>4, CallsFinite
    <3>3. \A j, k \in below : j # k => C[j] \cap C[k] = {}
      BY <2>1
    <3>4. UNION {C[k] : k \in below} = Calls(S, s.id)
      <4>1. ASSUME NEW b \in Calls(S, s.id) PROVE \E k \in below : b \in C[k]
        <5>1. PICK k \in kids : b \in Calls(S, k.id)
          BY <2>1
        <5>2. k \in below
          BY <2>4, <5>1
        <5>3. QED
          BY <5>1, <5>2
      <4>2. ASSUME NEW k \in below PROVE C[k] \subseteq Calls(S, s.id)
        BY <2>1
      <4> HIDE DEF below, C
      <4>3. QED
        BY <4>1, <4>2
    <3>5. Calls(S, s.id) # {}
      BY <2>1, <2>4, <2>6
    <3> HIDE DEF below, C
    <3>6. Total(f, below) = Total(Tokens, Calls(S, s.id))
      <4>1. Total(f, below) = Total(Tokens, UNION {C[k] : k \in below})
        BY <3>1, <3>2, <3>3, TotalFamily
      <4>2. QED
        BY <3>4, <4>1
    <3>7. QED
      BY <1>1, <1>3, <2>6, <3>5, <3>6, CallsFinite DEF Due
  <2>7. QED
    BY <2>5, <2>6
<1>4. QED
  BY <1>2, <1>3

\* Metrics are defined for one choice of what the children have.
LEMMA MetricUnique ==
  ASSUME NEW S, Table(S), NEW f, NEW g,
         \A s \in S : f[s] = Metric(f, S, s), \A s \in S : g[s] = Metric(g, S, s)
  PROVE  \A s \in S : f[s] = g[s]
<1> DEFINE Bad == {s \in S : f[s] # g[s]}
           len == [s \in Bad |-> Len(Path[s.id])]
           Lens == {len[s] : s \in Bad}
<1>1. SUFFICES ASSUME Bad # {} PROVE FALSE
  OBVIOUS
<1>2. \A s \in S : Row(s) /\ s.id \in Spans /\ s.id # None /\ Len(Path[s.id]) \in Nat
  BY PathOf, TraceAssumption DEF Table, Row
<1>3. Lens \in SUBSET Nat /\ Lens # {}
  BY <1>1, <1>2
<1>4. IsFiniteSet(Lens)
  <2>1. IsFiniteSet(Bad)
    BY TableFinite, FS_Subset
  <2> HIDE DEF len, Bad
  <2>2. QED
    BY <2>1, FiniteImage
<1>5. PICK s \in Bad : \A t \in Bad : Len(Path[s.id]) >= Len(Path[t.id])
  <2>1. PICK n \in Lens : \A m \in Lens : n >= m
    <3> HIDE DEF Lens
    <3>1. QED
      BY <1>3, <1>4, GreatestNat
  <2>2. QED
    BY <2>1
<1>6. ASSUME NEW t \in S, t.parent = s.id PROVE f[t] = g[t]
  <2>1. Len(Path[s.id]) < Len(Path[t.id])
    BY <1>2, <1>5, <1>6, ParentShorter
  <2>2. QED
    BY <1>2, <1>5, <2>1
<1>7. Metric(f, S, s) = Metric(g, S, s)
  <2> DEFINE below(h) == {t \in Children(S, s) : h[t] # -1}
  <2>1. \A h : Metric(h, S, s) = IF Children(S, s) = {} THEN IF s.type = "LLM" THEN s.tokens ELSE -1
                                 ELSE IF below(h) = {} THEN -1 ELSE Total(h, below(h))
    BY DEF Metric, Children, Total
  <2>2. below(f) = below(g) /\ \A t \in below(f) : f[t] = g[t]
    BY <1>6 DEF Children
  <2>3. IsFiniteSet(below(f))
    BY TableFinite, FS_Subset DEF Children
  <2> HIDE DEF below
  <2>4. Total(f, below(f)) = Total(g, below(g))
    BY <2>2, <2>3, TotalSame
  <2>5. QED
    BY <2>1, <2>2, <2>4
<1>8. QED
  BY <1>5, <1>7

\* calculateSpanMetrics gives each row the tokens of the LLM rows at the leaves
\* below it, or -1 where there are none.
THEOREM SubtreeMetrics ==
  ASSUME NEW S, Table(S), NEW s \in S
  PROVE  CalculateMetrics(S)[s] = Due(S, s)
<1> DEFINE metrics == CHOOSE f : f = [t \in S |-> Metric(f, S, t)]
           due == [t \in S |-> Due(S, t)]
<1>1. CalculateMetrics(S) = metrics
  BY DEF CalculateMetrics, Metric
<1>2. due = [t \in S |-> Metric(due, S, t)]
  <2>1. \A t \in S : due[t] = Due(S, t)
    OBVIOUS
  <2> HIDE DEF due
  <2>2. \A t \in S : Metric(due, S, t) = Due(S, t)
    BY <2>1, DueMetric
  <2>3. due = [t \in S |-> Due(S, t)]
    BY DEF due
  <2>4. QED
    BY <2>2, <2>3
<1>3. due[s] = Due(S, s) /\ \A t \in S : due[t] = Metric(due, S, t)
  BY <1>2
<1> HIDE DEF due
<1>4. metrics = [t \in S |-> Metric(metrics, S, t)]
  BY <1>2
<1> HIDE DEF metrics
<1>5. \A t \in S : metrics[t] = Metric(metrics, S, t)
  BY <1>4
<1>6. metrics[s] = due[s]
  BY <1>3, <1>5, MetricUnique
<1>7. QED
  BY <1>1, <1>3, <1>6

----------------------------------------------------------------------------
(* The way up.                                                            *)

\* One step up for everyone.
Risen(S, ids) == ids \cup {s.parent : s \in {t \in S : t.id \in ids /\ t.parent # None}}
UpStep(f, S, ids, n) == IF n = 0 THEN ids ELSE Risen(S, f[n - 1])

UpSteps(f, S, ids, m) == f = [n \in 0..m |-> UpStep(f, S, ids, n)]

LEMMA StepsExist ==
  ASSUME NEW S, NEW ids, NEW m \in Nat
  PROVE  \E f : UpSteps(f, S, ids, m)
<1> DEFINE N == {k \in Nat : \E f : f = [n \in 0..k |-> UpStep(f, S, ids, n)]}
<1>1. 0 \in N
  <2> DEFINE f == [n \in 0..0 |-> ids]
  <2>1. f = [n \in 0..0 |-> UpStep(f, S, ids, n)]
    BY DEF UpStep
  <2> HIDE DEF f
  <2>2. QED
    BY <2>1
<1>2. ASSUME NEW k \in Nat, k \in N PROVE k + 1 \in N
  <2>1. PICK f : f = [n \in 0..k |-> UpStep(f, S, ids, n)]
    BY <1>2
  <2> DEFINE g == [n \in 0..(k + 1) |-> IF n = k + 1 THEN UpStep(f, S, ids, n) ELSE f[n]]
  <2>2. \A n \in 0..k : g[n] = f[n]
    OBVIOUS
  <2>3. \A n \in 0..k : f[n] = UpStep(f, S, ids, n)
    BY <2>1
  <2>4. \A n \in 0..(k + 1) : n # 0 => n - 1 \in 0..k
    OBVIOUS
  <2>5. g[k + 1] = UpStep(f, S, ids, k + 1)
    OBVIOUS
  <2>6. g = [n \in 0..(k + 1) |-> g[n]]
    OBVIOUS
  <2> HIDE DEF g
  <2>7. \A n \in 0..(k + 1) : UpStep(f, S, ids, n) = UpStep(g, S, ids, n)
    BY <2>2, <2>4 DEF UpStep
  <2>8. \A n \in 0..(k + 1) : g[n] = UpStep(g, S, ids, n)
    <3> SUFFICES ASSUME NEW n \in 0..(k + 1) PROVE g[n] = UpStep(g, S, ids, n)
      OBVIOUS
    <3>1. CASE n = k + 1
      BY <2>5, <2>7, <3>1
    <3>2. CASE n # k + 1
      <4>1. n \in 0..k
        BY <3>2
      <4>2. QED
        BY <2>2, <2>3, <2>7, <4>1
    <3>3. QED
      BY <3>1, <3>2
  <2>9. g = [n \in 0..(k + 1) |-> UpStep(g, S, ids, n)]
    BY <2>6, <2>8
  <2>10. QED
    BY <2>9
<1>3. Nat \subseteq N
  <2> HIDE DEF N
  <2>1. N \subseteq Nat
    BY DEF N
  <2>2. QED
    BY <1>1, <1>2, SetInduction
<1>4. QED
  BY <1>3 DEF UpSteps

\* computeVisibleSpanIds reaches everyone above: as many steps as there are rows
\* are enough, since every step that adds nobody is the last.
THEOREM AllAncestors ==
  ASSUME NEW S, Table(S), Closed(S), NEW s \in S, NEW a
  PROVE  a \in WithAncestors(S, {s.id}) <=> Over(S, a, s.id)
<1> DEFINE N  == Cardinality(S)
           up == CHOOSE f : f = [n \in 0..N |-> UpStep(f, S, {s.id}, n)]
<1>1. WithAncestors(S, {s.id}) = up[N]
  BY DEF WithAncestors, UpStep, Risen
<1>2. N \in Nat /\ IsFiniteSet(S) /\ Cardinality(Ids(S)) = N /\ Ids(S) \subseteq Spans
  BY TableFinite, FS_CardinalityType
<1> HIDE DEF N
<1>3. up = [n \in 0..N |-> UpStep(up, S, {s.id}, n)]
  <2>1. PICK f : UpSteps(f, S, {s.id}, N)
    BY <1>2, StepsExist
  <2>2. f = [n \in 0..N |-> UpStep(f, S, {s.id}, n)]
    BY <2>1 DEF UpSteps
  <2>3. QED
    BY <2>2
<1> HIDE DEF up
<1>4. up[0] = {s.id} /\ \A n \in Nat : n + 1 <= N => up[n + 1] = Risen(S, up[n])
  <2>1. \A n \in 0..N : up[n] = UpStep(up, S, {s.id}, n)
    BY <1>3
  <2>2. up[0] = {s.id}
    BY <1>2, <2>1 DEF UpStep
  <2>3. ASSUME NEW n \in Nat, n + 1 <= N PROVE up[n + 1] = Risen(S, up[n])
    <3>1. n + 1 \in 0..N /\ n + 1 # 0 /\ (n + 1) - 1 = n
      BY <1>2, <2>3
    <3>2. QED
      BY <2>1, <3>1 DEF UpStep
  <2>4. QED
    BY <2>2, <2>3
<1> DEFINE Far(n) == /\ up[n] \subseteq Ids(S) /\ s.id \in up[n]
                     /\ \A x \in up[n] : Over(S, x, s.id)
                     /\ Rises(S, up[n]) \/ n + 1 <= Cardinality(up[n])
           F == {n \in Nat : n <= N => Far(n)}
<1>5. IsFiniteSet(Ids(S))
  BY <1>2, FS_Subset, TraceAssumption
<1>6. 0 \in F
  <2>1. Cardinality({s.id}) = 1
    BY FS_Singleton
  <2>2. s.id \in Ids(S)
    BY DEF Ids
  <2>3. QED
    BY <1>4, <2>1, <2>2, OverSelf
<1>7. ASSUME NEW n \in Nat, n \in F PROVE n + 1 \in F
  <2> SUFFICES ASSUME n + 1 <= N PROVE Far(n + 1)
    OBVIOUS
  <2>1. Far(n) /\ up[n + 1] = Risen(S, up[n])
    BY <1>2, <1>4, <1>7
  <2>2. up[n] \subseteq up[n + 1] /\ s.id \in up[n + 1]
    BY <2>1 DEF Risen
  <2>3. up[n + 1] \subseteq Ids(S)
    BY <2>1 DEF Risen, Closed
  <2>4. ASSUME NEW x \in up[n + 1] PROVE Over(S, x, s.id)
    <3>1. CASE x \in up[n]
      BY <2>1, <3>1
    <3>2. CASE x \notin up[n]
      <4>1. PICK t \in S : t.id \in up[n] /\ t.parent # None /\ x = t.parent
        BY <2>1, <3>2 DEF Risen
      <4>2. QED
        BY <2>1, <4>1, OverRises
    <3>3. QED
      BY <3>1, <3>2
  <2>5. CASE Rises(S, up[n])
    <3>1. up[n + 1] = up[n]
      BY <2>1, <2>5 DEF Risen, Rises
    <3>2. QED
      BY <2>1, <2>5, <3>1
  <2>6. CASE ~Rises(S, up[n])
    <3>1. PICK t \in S : t.id \in up[n] /\ t.parent # None /\ t.parent \notin up[n]
      BY <2>6 DEF Rises
    <3>2. IsFiniteSet(up[n]) /\ IsFiniteSet(up[n + 1])
      BY <1>5, <2>1, <2>3, FS_Subset
    <3>3. Cardinality(up[n] \cup {t.parent}) = Cardinality(up[n]) + 1
      BY <3>1, <3>2, FS_AddElement
    <3>4. up[n] \cup {t.parent} \subseteq up[n + 1]
      BY <2>1, <3>1 DEF Risen
    <3>5. Cardinality(up[n] \cup {t.parent}) <= Cardinality(up[n + 1])
      BY <3>2, <3>4, FS_Subset
    <3>6. n + 1 <= Cardinality(up[n])
      BY <2>1, <2>6
    <3>7. Cardinality(up[n]) \in Nat /\ Cardinality(up[n + 1]) \in Nat
      BY <3>2, FS_CardinalityType
    <3>8. (n + 1) + 1 <= Cardinality(up[n + 1])
      BY <3>3, <3>5, <3>6, <3>7
    <3>9. QED
      BY <2>2, <2>3, <2>4, <3>8
  <2>7. QED
    BY <2>5, <2>6
<1>8. Far(N)
  <2>1. Nat \subseteq F
    <3> HIDE DEF F
    <3>1. F \subseteq Nat
      BY DEF F
    <3>2. QED
      BY <1>6, <1>7, SetInduction
  <2>2. QED
    BY <1>2, <2>1
<1>9. Rises(S, up[N])
  <2>1. Cardinality(up[N]) <= N
    BY <1>2, <1>5, <1>8, FS_Subset
  <2>2. Cardinality(up[N]) \in Nat
    BY <1>5, <1>8, FS_Subset, FS_CardinalityType
  <2>3. QED
    BY <1>2, <1>8, <2>1, <2>2
<1>10. ASSUME Over(S, a, s.id) PROVE a \in up[N]
  BY <1>2, <1>8, <1>9, <1>10 DEF Over
<1>11. QED
  BY <1>1, <1>8, <1>10

----------------------------------------------------------------------------
(* Rows whose sums are as they should be.                                 *)

\* On the path of t's span, u's stands between t's parent and t.
Between(u, t) ==
  \E j, k \in 1..Len(Path[t.id]) :
    j < k /\ k < Len(Path[t.id]) /\ Path[t.id][j] = t.parent /\ Path[t.id][k] = u.id

\* Where a row hangs higher than its span, those between them that have a row
\* hang where theirs do.
Rejoins(S) == \A t, u \in S : Between(u, t) => u.parent = Parent[u.id]

\* A sum was made of a call below.
Ever(S) == \A s \in S : s.sum # -1 => Below(S, s.id) \cap Calling(S) # {}

\* MetricsCurrent, of a table.
Current(S) == \A s \in S : Calls(S, s.id) # {} => s.sum = SumOf(Calls(S, s.id))

Summed(S) == Rejoins(S) /\ Ever(S) /\ (Ended(S) = S => Current(S))

\* Nobody is between a row and the parent of its span.
LEMMA NobodyBetween ==
  ASSUME NEW t, Row(t), t.parent = Parent[t.id], NEW u, Between(u, t)
  PROVE  FALSE
<1>1. PICK j, k \in 1..Len(Path[t.id]) :
        j < k /\ k < Len(Path[t.id]) /\ Path[t.id][j] = t.parent
  BY DEF Between
<1>2. t.id \in Spans /\ Len(Path[t.id]) \in Nat
  BY PathOf DEF Row
<1> DEFINE n == Len(Path[t.id])
<1>3. n \in 1..n /\ n > 1 /\ n - 1 \in 1..n /\ Path[t.id][n] = t.id
  BY <1>1, <1>2, PathOf
<1>4. Path[t.id][n - 1] = t.parent
  BY <1>2, <1>3, PathClimbs
<1>5. j = n - 1
  BY <1>1, <1>2, <1>3, <1>4, PathLength
<1>6. QED
  BY <1>1, <1>2, <1>5

\* Sums stay made of calls where rows are only added or hang lower.
LEMMA EverKept ==
  ASSUME NEW S, NEW T, Ever(S), Ids(S) \subseteq Ids(T), Calling(S) \subseteq Calling(T),
         \A X \in SUBSET Spans : Rises(T, X) => Rises(S, X),
         \A t \in T : t.sum # -1 => \E s \in S : s.id = t.id /\ s.sum # -1
  PROVE  Ever(T)
<1> SUFFICES ASSUME NEW t \in T, t.sum # -1 PROVE Below(T, t.id) \cap Calling(T) # {}
  BY DEF Ever
<1>1. PICK s \in S : s.id = t.id /\ s.sum # -1
  OBVIOUS
<1>2. PICK b : b \in Below(S, s.id) /\ b \in Calling(S)
  BY <1>1 DEF Ever
<1>3. b \in Ids(S) /\ Over(S, s.id, b)
  BY <1>2 DEF Below
<1>4. Over(T, s.id, b)
  BY <1>3 DEF Over
<1>5. QED
  BY <1>1, <1>2, <1>3, <1>4 DEF Below

\* Placeholders: every row keeps its place, and none gets a sum it did not have.
LEMMA EnrichDraws ==
  ASSUME NEW S, Table(S)
  PROVE  LET T == EnrichSpansWithPending(S)
         IN  /\ \A s \in S : \E t \in T : t.id = s.id /\ t.parent = s.parent
             /\ \A t \in T : t.sum # -1 => \E s \in S : s.id = t.id /\ s.sum = t.sum /\ s.pending = t.pending
             /\ \A t \in T : t \in Ended(S) \/ (t.pending /\ t.parent = Parent[t.id])
             /\ Calling(T) = Calling(S)
<1> DEFINE T == EnrichSpansWithPending(S)
<1>1. Table(T) /\ Ended(T) = Ended(S) /\ \A p \in T : p.pending => p.id \in PendingIds(S) /\ Holds(p, S, p.id)
  BY EnrichRows
<1>2. \A a \in PendingIds(S) : a \in Ids(T)
  BY EnrichRows
<1> HIDE DEF T
<1>3. \A t \in T : t \in Ended(S) \/ (t.pending /\ t.parent = Parent[t.id])
  BY <1>1 DEF Ended, Table, Row, Described
<1>4. ASSUME NEW s \in S PROVE \E t \in T : t.id = s.id /\ t.parent = s.parent
  <2>1. CASE ~s.pending
    BY <1>1, <2>1 DEF Ended
  <2>2. CASE s.pending
    <3>1. s.id \in PendingIds(S)
      BY <2>2, PendingId DEF Ids
    <3>2. PICK p \in T : p.id = s.id
      BY <1>2, <3>1 DEF Ids
    <3>3. p.pending
      BY <1>3, <2>2, <3>2 DEF Ended, Table, Unique
    <3>4. p.parent = Parent[p.id] /\ s.parent = Parent[s.id]
      BY <1>1, <2>2, <3>3 DEF Table, Row, Described
    <3>5. QED
      BY <3>2, <3>4
  <2>3. QED
    BY <2>1, <2>2
<1>5. ASSUME NEW t \in T, t.sum # -1
      PROVE  \E s \in S : s.id = t.id /\ s.sum = t.sum /\ s.pending = t.pending
  <2>1. CASE t \in Ended(S)
    BY <2>1 DEF Ended
  <2>2. CASE t.pending
    <3>1. Holds(t, S, t.id)
      BY <1>1, <2>2
    <3>2. t.id \in Ids(S)
      BY <1>5, <3>1 DEF Holds
    <3>3. PICK o \in S : o.id = t.id /\ o.pending /\ t.sum = o.sum
      BY <3>1, <3>2 DEF Holds
    <3>4. t.pending = TRUE /\ o.pending = TRUE
      BY <1>1, <2>2, <3>3 DEF Table, Row
    <3>5. QED
      BY <3>3, <3>4
  <2>3. QED
    BY <1>3, <2>1, <2>2
<1>6. Calling(T) = Calling(S)
  <2>1. \A t \in T : t.type = "LLM" => t \in Ended(T)
    BY <1>1 DEF Table, Row, Described, Ended
  <2>2. \A t \in S : t.type = "LLM" => t \in Ended(S)
    BY DEF Table, Row, Described, Ended
  <2>3. {t \in T : t.type = "LLM"} = {t \in S : t.type = "LLM"}
    BY <1>1, <2>1, <2>2 DEF Ended
  <2>4. QED
    BY <2>3 DEF Calling
<1>7. QED
  BY <1>3, <1>4, <1>5, <1>6 DEF T

LEMMA EnrichSums ==
  ASSUME NEW S, Table(S), Rejoins(S), Ever(S)
  PROVE  Rejoins(EnrichSpansWithPending(S)) /\ Ever(EnrichSpansWithPending(S))
<1> DEFINE T == EnrichSpansWithPending(S)
<1>1. /\ \A s \in S : \E t \in T : t.id = s.id /\ t.parent = s.parent
      /\ \A t \in T : t.sum # -1 => \E s \in S : s.id = t.id /\ s.sum = t.sum
      /\ \A t \in T : t \in Ended(S) \/ (t.pending /\ t.parent = Parent[t.id])
      /\ Calling(T) = Calling(S)
  BY EnrichDraws
<1>2. Table(T) /\ Ids(S) \subseteq Ids(T)
  BY EnrichRows
<1> HIDE DEF T
<1>3. ASSUME NEW t \in T, NEW u \in T, Between(u, t) PROVE u.parent = Parent[u.id]
  <2>1. t \in S
    BY <1>1, <1>2, <1>3, NobodyBetween DEF Table, Ended
  <2>2. CASE u \in Ended(S)
    BY <1>3, <2>1, <2>2 DEF Ended, Rejoins
  <2>3. QED
    BY <1>1, <2>2
<1>4. \A X \in SUBSET Spans : Rises(T, X) => Rises(S, X)
  BY <1>1 DEF Rises
<1>5. \A t \in T : t.sum # -1 => \E s \in S : s.id = t.id /\ s.sum # -1
  BY <1>1
<1>6. Ever(T)
  BY <1>1, <1>2, <1>4, <1>5, EverKept
<1>7. QED
  BY <1>3, <1>6 DEF Rejoins, T

\* Rows drawn again make the same tree.
LEMMA TreeSame ==
  ASSUME NEW S, NEW T, Table(S), Redrawn(T, S)
  PROVE  /\ \A X : Rises(T, X) <=> Rises(S, X)
         /\ \A a, b : Over(T, a, b) <=> Over(S, a, b)
         /\ Calling(T) = Calling(S)
         /\ \A a : Below(T, a) = Below(S, a) /\ Calls(T, a) = Calls(S, a)
         /\ Rejoins(S) => Rejoins(T)
<1>1. \A t \in T : \E s \in S : Drawn(t, s)
  BY DEF Redrawn
<1>2. \A s \in S : \E t \in T : Drawn(t, s)
  BY DEF Redrawn
<1>3. Table(T) /\ Ids(T) = Ids(S)
  BY RedrawnKeeps
<1>4. \A X : Rises(T, X) <=> Rises(S, X)
  BY <1>1, <1>2 DEF Rises, Drawn
<1>5. \A a, b : Over(T, a, b) <=> Over(S, a, b)
  BY <1>4 DEF Over
<1>6. \A r : Row(r) => (r.type = "LLM" <=> ~r.pending /\ Tokens[r.id] > 0)
  BY DEF Row, Described
<1>7. Calling(T) = Calling(S)
  <2>1. \A t \in T, s \in S : Drawn(t, s) => (t.type = "LLM" <=> s.type = "LLM")
    <3> SUFFICES ASSUME NEW t \in T, NEW s \in S, Drawn(t, s) PROVE t.type = "LLM" <=> s.type = "LLM"
      OBVIOUS
    <3>1. Row(t) /\ Row(s) /\ t.id = s.id /\ t.pending = s.pending
      BY <1>3 DEF Table, Drawn
    <3>2. QED
      BY <1>6, <3>1
  <2>2. QED
    BY <1>1, <1>2, <2>1 DEF Calling, Ids, Drawn
<1>8. \A a : Below(T, a) = Below(S, a)
  BY <1>3, <1>5 DEF Below
<1>9. \A b : (\A u \in T : u.parent # b) <=> (\A u \in S : u.parent # b)
  BY <1>1, <1>2 DEF Drawn
<1>10. \A a : Calls(T, a) = Calls(S, a)
  BY <1>7, <1>8, <1>9 DEF Calls
<1>11. ASSUME Rejoins(S) PROVE Rejoins(T)
  <2> SUFFICES ASSUME NEW t \in T, NEW u \in T, Between(u, t) PROVE u.parent = Parent[u.id]
    BY DEF Rejoins
  <2>1. PICK s \in S : t.id = s.id /\ t.parent = s.parent
    BY <1>1 DEF Drawn
  <2>2. PICK v \in S : u.id = v.id /\ u.parent = v.parent
    BY <1>1 DEF Drawn
  <2>3. Between(v, s)
    BY <2>1, <2>2 DEF Between
  <2>4. QED
    BY <1>11, <2>2, <2>3 DEF Rejoins
<1>12. QED
  BY <1>4, <1>5, <1>7, <1>8, <1>10, <1>11

\* Opening branches changes no sum.
LEMMA OpenedSums ==
  ASSUME NEW S, NEW T, Table(S), Opened(T, S), Summed(S)
  PROVE  Summed(T)
<1>1. Redrawn(T, S) /\ \A t \in T : \E s \in S : t.id = s.id /\ t.sum = s.sum /\ t.pending = s.pending
  BY DEF Opened, Drawn
<1>2. /\ Calling(T) = Calling(S) /\ \A a : Below(T, a) = Below(S, a) /\ Calls(T, a) = Calls(S, a)
      /\ Rejoins(T)
  BY <1>1, TreeSame DEF Summed
<1>3. Ever(T)
  BY <1>1, <1>2 DEF Summed, Ever
<1>4. Ended(T) = T => Ended(S) = S
  <2>1. \A s \in S : \E t \in T : t.pending = s.pending
    BY <1>1 DEF Redrawn, Drawn
  <2>2. QED
    BY <2>1 DEF Ended
<1>5. Ended(T) = T => Current(T)
  BY <1>1, <1>2, <1>4 DEF Summed, Current
<1>6. QED
  BY <1>2, <1>3, <1>5 DEF Summed

\* Aggregation makes all sums current.
LEMMA AggregateSums ==
  ASSUME NEW S, Table(S), Rejoins(S), Ever(S)
  PROVE  Summed(AggregateSpanMetrics(S)) /\ Current(AggregateSpanMetrics(S))
<1>1. PICK T : T = AggregateSpanMetrics(S)
  OBVIOUS
<1>2. /\ Redrawn(T, S)
      /\ \A t \in T : \E s \in S :
           Drawn(t, s) /\ t.sum = IF CalculateMetrics(S)[s] = -1 THEN s.sum ELSE CalculateMetrics(S)[s]
  BY <1>1, AggregateRows
<1>3. \A t \in T : \E s \in S : t.id = s.id /\ t.sum = IF Due(S, s) = -1 THEN s.sum ELSE Due(S, s)
  BY <1>2, SubtreeMetrics DEF Drawn
<1>4. /\ Calling(T) = Calling(S) /\ \A a : Below(T, a) = Below(S, a) /\ Calls(T, a) = Calls(S, a)
      /\ Rejoins(T)
  BY <1>2, TreeSame
<1>5. ASSUME NEW t \in T, t.sum # -1 PROVE Below(T, t.id) \cap Calling(T) # {}
  <2>1. PICK s \in S : t.id = s.id /\ t.sum = IF Due(S, s) = -1 THEN s.sum ELSE Due(S, s)
    BY <1>3
  <2>2. CASE Calls(S, s.id) = {}
    BY <1>4, <1>5, <2>1, <2>2 DEF Due, Ever
  <2>3. CASE Calls(S, s.id) # {}
    BY <1>4, <2>1, <2>3 DEF Calls
  <2>4. QED
    BY <2>2, <2>3
<1>6. ASSUME NEW t \in T, Calls(T, t.id) # {} PROVE t.sum = SumOf(Calls(T, t.id))
  <2>1. PICK s \in S : t.id = s.id /\ t.sum = IF Due(S, s) = -1 THEN s.sum ELSE Due(S, s)
    BY <1>3
  <2>2. SumOf(Calls(S, s.id)) \in Nat
    BY CallsFinite
  <2>3. QED
    BY <1>4, <1>6, <2>1, <2>2 DEF Due
<1>7. QED
  BY <1>1, <1>4, <1>5, <1>6 DEF Summed, Ever, Current

\* From s one comes up to p, its parent in S, by the rows between them.
LEMMA ClimbBetween ==
  ASSUME NEW S, Table(S), Rejoins(S), NEW t \in S, t.parent # None,
         NEW T, Table(T), \A u \in T : u.id # t.id => u \in S \/ u.parent = Parent[u.id],
         \E n \in T : n.id = t.id /\ n.parent = Parent[t.id], Range(Path[t.id]) \subseteq Ids(T),
         NEW X, Rises(T, X), t.id \in X
  PROVE  t.parent \in X
<1> DEFINE m == Len(Path[t.id])
<1>1. Row(t) /\ t.id \in Spans /\ m \in Nat /\ m > 0 /\ Path[t.id][m] = t.id /\ DOMAIN Path[t.id] = 1..m
  BY PathOf DEF Table, Row
<1>2. PICK j \in 1..m : j < m /\ Path[t.id][j] = t.parent
  BY <1>1 DEF Row, Ahead
<1> DEFINE N == {n \in Nat : j <= m - n => Path[t.id][m - n] \in X}
<1>3. 0 \in N
  BY <1>1
<1>4. ASSUME NEW n \in Nat, n \in N PROVE n + 1 \in N
  <2> SUFFICES ASSUME j <= m - (n + 1) PROVE Path[t.id][m - (n + 1)] \in X
    OBVIOUS
  <2> DEFINE k == m - n
             a == Path[t.id][k]
  <2>1. k \in 1..m /\ j < k /\ k > 1 /\ m - (n + 1) = k - 1 /\ k - 1 \in 1..m
    BY <1>1, <1>2
  <2>2. a \in X
    BY <1>4, <2>1
  <2>3. a \in Spans /\ Path[t.id][k - 1] = Parent[a] /\ Parent[a] # None
    BY <1>1, <2>1, PathClimbs, TraceAssumption
  <2>4. a \in Range(Path[t.id])
    BY <1>1, <2>1 DEF Range
  <2> HIDE DEF a, k
  <2>5. PICK u \in T : u.id = a
    BY <2>4 DEF Ids
  <2>6. u.parent = Parent[a]
    <3>1. CASE a = t.id
      BY <2>5, <3>1 DEF Table, Unique
    <3>2. CASE a # t.id
      <4>1. k < m
        BY <1>1, <2>1, <3>2 DEF a
      <4>2. Between(u, t)
        BY <1>1, <1>2, <2>1, <2>5, <4>1 DEF Between, a
      <4>3. QED
        BY <2>5, <3>2, <4>2 DEF Rejoins
    <3>3. QED
      BY <3>1, <3>2
  <2>7. Parent[a] \in X
    BY <2>2, <2>3, <2>5, <2>6 DEF Rises
  <2>8. QED
    BY <2>1, <2>3, <2>7
<1>5. Nat \subseteq N
  <2> HIDE DEF N
  <2>1. N \subseteq Nat
    BY DEF N
  <2>2. QED
    BY <1>3, <1>4, SetInduction
<1>6. m - j \in Nat /\ m - (m - j) = j
  BY <1>1, <1>2
<1>7. m - j \in N
  <2> HIDE DEF N, m
  <2>1. QED
    BY <1>5, <1>6
<1>8. Path[t.id][m - (m - j)] \in X
  <2>1. j <= m - (m - j)
    BY <1>1, <1>2, <1>6
  <2>2. QED
    BY <1>7, <2>1
<1>9. QED
  BY <1>2, <1>6, <1>8

LEMMA UpdateSums ==
  ASSUME NEW S, Table(S), NEW s \in Spans, Rejoins(S), Ever(S)
  PROVE  Summed(UpdateSpans(S, s))
<1> DEFINE old  == {t \in S : t.id = s}
           open == \E t \in old : t.collapsed
           new  == [Real(s) EXCEPT !.collapsed = open]
           M    == (S \ old) \cup {new}
           T    == EnrichSpansWithPending(M)
<1>1. UpdateSpans(S, s) = AggregateSpanMetrics(T)
  BY DEF UpdateSpans
<1>2. PICK n : n = new
  OBVIOUS
<1>3. Row(n) /\ n.id = s /\ ~n.pending /\ n.parent = Parent[s] /\ n.sum = -1
  <2>1. PICK b \in BOOLEAN : b = open
    OBVIOUS
  <2> HIDE DEF open
  <2>2. QED
    BY <1>2, <2>1, RealRow
<1>4. \A t : t \in M <=> (t \in S /\ t.id # s) \/ t = n
  BY <1>2
<1> HIDE DEF M, new
<1>5. Table(M)
  BY <1>3, <1>4 DEF Table, Unique
<1>6. /\ \A t \in M : \E u \in T : u.id = t.id /\ u.parent = t.parent
      /\ \A t \in T : t.sum # -1 => \E r \in M : r.id = t.id /\ r.sum = t.sum
      /\ \A t \in T : t \in Ended(M) \/ (t.pending /\ t.parent = Parent[t.id])
      /\ Calling(T) = Calling(M)
  BY <1>5, EnrichDraws
<1>7. Table(T) /\ Ids(M) \subseteq Ids(T)
  BY <1>5, EnrichRows
<1>8. n.parent # None => Range(Path[s]) \subseteq Ids(T)
  <2>1. n \in Ended(M)
    BY <1>3, <1>4 DEF Ended
  <2>2. QED
    BY <1>3, <1>5, <2>1, EnrichFull
<1> HIDE DEF T
<1>9. \A t \in T : t \in S \/ t.parent = Parent[t.id]
  BY <1>3, <1>4, <1>6 DEF Ended
<1>10. Rejoins(T)
  <2> SUFFICES ASSUME NEW t \in T, NEW u \in T, Between(u, t) PROVE u.parent = Parent[u.id]
    BY DEF Rejoins
  <2>1. t \in S
    BY <1>7, <1>9, NobodyBetween DEF Table
  <2>2. QED
    BY <1>9, <2>1 DEF Rejoins
<1>11. ASSUME NEW X \in SUBSET Spans, Rises(T, X) PROVE Rises(S, X)
  <2> SUFFICES ASSUME NEW t \in S, t.id \in X, t.parent # None PROVE t.parent \in X
    BY DEF Rises
  <2>1. CASE t.id # s
    BY <1>4, <1>6, <1>11, <2>1 DEF Rises
  <2>2. CASE t.id = s
    <3>1. \E u \in T : u.id = t.id /\ u.parent = Parent[t.id]
      BY <1>3, <1>4, <1>6, <2>2
    <3>2. Parent[s] # None
      <4>1. Row(t)
        BY DEF Table
      <4>2. PICK k \in 1..Len(Path[s]) : k < Len(Path[s])
        BY <2>2, <4>1 DEF Row, Ahead
      <4>3. ASSUME Parent[s] = None PROVE FALSE
        <5>1. Path[s] = <<s>> /\ Len(<<s>>) = 1
          BY <4>3, PathOf
        <5>2. Len(Path[s]) = 1
          BY <5>1
        <5>3. QED
          BY <4>2, <5>2
      <4>4. QED
        BY <4>3
    <3>3. Range(Path[t.id]) \subseteq Ids(T)
      BY <1>3, <1>8, <2>2, <3>2
    <3>4. QED
      BY <1>7, <1>9, <1>11, <3>1, <3>3, ClimbBetween
  <2>3. QED
    BY <2>1, <2>2
<1>12. Ids(S) \subseteq Ids(T)
  BY <1>3, <1>4, <1>7 DEF Ids
<1>13. Calling(S) \subseteq Calling(T)
  <2> SUFFICES ASSUME NEW t \in S, t.type = "LLM" PROVE t.id \in Calling(M)
    BY <1>6 DEF Calling, Ids
  <2>1. CASE t.id # s
    BY <1>4, <2>1 DEF Calling, Ids
  <2>2. CASE t.id = s
    <3>1. Row(t)
      BY DEF Table
    <3>2. Tokens[s] > 0
      BY <2>2, <3>1 DEF Row, Described
    <3>3. n.type = "LLM"
      BY <1>3, <3>2 DEF Row, Described
    <3>4. QED
      BY <1>3, <1>4, <2>2, <3>3 DEF Calling, Ids
  <2>3. QED
    BY <2>1, <2>2
<1>14. \A t \in T : t.sum # -1 => \E r \in S : r.id = t.id /\ r.sum # -1
  BY <1>3, <1>4, <1>6
<1>15. Ever(T)
  BY <1>11, <1>12, <1>13, <1>14, EverKept
<1>16. QED
  BY <1>1, <1>7, <1>10, <1>15, AggregateSums DEF T

\* A response: no row of a search has another of its rows between itself and its
\* parent.
LEMMA ResponseSums ==
  ASSUME NEW search \in BOOLEAN, NEW within
  PROVE  Summed(GetTraceSpans(search, within))
<1> DEFINE all  == {Real(s) : s \in Stored}
           kept == {s \in Stored \cap within : search => s \in Matching}
           B    == IF search THEN TransformSpans(all, kept) ELSE {Real(s) : s \in kept}
<1>1. GetTraceSpans(search, within) = AggregateSpanMetrics(B)
  BY DEF GetTraceSpans
<1>2. Stored \in SUBSET Spans /\ kept \in SUBSET Stored /\ kept \in SUBSET Spans
  BY DEF Stored
<1> HIDE DEF kept
<1>3. Table(B) /\ (\A r \in B : r.sum = -1) /\ Rejoins(B)
  <2>1. CASE search
    <3>1. PICK c : c = CreateParentRewiring(all, kept)
      OBVIOUS
    <3>2. B = TransformSpans(all, kept)
      BY <2>1
    <3> HIDE DEF B
    <3>3. Table(B) /\ Ids(B) = kept /\ \A r \in B : r.sum = -1 /\ r.parent = c[r.id]
      <4>1. PICK stored \in SUBSET Spans : stored = Stored
        BY <1>2
      <4>2. /\ kept \in SUBSET stored
            /\ B = TransformSpans({Real(s) : s \in stored}, kept)
            /\ c = CreateParentRewiring({Real(s) : s \in stored}, kept)
        BY <1>2, <3>1, <3>2, <4>1
      <4>3. /\ Table(B) /\ Ids(B) = kept
            /\ \A r \in B : r.sum = -1 /\ r.parent = CreateParentRewiring({Real(s) : s \in stored}, kept)[r.id]
        BY <4>2, SearchRows
      <4>4. QED
        BY <4>2, <4>3
    <3>4. \A id \in kept : Ends(c, Stored, kept, id)
      BY <1>2, <3>1, SearchParents
    <3>5. ASSUME NEW t \in B, NEW u \in B, Between(u, t) PROVE FALSE
      <4>1. t.id \in kept /\ u.id \in kept /\ t.parent = c[t.id] /\ t.id \in Spans
        BY <1>2, <3>3 DEF Ids
      <4>2. PICK j, k \in 1..Len(Path[t.id]) :
              j < k /\ k < Len(Path[t.id]) /\ Path[t.id][j] = t.parent /\ Path[t.id][k] = u.id
        BY <3>5 DEF Between
      <4>3. Path[t.id][j] \in Spans /\ t.parent # None
        BY <4>1, <4>2, PathClimbs, TraceAssumption
      <4>4. PICK i : LastKept(Stored, kept, t.id, i) /\ t.parent = Path[t.id][i]
        BY <3>4, <4>1, <4>3 DEF Ends
      <4>5. i = j
        BY <4>1, <4>2, <4>4, PathLength DEF LastKept
      <4>6. QED
        BY <4>1, <4>2, <4>4, <4>5 DEF LastKept
    <3>6. QED
      BY <3>3, <3>5 DEF Rejoins
  <2>2. CASE ~search
    <3>1. B = {Real(s) : s \in kept}
      BY <2>2
    <3> HIDE DEF B
    <3>2. Table(B) /\ Plain(B) /\ Ended(B) = B /\ \A r \in B : r.sum = -1
      BY <1>2, <3>1, RealRows
    <3>3. QED
      BY <3>2, NobodyBetween DEF Rejoins, Table, Plain
  <2>3. QED
    BY <2>1, <2>2
<1> HIDE DEF B
<1>4. Ever(B)
  BY <1>3 DEF Ever
<1>5. QED
  BY <1>1, <1>3, <1>4, AggregateSums

----------------------------------------------------------------------------
(* The totals of the trace.                                               *)

\* The totals of a set of spans.
Counted(S) == [tokens |-> SumOf(S), start |-> FirstStart(S), end |-> LastEnd(S)]

LEMMA LastEndIn ==
  ASSUME NEW S \in SUBSET Spans
  PROVE  LastEnd(S) \in {End[s] : s \in S} \cup {0}
<1> DEFINE ends == {End[s] : s \in S}
           all  == ends \cup {0}
<1>1. all \in SUBSET Nat /\ all # {}
  <2>1. \A s \in Spans : End[s] \in Nat
    BY TraceAssumption
  <2>2. QED
    BY <2>1
<1>2. IsFiniteSet(all)
  <2>0. IsFiniteSet(S)
    BY FS_Subset, TraceAssumption
  <2>1. IsFiniteSet(ends)
    BY <2>0, FiniteImage
  <2> HIDE DEF ends
  <2>2. QED
    BY <2>1, FS_AddElement
<1> HIDE DEF all
<1>3. Max(all) \in all
  BY <1>1, <1>2, GreatestNat
<1>4. QED
  BY <1>3 DEF LastEnd, all

LEMMA OneMoreCounted ==
  ASSUME NEW S \in SUBSET Spans, S # {}, NEW s \in Spans \ S
  PROVE  Counted(S \cup {s}) = UpdateTrace(Counted(S), s)
<1> DEFINE R == S \cup {s}
<1>1. SumOf(R) = SumOf(S) + Tokens[s]
  <2>1. IsFiniteSet(S) /\ \A t \in R : Tokens[t] \in Nat
    BY FS_Subset, TraceAssumption
  <2>2. Total(Tokens, R) = Total(Tokens, S) + Tokens[s]
    BY <2>1, TotalAdd
  <2>3. QED
    BY <2>2 DEF SumOf, Total
<1>2. LastEnd(R) = Max({LastEnd(S), End[s]})
  <2>1. R \in SUBSET Spans /\ s \in R /\ End[s] \in Nat /\ \A t \in Spans : End[t] \in Nat
    BY TraceAssumption
  <2>2. LastEnd(R) \in Nat /\ \A t \in R : End[t] <= LastEnd(R)
    BY <2>1, LastEndType
  <2>3. LastEnd(S) \in Nat /\ \A t \in S : End[t] <= LastEnd(S)
    BY LastEndType
  <2>4. LastEnd(R) \in {End[t] : t \in R} \cup {0}
    BY <2>1, LastEndIn
  <2>5. LastEnd(S) \in {End[t] : t \in S} \cup {0}
    BY LastEndIn
  <2> DEFINE m == Max({LastEnd(S), End[s]})
  <2>6. m \in {LastEnd(S), End[s]} /\ LastEnd(S) <= m /\ End[s] <= m /\ m \in Nat
    <3>1. m \in Nat /\ LastEnd(S) <= m /\ End[s] <= m
      BY <2>1, <2>3, Later
    <3>2. m \in {LastEnd(S), End[s]}
      <4>1. IsFiniteSet({LastEnd(S), End[s]})
        <5>1. IsFiniteSet({LastEnd(S)} \cup {End[s]})
          BY FS_Singleton, FS_AddElement
        <5>2. {LastEnd(S)} \cup {End[s]} = {LastEnd(S), End[s]}
          OBVIOUS
        <5>3. QED
          BY <5>1, <5>2
      <4>2. QED
        BY <2>1, <2>3, <4>1, GreatestNat
    <3>3. QED
      BY <3>1, <3>2
  <2> HIDE DEF m
  <2>7. LastEnd(S) <= LastEnd(R)
    BY <2>1, <2>2, <2>3, <2>5
  <2>8. LastEnd(R) <= m
    BY <2>1, <2>2, <2>3, <2>4, <2>6
  <2>9. LastEnd(R) = m
    BY <2>1, <2>2, <2>3, <2>6, <2>7, <2>8
  <2>10. QED
    BY <2>9 DEF m
<1>3. FirstStart(R) = Min({FirstStart(S), Start[s]})
  <2>1. R \in SUBSET Spans /\ R # {} /\ s \in R /\ \A t \in Spans : Start[t] \in Nat
    BY TraceAssumption
  <2>2. FirstStart(R) \in {Start[t] : t \in R} /\ FirstStart(R) \in Nat /\ \A t \in R : FirstStart(R) <= Start[t]
    BY <2>1, FirstStartType
  <2>3. FirstStart(S) \in {Start[t] : t \in S} /\ FirstStart(S) \in Nat /\ \A t \in S : FirstStart(S) <= Start[t]
    BY FirstStartType
  <2>4. PICK m : m = Min({FirstStart(S), Start[s]})
    OBVIOUS
  <2>5. m \in {FirstStart(S), Start[s]} /\ m \in Nat /\ m <= FirstStart(S) /\ m <= Start[s]
    BY <2>1, <2>3, <2>4, Sooner
  <2>6. FirstStart(R) <= m
    BY <2>1, <2>2, <2>3, <2>5
  <2>7. m <= FirstStart(R)
    BY <2>1, <2>2, <2>3, <2>5
  <2>8. QED
    BY <2>2, <2>4, <2>5, <2>6, <2>7
<1>4. QED
  BY <1>1, <1>2, <1>3 DEF Counted, UpdateTrace

\* Unless an order of the two sources is named, the totals of the store, or those on
\* their way to it, count what was handled.
CountInv ==
  raced = "no" =>
    /\ trace # None => trace = Counted(Handled) /\ Handled # {}
    /\ traceRequest.phase = "answered" /\ traceRequest.row # None
         => traceRequest.row = Counted(Handled) /\ Handled # {}

LEMMA TraceRowCounted == ASSUME Handled = Stored PROVE TraceRow = Counted(Handled)
BY DEF TraceRow, Counted

LEMMA AllHandled ==
  ASSUME StreamInv, \A s \in Stored : stage[s] # "stored" /\ s \notin feed
  PROVE  Handled = Stored
BY DEF StreamInv, Handled, Stored

LEMMA CountOpens ==
  ASSUME Init
  PROVE  CountInv
<1>1. LiveInv
  BY Opens
<1>2. PICK stages \in [Spans -> {"running", "stored", "sent"}], isPage \in BOOLEAN, linked \in Spans \cup {None} :
        Open(stages, isPage, linked)
  BY DEF Init
<1>3. traceRequest.phase # "answered" /\ (trace # None => isPage /\ trace = TraceRow /\ Stored # {})
  BY <1>2 DEF Open
<1>4. ASSUME raced = "no", trace # None PROVE trace = Counted(Handled) /\ Handled # {}
  <2>1. \A s \in Stored : stage[s] # "stored" /\ s \notin feed
    BY <1>2, <1>3, <1>4 DEF Open, Stored
  <2>2. QED
    BY <1>1, <1>3, <1>4, <2>1, AllHandled, TraceRowCounted DEF LiveInv
<1>5. QED
  BY <1>3, <1>4 DEF CountInv

\* An event is counted once: no other event brought its span, and a row that was
\* on its way would have.
LEMMA EventCounts ==
  ASSUME LiveInv, CountInv, NEW s \in Spans, HandleEvent(s)
  PROVE  CountInv'
<1> SUFFICES ASSUME raced' = "no" PROVE /\ trace' # None => trace' = Counted(Handled)' /\ Handled' # {}
                                       /\ traceRequest'.phase # "answered"
  BY DEF CountInv
<1>1. raced = "no" /\ traceRequest.phase # "answered" /\ traceRequest' = traceRequest
  BY DEF HandleEvent
<1>2. Handled' = Handled \cup {s} /\ s \in Spans \ Handled /\ Handled \in SUBSET Spans
  BY DEF HandleEvent, LiveInv, StreamInv, Handled, Server
<1>3. trace' = IF trace = None THEN None ELSE UpdateTrace(trace, s)
  BY DEF HandleEvent
<1>4. Handled # {} => Counted(Handled)' = UpdateTrace(Counted(Handled), s)
  <2>1. Counted(Handled)' = Counted(Handled')
    OBVIOUS
  <2>2. Handled # {} => Counted(Handled \cup {s}) = UpdateTrace(Counted(Handled), s)
    BY <1>2, OneMoreCounted
  <2>3. QED
    BY <1>2, <2>1, <2>2
<1>5. QED
  BY <1>1, <1>2, <1>3, <1>4 DEF CountInv

LEMMA CountStep ==
  ASSUME LiveInv, CountInv, [Next]_vars
  PROVE  CountInv'
<1>1. ASSUME Handled' = Handled, UNCHANGED <<trace, traceRequest>>, raced' = "no" => raced = "no"
      PROVE  CountInv'
  BY <1>1 DEF CountInv
<1>2. ASSUME raced' # "no" PROVE CountInv'
  BY <1>2 DEF CountInv
<1>3. CASE UNCHANGED vars
  BY <1>1, <1>3 DEF vars, Handled
<1>4. ASSUME NEW s \in Spans, Ingest(s) PROVE CountInv'
  <2>1. Handled' = Handled
    BY <1>4 DEF LiveInv, StreamInv, Handled, Ingest, Stream
  <2>2. QED
    BY <1>1, <1>4, <2>1 DEF Ingest
<1>5. ASSUME NEW s \in Spans, Send(s) PROVE CountInv'
  <2>1. CASE connected
    <3>1. Handled' = Handled
      BY <1>5, <2>1 DEF LiveInv, StreamInv, Handled, Send, Reach
    <3>2. QED
      BY <1>1, <1>5, <2>1, <3>1 DEF Send, Reach
  <2>2. CASE ~connected
    BY <1>2, <1>5, <2>2 DEF Send, Reach
  <2>3. QED
    BY <2>1, <2>2
<1>6. ASSUME NEW s \in Spans, SendAgain(s) PROVE CountInv'
  BY <1>2, <1>6 DEF SendAgain, AtLeastTotal
<1>7. CASE Connect
  BY <1>1, <1>7 DEF Connect, Handled, Server
<1>8. CASE Disconnect
  <2>1. CASE feed = {}
    BY <1>1, <1>8, <2>1 DEF Disconnect, Handled, Server
  <2>2. CASE feed # {}
    BY <1>2, <1>8, <2>2 DEF Disconnect
  <2>3. QED
    BY <2>1, <2>2
<1>9. CASE AnswerTrace
  <2> SUFFICES ASSUME raced' = "no" PROVE CountInv'
    BY <1>2
  <2>1. raced = "no" /\ (\A s \in Stored : stage[s] # "stored" /\ s \notin feed) /\ trace' = trace
        /\ (traceRequest'.row # None => traceRequest'.row = TraceRow /\ Stored # {})
        /\ Handled' = Handled
    BY <1>9 DEF AnswerTrace, AtLeastTotal, Handled, Server, Stream
  <2>2. TraceRow = Counted(Handled) /\ Handled = Stored
    BY <2>1, AllHandled, TraceRowCounted DEF LiveInv
  <2>3. Counted(Handled)' = Counted(Handled)
    BY <2>1
  <2>4. QED
    BY <2>1, <2>2, <2>3 DEF CountInv
<1>10. CASE ShowTrace
  <2>1. /\ raced' = raced /\ Handled' = Handled
        /\ traceRequest.phase = "answered" /\ trace' = traceRequest.row /\ traceRequest'.phase # "answered"
    BY <1>10 DEF ShowTrace, Handled, Server, Stream
  <2>2. Counted(Handled)' = Counted(Handled)
    BY <2>1
  <2>3. QED
    BY <2>1, <2>2 DEF CountInv
<1>11. CASE TraceFails
  <2>1. raced' = raced /\ Handled' = Handled /\ trace' = trace /\ traceRequest'.phase # "answered"
    BY <1>11 DEF TraceFails, Handled, Server, Stream
  <2>2. Counted(Handled)' = Counted(Handled)
    BY <2>1
  <2>3. QED
    BY <2>1, <2>2 DEF CountInv
<1>12. ASSUME NEW search \in BOOLEAN, Ask(search) PROVE CountInv'
  BY <1>1, <1>12 DEF Ask, Handled, Server, Stream
<1>13. ASSUME NEW i \in DOMAIN requests, Answer(i) \/ ShowSpans(i) PROVE CountInv'
  BY <1>1, <1>13 DEF Answer, ShowSpans, Handled, Server, Stream
<1>14. ASSUME NEW i \in DOMAIN requests, SpansFail(i) PROVE CountInv'
  BY <1>2, <1>14 DEF SpansFail
<1>15. CASE ClosePanel \/ \E id \in Spans : SelectRow(id) \/ SelectSpanById(id) \/ ToggleCollapse(id)
  <2>1. UNCHANGED <<Server, Stream, trace, traceRequest, raced>>
    BY <1>15 DEF ClosePanel, SelectRow, SelectSpanById, ToggleCollapse
  <2>2. Handled' = Handled
    BY <2>1 DEF Handled, Server, Stream
  <2>3. QED
    BY <1>1, <2>1, <2>2
<1>16. QED
  BY <1>3, <1>4, <1>5, <1>6, <1>7, <1>8, <1>9, <1>10, <1>11, <1>12, <1>13, <1>14, <1>15, EventCounts DEF Next

\* In every order of requests and events but those raced names, the totals of the
\* trace in the store count each stored span once when nothing is on its way.
THEOREM TotalsExact == Spec => []TotalExact
<1>1. Init => CountInv
  BY CountOpens
<1>2. LiveInv /\ CountInv /\ [Next]_vars => CountInv'
  BY CountStep
<1>3. LiveInv /\ CountInv => TotalExact
  <2> SUFFICES ASSUME LiveInv, CountInv, Quiet, trace # None, raced = "no" PROVE trace = TraceRow
    BY DEF TotalExact
  <2>1. Handled = Stored
    BY AllHandled DEF Quiet, LiveInv, Stored
  <2>2. QED
    BY <2>1, TraceRowCounted DEF CountInv
<1>4. QED
  BY <1>1, <1>2, <1>3, Invariance, PTL DEF Spec

----------------------------------------------------------------------------
(* Sums and totals.                                                       *)

\* The rows of the store and those on their way to it have sums as they should be.
MetricInv ==
  /\ Summed(shown)
  /\ \A i \in DOMAIN requests : Answered(requests[i]) => Summed(requests[i].rows)

LEMMA NoSums == Summed({})
BY DEF Summed, Rejoins, Ever, Current

LEMMA MetricsOpen ==
  ASSUME Init
  PROVE  MetricInv
<1>1. PICK stages \in [Spans -> {"running", "stored", "sent"}], isPage \in BOOLEAN, linked \in Spans \cup {None} :
        Open(stages, isPage, linked)
  BY DEF Init
<1>2. PICK r : r = Asked(FALSE, trace, linked)
  OBVIOUS
<1>3. ~Answered(r)
  BY <1>2, RequestRecord
<1>4. requests = <<r>> /\ shown = {}
  BY <1>1, <1>2 DEF Open
<1>5. DOMAIN requests = {1} /\ requests[1] = r
  <2>1. DOMAIN <<r>> = 1..1 /\ 1..1 = {1} /\ <<r>>[1] = r
    OBVIOUS
  <2>2. QED
    BY <1>4, <2>1
<1>6. QED
  BY <1>3, <1>4, <1>5, NoSums DEF MetricInv

LEMMA EventSums ==
  ASSUME LiveInv, MetricInv, NEW s \in Spans, HandleEvent(s)
  PROVE  MetricInv'
<1>1. shown' = UpdateSpans(shown, s) /\ requests' = requests
  BY DEF HandleEvent
<1>2. Table(shown) /\ Rejoins(shown) /\ Ever(shown)
  BY DEF LiveInv, StoreInv, MetricInv, Summed
<1>3. Summed(shown')
  BY <1>1, <1>2, UpdateSums
<1>4. QED
  BY <1>1, <1>3 DEF MetricInv

LEMMA AskSums ==
  ASSUME LiveInv, MetricInv, NEW search \in BOOLEAN, Ask(search)
  PROVE  MetricInv'
<1>1. PICK r : r = Asked(search, trace, url)
  OBVIOUS
<1>2. ~Answered(r)
  BY <1>1, RequestRecord
<1>3. PICK n : n = Len(requests) + 1
  OBVIOUS
<1>4. /\ DOMAIN requests' = DOMAIN requests \cup {n} /\ requests'[n] = r
      /\ \A i \in DOMAIN requests : requests'[i] = requests[i]
  BY <1>1, <1>3, Appended DEF LiveInv, RequestsInv, Ask
<1>5. shown' = shown
  BY DEF Ask
<1>6. QED
  BY <1>2, <1>4, <1>5 DEF MetricInv

LEMMA AnswerSums ==
  ASSUME LiveInv, MetricInv, NEW i \in DOMAIN requests, Answer(i)
  PROVE  MetricInv'
<1>1. PICK r : r = requests[i]
  OBVIOUS
<1>2. Request(r, Stored) /\ r.search \in BOOLEAN /\ IsList(requests)
  BY <1>1 DEF LiveInv, RequestsInv, Request
<1>3. PICK rows : rows = GetTraceSpans(r.search, r.within)
  OBVIOUS
<1>4. /\ Response(rows, Stored)
      /\ r.search => Closed(rows)
      /\ ~r.search => Plain(rows)
  BY <1>2, <1>3, ResponseRows
<1>5. PICK a : a = [r EXCEPT !.phase = "answered", !.rows = rows]
  OBVIOUS
<1>6. requests' = [requests EXCEPT ![i] = a] /\ shown' = shown
  BY <1>1, <1>3, <1>5 DEF Answer
<1>7. a.rows = rows
  <2>1. Reply(a, r, rows)
    BY <1>5 DEF Reply
  <2>2. QED
    BY <1>2, <1>4, <2>1, AnsweredRecord
<1>8. /\ DOMAIN requests' = DOMAIN requests /\ requests'[i] = a
      /\ \A j \in DOMAIN requests : j # i => requests'[j] = requests[j]
  BY <1>2, <1>6, Replaced
<1>9. Summed(rows)
  BY <1>2, <1>3, ResponseSums
<1>10. QED
  BY <1>6, <1>7, <1>8, <1>9 DEF MetricInv

\* A request that is done brings nothing.
LEMMA DoneSums ==
  ASSUME LiveInv, MetricInv, NEW i \in DOMAIN requests, requests' = [requests EXCEPT ![i] = Done]
  PROVE  \A j \in DOMAIN requests' : Answered(requests'[j]) => Summed(requests'[j].rows)
<1>1. IsList(requests)
  BY DEF LiveInv, RequestsInv
<1>2. /\ DOMAIN requests' = DOMAIN requests /\ requests'[i] = Done
      /\ \A j \in DOMAIN requests : j # i => requests'[j] = requests[j]
  BY <1>1, Replaced
<1>3. QED
  BY <1>2, DoneRecord DEF MetricInv

LEMMA ShowSums ==
  ASSUME LiveInv, MetricInv, NEW i \in DOMAIN requests, ShowSpans(i)
  PROVE  MetricInv'
<1>1. PICK r : r = requests[i]
  OBVIOUS
<1>2. PICK R : R = r.rows
  OBVIOUS
<1>3. PICK rows : rows = IF r.search THEN R ELSE EnrichSpansWithPending(R)
  OBVIOUS
<1>4. /\ Answered(r)
      /\ requests' = [requests EXCEPT ![i] = Done]
      /\ shown' = {[s EXCEPT !.collapsed = FALSE] : s \in rows}
  BY <1>1, <1>2, <1>3 DEF ShowSpans, Answered
<1>5. Table(R) /\ Ended(R) = R /\ Summed(R) /\ r.search \in BOOLEAN
  BY <1>1, <1>2, <1>4 DEF LiveInv, RequestsInv, Request, Response, MetricInv
<1>6. Table(rows) /\ Summed(rows)
  <2>1. CASE r.search
    BY <1>3, <1>5, <2>1
  <2>2. CASE ~r.search
    <3>1. rows = EnrichSpansWithPending(R)
      BY <1>3, <2>2
    <3>2. Table(rows) /\ Ended(rows) = R
      BY <1>5, <3>1, EnrichRows
    <3>3. Rejoins(rows) /\ Ever(rows)
      BY <1>5, <3>1, EnrichSums DEF Summed
    <3>4. QED
      BY <1>5, <3>2, <3>3 DEF Summed
  <2>3. QED
    BY <1>5, <2>1, <2>2
<1>7. Opened(shown', rows)
  BY <1>4, <1>6, BranchesRedrawn
<1>8. Summed(shown')
  BY <1>6, <1>7, OpenedSums
<1>9. QED
  BY <1>4, <1>8, DoneSums DEF MetricInv

LEMMA MetricStep ==
  ASSUME LiveInv, MetricInv, [Next]_vars
  PROVE  MetricInv'
<1>1. ASSUME UNCHANGED <<shown, requests>> PROVE MetricInv'
  BY <1>1 DEF MetricInv
<1>2. ASSUME Opened(shown', shown), requests' = requests PROVE MetricInv'
  BY <1>2, OpenedSums DEF MetricInv, LiveInv, StoreInv
<1>3. CASE UNCHANGED vars
  BY <1>1, <1>3 DEF vars
<1>4. ASSUME NEW s \in Spans, Ingest(s) \/ Send(s) \/ SendAgain(s) PROVE MetricInv'
  BY <1>1, <1>4 DEF Ingest, Send, SendAgain
<1>5. CASE Connect \/ Disconnect \/ AnswerTrace \/ ShowTrace \/ TraceFails \/ ClosePanel
  BY <1>1, <1>5 DEF Connect, Disconnect, AnswerTrace, ShowTrace, TraceFails, ClosePanel
<1>6. ASSUME NEW i \in DOMAIN requests, SpansFail(i) PROVE MetricInv'
  <2>1. requests' = [requests EXCEPT ![i] = Done] /\ shown' = shown
    BY <1>6 DEF SpansFail
  <2>2. QED
    BY <2>1, DoneSums DEF MetricInv
<1>7. ASSUME NEW id \in Spans, SelectRow(id) PROVE MetricInv'
  BY <1>1, <1>7 DEF SelectRow
<1>8. ASSUME NEW id \in Spans, SelectSpanById(id) PROVE MetricInv'
  <2>1. PICK above : above = WithAncestors(shown, {id}) \ {id}
    OBVIOUS
  <2>2. /\ shown' = {IF s.id \in above THEN [s EXCEPT !.collapsed = FALSE] ELSE s : s \in shown}
        /\ requests' = requests
    BY <1>8, <2>1 DEF SelectSpanById
  <2>3. Table(shown)
    BY DEF LiveInv, StoreInv
  <2>4. Opened(shown', shown)
    BY <2>2, <2>3, BranchesRedrawn
  <2>5. QED
    BY <1>2, <2>2, <2>4
<1>9. ASSUME NEW id \in Spans, ToggleCollapse(id) PROVE MetricInv'
  <2>1. /\ shown' = {IF s.id = id THEN [s EXCEPT !.collapsed = ~s.collapsed] ELSE s : s \in shown}
        /\ requests' = requests
    BY <1>9 DEF ToggleCollapse
  <2>2. Table(shown)
    BY DEF LiveInv, StoreInv
  <2>3. Opened(shown', shown)
    BY <2>1, <2>2, BranchesRedrawn
  <2>4. QED
    BY <1>2, <2>1, <2>3
<1>10. QED
  BY <1>3, <1>4, <1>5, <1>6, <1>7, <1>8, <1>9, EventSums, AskSums, AnswerSums, ShowSums DEF Next

\* The rows of the definition of MetricsCurrent are those of Below and Calls.
LEMMA SumsCurrent ==
  ASSUME LiveInv, MetricInv
  PROVE  MetricsCurrent
<1> DEFINE below(s) == {t \in shown : s.id \in WithAncestors(shown, {t.id})}
           calls(s) == {t \in below(s) : t.type = "LLM" /\ \A u \in shown : u.parent # t.id}
<1>1. Table(shown) /\ Closed(shown) /\ Summed(shown)
  BY DEF LiveInv, StoreInv, MetricInv
<1> SUFFICES ASSUME \A s \in shown : ~s.pending, NEW s \in shown
             PROVE  IF calls(s) # {} THEN s.sum = RowTokens(calls(s))
                    ELSE s.sum = -1 \/ \E t \in below(s) : t.type = "LLM"
  BY DEF MetricsCurrent, RowTokens
<1>2. Ended(shown) = shown
  BY DEF Ended
<1>3. PICK under : under = below(s)
  OBVIOUS
<1>4. PICK called : called = calls(s)
  OBVIOUS
<1>5. \A t \in shown : t \in under <=> Over(shown, s.id, t.id)
  BY <1>1, <1>3, AllAncestors
<1>6. under \in SUBSET shown /\ called = {t \in under : t.type = "LLM" /\ \A u \in shown : u.parent # t.id}
  BY <1>3, <1>4
<1> HIDE DEF below, calls
<1>7. Ids(under) = Below(shown, s.id)
  BY <1>5, <1>6 DEF Ids, Below
<1>8. ASSUME NEW t \in shown, t.id \in Calling(shown) PROVE t.type = "LLM"
  BY <1>1, <1>8 DEF Calling, Ids, Table, Unique
<1>9. Ids(called) = Calls(shown, s.id)
  <2>1. ASSUME NEW t \in called PROVE t.id \in Calls(shown, s.id)
    BY <1>6, <1>7 DEF Calls, Calling, Ids
  <2>2. ASSUME NEW b \in Calls(shown, s.id) PROVE \E t \in called : t.id = b
    <3>1. b \in Ids(under) /\ b \in Calling(shown) /\ \A u \in shown : u.parent # b
      BY <1>7 DEF Calls
    <3>2. PICK t \in under : t.id = b
      BY <3>1 DEF Ids
    <3>3. QED
      BY <1>6, <1>8, <3>1, <3>2
  <2>3. QED
    BY <2>1, <2>2 DEF Ids
<1>10. CASE called # {}
  <2>1. Calls(shown, s.id) # {}
    BY <1>9, <1>10 DEF Ids
  <2>2. s.sum = SumOf(Calls(shown, s.id))
    BY <1>1, <1>2, <2>1 DEF Summed, Current
  <2>3. RowTokens(called) = SumOf(Ids(called))
    BY <1>1, <1>2, <1>6, RowTokensSum
  <2>4. QED
    BY <1>4, <1>9, <1>10, <2>2, <2>3
<1>11. CASE called = {}
  <2>1. ASSUME s.sum # -1 PROVE \E t \in under : t.type = "LLM"
    <3>1. PICK b : b \in Below(shown, s.id) /\ b \in Calling(shown)
      BY <1>1, <2>1 DEF Summed, Ever
    <3>2. PICK t \in under : t.id = b
      BY <1>7, <3>1 DEF Ids
    <3>3. QED
      BY <1>6, <1>8, <3>1, <3>2
  <2>2. QED
    BY <1>3, <1>4, <1>11, <2>1
<1>12. QED
  BY <1>10, <1>11

\* aggregateSpanMetrics, enrichSpansWithPending and onRealtimeUpdateSpans: in every
\* order of requests and events the sum on each row is that of the LLM rows at the
\* leaves below it, and but for the orders raced names the totals of the trace count
\* every stored span once.
THEOREM SumsAndTotals == Spec => []AddsUp
<1>1. Init => MetricInv
  BY MetricsOpen
<1>2. LiveInv /\ MetricInv /\ [Next]_vars => MetricInv'
  BY MetricStep
<1>3. LiveInv /\ MetricInv => MetricsCurrent
  BY SumsCurrent
<1>4. AddsUp <=> MetricsCurrent /\ TotalExact
  BY DEF AddsUp
<1>5. QED
  BY <1>1, <1>2, <1>3, <1>4, Invariance, TotalsExact, PTL DEF Spec

=============================================================================
