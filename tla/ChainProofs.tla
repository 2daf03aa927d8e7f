----------------------------- MODULE ChainProofs -----------------------------
(***************************************************************************)
(* What precedes what in an enriched graph, for any documents, any rows    *)
(* the joins of the linkers repeat, any order of rows that tie, any linker *)
(* that raises. A linker's rows are keyed by an instant of the entity and  *)
(* then by the entity's own number, so they are in a strict order; an      *)
(* entity's place in it is the key of its first row, and the same whatever *)
(* the group. Along the links of a group one therefore reaches all that is *)
(* placed later, and never, along whatever links there are, what is placed *)
(* sooner. The first part is about rows, the second about what the three   *)
(* linkers give, the last about what is left of it in the graph.           *)
(***************************************************************************)
EXTENDS EnrichmentProofs

\* A key of n columns, each a number.
IsKey(k, n) == Len(k) = n /\ \A i \in 1..n : k[i] \in Nat

\* No key is before itself.
LEMMA NotBeforeItself ==
  ASSUME NEW n \in Nat, NEW a, IsKey(a, n)
  PROVE  ~Before(a, a)
  <1> SUFFICES ASSUME NEW i \in 1..n, a[i] < a[i] PROVE FALSE
    BY DEF Before, IsKey
  <1> QED
    BY DEF IsKey

\* What is before a key is before all that the key is before.
LEMMA BeforeGoesOn ==
  ASSUME NEW n \in Nat, NEW a, NEW b, NEW c, IsKey(a, n), IsKey(b, n), IsKey(c, n),
         Before(a, b), Before(b, c)
  PROVE  Before(a, c)
  <1>0. Len(a) = n /\ Len(b) = n
    BY DEF IsKey
  <1>1. PICK i \in 1..n : a[i] < b[i] /\ \A j \in 1..(i - 1) : a[j] = b[j]
    BY <1>0 DEF Before
  <1>2. PICK k \in 1..n : b[k] < c[k] /\ \A j \in 1..(k - 1) : b[j] = c[j]
    BY <1>0 DEF Before
  <1>3. a[i] \in Nat /\ b[i] \in Nat /\ c[i] \in Nat /\ a[k] \in Nat /\ b[k] \in Nat /\ c[k] \in Nat
    BY DEF IsKey
  <1>4. CASE i <= k
    <2>1. a[i] < c[i]
      BY <1>1, <1>2, <1>3, <1>4
    <2>2. \A j \in 1..(i - 1) : a[j] = c[j]
      BY <1>1, <1>2, <1>4
    <2> QED
      BY <1>0, <2>1, <2>2 DEF Before
  <1>5. CASE k < i
    <2>1. a[k] < c[k]
      BY <1>1, <1>2, <1>3, <1>5
    <2>2. \A j \in 1..(k - 1) : a[j] = c[j]
      BY <1>1, <1>2, <1>5
    <2> QED
      BY <1>0, <2>1, <2>2 DEF Before
  <1> QED
    BY <1>4, <1>5

\* Of two keys that differ in a column one is before the other.
LEMMA OneIsBefore ==
  ASSUME NEW n \in Nat, NEW a, NEW b, IsKey(a, n), IsKey(b, n), NEW m \in 1..n, a[m] # b[m]
  PROVE  Before(a, b) \/ Before(b, a)
  <1> DEFINE S == {i \in 1..n : a[i] # b[i]}
  <1>0. S \subseteq Nat /\ S # {}
    OBVIOUS
  <1>1. PICK i \in S : \A j \in S : i <= j
    <2> HIDE DEF S
    <2> QED
      BY <1>0, LeastOfSome
  <1>2. i \in 1..n /\ a[i] # b[i] /\ \A j \in 1..(i - 1) : a[j] = b[j]
    BY <1>1
  <1> HIDE DEF S
  <1>3. a[i] < b[i] \/ b[i] < a[i]
    BY <1>2 DEF IsKey
  <1>4. Len(a) = n /\ Len(b) = n
    BY DEF IsKey
  <1> QED
    BY <1>2, <1>3, <1>4 DEF Before

\* An order of finitely many things has a least one.
LEMMA LeastByOrder ==
  ASSUME NEW B, IsFiniteSet(B), B # {}, NEW R, \A x \in B : <<x, x>> \notin R,
         \A x, y, z \in B : <<x, y>> \in R /\ <<y, z>> \in R => <<x, z>> \in R
  PROVE  \E m \in B : \A x \in B : <<x, m>> \notin R
  <1> DEFINE Below(x) == {y \in B : <<y, x>> \in R}
             S == {Cardinality(Below(x)) : x \in B}
  <1>1. \A x \in B : IsFiniteSet(Below(x)) /\ Cardinality(Below(x)) \in Nat
    <2> TAKE x \in B
    <2>1. Below(x) \in SUBSET B
      OBVIOUS
    <2> HIDE DEF Below
    <2> QED
      BY <2>1, FS_Subset, FS_CardinalityType
  <1> HIDE DEF Below
  <1>2. S \subseteq Nat /\ S # {}
    <2>1. \A k \in S : k \in Nat
      BY <1>1
    <2> QED
      BY <2>1
  <1>3. PICK n \in S : \A k \in S : n <= k
    <2> HIDE DEF S
    <2> QED
      BY <1>2, LeastOfSome
  <1>4. PICK m \in B : n = Cardinality(Below(m))
    OBVIOUS
  <1>5. ASSUME NEW x \in B, <<x, m>> \in R
        PROVE  FALSE
    <2>1. Below(x) \in SUBSET Below(m) /\ x \in Below(m) /\ x \notin Below(x)
      BY <1>5 DEF Below
    <2>2. n <= Cardinality(Below(x))
      BY <1>3
    <2> HIDE DEF S
    <2>3. Cardinality(Below(x)) <= Cardinality(Below(m))
      BY <1>1, <2>1, FS_Subset
    <2>4. Cardinality(Below(x)) = Cardinality(Below(m))
      BY <1>1, <1>4, <2>2, <2>3
    <2>5. Below(x) = Below(m)
      BY <1>1, <2>1, <2>4, FS_Subset
    <2> QED
      BY <2>1, <2>5
  <1> QED
    BY <1>5

\* Rows of entities of one kind, by keys that end in the entity's own number.
Orderly(rows, kind, n) ==
    /\ IsFiniteSet(rows) /\ n \in Nat \ {0}
    /\ \A r \in rows : IsKey(r.key, n) /\ r.entity \in UrisOf(kind) /\ r.key[n] = r.entity[2]

\* Two such rows are of one entity, or one is before the other.
LEMMA RowsAreOrdered ==
  ASSUME NEW rows, NEW kind, NEW n, Orderly(rows, kind, n), NEW r \in rows, NEW q \in rows,
         r.entity # q.entity
  PROVE  Before(r.key, q.key) \/ Before(q.key, r.key)
  <1>1. /\ IsKey(r.key, n) /\ r.entity \in UrisOf(kind) /\ r.key[n] = r.entity[2]
        /\ IsKey(q.key, n) /\ q.entity \in UrisOf(kind) /\ q.key[n] = q.entity[2]
        /\ n \in Nat /\ n \in 1..n
    BY DEF Orderly
  <1>2. r.entity[2] # q.entity[2]
    BY <1>1 DEF UrisOf
  <1> QED
    BY <1>1, <1>2, OneIsBefore

\* The order of the rows' keys, as a relation.
Earlier(rows) == {rq \in rows \X rows : Before(rq[1].key, rq[2].key)}
\* So a pair of rows is in it when the first one's key is before.
LEMMA EarlierIsBefore ==
  ASSUME NEW rows, NEW r \in rows, NEW q \in rows
  PROVE  <<r, q>> \in Earlier(rows) <=> Before(r.key, q.key)
  BY DEF Earlier

\* Of some rows there is one that none of them comes before, and one that comes
\* before none of them.
LEMMA SomeRowIsFirst ==
  ASSUME NEW rows, NEW kind, NEW n, Orderly(rows, kind, n), NEW B, B \subseteq rows, B # {}
  PROVE  /\ \E m \in B : \A x \in B : ~Before(x.key, m.key)
         /\ \E m \in B : \A x \in B : ~Before(m.key, x.key)
  <1> DEFINE Later == {rq \in rows \X rows : Before(rq[2].key, rq[1].key)}
  <1>1. IsFiniteSet(B) /\ n \in Nat
    BY FS_Subset DEF Orderly
  <1>2. \A r \in B : IsKey(r.key, n) /\ ~Before(r.key, r.key)
    BY <1>1, NotBeforeItself DEF Orderly
  <1>3. \A x, y, z \in B : Before(x.key, y.key) /\ Before(y.key, z.key) => Before(x.key, z.key)
    BY <1>1, <1>2, BeforeGoesOn
  <1>4. \A x, y \in B : <<x, y>> \in Earlier(rows) <=> Before(x.key, y.key)
    BY EarlierIsBefore
  <1>5. \A x, y \in B : <<x, y>> \in Later <=> Before(y.key, x.key)
    OBVIOUS
  <1> HIDE DEF Later
  <1>6. PICK m \in B : \A x \in B : <<x, m>> \notin Earlier(rows)
    <2>1. /\ \A x \in B : <<x, x>> \notin Earlier(rows)
          /\ \A x, y, z \in B : <<x, y>> \in Earlier(rows) /\ <<y, z>> \in Earlier(rows)
                                => <<x, z>> \in Earlier(rows)
      BY <1>2, <1>3, <1>4
    <2> QED
      BY <1>1, <2>1, LeastByOrder
  <1>7. PICK l \in B : \A x \in B : <<x, l>> \notin Later
    <2>1. /\ \A x \in B : <<x, x>> \notin Later
          /\ \A x, y, z \in B : <<x, y>> \in Later /\ <<y, z>> \in Later => <<x, z>> \in Later
      BY <1>2, <1>3, <1>5
    <2> QED
      BY <1>1, <2>1, LeastByOrder
  <1> QED
    BY <1>4, <1>5, <1>6, <1>7

\* Every entity of a partition has a first row there, no later than any of its rows.
LEMMA FirstRowThere ==
  ASSUME NEW rows, NEW kind, NEW n, Orderly(rows, kind, n), NEW r \in rows
  PROVE  \E q \in FirstRows(rows) : q.entity = r.entity /\ q.part = r.part
  <1> DEFINE B == {q \in rows : q.part = r.part /\ q.entity = r.entity}
  <1>1. B \subseteq rows /\ B # {}
    OBVIOUS
  <1>2. PICK m \in B : \A x \in B : ~Before(x.key, m.key)
    <2> HIDE DEF B
    <2> QED
      BY <1>1, SomeRowIsFirst
  <1> QED
    BY <1>2 DEF FirstRows

\* A link of a chain runs forward, from one entity's first row to another's.
LEMMA LinksRunForward ==
  ASSUME NEW rows, NEW pq \in sequence_within_partitions(rows)
  PROVE  /\ pq[1] \in FirstRows(rows) /\ pq[2] \in FirstRows(rows)
         /\ pq[1].part = pq[2].part /\ Before(pq[1].key, pq[2].key)
  BY DEF sequence_within_partitions, NextRows

\* Along the links of a partition, an entity leads to all whose first rows are later.
LEMMA LaterIsReached ==
  ASSUME NEW rows, NEW kind, NEW n, Orderly(rows, kind, n), NEW T,
         NEW x \in FirstRows(rows), NEW y \in FirstRows(rows),
         x.part = y.part, Before(x.key, y.key),
         \A pq \in sequence_within_partitions(rows) :
            pq[1].entity = x.entity \/ pq[1].entity \in T => pq[2].entity \in T
  PROVE  y.entity \in T
  <1> DEFINE F == FirstRows(rows)
             U == {s \in F : s.part = x.part /\ Before(x.key, s.key) /\ s.entity \notin T}
  <1> SUFFICES ASSUME y.entity \notin T PROVE FALSE
    OBVIOUS
  <1>0. F \subseteq rows /\ n \in Nat /\ \A r \in rows : IsKey(r.key, n)
    BY DEF FirstRows, Orderly
  <1>1. U \subseteq rows /\ U # {}
    BY <1>0
  <1>2. PICK s \in U : \A u \in U : ~Before(u.key, s.key)
    <2> HIDE DEF U
    <2> QED
      BY <1>1, SomeRowIsFirst
  <1> DEFINE V == {p \in F : /\ p.part = x.part /\ (p = x \/ Before(x.key, p.key))
                             /\ Before(p.key, s.key)}
  <1>3. V \subseteq rows /\ V # {}
    BY <1>0, <1>2
  <1>4. PICK p \in V : \A v \in V : ~Before(p.key, v.key)
    <2> HIDE DEF V
    <2> QED
      BY <1>3, SomeRowIsFirst
  <1>5. /\ s \in F /\ s.part = x.part /\ Before(x.key, s.key) /\ s.entity \notin T
        /\ p \in F /\ p.part = x.part /\ (p = x \/ Before(x.key, p.key)) /\ Before(p.key, s.key)
    BY <1>2, <1>4
  <1>6. p.entity = x.entity \/ p.entity \in T
    <2>1. p \notin U
      BY <1>2, <1>5
    <2> QED
      BY <1>5, <2>1
  <1>7. ASSUME NEW z \in F, z.part = p.part, Before(p.key, z.key), Before(z.key, s.key)
        PROVE  FALSE
    <2>1. Before(x.key, z.key)
      BY <1>0, <1>5, <1>7, BeforeGoesOn
    <2>2. z \in V
      BY <1>5, <1>7, <2>1
    <2> QED
      BY <1>4, <1>7, <2>2
  <1> HIDE DEF U, V
  <1>8. p.entity # s.entity
    BY <1>0, <1>5 DEF FirstRows
  <1>9. <<p, s>> \in NextRows(F)
    BY <1>5, <1>7 DEF NextRows
  <1>10. <<p, s>> \in sequence_within_partitions(rows)
    BY <1>8, <1>9 DEF sequence_within_partitions
  <1>11. <<p, s>>[1].entity = x.entity \/ <<p, s>>[1].entity \in T => <<p, s>>[2].entity \in T
    BY <1>10
  <1> QED
    BY <1>5, <1>6, <1>11

\* What a function makes of finitely many things is no more than they are.
LEMMA FiniteImage ==
  ASSUME NEW S, IsFiniteSet(S), NEW f
  PROVE  IsFiniteSet({f[x] : x \in S}) /\ Cardinality({f[x] : x \in S}) <= Cardinality(S)
  <1> DEFINE T == {f[x] : x \in S}
             g == [x \in S |-> f[x]]
  <1>1. g \in Surjection(S, T)
    BY DEF Surjection
  <1> QED
    BY <1>1, FS_Surjection

\* What is reached goes on along the relation.
LEMMA ReachGoesOn ==
  ASSUME NEW R, NEW a, IsFiniteSet(R), NEW r \in R, r[1] = a \/ r[1] \in Reach(R, a)
  PROVE  r[2] \in Reach(R, a)
  <1> DEFINE N == Cardinality(R)
             to == {q[2] : q \in R}
  <1>0. N \in Nat
    BY FS_CardinalityType
  <1>1. PICK f : Climbs(R, a, N, f) /\ Reach(R, a) = f[N]
    BY ReachIsClimbed
  <1>2. IsFiniteSet(to) /\ Cardinality(to) <= N
    <2> DEFINE f2 == [q \in R |-> q[2]]
    <2>1. to = {f2[q] : q \in R}
      OBVIOUS
    <2> HIDE DEF f2
    <2>2. /\ IsFiniteSet({f2[q] : q \in R})
          /\ Cardinality({f2[q] : q \in R}) <= Cardinality(R)
      BY FiniteImage
    <2> QED
      BY <2>1, <2>2
  <1> HIDE DEF N
  <1>3. \A ns : OneStep(R, ns) \subseteq to
    BY DEF OneStep
  <1>4. f[0] = OneStep(R, {a}) /\ \A k \in 1..N : f[k] = f[k - 1] \cup OneStep(R, f[k - 1])
    BY <1>0, <1>1, ClimbStarts, ClimbGoesOn
  <1>5. \A k \in 0..N : f[k] \subseteq to
    <2> DEFINE S == {k \in 0..N : ~(f[k] \subseteq to)}
    <2> SUFFICES ASSUME S # {} PROVE FALSE
      OBVIOUS
    <2>1. S \subseteq Nat
      BY <1>0
    <2>2. PICK k \in S : \A m \in S : k <= m
      <3> HIDE DEF S
      <3> QED
        BY <2>1, LeastOfSome
    <2>3. CASE k = 0
      BY <1>3, <1>4, <2>2, <2>3
    <2>4. CASE k # 0
      <3>1. k \in 1..N /\ k - 1 \in 0..N /\ k - 1 \notin S
        BY <1>0, <2>2, <2>4
      <3> QED
        BY <1>3, <1>4, <2>2, <3>1
    <2> QED
      BY <2>3, <2>4
  <1> HIDE DEF to
  <1>6. \A k \in 0..N : IsFiniteSet(f[k]) /\ Cardinality(f[k]) \in Nat /\ Cardinality(f[k]) <= Cardinality(to)
    BY <1>2, <1>5, FS_Subset, FS_CardinalityType
  <1>7. Cardinality(to) \in Nat
    BY <1>2, FS_CardinalityType
  <1> DEFINE Ends(k) == OneStep(R, f[k]) \subseteq f[k]
             S == {k \in 0..N : Ends(k) \/ Cardinality(f[k]) <= k}
  <1>8. N \in S /\ S \subseteq Nat
    BY <1>0, <1>2, <1>6, <1>7
  <1>9. PICK k \in S : \A m \in S : k <= m
    <2> HIDE DEF S
    <2> QED
      BY <1>8, LeastOfSome
  <1>10. k \in 0..N
    OBVIOUS
  <1>11. Ends(k)
    <2>1. CASE k = 0
      <3>1. Ends(k) \/ f[k] = {}
        <4>1. Ends(k) \/ Cardinality(f[k]) = 0
          BY <1>6, <2>1
        <4> QED
          BY <1>6, <1>10, <4>1, FS_EmptySet
      <3> QED
        BY <3>1 DEF OneStep
    <2>2. CASE k # 0
      <3>1. k \in 1..N /\ k - 1 \in 0..N /\ k - 1 \notin S
        BY <1>0, <1>9, <2>2
      <3>2. ~Ends(k - 1) /\ ~(Cardinality(f[k - 1]) <= k - 1)
        BY <3>1
      <3>3. f[k] = f[k - 1] \cup OneStep(R, f[k - 1])
        BY <1>4, <3>1
      <3>4. f[k - 1] \in SUBSET f[k] /\ f[k - 1] # f[k]
        BY <3>2, <3>3
      <3>5. Cardinality(f[k - 1]) <= Cardinality(f[k]) /\ Cardinality(f[k - 1]) # Cardinality(f[k])
        BY <1>6, <1>10, <3>4, FS_Subset
      <3>6. ~(Cardinality(f[k]) <= k)
        BY <1>6, <1>10, <3>1, <3>2, <3>5
      <3> QED
        BY <3>6
    <2> QED
      BY <2>1, <2>2
  <1> HIDE DEF S
  <1>12. f[N] \subseteq f[k]
    <2> DEFINE X == {m \in k..N : ~(f[m] \subseteq f[k])}
    <2> SUFFICES ASSUME X # {} PROVE FALSE
      BY <1>0, <1>10
    <2>1. X \subseteq Nat
      BY <1>0, <1>10
    <2>2. PICK m \in X : \A j \in X : m <= j
      <3> HIDE DEF X
      <3> QED
        BY <2>1, LeastOfSome
    <2>3. m # k /\ m \in 1..N /\ m - 1 \in k..N
      BY <1>0, <1>10, <2>2
    <2>4. f[m - 1] \subseteq f[k]
      BY <2>2, <2>3
    <2>5. f[m] \subseteq f[k]
      <3>1. OneStep(R, f[m - 1]) \subseteq OneStep(R, f[k])
        BY <2>4 DEF OneStep
      <3> QED
        BY <1>4, <1>11, <2>3, <2>4, <3>1
    <2> QED
      BY <2>2, <2>5
  <1>13. f[0] \subseteq f[N] /\ f[k] \subseteq f[N]
    BY <1>0, <1>1, <1>10, ClimbGrows
  <1>14. CASE r[1] = a
    BY <1>1, <1>4, <1>13, <1>14 DEF OneStep
  <1>15. CASE r[1] \in Reach(R, a)
    <2>1. r[2] \in OneStep(R, f[k])
      BY <1>1, <1>12, <1>15 DEF OneStep
    <2> QED
      BY <1>1, <1>11, <1>13, <2>1
  <1> QED
    BY <1>14, <1>15

\* What is reached is in any set that the relation does not leave.
LEMMA ReachStaysIn ==
  ASSUME NEW R, NEW a, IsFiniteSet(R), NEW T, \A r \in R : r[1] = a \/ r[1] \in T => r[2] \in T
  PROVE  Reach(R, a) \subseteq T
  <1> DEFINE N == Cardinality(R)
  <1>0. N \in Nat
    BY FS_CardinalityType
  <1>1. PICK f : Climbs(R, a, N, f) /\ Reach(R, a) = f[N]
    BY ReachIsClimbed
  <1> HIDE DEF N
  <1>2. f[0] = OneStep(R, {a}) /\ \A k \in 1..N : f[k] = f[k - 1] \cup OneStep(R, f[k - 1])
    BY <1>0, <1>1, ClimbStarts, ClimbGoesOn
  <1> DEFINE S == {k \in 0..N : ~(f[k] \subseteq T)}
  <1> SUFFICES ASSUME S # {} PROVE FALSE
    BY <1>0, <1>1
  <1>3. S \subseteq Nat
    BY <1>0
  <1>4. PICK k \in S : \A m \in S : k <= m
    <2> HIDE DEF S
    <2> QED
      BY <1>3, LeastOfSome
  <1>5. CASE k = 0
    BY <1>2, <1>4, <1>5 DEF OneStep
  <1>6. CASE k # 0
    <2>1. k \in 1..N /\ k - 1 \in 0..N /\ k - 1 \notin S
      BY <1>0, <1>4, <1>6
    <2>2. f[k - 1] \subseteq T
      BY <2>1
    <2>3. OneStep(R, f[k - 1]) \subseteq T
      BY <2>2 DEF OneStep
    <2> QED
      BY <1>2, <1>4, <2>1, <2>2, <2>3
  <1> QED
    BY <1>5, <1>6

\* What is dated: D has <<entity, instant>>, an instant a key of m columns, and
\* a row's key is an instant of its entity and then the entity's own number.
Stamps(k, v, m) == \A i \in 1..m : v[i] = k[i]
Instant(D, m) == m \in Nat /\ \A x \in D : IsKey(x[2], m)
Strand(rows, kind, m, D) ==
    /\ Orderly(rows, kind, m + 1)
    /\ \A r \in rows : \E k : <<r.entity, k>> \in D /\ Stamps(k, r.key, m)
    /\ \A r \in rows : \A x \in D : x[1] = r.entity =>
          \E q \in rows : q.entity = r.entity /\ q.part = r.part /\ Stamps(x[2], q.key, m)

\* An entity's earliest instant, its place among all, and what is placed before what.
Earliest(D, e, k) == <<e, k>> \in D /\ \A x \in D : x[1] = e => ~Before(x[2], k)
Place(D, m, e, v) ==
    /\ IsKey(v, m + 1) /\ v[m + 1] = e[2]
    /\ \E k : Earliest(D, e, k) /\ Stamps(k, v, m)
Sooner(D, m, a, b) == \E v, w : Place(D, m, a, v) /\ Place(D, m, b, w) /\ Before(v, w)

\* Keys that begin alike are in order when their beginnings are.
LEMMA StampedInOrder ==
  ASSUME NEW m \in Nat, NEW k, NEW l, IsKey(k, m), IsKey(l, m), NEW v, NEW w, IsKey(v, m + 1),
         Stamps(k, v, m), Stamps(l, w, m), Before(k, l)
  PROVE  Before(v, w)
  <1>1. PICK i \in 1..m : k[i] < l[i] /\ \A j \in 1..(i - 1) : k[j] = l[j]
    BY DEF Before, IsKey
  <1>2. v[i] < w[i] /\ \A j \in 1..(i - 1) : v[j] = w[j]
    BY <1>1 DEF Stamps
  <1>3. i \in 1..Len(v)
    BY DEF IsKey
  <1> QED
    BY <1>2, <1>3 DEF Before

\* An entity has one place.
LEMMA PlaceIsOne ==
  ASSUME NEW D, NEW m, Instant(D, m), NEW e, NEW v, NEW w, Place(D, m, e, v), Place(D, m, e, w)
  PROVE  Stamps(v, w, m + 1)
  <1>0. m \in Nat /\ IsKey(v, m + 1) /\ IsKey(w, m + 1)
    BY DEF Instant, Place
  <1>1. PICK k : Earliest(D, e, k) /\ Stamps(k, v, m)
    BY DEF Place
  <1>2. PICK l : Earliest(D, e, l) /\ Stamps(l, w, m)
    BY DEF Place
  <1>3. /\ <<e, k>> \in D /\ <<e, k>>[1] = e /\ <<e, k>>[2] = k
        /\ <<e, l>> \in D /\ <<e, l>>[1] = e /\ <<e, l>>[2] = l
    BY <1>1, <1>2 DEF Earliest
  <1>4. IsKey(k, m) /\ IsKey(l, m)
    BY <1>3 DEF Instant
  <1>5. ~Before(k, l) /\ ~Before(l, k)
    BY <1>1, <1>2, <1>3 DEF Earliest
  <1>6. \A i \in 1..m : k[i] = l[i]
    BY <1>0, <1>4, <1>5, OneIsBefore
  <1>7. v[m + 1] = w[m + 1]
    BY DEF Place
  <1> QED
    BY <1>0, <1>1, <1>2, <1>6, <1>7 DEF Stamps

\* Alike keys are before the same keys.
LEMMA AlikeBefore ==
  ASSUME NEW n \in Nat, NEW u, NEW v, NEW w, IsKey(u, n), IsKey(v, n), IsKey(w, n), Stamps(u, v, n), Before(u, w)
  PROVE  Before(v, w)
  <1>1. PICK i \in 1..n : u[i] < w[i] /\ \A j \in 1..(i - 1) : u[j] = w[j]
    BY DEF Before, IsKey
  <1>2. v[i] < w[i] /\ \A j \in 1..(i - 1) : v[j] = w[j]
    BY <1>1 DEF Stamps
  <1> QED
    BY <1>2 DEF Before, IsKey

\* What is placed before another is placed before all that the other is before.
LEMMA SoonerGoesOn ==
  ASSUME NEW D, NEW m, Instant(D, m), NEW a, NEW b, NEW c, Sooner(D, m, a, b), Sooner(D, m, b, c)
  PROVE  Sooner(D, m, a, c)
  <1>0. m + 1 \in Nat
    BY DEF Instant
  <1>1. PICK u, v : Place(D, m, a, u) /\ Place(D, m, b, v) /\ Before(u, v)
    BY DEF Sooner
  <1>2. PICK w, x : Place(D, m, b, w) /\ Place(D, m, c, x) /\ Before(w, x)
    BY DEF Sooner
  <1>3. IsKey(u, m + 1) /\ IsKey(v, m + 1) /\ IsKey(w, m + 1) /\ IsKey(x, m + 1)
    BY <1>1, <1>2 DEF Place
  <1>4. Stamps(w, v, m + 1)
    BY <1>1, <1>2, PlaceIsOne
  <1>5. Before(v, x)
    BY <1>0, <1>2, <1>3, <1>4, AlikeBefore
  <1>6. Before(u, x)
    BY <1>0, <1>1, <1>3, <1>5, BeforeGoesOn
  <1> QED
    BY <1>1, <1>2, <1>6 DEF Sooner

\* Nothing is placed before itself.
LEMMA NeverSooner ==
  ASSUME NEW D, NEW m, Instant(D, m), NEW a
  PROVE  ~Sooner(D, m, a, a)
  <1> SUFFICES ASSUME Sooner(D, m, a, a) PROVE FALSE
    OBVIOUS
  <1>0. m + 1 \in Nat
    BY DEF Instant
  <1>1. PICK u, v : Place(D, m, a, u) /\ Place(D, m, a, v) /\ Before(u, v)
    BY DEF Sooner
  <1>2. IsKey(u, m + 1) /\ IsKey(v, m + 1)
    BY <1>1 DEF Place
  <1>3. Stamps(u, v, m + 1)
    BY <1>1, PlaceIsOne
  <1>4. Before(v, v)
    BY <1>0, <1>1, <1>2, <1>3, AlikeBefore
  <1> QED
    BY <1>0, <1>2, <1>4, NotBeforeItself

\* The key of an entity's first row is the entity's place.
LEMMA FirstRowIsItsPlace ==
  ASSUME NEW D, NEW m, Instant(D, m), NEW rows, NEW kind, Strand(rows, kind, m, D),
         NEW r \in FirstRows(rows)
  PROVE  Place(D, m, r.entity, r.key)
  <1>1. r \in rows /\ m \in Nat
    BY DEF FirstRows, Instant
  <1>2. IsKey(r.key, m + 1) /\ r.key[m + 1] = r.entity[2]
    BY <1>1 DEF Strand, Orderly
  <1>3. PICK k : <<r.entity, k>> \in D /\ Stamps(k, r.key, m)
    BY <1>1 DEF Strand
  <1>4. ASSUME NEW x \in D, x[1] = r.entity, Before(x[2], k)
        PROVE  FALSE
    <2>1. PICK q \in rows : q.entity = r.entity /\ q.part = r.part /\ Stamps(x[2], q.key, m)
      BY <1>1, <1>4 DEF Strand
    <2>2. IsKey(q.key, m + 1)
      BY DEF Strand, Orderly
    <2>3. IsKey(x[2], m) /\ IsKey(k, m)
      <3>1. <<r.entity, k>>[2] = k
        OBVIOUS
      <3> QED
        BY <1>3, <3>1 DEF Instant
    <2>4. Before(q.key, r.key)
      BY <1>1, <1>3, <1>4, <2>1, <2>2, <2>3, StampedInOrder
    <2> QED
      BY <2>1, <2>4 DEF FirstRows
  <1>5. Earliest(D, r.entity, k)
    BY <1>3, <1>4 DEF Earliest
  <1> QED
    BY <1>2, <1>3, <1>5 DEF Place

\* A link of a chain is from what is placed sooner.
LEMMA LinkedIsSooner ==
  ASSUME NEW D, NEW m, Instant(D, m), NEW rows, NEW kind, Strand(rows, kind, m, D),
         NEW pq \in sequence_within_partitions(rows)
  PROVE  Sooner(D, m, pq[1].entity, pq[2].entity)
  BY LinksRunForward, FirstRowIsItsPlace DEF Sooner

\* The edges of a chain among entities of a kind, all of them sooner to later.
InTime(chain, kind, m, D) ==
    \A r \in chain : r[1] \in UrisOf(kind) => r[2] \in UrisOf(kind) /\ Sooner(D, m, r[1], r[2])

\* So nothing reaches what is placed before it.
LEMMA ReachesLater ==
  ASSUME NEW D, NEW m, Instant(D, m), NEW kind, NEW chain, IsFiniteSet(chain),
         InTime(chain, kind, m, D), NEW a \in UrisOf(kind), NEW b \in Reach(chain, a)
  PROVE  Sooner(D, m, a, b)
  <1> DEFINE T == {x \in UrisOf(kind) : Sooner(D, m, a, x)}
  <1>1. ASSUME NEW r \in chain, r[1] = a \/ r[1] \in T
        PROVE  r[2] \in T
    <2>1. r[1] \in UrisOf(kind)
      BY <1>1
    <2>2. r[2] \in UrisOf(kind) /\ Sooner(D, m, r[1], r[2])
      BY <2>1 DEF InTime
    <2>3. Sooner(D, m, a, r[2])
      BY <1>1, <2>2, SoonerGoesOn
    <2> QED
      BY <2>2, <2>3
  <1> HIDE DEF T
  <1>2. Reach(chain, a) \subseteq T
    BY <1>1, ReachStaysIn
  <1> QED
    BY <1>2 DEF T

\* Of two entities of a partition one reaches the other, and is not reached.
LEMMA OneReachesTheOther ==
  ASSUME NEW D, NEW m, Instant(D, m), NEW kind, NEW chain, IsFiniteSet(chain),
         InTime(chain, kind, m, D), NEW rows, Strand(rows, kind, m, D),
         \A pq \in sequence_within_partitions(rows) : <<pq[1].entity, pq[2].entity>> \in chain,
         NEW x \in FirstRows(rows), NEW y \in FirstRows(rows), x.part = y.part, Before(x.key, y.key)
  PROVE  y.entity \in Reach(chain, x.entity) /\ x.entity \notin Reach(chain, y.entity)
  <1>0. Orderly(rows, kind, m + 1) /\ x \in rows /\ y \in rows
    BY DEF Strand, FirstRows
  <1>1. ASSUME NEW pq \in sequence_within_partitions(rows),
               pq[1].entity = x.entity \/ pq[1].entity \in Reach(chain, x.entity)
        PROVE  pq[2].entity \in Reach(chain, x.entity)
    <2>1. PICK r \in chain : r[1] = pq[1].entity /\ r[2] = pq[2].entity
      <3>1. <<pq[1].entity, pq[2].entity>> \in chain
        OBVIOUS
      <3>2. <<pq[1].entity, pq[2].entity>>[1] = pq[1].entity /\ <<pq[1].entity, pq[2].entity>>[2] = pq[2].entity
        OBVIOUS
      <3> QED
        BY <3>1, <3>2
    <2>2. r[2] \in Reach(chain, x.entity)
      BY <1>1, <2>1, ReachGoesOn
    <2> QED
      BY <2>1, <2>2
  <1>2. y.entity \in Reach(chain, x.entity)
    BY <1>0, <1>1, LaterIsReached
  <1>3. x.entity \in UrisOf(kind) /\ y.entity \in UrisOf(kind)
    BY <1>0 DEF Orderly
  <1>4. ASSUME x.entity \in Reach(chain, y.entity)
        PROVE  FALSE
    <2>1. Sooner(D, m, x.entity, y.entity) /\ Sooner(D, m, y.entity, x.entity)
      BY <1>2, <1>3, <1>4, ReachesLater
    <2> QED
      BY <2>1, SoonerGoesOn, NeverSooner
  <1> QED
    BY <1>2, <1>4

\* Two entities of a partition are in one order by the chain, and in only one.
LEMMA ChainIsTotal ==
  ASSUME NEW D, NEW m, Instant(D, m), NEW kind, NEW chain, IsFiniteSet(chain),
         InTime(chain, kind, m, D), NEW rows, Strand(rows, kind, m, D),
         \A pq \in sequence_within_partitions(rows) : <<pq[1].entity, pq[2].entity>> \in chain,
         NEW r \in rows, NEW q \in rows, r.part = q.part, r.entity # q.entity
  PROVE  (q.entity \in Reach(chain, r.entity)) # (r.entity \in Reach(chain, q.entity))
  <1>0. Orderly(rows, kind, m + 1)
    BY DEF Strand
  <1>1. PICK x \in FirstRows(rows) : x.entity = r.entity /\ x.part = r.part
    BY <1>0, FirstRowThere
  <1>2. PICK y \in FirstRows(rows) : y.entity = q.entity /\ y.part = q.part
    BY <1>0, FirstRowThere
  <1>3. x \in rows /\ y \in rows
    BY DEF FirstRows
  <1>4. Before(x.key, y.key) \/ Before(y.key, x.key)
    BY <1>0, <1>1, <1>2, <1>3, RowsAreOrdered
  <1>5. CASE Before(x.key, y.key)
    <2>1. y.entity \in Reach(chain, x.entity) /\ x.entity \notin Reach(chain, y.entity)
      BY <1>1, <1>2, <1>5, OneReachesTheOther
    <2> QED
      BY <1>1, <1>2, <2>1
  <1>6. CASE Before(y.key, x.key)
    <2>1. x.entity \in Reach(chain, y.entity) /\ y.entity \notin Reach(chain, x.entity)
      BY <1>1, <1>2, <1>6, OneReachesTheOther
    <2> QED
      BY <1>1, <1>2, <2>1
  <1> QED
    BY <1>4, <1>5, <1>6

\* A link does not run back in time: the earliest instant of what it leads to
\* is not before that of what it leads from.
LEMMA LinkedIsNotEarlier ==
  ASSUME NEW D, NEW m, Instant(D, m), NEW a, NEW b, Sooner(D, m, a, b),
         NEW k, NEW l, Earliest(D, a, k), Earliest(D, b, l)
  PROVE  ~Before(l, k)
  <1> SUFFICES ASSUME Before(l, k) PROVE FALSE
    OBVIOUS
  <1>0. m \in Nat
    BY DEF Instant
  <1>1. PICK v, w : Place(D, m, a, v) /\ Place(D, m, b, w) /\ Before(v, w)
    BY DEF Sooner
  <1>2. PICK i : Earliest(D, a, i) /\ Stamps(i, v, m)
    BY <1>1 DEF Place
  <1>3. PICK j : Earliest(D, b, j) /\ Stamps(j, w, m)
    BY <1>1 DEF Place
  <1>4. \A e, x : Earliest(D, e, x) => IsKey(x, m)
    <2> TAKE e, x
    <2>1. <<e, x>>[2] = x
      OBVIOUS
    <2> QED
      BY <2>1 DEF Earliest, Instant
  <1>5. \A e, x, y : Earliest(D, e, x) /\ Earliest(D, e, y) => Stamps(x, y, m)
    <2> SUFFICES ASSUME NEW e, NEW x, NEW y, Earliest(D, e, x), Earliest(D, e, y)
                 PROVE  Stamps(x, y, m)
      OBVIOUS
    <2>1. <<e, x>>[1] = e /\ <<e, x>>[2] = x /\ <<e, y>>[1] = e /\ <<e, y>>[2] = y
      OBVIOUS
    <2>2. ~Before(x, y) /\ ~Before(y, x)
      BY <2>1 DEF Earliest
    <2>3. IsKey(x, m) /\ IsKey(y, m)
      BY <1>4
    <2>4. \A c \in 1..m : x[c] = y[c]
      BY <1>0, <2>2, <2>3, OneIsBefore
    <2> QED
      BY <2>4 DEF Stamps
  <1>6. Stamps(k, v, m) /\ Stamps(l, w, m)
    <2>1. Stamps(k, i, m) /\ Stamps(l, j, m)
      BY <1>2, <1>3, <1>5
    <2> QED
      BY <1>2, <1>3, <2>1 DEF Stamps
  <1>7. IsKey(v, m + 1) /\ IsKey(w, m + 1) /\ IsKey(k, m) /\ IsKey(l, m) /\ m + 1 \in Nat
    BY <1>0, <1>1, <1>4 DEF Place
  <1>8. Before(w, v)
    BY <1>0, <1>6, <1>7, StampedInOrder
  <1>9. Before(v, v)
    BY <1>1, <1>7, <1>8, BeforeGoesOn
  <1> QED
    BY <1>7, <1>9, NotBeforeItself

\* What the chains are drawn from is of one namespace each, and in numbers.
SecFacts == {"hasReportingOwner", "hasIssuer", "hasPeriodOfReport", "hasDateValue"}
ChainFact(t) ==
    /\ KindOf(t[1]) # "date"
    /\ t[2] \in SecFacts => KindOf(t[1]) \in SecKinds
    /\ t[2] \in {"hasReportingOwner", "hasIssuer"} => t[1] \in UrisOf("filing")
    /\ t[2] = "symbol" => t[1] \in UrisOf("quote")
    /\ t[2] = "hasInfo" => t[1] \in UrisOf("alert")
    /\ t[2] \in {"captureTime", "hasSentTime"} => KindOf(t[3]) = "time" /\ t[3][2] \in Nat
    /\ t[2] \in {"hasPeriodOfReport", "hasDateValue"} /\ KindOf(t[3]) = "date" =>
          t[3][2] \in Nat /\ t[3][3] \in Nat /\ t[3][4] \in Nat

\* It is so of what the filings state, padded or not.
LEMMA PaddedIsChained ==
  ASSUME NEW x, IsOf("sec", x),
         NEW t, t = <<_canonical_cik_uri(x[1]), x[2], _canonical_identifier_literal(x[2], x[3])>>
  PROVE  ChainFact(t)
  <1>1. KindOf(t[1]) \in SourceKinds["sec"] /\ t[2] = x[2]
    BY PaddedIsOfTheFilings
  <1>2. KindOf(t[1]) # "date" /\ KindOf(t[1]) \in SecKinds
    BY <1>1, SourcesAssumption
  <1>3. x[2] \in {"hasReportingOwner", "hasIssuer"} => t[1] \in UrisOf("filing")
    <2>1. x[2] \in {"hasReportingOwner", "hasIssuer"} => x[1] \in UrisOf("filing")
      BY DEF IsOf
    <2>2. x[1] \in UrisOf("filing") => KindOf(x[1]) # "raw"
      BY DEF UrisOf, KindOf
    <2>3. KindOf(x[1]) # "raw" => t[1] = x[1]
      BY DEF _canonical_cik_uri
    <2> QED
      BY <2>1, <2>2, <2>3
  <1>4. x[2] \notin {"symbol", "hasInfo", "hasSentTime"}
    BY DEF IsOf
  <1>5. KindOf(x[3]) # "raw" => t[3] = x[3]
    BY DEF _canonical_cik_uri, _canonical_identifier_literal
  <1>6. x[2] = "captureTime" => KindOf(t[3]) = "time" /\ t[3][2] \in Nat
    <2>1. x[2] = "captureTime" => KindOf(x[3]) = "time" /\ x[3][2] \in Nat
      BY DEF IsOf
    <2> QED
      BY <1>5, <2>1
  <1>7. x[2] \in {"hasPeriodOfReport", "hasDateValue"} /\ KindOf(t[3]) = "date" =>
           t[3][2] \in Nat /\ t[3][3] \in Nat /\ t[3][4] \in Nat
    <2> SUFFICES ASSUME x[2] \in {"hasPeriodOfReport", "hasDateValue"}, KindOf(t[3]) = "date"
                 PROVE  t[3][2] \in Nat /\ t[3][3] \in Nat /\ t[3][4] \in Nat
      OBVIOUS
    <2>1. t[3] = _canonical_cik_uri(x[3])
      BY DEF _canonical_identifier_literal, PADDED_IDENTIFIERS
    <2>2. t[3] = x[3]
      BY <2>1 DEF _canonical_cik_uri, CIK_KEYED_KINDS, KindOf
    <2> QED
      BY <2>2 DEF IsOf
  <1> QED
    BY <1>1, <1>2, <1>3, <1>4, <1>6, <1>7 DEF ChainFact

\* And of all that is loaded.
LEMMA LoadedIsChained ==
  ASSUME JobIsGiven, OfTriplesMode, stage # Idle, NEW t \in Loaded
  PROVE  ChainFact(t)
  <1>1. CASE KindOf(t[1]) = "property" /\ t[2] = "observedLiteralDatatype"
    BY <1>1 DEF ChainFact, SecFacts
  <1>2. ASSUME NEW source \in job.sources \cap DOMAIN SourceKinds, StatedBy(source, t)
        PROVE  ChainFact(t)
    <2>1. PICK x : /\ IsOf(source, x)
                   /\ t = IF source # "sec" THEN x
                          ELSE <<_canonical_cik_uri(x[1]), x[2], _canonical_identifier_literal(x[2], x[3])>>
      BY <1>2 DEF StatedBy
    <2>2. CASE source = "sec"
      BY <2>1, <2>2, PaddedIsChained
    <2>3. CASE source # "sec"
      <3>1. t = x /\ KindOf(t[1]) \in SourceKinds[source]
        BY <2>1, <2>3 DEF IsOf
      <3>2. KindOf(t[1]) # "date"
        BY <3>1, SourcesAssumption
      <3>3. t[2] \notin SecFacts
        BY <2>1, <2>3, <3>1 DEF IsOf, SecFacts
      <3> QED
        BY <2>1, <3>1, <3>2, <3>3 DEF IsOf, ChainFact, SecFacts
    <2> QED
      BY <2>2, <2>3
  <1> QED
    BY <1>1, <1>2, LoadedIsStated

\* Finitely many documents hold finitely many triples.
LEMMA LoadedIsFinite ==
  ASSUME JobIsGiven, stage # Idle
  PROVE  IsFiniteSet(Loaded)
  <1>1. PICK s \in DOMAIN Settings : job = JobConfig(Settings[s])
    BY DEF JobIsGiven
  <1>2. job.paths = Settings[s].paths
    BY <1>1, SettingsAssumption DEF JobConfig
  <1>3. /\ IsFiniteSet(job.paths)
        /\ \A p \in job.paths : IsFiniteSet(p.docs) /\ \A d \in p.docs : IsFiniteSet(d.rows)
    BY <1>2, SourcesAssumption
  <1> DEFINE Read(p) == UNION {turtle_rows_or_skip(d) : d \in p.docs}
             Of(p) == canonicalize_source_triples(Read(p), match_path(p))
             rows == UNION {Of(p) : p \in job.paths}
  <1>4. Loaded = {r.t : r \in rows} \cup literal_datatype_observations(rows)
    BY DEF Loaded, load_source_triples
  <1>5. \A p \in job.paths : IsFiniteSet(Read(p))
    <2> TAKE p \in job.paths
    <2> DEFINE f == [d \in p.docs |-> turtle_rows_or_skip(d)]
               X == {f[d] : d \in p.docs}
    <2>1. Read(p) = UNION X
      OBVIOUS
    <2>2. \A d \in p.docs : f[d] = turtle_rows_or_skip(d)
      OBVIOUS
    <2>3. \A d \in p.docs : IsFiniteSet(f[d])
      BY <1>3, <2>2, FS_EmptySet DEF turtle_rows_or_skip
    <2> HIDE DEF f, Read
    <2>4. IsFiniteSet(X)
      BY <1>3, FiniteImage
    <2>5. \A T \in X : IsFiniteSet(T)
      BY <2>3
    <2> HIDE DEF X
    <2>6. IsFiniteSet(UNION X)
      BY <2>4, <2>5, FS_UNION
    <2> QED
      BY <2>1, <2>6
  <1> HIDE DEF Read
  <1>6. \A p \in job.paths : IsFiniteSet(Of(p))
    <2> TAKE p \in job.paths
    <2> DEFINE R == Read(p)
               f == [r \in R |-> [r EXCEPT !.t = <<_canonical_cik_uri(@[1]), @[2],
                                                   _canonical_identifier_literal(@[2], @[3])>>]]
    <2>1. Of(p) = IF match_path(p) # "sec" THEN R ELSE {f[r] : r \in R}
      BY DEF canonicalize_source_triples
    <2>2. IsFiniteSet(R)
      BY <1>5
    <2> HIDE DEF R, f, Of
    <2>3. IsFiniteSet({f[r] : r \in R})
      BY <2>2, FiniteImage
    <2> QED
      BY <2>1, <2>2, <2>3
  <1>7. IsFiniteSet(rows)
    <2> DEFINE f == [p \in job.paths |-> Of(p)]
               X == {f[p] : p \in job.paths}
    <2>1. rows = UNION X
      OBVIOUS
    <2>2. \A p \in job.paths : IsFiniteSet(f[p])
      <3> HIDE DEF Of
      <3> QED
        BY <1>6
    <2> HIDE DEF f, rows, Of
    <2>3. IsFiniteSet(X)
      BY <1>3, FiniteImage
    <2>4. \A T \in X : IsFiniteSet(T)
      BY <2>2
    <2> HIDE DEF X
    <2>5. IsFiniteSet(UNION X)
      BY <2>3, <2>4, FS_UNION
    <2> QED
      BY <2>1, <2>5
  <1> HIDE DEF rows
  <1>8. IsFiniteSet({r.t : r \in rows})
    <2> DEFINE f == [r \in rows |-> r.t]
    <2>1. {r.t : r \in rows} = {f[r] : r \in rows}
      OBVIOUS
    <2> HIDE DEF f
    <2> QED
      BY <1>7, <2>1, FiniteImage
  <1>9. IsFiniteSet(literal_datatype_observations(rows))
    <2> DEFINE Y == {q \in rows : q.datatype # ""}
               f == [r \in Y |-> <<P(r.t[2]), "observedLiteralDatatype", C(r.datatype)>>]
    <2>1. literal_datatype_observations(rows) = {f[r] : r \in Y}
      BY DEF literal_datatype_observations
    <2>2. Y \in SUBSET rows
      OBVIOUS
    <2> HIDE DEF f, Y
    <2>3. IsFiniteSet(Y)
      BY <1>7, <2>2, FS_Subset
    <2>4. IsFiniteSet({f[r] : r \in Y})
      BY <2>3, FiniteImage
    <2> QED
      BY <2>1, <2>4
  <1> QED
    BY <1>4, <1>8, <1>9, FS_Union

\* An enriched graph states of the chains what was loaded, finitely much of it.
AsStated ==
    /\ \A p \in SourcePredicates : Rel(graph, p) = Rel(Loaded, p)
    /\ \A c \in SourceClasses : Typed(graph, c) = Typed(Loaded, c)
    /\ \A t \in Loaded : ChainFact(t)
    /\ IsFiniteSet(Loaded)
\* It is so of what a job that read its triples leaves.
LEMMA EnrichedAsStated ==
  ASSUME JobIsGiven, OfTriplesMode, stage # Idle, AfterOntology(graph)
  PROVE  AsStated
  <1>1. Loaded \subseteq graph
    BY LoadedStays
  <1>2. \A p \in SourcePredicates : Rel(graph, p) = Rel(Loaded, p)
    BY <1>1, FactsAreLoaded DEF Rel
  <1>3. \A c \in SourceClasses : Typed(graph, c) = Typed(Loaded, c)
    <2> TAKE c \in SourceClasses
    <2>1. {u \in graph : u[2] = "a" /\ u[3] = <<"class", c>>}
             = {u \in Loaded : u[2] = "a" /\ u[3] = <<"class", c>>}
      <3>1. ASSUME NEW u \in graph, u[2] = "a", u[3] = <<"class", c>>
            PROVE  u \in Loaded
        BY <3>1, FactsAreLoaded
      <3> QED
        BY <1>1, <3>1
    <2> QED
      BY <2>1 DEF Typed
  <1> QED
    BY <1>2, <1>3, LoadedIsChained, LoadedIsFinite DEF AsStated

\* A pair of a relation is of a loaded triple.
LEMMA RelatedIsLoaded ==
  ASSUME AsStated, NEW p \in SourcePredicates, NEW r \in Rel(graph, p)
  PROVE  \E t \in Loaded : ChainFact(t) /\ t[2] = p /\ r[1] = t[1] /\ r[2] = t[3] /\ r = <<r[1], r[2]>>
  <1>1. r \in Rel(Loaded, p)
    BY DEF AsStated
  <1>2. PICK t \in Loaded : t[2] = p /\ r = <<t[1], t[3]>>
    BY <1>1 DEF Rel
  <1> QED
    BY <1>2 DEF AsStated

\* Relations of finitely many triples are finite, and their joins.
LEMMA RelIsFinite ==
  ASSUME NEW G, IsFiniteSet(G), NEW p
  PROVE  IsFiniteSet(Rel(G, p))
  <1> DEFINE X == {u \in G : u[2] = p}
             f == [t \in X |-> <<t[1], t[3]>>]
  <1>1. Rel(G, p) = {f[t] : t \in X}
    BY DEF Rel
  <1>2. X \in SUBSET G
    OBVIOUS
  <1> HIDE DEF X, f
  <1>3. IsFiniteSet(X)
    BY <1>2, FS_Subset
  <1> QED
    BY <1>1, <1>3, FiniteImage

\* So is what is chosen of a join.
LEMMA JoinIsFinite ==
  ASSUME NEW R, NEW S, IsFiniteSet(R), IsFiniteSet(S), NEW X, X \subseteq R \X S
  PROVE  IsFiniteSet(X)
  <1>1. IsFiniteSet(R \X S)
    BY FS_Product
  <1> QED
    BY <1>1, FS_Subset

\* And a relation that leads through another.
LEMMA ViaIsFinite ==
  ASSUME NEW R, NEW S, IsFiniteSet(R), IsFiniteSet(S)
  PROVE  IsFiniteSet(Via(R, S))
  <1> DEFINE X == {x \in R \X S : x[1][2] = x[2][1]}
             f == [x \in X |-> <<x[1][1], x[2][2]>>]
  <1>1. Via(R, S) = {f[x] : x \in X} /\ X \subseteq R \X S
    BY DEF Via
  <1> HIDE DEF X, f
  <1>2. IsFiniteSet(X)
    BY <1>1, JoinIsFinite
  <1> QED
    BY <1>1, <1>2, FiniteImage

\* A pair of the join of two relations is of a pair of each.
LEMMA ViaIs ==
  ASSUME NEW R, NEW S, NEW r
  PROVE  r \in Via(R, S) <=> \E q \in R : \E s \in S : q[2] = s[1] /\ r = <<q[1], s[2]>>
  <1>1. ASSUME NEW q \in R, NEW s \in S, q[2] = s[1], r = <<q[1], s[2]>>
        PROVE  r \in Via(R, S)
    <2> DEFINE x == <<q, s>>
    <2>1. x \in R \X S /\ x[1] = q /\ x[2] = s
      OBVIOUS
    <2> HIDE DEF x
    <2> QED
      BY <1>1, <2>1 DEF Via
  <1>2. ASSUME r \in Via(R, S)
        PROVE  \E q \in R : \E s \in S : q[2] = s[1] /\ r = <<q[1], s[2]>>
    <2>1. PICK x \in R \X S : x[1][2] = x[2][1] /\ r = <<x[1][1], x[2][2]>>
      BY <1>2 DEF Via
    <2> QED
      BY <2>1
  <1> QED
    BY <1>1, <1>2

----------------------------------------------------------------------------
\* The filings' chains: what is grouped, and by which dates.
OfFilings == _filter_sec_triples(Loaded)
Grouped(types, group) == OfClass(Rel(graph, group), types)
Reported ==
    {r \in Rel(graph, "hasPeriodOfReport") \cup Via(Rel(graph, "hasPeriodOfReport"), Rel(graph, "hasDateValue")) :
        KindOf(r[2]) = "date" /\ r[2][4] > 0}
FilingRows(types, group) ==
    {Row(x[1][1], x[1][2], DateKey(x[2][2]) \o <<x[1][1][2]>>) :
        x \in {x \in Grouped(types, group) \X Reported : x[1][1] = x[2][1]}}

\* The filings' linker sees all that is stated of the filings.
LEMMA FilingsSeeTheirOwn ==
  ASSUME AsStated
  PROVE  /\ \A p \in SecFacts : Rel(OfFilings, p) = Rel(graph, p)
         /\ \A types \in SUBSET FilingTypes : \A e : KindOf(e) \in SecKinds =>
               (e \in TypedAny(OfFilings, types) <=> e \in TypedAny(graph, types))
  <1>1. SecFacts \subseteq SourcePredicates /\ FilingTypes \subseteq SourceClasses
    BY DEF SecFacts, SourcePredicates, SourceClasses
  <1>2. ASSUME NEW p \in SecFacts
        PROVE  Rel(OfFilings, p) = Rel(graph, p)
    <2>1. \A t \in Loaded : t[2] = p => t \in OfFilings
      BY DEF AsStated, ChainFact, OfFilings, _filter_sec_triples
    <2>2. OfFilings \subseteq Loaded
      BY DEF OfFilings, _filter_sec_triples
    <2>3. Rel(OfFilings, p) = Rel(Loaded, p)
      BY <2>1, <2>2 DEF Rel
    <2> QED
      BY <1>1, <2>3 DEF AsStated
  <1>3. ASSUME NEW c \in FilingTypes, NEW e, KindOf(e) \in SecKinds
        PROVE  e \in Typed(OfFilings, c) <=> e \in Typed(graph, c)
    <2>1. e \in Typed(OfFilings, c) <=> e \in Typed(Loaded, c)
      <3>1. \A t : t[1] = e => (t \in OfFilings <=> t \in Loaded)
        BY <1>3 DEF OfFilings, _filter_sec_triples
      <3> QED
        BY <3>1 DEF Typed
    <2> QED
      BY <1>1, <2>1 DEF AsStated
  <1>4. ASSUME NEW types \in SUBSET FilingTypes, NEW e, KindOf(e) \in SecKinds
        PROVE  e \in TypedAny(OfFilings, types) <=> e \in TypedAny(graph, types)
    BY <1>3, <1>4 DEF TypedAny
  <1> QED
    BY <1>2, <1>4

\* Its dates are the graph's.
LEMMA ResolvedIsReported ==
  ASSUME AsStated, NEW es
  PROVE  _resolve_dates(OfFilings, es, "hasPeriodOfReport") = {r \in Reported : r[1] \in es}
  <1> DEFINE S == OfFilings
             links0 == Rel(graph, "hasPeriodOfReport")
             values == Rel(graph, "hasDateValue")
             links == {r \in Rel(S, "hasPeriodOfReport") : r[1] \in es}
             direct == {r \in links : KindOf(r[2]) = "date"}
             dated == direct \cup Via(links \ direct, Rel(S, "hasDateValue"))
  <1>1. Rel(S, "hasPeriodOfReport") = links0 /\ Rel(S, "hasDateValue") = values
    BY FilingsSeeTheirOwn DEF SecFacts
  <1>2. \A v \in values : KindOf(v[1]) # "date"
    BY RelatedIsLoaded DEF ChainFact, SourcePredicates
  <1>3. \A v \in links0 : v = <<v[1], v[2]>>
    BY RelatedIsLoaded DEF SourcePredicates
  <1>4. _resolve_dates(S, es, "hasPeriodOfReport") = {r \in dated : KindOf(r[2]) = "date" /\ r[2][4] > 0}
    BY DEF _resolve_dates
  <1>5. ASSUME NEW r, KindOf(r[2]) = "date"
        PROVE  r \in dated <=> r \in links0 \cup Via(links0, values) /\ r[1] \in es
    <2>1. r \in direct <=> r \in links0 /\ r[1] \in es
      BY <1>1, <1>5
    <2>2. r \in Via(links \ direct, values) <=> r \in Via(links0, values) /\ r[1] \in es
      <3>1. ASSUME r \in Via(links \ direct, values)
            PROVE  r \in Via(links0, values) /\ r[1] \in es
        <4>1. PICK q \in links \ direct : \E s \in values : q[2] = s[1] /\ r = <<q[1], s[2]>>
          BY <3>1, ViaIs
        <4>2. q \in links0 /\ q[1] \in es /\ r[1] = q[1]
          BY <1>1, <4>1
        <4> QED
          BY <4>1, <4>2, ViaIs
      <3>2. ASSUME r \in Via(links0, values), r[1] \in es
            PROVE  r \in Via(links \ direct, values)
        <4>1. PICK q \in links0 : \E s \in values : q[2] = s[1] /\ r = <<q[1], s[2]>>
          BY <3>2, ViaIs
        <4>2. PICK s \in values : q[2] = s[1] /\ r = <<q[1], s[2]>>
          BY <4>1
        <4>3. r[1] = q[1] /\ KindOf(q[2]) # "date"
          BY <1>2, <4>2
        <4>4. q \in links \ direct
          BY <1>1, <3>2, <4>3
        <4> QED
          BY <4>2, <4>4, ViaIs
      <3> QED
        BY <3>1, <3>2
    <2> HIDE DEF links, direct
    <2> QED
      BY <1>1, <2>1, <2>2
  <1> HIDE DEF dated, links0, values, S
  <1>6. Reported = {r \in links0 \cup Via(links0, values) : KindOf(r[2]) = "date" /\ r[2][4] > 0}
    BY DEF Reported, links0, values
  <1>7. {r \in dated : KindOf(r[2]) = "date" /\ r[2][4] > 0} = {r \in Reported : r[1] \in es}
    BY <1>5, <1>6
  <1> QED
    BY <1>4, <1>7 DEF S

\* The rows it sequences are these.
LEMMA FilingsSequenced ==
  ASSUME AsStated, NEW types \in SUBSET FilingTypes, NEW group \in {"hasReportingOwner", "hasIssuer"}
  PROVE  FilingSequence(OfFilings, types, group) = sequence_to_triples(FilingRows(types, group), "precedes")
  <1> DEFINE filings == TypedAny(OfFilings, types)
             grouped == {r \in Rel(OfFilings, group) : r[1] \in filings}
             dates == _resolve_dates(OfFilings, {r[1] : r \in grouped}, "hasPeriodOfReport")
             rows == {Row(x[1][1], x[1][2], DateKey(x[2][2]) \o <<x[1][1][2]>>) :
                         x \in {x \in grouped \X dates : x[1][1] = x[2][1]}}
  <1>1. FilingSequence(OfFilings, types, group) = sequence_to_triples(rows, "precedes")
    BY DEF FilingSequence
  <1>2. grouped = Grouped(types, group)
    <2>1. Rel(OfFilings, group) = Rel(graph, group)
      BY FilingsSeeTheirOwn DEF SecFacts
    <2>2. \A r \in Rel(graph, group) : KindOf(r[1]) \in SecKinds
      BY RelatedIsLoaded DEF SourcePredicates, ChainFact, SecFacts
    <2>3. \A r \in Rel(graph, group) : r[1] \in filings <=> r[1] \in TypedAny(graph, types)
      BY <2>2, FilingsSeeTheirOwn
    <2> QED
      BY <2>1, <2>3 DEF Grouped, OfClass
  <1>3. dates = {r \in Reported : r[1] \in {g[1] : g \in grouped}}
    BY ResolvedIsReported
  <1>4. {x \in grouped \X dates : x[1][1] = x[2][1]}
          = {x \in Grouped(types, group) \X Reported : x[1][1] = x[2][1]}
    <2> HIDE DEF dates, grouped
    <2>1. ASSUME NEW x \in Grouped(types, group) \X Reported, x[1][1] = x[2][1]
          PROVE  x \in grouped \X dates
      BY <1>2, <1>3, <2>1
    <2>2. dates \subseteq Reported
      BY <1>3
    <2> QED
      BY <1>2, <2>1, <2>2
  <1> HIDE DEF grouped, dates
  <1>5. rows = FilingRows(types, group)
    BY <1>4 DEF FilingRows
  <1> QED
    BY <1>1, <1>5

\* A date's columns and then one more.
LEMMA FourColumns ==
  ASSUME NEW a \in Nat, NEW b \in Nat, NEW c \in Nat, NEW d \in Nat
  PROVE  /\ IsKey(<<a, b, c>>, 3) /\ IsKey(<<a, b, c>> \o <<d>>, 4)
         /\ Stamps(<<a, b, c>>, <<a, b, c>> \o <<d>>, 3) /\ (<<a, b, c>> \o <<d>>)[4] = d
  <1> DEFINE k == <<a, b, c>>
             v == k \o <<d>>
  <1>1. k \in Seq(Nat) /\ <<d>> \in Seq(Nat) /\ Len(k) = 3 /\ Len(<<d>>) = 1
    OBVIOUS
  <1>2. v \in Seq(Nat) /\ Len(v) = 4 /\ v[4] = d /\ \A i \in 1..3 : v[i] = k[i]
    BY <1>1
  <1>3. \A i \in 1..3 : k[i] \in Nat
    BY <1>1
  <1>4. \A i \in 1..4 : v[i] \in Nat
    BY <1>2
  <1> QED
    BY <1>1, <1>2, <1>3, <1>4 DEF IsKey, Stamps

\* A date that is reported is one of numbers.
LEMMA ReportedIsDated ==
  ASSUME AsStated, NEW r \in Reported
  PROVE  r = <<r[1], r[2]>> /\ r[2][2] \in Nat /\ r[2][3] \in Nat /\ r[2][4] \in Nat
  <1>1. {"hasPeriodOfReport", "hasDateValue"} \subseteq SourcePredicates
    BY DEF SourcePredicates
  <1>2. KindOf(r[2]) = "date"
    BY DEF Reported
  <1>3. CASE r \in Rel(graph, "hasPeriodOfReport")
    BY <1>1, <1>2, <1>3, RelatedIsLoaded DEF ChainFact
  <1>4. CASE r \in Via(Rel(graph, "hasPeriodOfReport"), Rel(graph, "hasDateValue"))
    <2>1. PICK q \in Rel(graph, "hasPeriodOfReport") : \E s \in Rel(graph, "hasDateValue") :
             q[2] = s[1] /\ r = <<q[1], s[2]>>
      BY <1>4, ViaIs
    <2>2. PICK s \in Rel(graph, "hasDateValue") : q[2] = s[1] /\ r = <<q[1], s[2]>>
      BY <2>1
    <2>3. r[1] = q[1] /\ r[2] = s[2]
      BY <2>2
    <2>4. PICK t \in Loaded : ChainFact(t) /\ t[2] = "hasDateValue" /\ s[2] = t[3]
      BY <1>1, RelatedIsLoaded
    <2> QED
      BY <1>2, <2>2, <2>3, <2>4 DEF ChainFact
  <1> QED
    BY <1>3, <1>4 DEF Reported

\* The instants of the filings are their dates.
LEMMA DatesAreReported ==
  ASSUME NEW x
  PROVE  x \in Dates("hasPeriodOfReport") <=> \E r \in Reported : x = <<r[1], DateKey(r[2])>>
  BY DEF Dates, Reported

\* So its columns, with one more or without, are a key.
LEMMA ReportedKey ==
  ASSUME AsStated, NEW r \in Reported, NEW n \in Nat
  PROVE  /\ IsKey(DateKey(r[2]), 3) /\ IsKey(DateKey(r[2]) \o <<n>>, 4)
         /\ Stamps(DateKey(r[2]), DateKey(r[2]) \o <<n>>, 3) /\ (DateKey(r[2]) \o <<n>>)[4] = n
  <1>1. PICK a, b, c : r[2][2] = a /\ r[2][3] = b /\ r[2][4] = c
    OBVIOUS
  <1>2. a \in Nat /\ b \in Nat /\ c \in Nat
    BY <1>1, ReportedIsDated
  <1>3. DateKey(r[2]) = <<a, b, c>>
    BY <1>1 DEF DateKey
  <1> QED
    BY <1>2, <1>3, FourColumns

\* The dates are instants of three columns.
LEMMA InstantsOfFilings == AsStated => Instant(Dates("hasPeriodOfReport"), 3)
  <1> SUFFICES ASSUME AsStated, NEW x \in Dates("hasPeriodOfReport") PROVE IsKey(x[2], 3)
    BY DEF Instant
  <1>1. PICK r \in Reported : x = <<r[1], DateKey(r[2])>>
    BY DatesAreReported
  <1>2. x[2] = DateKey(r[2]) /\ 0 \in Nat
    BY <1>1
  <1> QED
    BY <1>2, ReportedKey

\* A row is a filing of a group at one of its dates.
LEMMA FilingRowIs ==
  ASSUME NEW types, NEW group, NEW r
  PROVE  r \in FilingRows(types, group) <=>
            \E g \in Grouped(types, group) : \E d \in Reported :
               g[1] = d[1] /\ r = Row(g[1], g[2], DateKey(d[2]) \o <<g[1][2]>>)
  <1>1. ASSUME NEW g \in Grouped(types, group), NEW d \in Reported, g[1] = d[1],
               r = Row(g[1], g[2], DateKey(d[2]) \o <<g[1][2]>>)
        PROVE  r \in FilingRows(types, group)
    <2> DEFINE x == <<g, d>>
    <2>1. x \in Grouped(types, group) \X Reported /\ x[1] = g /\ x[2] = d
      OBVIOUS
    <2> HIDE DEF x
    <2> QED
      BY <1>1, <2>1 DEF FilingRows
  <1>2. ASSUME r \in FilingRows(types, group)
        PROVE  \E g \in Grouped(types, group) : \E d \in Reported :
                  g[1] = d[1] /\ r = Row(g[1], g[2], DateKey(d[2]) \o <<g[1][2]>>)
    <2>1. PICK x \in Grouped(types, group) \X Reported :
             x[1][1] = x[2][1] /\ r = Row(x[1][1], x[1][2], DateKey(x[2][2]) \o <<x[1][1][2]>>)
      BY <1>2 DEF FilingRows
    <2> QED
      BY <2>1
  <1> QED
    BY <1>1, <1>2

\* The filings' rows are finitely many.
LEMMA RowsOfFilingsAreFinite ==
  ASSUME AsStated, NEW types, NEW group \in SourcePredicates
  PROVE  IsFiniteSet(FilingRows(types, group))
  <1>1. \A p \in SourcePredicates : IsFiniteSet(Rel(graph, p))
    BY RelIsFinite DEF AsStated
  <1>2. Grouped(types, group) \in SUBSET Rel(graph, group)
    BY DEF Grouped, OfClass
  <1>3. IsFiniteSet(Grouped(types, group))
    BY <1>1, <1>2, FS_Subset
  <1> DEFINE direct == Rel(graph, "hasPeriodOfReport")
             given == Via(direct, Rel(graph, "hasDateValue"))
  <1>4. IsFiniteSet(direct) /\ IsFiniteSet(given)
    BY <1>1, ViaIsFinite DEF SourcePredicates
  <1>5. Reported \in SUBSET (direct \cup given)
    BY DEF Reported
  <1> HIDE DEF direct, given
  <1>6. IsFiniteSet(Reported)
    <2>1. IsFiniteSet(direct \cup given)
      BY <1>4, FS_Union
    <2> QED
      BY <1>5, <2>1, FS_Subset
  <1> DEFINE X == {x \in Grouped(types, group) \X Reported : x[1][1] = x[2][1]}
             f == [x \in X |-> Row(x[1][1], x[1][2], DateKey(x[2][2]) \o <<x[1][1][2]>>)]
  <1>7. FilingRows(types, group) = {f[x] : x \in X} /\ X \subseteq Grouped(types, group) \X Reported
    BY DEF FilingRows
  <1> HIDE DEF X, f
  <1>8. IsFiniteSet(X)
    BY <1>3, <1>6, <1>7, JoinIsFinite
  <1> QED
    BY <1>7, <1>8, FiniteImage

\* The filings' rows are one for each of a filing's dates, in each of its groups.
LEMMA StrandOfFilings ==
  ASSUME AsStated, NEW types, NEW group \in {"hasReportingOwner", "hasIssuer"}
  PROVE  Strand(FilingRows(types, group), "filing", 3, Dates("hasPeriodOfReport"))
  <1> DEFINE rows == FilingRows(types, group)
             D == Dates("hasPeriodOfReport")
  <1>1. group \in SourcePredicates
    BY DEF SourcePredicates
  <1>2. \A g \in Grouped(types, group) : g[1] \in UrisOf("filing")
    BY <1>1, RelatedIsLoaded DEF Grouped, OfClass, ChainFact
  <1>3. \A e \in UrisOf("filing") : e[2] \in Nat
    BY DEF UrisOf
  <1>4. ASSUME NEW r \in rows
        PROVE  /\ r.entity \in UrisOf("filing") /\ IsKey(r.key, 4) /\ r.key[4] = r.entity[2]
               /\ \E k : <<r.entity, k>> \in D /\ Stamps(k, r.key, 3)
    <2>1. PICK g \in Grouped(types, group) : \E d \in Reported :
             g[1] = d[1] /\ r = Row(g[1], g[2], DateKey(d[2]) \o <<g[1][2]>>)
      BY FilingRowIs
    <2>2. PICK d \in Reported : g[1] = d[1] /\ r = Row(g[1], g[2], DateKey(d[2]) \o <<g[1][2]>>)
      BY <2>1
    <2>3. r.entity = g[1] /\ r.key = DateKey(d[2]) \o <<g[1][2]>>
      BY <2>2 DEF Row
    <2>4. g[1] \in UrisOf("filing") /\ g[1][2] \in Nat
      BY <1>2, <1>3
    <2>5. <<g[1], DateKey(d[2])>> \in D
      BY <2>2, DatesAreReported
    <2> HIDE DEF D
    <2> QED
      BY <2>3, <2>4, <2>5, ReportedKey
  <1>5. ASSUME NEW r \in rows, NEW x \in D, x[1] = r.entity
        PROVE  \E q \in rows : q.entity = r.entity /\ q.part = r.part /\ Stamps(x[2], q.key, 3)
    <2>1. PICK g \in Grouped(types, group) : \E d \in Reported :
             g[1] = d[1] /\ r = Row(g[1], g[2], DateKey(d[2]) \o <<g[1][2]>>)
      BY FilingRowIs
    <2>2. r.entity = g[1] /\ r.part = g[2]
      BY <2>1 DEF Row
    <2>3. PICK d \in Reported : x = <<d[1], DateKey(d[2])>>
      BY DatesAreReported
    <2>4. d[1] = g[1] /\ x[2] = DateKey(d[2])
      BY <1>5, <2>2, <2>3
    <2>5. PICK q : q = Row(g[1], g[2], DateKey(d[2]) \o <<g[1][2]>>)
      OBVIOUS
    <2>6. q \in rows
      BY <2>4, <2>5, FilingRowIs
    <2>7. q.entity = g[1] /\ q.part = g[2] /\ q.key = DateKey(d[2]) \o <<g[1][2]>>
      BY <2>5 DEF Row
    <2>8. g[1][2] \in Nat
      BY <1>2, <1>3
    <2>9. Stamps(x[2], q.key, 3)
      BY <2>4, <2>7, <2>8, ReportedKey
    <2> QED
      BY <2>2, <2>6, <2>7, <2>9
  <1>6. IsFiniteSet(rows)
    BY <1>1, RowsOfFilingsAreFinite
  <1> HIDE DEF rows, D
  <1>7. Orderly(rows, "filing", 4)
    BY <1>4, <1>6 DEF Orderly
  <1> QED
    BY <1>4, <1>5, <1>7 DEF Strand, rows, D

\* A time and then one more column.
LEMMA TwoColumns ==
  ASSUME NEW a \in Nat, NEW d \in Nat
  PROVE  /\ IsKey(<<a>>, 1) /\ IsKey(<<a, d>>, 2)
         /\ Stamps(<<a>>, <<a, d>>, 1) /\ <<a, d>>[2] = d
  <1>1. \A i \in 1..1 : i = 1
    OBVIOUS
  <1>2. \A i \in 1..2 : i = 1 \/ i = 2
    OBVIOUS
  <1>3. Len(<<a>>) = 1 /\ Len(<<a, d>>) = 2 /\ <<a>>[1] = a /\ <<a, d>>[1] = a /\ <<a, d>>[2] = d
    OBVIOUS
  <1> QED
    BY <1>1, <1>2, <1>3 DEF IsKey, Stamps

\* An instant of a predicate is the time of one of its pairs.
LEMMA InstantIs ==
  ASSUME NEW p, NEW x
  PROVE  x \in Instants(p) <=> \E r \in Rel(graph, p) : KindOf(r[2]) = "time" /\ x = <<r[1], <<r[2][2]>>>>
  BY DEF Instants

----------------------------------------------------------------------------
\* The snapshots' chains.
QuoteRows ==
    {Row(x[1][1], x[1][2], <<x[2][2][2], x[1][1][2]>>) : x \in
        {x \in Rel(graph, "symbol") \X Rel(graph, "captureTime") : x[1][1] = x[2][1]}}

\* These are the rows the market's linker sequences.
LEMMA QuotesSequenced ==
  AsStated => _link_snapshot_sequences(Loaded) = sequence_to_triples(QuoteRows, "precedes")
  <1> SUFFICES ASSUME AsStated
               PROVE  _link_snapshot_sequences(Loaded) = sequence_to_triples(QuoteRows, "precedes")
    OBVIOUS
  <1>1. Rel(graph, "symbol") = Rel(Loaded, "symbol") /\ Rel(graph, "captureTime") = Rel(Loaded, "captureTime")
    BY DEF AsStated, SourcePredicates
  <1> QED
    BY <1>1 DEF _link_snapshot_sequences, QuoteRows

\* A row is a snapshot of a symbol at a time it was captured.
LEMMA QuoteRowIs ==
  ASSUME NEW r
  PROVE  r \in QuoteRows <=>
            \E g \in Rel(graph, "symbol") : \E d \in Rel(graph, "captureTime") :
               g[1] = d[1] /\ r = Row(g[1], g[2], <<d[2][2], g[1][2]>>)
  <1>1. ASSUME NEW g \in Rel(graph, "symbol"), NEW d \in Rel(graph, "captureTime"), g[1] = d[1],
               r = Row(g[1], g[2], <<d[2][2], g[1][2]>>)
        PROVE  r \in QuoteRows
    <2> DEFINE x == <<g, d>>
    <2>1. x \in Rel(graph, "symbol") \X Rel(graph, "captureTime") /\ x[1] = g /\ x[2] = d
      OBVIOUS
    <2> HIDE DEF x
    <2> QED
      BY <1>1, <2>1 DEF QuoteRows
  <1>2. ASSUME r \in QuoteRows
        PROVE  \E g \in Rel(graph, "symbol") : \E d \in Rel(graph, "captureTime") :
                  g[1] = d[1] /\ r = Row(g[1], g[2], <<d[2][2], g[1][2]>>)
    <2>1. PICK x \in Rel(graph, "symbol") \X Rel(graph, "captureTime") :
             x[1][1] = x[2][1] /\ r = Row(x[1][1], x[1][2], <<x[2][2][2], x[1][1][2]>>)
      BY <1>2 DEF QuoteRows
    <2> QED
      BY <2>1
  <1> QED
    BY <1>1, <1>2

\* What was captured or sent is at a time, which is one of the instants.
LEMMA CapturesAreTimes ==
  ASSUME AsStated, NEW p \in {"captureTime", "hasSentTime"}, NEW r \in Rel(graph, p)
  PROVE  KindOf(r[2]) = "time" /\ r[2][2] \in Nat /\ <<r[1], <<r[2][2]>>>> \in Instants(p)
  <1>1. p \in SourcePredicates
    BY DEF SourcePredicates
  <1>2. PICK t \in Loaded : ChainFact(t) /\ t[2] = p /\ r[2] = t[3]
    BY <1>1, RelatedIsLoaded
  <1>3. KindOf(r[2]) = "time" /\ r[2][2] \in Nat
    BY <1>2 DEF ChainFact
  <1>4. <<r[1], <<r[2][2]>>>> \in Instants(p)
    BY <1>3, InstantIs
  <1> QED
    BY <1>3, <1>4

\* Times are instants of one column.
LEMMA InstantsAreTimes ==
  ASSUME AsStated, NEW p \in {"captureTime", "hasSentTime"}
  PROVE  Instant(Instants(p), 1)
  <1> SUFFICES ASSUME NEW x \in Instants(p) PROVE IsKey(x[2], 1)
    BY DEF Instant
  <1>1. PICK r \in Rel(graph, p) : x = <<r[1], <<r[2][2]>>>>
    BY InstantIs
  <1>2. PICK n \in Nat : x[2] = <<n>>
    BY <1>1, CapturesAreTimes
  <1> QED
    BY <1>2, TwoColumns

\* The snapshots' rows are one for each time a snapshot was captured.
LEMMA StrandOfQuotes == AsStated => Strand(QuoteRows, "quote", 1, Instants("captureTime"))
  <1> SUFFICES ASSUME AsStated PROVE Strand(QuoteRows, "quote", 1, Instants("captureTime"))
    OBVIOUS
  <1> DEFINE D == Instants("captureTime")
  <1>1. "symbol" \in SourcePredicates /\ "captureTime" \in SourcePredicates
    BY DEF SourcePredicates
  <1>2. \A g \in Rel(graph, "symbol") : g[1] \in UrisOf("quote")
    BY <1>1, RelatedIsLoaded DEF ChainFact
  <1>3. \A e \in UrisOf("quote") : e[2] \in Nat
    BY DEF UrisOf
  <1>4. \A d \in Rel(graph, "captureTime") : d[2][2] \in Nat /\ <<d[1], <<d[2][2]>>>> \in D
    BY CapturesAreTimes
  <1>5. ASSUME NEW r \in QuoteRows
        PROVE  /\ r.entity \in UrisOf("quote") /\ IsKey(r.key, 2) /\ r.key[2] = r.entity[2]
               /\ \E k : <<r.entity, k>> \in D /\ Stamps(k, r.key, 1)
    <2>1. PICK g \in Rel(graph, "symbol") : \E d \in Rel(graph, "captureTime") :
             g[1] = d[1] /\ r = Row(g[1], g[2], <<d[2][2], g[1][2]>>)
      BY QuoteRowIs
    <2>2. PICK d \in Rel(graph, "captureTime") : g[1] = d[1] /\ r = Row(g[1], g[2], <<d[2][2], g[1][2]>>)
      BY <2>1
    <2>3. PICK n \in Nat : n = d[2][2]
      BY <1>4
    <2>4. PICK e \in UrisOf("quote") : e = g[1] /\ e[2] \in Nat
      BY <1>2, <1>3
    <2>5. r.entity = e /\ r.key = <<n, e[2]>>
      BY <2>2, <2>3, <2>4 DEF Row
    <2>6. <<e, <<n>>>> \in D
      BY <1>4, <2>2, <2>3, <2>4
    <2> HIDE DEF D
    <2> QED
      BY <2>3, <2>4, <2>5, <2>6, TwoColumns
  <1>6. ASSUME NEW r \in QuoteRows, NEW x \in D, x[1] = r.entity
        PROVE  \E q \in QuoteRows : q.entity = r.entity /\ q.part = r.part /\ Stamps(x[2], q.key, 1)
    <2>1. PICK g \in Rel(graph, "symbol") : \E d \in Rel(graph, "captureTime") :
             g[1] = d[1] /\ r = Row(g[1], g[2], <<d[2][2], g[1][2]>>)
      BY QuoteRowIs
    <2>2. r.entity = g[1] /\ r.part = g[2]
      BY <2>1 DEF Row
    <2>3. PICK d \in Rel(graph, "captureTime") : x = <<d[1], <<d[2][2]>>>>
      BY InstantIs
    <2>4. PICK n \in Nat : n = d[2][2]
      BY <1>4
    <2>5. d[1] = g[1] /\ x[2] = <<n>>
      BY <1>6, <2>2, <2>3, <2>4
    <2>6. PICK q : q = Row(g[1], g[2], <<d[2][2], g[1][2]>>)
      OBVIOUS
    <2>7. q \in QuoteRows
      BY <2>5, <2>6, QuoteRowIs
    <2>8. q.entity = g[1] /\ q.part = g[2] /\ q.key = <<n, g[1][2]>>
      BY <2>4, <2>6 DEF Row
    <2>9. Stamps(x[2], q.key, 1)
      BY <1>2, <1>3, <2>5, <2>8, TwoColumns
    <2> QED
      BY <2>2, <2>7, <2>8, <2>9
  <1>7. IsFiniteSet(QuoteRows)
    <2>1. IsFiniteSet(Rel(graph, "symbol")) /\ IsFiniteSet(Rel(graph, "captureTime"))
      BY <1>1, RelIsFinite DEF AsStated
    <2> DEFINE X == {x \in Rel(graph, "symbol") \X Rel(graph, "captureTime") : x[1][1] = x[2][1]}
               f == [x \in X |-> Row(x[1][1], x[1][2], <<x[2][2][2], x[1][1][2]>>)]
    <2>2. QuoteRows = {f[x] : x \in X} /\ X \subseteq Rel(graph, "symbol") \X Rel(graph, "captureTime")
      BY DEF QuoteRows
    <2> HIDE DEF X, f
    <2>3. IsFiniteSet(X)
      BY <2>1, <2>2, JoinIsFinite
    <2> QED
      BY <2>2, <2>3, FiniteImage
  <1> HIDE DEF D
  <1>8. Orderly(QuoteRows, "quote", 1 + 1)
    <2>1. 1 + 1 = 2 /\ 2 \in Nat \ {0}
      OBVIOUS
    <2>2. Orderly(QuoteRows, "quote", 2)
      BY <1>5, <1>7, <2>1 DEF Orderly
    <2> QED
      BY <2>1, <2>2
  <1>9. \A r \in QuoteRows : \E k : <<r.entity, k>> \in D /\ Stamps(k, r.key, 1)
    BY <1>5
  <1> QED
    BY <1>6, <1>8, <1>9 DEF Strand, D

----------------------------------------------------------------------------
\* The alerts' chains.
AlertTimes == Via(Rel(graph, "hasInfo"), Instants("hasSentTime"))
Sent == Via({r \in Rel(graph, "hasInfo") : r[1] \in Typed(graph, "WeatherAlert")}, Rel(graph, "hasSentTime"))
AlertRows ==
    {Row(x[1][1], x[2][2], <<x[1][2][2], x[1][1][2]>>) : x \in
        {x \in Sent \X _alert_geocodes(graph) : x[1][1] = x[2][1]}}

\* These are the rows the alerts' linker sequences.
LEMMA AlertsSequenced ==
  ASSUME AfterOntology(graph)
  PROVE  NoaaSequences(_noaa_triples(Loaded)) = sequence_to_triples(AlertRows, "precedes")
  <1>1. SameAlerts(_noaa_triples(Loaded), graph)
    BY AlertsAreAsLoaded
  <1>2. _alert_geocodes(_noaa_triples(Loaded)) = _alert_geocodes(graph)
    BY <1>1, GeocodesAreTheSame
  <1>3. Says(_noaa_triples(Loaded), "hasSentTime") = Sent
    BY <1>1 DEF SameAlerts, AlertFacts, Says, _build_alert_info, Sent
  <1> QED
    BY <1>2, <1>3 DEF NoaaSequences, AlertRows

\* What is sent is dated.
LEMMA SentIsDated ==
  ASSUME AsStated, NEW s \in Sent
  PROVE  /\ s[1] \in UrisOf("alert") /\ s[2][2] \in Nat /\ s[1] \in Typed(graph, "WeatherAlert")
         /\ <<s[1], <<s[2][2]>>>> \in AlertTimes
  <1> DEFINE infos == {r \in Rel(graph, "hasInfo") : r[1] \in Typed(graph, "WeatherAlert")}
  <1>1. PICK i \in infos : \E t \in Rel(graph, "hasSentTime") : i[2] = t[1] /\ s = <<i[1], t[2]>>
    BY ViaIs DEF Sent
  <1>2. PICK t \in Rel(graph, "hasSentTime") : i[2] = t[1] /\ s = <<i[1], t[2]>>
    BY <1>1
  <1>3. i \in Rel(graph, "hasInfo") /\ i[1] \in Typed(graph, "WeatherAlert") /\ s[1] = i[1] /\ s[2] = t[2]
    BY <1>2
  <1>4. s[1] \in UrisOf("alert")
    BY <1>3, RelatedIsLoaded DEF ChainFact, SourcePredicates
  <1>5. PICK y \in Instants("hasSentTime") : y = <<t[1], <<t[2][2]>>>>
    BY CapturesAreTimes
  <1>6. y[1] = t[1] /\ y[2] = <<t[2][2]>>
    BY <1>5
  <1>7. <<s[1], <<s[2][2]>>>> \in AlertTimes
    BY <1>2, <1>3, <1>6, ViaIs DEF AlertTimes
  <1> QED
    BY <1>3, <1>4, <1>7, CapturesAreTimes

\* And what is dated of an alert is sent.
LEMMA DatedIsSent ==
  ASSUME AsStated, NEW x \in AlertTimes, x[1] \in Typed(graph, "WeatherAlert")
  PROVE  \E s \in Sent : s[1] = x[1] /\ x[2] = <<s[2][2]>>
  <1>1. PICK i \in Rel(graph, "hasInfo") : \E y \in Instants("hasSentTime") : i[2] = y[1] /\ x = <<i[1], y[2]>>
    BY ViaIs DEF AlertTimes
  <1>2. PICK y \in Instants("hasSentTime") : i[2] = y[1] /\ x = <<i[1], y[2]>>
    BY <1>1
  <1>3. PICK t \in Rel(graph, "hasSentTime") : y = <<t[1], <<t[2][2]>>>>
    BY InstantIs
  <1>4. x[1] = i[1] /\ x[2] = <<t[2][2]>> /\ i[2] = t[1]
    BY <1>2, <1>3
  <1> DEFINE infos == {r \in Rel(graph, "hasInfo") : r[1] \in Typed(graph, "WeatherAlert")}
  <1>5. i \in infos
    BY <1>4
  <1> HIDE DEF infos
  <1>6. PICK s : s = <<i[1], t[2]>>
    OBVIOUS
  <1>7. s[1] = i[1] /\ s[2] = t[2]
    BY <1>6
  <1>8. s \in Via(infos, Rel(graph, "hasSentTime"))
    BY <1>4, <1>5, <1>6, ViaIs
  <1> QED
    BY <1>4, <1>7, <1>8 DEF Sent, infos

\* The alerts' times are instants of one column.
LEMMA TimesOfAlerts == AsStated => Instant(AlertTimes, 1)
  <1> SUFFICES ASSUME AsStated, NEW x \in AlertTimes PROVE IsKey(x[2], 1)
    BY DEF Instant
  <1>1. PICK i \in Rel(graph, "hasInfo") : \E y \in Instants("hasSentTime") : i[2] = y[1] /\ x = <<i[1], y[2]>>
    BY ViaIs DEF AlertTimes
  <1>2. PICK y \in Instants("hasSentTime") : x[2] = y[2]
    BY <1>1
  <1> QED
    BY <1>2, InstantsAreTimes DEF Instant

\* A row is an alert of a zone at a time it was sent.
LEMMA AlertRowIs ==
  ASSUME NEW r
  PROVE  r \in AlertRows <=>
            \E s \in Sent : \E z \in _alert_geocodes(graph) :
               s[1] = z[1] /\ r = Row(s[1], z[2], <<s[2][2], s[1][2]>>)
  <1>1. ASSUME NEW s \in Sent, NEW z \in _alert_geocodes(graph), s[1] = z[1],
               r = Row(s[1], z[2], <<s[2][2], s[1][2]>>)
        PROVE  r \in AlertRows
    <2> DEFINE x == <<s, z>>
    <2>1. x \in Sent \X _alert_geocodes(graph) /\ x[1] = s /\ x[2] = z
      OBVIOUS
    <2> HIDE DEF x
    <2> QED
      BY <1>1, <2>1 DEF AlertRows
  <1>2. ASSUME r \in AlertRows
        PROVE  \E s \in Sent : \E z \in _alert_geocodes(graph) :
                  s[1] = z[1] /\ r = Row(s[1], z[2], <<s[2][2], s[1][2]>>)
    <2>1. PICK x \in Sent \X _alert_geocodes(graph) :
             x[1][1] = x[2][1] /\ r = Row(x[1][1], x[2][2], <<x[1][2][2], x[1][1][2]>>)
      BY <1>2 DEF AlertRows
    <2> QED
      BY <2>1
  <1> QED
    BY <1>1, <1>2

\* The alerts' rows are finitely many.
LEMMA RowsOfAlertsAreFinite == AsStated => IsFiniteSet(AlertRows)
  <1> SUFFICES ASSUME AsStated PROVE IsFiniteSet(AlertRows)
    OBVIOUS
  <1>1. \A p \in SourcePredicates : IsFiniteSet(Rel(graph, p))
    BY RelIsFinite DEF AsStated
  <1>2. /\ IsFiniteSet(Rel(graph, "hasInfo")) /\ IsFiniteSet(Rel(graph, "hasArea"))
        /\ IsFiniteSet(Rel(graph, "hasGeocode")) /\ IsFiniteSet(Rel(graph, "hasFIPSCode"))
        /\ IsFiniteSet(Rel(graph, "hasSAMECode")) /\ IsFiniteSet(Rel(graph, "hasSentTime"))
    BY <1>1 DEF SourcePredicates
  <1>3. IsFiniteSet(_alert_geocodes(graph))
    <2>1. IsFiniteSet(Via(Rel(graph, "hasInfo"), Rel(graph, "hasArea")))
      BY <1>2, ViaIsFinite
    <2>2. IsFiniteSet(Via(Via(Rel(graph, "hasInfo"), Rel(graph, "hasArea")), Rel(graph, "hasGeocode")))
      BY <1>2, <2>1, ViaIsFinite
    <2>3. IsFiniteSet(Rel(graph, "hasFIPSCode") \cup Rel(graph, "hasSAMECode"))
      BY <1>2, FS_Union
    <2> QED
      BY <2>2, <2>3, ViaIsFinite DEF _alert_geocodes
  <1> DEFINE infos == {r \in Rel(graph, "hasInfo") : r[1] \in Typed(graph, "WeatherAlert")}
  <1>4. infos \in SUBSET Rel(graph, "hasInfo") /\ Sent = Via(infos, Rel(graph, "hasSentTime"))
    BY DEF Sent
  <1> HIDE DEF infos
  <1>5. IsFiniteSet(infos)
    BY <1>2, <1>4, FS_Subset
  <1>6. IsFiniteSet(Sent)
    BY <1>2, <1>4, <1>5, ViaIsFinite
  <1> DEFINE X == {x \in Sent \X _alert_geocodes(graph) : x[1][1] = x[2][1]}
             f == [x \in X |-> Row(x[1][1], x[2][2], <<x[1][2][2], x[1][1][2]>>)]
  <1>7. AlertRows = {f[x] : x \in X} /\ X \subseteq Sent \X _alert_geocodes(graph)
    BY DEF AlertRows
  <1> HIDE DEF X, f
  <1>8. IsFiniteSet(X)
    BY <1>3, <1>6, <1>7, JoinIsFinite
  <1> QED
    BY <1>7, <1>8, FiniteImage

\* The alerts' rows are one for each time an alert was sent, in each of its zones.
LEMMA StrandOfAlerts == AsStated => Strand(AlertRows, "alert", 1, AlertTimes)
  <1> SUFFICES ASSUME AsStated PROVE Strand(AlertRows, "alert", 1, AlertTimes)
    OBVIOUS
  <1>1. \A e \in UrisOf("alert") : e[2] \in Nat
    BY DEF UrisOf
  <1>2. ASSUME NEW r \in AlertRows
        PROVE  /\ r.entity \in UrisOf("alert") /\ IsKey(r.key, 2) /\ r.key[2] = r.entity[2]
               /\ \E k : <<r.entity, k>> \in AlertTimes /\ Stamps(k, r.key, 1)
    <2>1. PICK s \in Sent : \E z \in _alert_geocodes(graph) :
             s[1] = z[1] /\ r = Row(s[1], z[2], <<s[2][2], s[1][2]>>)
      BY AlertRowIs
    <2>2. PICK e \in UrisOf("alert") : e = s[1] /\ e[2] \in Nat
      BY <1>1, SentIsDated
    <2>3. PICK n \in Nat : n = s[2][2]
      BY SentIsDated
    <2>4. r.entity = e /\ r.key = <<n, e[2]>>
      BY <2>1, <2>2, <2>3 DEF Row
    <2>5. <<e, <<n>>>> \in AlertTimes
      BY <2>2, <2>3, SentIsDated
    <2> QED
      BY <2>2, <2>3, <2>4, <2>5, TwoColumns
  <1>3. ASSUME NEW r \in AlertRows, NEW x \in AlertTimes, x[1] = r.entity
        PROVE  \E q \in AlertRows : q.entity = r.entity /\ q.part = r.part /\ Stamps(x[2], q.key, 1)
    <2>1. PICK s \in Sent : \E z \in _alert_geocodes(graph) :
             s[1] = z[1] /\ r = Row(s[1], z[2], <<s[2][2], s[1][2]>>)
      BY AlertRowIs
    <2>2. PICK z \in _alert_geocodes(graph) : s[1] = z[1] /\ r = Row(s[1], z[2], <<s[2][2], s[1][2]>>)
      BY <2>1
    <2>3. r.entity = s[1] /\ r.part = z[2] /\ s[1] \in Typed(graph, "WeatherAlert")
      BY <2>2, SentIsDated DEF Row
    <2>4. PICK u \in Sent : u[1] = x[1] /\ x[2] = <<u[2][2]>>
      BY <1>3, <2>3, DatedIsSent
    <2>5. PICK q : q = Row(u[1], z[2], <<u[2][2], u[1][2]>>)
      OBVIOUS
    <2>6. q \in AlertRows
      BY <1>3, <2>2, <2>3, <2>4, <2>5, AlertRowIs
    <2>7. u[1][2] \in Nat /\ u[2][2] \in Nat
      BY <1>1, SentIsDated
    <2>8. q.entity = u[1] /\ q.part = z[2] /\ q.key = <<u[2][2], u[1][2]>>
      BY <2>5 DEF Row
    <2>9. Stamps(x[2], q.key, 1)
      BY <2>4, <2>7, <2>8, TwoColumns
    <2> QED
      BY <1>3, <2>3, <2>4, <2>6, <2>8, <2>9
  <1>4. Orderly(AlertRows, "alert", 1 + 1)
    <2>1. 1 + 1 = 2 /\ 2 \in Nat \ {0}
      OBVIOUS
    <2>2. Orderly(AlertRows, "alert", 2)
      BY <1>2, <2>1, RowsOfAlertsAreFinite DEF Orderly
    <2> QED
      BY <2>1, <2>2
  <1>5. \A r \in AlertRows : \E k : <<r.entity, k>> \in AlertTimes /\ Stamps(k, r.key, 1)
    BY <1>2
  <1> QED
    BY <1>3, <1>4, <1>5 DEF Strand

----------------------------------------------------------------------------
\* The four chains by name: their rows, whose they are, and their instants.
ChainNames == {"owner", "issuer", "symbol", "zone"}
RowsOf(of) ==
    IF of = "owner" THEN FilingRows({"Form4"}, "hasReportingOwner")
    ELSE IF of = "issuer" THEN FilingRows({"Form8K", "Form10Q", "Form10K"}, "hasIssuer")
    ELSE IF of = "symbol" THEN QuoteRows ELSE AlertRows
KindsOf(of) == IF of = "symbol" THEN "quote" ELSE IF of = "zone" THEN "alert" ELSE "filing"
Width(of) == IF of \in {"symbol", "zone"} THEN 1 ELSE 3
TimesOf(of) ==
    IF of = "symbol" THEN Instants("captureTime")
    ELSE IF of = "zone" THEN AlertTimes ELSE Dates("hasPeriodOfReport")

\* The rows of each are a strand.
LEMMA EachIsAStrand ==
  ASSUME AsStated, NEW of \in ChainNames
  PROVE  /\ Instant(TimesOf(of), Width(of))
         /\ Strand(RowsOf(of), KindsOf(of), Width(of), TimesOf(of))
  <1>1. CASE of = "owner"
    <2>1. /\ RowsOf(of) = FilingRows({"Form4"}, "hasReportingOwner") /\ KindsOf(of) = "filing"
          /\ Width(of) = 3 /\ TimesOf(of) = Dates("hasPeriodOfReport")
      BY <1>1 DEF RowsOf, KindsOf, Width, TimesOf
    <2> QED
      BY <2>1, StrandOfFilings, InstantsOfFilings
  <1>2. CASE of = "issuer"
    <2>1. /\ RowsOf(of) = FilingRows({"Form8K", "Form10Q", "Form10K"}, "hasIssuer") /\ KindsOf(of) = "filing"
          /\ Width(of) = 3 /\ TimesOf(of) = Dates("hasPeriodOfReport")
      BY <1>2 DEF RowsOf, KindsOf, Width, TimesOf
    <2> QED
      BY <2>1, StrandOfFilings, InstantsOfFilings
  <1>3. CASE of = "symbol"
    <2>1. /\ RowsOf(of) = QuoteRows /\ KindsOf(of) = "quote"
          /\ Width(of) = 1 /\ TimesOf(of) = Instants("captureTime")
      BY <1>3 DEF RowsOf, KindsOf, Width, TimesOf
    <2> QED
      BY <2>1, StrandOfQuotes, InstantsAreTimes
  <1>4. CASE of = "zone"
    <2>1. RowsOf(of) = AlertRows /\ KindsOf(of) = "alert" /\ Width(of) = 1 /\ TimesOf(of) = AlertTimes
      BY <1>4 DEF RowsOf, KindsOf, Width, TimesOf
    <2> QED
      BY <2>1, StrandOfAlerts, TimesOfAlerts
  <1> QED
    BY <1>1, <1>2, <1>3, <1>4 DEF ChainNames

\* A chain of the linkers' is one of these, or of nodes of another kind.
Ends == {t[1] : t \in Loaded} \cup {t[3] : t \in Loaded}
OfOthers(rows) ==
    \A r \in rows : r.entity \in Ends /\ KindOf(r.entity) \notin {KindsOf(of) : of \in ChainNames}
InAChain(t) ==
    \/ \E of \in ChainNames : t \in sequence_to_triples(RowsOf(of), "precedes")
    \/ \E rows : OfOthers(rows) /\ t \in sequence_to_triples(rows, "precedes")

\* The four are of three kinds of node.
LEMMA KindsChained == {KindsOf(of) : of \in ChainNames} = {"filing", "quote", "alert"}
  <1>1. KindsOf("owner") = "filing" /\ KindsOf("symbol") = "quote" /\ KindsOf("zone") = "alert"
    BY DEF KindsOf
  <1>2. \A of \in ChainNames : KindsOf(of) \in {"filing", "quote", "alert"}
    BY DEF KindsOf
  <1> QED
    BY <1>1, <1>2 DEF ChainNames

\* The unified companies and persons are under predicates of their own.
LEMMA UnifiedPrecedesNothing ==
  ASSUME NEW S, NEW p, NEW kind, NEW class, NEW t \in UnifyByCik(S, p, kind, class)
  PROVE  t[2] # "precedes"
  <1> DEFINE shared == SharedCiks(S, p)
             Node(c) == <<kind, c[2]>>
  <1>1. UnifyByCik(S, p, kind, class) =
            {A(Node(c), class) : c \in shared} \cup {<<Node(c), "hasCik", c>> : c \in shared}
            \cup {<<Node(r[2]), "sameAs", r[1]>> : r \in {q \in Rel(S, p) : q[2] \in shared}}
    BY DEF UnifyByCik
  <1> HIDE DEF shared, Node
  <1>2. CASE \E c : t = A(Node(c), class)
    BY <1>2 DEF A
  <1>3. CASE \E c : t = <<Node(c), "hasCik", c>>
    BY <1>3
  <1>4. CASE \E r : t = <<Node(r[2]), "sameAs", r[1]>>
    BY <1>4
  <1> QED
    BY <1>1, <1>2, <1>3, <1>4

\* So are the violations.
LEMMA ViolationsPrecedeNothing ==
  ASSUME NEW S, NEW t \in _apply_violation_patterns(S)
  PROVE  t[2] # "precedes"
  <1> DEFINE words == {r \in UriWords : KindOf(r[1]) \in SecKinds /\ r[1] \in {u[1] : u \in S}}
                      \cup UNION {{<<r[1], w>> : w \in r[2][2]} :
                                     r \in {q \in Rel(S, "label") : KindOf(q[1]) \in SecKinds}}
             matched == Via(words, ViolationWords)
  <1>1. _apply_violation_patterns(S) =
            {A(<<"violation", m[2]>>, "ViolationType") : m \in matched}
            \cup {<<<<"violation", m[2]>>, "label", <<"text", {m[2]}>>>> : m \in matched}
            \cup {<<m[1], "hasViolationType", <<"violation", m[2]>>>> : m \in matched}
    BY DEF _apply_violation_patterns
  <1> HIDE DEF matched
  <1>2. CASE \E m : t = A(<<"violation", m[2]>>, "ViolationType")
    BY <1>2 DEF A
  <1>3. CASE \E m : t = <<<<"violation", m[2]>>, "label", <<"text", {m[2]}>>>>
    BY <1>3
  <1>4. CASE \E m : t = <<m[1], "hasViolationType", <<"violation", m[2]>>>>
    BY <1>4
  <1> QED
    BY <1>1, <1>2, <1>3, <1>4

\* And the codes.
LEMMA CodesPrecedeNothing ==
  ASSUME NEW S, NEW t \in _type_linked_codes(S)
  PROVE  t[2] # "precedes"
  <1> DEFINE Codes(p, k) == {x \in ObjectsOf(S, p) : KindOf(x) = k /\ x[2] # 0}
             Coded(xs, class, p) == {A(x, class) : x \in xs}
                 \cup {<<x, p, <<"code", x[2]>>>> : x \in xs}
                 \cup {<<x, "label", <<"text", {"code"}>>>> : x \in xs}
  <1>1. PICK xs, class : \E p \in {"hasItemNumber", "hasConceptName"} : t \in Coded(xs, class, p)
    BY DEF _type_linked_codes
  <1>2. PICK p \in {"hasItemNumber", "hasConceptName"} : t \in Coded(xs, class, p)
    BY <1>1
  <1>3. CASE \E x : t = A(x, class)
    BY <1>3 DEF A
  <1>4. CASE \E x : t = <<x, p, <<"code", x[2]>>>>
    BY <1>4
  <1>5. CASE \E x : t = <<x, "label", <<"text", {"code"}>>>>
    BY <1>5
  <1> QED
    BY <1>2, <1>3, <1>4, <1>5

\* The filings' chains are these two, and the transactions'.
LEMMA FilingsChained ==
  ASSUME AsStated
  PROVE  /\ _link_ownership_filing_sequences(OfFilings) = sequence_to_triples(RowsOf("owner"), "precedes")
         /\ _link_periodic_reporting_sequences(OfFilings) = sequence_to_triples(RowsOf("issuer"), "precedes")
  <1>1. FilingTypes \ {"Form4"} = {"Form8K", "Form10Q", "Form10K"}
    BY DEF FilingTypes
  <1>2. {"Form4"} \in SUBSET FilingTypes /\ FilingTypes \ {"Form4"} \in SUBSET FilingTypes
    BY DEF FilingTypes
  <1>3. RowsOf("owner") = FilingRows({"Form4"}, "hasReportingOwner")
    BY DEF RowsOf
  <1>4. RowsOf("issuer") = FilingRows(FilingTypes \ {"Form4"}, "hasIssuer")
    BY <1>1 DEF RowsOf
  <1> QED
    BY <1>2, <1>3, <1>4, FilingsSequenced DEF _link_ownership_filing_sequences, _link_periodic_reporting_sequences

\* The transactions' chains are of transactions alone.
LEMMA TransactionsChained ==
  ASSUME AsStated, NEW t \in _link_transaction_sequences(OfFilings)
  PROVE  InAChain(t)
  <1> DEFINE S == OfFilings
             class == {x \in Kind(S, "txn") \X TransactionTypes : x[1] \in Typed(S, x[2])}
             reported == Rel(S, "hasNonDerivativeTransaction") \cup Rel(S, "hasDerivativeTransaction")
             owners == Rel(S, "hasReportingOwner")
             joined == {x \in class \X reported \X owners : x[2][2] = x[1][1] /\ x[3][1] = x[2][1]}
             owned == {<<x[1][1], x[1][2], x[2][1], x[3][2]>> : x \in joined}
             dates == _resolve_dates(S, {w[1] : w \in owned}, "hasTransactionDate")
             rows == {Row(x[1][1], <<x[1][4], x[1][2]>>, DateKey(x[2][2]) \o <<x[1][3][2], x[1][1][3], x[1][1][2]>>) :
                         x \in {x \in owned \X dates : x[1][1] = x[2][1]}}
  <1>1. _link_transaction_sequences(S) = sequence_to_triples(rows, "precedes")
    BY DEF _link_transaction_sequences
  <1>2. \A k \in class : k[1] \in Kind(S, "txn")
    OBVIOUS
  <1>3. \A w \in owned : w[1] \in Kind(S, "txn")
    <2> SUFFICES ASSUME NEW w \in owned PROVE w[1] \in Kind(S, "txn")
      OBVIOUS
    <2> HIDE DEF class, reported, owners
    <2>1. PICK x \in class \X reported \X owners : w = <<x[1][1], x[1][2], x[2][1], x[3][2]>>
      OBVIOUS
    <2>2. w[1] = x[1][1] /\ x[1] \in class
      BY <2>1
    <2> QED
      BY <1>2, <2>2
  <1>4. \A r \in rows : r.entity \in Kind(S, "txn")
    <2> SUFFICES ASSUME NEW r \in rows PROVE r.entity \in Kind(S, "txn")
      OBVIOUS
    <2> HIDE DEF owned, dates
    <2>1. PICK x \in owned \X dates :
             r = Row(x[1][1], <<x[1][4], x[1][2]>>, DateKey(x[2][2]) \o <<x[1][3][2], x[1][1][3], x[1][1][2]>>)
      OBVIOUS
    <2>2. r.entity = x[1][1] /\ x[1] \in owned
      BY <2>1 DEF Row
    <2> QED
      BY <1>3, <2>2
  <1> HIDE DEF rows
  <1>5. \A e \in Kind(S, "txn") : KindOf(e) = "txn" /\ e \in Ends
    <2>1. S \subseteq Loaded
      BY DEF OfFilings, _filter_sec_triples
    <2> QED
      BY <2>1 DEF Kind, Ends
  <1>6. OfOthers(rows)
    BY <1>4, <1>5, KindsChained DEF OfOthers
  <1> QED
    BY <1>1, <1>6 DEF InAChain

\* So whatever the filings' linker says precedes another is of one of those chains.
LEMMA SecChains ==
  ASSUME AsStated, NEW new \in SecEnrichments(Loaded), NEW t \in new, t[2] = "precedes"
  PROVE  InAChain(t)
  <1>1. \/ t \in _unify_company_entities(OfFilings) \/ t \in _unify_person_entities(OfFilings)
        \/ t \in _link_temporal_sequences(OfFilings) \/ t \in _apply_violation_patterns(OfFilings)
        \/ t \in _type_linked_codes(OfFilings)
    BY DEF SecEnrichments, OfFilings
  <1>2. t \in _link_temporal_sequences(OfFilings)
    BY <1>1, UnifiedPrecedesNothing, ViolationsPrecedeNothing, CodesPrecedeNothing
       DEF _unify_company_entities, _unify_person_entities
  <1>3. CASE t \in _link_transaction_sequences(OfFilings)
    BY <1>3, TransactionsChained
  <1>4. CASE t \in _link_ownership_filing_sequences(OfFilings)
    <2>1. "owner" \in ChainNames
      BY DEF ChainNames
    <2> QED
      BY <1>4, <2>1, FilingsChained DEF InAChain
  <1>5. CASE t \in _link_periodic_reporting_sequences(OfFilings)
    <2>1. "issuer" \in ChainNames
      BY DEF ChainNames
    <2> QED
      BY <1>5, <2>1, FilingsChained DEF InAChain
  <1> QED
    BY <1>2, <1>3, <1>4, <1>5 DEF _link_temporal_sequences

\* The sectors' triples and the options' are under predicates of their own.
LEMMA SectorsPrecedeNothing ==
  ASSUME NEW B, NEW t \in _apply_sector_patterns(B)
  PROVE  t[2] # "precedes"
  <1> DEFINE matched == UNION {{<<e, k[3]>> : e \in Naming(B, k[1], k[2])} : k \in SectorWords}
  <1>1. _apply_sector_patterns(B) =
            {A(<<"sector", m[2]>>, "EconomicSector") : m \in matched}
            \cup {<<<<"sector", m[2]>>, "label", <<"text", {}>>>> : m \in matched}
            \cup {<<m[1], "belongsToSector", <<"sector", m[2]>>>> : m \in matched}
    BY DEF _apply_sector_patterns
  <1> HIDE DEF matched
  <1>2. CASE \E m : t = A(<<"sector", m[2]>>, "EconomicSector")
    BY <1>2 DEF A
  <1>3. CASE \E m : t = <<<<"sector", m[2]>>, "label", <<"text", {}>>>>
    BY <1>3
  <1>4. CASE \E m : t = <<m[1], "belongsToSector", <<"sector", m[2]>>>>
    BY <1>4
  <1> QED
    BY <1>1, <1>2, <1>3, <1>4

\* The spreads of options are under predicates of their own.
LEMMA SpreadsPrecedeNothing ==
  ASSUME NEW chains, NEW u \in _identify_vertical_spreads(chains)
  PROVE  u[2] \in {"callSpreadWith", "putSpreadWith"}
  <1> DEFINE Key(r) == <<r.strike, r.entity[2]>>
             Of(right) == Keyed({r \in chains : r.right = right}, Key)
             S(right) == sequence_within_partitions(Of(right))
  <1>1. _identify_vertical_spreads(chains) =
           {<<x[1].entity, "callSpreadWith", x[2].entity>> : x \in S("CALL")}
           \cup {<<x[1].entity, "putSpreadWith", x[2].entity>> : x \in S("PUT")}
    BY DEF _identify_vertical_spreads
  <1> HIDE DEF S
  <1> QED
    BY <1>1

\* All that the market's linker says of what precedes what is of the snapshots' chains.
LEMMA MarketPrecedes ==
  ASSUME NEW G, NEW tickers, NEW new \in MarketEnrichments(G, tickers), NEW t \in new, t[2] = "precedes"
  PROVE  t \in _link_snapshot_sequences(G)
  <1>1. \A u \in _classify_sectors(G, tickers) : u[2] \in {"a", "inEquitySector"}
    BY DEF _classify_sectors, A
  <1>2. \A u \in _compute_moneyness(G) : u[2] \in {"a", "hasMoneyness"}
    BY DEF _compute_moneyness, A
  <1>3. \A linked \in _link_options_to_underlying(G) : \A u \in linked : u[2] = "hasUnderlyingEquity"
    BY DEF _link_options_to_underlying
  <1>4. \A chains : \A u \in _identify_straddles(chains) : u[2] = "straddleWith"
    BY DEF _identify_straddles
  <1>5. \A chains : \A u \in _identify_vertical_spreads(chains) : u[2] \in {"callSpreadWith", "putSpreadWith"}
    BY SpreadsPrecedeNothing
  <1>6. \A chains : \A pairs \in _identify_strangles(chains) : \A u \in pairs : u[2] = "strangleWith"
    BY DEF _identify_strangles, _pair_by_rank
  <1>7. PICK linked \in _link_options_to_underlying(G) : \E paired \in _identify_option_strategies(G) :
           new = (_link_snapshot_sequences(G) \cup _classify_sectors(G, tickers) \cup _compute_moneyness(G))
                 \cup linked \cup paired
    BY DEF MarketEnrichments
  <1>8. PICK paired \in _identify_option_strategies(G) :
           new = (_link_snapshot_sequences(G) \cup _classify_sectors(G, tickers) \cup _compute_moneyness(G))
                 \cup linked \cup paired
    BY <1>7
  <1>9. PICK chains, pairs :
           /\ pairs \in _identify_strangles(chains)
           /\ paired = (_identify_straddles(chains) \cup _identify_vertical_spreads(chains)) \cup pairs
    BY DEF _identify_option_strategies
  <1>10. t \notin paired
    BY <1>4, <1>5, <1>6, <1>9
  <1> QED
    BY <1>1, <1>2, <1>3, <1>8, <1>10

\* And those chains are the ones by symbol.
LEMMA MarketChains ==
  ASSUME AsStated, NEW tickers, NEW new \in MarketEnrichments(Loaded, tickers), NEW t \in new,
         t[2] = "precedes"
  PROVE  InAChain(t)
  <1>1. t \in _link_snapshot_sequences(Loaded)
    BY MarketPrecedes
  <1>2. RowsOf("symbol") = QuoteRows /\ "symbol" \in ChainNames
    BY DEF RowsOf, ChainNames
  <1> QED
    BY <1>1, <1>2, QuotesSequenced DEF InAChain

\* The alerts' linker chains alerts, by zone.
LEMMA NoaaChains ==
  ASSUME AfterOntology(graph), NEW new \in NoaaEnrichments(Loaded), NEW t \in new, t[2] = "precedes"
  PROVE  InAChain(t)
  <1> DEFINE N == _noaa_triples(Loaded)
  <1>1. \A u \in _link_geographic_relationships(N) \cup _link_event_relationships(N) :
           u[2] \in {"affectsSameRegion", "sameEventType"}
    BY DEF _link_geographic_relationships, _link_event_relationships, Link
  <1>2. \A u \in _classify_event_categories(N) : u[2] \in {"hasEventClassification", "eventOfCategory"}
    BY DEF _classify_event_categories
  <1>3. \A e \in _link_severity_escalations(N) : \A u \in e : u[2] = "escalatesTo"
    BY DEF _link_severity_escalations, Escalates
  <1>4. PICK e \in _link_severity_escalations(N) :
              new = NoaaSequences(N) \cup _link_geographic_relationships(N)
                    \cup _link_event_relationships(N) \cup _classify_event_categories(N) \cup e
    BY DEF NoaaEnrichments
  <1>5. t \in NoaaSequences(N)
    BY <1>1, <1>2, <1>3, <1>4
  <1>6. RowsOf("zone") = AlertRows /\ "zone" \in ChainNames
    BY DEF RowsOf, ChainNames
  <1> QED
    BY <1>5, <1>6, AlertsSequenced DEF InAChain

\* The measurements' chains are of their own nodes.
LEMMA MeasurementsChained ==
  ASSUME NEW m, NEW o \in _link_single_measurement_type(_filter_bls_triples(Loaded), m), NEW t \in o
  PROVE  InAChain(t)
  <1> DEFINE B == _filter_bls_triples(Loaded)
             R == MeasurementRows(B, m)
  <1>1. PICK rows \in TieBreaks(R) : o = sequence_to_triples(rows, "precedes")
    BY DEF _link_single_measurement_type
  <1>2. PICK f : rows = Broken(R, f)
    BY <1>1, TieBreaksAre
  <1>3. \A q \in R : \E b \in B : q.entity = b[1] /\ DOMAIN q = {"entity", "part", "key"}
    <2> SUFFICES ASSUME NEW q \in R PROVE \E b \in B : q.entity = b[1] /\ DOMAIN q = {"entity", "part", "key"}
      OBVIOUS
    <2>1. PICK x \in Rel(B, m[2]) \X Rel(B, m[3]) \X Rel(B, "year") :
             q = [entity |-> x[1][1], part |-> <<m[1], x[1][2]>>, key |-> <<x[3][2][2], x[2][2][2]>>]
      BY DEF MeasurementRows
    <2>2. PICK r \in Rel(B, m[2]) : r = x[1]
      OBVIOUS
    <2>3. PICK b \in B : r = <<b[1], b[3]>>
      BY DEF Rel
    <2>4. q.entity = b[1] /\ DOMAIN q = {"entity", "part", "key"}
      BY <2>1, <2>2, <2>3
    <2> QED
      BY <2>4
  <1> HIDE DEF R
  <1>4. \A r \in rows : \E q \in R : r.entity = q.entity
    <2> SUFFICES ASSUME NEW r \in rows PROVE \E q \in R : r.entity = q.entity
      OBVIOUS
    <2>1. PICK q \in R : r = [q EXCEPT !.key = Append(@, f[q])]
      BY <1>2 DEF Broken
    <2>2. "entity" \in DOMAIN q
      BY <1>3
    <2>3. r.entity = q.entity
      BY <2>1, <2>2
    <2> QED
      BY <2>3
  <1>5. \A b \in B : b[1] \in Ends /\ KindOf(b[1]) \in DOMAIN BlsKinds
    BY DEF _filter_bls_triples, Ends
  <1> HIDE DEF B
  <1>6. \A b \in B : KindOf(b[1]) \notin {"filing", "quote", "alert"}
    BY <1>5, SourcesAssumption
  <1>7. OfOthers(rows)
    BY <1>3, <1>4, <1>5, <1>6, KindsChained DEF OfOthers
  <1> QED
    BY <1>1, <1>7 DEF InAChain

\* The measurements' linker chains nothing else.
LEMMA BlsChains ==
  ASSUME NEW new \in BlsEnrichments(Loaded), NEW t \in new, t[2] = "precedes"
  PROVE  InAChain(t)
  <1> DEFINE B == _filter_bls_triples(Loaded)
  <1>1. PICK seqs \in BlsSequences(B) :
             t \in _apply_sector_patterns(B) \cup _apply_known_correlations(B) \cup seqs
    BY DEF BlsEnrichments
  <1>2. t \notin _apply_sector_patterns(B)
    BY SectorsPrecedeNothing
  <1>3. t \notin _apply_known_correlations(B)
    <2>1. \A u \in _apply_known_correlations(B) : u[2] \in Correlations
      BY CorrelationsWrite DEF Correlations
    <2>2. "precedes" \notin Correlations
      BY TablesAssumption DEF Correlations, PhasePredicates, LinkerPredicates
    <2> QED
      BY <2>1, <2>2
  <1>4. \A u \in seqs : \E m : \E o \in _link_single_measurement_type(B, m) : u \in o
    BY <1>1, SequencedByType
  <1>5. PICK m : \E o \in _link_single_measurement_type(B, m) : t \in o
    BY <1>1, <1>2, <1>3, <1>4
  <1> QED
    BY <1>5, MeasurementsChained

\* What precedes what in an enriched graph is a chain of the linkers'.
LEMMA ChainedByALinker ==
  ASSUME AsStated, AfterOntology(graph), SourcesSpeakForThemselves, NEW t \in graph, t[2] = "precedes"
  PROVE  InAChain(t)
  <1>1. "precedes" \in PhasePredicates
    BY DEF PhasePredicates, LinkerPredicates
  <1>2. t \notin Loaded
    BY DEF SourcesSpeakForThemselves, IsOfASource
  <1>3. ASSUME NEW H, AfterLinkers(H), t \in H
        PROVE  InAChain(t)
    <2>1. PICK new : MayGive(Loaded, new) /\ t \in new
      BY <1>2, <1>3 DEF AfterLinkers, FromLinkers
    <2> QED
      BY <2>1, SecChains, BlsChains, MarketChains, NoaaChains DEF MayGive
  <1>4. ASSUME NEW H, AfterTemporal(H), t \in H
        PROVE  InAChain(t)
    <2>1. PICK K : AfterLinkers(K) /\ H = K \cup TemporalEnrich(K)
      BY <1>4 DEF AfterTemporal
    <2>2. t \notin TemporalEnrich(K)
      BY TemporalWrites DEF ByTemporal, TemporalPredicates
    <2> QED
      BY <1>3, <1>4, <2>1, <2>2
  <1>5. ASSUME NEW H, AfterCross(H), t \in H
        PROVE  InAChain(t)
    <2>1. PICK K : AfterTemporal(K) /\ H = K \cup CrossEnrich(K, TickersOfRun, SubsOfRun)
      BY <1>5 DEF AfterCross
    <2>2. t \notin CrossEnrich(K, TickersOfRun, SubsOfRun)
      BY CrossWrites DEF ByCross, CrossPredicates, HubLinks
    <2> QED
      BY <1>4, <1>5, <2>1, <2>2
  <1>6. ASSUME NEW H, t \in OntologyEnrich(H, job.overrides)
        PROVE  FALSE
    <2>1. t[2] \in OntologyPredicates \cup {m[2] : m \in PROPERTY_MAPPINGS}
      BY <1>6, OntologyWrites
    <2> QED
      BY <1>1, <2>1, TablesAssumption DEF OntologyPredicates
  <1> QED
    BY <1>5, <1>6 DEF AfterOntology

\* The chain: what precedes what.
Chain == Rel(graph, "precedes")

\* A link is from the entity of one row to that of another.
LEMMA LinkOfRows ==
  ASSUME NEW rows, NEW t \in sequence_to_triples(rows, "precedes")
  PROVE  \E pq \in sequence_within_partitions(rows) :
            t[1] = pq[1].entity /\ t[3] = pq[2].entity /\ pq[1] \in rows /\ pq[2] \in rows
  <1>1. PICK pq \in sequence_within_partitions(rows) : t = <<pq[1].entity, "precedes", pq[2].entity>>
    BY DEF sequence_to_triples
  <1>2. pq[1] \in rows /\ pq[2] \in rows
    BY LinksRunForward DEF FirstRows
  <1>3. t[1] = pq[1].entity /\ t[3] = pq[2].entity
    BY <1>1
  <1> QED
    BY <1>2, <1>3

\* A row of one of the four chains is of a loaded node of its kind.
LEMMA RowsAreOfEnds ==
  ASSUME AsStated, NEW of \in ChainNames, NEW r \in RowsOf(of)
  PROVE  r.entity \in UrisOf(KindsOf(of)) /\ r.entity \in Ends
  <1>1. r.entity \in UrisOf(KindsOf(of))
    BY EachIsAStrand DEF Strand, Orderly
  <1>2. \A p \in SourcePredicates : \A g \in Rel(graph, p) : g[1] \in Ends
    BY RelatedIsLoaded DEF Ends
  <1>3. {"hasReportingOwner", "hasIssuer", "symbol", "hasInfo"} \subseteq SourcePredicates
    BY DEF SourcePredicates
  <1>4. ASSUME NEW types, NEW group \in {"hasReportingOwner", "hasIssuer"}, r \in FilingRows(types, group)
        PROVE  r.entity \in Ends
    <2>1. PICK g \in Grouped(types, group) : \E d \in Reported :
             g[1] = d[1] /\ r = Row(g[1], g[2], DateKey(d[2]) \o <<g[1][2]>>)
      BY <1>4, FilingRowIs
    <2>2. r.entity = g[1]
      BY <2>1 DEF Row
    <2> QED
      BY <1>2, <1>3, <2>2 DEF Grouped, OfClass
  <1>5. ASSUME r \in QuoteRows
        PROVE  r.entity \in Ends
    <2>1. PICK g \in Rel(graph, "symbol") : \E d \in Rel(graph, "captureTime") :
             g[1] = d[1] /\ r = Row(g[1], g[2], <<d[2][2], g[1][2]>>)
      BY <1>5, QuoteRowIs
    <2>2. r.entity = g[1]
      BY <2>1 DEF Row
    <2> QED
      BY <1>2, <1>3, <2>2
  <1>6. ASSUME r \in AlertRows
        PROVE  r.entity \in Ends
    <2>1. PICK s \in Sent : \E z \in _alert_geocodes(graph) :
             s[1] = z[1] /\ r = Row(s[1], z[2], <<s[2][2], s[1][2]>>)
      BY <1>6, AlertRowIs
    <2>2. r.entity = s[1]
      BY <2>1 DEF Row
    <2>3. PICK i \in Rel(graph, "hasInfo") : s[1] = i[1]
      <3>1. PICK i \in {q \in Rel(graph, "hasInfo") : q[1] \in Typed(graph, "WeatherAlert")} :
               \E y \in Rel(graph, "hasSentTime") : i[2] = y[1] /\ s = <<i[1], y[2]>>
        BY ViaIs DEF Sent
      <3>2. s[1] = i[1]
        BY <3>1
      <3> QED
        BY <3>2
    <2> QED
      BY <1>2, <1>3, <2>2, <2>3
  <1> QED
    BY <1>1, <1>4, <1>5, <1>6 DEF RowsOf

\* Finitely many things precede another.
LEMMA ChainIsFinite ==
  ASSUME AsStated, AfterOntology(graph), SourcesSpeakForThemselves
  PROVE  IsFiniteSet(Chain)
  <1>1. IsFiniteSet(Ends)
    <2> DEFINE f == [t \in Loaded |-> t[1]]
               g == [t \in Loaded |-> t[3]]
    <2>1. Ends = {f[t] : t \in Loaded} \cup {g[t] : t \in Loaded}
      BY DEF Ends
    <2>2. IsFiniteSet(Loaded)
      BY DEF AsStated
    <2> HIDE DEF f, g
    <2>3. IsFiniteSet({f[t] : t \in Loaded}) /\ IsFiniteSet({g[t] : t \in Loaded})
      BY <2>2, FiniteImage
    <2> QED
      BY <2>1, <2>3, FS_Union
  <1>2. ASSUME NEW t \in graph, t[2] = "precedes"
        PROVE  t[1] \in Ends /\ t[3] \in Ends
    <2>1. InAChain(t)
      BY <1>2, ChainedByALinker
    <2>2. ASSUME NEW of \in ChainNames, t \in sequence_to_triples(RowsOf(of), "precedes")
          PROVE  t[1] \in Ends /\ t[3] \in Ends
      BY <2>2, LinkOfRows, RowsAreOfEnds
    <2>3. ASSUME NEW rows, OfOthers(rows), t \in sequence_to_triples(rows, "precedes")
          PROVE  t[1] \in Ends /\ t[3] \in Ends
      BY <2>3, LinkOfRows DEF OfOthers
    <2> QED
      BY <2>1, <2>2, <2>3 DEF InAChain
  <1>3. Chain \subseteq Ends \X Ends
    BY <1>2 DEF Chain, Rel
  <1> QED
    BY <1>1, <1>3, JoinIsFinite

\* Chains of one kind are by the same instants.
LEMMA KindsAreOfOneTime ==
  ASSUME NEW of \in ChainNames, NEW other \in ChainNames, KindsOf(of) = KindsOf(other)
  PROVE  TimesOf(of) = TimesOf(other) /\ Width(of) = Width(other)
  BY DEF ChainNames, KindsOf, TimesOf, Width

\* And no node is of two kinds.
LEMMA KindsAreApart ==
  ASSUME NEW of \in ChainNames, NEW other \in ChainNames, NEW e \in UrisOf(KindsOf(of)), e \in UrisOf(KindsOf(other))
  PROVE  KindsOf(of) = KindsOf(other)
  BY DEF UrisOf

\* All that precedes what is chained is placed sooner.
LEMMA ChainInTime ==
  ASSUME AsStated, AfterOntology(graph), SourcesSpeakForThemselves, NEW of \in ChainNames
  PROVE  InTime(Chain, KindsOf(of), Width(of), TimesOf(of))
  <1> SUFFICES ASSUME NEW r \in Chain, r[1] \in UrisOf(KindsOf(of))
               PROVE  r[2] \in UrisOf(KindsOf(of)) /\ Sooner(TimesOf(of), Width(of), r[1], r[2])
    BY DEF InTime
  <1>1. PICK t \in graph : t[2] = "precedes" /\ r = <<t[1], t[3]>>
    BY DEF Chain, Rel
  <1>2. InAChain(t) /\ r[1] = t[1] /\ r[2] = t[3]
    BY <1>1, ChainedByALinker
  <1>3. ASSUME NEW rows, OfOthers(rows), t \in sequence_to_triples(rows, "precedes")
        PROVE  FALSE
    <2>1. KindOf(t[1]) \notin {KindsOf(x) : x \in ChainNames}
      BY <1>3, LinkOfRows DEF OfOthers
    <2>2. KindOf(r[1]) = KindsOf(of)
      BY DEF UrisOf, KindOf
    <2> QED
      BY <1>2, <2>1, <2>2
  <1>4. PICK other \in ChainNames : t \in sequence_to_triples(RowsOf(other), "precedes")
    BY <1>2, <1>3 DEF InAChain
  <1>5. PICK pq \in sequence_within_partitions(RowsOf(other)) :
           t[1] = pq[1].entity /\ t[3] = pq[2].entity /\ pq[1] \in RowsOf(other) /\ pq[2] \in RowsOf(other)
    BY <1>4, LinkOfRows
  <1>6. t[1] \in UrisOf(KindsOf(other)) /\ t[3] \in UrisOf(KindsOf(other))
    BY <1>5, RowsAreOfEnds
  <1>7. KindsOf(other) = KindsOf(of)
    BY <1>2, <1>6, KindsAreApart
  <1>8. TimesOf(other) = TimesOf(of) /\ Width(other) = Width(of)
    BY <1>7, KindsAreOfOneTime
  <1>9. Sooner(TimesOf(other), Width(other), t[1], t[3])
    BY <1>5, EachIsAStrand, LinkedIsSooner
  <1> QED
    BY <1>2, <1>6, <1>7, <1>8, <1>9

\* What is drawn of one group: a member at each of its instants.
LEMMA InGroupIs ==
  ASSUME NEW of, NEW members, NEW dated, NEW c
  PROVE  c \in InGroup(of, members, dated) <=>
            \E g \in members : \E d \in dated : g[1] = d[1] /\ c = <<g[1], <<of, g[2]>>, d[2]>>
  <1>1. ASSUME NEW g \in members, NEW d \in dated, g[1] = d[1], c = <<g[1], <<of, g[2]>>, d[2]>>
        PROVE  c \in InGroup(of, members, dated)
    <2> DEFINE x == <<g, d>>
    <2>1. x \in members \X dated /\ x[1] = g /\ x[2] = d
      OBVIOUS
    <2> HIDE DEF x
    <2> QED
      BY <1>1, <2>1 DEF InGroup
  <1>2. ASSUME c \in InGroup(of, members, dated)
        PROVE  \E g \in members : \E d \in dated : g[1] = d[1] /\ c = <<g[1], <<of, g[2]>>, d[2]>>
    <2>1. PICK x \in members \X dated : x[1][1] = x[2][1] /\ c = <<x[1][1], <<of, x[1][2]>>, x[2][2]>>
      BY <1>2 DEF InGroup
    <2> QED
      BY <2>1
  <1> QED
    BY <1>1, <1>2

\* The members of each of the four.
MembersOf(of) ==
    IF of = "owner" THEN Grouped({"Form4"}, "hasReportingOwner")
    ELSE IF of = "issuer" THEN Grouped({"Form8K", "Form10Q", "Form10K"}, "hasIssuer")
    ELSE IF of = "symbol" THEN OfClass(Rel(graph, "symbol"), {"EquitySnapshot", "OptionSnapshot"})
    ELSE OfClass(_alert_geocodes(graph), {"WeatherAlert"})
LinkerOf(of) == IF of = "symbol" THEN 3 ELSE IF of = "zone" THEN 4 ELSE 2
DrawnOf(of) == InGroup(of, MembersOf(of), TimesOf(of))

\* What is chained is drawn of one of the four, whose linker did not raise.
LEMMA ChainedIsDrawn ==
  ASSUME NEW c
  PROVE  c \in Chained <=> \E of \in ChainNames : Whole(REGISTERED[LinkerOf(of)]) /\ c \in DrawnOf(of)
  <1>1. /\ REGISTERED[LinkerOf("owner")] = "sec" /\ REGISTERED[LinkerOf("issuer")] = "sec"
        /\ REGISTERED[LinkerOf("symbol")] = "market" /\ REGISTERED[LinkerOf("zone")] = "noaa"
    BY DEF REGISTERED, LinkerOf
  <1>2. /\ DrawnOf("owner") = InGroup("owner", OfClass(Rel(graph, "hasReportingOwner"), {"Form4"}),
                                      Dates("hasPeriodOfReport"))
        /\ DrawnOf("issuer") = InGroup("issuer", OfClass(Rel(graph, "hasIssuer"), {"Form8K", "Form10Q", "Form10K"}),
                                       Dates("hasPeriodOfReport"))
        /\ DrawnOf("symbol") = InGroup("symbol", OfClass(Rel(graph, "symbol"), {"EquitySnapshot", "OptionSnapshot"}),
                                       Instants("captureTime"))
        /\ DrawnOf("zone") = InGroup("zone", OfClass(_alert_geocodes(graph), {"WeatherAlert"}), AlertTimes)
    BY DEF DrawnOf, MembersOf, TimesOf, Grouped
  <1>3. Chained =
           (IF ~Whole("sec") THEN {} ELSE DrawnOf("owner") \cup DrawnOf("issuer"))
           \cup (IF ~Whole("market") THEN {} ELSE DrawnOf("symbol"))
           \cup (IF ~Whole("noaa") THEN {} ELSE DrawnOf("zone"))
    BY <1>2 DEF Chained, AlertTimes
  <1> QED
    BY <1>1, <1>3 DEF ChainNames

\* What is drawn of a chain has a row there, and is of its kind and its instants.
LEMMA DrawnHasARow ==
  ASSUME AsStated, NEW of \in ChainNames, NEW c \in DrawnOf(of)
  PROVE  /\ c[2][1] = of /\ <<c[1], c[3]>> \in TimesOf(of)
         /\ \E r \in RowsOf(of) : r.entity = c[1] /\ r.part = c[2][2]
  <1>1. PICK g \in MembersOf(of) : \E d \in TimesOf(of) : g[1] = d[1] /\ c = <<g[1], <<of, g[2]>>, d[2]>>
    BY InGroupIs DEF DrawnOf
  <1>2. PICK d \in TimesOf(of) : g[1] = d[1] /\ c = <<g[1], <<of, g[2]>>, d[2]>>
    BY <1>1
  <1>3. c[1] = g[1] /\ c[2][1] = of /\ c[2][2] = g[2] /\ c[3] = d[2]
    BY <1>2
  <1>4. ASSUME NEW types, NEW group, g \in Grouped(types, group), TimesOf(of) = Dates("hasPeriodOfReport")
        PROVE  /\ d = <<d[1], d[2]>>
               /\ \E r \in FilingRows(types, group) : r.entity = g[1] /\ r.part = g[2]
    <2>1. PICK x \in Reported : d = <<x[1], DateKey(x[2])>>
      BY <1>4, DatesAreReported
    <2>2. g[1] = x[1]
      BY <1>2, <2>1
    <2>3. PICK r : r = Row(g[1], g[2], DateKey(x[2]) \o <<g[1][2]>>)
      OBVIOUS
    <2>4. r \in FilingRows(types, group)
      BY <1>4, <2>2, <2>3, FilingRowIs
    <2>5. r.entity = g[1] /\ r.part = g[2]
      BY <2>3 DEF Row
    <2>6. d = <<d[1], d[2]>>
      BY <2>1
    <2> QED
      BY <2>4, <2>5, <2>6
  <1>5. ASSUME g \in Rel(graph, "symbol"), TimesOf(of) = Instants("captureTime")
        PROVE  /\ d = <<d[1], d[2]>>
               /\ \E r \in QuoteRows : r.entity = g[1] /\ r.part = g[2]
    <2>1. PICK x \in Rel(graph, "captureTime") : d = <<x[1], <<x[2][2]>>>>
      BY <1>5, InstantIs
    <2>2. g[1] = x[1]
      BY <1>2, <2>1
    <2>3. PICK r : r = Row(g[1], g[2], <<x[2][2], g[1][2]>>)
      OBVIOUS
    <2>4. r \in QuoteRows
      BY <1>5, <2>2, <2>3, QuoteRowIs
    <2>5. r.entity = g[1] /\ r.part = g[2]
      BY <2>3 DEF Row
    <2>6. d = <<d[1], d[2]>>
      BY <2>1
    <2> QED
      BY <2>4, <2>5, <2>6
  <1>6. ASSUME g \in _alert_geocodes(graph), g[1] \in Typed(graph, "WeatherAlert"), TimesOf(of) = AlertTimes
        PROVE  /\ d = <<d[1], d[2]>>
               /\ \E r \in AlertRows : r.entity = g[1] /\ r.part = g[2]
    <2>1. PICK s \in Sent : s[1] = d[1] /\ d[2] = <<s[2][2]>>
      BY <1>2, <1>6, DatedIsSent
    <2>2. PICK r : r = Row(s[1], g[2], <<s[2][2], s[1][2]>>)
      OBVIOUS
    <2>3. r \in AlertRows
      BY <1>2, <1>6, <2>1, <2>2, AlertRowIs
    <2>4. r.entity = g[1] /\ r.part = g[2]
      BY <1>2, <2>1, <2>2 DEF Row
    <2>5. PICK i \in Rel(graph, "hasInfo") : \E y \in Instants("hasSentTime") : i[2] = y[1] /\ d = <<i[1], y[2]>>
      BY <1>6, ViaIs DEF AlertTimes
    <2>6. d = <<d[1], d[2]>>
      BY <2>5
    <2> QED
      BY <2>3, <2>4, <2>6
  <1>7. d = <<d[1], d[2]>> /\ \E r \in RowsOf(of) : r.entity = g[1] /\ r.part = g[2]
    <2>1. CASE of = "owner"
      BY <1>4, <2>1 DEF MembersOf, TimesOf, RowsOf
    <2>2. CASE of = "issuer"
      BY <1>4, <2>2 DEF MembersOf, TimesOf, RowsOf
    <2>3. CASE of = "symbol"
      BY <1>5, <2>3 DEF MembersOf, TimesOf, RowsOf, OfClass
    <2>4. CASE of = "zone"
      <3>1. g \in _alert_geocodes(graph) /\ g[1] \in Typed(graph, "WeatherAlert")
        BY <2>4 DEF MembersOf, OfClass, TypedAny
      <3> QED
        BY <1>6, <2>4, <3>1 DEF TimesOf, RowsOf
    <2> QED
      BY <2>1, <2>2, <2>3, <2>4 DEF ChainNames
  <1> QED
    BY <1>2, <1>3, <1>7

\* And it is drawn at each of its instants.
LEMMA DrawnAtEach ==
  ASSUME NEW of, NEW c \in DrawnOf(of), NEW x \in TimesOf(of), x[1] = c[1]
  PROVE  \E d \in DrawnOf(of) : d[1] = c[1] /\ d[3] = x[2]
  <1>1. PICK g \in MembersOf(of) : \E d \in TimesOf(of) : g[1] = d[1] /\ c = <<g[1], <<of, g[2]>>, d[2]>>
    BY InGroupIs DEF DrawnOf
  <1>2. c[1] = g[1]
    BY <1>1
  <1>3. PICK d : d = <<g[1], <<of, g[2]>>, x[2]>>
    OBVIOUS
  <1>4. d \in DrawnOf(of)
    BY <1>2, <1>3, InGroupIs DEF DrawnOf
  <1>5. d[1] = c[1] /\ d[3] = x[2]
    BY <1>2, <1>3
  <1> QED
    BY <1>4, <1>5

\* Where there is something to draw, its linker had something to link.
LEMMA DrawnIsDetected ==
  ASSUME AsStated, AfterOntology(graph), NEW of \in ChainNames, NEW c \in DrawnOf(of)
  PROVE  /\ of \in {"owner", "issuer"} => _detect_datasets(Loaded)
         /\ of = "symbol" => TypedAny(Loaded, {"EquitySnapshot", "OptionSnapshot"}) # {}
         /\ of = "zone" => _build_alert_info(_noaa_triples(Loaded)) # {}
  <1>1. PICK g \in MembersOf(of) : \E d \in TimesOf(of) : g[1] = d[1] /\ c = <<g[1], <<of, g[2]>>, d[2]>>
    BY InGroupIs DEF DrawnOf
  <1>2. ASSUME NEW types, types \subseteq SourceClasses, g[1] \in TypedAny(graph, types)
        PROVE  TypedAny(Loaded, types) # {}
    <2>1. PICK k \in types : g[1] \in Typed(graph, k)
      BY <1>2 DEF TypedAny
    <2>2. g[1] \in Typed(Loaded, k)
      BY <1>2, <2>1 DEF AsStated
    <2> QED
      BY <2>1, <2>2 DEF TypedAny
  <1>3. CASE of \in {"owner", "issuer"}
    <2>1. g[1] \in TypedAny(graph, {"Form4", "Form8K", "Form10Q", "Form10K"})
      BY <1>3 DEF MembersOf, Grouped, OfClass, TypedAny
    <2>2. FilingTypes = {"Form4", "Form8K", "Form10Q", "Form10K"} /\ FilingTypes \subseteq SourceClasses
      BY DEF FilingTypes, SourceClasses
    <2> QED
      BY <1>2, <1>3, <2>1, <2>2 DEF _detect_datasets
  <1>4. CASE of = "symbol"
    <2>1. g[1] \in TypedAny(graph, {"EquitySnapshot", "OptionSnapshot"})
      BY <1>4 DEF MembersOf, OfClass
    <2>2. {"EquitySnapshot", "OptionSnapshot"} \subseteq SourceClasses
      BY DEF SourceClasses
    <2> QED
      BY <1>2, <1>4, <2>1, <2>2
  <1>5. CASE of = "zone"
    <2>1. g \in _alert_geocodes(graph) /\ g[1] \in Typed(graph, "WeatherAlert")
      BY <1>5 DEF MembersOf, OfClass, TypedAny
    <2>2. PICK a \in Via(Rel(graph, "hasInfo"), Rel(graph, "hasArea")) : a[1] = g[1]
      <3> DEFINE areas == Via(Rel(graph, "hasInfo"), Rel(graph, "hasArea"))
                 codes == Rel(graph, "hasFIPSCode") \cup Rel(graph, "hasSAMECode")
      <3>1. g \in Via(Via(areas, Rel(graph, "hasGeocode")), codes)
        BY <2>1 DEF _alert_geocodes
      <3> HIDE DEF areas, codes
      <3>2. PICK b \in Via(areas, Rel(graph, "hasGeocode")) : \E s \in codes : b[2] = s[1] /\ g = <<b[1], s[2]>>
        BY <3>1, ViaIs
      <3>3. PICK a \in areas : \E s \in Rel(graph, "hasGeocode") : a[2] = s[1] /\ b = <<a[1], s[2]>>
        BY ViaIs
      <3>4. a[1] = g[1]
        BY <3>2, <3>3
      <3> QED
        BY <3>4 DEF areas
    <2>3. PICK i \in Rel(graph, "hasInfo") : \E s \in Rel(graph, "hasArea") : i[2] = s[1] /\ a = <<i[1], s[2]>>
      BY ViaIs
    <2>4. i[1] = g[1]
      BY <2>2, <2>3
    <2>5. SameAlerts(_noaa_triples(Loaded), graph)
      BY AlertsAreAsLoaded
    <2>6. i \in _build_alert_info(_noaa_triples(Loaded))
      BY <2>1, <2>4, <2>5 DEF _build_alert_info, SameAlerts, AlertFacts
    <2> QED
      BY <1>5, <2>6
  <1> QED
    BY <1>3, <1>4, <1>5 DEF ChainNames

\* The links of a chain are in the graph, where its linker did not raise.
LEMMA ChainIsInTheGraph ==
  ASSUME PhaseInv, LinkersAreIn, stage = "enriched", AsStated, AfterOntology(graph),
         NEW of \in ChainNames, Whole(REGISTERED[LinkerOf(of)]), NEW c \in DrawnOf(of),
         NEW t \in sequence_to_triples(RowsOf(of), "precedes")
  PROVE  t \in graph
  <1>1. REGISTERED[2] = "sec" /\ REGISTERED[3] = "market" /\ REGISTERED[4] = "noaa" /\ LinkerOf(of) \in 1..4
    BY DEF REGISTERED, LinkerOf
  <1>2. PICK new : Gives(REGISTERED[LinkerOf(of)], new) /\ new \subseteq graph
    BY <1>1, GivenIsInTheGraph
  <1>3. Loaded \subseteq graph
    BY LoadedStays
  <1>4. CASE of \in {"owner", "issuer"}
    <2>1. new \in SecEnrichments(Loaded) /\ _detect_datasets(Loaded)
      BY <1>1, <1>2, <1>4, DrawnIsDetected DEF Gives, LinkerOf
    <2>2. t \in _link_temporal_sequences(OfFilings)
      BY <1>4, FilingsChained DEF _link_temporal_sequences
    <2>3. t \in new \cup Loaded
      BY <2>1, <2>2 DEF SecEnrichments, OfFilings
    <2> QED
      BY <1>2, <1>3, <2>3
  <1>5. CASE of = "symbol"
    <2>1. PICK tickers : new \in MarketEnrichments(Loaded, tickers)
      BY <1>1, <1>2, <1>5 DEF Gives, LinkerOf
    <2>2. TypedAny(Loaded, {"EquitySnapshot", "OptionSnapshot"}) # {}
      BY <1>5, DrawnIsDetected
    <2>3. _link_snapshot_sequences(Loaded) \subseteq new
      BY <2>1, <2>2 DEF MarketEnrichments
    <2>4. RowsOf(of) = QuoteRows
      BY <1>5 DEF RowsOf
    <2> QED
      BY <1>2, <2>3, <2>4, QuotesSequenced
  <1>6. CASE of = "zone"
    <2>1. new \in NoaaEnrichments(Loaded)
      BY <1>1, <1>2, <1>6 DEF Gives, LinkerOf
    <2>2. _build_alert_info(_noaa_triples(Loaded)) # {}
      BY <1>6, DrawnIsDetected
    <2>3. NoaaSequences(_noaa_triples(Loaded)) \subseteq new
      BY <2>1, <2>2 DEF NoaaEnrichments
    <2>4. RowsOf(of) = AlertRows
      BY <1>6 DEF RowsOf
    <2> QED
      BY <1>2, <2>3, <2>4, AlertsSequenced
  <1> QED
    BY <1>4, <1>5, <1>6 DEF ChainNames

\* So one entity of a link precedes the other in it.
LEMMA LinksAreInTheGraph ==
  ASSUME PhaseInv, LinkersAreIn, stage = "enriched", AsStated, AfterOntology(graph),
         NEW of \in ChainNames, Whole(REGISTERED[LinkerOf(of)]), NEW c \in DrawnOf(of),
         NEW pq \in sequence_within_partitions(RowsOf(of))
  PROVE  <<pq[1].entity, pq[2].entity>> \in Chain
  <1>1. <<pq[1].entity, "precedes", pq[2].entity>> \in sequence_to_triples(RowsOf(of), "precedes")
    BY DEF sequence_to_triples
  <1>2. <<pq[1].entity, "precedes", pq[2].entity>> \in graph
    BY <1>1, ChainIsInTheGraph
  <1> QED
    BY <1>2, PairedByRel DEF Chain

\* What is drawn is of its chain's kind.
LEMMA DrawnIsOfItsKind ==
  ASSUME AsStated, NEW of \in ChainNames, NEW c \in DrawnOf(of)
  PROVE  c[1] \in UrisOf(KindsOf(of))
  <1>1. PICK r \in RowsOf(of) : r.entity = c[1]
    BY DrawnHasARow
  <1> QED
    BY <1>1, RowsAreOfEnds

\* The first instant of what is chained.
FirstOf(e) ==
    CHOOSE k \in {c[3] : c \in {x \in Chained : x[1] = e}} :
        \A c \in Chained : c[1] = e => ~Before(c[3], k)

\* The first instant of what is chained is its earliest one.
LEMMA FirstIsEarliest ==
  ASSUME AsStated, NEW of \in ChainNames, Whole(REGISTERED[LinkerOf(of)]), NEW c \in DrawnOf(of)
  PROVE  Earliest(TimesOf(of), c[1], FirstOf(c[1]))
  <1> DEFINE e == c[1]
             D == TimesOf(of)
             S == {b[3] : b \in {x \in Chained : x[1] = e}}
  <1>1. ASSUME NEW b \in Chained, b[1] = e
        PROVE  <<e, b[3]>> \in D
    <2>1. PICK other \in ChainNames : b \in DrawnOf(other)
      BY ChainedIsDrawn
    <2>2. e \in UrisOf(KindsOf(of))
      BY DrawnIsOfItsKind
    <2>3. b[1] \in UrisOf(KindsOf(other))
      BY <2>1, DrawnIsOfItsKind
    <2>4. e \in UrisOf(KindsOf(other))
      BY <1>1, <2>3
    <2>5. D = TimesOf(other)
      <3> HIDE DEF e
      <3> QED
        BY <2>2, <2>4, KindsAreApart, KindsAreOfOneTime
    <2> QED
      BY <1>1, <2>1, <2>5, DrawnHasARow
  <1>2. ASSUME NEW x \in D, x[1] = e
        PROVE  \E b \in Chained : b[1] = e /\ b[3] = x[2]
    BY <1>2, DrawnAtEach, ChainedIsDrawn
  <1>3. PICK k : Earliest(D, e, k)
    <2>1. PICK r \in RowsOf(of) : r.entity = e
      BY DrawnHasARow
    <2>2. PICK q \in FirstRows(RowsOf(of)) : q.entity = e
      BY <2>1, EachIsAStrand, FirstRowThere DEF Strand
    <2>3. Place(D, Width(of), e, q.key)
      BY <2>2, EachIsAStrand, FirstRowIsItsPlace
    <2> QED
      BY <2>3 DEF Place
  <1> HIDE DEF D, e
  <1>4. k \in S /\ \A b \in Chained : b[1] = e => ~Before(b[3], k)
    <2>1. <<e, k>> \in D /\ <<e, k>>[1] = e /\ <<e, k>>[2] = k
      BY <1>3 DEF Earliest
    <2>2. PICK b \in Chained : b[1] = e /\ b[3] = k
      BY <1>2, <2>1
    <2>3. ASSUME NEW a \in Chained, a[1] = e
          PROVE  ~Before(a[3], k)
      <3>1. <<e, a[3]>> \in D /\ <<e, a[3]>>[1] = e /\ <<e, a[3]>>[2] = a[3]
        BY <1>1, <2>3
      <3> QED
        BY <1>3, <3>1 DEF Earliest
    <2> QED
      BY <2>2, <2>3
  <1>5. FirstOf(e) \in S /\ \A b \in Chained : b[1] = e => ~Before(b[3], FirstOf(e))
    BY <1>4 DEF FirstOf
  <1>6. PICK l : l = FirstOf(e)
    OBVIOUS
  <1>7. Earliest(D, e, l)
    <2>1. PICK b \in Chained : b[1] = e /\ b[3] = l
      BY <1>5, <1>6
    <2>2. <<e, l>> \in D
      BY <1>1, <2>1
    <2>3. ASSUME NEW x \in D, x[1] = e
          PROVE  ~Before(x[2], l)
      BY <1>2, <1>5, <1>6, <2>3
    <2> QED
      BY <2>2, <2>3 DEF Earliest
  <1> QED
    BY <1>6, <1>7 DEF D, e

\* Every two dated entities of one group are in one order and only in one, over
\* all rows the joins repeat, whichever rows tie; and no link runs back in time.
THEOREM ChainsAreInOneOrder == Spec => []ChainsAreTotal
  <1>1. ASSUME PhaseInv, LinkersAreIn, JobIsGiven, IInv
        PROVE  ChainsAreTotal
    <2> SUFFICES ASSUME stage = "enriched"
                 PROVE  ChainsAreTotal
      BY DEF ChainsAreTotal, Enriched
    <2>1. stage # Idle /\ OfTriplesMode
      BY <1>1 DEF IInv, StageAndMode, OfTriplesMode, Idle
    <2>2. SourcesSpeakForThemselves
      BY <1>1, <2>1, LoadedIsTheSources
    <2>3. AfterOntology(graph)
      BY <1>1 DEF PhaseInv
    <2>4. AsStated
      BY <1>1, <2>1, <2>3, EnrichedAsStated
    <2> DEFINE After == [e \in {c[1] : c \in Chained} |-> Reach(Chain, e)]
    <2>5. ASSUME NEW c \in Chained, NEW d \in Chained, c[1] # d[1], c[2] = d[2]
          PROVE  (d[1] \in After[c[1]]) # (c[1] \in After[d[1]])
      <3>1. PICK of \in ChainNames : Whole(REGISTERED[LinkerOf(of)]) /\ c \in DrawnOf(of)
        BY ChainedIsDrawn
      <3>2. PICK other \in ChainNames : d \in DrawnOf(other)
        BY ChainedIsDrawn
      <3>3. of = other
        <4>1. c[2][1] = of
          BY <2>4, <3>1, DrawnHasARow
        <4>2. d[2][1] = other
          BY <2>4, <3>2, DrawnHasARow
        <4> QED
          BY <2>5, <4>1, <4>2
      <3>4. PICK r \in RowsOf(of) : r.entity = c[1] /\ r.part = c[2][2]
        BY <2>4, <3>1, DrawnHasARow
      <3>5. PICK q \in RowsOf(of) : q.entity = d[1] /\ q.part = d[2][2]
        BY <2>4, <3>2, <3>3, DrawnHasARow
      <3>6. \A pq \in sequence_within_partitions(RowsOf(of)) : <<pq[1].entity, pq[2].entity>> \in Chain
        BY <1>1, <2>3, <2>4, <3>1, LinksAreInTheGraph
      <3>7. /\ Instant(TimesOf(of), Width(of)) /\ Strand(RowsOf(of), KindsOf(of), Width(of), TimesOf(of))
            /\ IsFiniteSet(Chain) /\ InTime(Chain, KindsOf(of), Width(of), TimesOf(of))
        BY <2>2, <2>3, <2>4, EachIsAStrand, ChainIsFinite, ChainInTime
      <3>8. r.part = q.part /\ r.entity # q.entity
        BY <2>5, <3>4, <3>5
      <3>9. (q.entity \in Reach(Chain, r.entity)) # (r.entity \in Reach(Chain, q.entity))
        BY <3>6, <3>7, <3>8, ChainIsTotal
      <3>10. After[c[1]] = Reach(Chain, c[1]) /\ After[d[1]] = Reach(Chain, d[1])
        OBVIOUS
      <3> QED
        BY <3>4, <3>5, <3>9, <3>10
    <2>6. ASSUME NEW r \in Chain, {r[1], r[2]} \subseteq DOMAIN After
          PROVE  ~Before(FirstOf(r[2]), FirstOf(r[1]))
      <3>1. PICK c \in Chained : r[1] = c[1]
        BY <2>6
      <3>2. PICK d \in Chained : r[2] = d[1]
        BY <2>6
      <3> HIDE DEF After
      <3>3. PICK of \in ChainNames : Whole(REGISTERED[LinkerOf(of)]) /\ c \in DrawnOf(of)
        BY ChainedIsDrawn
      <3>4. PICK other \in ChainNames : Whole(REGISTERED[LinkerOf(other)]) /\ d \in DrawnOf(other)
        BY ChainedIsDrawn
      <3>5. r[1] \in UrisOf(KindsOf(of)) /\ r[2] \in UrisOf(KindsOf(other))
        BY <2>4, <3>1, <3>2, <3>3, <3>4, DrawnIsOfItsKind
      <3>6. InTime(Chain, KindsOf(of), Width(of), TimesOf(of))
        BY <2>2, <2>3, <2>4, ChainInTime
      <3>7. r[2] \in UrisOf(KindsOf(of)) /\ Sooner(TimesOf(of), Width(of), r[1], r[2])
        BY <3>5, <3>6 DEF InTime
      <3>8. TimesOf(of) = TimesOf(other)
        BY <3>5, <3>7, KindsAreApart, KindsAreOfOneTime
      <3>9. Earliest(TimesOf(of), r[1], FirstOf(r[1])) /\ Earliest(TimesOf(of), r[2], FirstOf(r[2]))
        BY <2>4, <3>1, <3>2, <3>3, <3>4, <3>8, FirstIsEarliest
      <3>10. Instant(TimesOf(of), Width(of))
        BY <2>4, EachIsAStrand
      <3> QED
        BY <3>7, <3>9, <3>10, LinkedIsNotEarlier
    <2>7. ChainsAreTotal <=>
             /\ \A c, d \in Chained : c[1] # d[1] /\ c[2] = d[2] =>
                   (d[1] \in After[c[1]]) # (c[1] \in After[d[1]])
             /\ \A r \in Chain : {r[1], r[2]} \subseteq DOMAIN After => ~Before(FirstOf(r[2]), FirstOf(r[1]))
      BY DEF ChainsAreTotal, Enriched, Chain, FirstOf
    <2> HIDE DEF After
    <2> QED
      BY <2>5, <2>6, <2>7
  <1>2. Init => QueueOfSettings /\ JobIsGiven /\ LinkersAreIn
    BY SettingsAssumption, NothingIsGivenYet DEF Init, QueueOfSettings, JobIsGiven, Idle
  <1> QED
    BY <1>1, <1>2, StepQueue, StepJob, GivenStaysIn, Invariance, GraphIsMadeInPhases, PTL DEF Spec
==============================================================================
