------------------------- MODULE HeteroBuildProofs -------------------------
(***************************************************************************)
(* HeteroBuild, for any set of triples, names, configuration and budgets.  *)
(*                                                                         *)
(* The code numbers rows by counting: row_number() minus one is the number *)
(* of rows that sort before. That such numbers are 0, 1, 2, ... without a  *)
(* gap, each given once, is the lemma Placing, by the pigeonhole principle; *)
(* it also yields that a finite order has a first element, which is why    *)
(* every typed entity has a row of rank 1.                                 *)
(*                                                                         *)
(* The second half is about the rows of features. A tensor is written in   *)
(* ranges. Its invariant says that the rows before the next range are      *)
(* already what they should be in the end; the lemma Scattered says what   *)
(* one more range does, for node types and edge types alike, from one fact *)
(* about their entries: there is one for every row.                        *)
(***************************************************************************)
EXTENDS HeteroBuild, FiniteSetTheorems, SequenceTheorems, TLAPS

(* ------------------------------- orders -------------------------------- *)

\* What of S comes before x in the order R.
Below(S, R, x) == {y \in S : <<y, x>> \in R}

TotalOrder(S, R) ==
    /\ \A x \in S : <<x, x>> \notin R
    /\ \A x, y, z \in S : <<x, y>> \in R /\ <<y, z>> \in R => <<x, z>> \in R
    /\ \A x, y \in S : x = y \/ <<x, y>> \in R \/ <<y, x>> \in R

\* The places of the elements of a finite order are all the numbers below
\* its size, each of them once.
LEMMA Placing ==
    ASSUME NEW S, IsFiniteSet(S), NEW R, TotalOrder(S, R)
    PROVE  /\ \A x \in S : Cardinality(Below(S, R, x)) \in 0..(Cardinality(S) - 1)
           /\ \A x, y \in S : <<x, y>> \in R =>
                 Cardinality(Below(S, R, x)) < Cardinality(Below(S, R, y))
           /\ \A x, y \in S :
                 Cardinality(Below(S, R, x)) = Cardinality(Below(S, R, y)) => x = y
           /\ \A i \in 0..(Cardinality(S) - 1) :
                 \E x \in S : Cardinality(Below(S, R, x)) = i
<1> DEFINE place == [x \in S |-> Cardinality(Below(S, R, x))]
           slots == 0..(Cardinality(S) - 1)
<1>1. Cardinality(S) \in Nat
  BY FS_CardinalityType
<1>2. \A x \in S : /\ IsFiniteSet(Below(S, R, x))
                   /\ Cardinality(Below(S, R, x)) \in Nat
  BY FS_Subset, FS_CardinalityType DEF Below
<1>3. ASSUME NEW x \in S, NEW y \in S, <<x, y>> \in R
      PROVE  Cardinality(Below(S, R, x)) < Cardinality(Below(S, R, y))
  <2>1. Below(S, R, x) \subseteq Below(S, R, y)
    BY <1>3 DEF Below, TotalOrder
  <2>2. x \in Below(S, R, y) /\ x \notin Below(S, R, x)
    BY <1>3 DEF Below, TotalOrder
  <2>3. /\ Cardinality(Below(S, R, x)) <= Cardinality(Below(S, R, y))
        /\ Cardinality(Below(S, R, y)) = Cardinality(Below(S, R, x))
              => Below(S, R, y) = Below(S, R, x)
    <3> DEFINE Bx == Below(S, R, x)  By == Below(S, R, y)
    <3> HIDE DEF Bx, By
    <3>1. IsFiniteSet(By) /\ Bx \in SUBSET By
      BY <1>2, <2>1 DEF Bx, By
    <3>2. Cardinality(Bx) <= Cardinality(By) /\ (Cardinality(By) = Cardinality(Bx) => By = Bx)
      BY <3>1, FS_Subset
    <3> QED BY <3>2 DEF Bx, By
  <2> QED BY <1>2, <2>2, <2>3
<1>4. ASSUME NEW x \in S PROVE Cardinality(Below(S, R, x)) \in slots
  <2>1. Below(S, R, x) \in SUBSET S /\ x \in S \ Below(S, R, x)
    BY DEF Below, TotalOrder
  <2>2. Cardinality(Below(S, R, x)) <= Cardinality(S)
        /\ Cardinality(Below(S, R, x)) # Cardinality(S)
    <3> DEFINE Bx == Below(S, R, x)
    <3> HIDE DEF Bx
    <3>1. Bx \in SUBSET S /\ Bx # S
      BY <2>1 DEF Bx
    <3>2. Cardinality(Bx) <= Cardinality(S) /\ Cardinality(Bx) # Cardinality(S)
      BY <3>1, FS_Subset
    <3> QED BY <3>2 DEF Bx
  <2> QED BY <1>1, <1>2, <2>2
<1>5. ASSUME NEW x \in S, NEW y \in S,
             Cardinality(Below(S, R, x)) = Cardinality(Below(S, R, y))
      PROVE  x = y
  <2>1. <<x, y>> \notin R /\ <<y, x>> \notin R
    BY <1>2, <1>3, <1>5
  <2> QED BY <2>1 DEF TotalOrder
<1>6. place \in Injection(S, slots)
  BY <1>4, <1>5 DEF Injection, IsInjective
<1>7. place \in Surjection(S, slots)
  <2>1. IsFiniteSet(slots) /\ Cardinality(slots) = Cardinality(S)
    <3>1. PICK n \in Nat : n = Cardinality(S)
      BY <1>1
    <3>2. slots = 0..(n - 1) /\ 0 \in Int /\ n - 1 \in Int
      BY <3>1
    <3>3. IsFiniteSet(0..(n - 1)) /\ Cardinality(0..(n - 1)) = IF 0 > n - 1 THEN 0 ELSE n - 1 - 0 + 1
      BY <3>2, FS_Interval
    <3>4. (IF 0 > n - 1 THEN 0 ELSE n - 1 - 0 + 1) = n
      OBVIOUS
    <3> QED
      BY <3>1, <3>2, <3>3, <3>4
  <2> HIDE DEF place, slots
  <2> QED BY <1>6, <2>1, FS_Injection
<1>8. \A i \in slots : \E x \in S : Cardinality(Below(S, R, x)) = i
  BY <1>7 DEF Surjection
<1> QED BY <1>3, <1>4, <1>5, <1>8

\* A finite order that is not empty has a first element.
LEMMA First ==
    ASSUME NEW S, IsFiniteSet(S), S # {}, NEW R, TotalOrder(S, R)
    PROVE  \E x \in S : \A y \in S \ {x} : <<x, y>> \in R
<1>1. Cardinality(S) \in Nat /\ Cardinality(S) # 0
  BY FS_CardinalityType, FS_EmptySet
<1>2. PICK x \in S : Cardinality(Below(S, R, x)) = 0
  BY <1>1, Placing
<1>3. Below(S, R, x) = {}
  BY <1>2, FS_Subset, FS_EmptySet DEF Below
<1> QED BY <1>3 DEF Below, TotalOrder

\* A one-to-one image of a finite set has its size.
LEMMA SameSize ==
    ASSUME NEW S, IsFiniteSet(S), NEW f, DOMAIN f = S, f = [x \in S |-> f[x]],
           \A x, y \in S : f[x] = f[y] => x = y
    PROVE  /\ IsFiniteSet({f[x] : x \in S})
           /\ Cardinality({f[x] : x \in S}) = Cardinality(S)
<1> DEFINE T == {f[x] : x \in S}
<1>1. f \in Bijection(S, T)
  BY DEF Bijection, Injection, Surjection, IsInjective
<1>2. ExistsBijection(S, T)
  BY <1>1 DEF ExistsBijection
<1> HIDE DEF T
<1>3. IsFiniteSet(T) /\ Cardinality(T) = Cardinality(S)
  BY <1>2, FS_Bijection
<1> QED BY <1>3 DEF T

LEMMA ImageIsFinite ==
    ASSUME NEW S, IsFiniteSet(S), NEW f, f = [x \in S |-> f[x]]
    PROVE  IsFiniteSet({f[x] : x \in S})
<1> DEFINE T == {f[x] : x \in S}
<1>1. f \in Surjection(S, T)
  BY DEF Surjection
<1> HIDE DEF T
<1>2. IsFiniteSet(T)
  BY <1>1, FS_Surjection
<1> QED BY <1>2 DEF T

\* Of a finite set that is not empty one element has the least number.
LEMMA Least ==
    ASSUME NEW S, IsFiniteSet(S), S # {},
           NEW f, f = [x \in S |-> f[x]], \A x \in S : f[x] \in Int
    PROVE  \E x \in S : \A y \in S : f[x] <= f[y]
<1> DEFINE T == {f[x] : x \in S}
           R == {p \in T \X T : p[1] < p[2]}
<1>1. IsFiniteSet(T)
  <2>1. IsFiniteSet({f[x] : x \in S})
    BY ImageIsFinite
  <2> QED BY <2>1
<1>2. T # {} /\ \A i \in T : i \in Int
  OBVIOUS
<1>3. TotalOrder(T, R)
  <2> HIDE DEF T
  <2> QED BY <1>2 DEF TotalOrder
<1>4. PICK i \in T : \A j \in T \ {i} : <<i, j>> \in R
  <2> HIDE DEF T, R
  <2> QED BY <1>1, <1>2, <1>3, First
<1>5. PICK x \in S : f[x] = i
  OBVIOUS
<1>6. ASSUME NEW y \in S PROVE f[x] <= f[y]
  <2>1. f[y] \in T /\ f[x] \in Int /\ f[y] \in Int
    OBVIOUS
  <2>2. f[y] # i => <<i, f[y]>> \in R
    <3> HIDE DEF R, T
    <3> QED BY <1>4, <2>1
  <2>3. f[y] # i => i < f[y]
    BY <2>2
  <2> HIDE DEF R, T
  <2> QED BY <1>5, <2>1, <2>3
<1> QED BY <1>6

\* Tuples of numbers of one length, in the order of Before.
Tuple(n) == {a \in Seq(Nat) : Len(a) = n}
InOrder(S) == {p \in S \X S : Before(p[1], p[2])}

LEMMA Lexicographic ==
    ASSUME NEW n \in Nat, NEW S, S \subseteq Tuple(n)
    PROVE  TotalOrder(S, InOrder(S))
<1>1. \A x \in S : <<x, x>> \notin InOrder(S)
  BY DEF InOrder, Before, Tuple
<1>2. ASSUME NEW x \in S, NEW y \in S, NEW z \in S, Before(x, y), Before(y, z)
      PROVE  Before(x, z)
  <2>1. PICK i \in 1..n : x[i] < y[i] /\ \A j \in 1..(i - 1) : x[j] = y[j]
    BY <1>2 DEF Before, Tuple
  <2>2. PICK k \in 1..n : y[k] < z[k] /\ \A j \in 1..(k - 1) : y[j] = z[j]
    BY <1>2 DEF Before, Tuple
  <2>3. \A j \in 1..n : x[j] \in Nat /\ y[j] \in Nat /\ z[j] \in Nat
    BY DEF Tuple
  <2> DEFINE least == IF i <= k THEN i ELSE k
  <2>4. least \in 1..n /\ x[least] < z[least] /\ \A j \in 1..(least - 1) : x[j] = z[j]
    BY <2>1, <2>2, <2>3
  <2>5. Len(x) = n
    BY DEF Tuple
  <2> HIDE DEF least
  <2> QED BY <2>4, <2>5 DEF Before
<1>3. ASSUME NEW x \in S, NEW y \in S, x # y
      PROVE  Before(x, y) \/ Before(y, x)
  <2> DEFINE D == {i \in 1..n : x[i] # y[i]}
             R == {p \in D \X D : p[1] < p[2]}
  <2>1. x \in Seq(Nat) /\ y \in Seq(Nat) /\ Len(x) = n /\ Len(y) = n
    BY DEF Tuple
  <2>2. D # {}
    BY <1>3, <2>1, SeqEqual
  <2>3. IsFiniteSet(D)
    <3>1. IsFiniteSet(1..n)
      BY FS_Interval
    <3>2. D \in SUBSET (1..n)
      OBVIOUS
    <3> HIDE DEF D
    <3> QED BY <3>1, <3>2, FS_Subset
  <2>4. TotalOrder(D, R)
    BY DEF TotalOrder
  <2>5. PICK i \in D : \A j \in D \ {i} : <<i, j>> \in R
    <3> HIDE DEF D, R
    <3> QED BY <2>2, <2>3, <2>4, First
  <2>6. ASSUME NEW j \in 1..(i - 1) PROVE x[j] = y[j]
    <3>1. j \in 1..n /\ j # i /\ ~(i < j)
      OBVIOUS
    <3>2. j \in D => <<i, j>> \in R
      BY <2>5, <3>1
    <3> QED BY <3>1, <3>2
  <2>7. x[i] < y[i] \/ y[i] < x[i]
    BY <2>1
  <2> QED BY <2>1, <2>6, <2>7 DEF Before
<1> QED BY <1>1, <1>2, <1>3 DEF TotalOrder, InOrder

(* ---------------------------- the node ids ----------------------------- *)

\* Whatever the state: what a build was given.
Given ==
    /\ triples \subseteq Triple /\ IsFiniteSet(triples)
    /\ config.edge_collect_row_budget \in Int

Contenders ==
    {[uri |-> t.s, order |-> Contest(NodeTypeOf[t.o], _subsumed_node_types)] :
        t \in type_triples}

LEMMA PriorityIsBounded == ASSUME NEW n PROVE Priority(n) \in 1..(Len(Pinned) + 1)
<1>1. Len(Pinned) \in Nat
  BY NodeMapperAssumption
<1>2. CASE \E i \in 1..Len(Pinned) : Pinned[i] = n
  <2>1. (CHOOSE i \in 1..Len(Pinned) : Pinned[i] = n) \in 1..Len(Pinned)
    BY <1>2
  <2>2. Priority(n) = CHOOSE i \in 1..Len(Pinned) : Pinned[i] = n
    BY <1>2 DEF Priority
  <2> QED BY <2>1, <2>2, <1>1
<1>3. CASE ~\E i \in 1..Len(Pinned) : Pinned[i] = n
  BY <1>3, <1>1 DEF Priority
<1> QED BY <1>2, <1>3

LEMMA ContestIsATuple ==
    ASSUME Given, NEW n \in Nat
    PROVE  /\ Contest(n, _subsumed_node_types) \in Tuple(4)
           /\ Contest(n, _subsumed_node_types)[4] = n
<1>1. Rows(n) \in SUBSET triples
  BY DEF Rows, type_triples
<1>2. TypeCount(n) \in Nat
  BY <1>1, FS_Subset, FS_CardinalityType DEF Given, TypeCount
<1>3. Priority(n) \in Nat
  BY PriorityIsBounded, NodeMapperAssumption
<1> QED BY <1>2, <1>3 DEF Contest, Tuple

LEMMA ContendersAreTyped ==
    ASSUME Given
    PROVE  /\ IsFiniteSet(Contenders)
           /\ \A r \in Contenders :
                 /\ r = [uri |-> r.uri, order |-> r.order]
                 /\ r.uri \in Typed
                 /\ r.order \in Tuple(4)
                 /\ r.order[4] \in NodeType
           /\ \A u \in Typed : \E r \in Contenders : r.uri = u
<1> DEFINE contender(t) ==
             [uri |-> t.s, order |-> Contest(NodeTypeOf[t.o], _subsumed_node_types)]
           f == [t \in type_triples |-> contender(t)]
<1>1. type_triples \in SUBSET triples
  BY DEF type_triples
<1>2. \A t \in type_triples : t.o \in TypeUri
  BY DEF type_triples, Given, Triple
<1>3. IsFiniteSet(type_triples)
  BY <1>1, FS_Subset DEF Given
<1>4. IsFiniteSet({f[t] : t \in type_triples})
  <2>1. f = [t \in type_triples |-> f[t]]
    OBVIOUS
  <2> HIDE DEF f
  <2> QED BY <1>3, <2>1, ImageIsFinite
<1>5. Contenders = {f[t] : t \in type_triples}
  BY DEF Contenders
<1>6. ASSUME NEW r \in Contenders
      PROVE  /\ r = [uri |-> r.uri, order |-> r.order]
             /\ r.uri \in Typed
             /\ r.order \in Tuple(4)
             /\ r.order[4] \in NodeType
  <2>1. PICK t \in type_triples :
           r = [uri |-> t.s, order |-> Contest(NodeTypeOf[t.o], _subsumed_node_types)]
    BY DEF Contenders
  <2>2. t.o \in TypeUri /\ NodeTypeOf[t.o] \in Nat
    BY <1>2, NodeMapperAssumption
  <2>3. NodeTypeOf[t.o] \in NodeType
    BY <2>2 DEF NodeType
  <2> QED BY <2>1, <2>2, <2>3, ContestIsATuple DEF Typed
<1>7. ASSUME NEW u \in Typed PROVE \E r \in Contenders : r.uri = u
  <2>1. PICK t \in type_triples : u = t.s
    BY DEF Typed
  <2>2. contender(t) \in Contenders
    BY DEF Contenders
  <2> QED BY <2>1, <2>2
<1> QED BY <1>4, <1>5, <1>6, <1>7

LEMMA OneRowEach ==
    ASSUME Given
    PROVE  /\ IsFiniteSet(ranked) /\ ranked \subseteq Contenders
           /\ \A r, s \in ranked : r.uri = s.uri => r = s
           /\ \A u \in Typed : \E r \in ranked : r.uri = u
<1>1. ranked = {r \in Contenders : \A s \in Contenders \ {r} :
                   s.uri = r.uri => Before(r.order, s.order)}
  BY DEF ranked, Contenders
<1>2. IsFiniteSet(ranked) /\ ranked \subseteq Contenders
  BY <1>1, ContendersAreTyped, FS_Subset
<1>3. ASSUME NEW r \in ranked, NEW s \in ranked, r.uri = s.uri, r # s
      PROVE  FALSE
  <2>1. Before(r.order, s.order) /\ Before(s.order, r.order)
    BY <1>1, <1>3
  <2> DEFINE S == {r.order, s.order}
  <2>2. S \subseteq Tuple(4)
    BY <1>2, ContendersAreTyped
  <2>3. TotalOrder(S, InOrder(S))
    <3> HIDE DEF S
    <3> QED BY <2>2, Lexicographic
  <2>4. <<r.order, s.order>> \in InOrder(S) /\ <<s.order, r.order>> \in InOrder(S)
    BY <2>1 DEF InOrder
  <2> QED BY <2>3, <2>4 DEF TotalOrder
<1>4. ASSUME NEW u \in Typed PROVE \E r \in ranked : r.uri = u
  <2> DEFINE C == {r \in Contenders : r.uri = u}
             f == [r \in C |-> r.order]
             S == {f[r] : r \in C}
  <2>1. IsFiniteSet(C) /\ C # {}
    BY ContendersAreTyped, FS_Subset
  <2>2. IsFiniteSet(S)
    <3>1. f = [r \in C |-> f[r]]
      OBVIOUS
    <3> HIDE DEF C, f
    <3> QED BY <2>1, <3>1, ImageIsFinite
  <2>3. S # {} /\ S \subseteq Tuple(4)
    <3>1. \A r \in C : r.order \in Tuple(4) /\ f[r] = r.order
      BY ContendersAreTyped
    <3> HIDE DEF C, f
    <3> QED BY <2>1, <3>1
  <2>4. TotalOrder(S, InOrder(S))
    <3> HIDE DEF S
    <3> QED BY <2>3, Lexicographic
  <2>5. PICK o \in S : \A p \in S \ {o} : <<o, p>> \in InOrder(S)
    <3> HIDE DEF S
    <3> QED BY <2>2, <2>3, <2>4, First
  <2>6. PICK r \in C : r.order = o
    OBVIOUS
  <2>7. ASSUME NEW s \in Contenders \ {r}, s.uri = r.uri
        PROVE  Before(r.order, s.order)
    <3>1. s \in C /\ s.order \in S
      BY <2>6, <2>7
    <3>2. s.order # o
      <4>1. /\ r = [uri |-> r.uri, order |-> r.order]
            /\ s = [uri |-> s.uri, order |-> s.order]
        BY ContendersAreTyped
      <4> QED BY <2>6, <2>7, <4>1
    <3> QED BY <2>5, <2>6, <3>1, <3>2 DEF InOrder
  <2>8. r \in ranked
    BY <1>1, <2>7
  <2> QED BY <2>8
<1> QED BY <1>2, <1>3, <1>4

OfType(t) == {u \in DOMAIN node_id_df : node_id_df[u].type = t}
ByUri(S) == {p \in S \X S : p[1] < p[2]}

\* What node_id_df is, once it is there.
Table == node_id_df = build_node_id_table

LEMMA TableIsTyped ==
    ASSUME Given, Table
    PROVE  /\ DOMAIN node_id_df = Typed
           /\ IsFiniteSet(Typed) /\ Typed \subseteq Uri
           /\ \A u \in Typed :
                 node_id_df[u] = [type |-> node_id_df[u].type, id |-> node_id_df[u].id]
           /\ \A u \in Typed : \E r \in ranked :
                 /\ r.uri = u /\ r.order[4] \in NodeType
                 /\ node_id_df[u].type = r.order[4]
                 /\ node_id_df[u].id = Cardinality({s \in ranked :
                                 s.order[4] = r.order[4] /\ s.uri < u})
<1>1. DOMAIN node_id_df = {r.uri : r \in ranked}
  BY DEF Table, build_node_id_table, NodeIds
<1>2. {r.uri : r \in ranked} = Typed
  BY OneRowEach, ContendersAreTyped
<1>3. IsFiniteSet(Typed)
  <2> DEFINE f == [r \in ranked |-> r.uri]
  <2>1. f = [r \in ranked |-> f[r]] /\ {f[r] : r \in ranked} = Typed
    BY <1>2
  <2> HIDE DEF f
  <2> QED BY <2>1, OneRowEach, ImageIsFinite
<1>4. Typed \subseteq Uri
  BY DEF Typed, type_triples, Given, Triple
<1>5. ASSUME NEW u \in Typed
      PROVE  /\ node_id_df[u] = [type |-> node_id_df[u].type, id |-> node_id_df[u].id]
             /\ \E r \in ranked :
                 /\ r.uri = u /\ r.order[4] \in NodeType
                 /\ node_id_df[u].type = r.order[4]
                 /\ node_id_df[u].id = Cardinality({s \in ranked :
                                 s.order[4] = r.order[4] /\ s.uri < u})
  <2> DEFINE r == CHOOSE r \in ranked : r.uri = u
  <2>1. r \in ranked /\ r.uri = u
    BY OneRowEach
  <2>2. r.order[4] \in NodeType
    BY <2>1, OneRowEach, ContendersAreTyped
  <2>3. node_id_df[u] =
          [type |-> r.order[4],
           id |-> Cardinality({s \in ranked : s.order[4] = r.order[4] /\ s.uri < u})]
    BY <1>2 DEF Table, build_node_id_table, NodeIds
  <2>4. /\ node_id_df[u] = [type |-> node_id_df[u].type, id |-> node_id_df[u].id]
        /\ node_id_df[u].type = r.order[4]
        /\ node_id_df[u].id = Cardinality({s \in ranked :
                                 s.order[4] = r.order[4] /\ s.uri < u})
    BY <2>3
  <2> HIDE DEF r
  <2> QED BY <2>1, <2>2, <2>4
<1> QED BY <1>1, <1>2, <1>3, <1>4, <1>5

\* An entity's number is its place among the entities of its type.
LEMMA IdsArePlaces ==
    ASSUME Given, Table, NEW t, NEW u \in OfType(t)
    PROVE  node_id_df[u].id = Cardinality(Below(OfType(t), ByUri(OfType(t)), u))
<1>1. u \in Typed /\ node_id_df[u].type = t
  BY TableIsTyped DEF OfType
<1>2. PICK r \in ranked :
         /\ r.uri = u
         /\ node_id_df[u].type = r.order[4]
         /\ node_id_df[u].id = Cardinality({s \in ranked :
                         s.order[4] = r.order[4] /\ s.uri < u})
  BY <1>1, TableIsTyped
<1> DEFINE Q == {s \in ranked : s.order[4] = t /\ s.uri < u}
           f == [s \in Q |-> s.uri]
<1>3. node_id_df[u].id = Cardinality(Q)
  <2>1. Q = {s \in ranked : s.order[4] = r.order[4] /\ s.uri < u}
    BY <1>1, <1>2
  <2> QED BY <1>2, <2>1
<1>4. IsFiniteSet(Q)
  BY OneRowEach, FS_Subset
<1>5. \A s \in ranked : s.uri \in Typed /\ node_id_df[s.uri].type = s.order[4]
  <2> TAKE s \in ranked
  <2>1. s.uri \in Typed
    BY OneRowEach, ContendersAreTyped
  <2>2. PICK q \in ranked : q.uri = s.uri /\ node_id_df[s.uri].type = q.order[4]
    BY <2>1, TableIsTyped
  <2>3. q = s
    BY <2>2, OneRowEach
  <2> QED BY <2>1, <2>2, <2>3
<1>6. {f[s] : s \in Q} = Below(OfType(t), ByUri(OfType(t)), u)
  <2>1. ASSUME NEW s \in Q PROVE s.uri \in Below(OfType(t), ByUri(OfType(t)), u)
    BY <1>5, TableIsTyped DEF Below, OfType, ByUri
  <2>2. ASSUME NEW v \in Below(OfType(t), ByUri(OfType(t)), u)
        PROVE  \E s \in Q : s.uri = v
    <3>1. v \in OfType(t) /\ v < u
      BY DEF Below, ByUri
    <3>2. PICK s \in ranked : s.uri = v
      BY <3>1, TableIsTyped, OneRowEach DEF OfType
    <3>3. s \in Q
      BY <1>5, <3>1, <3>2 DEF OfType
    <3> QED BY <3>2, <3>3
  <2> QED BY <2>1, <2>2
<1>7. Cardinality({f[s] : s \in Q}) = Cardinality(Q)
  <2>1. f = [s \in Q |-> f[s]] /\ DOMAIN f = Q
    OBVIOUS
  <2>2. \A s, q \in Q : f[s] = f[q] => s = q
    BY OneRowEach
  <2> HIDE DEF f, Q
  <2> QED BY <1>4, <2>1, <2>2, SameSize
<1> QED BY <1>3, <1>6, <1>7

LEMMA UrisAreOrdered ==
    ASSUME Given, Table, NEW t
    PROVE  TotalOrder(OfType(t), ByUri(OfType(t))) /\ IsFiniteSet(OfType(t))
<1>1. OfType(t) \in SUBSET Typed
  BY TableIsTyped DEF OfType
<1>2. OfType(t) \subseteq Nat
  BY <1>1, TableIsTyped, NodeMapperAssumption
<1>3. TotalOrder(OfType(t), ByUri(OfType(t)))
  BY <1>2 DEF TotalOrder, ByUri
<1> QED BY <1>1, <1>3, TableIsTyped, FS_Subset

\* The rows of a type are numbered from 0 without a gap, each for one entity.
LEMMA NodeIdsHaveNoGap ==
    ASSUME Given, Table, NEW t
    PROVE  /\ NodeCount(t) \in Nat
           /\ \A u \in OfType(t) : node_id_df[u].id \in 0..(NodeCount(t) - 1)
           /\ \A u, v \in OfType(t) : node_id_df[u].id = node_id_df[v].id => u = v
           /\ \A i \in 0..(NodeCount(t) - 1) :
                 \E u \in OfType(t) : node_id_df[u].id = i
<1> DEFINE S == OfType(t)  R == ByUri(OfType(t))
<1>1. TotalOrder(S, R) /\ IsFiniteSet(S)
  BY UrisAreOrdered
<1>2. \A u \in S : node_id_df[u].id = Cardinality(Below(S, R, u))
  BY IdsArePlaces
<1>3. NodeCount(t) = Cardinality(S)
  BY DEF NodeCount, OfType
<1> HIDE DEF S, R
<1>4. Cardinality(S) \in Nat
  BY <1>1, FS_CardinalityType
<1>5. /\ \A u \in S : node_id_df[u].id \in 0..(Cardinality(S) - 1)
      /\ \A u, v \in S : node_id_df[u].id = node_id_df[v].id => u = v
      /\ \A i \in 0..(Cardinality(S) - 1) : \E u \in S : node_id_df[u].id = i
  BY <1>1, <1>2, Placing
<1> QED BY <1>3, <1>4, <1>5 DEF S

(* ------------------------------ the edges ------------------------------ *)

EdgesThere == edges_final = resolved_edges

LEMMA EdgesAreFinite ==
    ASSUME Given, EdgesThere
    PROVE  IsFiniteSet(edges_final) /\ IsFiniteSet(EdgeKeys)
<1> DEFINE edge(t) ==
             [key |-> <<node_id_df[t.s].type, RelationOf[t.p], node_id_df[t.o].type>>,
              ends |-> <<node_id_df[t.s].id, node_id_df[t.o].id>>]
           f == [t \in edge_triples |-> edge(t)]
           g == [e \in edges_final |-> e.key]
<1>1. IsFiniteSet(edge_triples)
  <2>1. edge_triples \in SUBSET triples
    BY DEF edge_triples
  <2> QED BY <2>1, FS_Subset DEF Given
<1>2. IsFiniteSet({f[t] : t \in edge_triples})
  <2>1. f = [t \in edge_triples |-> f[t]]
    OBVIOUS
  <2> HIDE DEF f
  <2> QED BY <1>1, <2>1, ImageIsFinite
<1>3. edges_final = {f[t] : t \in edge_triples}
  BY DEF EdgesThere, resolved_edges
<1>4. IsFiniteSet({g[e] : e \in edges_final})
  <2>1. g = [e \in edges_final |-> g[e]]
    OBVIOUS
  <2> HIDE DEF g, f
  <2> QED BY <1>2, <1>3, <2>1, ImageIsFinite
<1>5. EdgeKeys = {g[e] : e \in edges_final}
  BY DEF EdgeKeys
<1> HIDE DEF f, g
<1> QED BY <1>2, <1>3, <1>4, <1>5

\* An edge stands for a triple between two typed entities.
LEMMA EdgesAreTriples ==
    ASSUME Given, Table, EdgesThere, NEW e \in edges_final
    PROVE  /\ e = [key |-> e.key, ends |-> e.ends]
           /\ e.key \in Tuple(3) /\ e.ends \in Tuple(2)
           /\ \E t \in edge_triples :
                 /\ t.s \in Typed /\ t.o \in Typed
                 /\ e.key = <<node_id_df[t.s].type, RelationOf[t.p], node_id_df[t.o].type>>
                 /\ e.ends = <<node_id_df[t.s].id, node_id_df[t.o].id>>
<1>1. PICK t \in edge_triples :
         e = [key |-> <<node_id_df[t.s].type, RelationOf[t.p], node_id_df[t.o].type>>,
              ends |-> <<node_id_df[t.s].id, node_id_df[t.o].id>>]
  BY DEF EdgesThere, resolved_edges
<1>2. t.s \in Typed /\ t.o \in Typed /\ t.p \in Predicate
  BY TableIsTyped DEF edge_triples, Given, Triple
<1>3. \A u \in Typed : node_id_df[u].type \in Nat /\ node_id_df[u].id \in Nat
  <2> TAKE u \in Typed
  <2>1. node_id_df[u].type \in NodeType
    BY TableIsTyped
  <2>2. node_id_df[u].type \in Nat
    BY <2>1, NodeMapperAssumption DEF NodeType
  <2>3. u \in OfType(node_id_df[u].type)
    BY TableIsTyped DEF OfType
  <2>4. node_id_df[u].id \in Nat
    BY <2>3, NodeIdsHaveNoGap
  <2> QED BY <2>2, <2>4
<1>4. RelationOf[t.p] \in Nat
  BY <1>2, EdgeMapperAssumption
<1>5. e.key \in Tuple(3) /\ e.ends \in Tuple(2)
  BY <1>1, <1>2, <1>3, <1>4 DEF Tuple
<1> QED BY <1>1, <1>2, <1>5

ByEnds(S) == {p \in S \X S : Before(p[1].ends, p[2].ends)}

\* How many edges of its type sort before an edge.
PlaceOf(e) == Cardinality({d \in OfKey(e.key) : Before(d.ends, e.ends)})

\* The columns of an edge type are its edges, each of them once, and in order.
LEMMA ColumnsAreEdges ==
    ASSUME Given, Table, EdgesThere, NEW key
    PROVE  /\ EdgeCount(key) \in Nat
           /\ DOMAIN edge_index(key) = 0..(EdgeCount(key) - 1)
           /\ \A i \in DOMAIN edge_index(key) :
                 \E e \in OfKey(key) : edge_index(key)[i] = e.ends
           /\ \A e \in OfKey(key) :
                 \E i \in DOMAIN edge_index(key) : edge_index(key)[i] = e.ends
           /\ \A i, j \in DOMAIN edge_index(key) :
                 edge_index(key)[i] = edge_index(key)[j] => i = j
           /\ \A e \in OfKey(key) :
                 /\ PlaceOf(e) \in DOMAIN edge_index(key)
                 /\ edge_index(key)[PlaceOf(e)] = e.ends
<1> DEFINE S == OfKey(key)
           R == ByEnds(S)
           n == Cardinality(S)
           at(i) == CHOOSE e \in S : Cardinality(Below(S, R, e)) = i
<1>1. IsFiniteSet(S)
  BY EdgesAreFinite, FS_Subset DEF OfKey
<1>2. \A d, e \in S : d.ends = e.ends => d = e
  BY EdgesAreTriples DEF OfKey
<1>3. TotalOrder(S, R)
  <2> DEFINE E == {e.ends : e \in S}
  <2>1. E \subseteq Tuple(2)
    BY EdgesAreTriples DEF OfKey
  <2>2. TotalOrder(E, InOrder(E))
    <3> HIDE DEF E
    <3> QED BY <2>1, Lexicographic
  <2>3. \A d, e \in S : <<d, e>> \in R <=> <<d.ends, e.ends>> \in InOrder(E)
    BY DEF ByEnds, InOrder
  <2>4. \A e \in S : e.ends \in E
    OBVIOUS
  <2> HIDE DEF S, R, E
  <2> QED BY <1>2, <2>2, <2>3, <2>4 DEF TotalOrder
<1>4. n \in Nat
  BY <1>1, FS_CardinalityType
<1>5. /\ \A e \in S : Cardinality(Below(S, R, e)) \in 0..(n - 1)
      /\ \A i \in 0..(n - 1) : \E e \in S : Cardinality(Below(S, R, e)) = i
      /\ \A d, e \in S :
            Cardinality(Below(S, R, d)) = Cardinality(Below(S, R, e)) => d = e
  <2> HIDE DEF S, R
  <2> QED BY <1>1, <1>3, Placing
<1>6. EdgeCount(key) = n
  BY DEF EdgeCount
<1>7. edge_index(key) = [i \in 0..(n - 1) |-> at(i).ends]
  <2>1. \A e \in S : {d \in S : Before(d.ends, e.ends)} = Below(S, R, e)
    BY DEF Below, ByEnds
  <2> DEFINE before(e) == {d \in S : Before(d.ends, e.ends)}
             put(i) == CHOOSE e \in S : Cardinality(before(e)) = i
  <2>2. edge_index(key) = [i \in 0..(n - 1) |-> put(i).ends]
    BY DEF edge_index
  <2>3. \A e \in S : Cardinality(before(e)) = Cardinality(Below(S, R, e))
    BY <2>1
  <2>4. ASSUME NEW i \in 0..(n - 1) PROVE put(i) = at(i)
    <3> HIDE DEF S, R, before
    <3> QED BY <2>3
  <2> HIDE DEF S, R, before, put, at
  <2> QED BY <2>2, <2>4
<1>8. \A i \in 0..(n - 1) : at(i) \in S /\ Cardinality(Below(S, R, at(i))) = i
  <2> HIDE DEF S, R
  <2> QED BY <1>5
<1>9. \A e \in S : \E i \in 0..(n - 1) : at(i) = e
  <2> HIDE DEF S, R
  <2> QED BY <1>5, <1>8
<1>10. \A i, j \in 0..(n - 1) : at(i).ends = at(j).ends => i = j
  <2>1. \A i, j \in 0..(n - 1) : at(i).ends = at(j).ends => at(i) = at(j)
    BY <1>2, <1>8
  <2> HIDE DEF S, R, at
  <2> QED BY <1>8, <2>1
<1>11. ASSUME NEW e \in S
       PROVE  PlaceOf(e) \in 0..(n - 1) /\ at(PlaceOf(e)) = e
  <2>1. {d \in S : Before(d.ends, e.ends)} = Below(S, R, e) /\ e.key = key
    BY DEF Below, ByEnds, OfKey
  <2>2. PlaceOf(e) = Cardinality(Below(S, R, e))
    BY <2>1 DEF PlaceOf
  <2> HIDE DEF S, R
  <2> QED BY <1>5, <2>2
<1> HIDE DEF S, R, at
<1> QED BY <1>4, <1>6, <1>7, <1>8, <1>9, <1>10, <1>11 DEF S

LEMMA KeysAreNumbered ==
    ASSUME Given, Table, EdgesThere
    PROVE  /\ Cardinality(EdgeKeys) \in Nat
           /\ \A k \in EdgeKeys : KeyId(k) \in 0..(Cardinality(EdgeKeys) - 1)
           /\ edges_final # {} => Cardinality(EdgeKeys) > 0
<1>1. EdgeKeys \subseteq Tuple(3)
  BY EdgesAreTriples DEF EdgeKeys
<1>2. TotalOrder(EdgeKeys, InOrder(EdgeKeys)) /\ IsFiniteSet(EdgeKeys)
  BY <1>1, Lexicographic, EdgesAreFinite
<1>3. Cardinality(EdgeKeys) \in Nat
  BY <1>2, FS_CardinalityType
<1>4. ASSUME NEW k \in EdgeKeys
      PROVE  KeyId(k) \in 0..(Cardinality(EdgeKeys) - 1)
  <2>1. {j \in EdgeKeys : Before(j, k)} = Below(EdgeKeys, InOrder(EdgeKeys), k)
    BY DEF Below, InOrder
  <2>2. KeyId(k) = Cardinality(Below(EdgeKeys, InOrder(EdgeKeys), k))
    BY <2>1 DEF KeyId
  <2> QED BY <1>2, <2>2, Placing
<1>5. edges_final # {} => EdgeKeys # {}
  BY DEF EdgeKeys
<1> QED BY <1>2, <1>3, <1>4, <1>5, FS_EmptySet

\* A chunk ends at or after the type it starts with, and is within its
\* budget if it holds more than this one.
LEMMA ChunkEnds ==
    ASSUME Given, Table, EdgesThere,
           NEW lo \in 0..(Cardinality(EdgeKeys) - 1)
    PROVE  /\ ChunkEnd(lo) \in lo..(Cardinality(EdgeKeys) - 1)
           /\ \/ ChunkEnd(lo) = lo
              \/ Cardinality({e \in edges_final : KeyId(e.key) \in lo..ChunkEnd(lo)})
                   <= AtLeastOne(config.edge_collect_row_budget)
<1> DEFINE N == Cardinality(EdgeKeys)
           rows(hi) == Cardinality({e \in edges_final : KeyId(e.key) \in lo..hi})
           budget == IF config.edge_collect_row_budget < 1
                     THEN 1 ELSE config.edge_collect_row_budget
           full(hi) == hi < N - 1 => rows(hi + 1) > budget
           fits(hi) == hi = lo \/ rows(hi) <= budget
           H == {hi \in lo..(N - 1) : full(hi)}
           R == {p \in H \X H : p[1] < p[2]}
<1>1. N \in Nat
  BY KeysAreNumbered
<1>2. IsFiniteSet(H) /\ H # {}
  <2>1. H \in SUBSET (lo..(N - 1)) /\ N - 1 \in H
    BY <1>1
  <2>2. IsFiniteSet(lo..(N - 1))
    BY <1>1, FS_Interval
  <2> HIDE DEF H, N
  <2> QED BY <2>1, <2>2, FS_Subset
<1>3. TotalOrder(H, R)
  <2>1. \A i \in H : i \in Int
    BY <1>1
  <2> HIDE DEF H
  <2> QED BY <2>1 DEF TotalOrder
<1>4. PICK hi \in H : \A j \in H \ {hi} : <<hi, j>> \in R
  <2> HIDE DEF H, R
  <2> QED BY <1>2, <1>3, First
<1>5. hi \in lo..(N - 1) /\ full(hi)
  OBVIOUS
<1>6. fits(hi)
  <2> SUFFICES ASSUME hi # lo PROVE rows(hi) <= budget
    OBVIOUS
  <2>1. hi - 1 \in lo..(N - 1) /\ hi - 1 # hi /\ ~(hi < hi - 1)
    BY <1>1, <1>5
  <2>2. hi - 1 \notin H
    BY <1>4, <2>1
  <2>3. ~(rows((hi - 1) + 1) > budget)
    <3> HIDE DEF rows, budget
    <3> QED BY <2>1, <2>2
  <2>4. (hi - 1) + 1 = hi
    BY <1>1, <1>5
  <2>5. ~(rows(hi) > budget)
    BY <2>3, <2>4
  <2>6. rows(hi) \in Nat
    BY EdgesAreFinite, FS_Subset, FS_CardinalityType
  <2>7. budget \in Int
    BY DEF Given
  <2> HIDE DEF rows, budget
  <2> QED BY <2>5, <2>6, <2>7
<1>7. ChunkEnd(lo) = CHOOSE i \in lo..(N - 1) : fits(i) /\ full(i)
  BY DEF ChunkEnd
<1>8. ChunkEnd(lo) \in lo..(N - 1) /\ fits(ChunkEnd(lo))
  <2> HIDE DEF fits, full
  <2> QED BY <1>5, <1>6, <1>7
<1>9. budget = AtLeastOne(config.edge_collect_row_budget)
  BY DEF AtLeastOne
<1> HIDE DEF budget
<1> QED BY <1>8, <1>9

(* --------------------------- the invariant ----------------------------- *)

Steps == {"nodes", "edges", "collect_edges", "node_rows", "edge_rows",
          "assemble", "done", "failed"}
AfterEdges == {"node_rows", "edge_rows", "assemble", "done"}

\* Before the edges nothing is built.
NothingYet == edges_final = {} /\ edge_indices = << >> /\ cursor = 0

\* The edge types collected so far are those of the chunks before the cursor.
ChunksSoFar ==
    /\ cursor \in 0..(Cardinality(EdgeKeys) - 1)
    /\ DOMAIN edge_indices = {k \in EdgeKeys : KeyId(k) < cursor}
IndicesRight == \A k \in DOMAIN edge_indices : edge_indices[k] = edge_index(k)

IInv ==
    /\ Given
    /\ pc \in Steps
    /\ pc # "nodes" => Table
    /\ pc \in {"nodes", "edges"} => NothingYet
    /\ pc \in AfterEdges \cup {"collect_edges"} => EdgesThere /\ IndicesRight
    /\ pc = "collect_edges" => ChunksSoFar
    /\ pc \in AfterEdges => DOMAIN edge_indices = EdgeKeys

\* What is computed from unchanged frames is unchanged.
LEMMA TableStays ==
    ASSUME UNCHANGED inputs
    PROVE  build_node_id_table' = build_node_id_table
<1>1. type_triples' = type_triples
  BY DEF inputs, type_triples, Kept
<1>2. \A n : TypeCount(n)' = TypeCount(n) /\ Carriers(n)' = Carriers(n)
  BY <1>1 DEF TypeCount, Carriers, Rows
<1>3. _subsumed_node_types' = _subsumed_node_types
  BY <1>1, <1>2 DEF _subsumed_node_types
<1>4. \A n, sub : Contest(n, sub)' = Contest(n, sub)
  BY <1>2 DEF Contest, Priority
<1>5. ranked' = ranked
  BY <1>1, <1>3, <1>4 DEF ranked
<1> QED BY <1>5 DEF build_node_id_table

LEMMA EdgesStay ==
    ASSUME UNCHANGED inputs, UNCHANGED node_id_df
    PROVE  resolved_edges' = resolved_edges
BY DEF inputs, resolved_edges, edge_triples

LEMMA ColumnsStay ==
    ASSUME UNCHANGED edges_final
    PROVE  /\ EdgeKeys' = EdgeKeys
           /\ \A k : KeyId(k)' = KeyId(k) /\ edge_index(k)' = edge_index(k)
<1>1. EdgeKeys' = EdgeKeys
  BY DEF EdgeKeys
<1>2. \A k : KeyId(k)' = KeyId(k)
  BY <1>1 DEF KeyId
<1>3. \A k : edge_index(k)' = edge_index(k)
  BY DEF edge_index, OfKey
<1> QED BY <1>1, <1>2, <1>3

LEMMA Initially == Init => IInv
<1> SUFFICES ASSUME Init PROVE IInv
  OBVIOUS
<1>1. Given
  BY HeteroBuildAssumption DEF Init, Given
<1>2. pc = "nodes" /\ NothingYet
  BY DEF Init, NothingYet
<1> QED BY <1>1, <1>2 DEF IInv, Steps, AfterEdges

LEMMA StepMapNodes ==
    ASSUME IInv, MapNodes
    PROVE  IInv'
<1> DEFINE table == build_node_id_table
           names == {table[u].type : u \in DOMAIN table}
<1>1. /\ UNCHANGED inputs
      /\ UNCHANGED <<edges_final, edge_indices, cursor>>
      /\ node_id_df' = table
      /\ pc = "nodes" /\ pc' \in {"failed", "done", "edges"}
      /\ pc' = "done" => names = {}
  BY DEF MapNodes
<1>2. Given'
  BY <1>1 DEF IInv, Given, inputs
<1>3. Table'
  BY <1>1, TableStays DEF Table
<1>4. NothingYet'
  BY <1>1 DEF IInv, NothingYet
<1>5. ASSUME pc' = "done"
      PROVE  EdgesThere' /\ IndicesRight' /\ (DOMAIN edge_indices = EdgeKeys)'
  <2>1. DOMAIN node_id_df' = {}
    BY <1>1, <1>5
  <2>2. edge_triples' = {}
    BY <2>1 DEF edge_triples
  <2>3. resolved_edges' = {}
    BY <2>2 DEF resolved_edges
  <2>4. edges_final' = {} /\ DOMAIN edge_indices' = {}
    BY <1>4 DEF NothingYet
  <2>5. EdgeKeys' = {}
    BY <2>4 DEF EdgeKeys
  <2> QED BY <2>3, <2>4, <2>5 DEF EdgesThere, IndicesRight
<1> QED BY <1>1, <1>2, <1>3, <1>4, <1>5 DEF IInv, Steps, AfterEdges

LEMMA StepResolveEdges ==
    ASSUME IInv, ResolveEdges
    PROVE  IInv'
<1>1. /\ UNCHANGED inputs /\ UNCHANGED <<node_id_df, edge_indices, cursor>>
      /\ edges_final' = resolved_edges
      /\ pc = "edges" /\ pc' \in {"node_rows", "failed", "collect_edges"}
      /\ pc' = "node_rows" <=> resolved_edges = {}
  BY DEF ResolveEdges
<1>2. Given' /\ Table'
  BY <1>1, TableStays DEF IInv, Given, Table, inputs
<1>3. EdgesThere'
  BY <1>1, EdgesStay DEF EdgesThere
<1>4. DOMAIN edge_indices' = {} /\ cursor' = 0
  BY <1>1 DEF IInv, NothingYet
<1>5. IndicesRight'
  BY <1>4 DEF IndicesRight
<1>6. ASSUME pc' = "node_rows" PROVE (DOMAIN edge_indices = EdgeKeys)'
  BY <1>1, <1>4, <1>6 DEF EdgeKeys
<1>7. ASSUME pc' = "collect_edges" PROVE ChunksSoFar'
  <2>1. edges_final' # {}
    BY <1>1, <1>7
  <2>2. (/\ Cardinality(EdgeKeys) \in Nat
         /\ \A k \in EdgeKeys : KeyId(k) \in 0..(Cardinality(EdgeKeys) - 1)
         /\ edges_final # {} => Cardinality(EdgeKeys) > 0)'
    BY <1>2, <1>3, KeysAreNumbered, PTL
  <2> QED BY <1>4, <2>1, <2>2 DEF ChunksSoFar
<1> QED BY <1>1, <1>2, <1>3, <1>5, <1>6, <1>7 DEF IInv, Steps, AfterEdges

LEMMA StepCollectEdges ==
    ASSUME IInv, CollectEdges
    PROVE  IInv'
<1> DEFINE N == Cardinality(EdgeKeys)
           hi == ChunkEnd(cursor)
           keys == KeysIn(cursor, hi)
<1>1. /\ UNCHANGED inputs /\ UNCHANGED <<node_id_df, edges_final>>
      /\ edge_indices' = [k \in DOMAIN edge_indices \cup keys |->
                             IF k \in keys THEN edge_index(k) ELSE edge_indices[k]]
      /\ pc = "collect_edges"
      /\ pc' = IF hi = N - 1 THEN "node_rows" ELSE pc
      /\ cursor' = IF hi = N - 1 THEN 0 ELSE hi + 1
  BY DEF CollectEdges
<1>2. Given /\ Table /\ EdgesThere /\ IndicesRight /\ ChunksSoFar
  BY <1>1 DEF IInv
<1>3. Given' /\ Table' /\ EdgesThere'
  BY <1>1, <1>2, TableStays, EdgesStay DEF Given, Table, EdgesThere, inputs
<1>4. /\ N \in Nat /\ cursor \in 0..(N - 1)
      /\ \A k \in EdgeKeys : KeyId(k) \in 0..(N - 1)
  BY <1>2, KeysAreNumbered DEF ChunksSoFar
<1>5. hi \in cursor..(N - 1)
  BY <1>2, <1>4, ChunkEnds
<1>6. DOMAIN edge_indices' = {k \in EdgeKeys : KeyId(k) < hi + 1}
  <2>1. DOMAIN edge_indices' = DOMAIN edge_indices \cup keys
    BY <1>1
  <2>2. keys = {k \in EdgeKeys : KeyId(k) \in cursor..hi}
    BY DEF KeysIn
  <2>3. DOMAIN edge_indices = {k \in EdgeKeys : KeyId(k) < cursor}
    BY <1>2 DEF ChunksSoFar
  <2> HIDE DEF N, hi, keys
  <2> QED BY <1>4, <1>5, <2>1, <2>2, <2>3
<1>7. \A k \in DOMAIN edge_indices' : edge_indices'[k] = edge_index(k)
  BY <1>1, <1>2 DEF IndicesRight
<1>8. IndicesRight'
  BY <1>1, <1>7, ColumnsStay DEF IndicesRight
<1>9. CASE hi = N - 1
  <2>1. DOMAIN edge_indices' = EdgeKeys
    <3> HIDE DEF N, hi
    <3> QED BY <1>4, <1>6, <1>9
  <2>2. pc' = "node_rows" /\ EdgeKeys' = EdgeKeys
    BY <1>1, <1>9, ColumnsStay
  <2> QED BY <1>3, <1>8, <2>1, <2>2 DEF IInv, Steps, AfterEdges
<1>10. CASE hi # N - 1
  <2>1. pc' = "collect_edges" /\ cursor' = hi + 1
    BY <1>1, <1>10
  <2>2. hi + 1 \in 0..(N - 1)
    <3> HIDE DEF N, hi
    <3> QED BY <1>4, <1>5, <1>10
  <2>3. ChunksSoFar'
    BY <1>1, <1>6, <2>1, <2>2, ColumnsStay DEF ChunksSoFar
  <2> QED BY <1>3, <1>8, <2>1, <2>3 DEF IInv, Steps, AfterEdges
<1> QED BY <1>9, <1>10

\* Nothing after the edges touches the edges.
LEMMA StepAfterEdges ==
    ASSUME IInv, pc \in AfterEdges, pc' \in AfterEdges \cup {"failed"},
           UNCHANGED inputs, UNCHANGED <<node_id_df, edges_final, edge_indices>>
    PROVE  IInv'
<1>1. Given /\ Table /\ EdgesThere /\ IndicesRight /\ DOMAIN edge_indices = EdgeKeys
  BY DEF IInv, AfterEdges
<1>2. Given' /\ Table' /\ EdgesThere'
  BY <1>1, TableStays, EdgesStay DEF Given, Table, EdgesThere, inputs
<1>3. IndicesRight' /\ (DOMAIN edge_indices = EdgeKeys)'
  BY <1>1, ColumnsStay DEF IndicesRight
<1> QED BY <1>2, <1>3 DEF IInv, Steps, AfterEdges

LEMMA Inductive == IInv /\ [Next \/ Ended]_vars => IInv'
<1> SUFFICES ASSUME IInv, [Next \/ Ended]_vars PROVE IInv'
  OBVIOUS
<1>1. CASE MapNodes
  BY <1>1, StepMapNodes
<1>2. CASE ResolveEdges
  BY <1>2, StepResolveEdges
<1>3. CASE CollectEdges
  BY <1>3, StepCollectEdges
<1>4. ASSUME NEW t \in NodeTypes, CollectNodeChunk(t) PROVE IInv'
  <2>1. /\ pc = "node_rows" /\ pc' \in {pc, "edge_rows"}
        /\ UNCHANGED inputs /\ UNCHANGED <<node_id_df, edges_final, edge_indices>>
    BY <1>4 DEF CollectNodeChunk
  <2> QED BY <2>1, StepAfterEdges DEF AfterEdges
<1>5. CASE DivideByZero
  BY <1>5, StepAfterEdges DEF DivideByZero, AfterEdges
<1>6. ASSUME NEW batch \in (SUBSET NodeTypesLeft) \ {{}}, CollectNodeBatch(batch)
      PROVE  IInv'
  <2>1. /\ pc = "node_rows" /\ pc' \in {pc, "edge_rows"}
        /\ UNCHANGED inputs /\ UNCHANGED <<node_id_df, edges_final, edge_indices>>
    BY <1>6 DEF CollectNodeBatch
  <2> QED BY <2>1, StepAfterEdges DEF AfterEdges
<1>7. CASE SkipEdgeRows
  BY <1>7, StepAfterEdges DEF SkipEdgeRows, AfterEdges
<1>8. CASE CollectEdgeRowChunk
  <2>1. /\ pc = "edge_rows" /\ pc' \in {pc, "assemble"}
        /\ UNCHANGED inputs /\ UNCHANGED <<node_id_df, edges_final, edge_indices>>
    BY <1>8 DEF CollectEdgeRowChunk
  <2> QED BY <2>1, StepAfterEdges DEF AfterEdges
<1>9. ASSUME NEW batch \in (SUBSET EdgeTypesLeft(small_keys)) \ {{}},
             CollectEdgeRowBatch(batch)
      PROVE  IInv'
  <2>1. /\ pc = "edge_rows" /\ pc' \in {pc, "assemble"}
        /\ UNCHANGED inputs /\ UNCHANGED <<node_id_df, edges_final, edge_indices>>
    BY <1>9 DEF CollectEdgeRowBatch
  <2> QED BY <2>1, StepAfterEdges DEF AfterEdges
<1>10. CASE Assemble
  BY <1>10, StepAfterEdges DEF Assemble, AfterEdges
<1>11. CASE UNCHANGED vars
  <2>1. UNCHANGED inputs
        /\ UNCHANGED <<pc, node_id_df, edges_final, edge_indices, cursor>>
    BY <1>11 DEF vars, inputs
  <2> QED BY <2>1, TableStays, EdgesStay, ColumnsStay
          DEF IInv, Given, Table, EdgesThere, IndicesRight, ChunksSoFar,
              NothingYet, inputs
<1> QED BY <1>1, <1>2, <1>3, <1>4, <1>5, <1>6, <1>7, <1>8, <1>9, <1>10, <1>11
        DEF Next, Ended

\* The invariant: which frames are there at which step, and what they are.
THEOREM Invariance == Spec => []IInv
<1>1. Init => IInv
  BY Initially
<1>2. IInv /\ [Next \/ Ended]_vars => IInv'
  BY Inductive
<1> QED BY <1>1, <1>2, PTL DEF Spec

(* ----------------------------- properties ------------------------------ *)

\* The node index promises to whoever attaches labels: the rows of every type
\* are numbered without a gap, and every typed entity that is kept has one.
THEOREM RowsForEntities == Spec => []RowsAreEntities
<1>1. IInv => RowsAreEntities
  <2> SUFFICES ASSUME IInv, pc \notin {"nodes", "failed"} PROVE
         /\ DOMAIN node_id_df = Typed
         /\ \A t \in NodeTypes : \A i \in 0..(NodeCount(t) - 1) :
              \E u \in DOMAIN node_id_df : node_id_df[u] = [type |-> t, id |-> i]
    BY DEF RowsAreEntities
  <2>1. Given /\ Table
    BY DEF IInv
  <2>2. ASSUME NEW t, NEW i \in 0..(NodeCount(t) - 1)
        PROVE  \E u \in DOMAIN node_id_df : node_id_df[u] = [type |-> t, id |-> i]
    <3>1. PICK u \in OfType(t) : node_id_df[u].id = i
      BY <2>1, NodeIdsHaveNoGap
    <3>2. u \in Typed /\ node_id_df[u].type = t
      BY <2>1, TableIsTyped DEF OfType
    <3> QED BY <2>1, <3>1, <3>2, TableIsTyped
  <2> QED BY <2>1, <2>2, TableIsTyped
<1> QED BY <1>1, Invariance, PTL

\* Read back through the node index, a number is the entity it was given to.
LEMMA NodeAtFinds ==
    ASSUME Given, Table, NEW u \in Typed
    PROVE  NodeAt(node_id_df[u].type, node_id_df[u].id) = u
<1> DEFINE t == node_id_df[u].type
           is(v) == node_id_df[v] = [type |-> t, id |-> node_id_df[u].id]
<1>1. u \in DOMAIN node_id_df /\ is(u)
  BY TableIsTyped
<1>2. ASSUME NEW v \in DOMAIN node_id_df, is(v) PROVE v = u
  <2>1. v \in OfType(t) /\ u \in OfType(t) /\ node_id_df[v].id = node_id_df[u].id
    BY <1>1, <1>2 DEF OfType
  <2> QED BY <2>1, NodeIdsHaveNoGap
<1>3. NodeAt(t, node_id_df[u].id) = CHOOSE v \in DOMAIN node_id_df : is(v)
  BY DEF NodeAt
<1> HIDE DEF t, is
<1> QED BY <1>1, <1>2, <1>3 DEF t

\* The graph says what the triples said, each of them once, whatever the
\* chunks the edges were collected in.
THEOREM GraphSaysTheTriples == Spec => []GraphIsTheTriples
<1>1. IInv => GraphIsTheTriples
  <2> SUFFICES ASSUME IInv, pc = "done" PROVE GraphIsTheTriples
    BY DEF GraphIsTheTriples
  <2>1. /\ Given /\ Table /\ EdgesThere
        /\ DOMAIN edge_indices = EdgeKeys
        /\ \A k \in EdgeKeys : edge_indices[k] = edge_index(k)
    BY DEF IInv, AfterEdges, IndicesRight
  <2>2. ASSUME NEW c \in Columns
        PROVE  /\ c[1] \in EdgeKeys /\ c = <<c[1], c[2]>>
               /\ c[2] \in DOMAIN edge_index(c[1])
               /\ edge_indices[c[1]][c[2]] = edge_index(c[1])[c[2]]
    BY <2>1 DEF Columns
  <2>3. ASSUME NEW e \in edges_final,
               NEW t \in edge_triples, t.s \in Typed, t.o \in Typed,
               e.key = <<node_id_df[t.s].type, RelationOf[t.p], node_id_df[t.o].type>>,
               e.ends = <<node_id_df[t.s].id, node_id_df[t.o].id>>,
               NEW c, c[1] = e.key, edge_indices[c[1]][c[2]] = e.ends
        PROVE  <<Source(c), c[1][2], Target(c)>> = <<t.s, RelationOf[t.p], t.o>>
    <3>a. PICK k, n, b, i, j : /\ k = node_id_df[t.s].type /\ b = node_id_df[t.o].type
                               /\ n = RelationOf[t.p]
                               /\ i = node_id_df[t.s].id /\ j = node_id_df[t.o].id
      OBVIOUS
    <3>b. e.key = <<k, n, b>> /\ e.ends = <<i, j>>
      BY <2>3, <3>a
    <3>c. c[1][1] = k /\ c[1][2] = n /\ c[1][3] = b
      BY <2>3, <3>b
    <3>d. edge_indices[c[1]][c[2]][1] = i /\ edge_indices[c[1]][c[2]][2] = j
      BY <2>3, <3>b
    <3>1. Source(c) = NodeAt(node_id_df[t.s].type, node_id_df[t.s].id)
      BY <3>a, <3>c, <3>d DEF Source
    <3>2. Target(c) = NodeAt(node_id_df[t.o].type, node_id_df[t.o].id)
      BY <3>a, <3>c, <3>d DEF Target
    <3>3. Source(c) = t.s
      BY <2>1, <2>3, <3>1, NodeAtFinds
    <3>4. Target(c) = t.o
      BY <2>1, <2>3, <3>2, NodeAtFinds
    <3>5. c[1][2] = RelationOf[t.p]
      BY <3>a, <3>c
    <3> QED BY <3>3, <3>4, <3>5
  <2> DEFINE between == {r \in triples :
                           /\ r.p \notin ExcludedEdge
                           /\ {r.s, r.o} \subseteq Typed
                           /\ \/ config.edge_types = {}
                              \/ RelationOf[r.p] \in config.edge_types}
             said == {<<Source(c), c[1][2], Target(c)>> : c \in Columns}
             given == {<<t.s, RelationOf[t.p], t.o>> : t \in between}
  <2>4. between = edge_triples
    BY <2>1, TableIsTyped DEF edge_triples
  <2>5. ASSUME NEW c \in Columns
        PROVE  <<Source(c), c[1][2], Target(c)>> \in given
    <3>1. PICK e \in OfKey(c[1]) : edge_indices[c[1]][c[2]] = e.ends
      BY <2>1, <2>2, ColumnsAreEdges
    <3>2. e \in edges_final /\ e.key = c[1]
      BY DEF OfKey
    <3>3. PICK t \in edge_triples :
             /\ t.s \in Typed /\ t.o \in Typed
             /\ e.key = <<node_id_df[t.s].type, RelationOf[t.p], node_id_df[t.o].type>>
             /\ e.ends = <<node_id_df[t.s].id, node_id_df[t.o].id>>
      BY <2>1, <3>2, EdgesAreTriples
    <3>4. <<Source(c), c[1][2], Target(c)>> = <<t.s, RelationOf[t.p], t.o>>
      BY <2>3, <3>1, <3>2, <3>3
    <3> HIDE DEF between
    <3> QED BY <2>4, <3>4
  <2>6. ASSUME NEW t \in between
        PROVE  <<t.s, RelationOf[t.p], t.o>> \in said
    <3> DEFINE e == [key |-> <<node_id_df[t.s].type, RelationOf[t.p], node_id_df[t.o].type>>,
                     ends |-> <<node_id_df[t.s].id, node_id_df[t.o].id>>]
    <3>1. t \in edge_triples /\ t.s \in Typed /\ t.o \in Typed
      BY <2>4
    <3>2. e \in edges_final
      BY <2>1, <3>1 DEF EdgesThere, resolved_edges
    <3>3. e \in OfKey(e.key) /\ e.key \in EdgeKeys
      <4> HIDE DEF e
      <4> QED BY <3>2 DEF OfKey, EdgeKeys
    <3>4. PICK i \in DOMAIN edge_index(e.key) : edge_index(e.key)[i] = e.ends
      <4> HIDE DEF e
      <4> QED BY <2>1, <3>3, ColumnsAreEdges
    <3>5. i \in 0..Cardinality(edges_final)
      <4>1. OfKey(e.key) \in SUBSET edges_final
        BY DEF OfKey
      <4>2. EdgeCount(e.key) <= Cardinality(edges_final)
        <5> HIDE DEF e
        <5> QED BY <2>1, <4>1, EdgesAreFinite, FS_Subset DEF EdgeCount
      <4>3. /\ EdgeCount(e.key) \in Nat /\ Cardinality(edges_final) \in Nat
            /\ i \in 0..(EdgeCount(e.key) - 1)
        <5> HIDE DEF e
        <5> QED BY <2>1, <3>4, ColumnsAreEdges, EdgesAreFinite, FS_CardinalityType
      <4> HIDE DEF e
      <4> QED BY <4>2, <4>3
    <3> DEFINE c == <<e.key, i>>
    <3>6. c \in Columns /\ c[1] = e.key /\ edge_indices[c[1]][c[2]] = e.ends
      <4> HIDE DEF e
      <4> QED BY <2>1, <3>3, <3>4, <3>5 DEF Columns
    <3>7. <<Source(c), c[1][2], Target(c)>> = <<t.s, RelationOf[t.p], t.o>>
      <4>1. /\ e.key = <<node_id_df[t.s].type, RelationOf[t.p], node_id_df[t.o].type>>
            /\ e.ends = <<node_id_df[t.s].id, node_id_df[t.o].id>>
        OBVIOUS
      <4> HIDE DEF e, c, between
      <4> QED BY <2>3, <3>1, <3>2, <3>6, <4>1
    <3> HIDE DEF c
    <3> QED BY <3>6, <3>7
  <2>7. said = given
    <3> HIDE DEF between
    <3> QED BY <2>5, <2>6
  <2>8. ASSUME NEW c \in Columns, NEW d \in Columns, c[1] = d[1], c # d
        PROVE  edge_indices[c[1]][c[2]] # edge_indices[d[1]][d[2]]
    <3>1. c[2] # d[2]
      BY <2>2, <2>8
    <3>2. edge_index(c[1])[c[2]] # edge_index(c[1])[d[2]]
      BY <2>1, <2>2, <2>8, <3>1, ColumnsAreEdges
    <3> QED BY <2>2, <2>8, <3>2
  <2> QED BY <2>7, <2>8 DEF GraphIsTheTriples
<1> QED BY <1>1, Invariance, PTL

(* ------------------------------ the types ------------------------------ *)

\* A type has at least as many rows as entities.
LEMMA RowsAndCarriers ==
    ASSUME Given, NEW n
    PROVE  /\ IsFiniteSet(Carriers(n)) /\ Cardinality(Carriers(n)) \in Nat
           /\ TypeCount(n) \in Nat /\ Cardinality(Carriers(n)) <= TypeCount(n)
<1> DEFINE R == Rows(n)  C == Carriers(n)
           f == [t \in R |-> t.s]
<1>1. IsFiniteSet(R)
  <2>1. R \in SUBSET triples
    BY DEF Rows, type_triples
  <2> HIDE DEF R
  <2> QED BY <2>1, FS_Subset DEF Given
<1>2. f \in Surjection(R, C)
  BY DEF Surjection, Carriers
<1>3. IsFiniteSet(C) /\ Cardinality(C) <= Cardinality(R)
  <2> HIDE DEF f, R, C
  <2> QED BY <1>1, <1>2, FS_Surjection
<1>4. Cardinality(C) \in Nat /\ Cardinality(R) \in Nat
  <2> HIDE DEF R, C
  <2> QED BY <1>1, <1>3, FS_CardinalityType
<1> QED BY <1>3, <1>4 DEF TypeCount

\* What is subsumed is carried by no entity that the wider type is not on.
LEMMA SubsumedIsWithin ==
    ASSUME Given, NEW b, NEW c,
           Cardinality(Carriers(b) \cap Carriers(c)) = TypeCount(b)
    PROVE  Carriers(b) \subseteq Carriers(c)
<1> DEFINE B == Carriers(b)  I == Carriers(b) \cap Carriers(c)
<1>1. /\ IsFiniteSet(B) /\ Cardinality(B) \in Nat
      /\ TypeCount(b) \in Nat /\ Cardinality(B) <= TypeCount(b)
  BY RowsAndCarriers
<1>2. I \in SUBSET B /\ Cardinality(I) = TypeCount(b)
  OBVIOUS
<1> HIDE DEF B, I
<1>3. Cardinality(I) <= Cardinality(B) /\ (Cardinality(B) = Cardinality(I) => B = I)
  BY <1>1, <1>2, FS_Subset
<1>4. B = I
  BY <1>1, <1>2, <1>3
<1> QED BY <1>4 DEF B, I

TypeNames == {NodeTypeOf[t.o] : t \in type_triples}

\* Above a type with a wider one there is a wider one that none subsumes:
\* the one with the most rows.
LEMMA WidestIsNotSubsumed ==
    ASSUME Given, NEW n, NEW m \in TypeNames,
           Carriers(n) \subseteq Carriers(m), TypeCount(m) > TypeCount(n)
    PROVE  \E b \in TypeNames : /\ Carriers(n) \subseteq Carriers(b)
                                /\ TypeCount(b) > TypeCount(n)
                                /\ b \notin _subsumed_node_types
<1> DEFINE W == {b \in TypeNames : /\ Carriers(n) \subseteq Carriers(b)
                                   /\ TypeCount(b) > TypeCount(n)}
           f == [b \in W |-> 0 - TypeCount(b)]
           g == [t \in type_triples |-> NodeTypeOf[t.o]]
<1>1. IsFiniteSet(TypeNames)
  <2>1. type_triples \in SUBSET triples
    BY DEF type_triples
  <2>2. IsFiniteSet(type_triples)
    BY <2>1, FS_Subset DEF Given
  <2>3. g = [t \in type_triples |-> g[t]] /\ TypeNames = {g[t] : t \in type_triples}
    BY DEF TypeNames
  <2> HIDE DEF g
  <2> QED BY <2>2, <2>3, ImageIsFinite
<1>2. IsFiniteSet(W) /\ W # {}
  <2>1. W \in SUBSET TypeNames /\ m \in W
    OBVIOUS
  <2> HIDE DEF W
  <2> QED BY <1>1, <2>1, FS_Subset
<1>3. \A b : TypeCount(b) \in Nat
  BY RowsAndCarriers
<1>4. PICK b \in W : \A c \in W : f[b] <= f[c]
  <2>1. f = [b \in W |-> f[b]] /\ \A b \in W : f[b] \in Int
    BY <1>3
  <2> HIDE DEF f, W
  <2> QED BY <1>2, <2>1, Least
<1>5. \A c \in W : TypeCount(c) <= TypeCount(b)
  <2> HIDE DEF W
  <2> QED BY <1>3, <1>4
<1>6. ASSUME b \in _subsumed_node_types PROVE FALSE
  <2>1. PICK c \in TypeNames :
           /\ Cardinality(Carriers(b) \cap Carriers(c)) = TypeCount(b)
           /\ TypeCount(c) > TypeCount(b)
    BY <1>6 DEF _subsumed_node_types, TypeNames
  <2>2. Carriers(b) \subseteq Carriers(c)
    BY <2>1, SubsumedIsWithin
  <2>3. Carriers(n) \subseteq Carriers(c) /\ TypeCount(c) > TypeCount(n)
    BY <1>3, <2>1, <2>2
  <2>4. c \in W
    BY <2>3
  <2> HIDE DEF W
  <2> QED BY <1>3, <1>5, <2>1, <2>4
<1> QED BY <1>6

\* One concept is one node type: no entity is placed under a type all of
\* whose entities are also of a wider type, unless the type is pinned or two
\* type URIs have its name; the wider types may subsume each other.
THEOREM OneTypeForAConcept == Spec => []NoSubclassShard
<1> DEFINE NoTableYet == pc = "nodes" => node_id_df = << >>
<1>1. Init => NoTableYet
  BY DEF Init
<1>2. ASSUME NoTableYet, IInv, [Next \/ Ended]_vars PROVE NoTableYet'
  <2>1. CASE UNCHANGED vars
    BY <1>2, <2>1 DEF vars
  <2>2. ASSUME NEW t \in NodeTypes, CollectNodeChunk(t) PROVE NoTableYet'
    BY <2>2 DEF CollectNodeChunk
  <2>3. ASSUME NEW batch, CollectNodeBatch(batch) PROVE NoTableYet'
    BY <2>3 DEF CollectNodeBatch
  <2>4. ASSUME NEW batch, CollectEdgeRowBatch(batch) PROVE NoTableYet'
    BY <2>4 DEF CollectEdgeRowBatch
  <2>5. CASE MapNodes \/ ResolveEdges \/ CollectEdges \/ DivideByZero
             \/ SkipEdgeRows \/ CollectEdgeRowChunk \/ Assemble
    BY <2>5 DEF MapNodes, ResolveEdges, CollectEdges, DivideByZero, SkipEdgeRows,
                CollectEdgeRowChunk, Assemble
  <2> QED BY <1>2, <2>1, <2>2, <2>3, <2>4, <2>5 DEF Next, Ended
<1>3. IInv /\ NoTableYet => NoSubclassShard
  <2> SUFFICES ASSUME IInv, NoTableYet, NEW u \in DOMAIN node_id_df,
                      ~(Priority(node_id_df[u].type) <= Len(Pinned)),
                      TypeCount(node_id_df[u].type)
                        = Cardinality(Carriers(node_id_df[u].type)),
                      NEW m \in NamesOf(u),
                      Carriers(node_id_df[u].type) \subseteq Carriers(m),
                      Carriers(node_id_df[u].type) # Carriers(m)
               PROVE  FALSE
    BY DEF NoSubclassShard
  <2> DEFINE n == node_id_df[u].type
             sub == _subsumed_node_types
  <2>1. Given /\ Table
    BY DEF IInv
  <2>2. PICK r \in ranked : r.uri = u /\ r.order[4] = n
    BY <2>1, TableIsTyped
  <2>3. PICK t \in type_triples :
           r = [uri |-> t.s, order |-> Contest(NodeTypeOf[t.o], sub)]
    BY <2>1, <2>2, OneRowEach DEF Contenders
  <2>4. NodeTypeOf[t.o] = n /\ t.s = u /\ r.order = Contest(n, sub)
    BY <2>2, <2>3 DEF Contest
  <2>5. n \in TypeNames /\ u \in Carriers(n)
    BY <2>3, <2>4 DEF TypeNames, Carriers, Rows
  <2>6. m \in TypeNames
    BY DEF NamesOf, TypeNames
  <2> HIDE DEF n
  <2>7. /\ TypeCount(n) = Cardinality(Carriers(n))
        /\ Carriers(n) \subseteq Carriers(m) /\ Carriers(n) # Carriers(m)
        /\ ~(Priority(n) <= Len(Pinned))
    BY DEF n
  <2>8. TypeCount(m) > TypeCount(n)
    <3>1. /\ IsFiniteSet(Carriers(m)) /\ Cardinality(Carriers(m)) \in Nat
          /\ TypeCount(m) \in Nat /\ Cardinality(Carriers(m)) <= TypeCount(m)
          /\ TypeCount(n) \in Nat
      BY <2>1, RowsAndCarriers
    <3>2. /\ Cardinality(Carriers(n)) <= Cardinality(Carriers(m))
          /\ Cardinality(Carriers(n)) # Cardinality(Carriers(m))
      BY <2>7, <3>1, FS_Subset
    <3> QED BY <2>7, <3>1, <3>2
  <2>9. n \in sub
    <3>1. Carriers(n) \cap Carriers(m) = Carriers(n) /\ m # n
      BY <2>7
    <3>2. Cardinality(Carriers(n) \cap Carriers(m)) = TypeCount(n)
      BY <2>7, <3>1
    <3> QED BY <2>5, <2>6, <2>8, <3>1, <3>2 DEF _subsumed_node_types, TypeNames
  <2>10. PICK b \in TypeNames : /\ Carriers(n) \subseteq Carriers(b)
                                /\ TypeCount(b) > TypeCount(n)
                                /\ b \notin sub
    BY <2>1, <2>6, <2>7, <2>8, WidestIsNotSubsumed
  <2>11. b # n
    <3>1. TypeCount(n) \in Nat
      BY <2>1, RowsAndCarriers
    <3> QED BY <2>10, <3>1
  <2> DEFINE s == [uri |-> u, order |-> Contest(b, sub)]
  <2>12. s \in Contenders
    <3>1. u \in Carriers(b)
      BY <2>5, <2>10
    <3>2. PICK t2 \in type_triples : t2.s = u /\ NodeTypeOf[t2.o] = b
      BY <3>1 DEF Carriers, Rows
    <3> QED BY <3>2 DEF Contenders
  <2>13. s # r /\ s.uri = r.uri
    BY <2>2, <2>4, <2>11 DEF Contest
  <2>14. Before(r.order, s.order)
    <3> HIDE DEF s
    <3> QED BY <2>2, <2>12, <2>13 DEF ranked, Contenders
  <2>15. /\ r.order[1] = Priority(n) /\ s.order[1] = Priority(b)
         /\ r.order[2] = 1 /\ s.order[2] = 0 /\ Len(r.order) = 4
    BY <2>4, <2>9, <2>10 DEF Contest
  <2>16. Priority(b) <= Priority(n) /\ Priority(b) \in Int /\ Priority(n) \in Int
    <3>1. Len(Pinned) \in Nat
      BY NodeMapperAssumption
    <3> QED BY <2>7, <3>1, PriorityIsBounded
  <2>17. PICK i \in 1..4 : /\ r.order[i] < s.order[i]
                           /\ \A j \in 1..(i - 1) : r.order[j] = s.order[j]
    <3> HIDE DEF s
    <3> QED BY <2>14, <2>15 DEF Before
  <2>18. i # 1 /\ i # 2
    <3> HIDE DEF s
    <3> QED BY <2>15, <2>16, <2>17
  <2>19. 2 \in 1..(i - 1)
    BY <2>18
  <2> HIDE DEF s
  <2> QED BY <2>15, <2>17, <2>19
<1> HIDE DEF NoTableYet
<1> QED BY <1>1, <1>2, <1>3, Invariance, PTL DEF Spec

(* ---------------------- rows written in ranges ------------------------- *)

\* There is an entry for every row, and it has what the row should have.
Complete(E, want, n) ==
    /\ DOMAIN want = 0..(n - 1)
    /\ \A e \in E : e.id \in 0..(n - 1) /\ e.row = want[e.id]
    /\ \A i \in 0..(n - 1) : \E e \in E : e.id = i
    /\ \A d, e \in E : d.id = e.id => d = e

\* One more range: the rows before its end are as they should be.
LEMMA Scattered ==
    ASSUME NEW n \in Nat, NEW want, NEW E, Complete(E, want, n),
           NEW lo \in Nat, NEW hi \in Int, NEW rows, DOMAIN rows = 0..(n - 1),
           \A i \in 0..(n - 1) : i < lo => rows[i] = want[i]
    PROVE  /\ DOMAIN Scatter(rows, InRange(E, lo, hi)) = 0..(n - 1)
           /\ \A i \in 0..(n - 1) :
                 i < hi => Scatter(rows, InRange(E, lo, hi))[i] = want[i]
<1> DEFINE R == InRange(E, lo, hi)
<1>1. Scatter(rows, R) = [i \in 0..(n - 1) |->
          IF \E e \in R : e.id = i THEN (CHOOSE e \in R : e.id = i).row ELSE rows[i]]
  BY DEF Scatter
<1>2. ASSUME NEW i \in 0..(n - 1), i < hi
      PROVE  Scatter(rows, R)[i] = want[i]
  <2>1. CASE i < lo
    <3>1. ~\E e \in R : e.id = i
      BY <2>1 DEF InRange, Complete
    <3> HIDE DEF R
    <3> QED BY <1>1, <2>1, <3>1
  <2>2. CASE ~(i < lo)
    <3>1. PICK d \in E : d.id = i
      BY DEF Complete
    <3>2. d \in R
      BY <1>2, <2>2, <3>1 DEF InRange
    <3>3. \A e \in R : e.id = i => e.row = want[i]
      BY DEF InRange, Complete
    <3> HIDE DEF R
    <3> QED BY <1>1, <3>1, <3>2, <3>3
  <2> QED BY <2>1, <2>2
<1> HIDE DEF R
<1> QED BY <1>1, <1>2 DEF R

\* All of them at once, over zeros.
LEMMA ScatteredWhole ==
    ASSUME NEW n \in Nat, NEW want, want = [i \in 0..(n - 1) |-> want[i]],
           NEW E, Complete(E, want, n)
    PROVE  Scatter(Zeros(n), E) = want
<1>1. DOMAIN Zeros(n) = 0..(n - 1)
  BY DEF Zeros
<1>2. InRange(E, 0, n) = E
  BY DEF InRange, Complete
<1>3. Scatter(Zeros(n), E) = [i \in 0..(n - 1) |-> Scatter(Zeros(n), E)[i]]
  BY <1>1 DEF Scatter
<1>4. \A i \in 0..(n - 1) : Scatter(Zeros(n), E)[i] = want[i]
  BY <1>1, <1>2, Scattered
<1> QED BY <1>3, <1>4

\* A range of b rows has at most b entries.
LEMMA FewEntries ==
    ASSUME NEW n \in Nat, NEW want, NEW E, Complete(E, want, n),
           NEW lo \in Nat, NEW hi \in Int, NEW b \in Nat, hi <= lo + b
    PROVE  Cardinality(InRange(E, lo, hi)) <= b
<1> DEFINE R == InRange(E, lo, hi)
           T == lo..(hi - 1)
           f == [e \in R |-> e.id]
<1>1. f \in Injection(R, T)
  BY DEF Injection, IsInjective, InRange, Complete
<1>2. IsFiniteSet(T) /\ Cardinality(T) <= b
  <2>1. hi - 1 \in Int /\ lo \in Int
    OBVIOUS
  <2>2. IsFiniteSet(T) /\ Cardinality(T) = IF lo > hi - 1 THEN 0 ELSE (hi - 1) - lo + 1
    <3> HIDE DEF R, f
    <3> QED BY <2>1, FS_Interval
  <2> QED BY <2>2
<1>3. IsFiniteSet(R) /\ Cardinality(R) <= Cardinality(T)
  <2> HIDE DEF f, R, T
  <2> QED BY <1>1, <1>2, FS_Injection
<1>4. Cardinality(R) \in Nat /\ Cardinality(T) \in Nat
  <2> HIDE DEF R, T
  <2> QED BY <1>2, <1>3, FS_CardinalityType
<1> HIDE DEF R, T
<1> QED BY <1>2, <1>3, <1>4 DEF R

(* --------------------------- the entries ------------------------------ *)

\* What a node's row is computed from, and an edge's from its two ends.
SaidOf(u) == {<<t.p, t.o>> : t \in {r \in triples : r.s = u}}
NumbersOf(u, end) ==
    {<<t.p, end, t.o>> : t \in {r \in triples :
                                  r.s = u /\ r.p \in Numeric /\ r.o \notin Typed}}

\* The rows a node type and an edge type should have in the end.
NodeRows(t) == [i \in 0..(NodeCount(t) - 1) |-> SaidOf(NodeAt(t, i))]
EdgeRows(k) ==
    [i \in 0..(EdgeCount(k) - 1) |->
        NumbersOf(NodeAt(k[1], edge_index(k)[i][1]), "src")
        \cup NumbersOf(NodeAt(k[3], edge_index(k)[i][2]), "dst")]

\* What there is of nodes and edges.
GraphThere ==
    /\ Given /\ Table /\ EdgesThere /\ DOMAIN edge_indices = EdgeKeys

LEMMA NodeTypesAreFinite ==
    ASSUME Given, Table
    PROVE  IsFiniteSet(NodeTypes)
<1> DEFINE f == [u \in DOMAIN node_id_df |-> node_id_df[u].type]
<1>1. NodeTypes = {f[u] : u \in DOMAIN node_id_df}
  BY DEF NodeTypes
<1>2. IsFiniteSet(DOMAIN node_id_df) /\ f = [u \in DOMAIN node_id_df |-> f[u]]
  BY TableIsTyped
<1> HIDE DEF f
<1> QED BY <1>1, <1>2, ImageIsFinite

\* The aggregated frame has one entry for every row of a node type.
LEMMA NodeEntriesComplete ==
    ASSUME Given, Table, NEW t
    PROVE  /\ NodeCount(t) \in Nat
           /\ Complete({e \in node_entries : e.type = t}, NodeRows(t), NodeCount(t))
<1> DEFINE E == {e \in node_entries : e.type = t}
           n == NodeCount(t)
           entry(u) == [type |-> node_id_df[u].type, id |-> node_id_df[u].id,
                        row |-> SaidOf(u)]
<1>1. /\ n \in Nat
      /\ \A u \in OfType(t) : node_id_df[u].id \in 0..(n - 1)
      /\ \A u, v \in OfType(t) : node_id_df[u].id = node_id_df[v].id => u = v
      /\ \A i \in 0..(n - 1) : \E u \in OfType(t) : node_id_df[u].id = i
  BY NodeIdsHaveNoGap
<1>2. node_entries = {entry(u) : u \in DOMAIN node_id_df}
  BY DEF node_entries, SaidOf
<1>3. \A u \in OfType(t) : entry(u) \in E
  BY <1>2 DEF OfType
<1>4. \A e \in E : \E u \in OfType(t) : e = entry(u)
  BY <1>2 DEF OfType
<1>5. \A u \in OfType(t) : u \in Typed /\ node_id_df[u].type = t
  BY TableIsTyped DEF OfType
<1>6. ASSUME NEW u \in OfType(t)
      PROVE  entry(u).id = node_id_df[u].id /\ entry(u).row = NodeRows(t)[entry(u).id]
  <2>1. NodeAt(t, node_id_df[u].id) = u
    BY <1>5, NodeAtFinds
  <2>2. NodeRows(t)[node_id_df[u].id] = SaidOf(u)
    BY <1>1, <2>1 DEF NodeRows
  <2> QED BY <2>2
<1>7. DOMAIN NodeRows(t) = 0..(n - 1)
  BY DEF NodeRows
<1> HIDE DEF E, n, entry
<1>8. \A e \in E : e.id \in 0..(n - 1) /\ e.row = NodeRows(t)[e.id]
  BY <1>1, <1>4, <1>6
<1>9. \A i \in 0..(n - 1) : \E e \in E : e.id = i
  BY <1>1, <1>3, <1>6
<1>10. \A d, e \in E : d.id = e.id => d = e
  BY <1>1, <1>4, <1>6
<1> QED BY <1>1, <1>7, <1>8, <1>9, <1>10 DEF Complete, E, n

\* The props an encoder is handed for an edge type, narrow or not, have all
\* the numbers of an entity of one of its two types.
LEMMA PropsAreAll ==
    ASSUME Given, Table, NEW k, NEW u \in Typed,
           node_id_df[u].type \in {k[1], k[3]}, NEW end
    PROVE  {<<r.p, end, r.value>> :
               r \in {q \in PropsFor(k) : /\ q.type = node_id_df[u].type
                                         /\ q.id = node_id_df[u].id}}
             = NumbersOf(u, end)
<1> DEFINE prop(t) == [type |-> node_id_df[t.s].type, id |-> node_id_df[t.s].id,
                       p |-> t.p, value |-> t.o]
           numbers == {t \in triples : t.s = u /\ t.p \in Numeric /\ t.o \notin Typed}
           mine == {q \in PropsFor(k) : /\ q.type = node_id_df[u].type
                                        /\ q.id = node_id_df[u].id}
<1>1. numeric_props = {prop(t) : t \in {r \in triples :
                          r.s \in Typed /\ r.o \notin Typed /\ r.p \in Numeric}}
  BY TableIsTyped DEF numeric_props
<1>2. mine = {q \in numeric_props : /\ q.type = node_id_df[u].type
                                    /\ q.id = node_id_df[u].id}
  BY DEF PropsFor
<1>3. \A t \in numbers : prop(t) \in mine /\ prop(t).p = t.p /\ prop(t).value = t.o
  BY <1>1, <1>2
<1>4. ASSUME NEW q \in mine PROVE \E t \in numbers : q = prop(t)
  <2>1. PICK t \in triples : /\ t.s \in Typed /\ t.o \notin Typed /\ t.p \in Numeric
                             /\ q = prop(t)
    BY <1>1, <1>2
  <2>2. node_id_df[t.s].type = node_id_df[u].type /\ node_id_df[t.s].id = node_id_df[u].id
    BY <1>2, <2>1
  <2>3. t.s = u
    BY <2>1, <2>2, NodeAtFinds
  <2> QED BY <2>1, <2>3
<1>5. NumbersOf(u, end) = {<<t.p, end, t.o>> : t \in numbers}
  BY DEF NumbersOf
<1> HIDE DEF mine, numbers, prop
<1>6. {<<r.p, end, r.value>> : r \in mine} = {<<t.p, end, t.o>> : t \in numbers}
  BY <1>3, <1>4
<1> QED BY <1>5, <1>6 DEF mine

\* The joined frame has one entry for every column of an edge type.
LEMMA EdgeEntriesComplete ==
    ASSUME GraphThere, NEW k \in eligible_types
    PROVE  /\ EdgeCount(k) \in Nat
           /\ Complete(EdgeEntries(k), EdgeRows(k), EdgeCount(k))
<1> DEFINE E == EdgeEntries(k)
           n == EdgeCount(k)
           row(e) == EdgeRow(k, e.ends, PropsFor(k))
           entry(e) == [id |-> PlaceOf(e), row |-> row(e)]
<1>1. Given /\ Table /\ EdgesThere /\ DOMAIN edge_indices = EdgeKeys
  BY DEF GraphThere
<1>2. /\ n \in Nat
      /\ DOMAIN edge_index(k) = 0..(n - 1)
      /\ \A i \in 0..(n - 1) : \E e \in OfKey(k) : edge_index(k)[i] = e.ends
      /\ \A i, j \in 0..(n - 1) : edge_index(k)[i] = edge_index(k)[j] => i = j
      /\ \A e \in OfKey(k) : PlaceOf(e) \in 0..(n - 1) /\ edge_index(k)[PlaceOf(e)] = e.ends
  <2>1. /\ n \in Nat
        /\ DOMAIN edge_index(k) = 0..(n - 1)
        /\ \A i \in DOMAIN edge_index(k) : \E e \in OfKey(k) : edge_index(k)[i] = e.ends
        /\ \A i, j \in DOMAIN edge_index(k) : edge_index(k)[i] = edge_index(k)[j] => i = j
        /\ \A e \in OfKey(k) : /\ PlaceOf(e) \in DOMAIN edge_index(k)
                               /\ edge_index(k)[PlaceOf(e)] = e.ends
    BY <1>1, ColumnsAreEdges
  <2> HIDE DEF n
  <2> QED BY <2>1
<1>3. E = {entry(e) : e \in OfKey(k)}
  <2> DEFINE frame == IF k \in small_keys THEN small_edges ELSE edges_with_idx
             numbered(e) == [key |-> e.key, ends |-> e.ends, id |-> PlaceOf(e)]
  <2>1. edges_with_idx = {numbered(e) : e \in edges_final}
    BY DEF edges_with_idx, PlaceOf
  <2>2. {f \in frame : f.key = k} = {f \in edges_with_idx : f.key = k}
    BY DEF small_edges
  <2>3. E = {[id |-> f.id, row |-> row(f)] : f \in {g \in frame : g.key = k}}
    BY DEF EdgeEntries
  <2>4. \A e \in OfKey(k) : e \in edges_final /\ e.key = k
    BY DEF OfKey
  <2>5. {f \in edges_with_idx : f.key = k} = {numbered(e) : e \in OfKey(k)}
    BY <2>1, <2>4 DEF OfKey
  <2>6. \A e \in OfKey(k) : /\ numbered(e).id = PlaceOf(e)
                            /\ row(numbered(e)) = row(e)
    OBVIOUS
  <2> HIDE DEF frame, numbered, row, E
  <2> QED BY <2>2, <2>3, <2>5, <2>6
<1>4. ASSUME NEW e \in OfKey(k)
      PROVE  row(e) = EdgeRows(k)[PlaceOf(e)]
  <2>1. e \in edges_final /\ e.key = k
    BY DEF OfKey
  <2>2. PICK t \in edge_triples :
           /\ t.s \in Typed /\ t.o \in Typed
           /\ e.key = <<node_id_df[t.s].type, RelationOf[t.p], node_id_df[t.o].type>>
           /\ e.ends = <<node_id_df[t.s].id, node_id_df[t.o].id>>
    BY <1>1, <2>1, EdgesAreTriples
  <2>3. /\ k[1] = node_id_df[t.s].type /\ k[3] = node_id_df[t.o].type
        /\ e.ends[1] = node_id_df[t.s].id /\ e.ends[2] = node_id_df[t.o].id
    BY <2>1, <2>2
  <2> DEFINE of(u, end) == {<<r.p, end, r.value>> :
                 r \in {q \in PropsFor(k) : /\ q.type = node_id_df[u].type
                                            /\ q.id = node_id_df[u].id}}
  <2>4. row(e) = of(t.s, "src") \cup of(t.o, "dst")
    BY <2>3 DEF EdgeRow
  <2>5. of(t.s, "src") = NumbersOf(t.s, "src") /\ of(t.o, "dst") = NumbersOf(t.o, "dst")
    BY <1>1, <2>2, <2>3, PropsAreAll
  <2>6. NodeAt(k[1], e.ends[1]) = t.s /\ NodeAt(k[3], e.ends[2]) = t.o
    BY <1>1, <2>2, <2>3, NodeAtFinds
  <2>7. EdgeRows(k)[PlaceOf(e)]
          = NumbersOf(NodeAt(k[1], e.ends[1]), "src")
            \cup NumbersOf(NodeAt(k[3], e.ends[2]), "dst")
    BY <1>2 DEF EdgeRows
  <2> HIDE DEF row, of
  <2> QED BY <2>4, <2>5, <2>6, <2>7
<1>5. DOMAIN EdgeRows(k) = 0..(n - 1)
  BY DEF EdgeRows
<1>6. \A e \in E : \E d \in OfKey(k) : e = entry(d)
  BY <1>3
<1>7. \A e \in E : e.id \in 0..(n - 1) /\ e.row = EdgeRows(k)[e.id]
  <2> HIDE DEF E, n, row
  <2> QED BY <1>2, <1>4, <1>6
<1>8. ASSUME NEW i \in 0..(n - 1) PROVE \E e \in E : e.id = i
  <2>1. PICK e \in OfKey(k) : edge_index(k)[i] = e.ends
    BY <1>2
  <2>2. PlaceOf(e) = i
    <3> HIDE DEF E, n
    <3> QED BY <1>2, <2>1
  <2>3. entry(e) \in E /\ entry(e).id = i
    <3> HIDE DEF E
    <3> QED BY <1>3, <2>2
  <2> HIDE DEF E, entry
  <2> QED BY <2>3
<1>9. \A d, e \in E : d.id = e.id => d = e
  <2>1. \A e \in E : e = [id |-> e.id, row |-> EdgeRows(k)[e.id]]
    <3> HIDE DEF E, n, row
    <3> QED BY <1>6, <1>7
  <2> HIDE DEF E
  <2> QED BY <2>1
<1> HIDE DEF E, n
<1> QED BY <1>2, <1>5, <1>7, <1>8, <1>9 DEF Complete, E, n

(* ---------------------------- the invariant ---------------------------- *)

\* The driver's budgets are numbers, the switch is a switch.
Budgets ==
    /\ config.chunk_node_threshold \in Int
    /\ config.chunk_edge_threshold \in Int
    /\ config.edge_features \in BOOLEAN

\* A tensor under collection: its rows are all there, and right up to next.
UpTo(rows, next) ==
    /\ tensor.next \in 0..next
    /\ DOMAIN tensor.rows = DOMAIN rows
    /\ \A i \in DOMAIN rows : i < tensor.next => tensor.rows[i] = rows[i]

Featurized == IF config.edge_features THEN eligible_types ELSE {}

NoRowsYet == feature_tensors = << >> /\ edge_features = << >> /\ tensor = NoTensor

NodeRowsSoFar ==
    /\ DOMAIN feature_tensors \subseteq NodeTypes
    /\ \A t \in DOMAIN feature_tensors : feature_tensors[t] = NodeRows(t)
EdgeRowsSoFar ==
    /\ DOMAIN edge_features \subseteq Featurized
    /\ \A k \in DOMAIN edge_features : edge_features[k] = EdgeRows(k)

\* The type whose rows are under collection is the next to be finished.
NodeTensor ==
    \/ tensor = NoTensor
    \/ \E t \in LargeNodeTypes \cap NodeTypesLeft :
          tensor.of = <<t>> /\ UpTo(NodeRows(t), NodeCount(t))
EdgeTensor ==
    \/ tensor = NoTensor
    \/ /\ EdgeTypesLeft(large_keys) # {}
       /\ LET k == FirstOf(EdgeTypesLeft(large_keys))
          IN tensor.of = k /\ UpTo(EdgeRows(k), EdgeCount(k))

RInv ==
    /\ Budgets
    /\ pc \in {"nodes", "edges", "collect_edges"} => NoRowsYet
    /\ pc = "node_rows" => NodeTensor /\ edge_features = << >>
    /\ pc = "edge_rows" => EdgeTensor
    /\ pc \in AfterEdges => NodeRowsSoFar /\ EdgeRowsSoFar
    /\ pc \in {"edge_rows", "assemble", "done"} => DOMAIN feature_tensors = NodeTypes
    /\ pc \in {"assemble", "done"} => DOMAIN edge_features = Featurized

\* What the rows should be depends on nothing a later step writes.
LEMMA NodesStay ==
    ASSUME UNCHANGED inputs, UNCHANGED node_id_df
    PROVE  /\ NodeTypes' = NodeTypes /\ LargeNodeTypes' = LargeNodeTypes
           /\ \A t : NodeCount(t)' = NodeCount(t) /\ NodeRows(t)' = NodeRows(t)
           /\ \A t, i : NodeAt(t, i)' = NodeAt(t, i)
           /\ Typed' = Typed
<1>1. NodeTypes' = NodeTypes
  BY DEF NodeTypes
<1>2. \A t : NodeCount(t)' = NodeCount(t)
  BY DEF NodeCount
<1>3. LargeNodeTypes' = LargeNodeTypes
  BY <1>1, <1>2 DEF LargeNodeTypes, inputs
<1>4. \A t, i : NodeAt(t, i)' = NodeAt(t, i)
  BY DEF NodeAt
<1>5. \A u : SaidOf(u)' = SaidOf(u)
  BY DEF SaidOf, inputs
<1>6. \A t : NodeRows(t)' = NodeRows(t)
  BY <1>2, <1>4, <1>5 DEF NodeRows
<1>7. Typed' = Typed
  BY DEF Typed, type_triples, Kept, inputs
<1> QED BY <1>1, <1>2, <1>3, <1>4, <1>6, <1>7

LEMMA EdgeTypesStay ==
    ASSUME UNCHANGED inputs, UNCHANGED <<node_id_df, edges_final, edge_indices>>
    PROVE  /\ eligible_types' = eligible_types /\ Featurized' = Featurized
           /\ small_keys' = small_keys /\ large_keys' = large_keys
           /\ \A k : EdgeCount(k)' = EdgeCount(k) /\ EdgeRows(k)' = EdgeRows(k)
           /\ \A keys : FirstOf(keys)' = FirstOf(keys)
<1>1. \A k : EdgeCount(k)' = EdgeCount(k)
  BY DEF EdgeCount, OfKey
<1>2. eligible_types' = eligible_types /\ EdgeBudget' = EdgeBudget
  BY DEF eligible_types, EdgeBudget, inputs
<1>3. small_keys' = small_keys /\ large_keys' = large_keys
  BY <1>1, <1>2 DEF small_keys, large_keys
<1>4. \A k : edge_index(k)' = edge_index(k) /\ KeyId(k)' = KeyId(k)
  BY ColumnsStay
<1>5. Typed' = Typed /\ \A t, i : NodeAt(t, i)' = NodeAt(t, i)
  BY NodesStay
<1>6. \A u, end : NumbersOf(u, end)' = NumbersOf(u, end)
  BY <1>5 DEF NumbersOf, inputs
<1>7. \A k : EdgeRows(k)' = EdgeRows(k)
  BY <1>1, <1>4, <1>5, <1>6 DEF EdgeRows
<1>8. \A keys : FirstOf(keys)' = FirstOf(keys)
  BY <1>4 DEF FirstOf
<1>9. Featurized' = Featurized
  BY <1>2 DEF Featurized, inputs
<1> QED BY <1>1, <1>2, <1>3, <1>7, <1>8, <1>9

\* The next edge type is one of those left.
LEMMA FirstIsLeft ==
    ASSUME Given, Table, EdgesThere, NEW keys, keys \subseteq EdgeKeys, keys # {}
    PROVE  FirstOf(keys) \in keys
<1> DEFINE f == [k \in keys |-> KeyId(k)]
<1>1. IsFiniteSet(keys)
  BY EdgesAreFinite, FS_Subset
<1>2. \A k \in keys : f[k] \in Int
  BY KeysAreNumbered
<1>3. \E k \in keys : \A j \in keys : f[k] <= f[j]
  <2>1. f = [k \in keys |-> f[k]]
    OBVIOUS
  <2> HIDE DEF f
  <2> QED BY <1>1, <1>2, <2>1, Least
<1>4. \E k \in keys : \A j \in keys : KeyId(k) <= KeyId(j)
  BY <1>3
<1> QED BY <1>4 DEF FirstOf

LEMMA RowsInitially == Init => RInv
<1> SUFFICES ASSUME Init PROVE RInv
  OBVIOUS
<1>1. Budgets
  BY HeteroBuildAssumption DEF Init, Budgets
<1>2. pc = "nodes" /\ NoRowsYet
  BY DEF Init, NoRowsYet
<1> QED BY <1>1, <1>2 DEF RInv, AfterEdges

\* Before the rows, nothing is written of them.
LEMMA RowsBeforeRows ==
    ASSUME IInv, IInv', RInv, pc \in {"nodes", "edges", "collect_edges"},
           UNCHANGED inputs, UNCHANGED <<feature_tensors, edge_features, tensor>>,
           pc' \in {"edges", "collect_edges", "node_rows", "failed", "done"},
           pc' = "done" => NodeTypes' = {}
    PROVE  RInv'
<1>1. NoRowsYet /\ NoRowsYet' /\ Budgets'
  BY DEF RInv, NoRowsYet, Budgets, inputs
<1>2. NodeTensor' /\ edge_features' = << >>
  BY <1>1 DEF NodeTensor, NoRowsYet, NoTensor
<1>3. NodeRowsSoFar' /\ EdgeRowsSoFar'
  BY <1>1 DEF NodeRowsSoFar, EdgeRowsSoFar, NoRowsYet
<1>4. ASSUME pc' = "done"
      PROVE  DOMAIN feature_tensors' = NodeTypes' /\ DOMAIN edge_features' = Featurized'
  <2>1. DOMAIN feature_tensors' = {} /\ DOMAIN edge_features' = {}
    BY <1>1 DEF NoRowsYet
  <2>2. NodeTypes' = {}
    BY <1>4
  <2>3. DOMAIN edge_indices' = EdgeKeys' /\ Table' /\ EdgesThere'
    BY <1>4 DEF IInv, AfterEdges
  <2>4. DOMAIN node_id_df' = {}
    BY <2>2 DEF NodeTypes
  <2>5. resolved_edges' = {}
    BY <2>4 DEF resolved_edges, edge_triples
  <2>6. EdgeKeys' = {}
    BY <2>3, <2>5 DEF EdgesThere, EdgeKeys
  <2>7. eligible_types' = {}
    BY <2>3, <2>6 DEF eligible_types
  <2> QED BY <2>1, <2>2, <2>7 DEF Featurized
<1> QED BY <1>1, <1>2, <1>3, <1>4 DEF RInv, AfterEdges

\* What the range of a tensor starts from is right up to where it starts.
LEMMA SoFar ==
    ASSUME NEW of, of # << >>, NEW n \in Nat, NEW want, DOMAIN want = 0..(n - 1),
           tensor = NoTensor \/ (tensor.of = of /\ UpTo(want, n))
    PROVE  /\ NextRow(of) \in 0..n
           /\ DOMAIN RowsSoFar(of, n) = 0..(n - 1)
           /\ \A i \in 0..(n - 1) : i < NextRow(of) => RowsSoFar(of, n)[i] = want[i]
<1>1. CASE tensor = NoTensor
  <2>1. tensor.of # of
    BY <1>1 DEF NoTensor
  <2>2. NextRow(of) = 0 /\ RowsSoFar(of, n) = Zeros(n)
    BY <2>1 DEF NextRow, RowsSoFar
  <2>3. DOMAIN Zeros(n) = 0..(n - 1)
    BY DEF Zeros
  <2> QED BY <2>2, <2>3
<1>2. CASE tensor.of = of /\ UpTo(want, n)
  <2>1. NextRow(of) = tensor.next /\ RowsSoFar(of, n) = tensor.rows
    BY <1>2 DEF NextRow, RowsSoFar
  <2> QED BY <1>2, <2>1 DEF UpTo
<1> QED BY <1>1, <1>2

\* One range of b rows of a tensor that should be want, from its entries E.
LEMMA OneRange ==
    ASSUME NEW of, of # << >>, NEW n \in Nat, NEW want,
           want = [i \in 0..(n - 1) |-> want[i]],
           NEW E, Complete(E, want, n), NEW b \in Nat,
           tensor = NoTensor \/ (tensor.of = of /\ UpTo(want, n))
    PROVE  LET lo == NextRow(of)
               hi == Smaller(lo + b, n)
               rows == Scatter(RowsSoFar(of, n), InRange(E, lo, hi))
           IN /\ hi \in lo..n /\ lo \in 0..n /\ (hi < n => hi = lo + b)
              /\ DOMAIN rows = 0..(n - 1)
              /\ \A i \in 0..(n - 1) : i < hi => rows[i] = want[i]
              /\ ~(hi < n) => rows = want
              /\ Cardinality(InRange(E, lo, hi)) <= b
<1> DEFINE lo == NextRow(of)
           hi == Smaller(lo + b, n)
           rows == Scatter(RowsSoFar(of, n), InRange(E, lo, hi))
<1>1. /\ lo \in 0..n
      /\ DOMAIN RowsSoFar(of, n) = 0..(n - 1)
      /\ \A i \in 0..(n - 1) : i < lo => RowsSoFar(of, n)[i] = want[i]
  BY SoFar
<1>2. /\ hi \in lo..n /\ hi <= lo + b /\ lo \in Nat /\ hi \in Int
      /\ hi < n => hi = lo + b
  <2> HIDE DEF lo
  <2> QED BY <1>1 DEF Smaller
<1>3. /\ DOMAIN rows = 0..(n - 1)
      /\ \A i \in 0..(n - 1) : i < hi => rows[i] = want[i]
  <2> HIDE DEF lo, hi
  <2> QED BY <1>1, <1>2, Scattered
<1>4. rows = [i \in 0..(n - 1) |-> rows[i]]
  <2> HIDE DEF lo, hi
  <2> QED BY <1>1 DEF Scatter
<1>5. ASSUME ~(hi < n) PROVE rows = want
  <2>1. \A i \in 0..(n - 1) : rows[i] = want[i]
    <3> HIDE DEF lo, hi, rows
    <3> QED BY <1>2, <1>3, <1>5
  <2> HIDE DEF rows
  <2> QED BY <1>4, <2>1
<1>6. Cardinality(InRange(E, lo, hi)) <= b
  <2> HIDE DEF lo, hi
  <2> QED BY <1>2, FewEntries
<1> HIDE DEF lo, hi, rows
<1>7. /\ hi \in lo..n /\ lo \in 0..n /\ (hi < n => hi = lo + b)
      /\ DOMAIN rows = 0..(n - 1)
      /\ \A i \in 0..(n - 1) : i < hi => rows[i] = want[i]
      /\ ~(hi < n) => rows = want
      /\ Cardinality(InRange(E, lo, hi)) <= b
  BY <1>1, <1>2, <1>3, <1>5, <1>6
<1> QED BY <1>7 DEF lo, hi, rows

\* Whatever the step, from the node rows on the graph is there.
LEMMA GraphIsThere == IInv /\ pc \in AfterEdges => GraphThere
BY DEF IInv, GraphThere, AfterEdges

\* A range of a node type: where it ends, its entries, the tensor after it.
NodeHi(t) == Smaller(NextRow(<<t>>) + config.chunk_node_threshold, NodeCount(t))
NodeRange(t) ==
    InRange({e \in node_entries : e.type = t}, NextRow(<<t>>), NodeHi(t))
NodeGot(t) == Scatter(RowsSoFar(<<t>>, NodeCount(t)), NodeRange(t))

\* What a range adds.
LEMMA NodeChunk ==
    ASSUME IInv, RInv, NEW t \in NodeTypes, CollectNodeChunk(t)
    PROVE  LET n == NodeCount(t)  lo == NextRow(<<t>>)  hi == NodeHi(t)
               b == config.chunk_node_threshold
           IN /\ n \in Nat /\ lo \in 0..n /\ hi \in lo..n
              /\ hi < n => hi = lo + b
              /\ b \in Nat /\ b > 0
              /\ tensor = NoTensor \/ tensor.of = <<t>>
              /\ DOMAIN NodeRows(t) = 0..(n - 1)
              /\ DOMAIN NodeGot(t) = 0..(n - 1)
              /\ \A i \in 0..(n - 1) : i < hi => NodeGot(t)[i] = NodeRows(t)[i]
              /\ ~(hi < n) => NodeGot(t) = NodeRows(t)
              /\ Cardinality(NodeRange(t)) <= b
<1> DEFINE n == NodeCount(t)
           E == {e \in node_entries : e.type = t}
           b == config.chunk_node_threshold
<1>1. /\ pc = "node_rows" /\ t \in LargeNodeTypes \cap NodeTypesLeft
      /\ tensor.of \in {<< >>, <<t>>} /\ b > 0
  BY DEF CollectNodeChunk
<1>2. Given /\ Table
  BY <1>1, GraphIsThere DEF AfterEdges, GraphThere
<1>3. n \in Nat /\ Complete(E, NodeRows(t), n)
  BY <1>2, NodeEntriesComplete
<1>4. Budgets /\ NodeTensor
  BY <1>1 DEF RInv
<1>5. b \in Nat
  BY <1>1, <1>4 DEF Budgets
<1>6. tensor = NoTensor \/ (tensor.of = <<t>> /\ UpTo(NodeRows(t), n))
  <2> SUFFICES ASSUME tensor # NoTensor
               PROVE  tensor.of = <<t>> /\ UpTo(NodeRows(t), n)
    OBVIOUS
  <2>1. PICK s \in LargeNodeTypes \cap NodeTypesLeft :
           tensor.of = <<s>> /\ UpTo(NodeRows(s), NodeCount(s))
    BY <1>4 DEF NodeTensor
  <2>2. s = t
    BY <1>1, <2>1
  <2> QED BY <2>1, <2>2
<1>7. NodeRows(t) = [i \in 0..(n - 1) |-> NodeRows(t)[i]]
  BY DEF NodeRows
<1> DEFINE of == <<t>>  want == NodeRows(t)
           lo == NextRow(of)
           hi == Smaller(lo + b, n)
           got == Scatter(RowsSoFar(of, n), InRange(E, lo, hi))
<1>8. of # << >> /\ (tensor = NoTensor \/ (tensor.of = of /\ UpTo(want, n)))
  BY <1>6
<1>9. /\ want = [i \in 0..(n - 1) |-> want[i]] /\ Complete(E, want, n)
      /\ DOMAIN want = 0..(n - 1)
  BY <1>3, <1>7 DEF Complete
<1>10. /\ hi \in lo..n /\ lo \in 0..n /\ (hi < n => hi = lo + b)
       /\ DOMAIN got = 0..(n - 1)
       /\ \A i \in 0..(n - 1) : i < hi => got[i] = want[i]
       /\ ~(hi < n) => got = want
       /\ Cardinality(InRange(E, lo, hi)) <= b
  <2> HIDE DEF n, E, b, of, want
  <2> QED BY <1>3, <1>5, <1>8, <1>9, OneRange
<1>11. /\ lo = NextRow(<<t>>) /\ hi = NodeHi(t) /\ got = NodeGot(t)
       /\ InRange(E, lo, hi) = NodeRange(t)
  BY DEF NodeHi, NodeGot, NodeRange
<1> HIDE DEF lo, hi, got, want, of
<1>12. want = NodeRows(t) /\ of = <<t>>
  BY DEF want, of
<1> HIDE DEF n, E, b
<1> QED BY <1>1, <1>3, <1>5, <1>8, <1>9, <1>10, <1>11, <1>12 DEF n, b

LEMMA RowsNodeChunk ==
    ASSUME IInv, RInv, NEW t \in NodeTypes, CollectNodeChunk(t)
    PROVE  RInv'
<1> DEFINE n == NodeCount(t)  hi == NodeHi(t)  rows == NodeGot(t)
<1>1. /\ pc = "node_rows" /\ t \in LargeNodeTypes \cap NodeTypesLeft
      /\ UNCHANGED inputs
      /\ UNCHANGED <<node_id_df, edges_final, edge_indices, edge_features>>
      /\ hi < n => /\ tensor' = [of |-> <<t>>, next |-> hi, rows |-> rows]
                   /\ UNCHANGED <<feature_tensors, pc>>
      /\ ~(hi < n) =>
            /\ tensor' = NoTensor
            /\ feature_tensors' = [s \in DOMAIN feature_tensors \cup {t} |->
                                      IF s = t THEN rows ELSE feature_tensors[s]]
            /\ pc' = IF NodeTypesLeft = {t} THEN "edge_rows" ELSE pc
  BY DEF CollectNodeChunk, NodeHi, NodeGot, NodeRange
<1>2. /\ Budgets /\ edge_features = << >>
      /\ NodeRowsSoFar /\ EdgeRowsSoFar
  BY <1>1 DEF RInv, AfterEdges
<1>3. /\ n \in Nat /\ hi \in 0..n
      /\ DOMAIN NodeRows(t) = 0..(n - 1) /\ DOMAIN rows = 0..(n - 1)
      /\ \A i \in 0..(n - 1) : i < hi => rows[i] = NodeRows(t)[i]
      /\ ~(hi < n) => rows = NodeRows(t)
  <2> DEFINE lo == NextRow(<<t>>)
  <2>1. /\ n \in Nat /\ lo \in 0..n /\ hi \in lo..n
        /\ DOMAIN NodeRows(t) = 0..(n - 1) /\ DOMAIN rows = 0..(n - 1)
        /\ \A i \in 0..(n - 1) : i < hi => rows[i] = NodeRows(t)[i]
        /\ ~(hi < n) => rows = NodeRows(t)
    BY NodeChunk
  <2> HIDE DEF n, hi, rows, lo
  <2> QED BY <2>1
<1>4. /\ NodeTypes' = NodeTypes /\ LargeNodeTypes' = LargeNodeTypes
      /\ \A s : NodeCount(s)' = NodeCount(s) /\ NodeRows(s)' = NodeRows(s)
      /\ Featurized' = Featurized /\ Budgets'
  BY <1>1, <1>2, NodesStay, EdgeTypesStay DEF Budgets, inputs
<1>5. EdgeRowsSoFar'
  BY <1>1, <1>2 DEF EdgeRowsSoFar
<1> HIDE DEF hi, rows, n
<1>6. CASE hi < n
  <2>1. NodeRowsSoFar'
    BY <1>1, <1>2, <1>4, <1>6 DEF NodeRowsSoFar
  <2>2. t \in (LargeNodeTypes \cap NodeTypesLeft)'
    BY <1>1, <1>4, <1>6 DEF NodeTypesLeft
  <2>3. tensor'.of = <<t>> /\ tensor'.next = hi /\ tensor'.rows = rows
    BY <1>1, <1>6
  <2>4. UpTo(NodeRows(t), NodeCount(t))'
    BY <1>3, <1>4, <2>3 DEF UpTo, n
  <2>5. NodeTensor'
    BY <2>2, <2>3, <2>4 DEF NodeTensor
  <2> QED BY <1>1, <1>2, <1>4, <1>5, <1>6, <2>1, <2>5 DEF RInv, AfterEdges
<1>7. CASE ~(hi < n)
  <2>1. /\ tensor' = NoTensor /\ pc' \in {"node_rows", "edge_rows"}
        /\ pc' = "edge_rows" => NodeTypesLeft = {t}
        /\ DOMAIN feature_tensors' = DOMAIN feature_tensors \cup {t}
        /\ \A s \in DOMAIN feature_tensors' :
              feature_tensors'[s] = IF s = t THEN rows ELSE feature_tensors[s]
    BY <1>1, <1>7
  <2>2. NodeRowsSoFar'
    BY <1>2, <1>3, <1>4, <1>7, <2>1 DEF NodeRowsSoFar
  <2>3. NodeTensor' /\ EdgeTensor'
    BY <2>1 DEF NodeTensor, EdgeTensor
  <2>4. pc' = "edge_rows" => DOMAIN feature_tensors' = NodeTypes'
    BY <1>2, <1>4, <2>1 DEF NodeTypesLeft, NodeRowsSoFar
  <2> QED BY <1>1, <1>2, <1>4, <1>5, <2>1, <2>2, <2>3, <2>4 DEF RInv, AfterEdges
<1> QED BY <1>6, <1>7

LEMMA RowsNodeBatch ==
    ASSUME IInv, RInv, NEW batch \in (SUBSET NodeTypesLeft) \ {{}},
           CollectNodeBatch(batch)
    PROVE  RInv'
<1> DEFINE whole(t) == Scatter(Zeros(NodeCount(t)), {e \in node_entries : e.type = t})
<1>1. /\ pc = "node_rows" /\ LargeNodeTypes \cap NodeTypesLeft = {}
      /\ UNCHANGED inputs
      /\ UNCHANGED <<node_id_df, edges_final, edge_indices, edge_features, tensor>>
      /\ feature_tensors' = [t \in DOMAIN feature_tensors \cup batch |->
                                IF t \in batch THEN whole(t) ELSE feature_tensors[t]]
      /\ pc' = IF NodeTypesLeft \ batch = {} THEN "edge_rows" ELSE pc
  BY DEF CollectNodeBatch
<1>2. Given /\ Table
  BY <1>1, GraphIsThere DEF AfterEdges, GraphThere
<1>3. /\ Budgets /\ NodeTensor /\ edge_features = << >>
      /\ NodeRowsSoFar /\ EdgeRowsSoFar
  BY <1>1 DEF RInv, AfterEdges
<1>4. ASSUME NEW t PROVE whole(t) = NodeRows(t)
  <2> DEFINE n == NodeCount(t)
             E == {e \in node_entries : e.type = t}
  <2>1. n \in Nat /\ Complete(E, NodeRows(t), n)
    BY <1>2, NodeEntriesComplete
  <2>2. NodeRows(t) = [i \in 0..(n - 1) |-> NodeRows(t)[i]]
    BY DEF NodeRows
  <2> HIDE DEF n, E
  <2>3. Scatter(Zeros(n), E) = NodeRows(t)
    BY <2>1, <2>2, ScatteredWhole
  <2> QED BY <2>3 DEF n, E
<1>5. tensor = NoTensor
  BY <1>1, <1>3 DEF NodeTensor
<1>6. /\ NodeTypes' = NodeTypes
      /\ \A s : NodeRows(s)' = NodeRows(s)
      /\ Featurized' = Featurized /\ Budgets'
  BY <1>1, <1>3, NodesStay, EdgeTypesStay DEF Budgets, inputs
<1>7. EdgeRowsSoFar' /\ NodeTensor' /\ EdgeTensor'
  BY <1>1, <1>3, <1>5 DEF EdgeRowsSoFar, NodeTensor, EdgeTensor
<1>8. /\ pc' \in {"node_rows", "edge_rows"}
      /\ pc' = "edge_rows" => NodeTypesLeft \subseteq batch
      /\ DOMAIN feature_tensors' = DOMAIN feature_tensors \cup batch
      /\ \A s \in DOMAIN feature_tensors' :
            feature_tensors'[s] = IF s \in batch THEN whole(s) ELSE feature_tensors[s]
  <2> HIDE DEF whole
  <2> QED BY <1>1
<1>9. batch \subseteq NodeTypes
  BY DEF NodeTypesLeft
<1> HIDE DEF whole
<1>10. NodeRowsSoFar'
  BY <1>3, <1>4, <1>6, <1>8, <1>9 DEF NodeRowsSoFar
<1>11. pc' = "edge_rows" => DOMAIN feature_tensors' = NodeTypes'
  BY <1>3, <1>6, <1>8, <1>9 DEF NodeTypesLeft, NodeRowsSoFar
<1> QED BY <1>1, <1>3, <1>6, <1>7, <1>8, <1>10, <1>11 DEF RInv, AfterEdges

\* The same of an edge type: the first of the large ones that are left.
NextLarge == FirstOf(EdgeTypesLeft(large_keys))
EdgeHi(k) == Smaller(NextRow(k) + EdgeBudget, EdgeCount(k))
EdgeRange(k) == InRange(EdgeEntries(k), NextRow(k), EdgeHi(k))
EdgeGot(k) == Scatter(RowsSoFar(k, EdgeCount(k)), EdgeRange(k))

LEMMA BudgetIsPositive == Budgets => EdgeBudget \in Nat /\ EdgeBudget > 0
BY DEF Budgets, EdgeBudget, AtLeastOne

LEMMA EdgeChunk ==
    ASSUME IInv, RInv, CollectEdgeRowChunk
    PROVE  LET k == NextLarge
               n == EdgeCount(k)  lo == NextRow(k)  hi == EdgeHi(k)
           IN /\ k \in EdgeTypesLeft(large_keys) /\ k \in eligible_types
              /\ Featurized = eligible_types
              /\ n \in Nat /\ lo \in 0..n /\ hi \in lo..n
              /\ hi < n => hi = lo + EdgeBudget
              /\ tensor = NoTensor \/ tensor.of = k
              /\ DOMAIN EdgeRows(k) = 0..(n - 1)
              /\ DOMAIN EdgeGot(k) = 0..(n - 1)
              /\ \A i \in 0..(n - 1) : i < hi => EdgeGot(k)[i] = EdgeRows(k)[i]
              /\ ~(hi < n) => EdgeGot(k) = EdgeRows(k)
              /\ Cardinality(EdgeRange(k)) <= EdgeBudget
<1> DEFINE k == NextLarge
           n == EdgeCount(k)
           E == EdgeEntries(k)
           b == EdgeBudget
<1>1. /\ pc = "edge_rows" /\ ~NothingToFeaturize
      /\ EdgeTypesLeft(large_keys) # {}
  BY DEF CollectEdgeRowChunk
<1>2. GraphThere /\ Given /\ Table /\ EdgesThere /\ DOMAIN edge_indices = EdgeKeys
  BY <1>1, GraphIsThere DEF AfterEdges, GraphThere
<1>3. k \in EdgeTypesLeft(large_keys) /\ k \in eligible_types /\ k \in EdgeKeys
  <2>1. /\ EdgeTypesLeft(large_keys) \subseteq eligible_types
        /\ eligible_types \subseteq EdgeKeys
    BY <1>2 DEF EdgeTypesLeft, large_keys, eligible_types
  <2> QED BY <1>1, <1>2, <2>1, FirstIsLeft DEF NextLarge
<1>4. n \in Nat /\ Complete(E, EdgeRows(k), n)
  BY <1>2, <1>3, EdgeEntriesComplete
<1>5. Budgets /\ EdgeTensor /\ b \in Nat
  BY <1>1, BudgetIsPositive DEF RInv
<1>6. k # << >> /\ (tensor = NoTensor \/ (tensor.of = k /\ UpTo(EdgeRows(k), n)))
  <2>1. Len(k) = 3
    BY <1>2, <1>3, EdgesAreTriples DEF EdgeKeys, Tuple
  <2> QED BY <1>5, <2>1 DEF EdgeTensor, NextLarge
<1>7. /\ EdgeRows(k) = [i \in 0..(n - 1) |-> EdgeRows(k)[i]]
      /\ DOMAIN EdgeRows(k) = 0..(n - 1)
  BY DEF EdgeRows
<1>8. Featurized = eligible_types
  BY <1>1, <1>5 DEF Featurized, NothingToFeaturize, Budgets
<1> DEFINE want == EdgeRows(k)
           lo == NextRow(k)
           hi == Smaller(lo + b, n)
           got == Scatter(RowsSoFar(k, n), InRange(E, lo, hi))
<1>9. /\ hi \in lo..n /\ lo \in 0..n /\ (hi < n => hi = lo + b)
      /\ DOMAIN got = 0..(n - 1)
      /\ \A i \in 0..(n - 1) : i < hi => got[i] = want[i]
      /\ ~(hi < n) => got = want
      /\ Cardinality(InRange(E, lo, hi)) <= b
  <2> HIDE DEF n, E, b, k, want
  <2>1. /\ want = [i \in 0..(n - 1) |-> want[i]] /\ Complete(E, want, n)
        /\ tensor = NoTensor \/ (tensor.of = k /\ UpTo(want, n))
    BY <1>4, <1>6, <1>7 DEF want
  <2> QED BY <1>4, <1>5, <1>6, <2>1, OneRange
<1>10. hi = EdgeHi(k) /\ got = EdgeGot(k) /\ InRange(E, lo, hi) = EdgeRange(k)
  BY DEF EdgeHi, EdgeGot, EdgeRange
<1> HIDE DEF hi, got, want, E
<1>11. want = EdgeRows(k)
  BY DEF want
<1> HIDE DEF n, b, k
<1> QED BY <1>3, <1>4, <1>6, <1>7, <1>8, <1>9, <1>10, <1>11 DEF n, b, k

LEMMA RowsEdgeChunk ==
    ASSUME IInv, RInv, CollectEdgeRowChunk
    PROVE  RInv'
<1> DEFINE k == NextLarge  n == EdgeCount(k)  hi == EdgeHi(k)  rows == EdgeGot(k)
<1>1. /\ pc = "edge_rows"
      /\ UNCHANGED inputs
      /\ UNCHANGED <<node_id_df, edges_final, edge_indices, feature_tensors>>
      /\ hi < n => /\ tensor' = [of |-> k, next |-> hi, rows |-> rows]
                   /\ UNCHANGED <<edge_features, pc>>
      /\ ~(hi < n) =>
            /\ tensor' = NoTensor
            /\ edge_features' = [j \in DOMAIN edge_features \cup {k} |->
                                    IF j = k THEN rows ELSE edge_features[j]]
            /\ pc' = IF EdgeTypesLeft(eligible_types) = {k} THEN "assemble" ELSE pc
  BY DEF CollectEdgeRowChunk, NextLarge, EdgeHi, EdgeGot, EdgeRange
<1>2. /\ Budgets /\ NodeRowsSoFar /\ EdgeRowsSoFar
      /\ DOMAIN feature_tensors = NodeTypes
  BY <1>1 DEF RInv, AfterEdges
<1>3. /\ k \in EdgeTypesLeft(large_keys) /\ k \in eligible_types
      /\ Featurized = eligible_types
      /\ n \in Nat /\ hi \in 0..n
      /\ DOMAIN EdgeRows(k) = 0..(n - 1) /\ DOMAIN rows = 0..(n - 1)
      /\ \A i \in 0..(n - 1) : i < hi => rows[i] = EdgeRows(k)[i]
      /\ ~(hi < n) => rows = EdgeRows(k)
  <2> DEFINE lo == NextRow(k)
  <2>1. /\ k \in EdgeTypesLeft(large_keys) /\ k \in eligible_types
        /\ Featurized = eligible_types
        /\ n \in Nat /\ lo \in 0..n /\ hi \in lo..n
        /\ DOMAIN EdgeRows(k) = 0..(n - 1) /\ DOMAIN rows = 0..(n - 1)
        /\ \A i \in 0..(n - 1) : i < hi => rows[i] = EdgeRows(k)[i]
        /\ ~(hi < n) => rows = EdgeRows(k)
    BY EdgeChunk
  <2> HIDE DEF n, hi, rows, lo, k
  <2> QED BY <2>1
<1>4. /\ NodeTypes' = NodeTypes
      /\ \A s : NodeRows(s)' = NodeRows(s)
      /\ eligible_types' = eligible_types /\ Featurized' = Featurized
      /\ large_keys' = large_keys
      /\ \A j : EdgeCount(j)' = EdgeCount(j) /\ EdgeRows(j)' = EdgeRows(j)
      /\ \A keys : FirstOf(keys)' = FirstOf(keys)
      /\ Budgets'
  BY <1>1, <1>2, NodesStay, EdgeTypesStay DEF Budgets, inputs
<1>5. NodeRowsSoFar' /\ DOMAIN feature_tensors' = NodeTypes'
  BY <1>1, <1>2, <1>4 DEF NodeRowsSoFar
<1> HIDE DEF n, hi, rows, k
<1>6. CASE hi < n
  <2>1. EdgeRowsSoFar'
    BY <1>1, <1>2, <1>4, <1>6 DEF EdgeRowsSoFar
  <2>2. tensor'.of = k /\ tensor'.next = hi /\ tensor'.rows = rows
    BY <1>1, <1>6
  <2>3. UpTo(EdgeRows(k), EdgeCount(k))'
    <3>1. EdgeRows(k)' = EdgeRows(k) /\ EdgeCount(k)' = n
      BY <1>1, <1>4, <1>6 DEF n, k, NextLarge, EdgeTypesLeft
    <3> QED BY <1>3, <2>2, <3>1 DEF UpTo
  <2>4. EdgeTypesLeft(large_keys)' = EdgeTypesLeft(large_keys)
    BY <1>1, <1>4, <1>6 DEF EdgeTypesLeft
  <2>5. NextLarge' = NextLarge
    BY <1>4, <2>4 DEF NextLarge
  <2>6. EdgeTensor'
    BY <1>3, <2>2, <2>3, <2>4, <2>5 DEF EdgeTensor, NextLarge, k
  <2> QED BY <1>1, <1>4, <1>5, <1>6, <2>1, <2>6 DEF RInv, AfterEdges
<1>7. CASE ~(hi < n)
  <2>1. /\ tensor' = NoTensor /\ pc' \in {"edge_rows", "assemble"}
        /\ pc' = "assemble" => EdgeTypesLeft(eligible_types) = {k}
        /\ DOMAIN edge_features' = DOMAIN edge_features \cup {k}
        /\ \A j \in DOMAIN edge_features' :
              edge_features'[j] = IF j = k THEN rows ELSE edge_features[j]
    BY <1>1, <1>7
  <2>2. EdgeRowsSoFar'
    BY <1>2, <1>3, <1>4, <1>7, <2>1 DEF EdgeRowsSoFar
  <2>3. EdgeTensor'
    BY <2>1 DEF EdgeTensor
  <2>4. pc' = "assemble" => DOMAIN edge_features' = Featurized'
    BY <1>2, <1>3, <1>4, <2>1 DEF EdgeTypesLeft, EdgeRowsSoFar
  <2> QED BY <1>1, <1>4, <1>5, <2>1, <2>2, <2>3, <2>4 DEF RInv, AfterEdges
<1> QED BY <1>6, <1>7

LEMMA RowsEdgeBatch ==
    ASSUME IInv, RInv, NEW batch \in (SUBSET EdgeTypesLeft(small_keys)) \ {{}},
           CollectEdgeRowBatch(batch)
    PROVE  RInv'
<1> DEFINE whole(k) == Scatter(Zeros(EdgeCount(k)), EdgeEntries(k))
<1>1. /\ pc = "edge_rows" /\ ~NothingToFeaturize
      /\ EdgeTypesLeft(large_keys) = {}
      /\ UNCHANGED inputs
      /\ UNCHANGED <<node_id_df, edges_final, edge_indices, feature_tensors, tensor>>
      /\ edge_features' = [k \in DOMAIN edge_features \cup batch |->
                              IF k \in batch THEN whole(k) ELSE edge_features[k]]
      /\ pc' = IF EdgeTypesLeft(small_keys) \ batch = {} THEN "assemble" ELSE pc
  BY DEF CollectEdgeRowBatch
<1>2. /\ Budgets /\ NodeRowsSoFar /\ EdgeRowsSoFar /\ EdgeTensor
      /\ DOMAIN feature_tensors = NodeTypes
  BY <1>1 DEF RInv, AfterEdges
<1>3. Featurized = eligible_types /\ tensor = NoTensor
  BY <1>1, <1>2 DEF Featurized, NothingToFeaturize, Budgets, EdgeTensor
<1>4. batch \subseteq eligible_types
  BY DEF EdgeTypesLeft, small_keys
<1>5. ASSUME NEW k \in batch PROVE whole(k) = EdgeRows(k)
  <2> DEFINE n == EdgeCount(k)  E == EdgeEntries(k)
  <2>1. n \in Nat /\ Complete(E, EdgeRows(k), n)
    BY <1>1, <1>4, GraphIsThere, EdgeEntriesComplete DEF AfterEdges
  <2>2. EdgeRows(k) = [i \in 0..(n - 1) |-> EdgeRows(k)[i]]
    BY DEF EdgeRows
  <2> HIDE DEF n, E
  <2>3. Scatter(Zeros(n), E) = EdgeRows(k)
    BY <2>1, <2>2, ScatteredWhole
  <2> QED BY <2>3 DEF n, E
<1>6. /\ NodeTypes' = NodeTypes
      /\ \A s : NodeRows(s)' = NodeRows(s)
      /\ Featurized' = Featurized
      /\ \A j : EdgeRows(j)' = EdgeRows(j)
      /\ Budgets'
  BY <1>1, <1>2, NodesStay, EdgeTypesStay DEF Budgets, inputs
<1>7. NodeRowsSoFar' /\ EdgeTensor' /\ DOMAIN feature_tensors' = NodeTypes'
  BY <1>1, <1>2, <1>3, <1>6 DEF NodeRowsSoFar, EdgeTensor
<1>8. /\ pc' \in {"edge_rows", "assemble"}
      /\ pc' = "assemble" => EdgeTypesLeft(small_keys) \subseteq batch
      /\ DOMAIN edge_features' = DOMAIN edge_features \cup batch
      /\ \A j \in DOMAIN edge_features' :
            edge_features'[j] = IF j \in batch THEN whole(j) ELSE edge_features[j]
  <2> HIDE DEF whole
  <2> QED BY <1>1
<1> HIDE DEF whole
<1>9. EdgeRowsSoFar'
  BY <1>2, <1>3, <1>4, <1>5, <1>6, <1>8 DEF EdgeRowsSoFar
<1>10. pc' = "assemble" => DOMAIN edge_features' = Featurized'
  BY <1>1, <1>2, <1>3, <1>4, <1>6, <1>8
     DEF EdgeTypesLeft, EdgeRowsSoFar, large_keys, small_keys
<1> QED BY <1>1, <1>6, <1>7, <1>8, <1>9, <1>10 DEF RInv, AfterEdges

\* The steps that write no rows.
LEMMA RowsStay ==
    ASSUME IInv, RInv, pc \in AfterEdges,
           UNCHANGED inputs, UNCHANGED <<node_id_df, edges_final, edge_indices>>,
           UNCHANGED <<feature_tensors, edge_features>>,
           \/ pc' = "failed"
           \/ (pc = "edge_rows" /\ NothingToFeaturize /\ pc' = "assemble")
           \/ (pc = "assemble" /\ pc' = "done")
    PROVE  RInv'
<1>1. /\ Budgets /\ NodeRowsSoFar /\ EdgeRowsSoFar
      /\ pc # "node_rows" => DOMAIN feature_tensors = NodeTypes
      /\ pc \in {"assemble", "done"} => DOMAIN edge_features = Featurized
  BY DEF RInv, AfterEdges
<1>2. /\ NodeTypes' = NodeTypes
      /\ \A s : NodeRows(s)' = NodeRows(s)
      /\ Featurized' = Featurized
      /\ \A j : EdgeRows(j)' = EdgeRows(j)
      /\ Budgets'
  BY <1>1, NodesStay, EdgeTypesStay DEF Budgets, inputs
<1>3. NodeRowsSoFar' /\ EdgeRowsSoFar'
  BY <1>1, <1>2 DEF NodeRowsSoFar, EdgeRowsSoFar
<1>4. ASSUME pc = "edge_rows", NothingToFeaturize
      PROVE  DOMAIN edge_features = Featurized
  <2>1. DOMAIN edge_features \subseteq Featurized
    BY <1>1 DEF EdgeRowsSoFar
  <2>2. Featurized = {}
    BY <1>1, <1>4 DEF NothingToFeaturize, Featurized, Budgets
  <2> QED BY <2>1, <2>2
<1> QED BY <1>1, <1>2, <1>3, <1>4 DEF RInv, AfterEdges

LEMMA RowsInductive == IInv /\ RInv /\ [Next \/ Ended]_vars => RInv'
<1> SUFFICES ASSUME IInv, RInv, [Next \/ Ended]_vars PROVE RInv'
  OBVIOUS
<1>1. IInv'
  BY Inductive
<1>2. CASE MapNodes
  <2>1. /\ pc = "nodes" /\ UNCHANGED inputs
        /\ UNCHANGED <<feature_tensors, edge_features, tensor>>
        /\ pc' \in {"edges", "failed", "done"}
        /\ pc' = "done" => {node_id_df'[u].type : u \in DOMAIN node_id_df'} = {}
    BY <1>2 DEF MapNodes
  <2>2. pc' = "done" => NodeTypes' = {}
    BY <2>1 DEF NodeTypes
  <2> QED BY <1>1, <2>1, <2>2, RowsBeforeRows
<1>3. CASE ResolveEdges
  <2>1. /\ pc = "edges" /\ UNCHANGED inputs
        /\ UNCHANGED <<feature_tensors, edge_features, tensor>>
        /\ pc' \in {"node_rows", "failed", "collect_edges"}
    BY <1>3 DEF ResolveEdges
  <2> QED BY <1>1, <2>1, RowsBeforeRows
<1>4. CASE CollectEdges
  <2>1. /\ pc = "collect_edges" /\ UNCHANGED inputs
        /\ UNCHANGED <<feature_tensors, edge_features, tensor>>
        /\ pc' \in {"node_rows", "collect_edges"}
    BY <1>4 DEF CollectEdges
  <2> QED BY <1>1, <2>1, RowsBeforeRows
<1>5. ASSUME NEW t \in NodeTypes, CollectNodeChunk(t) PROVE RInv'
  BY <1>5, RowsNodeChunk
<1>6. CASE DivideByZero
  BY <1>6, RowsStay DEF DivideByZero, AfterEdges
<1>7. ASSUME NEW batch \in (SUBSET NodeTypesLeft) \ {{}}, CollectNodeBatch(batch)
      PROVE  RInv'
  BY <1>7, RowsNodeBatch
<1>8. CASE SkipEdgeRows
  BY <1>8, RowsStay DEF SkipEdgeRows, AfterEdges
<1>9. CASE CollectEdgeRowChunk
  BY <1>9, RowsEdgeChunk
<1>10. ASSUME NEW batch \in (SUBSET EdgeTypesLeft(small_keys)) \ {{}},
              CollectEdgeRowBatch(batch)
       PROVE  RInv'
  BY <1>10, RowsEdgeBatch
<1>11. CASE Assemble
  BY <1>11, RowsStay DEF Assemble, AfterEdges
<1>12. CASE UNCHANGED vars
  <2>1. /\ UNCHANGED inputs
        /\ UNCHANGED <<node_id_df, edges_final, edge_indices>>
        /\ UNCHANGED <<pc, feature_tensors, edge_features, tensor>>
    BY <1>12 DEF vars, inputs
  <2>2. /\ NodeTypes' = NodeTypes /\ LargeNodeTypes' = LargeNodeTypes
        /\ \A s : NodeCount(s)' = NodeCount(s) /\ NodeRows(s)' = NodeRows(s)
        /\ Featurized' = Featurized /\ large_keys' = large_keys
        /\ \A j : EdgeCount(j)' = EdgeCount(j) /\ EdgeRows(j)' = EdgeRows(j)
        /\ \A keys : FirstOf(keys)' = FirstOf(keys)
    BY <2>1, NodesStay, EdgeTypesStay
  <2>3. (Budgets <=> Budgets') /\ (NoRowsYet <=> NoRowsYet')
        /\ (NodeRowsSoFar <=> NodeRowsSoFar') /\ (EdgeRowsSoFar <=> EdgeRowsSoFar')
    BY <2>1, <2>2 DEF Budgets, inputs, NoRowsYet, NodeRowsSoFar, EdgeRowsSoFar
  <2>4. NodeTensor => NodeTensor'
    <3>1. \A s : UpTo(NodeRows(s), NodeCount(s))' <=> UpTo(NodeRows(s), NodeCount(s))
      BY <2>1, <2>2 DEF UpTo
    <3>2. (LargeNodeTypes \cap NodeTypesLeft)' = LargeNodeTypes \cap NodeTypesLeft
      BY <2>1, <2>2 DEF NodeTypesLeft
    <3> QED BY <2>1, <3>1, <3>2 DEF NodeTensor
  <2>5. EdgeTensor => EdgeTensor'
    <3>1. EdgeTypesLeft(large_keys)' = EdgeTypesLeft(large_keys)
      BY <2>1, <2>2 DEF EdgeTypesLeft
    <3>2. NextLarge' = NextLarge
      BY <2>2, <3>1 DEF NextLarge
    <3>3. /\ EdgeRows(NextLarge)' = EdgeRows(NextLarge)
          /\ EdgeCount(NextLarge)' = EdgeCount(NextLarge)
      BY <2>2, <3>2
    <3>4. UpTo(EdgeRows(NextLarge), EdgeCount(NextLarge))'
            <=> UpTo(EdgeRows(NextLarge), EdgeCount(NextLarge))
      BY <2>1, <3>3 DEF UpTo
    <3> QED BY <2>1, <3>1, <3>2, <3>4 DEF EdgeTensor, NextLarge
  <2> QED BY <2>1, <2>2, <2>3, <2>4, <2>5 DEF RInv
<1> QED BY <1>2, <1>3, <1>4, <1>5, <1>6, <1>7, <1>8, <1>9, <1>10, <1>11, <1>12
        DEF Next, Ended

\* The invariant: which rows are written at which step, and that they are
\* the rows the graph should have.
THEOREM RowsInvariance == Spec => [](IInv /\ RInv)
<1>1. Init => IInv /\ RInv
  BY Initially, RowsInitially
<1>2. IInv /\ RInv /\ [Next \/ Ended]_vars => IInv' /\ RInv'
  BY Inductive, RowsInductive
<1> QED BY <1>1, <1>2, PTL DEF Spec

(* ----------------------------- properties ------------------------------ *)

\* Row i of a node type was computed from the entity that has number i, and
\* row i of an edge type from the two ends of column i, with all their
\* numbers, whatever the thresholds: in one collect, in batches or in ranges.
THEOREM RowsBelongToTheirNodes == Spec => []RowsBelong
<1>1. IInv /\ RInv => RowsBelong
  <2> SUFFICES ASSUME IInv, RInv, pc = "done" PROVE RowsBelong
    BY DEF RowsBelong
  <2>1. GraphThere /\ Given /\ Table /\ EdgesThere
        /\ DOMAIN edge_indices = EdgeKeys /\ IndicesRight
    BY GraphIsThere DEF AfterEdges, GraphThere, IInv
  <2>2. /\ NodeRowsSoFar /\ EdgeRowsSoFar /\ Budgets
        /\ DOMAIN feature_tensors = NodeTypes
        /\ DOMAIN edge_features = Featurized
    BY DEF RInv, AfterEdges
  <2>3. ASSUME NEW u \in DOMAIN node_id_df
        PROVE  LET at == node_id_df[u]
               IN /\ DOMAIN feature_tensors[at.type] = 0..(NodeCount(at.type) - 1)
                  /\ feature_tensors[at.type][at.id]
                       = {<<t.p, t.o>> : t \in {r \in triples : r.s = u}}
    <3> DEFINE t == node_id_df[u].type  i == node_id_df[u].id
    <3>1. t \in NodeTypes /\ u \in OfType(t) /\ u \in Typed
      BY <2>1, TableIsTyped DEF NodeTypes, OfType
    <3>2. feature_tensors[t] = NodeRows(t)
      BY <2>2, <3>1 DEF NodeRowsSoFar
    <3>3. i \in 0..(NodeCount(t) - 1)
      BY <2>1, <3>1, NodeIdsHaveNoGap
    <3>4. NodeAt(t, i) = u
      BY <2>1, <3>1, NodeAtFinds
    <3>5. NodeRows(t)[i] = SaidOf(u) /\ DOMAIN NodeRows(t) = 0..(NodeCount(t) - 1)
      <4> HIDE DEF t, i
      <4> QED BY <3>3, <3>4 DEF NodeRows
    <3>6. SaidOf(u) = {<<r.p, r.o>> : r \in {q \in triples : q.s = u}}
      BY DEF SaidOf
    <3> QED BY <3>2, <3>5, <3>6
  <2>4. ASSUME config.edge_features
        PROVE  /\ DOMAIN edge_features = eligible_types
               /\ \A c \in {d \in Columns : d[1] \in eligible_types} :
                    edge_features[c[1]][c[2]]
                      = NumbersOf(Source(c), "src") \cup NumbersOf(Target(c), "dst")
    <3>1. DOMAIN edge_features = eligible_types
      BY <2>2, <2>4 DEF Featurized
    <3>2. ASSUME NEW c \in {d \in Columns : d[1] \in eligible_types}
          PROVE  edge_features[c[1]][c[2]]
                   = NumbersOf(Source(c), "src") \cup NumbersOf(Target(c), "dst")
      <4> DEFINE k == c[1]  i == c[2]
      <4>1. /\ k \in eligible_types /\ k \in DOMAIN edge_indices
            /\ edge_indices[k] = edge_index(k) /\ i \in DOMAIN edge_index(k)
        BY <2>1 DEF Columns, IndicesRight
      <4>2. edge_features[k] = EdgeRows(k)
        BY <2>2, <3>1, <4>1 DEF EdgeRowsSoFar
      <4>3. DOMAIN edge_index(k) = 0..(EdgeCount(k) - 1)
        BY <2>1, ColumnsAreEdges
      <4>4. EdgeRows(k)[i] = NumbersOf(NodeAt(k[1], edge_index(k)[i][1]), "src")
                             \cup NumbersOf(NodeAt(k[3], edge_index(k)[i][2]), "dst")
        <5> HIDE DEF k, i
        <5> QED BY <4>1, <4>3 DEF EdgeRows
      <4> QED BY <4>1, <4>2, <4>4 DEF Source, Target
    <3> QED BY <3>1, <3>2
  <2>5. \A u, end : NumbersOf(u, end) =
           {<<t.p, end, t.o>> : t \in {r \in triples :
                                  r.s = u /\ r.p \in Numeric /\ r.o \notin Typed}}
    BY DEF NumbersOf
  <2> QED BY <2>3, <2>4, <2>5 DEF RowsBelong
<1> QED BY <1>1, RowsInvariance, PTL

\* The edges of some types are those whose type is numbered among them.
LEMMA ChunkIsBounded ==
    ASSUME IInv, CollectEdges
    PROVE  CollectsAreBounded'
<1> DEFINE N == Cardinality(EdgeKeys)
           lo == cursor
           hi == ChunkEnd(cursor)
           keys == KeysIn(lo, hi)
<1>1. /\ pc = "collect_edges"
      /\ collected' = [types |-> Cardinality(keys), size |-> EdgeTotal(keys),
                       budget |-> AtLeastOne(config.edge_collect_row_budget),
                       whole |-> TRUE]
  BY DEF CollectEdges
<1>2. Given /\ Table /\ EdgesThere /\ lo \in 0..(N - 1)
  BY <1>1 DEF IInv, ChunksSoFar
<1>3. \/ hi = lo
      \/ Cardinality({e \in edges_final : KeyId(e.key) \in lo..hi})
           <= AtLeastOne(config.edge_collect_row_budget)
  BY <1>2, ChunkEnds
<1>4. CASE hi = lo
  <2>1. PICK k \in EdgeKeys : KeyId(k) = lo /\ \A j \in EdgeKeys : KeyId(j) = lo => j = k
    <3>1. EdgeKeys \subseteq Tuple(3)
      BY <1>2, EdgesAreTriples DEF EdgeKeys
    <3>2. TotalOrder(EdgeKeys, InOrder(EdgeKeys)) /\ IsFiniteSet(EdgeKeys)
      BY <1>2, <3>1, Lexicographic, EdgesAreFinite
    <3>3. \A k \in EdgeKeys : KeyId(k) = Cardinality(Below(EdgeKeys, InOrder(EdgeKeys), k))
      <4> TAKE k \in EdgeKeys
      <4>1. {j \in EdgeKeys : Before(j, k)} = Below(EdgeKeys, InOrder(EdgeKeys), k)
        BY DEF Below, InOrder
      <4> QED BY <4>1 DEF KeyId
    <3>4. /\ \A i \in 0..(N - 1) :
                \E k \in EdgeKeys : Cardinality(Below(EdgeKeys, InOrder(EdgeKeys), k)) = i
          /\ \A j, k \in EdgeKeys :
                Cardinality(Below(EdgeKeys, InOrder(EdgeKeys), j))
                  = Cardinality(Below(EdgeKeys, InOrder(EdgeKeys), k)) => j = k
      BY <3>2, Placing
    <3> HIDE DEF N, lo
    <3> QED BY <1>2, <3>3, <3>4
  <2>2. lo \in lo..hi /\ \A i \in lo..hi : i = lo
    <3> HIDE DEF N, lo, hi
    <3> QED BY <1>2, <1>4
  <2>3. keys = {k}
    <3> HIDE DEF lo, hi
    <3> QED BY <2>1, <2>2 DEF KeysIn
  <2>4. Cardinality(keys) = 1
    <3> HIDE DEF keys
    <3> QED BY <2>3, FS_Singleton
  <2> HIDE DEF keys
  <2> QED BY <1>1, <2>4 DEF CollectsAreBounded
<1>5. CASE Cardinality({e \in edges_final : KeyId(e.key) \in lo..hi})
             <= AtLeastOne(config.edge_collect_row_budget)
  <2>1. {e \in edges_final : e.key \in keys}
          = {e \in edges_final : KeyId(e.key) \in lo..hi}
    <3> HIDE DEF lo, hi
    <3> QED BY DEF KeysIn, EdgeKeys
  <2>2. EdgeTotal(keys) <= AtLeastOne(config.edge_collect_row_budget)
    BY <1>5, <2>1 DEF EdgeTotal
  <2> HIDE DEF keys
  <2> QED BY <1>1, <2>2 DEF CollectsAreBounded
<1> QED BY <1>3, <1>4, <1>5

\* Every collect of a build brings the driver no more rows than its budget;
\* only a chunk of edges may exceed it, by being a single edge type.
THEOREM CollectsStayBounded == Spec => []CollectsAreBounded
<1>1. Init => CollectsAreBounded
  BY DEF Init, CollectsAreBounded
<1>2. ASSUME IInv, RInv, CollectsAreBounded, [Next \/ Ended]_vars
      PROVE  CollectsAreBounded'
  <2>1. CASE UNCHANGED collected
    BY <1>2, <2>1 DEF CollectsAreBounded
  <2>2. CASE CollectEdges
    BY <1>2, <2>2, ChunkIsBounded
  <2>3. ASSUME NEW t \in NodeTypes, CollectNodeChunk(t) PROVE CollectsAreBounded'
    <3>1. collected' = [types |-> 1, size |-> Cardinality(NodeRange(t)),
                        budget |-> config.chunk_node_threshold, whole |-> FALSE]
      BY <2>3 DEF CollectNodeChunk, NodeRange, NodeHi
    <3>2. Cardinality(NodeRange(t)) <= config.chunk_node_threshold
      BY <1>2, <2>3, NodeChunk
    <3> QED BY <3>1, <3>2 DEF CollectsAreBounded
  <2>4. ASSUME NEW batch \in (SUBSET NodeTypesLeft) \ {{}}, CollectNodeBatch(batch)
        PROVE  CollectsAreBounded'
    <3> DEFINE size == Cardinality({u \in DOMAIN node_id_df : node_id_df[u].type \in batch})
               budget == AtLeastOne(config.chunk_node_threshold)
    <3>1. /\ pc = "node_rows" /\ LargeNodeTypes \cap NodeTypesLeft = {}
          /\ Cardinality(batch) = 1 \/ size <= budget
          /\ collected' = [types |-> Cardinality(batch), size |-> size,
                           budget |-> budget, whole |-> FALSE]
      BY <2>4 DEF CollectNodeBatch
    <3>2. ASSUME Cardinality(batch) = 1 PROVE size <= budget
      <4>1. Given /\ Table /\ Budgets
        BY <1>2, <3>1, GraphIsThere DEF AfterEdges, GraphThere, RInv
      <4>2. batch \in SUBSET NodeTypes
        BY DEF NodeTypesLeft
      <4>3. PICK t : batch = {t}
        BY <3>2, <4>1, <4>2, NodeTypesAreFinite, FS_Subset, FS_Singleton
      <4>4. size = NodeCount(t) /\ NodeCount(t) \in Nat
        <5>1. {u \in DOMAIN node_id_df : node_id_df[u].type \in batch}
                = {u \in DOMAIN node_id_df : node_id_df[u].type = t}
          BY <4>3
        <5>2. size = NodeCount(t)
          BY <5>1 DEF NodeCount
        <5> HIDE DEF size
        <5> QED BY <4>1, <5>2, NodeIdsHaveNoGap
      <4>5. ~(NodeCount(t) > config.chunk_node_threshold)
        BY <3>1, <4>3 DEF LargeNodeTypes, NodeTypesLeft
      <4> HIDE DEF size
      <4> QED BY <4>1, <4>4, <4>5 DEF Budgets, AtLeastOne
    <3> HIDE DEF size, budget
    <3> QED BY <3>1, <3>2 DEF CollectsAreBounded
  <2>5. CASE CollectEdgeRowChunk
    <3>1. collected' = [types |-> 1, size |-> Cardinality(EdgeRange(NextLarge)),
                        budget |-> EdgeBudget, whole |-> FALSE]
      BY <2>5 DEF CollectEdgeRowChunk, EdgeRange, EdgeHi, NextLarge
    <3>2. Cardinality(EdgeRange(NextLarge)) <= EdgeBudget
      BY <1>2, <2>5, EdgeChunk
    <3> QED BY <3>1, <3>2 DEF CollectsAreBounded
  <2>6. ASSUME NEW batch \in (SUBSET EdgeTypesLeft(small_keys)) \ {{}},
               CollectEdgeRowBatch(batch)
        PROVE  CollectsAreBounded'
    <3>1. /\ pc = "edge_rows" /\ BatchHolds(batch)
          /\ collected' = [types |-> Cardinality(batch), size |-> EdgeTotal(batch),
                           budget |-> EdgeBudget, whole |-> FALSE]
      BY <2>6 DEF CollectEdgeRowBatch
    <3>2. ASSUME Cardinality(batch) = 1 PROVE EdgeTotal(batch) <= EdgeBudget
      <4>1. batch \subseteq small_keys
        BY DEF EdgeTypesLeft
      <4>2. GraphThere /\ Given /\ Table /\ EdgesThere
        BY <1>2, <3>1, GraphIsThere DEF AfterEdges, GraphThere
      <4>3. IsFiniteSet(batch)
        <5>1. batch \in SUBSET EdgeKeys
          BY <4>1, <4>2 DEF small_keys, eligible_types, GraphThere
        <5> QED BY <4>2, <5>1, EdgesAreFinite, FS_Subset
      <4>4. PICK k : batch = {k}
        BY <3>2, <4>3, FS_Singleton
      <4>5. EdgeTotal(batch) = EdgeCount(k)
        BY <4>4 DEF EdgeTotal, EdgeCount, OfKey
      <4> QED BY <4>1, <4>4, <4>5 DEF small_keys
    <3> QED BY <3>1, <3>2 DEF CollectsAreBounded, BatchHolds
  <2>7. CASE MapNodes \/ ResolveEdges \/ DivideByZero \/ SkipEdgeRows \/ Assemble
             \/ Ended \/ UNCHANGED vars
    BY <2>1, <2>7 DEF MapNodes, ResolveEdges, DivideByZero, SkipEdgeRows,
                      Assemble, Ended, vars
  <2> QED BY <1>2, <2>2, <2>3, <2>4, <2>5, <2>6, <2>7 DEF Next
<1> QED BY <1>1, <1>2, RowsInvariance, PTL DEF Spec

(* The schema. *)

\* Of the edge types with one relation the last says what it says of all.
LEMMA FlagIsTrue ==
    ASSUME GraphThere, DOMAIN edge_features = Featurized, Budgets,
           NEW k \in EdgeKeys
    PROVE  has_features(k[2]) = (k \in DOMAIN edge_features)
<1> DEFINE keys == {j \in DOMAIN edge_indices : j[2] = k[2]}
           is(l) == \A j \in keys : KeyId(j) <= KeyId(l)
           last == CHOOSE l \in keys : is(l)
           f == [j \in keys |-> 0 - KeyId(j)]
<1>1. Given /\ Table /\ EdgesThere /\ DOMAIN edge_indices = EdgeKeys
  BY DEF GraphThere
<1>2. IsFiniteSet(keys) /\ keys # {}
  <2>1. keys \in SUBSET EdgeKeys /\ k \in keys
    BY <1>1
  <2> HIDE DEF keys
  <2> QED BY <1>1, <2>1, EdgesAreFinite, FS_Subset
<1>3. \A j \in keys : KeyId(j) \in Int
  BY <1>1, KeysAreNumbered
<1>4. \E l \in keys : is(l)
  <2>1. f = [j \in keys |-> f[j]] /\ \A j \in keys : f[j] \in Int
    BY <1>3
  <2>2. PICK l \in keys : \A j \in keys : f[l] <= f[j]
    <3> HIDE DEF f, keys
    <3> QED BY <1>2, <2>1, Least
  <2>3. \A j \in keys : KeyId(j) <= KeyId(l)
    <3> HIDE DEF keys
    <3> QED BY <1>3, <2>2
  <2> QED BY <2>3
<1>5. last \in keys
  <2> HIDE DEF keys, is
  <2> QED BY <1>4
<1>6. has_features(k[2]) = (last \in DOMAIN edge_features)
  BY DEF has_features
<1>7. last[2] = k[2] /\ last \in DOMAIN edge_indices /\ k \in DOMAIN edge_indices
  <2> HIDE DEF last
  <2> QED BY <1>1, <1>5
<1>8. last \in Featurized <=> k \in Featurized
  <2> HIDE DEF last
  <2> QED BY <1>7 DEF Featurized, eligible_types, Budgets
<1> HIDE DEF last
<1> QED BY <1>6, <1>8

\* graph_schema.json says of every edge type what the graph has of it: its
\* number of edges, and whether there is an edge_attr, although the flag is
\* kept per relation.
THEOREM SchemaSaysTheGraph == Spec => []SchemaIsTrue
<1>1. Init => SchemaIsTrue
  BY DEF Init, SchemaIsTrue
<1>2. ASSUME IInv, RInv, IInv', RInv', SchemaIsTrue, [Next \/ Ended]_vars
      PROVE  SchemaIsTrue'
  <2>1. CASE pc' # "done"
    BY <2>1 DEF SchemaIsTrue
  <2>2. CASE Assemble
    <3>1. /\ pc = "assemble" /\ UNCHANGED inputs
          /\ UNCHANGED <<node_id_df, edges_final, edge_indices, edge_features>>
          /\ edge_type_details' =
                [k \in DOMAIN edge_indices |->
                    [count |-> Cardinality(DOMAIN edge_indices[k]),
                     has_features |-> has_features(k[2])]]
      BY <2>2 DEF Assemble
    <3>2. GraphThere /\ Given /\ Table /\ EdgesThere
          /\ DOMAIN edge_indices = EdgeKeys /\ IndicesRight
      BY <1>2, <3>1, GraphIsThere DEF AfterEdges, GraphThere, IInv
    <3>3. DOMAIN edge_features = Featurized /\ Budgets
      BY <1>2, <3>1 DEF RInv
    <3>4. ASSUME NEW k \in DOMAIN edge_indices
          PROVE  edge_type_details'[k] =
                   [count |-> EdgeCount(k),
                    has_features |-> k \in DOMAIN edge_features]
      <4> DEFINE flag == k \in DOMAIN edge_features
                 n == EdgeCount(k)
      <4>1. edge_indices[k] = edge_index(k)
        BY <3>2 DEF IndicesRight
      <4>2. n \in Nat /\ DOMAIN edge_index(k) = 0..(n - 1)
        BY <3>2, ColumnsAreEdges
      <4>3. Cardinality(0..(n - 1)) = n
        <5>1. n - 1 \in Int /\ 0 \in Int /\ n \in Nat
          BY <4>2
        <5> HIDE DEF n
        <5>2. Cardinality(0..(n - 1)) = IF 0 > n - 1 THEN 0 ELSE (n - 1) - 0 + 1
          BY <5>1, FS_Interval
        <5> QED BY <5>1, <5>2
      <4>4. has_features(k[2]) = flag
        BY <3>2, <3>3, FlagIsTrue
      <4>5. edge_type_details'[k] = [count |-> Cardinality(DOMAIN edge_indices[k]),
                                     has_features |-> has_features(k[2])]
        BY <3>1
      <4> HIDE DEF flag, n
      <4>6. edge_type_details'[k] = [count |-> n, has_features |-> flag]
        BY <4>1, <4>2, <4>3, <4>4, <4>5
      <4> QED BY <4>6 DEF flag, n
    <3>5. \A k : EdgeCount(k)' = EdgeCount(k)
      BY <3>1, EdgeTypesStay
    <3>6. ASSUME NEW k \in DOMAIN edge_indices'
          PROVE  (edge_type_details[k] = [count |-> EdgeCount(k),
                                          has_features |-> k \in DOMAIN edge_features])'
      BY <3>1, <3>4, <3>5
    <3> QED BY <3>6 DEF SchemaIsTrue
  <2>3. CASE MapNodes
    <3>1. pc = "nodes" /\ UNCHANGED edge_indices
      BY <2>3 DEF MapNodes
    <3>2. DOMAIN edge_indices' = {}
      BY <1>2, <3>1 DEF IInv, NothingYet
    <3> QED BY <3>2 DEF SchemaIsTrue
  <2>4. CASE UNCHANGED vars
    <3>1. UNCHANGED <<pc, edge_indices, edges_final, edge_features, edge_type_details>>
      BY <2>4 DEF vars
    <3>2. \A k : EdgeCount(k)' = EdgeCount(k)
      BY <3>1 DEF EdgeCount, OfKey
    <3> QED BY <1>2, <3>1, <3>2 DEF SchemaIsTrue
  <2>5. CASE ResolveEdges \/ CollectEdges \/ DivideByZero \/ SkipEdgeRows
             \/ CollectEdgeRowChunk
    <3>1. pc' # "done"
      BY <2>5 DEF ResolveEdges, CollectEdges, DivideByZero, SkipEdgeRows,
                  CollectEdgeRowChunk
    <3> QED BY <2>1, <3>1
  <2>6. ASSUME NEW t \in NodeTypes, CollectNodeChunk(t) PROVE SchemaIsTrue'
    <3>1. pc' # "done"
      BY <2>6 DEF CollectNodeChunk
    <3> QED BY <2>1, <3>1
  <2>7. ASSUME NEW batch, CollectNodeBatch(batch) PROVE SchemaIsTrue'
    <3>1. pc' # "done"
      BY <2>7 DEF CollectNodeBatch
    <3> QED BY <2>1, <3>1
  <2>8. ASSUME NEW batch, CollectEdgeRowBatch(batch) PROVE SchemaIsTrue'
    <3>1. pc' # "done"
      BY <2>8 DEF CollectEdgeRowBatch
    <3> QED BY <2>1, <3>1
  <2> QED BY <1>2, <2>2, <2>3, <2>4, <2>5, <2>6, <2>7, <2>8 DEF Next, Ended
<1> QED BY <1>1, <1>2, RowsInvariance, PTL DEF Spec

(* Progress. *)

LEMMA MoreOfThem ==
    ASSUME NEW S, NEW T, IsFiniteSet(T), S \subseteq T, S # T
    PROVE  Cardinality(S) < Cardinality(T)
<1>1. IsFiniteSet(S) /\ Cardinality(S) <= Cardinality(T) /\ Cardinality(S) # Cardinality(T)
  BY FS_Subset
<1>2. Cardinality(S) \in Nat /\ Cardinality(T) \in Nat
  BY <1>1, FS_CardinalityType
<1> QED BY <1>1, <1>2

\* What is built so far can be counted.
LEMMA BuiltIsCounted ==
    ASSUME IInv, RInv, pc \in AfterEdges \cup {"collect_edges"}
    PROVE  /\ IsFiniteSet(EdgeKeys) /\ IsFiniteSet(NodeTypes)
           /\ DOMAIN edge_indices \subseteq EdgeKeys
           /\ DOMAIN feature_tensors \subseteq NodeTypes
           /\ DOMAIN edge_features \subseteq EdgeKeys
           /\ Cardinality(DOMAIN edge_indices) \in Nat
           /\ Cardinality(DOMAIN feature_tensors) \in Nat
           /\ Cardinality(DOMAIN edge_features) \in Nat
<1>1. Given /\ Table /\ EdgesThere
  BY DEF IInv, AfterEdges
<1>2. IsFiniteSet(EdgeKeys) /\ IsFiniteSet(NodeTypes)
  BY <1>1, EdgesAreFinite, NodeTypesAreFinite
<1>3. DOMAIN edge_indices \subseteq EdgeKeys
  BY DEF IInv, ChunksSoFar, AfterEdges
<1>4. DOMAIN feature_tensors \subseteq NodeTypes /\ DOMAIN edge_features \subseteq EdgeKeys
  <2>1. CASE pc = "collect_edges"
    BY <2>1 DEF RInv, NoRowsYet
  <2>2. CASE pc \in AfterEdges
    BY <1>3, <2>2 DEF RInv, NodeRowsSoFar, EdgeRowsSoFar, Featurized, eligible_types
  <2> QED BY <2>1, <2>2
<1> QED BY <1>2, <1>3, <1>4, FS_Subset, FS_CardinalityType

\* A chunk of edges has an edge type, and it was not collected before.
LEMMA ChunkAdvances ==
    ASSUME IInv, RInv, CollectEdges
    PROVE  Built' > Built
<1> DEFINE N == Cardinality(EdgeKeys)
           keys == KeysIn(cursor, ChunkEnd(cursor))
<1>1. /\ pc = "collect_edges" /\ pc' \in {"node_rows", "collect_edges"}
      /\ edge_indices' = [k \in DOMAIN edge_indices \cup keys |->
                             IF k \in keys THEN edge_index(k) ELSE edge_indices[k]]
      /\ UNCHANGED <<feature_tensors, edge_features>>
  BY DEF CollectEdges
<1>2. Given /\ Table /\ EdgesThere /\ ChunksSoFar /\ cursor \in 0..(N - 1)
  BY <1>1 DEF IInv, ChunksSoFar
<1>3. PICK k \in EdgeKeys : KeyId(k) = cursor
  <2>1. EdgeKeys \subseteq Tuple(3)
    BY <1>2, EdgesAreTriples DEF EdgeKeys
  <2>2. TotalOrder(EdgeKeys, InOrder(EdgeKeys)) /\ IsFiniteSet(EdgeKeys)
    BY <1>2, <2>1, Lexicographic, EdgesAreFinite
  <2>3. PICK k \in EdgeKeys : Cardinality(Below(EdgeKeys, InOrder(EdgeKeys), k)) = cursor
    BY <1>2, <2>2, Placing
  <2>4. {j \in EdgeKeys : Before(j, k)} = Below(EdgeKeys, InOrder(EdgeKeys), k)
    BY DEF Below, InOrder
  <2> QED BY <2>3, <2>4 DEF KeyId
<1>4. k \in keys /\ k \notin DOMAIN edge_indices
  <2>1. ChunkEnd(cursor) \in cursor..(N - 1)
    BY <1>2, ChunkEnds
  <2>2. cursor \in cursor..ChunkEnd(cursor)
    <3> HIDE DEF N
    <3> QED BY <1>2, <2>1
  <2>3. k \notin DOMAIN edge_indices
    <3> HIDE DEF N
    <3> QED BY <1>2, <1>3 DEF ChunksSoFar
  <2> QED BY <1>3, <2>2, <2>3 DEF KeysIn
<1>5. DOMAIN edge_indices' = DOMAIN edge_indices \cup keys
  <2> HIDE DEF keys
  <2> QED BY <1>1
<1> HIDE DEF keys
<1>6. /\ Cardinality(DOMAIN edge_indices) \in Nat
      /\ Cardinality(DOMAIN feature_tensors) \in Nat
      /\ Cardinality(DOMAIN edge_features) \in Nat
  BY <1>1, BuiltIsCounted
<1>7. IsFiniteSet(DOMAIN edge_indices')
  <2>1. IsFiniteSet(EdgeKeys) /\ DOMAIN edge_indices \subseteq EdgeKeys
    BY <1>1, BuiltIsCounted
  <2>2. DOMAIN edge_indices' \in SUBSET EdgeKeys
    BY <1>5, <2>1 DEF keys, KeysIn
  <2> QED BY <2>1, <2>2, FS_Subset
<1>8. Cardinality(DOMAIN edge_indices) < Cardinality(DOMAIN edge_indices')
  BY <1>4, <1>5, <1>7, MoreOfThem
<1>9. Cardinality(DOMAIN edge_indices') \in Nat
  BY <1>7, FS_CardinalityType
<1> QED BY <1>1, <1>6, <1>8, <1>9 DEF Built

\* A range of a node type finishes it or moves on.
LEMMA NodeChunkAdvances ==
    ASSUME IInv, RInv, NEW t \in NodeTypes, CollectNodeChunk(t)
    PROVE  Built' > Built \/ (Built' = Built /\ tensor'.next > tensor.next)
<1> DEFINE n == NodeCount(t)  hi == NodeHi(t)  rows == NodeGot(t)
           lo == NextRow(<<t>>)  b == config.chunk_node_threshold
<1>1. /\ pc = "node_rows" /\ t \in NodeTypesLeft
      /\ UNCHANGED <<edge_indices, edge_features>>
      /\ hi < n => /\ tensor' = [of |-> <<t>>, next |-> hi, rows |-> rows]
                   /\ UNCHANGED feature_tensors
      /\ ~(hi < n) =>
            feature_tensors' = [s \in DOMAIN feature_tensors \cup {t} |->
                                   IF s = t THEN rows ELSE feature_tensors[s]]
  BY DEF CollectNodeChunk, NodeHi, NodeGot, NodeRange
<1>2. /\ n \in Nat /\ lo \in 0..n /\ b \in Nat /\ b > 0
      /\ hi < n => hi = lo + b
      /\ tensor = NoTensor \/ tensor.of = <<t>>
  BY NodeChunk
<1>3. lo = tensor.next
  <2>1. CASE tensor = NoTensor
    <3>1. tensor.of # <<t>> /\ tensor.next = 0
      BY <2>1 DEF NoTensor
    <3> QED BY <3>1 DEF NextRow
  <2>2. CASE tensor.of = <<t>>
    BY <2>2 DEF NextRow
  <2> QED BY <1>2, <2>1, <2>2
<1> HIDE DEF n, hi, rows, lo, b
<1>4. CASE hi < n
  <2>1. tensor'.next = hi /\ hi > tensor.next
    BY <1>1, <1>2, <1>3, <1>4
  <2>2. Built' = Built
    BY <1>1, <1>4 DEF Built
  <2> QED BY <2>1, <2>2
<1>5. CASE ~(hi < n)
  <2>1. /\ IsFiniteSet(NodeTypes) /\ DOMAIN feature_tensors \subseteq NodeTypes
        /\ Cardinality(DOMAIN edge_indices) \in Nat
        /\ Cardinality(DOMAIN feature_tensors) \in Nat
        /\ Cardinality(DOMAIN edge_features) \in Nat
    BY <1>1, BuiltIsCounted DEF AfterEdges
  <2>2. DOMAIN feature_tensors' = DOMAIN feature_tensors \cup {t}
    BY <1>1, <1>5
  <2>3. t \notin DOMAIN feature_tensors
    BY <1>1 DEF NodeTypesLeft
  <2>4. IsFiniteSet(DOMAIN feature_tensors)
    BY <2>1, FS_Subset
  <2>5. Cardinality(DOMAIN feature_tensors') = Cardinality(DOMAIN feature_tensors) + 1
    BY <2>2, <2>3, <2>4, FS_AddElement
  <2> QED BY <1>1, <2>1, <2>5 DEF Built
<1> QED BY <1>4, <1>5

LEMMA EdgeChunkAdvances ==
    ASSUME IInv, RInv, CollectEdgeRowChunk
    PROVE  Built' > Built \/ (Built' = Built /\ tensor'.next > tensor.next)
<1> DEFINE k == NextLarge  n == EdgeCount(k)  hi == EdgeHi(k)  rows == EdgeGot(k)
           lo == NextRow(k)  b == EdgeBudget
<1>1. /\ pc = "edge_rows"
      /\ UNCHANGED <<edge_indices, feature_tensors>>
      /\ hi < n => /\ tensor' = [of |-> k, next |-> hi, rows |-> rows]
                   /\ UNCHANGED edge_features
      /\ ~(hi < n) =>
            edge_features' = [j \in DOMAIN edge_features \cup {k} |->
                                 IF j = k THEN rows ELSE edge_features[j]]
  BY DEF CollectEdgeRowChunk, NextLarge, EdgeHi, EdgeGot, EdgeRange
<1>2. /\ n \in Nat /\ lo \in 0..n /\ (hi < n => hi = lo + b)
      /\ tensor = NoTensor \/ tensor.of = k
      /\ k \in EdgeTypesLeft(large_keys)
  BY EdgeChunk
<1>3. b \in Nat /\ b > 0
  BY BudgetIsPositive DEF RInv
<1>4. lo = tensor.next
  <2>1. CASE tensor = NoTensor
    BY <2>1 DEF NextRow, NoTensor
  <2>2. CASE tensor.of = k
    BY <2>2 DEF NextRow
  <2> QED BY <1>2, <2>1, <2>2
<1> HIDE DEF n, hi, rows, lo, b, k
<1>5. CASE hi < n
  <2>1. tensor'.next = hi /\ hi > tensor.next
    BY <1>1, <1>2, <1>3, <1>4, <1>5
  <2>2. Built' = Built
    BY <1>1, <1>5 DEF Built
  <2> QED BY <2>1, <2>2
<1>6. CASE ~(hi < n)
  <2>1. /\ IsFiniteSet(EdgeKeys) /\ DOMAIN edge_features \subseteq EdgeKeys
        /\ Cardinality(DOMAIN edge_indices) \in Nat
        /\ Cardinality(DOMAIN feature_tensors) \in Nat
        /\ Cardinality(DOMAIN edge_features) \in Nat
    BY <1>1, BuiltIsCounted DEF AfterEdges
  <2>2. DOMAIN edge_features' = DOMAIN edge_features \cup {k}
    BY <1>1, <1>6
  <2>3. k \notin DOMAIN edge_features
    BY <1>2 DEF EdgeTypesLeft
  <2>4. IsFiniteSet(DOMAIN edge_features)
    BY <2>1, FS_Subset
  <2>5. Cardinality(DOMAIN edge_features') = Cardinality(DOMAIN edge_features) + 1
    BY <2>2, <2>3, <2>4, FS_AddElement
  <2> QED BY <1>1, <2>1, <2>5 DEF Built
<1> QED BY <1>5, <1>6

\* A batch finishes at least one type.
LEMMA NodeBatchAdvances ==
    ASSUME IInv, RInv, NEW batch \in (SUBSET NodeTypesLeft) \ {{}},
           CollectNodeBatch(batch)
    PROVE  Built' > Built
<1>1. /\ pc = "node_rows" /\ UNCHANGED <<edge_indices, edge_features>>
      /\ DOMAIN feature_tensors' = DOMAIN feature_tensors \cup batch
  BY DEF CollectNodeBatch
<1>2. /\ IsFiniteSet(NodeTypes) /\ DOMAIN feature_tensors \subseteq NodeTypes
      /\ Cardinality(DOMAIN edge_indices) \in Nat
      /\ Cardinality(DOMAIN feature_tensors) \in Nat
      /\ Cardinality(DOMAIN edge_features) \in Nat
  BY <1>1, BuiltIsCounted DEF AfterEdges
<1>3. IsFiniteSet(DOMAIN feature_tensors')
  <2>1. DOMAIN feature_tensors' \in SUBSET NodeTypes
    BY <1>1, <1>2 DEF NodeTypesLeft
  <2> QED BY <1>2, <2>1, FS_Subset
<1>4. Cardinality(DOMAIN feature_tensors) < Cardinality(DOMAIN feature_tensors')
  <2>1. PICK x \in batch : x \notin DOMAIN feature_tensors
    BY DEF NodeTypesLeft
  <2>2. DOMAIN feature_tensors # DOMAIN feature_tensors'
    BY <1>1, <2>1
  <2> QED BY <1>1, <1>3, <2>2, MoreOfThem
<1>5. Cardinality(DOMAIN feature_tensors') \in Nat
  BY <1>3, FS_CardinalityType
<1> QED BY <1>1, <1>2, <1>4, <1>5 DEF Built

LEMMA EdgeBatchAdvances ==
    ASSUME IInv, RInv, NEW batch \in (SUBSET EdgeTypesLeft(small_keys)) \ {{}},
           CollectEdgeRowBatch(batch)
    PROVE  Built' > Built
<1>1. /\ pc = "edge_rows" /\ UNCHANGED <<edge_indices, feature_tensors>>
      /\ DOMAIN edge_features' = DOMAIN edge_features \cup batch
  BY DEF CollectEdgeRowBatch
<1>2. /\ IsFiniteSet(EdgeKeys) /\ DOMAIN edge_features \subseteq EdgeKeys
      /\ DOMAIN edge_indices \subseteq EdgeKeys
      /\ Cardinality(DOMAIN edge_indices) \in Nat
      /\ Cardinality(DOMAIN feature_tensors) \in Nat
      /\ Cardinality(DOMAIN edge_features) \in Nat
  BY <1>1, BuiltIsCounted DEF AfterEdges
<1>3. IsFiniteSet(DOMAIN edge_features')
  <2>1. DOMAIN edge_features' \in SUBSET EdgeKeys
    BY <1>1, <1>2 DEF EdgeTypesLeft, small_keys, eligible_types
  <2> QED BY <1>2, <2>1, FS_Subset
<1>4. Cardinality(DOMAIN edge_features) < Cardinality(DOMAIN edge_features')
  <2>1. PICK x \in batch : x \notin DOMAIN edge_features
    BY DEF EdgeTypesLeft
  <2>2. DOMAIN edge_features # DOMAIN edge_features'
    BY <1>1, <2>1
  <2> QED BY <1>1, <1>3, <2>2, MoreOfThem
<1>5. Cardinality(DOMAIN edge_features') \in Nat
  BY <1>3, FS_CardinalityType
<1> QED BY <1>1, <1>2, <1>4, <1>5 DEF Built

\* Every step of a build brings it nearer to its end: a later step of the
\* driver, one more type, or later rows of the same type.
THEOREM EveryStepAdvances == Spec => StepsAdvance
<1> DEFINE Advance ==
        \/ Place(pc') > Place(pc)
        \/ Built' > Built
        \/ Built' = Built /\ tensor'.next > tensor.next
<1>1. ASSUME IInv, RInv, [Next \/ Ended]_vars PROVE [Advance]_vars
  <2>1. CASE MapNodes
    BY <2>1 DEF MapNodes, Place
  <2>2. CASE ResolveEdges
    BY <2>2 DEF ResolveEdges, Place
  <2>3. CASE CollectEdges
    BY <1>1, <2>3, ChunkAdvances
  <2>4. ASSUME NEW t \in NodeTypes, CollectNodeChunk(t) PROVE Advance
    BY <1>1, <2>4, NodeChunkAdvances
  <2>5. CASE DivideByZero
    BY <2>5 DEF DivideByZero, Place
  <2>6. ASSUME NEW batch \in (SUBSET NodeTypesLeft) \ {{}}, CollectNodeBatch(batch)
        PROVE  Advance
    BY <1>1, <2>6, NodeBatchAdvances
  <2>7. CASE SkipEdgeRows
    BY <2>7 DEF SkipEdgeRows, Place
  <2>8. CASE CollectEdgeRowChunk
    BY <1>1, <2>8, EdgeChunkAdvances
  <2>9. ASSUME NEW batch \in (SUBSET EdgeTypesLeft(small_keys)) \ {{}},
               CollectEdgeRowBatch(batch)
        PROVE  Advance
    BY <1>1, <2>9, EdgeBatchAdvances
  <2>10. CASE Assemble
    BY <2>10 DEF Assemble, Place
  <2>11. CASE Ended \/ UNCHANGED vars
    BY <2>11 DEF Ended
  <2> HIDE DEF Advance
  <2> QED BY <1>1, <2>1, <2>2, <2>3, <2>4, <2>5, <2>6, <2>7, <2>8, <2>9, <2>10, <2>11
          DEF Next
<1> QED BY <1>1, RowsInvariance, PTL DEF Spec, StepsAdvance
=============================================================================
