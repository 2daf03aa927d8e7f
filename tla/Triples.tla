------------------------------- MODULE Triples -------------------------------
(***************************************************************************)
(* The triples the enrichment reads and adds, as <<subject, predicate,     *)
(* object>>. A node or a literal is a tuple that starts with its kind:     *)
(* <<"filing", 1>>, <<"class", "Form4">>, <<"date", 26, 7, 1>> (a missing  *)
(* month or day is 0), <<"num", 5>>. Names are numbers, so they are        *)
(* ordered as their URIs are; text is the set of the words matched in it.  *)
(***************************************************************************)
EXTENDS Naturals, FiniteSets, Sequences

CONSTANTS
    UriWords     \* <<node, word>>: the URIs that contain a keyword's spelling

A(s, c) == <<s, "a", <<"class", c>>>>

\* The pairs a predicate relates, and the nodes of a class.
Rel(G, p) == {<<t[1], t[3]>> : t \in {u \in G : u[2] = p}}
ObjectsOf(G, p) == {t[3] : t \in {u \in G : u[2] = p}}
SubjectsOf(G, p) == {t[1] : t \in {u \in G : u[2] = p}}
Typed(G, c) == {t[1] : t \in {u \in G : u[2] = "a" /\ u[3] = <<"class", c>>}}
TypedAny(G, cs) == UNION {Typed(G, c) : c \in cs}

\* The join of two relations on the second column of the first.
Via(R, S) == {<<x[1][1], x[2][2]>> : x \in {x \in R \X S : x[1][2] = x[2][1]}}
Flip(R) == {<<r[2], r[1]>> : r \in R}
Link(R, p) == {<<r[1], p, r[2]>> : r \in R}

\* What a relation reaches from a node in one step or more.
Reach(R, a) ==
    LET From(ns) == {r[2] : r \in {q \in R : q[1] \in ns}}
        up[n \in 0..Cardinality(R)] ==
            IF n = 0 THEN From({a}) ELSE LET below == up[n - 1] IN below \cup From(below)
    IN  up[Cardinality(R)]

\* filter(predicate IN list): the triples of some of the predicates.
Only(G, ps) == {t \in G : t[2] \in ps}
KindOf(x) == x[1]
Kind(G, k) == {x \in {t[1] : t \in G} \cup {t[3] : t \in G} : KindOf(x) = k}

\* Order by the columns of a key, first column first.
Before(a, b) ==
    \E i \in 1..Len(a) : a[i] < b[i] /\ \A j \in 1..(i - 1) : a[j] = b[j]
=============================================================================
