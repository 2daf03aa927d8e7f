--------------------------- MODULE MCHeteroBuild ---------------------------
(* HeteroBuild on small triple sets. Three families of inputs: every typing *)
(* of three entities, every set of links among four, and names no source    *)
(* registers.                                                               *)
EXTENDS HeteroBuild, TLC

CONSTANTS
    filing, form, month, other, widget, thing,   \* type URIs
    type, label, p1, p1b, p2, q, num,            \* predicates
    v1, v2                                       \* literals

Form == 1
Filing == 2
Month == 3
OtherType == 4
Widget == 5

Names == (form :> Form) @@ (filing :> Filing) @@ (month :> Month)
         @@ (other :> OtherType) @@ (widget :> Widget) @@ (thing :> 6)
Relations == (type :> 1) @@ (label :> 2) @@ (p1 :> 3) @@ (p1b :> 3)
             @@ (p2 :> 4) @@ (q :> 5) @@ (num :> 6)
MonthOnly == <<Month>>
Four == 1..4

T(s, p, o) == [s |-> s, p |-> p, o |-> o]

Base == [node_types |-> << >>, exclude_node_types |-> {},
         include_temporal_nodes |-> TRUE, include_sector_nodes |-> TRUE,
         allow_unregistered_namespaces |-> FALSE, edge_types |-> {},
         edge_collect_row_budget |-> 2, chunk_node_threshold |-> 2,
         chunk_edge_threshold |-> 2, max_edge_types_per_batch |-> 2,
         broadcast_limit |-> 1, edge_features |-> TRUE]

\* Every typing of three entities by a class, its subclass, a pinned type and
\* a type of the OWL vocabulary, under each kind of type filter.
Typings ==
    LET links == {T(1, p1, 2), T(2, p1, 3), T(3, p2, 1), T(1, num, v1),
                  T(2, label, v2), T(2, type, thing)}
        configs == {Base,
                    [Base EXCEPT !.node_types = <<Filing, Form>>],
                    [Base EXCEPT !.exclude_node_types = {Filing}],
                    [Base EXCEPT !.include_temporal_nodes = FALSE]}
    IN {[triples |-> links \cup UNION {{T(u, type, c) : c \in ts[u]} : u \in 1..3},
         config |-> f] :
           ts \in [1..3 -> SUBSET {form, filing, month}], f \in configs}

\* Every set of links among four entities, under every budget.
Links ==
    LET typing == {T(1, type, filing), T(2, type, filing), T(3, type, filing),
                   T(4, type, other)}
        links == {T(1, p1, 2), T(1, p1b, 2), T(2, p1, 1), T(3, p1, 1),
                  T(4, p1, 1), T(2, p2, 4)}
        numbers == {{T(1, num, v1), T(4, num, v2)},
                    {T(1, num, v1), T(2, num, v2), T(4, num, v1)}}
    IN {[triples |-> typing \cup l \cup n,
         config |-> [Base EXCEPT !.edge_collect_row_budget = b[1],
                                 !.chunk_edge_threshold = b[1],
                                 !.chunk_node_threshold = b[2],
                                 !.max_edge_types_per_batch = b[3],
                                 !.broadcast_limit = b[4]]] :
           l \in SUBSET links, n \in numbers,
           b \in (0..3) \X {2, 4} \X {1, 2} \X (0..2)}

\* Unregistered names, a threshold of zero, edge features switched off.
Oddities ==
    LET graph(w, r) == {T(1, type, w), T(2, type, filing), T(1, r, 2), T(2, p1, 1)}
    IN {[triples |-> graph(w, r),
         config |-> [Base EXCEPT !.allow_unregistered_namespaces = a,
                                 !.edge_features = f,
                                 !.edge_types = e,
                                 !.chunk_node_threshold = n]] :
           w \in {widget, filing}, r \in {q, p2}, a \in BOOLEAN, f \in BOOLEAN,
           e \in {{}, {3}}, n \in {0, 1}}

Builds == Typings \cup Links \cup Oddities
============================================================================
