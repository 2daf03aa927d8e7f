---------------------------- MODULE EdgeMapper ----------------------------
(* EdgeMapper.build_edge_indices: the triples between two nodes become     *)
(* edges of numbered rows, and the edges are collected to the driver in    *)
(* chunks of whole edge types.                                             *)
EXTENDS NodeMapper

CONSTANTS
    Predicate,        \* RdfType among them
    Literal,          \* objects that are values
    ExcludedEdge,     \* EXCLUDED_EDGE_PREDICATES
    RelationOf,       \* Predicate -> relation name
    UnknownRelation   \* relation names that start with unknown_

\* What the enrichment pipeline can hand over: an rdf:type names a class.
Triple == {t \in [s : Uri, p : Predicate, o : Uri \cup TypeUri \cup Literal] :
             t.p = RdfType => t.o \in TypeUri}

Relation == {RelationOf[p] : p \in Predicate}

ASSUME EdgeMapperAssumption == RelationOf \in [Predicate -> Nat]

VARIABLES
    node_id_df,       \* URI -> [type, id]
    edges_final       \* the resolved edges, [key, ends] with numbers only

edge_triples ==
    {t \in triples : /\ t.p \notin ExcludedEdge
                     /\ t.s \in DOMAIN node_id_df
                     /\ t.o \in DOMAIN node_id_df
                     /\ \/ config.edge_types = {}
                        \/ RelationOf[t.p] \in config.edge_types}

\* A set: dropDuplicates over (src_type, src_id, relation, dst_type, dst_id).
resolved_edges ==
    {[key |-> <<node_id_df[t.s].type, RelationOf[t.p], node_id_df[t.o].type>>,
      ends |-> <<node_id_df[t.s].id, node_id_df[t.o].id>>] : t \in edge_triples}

EdgeKeys == {e.key : e \in edges_final}
OfKey(key) == {e \in edges_final : e.key = key}
EdgeCount(key) == Cardinality(OfKey(key))

\* keys_by_id: the edge types in sorted order, numbered from 0.
KeyId(key) == Cardinality({k \in EdgeKeys : Before(k, key)})
\* Mutant: a chunk's upper end is taken for an exclusive bound.
KeysBelow(lo, hi) == {k \in EdgeKeys : KeyId(k) \in lo..(hi - 1)}

KeysIn(lo, hi) == {k \in EdgeKeys : KeyId(k) \in lo..hi}

\* _chunk_type_ids: where the chunk that starts at type lo ends. Types are
\* added while the budget holds them; the first one always goes in.
ChunkEnd(lo) ==
    LET rows(hi) == Cardinality({e \in edges_final : KeyId(e.key) \in lo..hi})
        budget == IF config.edge_collect_row_budget < 1
                  THEN 1 ELSE config.edge_collect_row_budget
    IN CHOOSE hi \in lo..(Cardinality(EdgeKeys) - 1) :
          /\ hi = lo \/ rows(hi) <= budget
          /\ hi < Cardinality(EdgeKeys) - 1 => rows(hi + 1) > budget

\* One edge type's edge_index: the rows of the collect are in global order
\* (edge_type_id, src_id, dst_id), and the split keeps it.
edge_index(key) ==
    LET edges == OfKey(key)
        place(e) == Cardinality({d \in edges : Before(d.ends, e.ends)})
    IN [i \in 0..(Cardinality(edges) - 1) |->
          (CHOOSE e \in edges : place(e) = i).ends]
============================================================================
