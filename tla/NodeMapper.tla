---------------------------- MODULE NodeMapper ----------------------------
(* NodeMapper.build_node_id_table: which node type an entity belongs to,   *)
(* and which row of that type it is.                                       *)
(*                                                                         *)
(* URIs, node type names and relation names are numbers, in the order in   *)
(* which their strings sort: the code breaks every tie by a string.        *)
(* A triple is [s, p, o]; triples is a set, as the enrichment pipeline     *)
(* hands over a frame without duplicates.                                  *)
EXTENDS Integers, Sequences, FiniteSets

CONSTANTS
    Uri,              \* entities, numbers in string order
    TypeUri,          \* objects of rdf:type
    RdfType,          \* the predicate
    Meta,             \* the TypeUri of the OWL, RDF and RDFS vocabularies
    NodeTypeOf,       \* TypeUri -> node type name (prefixed_local_name)
    Pinned,           \* _CANONICAL_TYPE_PRIORITY, a sequence of names
    Temporal, Sector, \* names the two switches drop
    UnknownType       \* names that start with unknown_

NodeType == {NodeTypeOf[c] : c \in TypeUri}

ASSUME NodeMapperAssumption ==
    /\ Uri \subseteq Nat
    /\ NodeTypeOf \in [TypeUri -> Nat]
    /\ Pinned \in Seq(Nat)

VARIABLES
    triples,          \* the enriched triples, never changed
    config            \* pyg_config, never changed

\* Tuples of numbers in the order of Spark's orderBy and Python's sorted.
Before(a, b) ==
    \E i \in 1..Len(a) : a[i] < b[i] /\ \A j \in 1..(i - 1) : a[j] = b[j]

\* _apply_config_filters: an allow-list switches every other filter off.
Kept(n) ==
    IF config.node_types # << >>
    THEN \E i \in 1..Len(config.node_types) : config.node_types[i] = n
    ELSE /\ n \notin config.exclude_node_types
         /\ n \in Temporal => config.include_temporal_nodes
         /\ n \in Sector => config.include_sector_nodes

type_triples ==
    {t \in triples : /\ t.p = RdfType
                     /\ t.o \notin Meta
                     /\ Kept(NodeTypeOf[t.o])}

Rows(n) == {t \in type_triples : NodeTypeOf[t.o] = n}
Carriers(n) == {t.s : t \in Rows(n)}
NamesOf(u) == {NodeTypeOf[t.o] : t \in {r \in type_triples : r.s = u}}

\* Counts are of rows: two type URIs with one name count an entity twice.
TypeCount(n) == Cardinality(Rows(n))

_subsumed_node_types ==
    LET names == {NodeTypeOf[t.o] : t \in type_triples}
    IN {a \in names : \E b \in names \ {a} :
            /\ Cardinality(Carriers(a) \cap Carriers(b)) = TypeCount(a)
            /\ TypeCount(b) > TypeCount(a)}

Priority(n) ==
    IF \E i \in 1..Len(Pinned) : Pinned[i] = n
    THEN CHOOSE i \in 1..Len(Pinned) : Pinned[i] = n
    ELSE Len(Pinned) + 1

\* Mutant: the rarer type first, as before subsumption was looked at.
ContestByCount(n, subsumed) ==
    <<Priority(n), TypeCount(n), IF n \in subsumed THEN 1 ELSE 0, n>>

\* What the window over one entity's types orders by.
Contest(n, subsumed) ==
    <<Priority(n), IF n \in subsumed THEN 1 ELSE 0, TypeCount(n), n>>

\* The rows of rank 1 of the window over each entity's types.
ranked ==
    LET subsumed == _subsumed_node_types
        rows == {[uri |-> t.s, order |-> Contest(NodeTypeOf[t.o], subsumed)] :
                    t \in type_triples}
    IN {r \in rows : \A s \in rows \ {r} :
           s.uri = r.uri => Before(r.order, s.order)}

\* Mutant: one window over all the types.
NodeIdsOneWindow(rows) ==
    [u \in {r.uri : r \in rows} |->
        [type |-> (CHOOSE r \in rows : r.uri = u).order[4],
         id |-> Cardinality({r \in rows : r.uri < u})]]

\* row_number() over each type, ordered by URI, minus one. Each entity has
\* one row; the name is what its order ends with.
NodeIds(rows) ==
    [u \in {r.uri : r \in rows} |->
        LET name == (CHOOSE r \in rows : r.uri = u).order[4]
        IN [type |-> name,
            id |-> Cardinality({r \in rows : r.order[4] = name /\ r.uri < u})]]

build_node_id_table == NodeIds(ranked)
============================================================================
