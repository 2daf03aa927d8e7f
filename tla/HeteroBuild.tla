---------------------------- MODULE HeteroBuild ----------------------------
(* build_hetero_data: node ids, edge indices, node rows, edge rows and the *)
(* assembly, one collect to the driver per step. A feature row is not      *)
(* encoded: it is the set of facts it is computed from, so that two rows   *)
(* are equal when the encoders are given the same thing.                   *)
EXTENDS EdgeMapper

CONSTANTS
    Numeric,          \* the predicates classed as numeric
    Featured,         \* relations of an enabled category, and not skipped
    Trimmed,          \* node types of TRIMMED_NODE_TYPES
    Inputs            \* the [triples, config] a build may be given

ASSUME HeteroBuildAssumption ==
    \A i \in Inputs : /\ i.triples \subseteq Triple /\ IsFiniteSet(i.triples)
                      /\ i.config.edge_collect_row_budget \in Int
                      /\ i.config.chunk_node_threshold \in Int
                      /\ i.config.chunk_edge_threshold \in Int
                      /\ i.config.edge_features \in BOOLEAN

VARIABLES
    pc,               \* the step the driver is at
    edge_indices,     \* edge type -> columns
    feature_tensors,  \* node type -> rows
    edge_features,    \* edge type -> rows
    cursor,           \* where the loop of the step stands
    tensor,           \* the large type under collection: [of, next, rows]
    collected,        \* the last collect: [types, size, budget, whole]
    edge_type_details \* what the metadata says of each edge type

vars == <<triples, config, node_id_df, edges_final, pc, edge_indices,
          feature_tensors, edge_features, cursor, tensor, collected,
          edge_type_details>>
inputs == <<triples, config>>

NoTensor == [of |-> << >>, next |-> 0, rows |-> << >>]
AtLeastOne(n) == IF n < 1 THEN 1 ELSE n
Smaller(a, b) == IF a < b THEN a ELSE b

(* ---------------------------- what is there ---------------------------- *)

NodeTypes == {node_id_df[u].type : u \in DOMAIN node_id_df}
NodeCount(t) == Cardinality({u \in DOMAIN node_id_df : node_id_df[u].type = t})

\* The aggregated frame: per node, what its triples say of it.
node_entries ==
    {[type |-> node_id_df[u].type, id |-> node_id_df[u].id,
      row |-> {<<t.p, t.o>> : t \in {r \in triples : r.s = u}}] :
         u \in DOMAIN node_id_df}

\* scatter_sparse_entries: rows of zeros, and the collected ones written in.
Scatter(rows, entries) ==
    [i \in DOMAIN rows |->
        IF \E e \in entries : e.id = i
        THEN (CHOOSE e \in entries : e.id = i).row ELSE rows[i]]
Zeros(n) == [i \in 0..(n - 1) |-> {}]

\* _extract_node_numeric_properties: literals only, one value a predicate.
numeric_props ==
    {[type |-> node_id_df[t.s].type, id |-> node_id_df[t.s].id,
      p |-> t.p, value |-> t.o] :
         t \in {r \in triples : /\ r.s \in DOMAIN node_id_df
                                /\ r.o \notin DOMAIN node_id_df
                                /\ r.p \in Numeric}}

\* Mutant: the category is read off the endpoints as well as the relation.
eligible_types_by_ends ==
    {k \in DOMAIN edge_indices : k[2] \in Featured /\ k[1] = k[3]}

eligible_types == {k \in DOMAIN edge_indices : k[2] \in Featured}

EdgeTotal(keys) == Cardinality({e \in edges_final : e.key \in keys})

\* _max_edges_per_collect. chunk_edge_threshold stands for the smaller of
\* the row cap and the bytes Spark lets a result have.
EdgeBudget == AtLeastOne(config.chunk_edge_threshold)
small_keys == {k \in eligible_types : EdgeCount(k) <= EdgeBudget}
large_keys == eligible_types \ small_keys

(* --------------------------- the narrow frames ------------------------- *)

endpoint_types == {k[1] : k \in eligible_types} \cup {k[3] : k \in eligible_types}

\* _narrow_numeric_props: the types whose rows would be broadcast.
narrow_types ==
    IF config.broadcast_limit <= 0 THEN {}
    ELSE {t \in endpoint_types :
            Cardinality({r \in numeric_props : r.type = t})
                <= config.broadcast_limit}

\* Mutant: only the source has to be in the narrow frame.
PropsForSource(key) ==
    IF key[1] \in narrow_types
    THEN {r \in numeric_props : r.type \in narrow_types}
    ELSE numeric_props

\* _props_for: a type that is not in the narrow frame reads as having none.
PropsFor(key) ==
    IF {key[1], key[3]} \subseteq narrow_types
    THEN {r \in numeric_props : r.type \in narrow_types}
    ELSE numeric_props

\* edge_idx over the full frame, then _narrow_edges_for_small_types.
edges_with_idx ==
    {[key |-> e.key, ends |-> e.ends,
      id |-> Cardinality({d \in OfKey(e.key) : Before(d.ends, e.ends)})] :
         e \in edges_final}
small_edges ==
    IF 2 * EdgeTotal(small_keys) >= EdgeTotal(DOMAIN edge_indices)
    THEN edges_with_idx
    ELSE {e \in edges_with_idx : e.key \in small_keys}

\* What the encoders see of an edge: the numbers of its two ends.
EdgeRow(key, ends, props) ==
    {<<r.p, "src", r.value>> : r \in {q \in props : q.type = key[1] /\ q.id = ends[1]}}
    \cup
    {<<r.p, "dst", r.value>> : r \in {q \in props : q.type = key[3] /\ q.id = ends[2]}}

\* _build_edge_type_entries.
EdgeEntries(key) ==
    LET frame == IF key \in small_keys THEN small_edges ELSE edges_with_idx
        props == PropsFor(key)
    IN {[id |-> e.id, row |-> EdgeRow(key, e.ends, props)] :
           e \in {f \in frame : f.key = key}}

(* ------------------------------ the steps ------------------------------ *)

Init ==
    /\ \E input \in Inputs : triples = input.triples /\ config = input.config
    /\ pc = "nodes"
    /\ node_id_df = << >>
    /\ edges_final = {}
    /\ edge_indices = << >>
    /\ feature_tensors = << >>
    /\ edge_features = << >>
    /\ cursor = 0
    /\ tensor = NoTensor
    /\ collected = [types |-> 0, size |-> 0, budget |-> 0, whole |-> FALSE]
    /\ edge_type_details = << >>

\* check_registered_names, for both mappers.
Refused(names, unknown) ==
    names \cap unknown # {} /\ ~config.allow_unregistered_namespaces

\* Step 1. A build without nodes returns an empty graph at once.
MapNodes ==
    LET table == build_node_id_table
        names == {table[u].type : u \in DOMAIN table}
    IN /\ pc = "nodes"
       /\ node_id_df' = table
       /\ pc' = IF Refused(names, UnknownType) THEN "failed"
                ELSE IF names = {} THEN "done" ELSE "edges"
       /\ UNCHANGED <<inputs, edges_final, edge_indices, feature_tensors,
                      edge_features, cursor, tensor, collected,
                      edge_type_details>>

\* Step 2, before its collects.
ResolveEdges ==
    LET edges == resolved_edges
    IN /\ pc = "edges"
       /\ edges_final' = edges
       /\ pc' = IF edges = {} THEN "node_rows"
                ELSE IF Refused({e.key[2] : e \in edges}, UnknownRelation)
                THEN "failed" ELSE "collect_edges"
       /\ UNCHANGED <<inputs, node_id_df, edge_indices, feature_tensors,
                      edge_features, cursor, tensor, collected,
                      edge_type_details>>

\* Step 2, one chunk of whole edge types.
CollectEdges ==
    /\ pc = "collect_edges"
    /\ LET hi == ChunkEnd(cursor)
           keys == KeysIn(cursor, hi)
           last == hi = Cardinality(EdgeKeys) - 1
       IN /\ edge_indices' =
                [k \in DOMAIN edge_indices \cup keys |->
                    IF k \in keys THEN edge_index(k) ELSE edge_indices[k]]
          /\ collected' =
                [types |-> Cardinality(keys), size |-> EdgeTotal(keys),
                 budget |-> AtLeastOne(config.edge_collect_row_budget),
                 whole |-> TRUE]
          /\ pc' = IF last THEN "node_rows" ELSE pc
          /\ cursor' = IF last THEN 0 ELSE hi + 1
    /\ UNCHANGED <<inputs, node_id_df, edges_final, feature_tensors,
                   edge_features, tensor, edge_type_details>>

\* Step 3. Nodes of the types that are collected alone, in ranges of rows.
LargeNodeTypes ==
    {t \in NodeTypes : NodeCount(t) > config.chunk_node_threshold \/ t \in Trimmed}
NodeTypesLeft == NodeTypes \ DOMAIN feature_tensors

\* A tensor goes on from row tensor.next, or starts with zeros.
NextRow(of) == IF tensor.of = of THEN tensor.next ELSE 0
RowsSoFar(of, n) == IF tensor.of = of THEN tensor.rows ELSE Zeros(n)
InRange(entries, lo, hi) == {e \in entries : lo <= e.id /\ e.id < hi}

CollectNodeChunk(t) ==
    LET n == NodeCount(t)
        lo == NextRow(<<t>>)
        hi == Smaller(lo + config.chunk_node_threshold, n)
        entries == InRange({e \in node_entries : e.type = t}, lo, hi)
        rows == Scatter(RowsSoFar(<<t>>, n), entries)
    IN /\ pc = "node_rows"
       /\ t \in LargeNodeTypes \cap NodeTypesLeft
       /\ tensor.of \in {<< >>, <<t>>}
       /\ config.chunk_node_threshold > 0
       /\ collected' = [types |-> 1, size |-> Cardinality(entries),
                        budget |-> config.chunk_node_threshold, whole |-> FALSE]
       /\ IF hi < n
          THEN /\ tensor' = [of |-> <<t>>, next |-> hi, rows |-> rows]
               /\ UNCHANGED <<feature_tensors, pc>>
          ELSE /\ tensor' = NoTensor
               /\ feature_tensors' =
                    [s \in DOMAIN feature_tensors \cup {t} |->
                        IF s = t THEN rows ELSE feature_tensors[s]]
               /\ pc' = IF NodeTypesLeft = {t} THEN "edge_rows" ELSE pc
       /\ UNCHANGED <<inputs, node_id_df, edges_final, edge_indices,
                      edge_features, cursor, edge_type_details>>

\* The number of chunks is a division by the threshold, which has no floor.
DivideByZero ==
    /\ pc = "node_rows"
    /\ LargeNodeTypes \cap NodeTypesLeft # {}
    /\ config.chunk_node_threshold = 0
    /\ pc' = "failed"
    /\ UNCHANGED <<inputs, node_id_df, edges_final, edge_indices,
                   feature_tensors, edge_features, cursor, tensor, collected,
                   edge_type_details>>

\* The small types, in batches. node_counts comes from a bare collect, so
\* its order is any order: a batch is full when some next type overflows it.
CollectNodeBatch(batch) ==
    LET nodes(types) ==
            Cardinality({u \in DOMAIN node_id_df : node_id_df[u].type \in types})
        budget == AtLeastOne(config.chunk_node_threshold)
        rest == NodeTypesLeft \ batch
        entries(t) == {e \in node_entries : e.type = t}
    IN /\ pc = "node_rows"
       /\ LargeNodeTypes \cap NodeTypesLeft = {}
       /\ Cardinality(batch) = 1 \/ nodes(batch) <= budget
       /\ rest # {} => \E t \in rest : nodes(batch \cup {t}) > budget
       /\ feature_tensors' =
            [t \in DOMAIN feature_tensors \cup batch |->
                IF t \in batch THEN Scatter(Zeros(NodeCount(t)), entries(t))
                ELSE feature_tensors[t]]
       /\ collected' = [types |-> Cardinality(batch), size |-> nodes(batch),
                        budget |-> budget, whole |-> FALSE]
       /\ pc' = IF rest = {} THEN "edge_rows" ELSE pc
       /\ UNCHANGED <<inputs, node_id_df, edges_final, edge_indices,
                      edge_features, cursor, tensor, edge_type_details>>

\* Mutant: a type that is done stays in the list.
EdgeTypesAgain(keys) == {k \in keys : Len(k) = 3}

\* Step 4. The edge types left to featurize, the large ones first; each group
\* in the order of edge_indices, which is that of the keys.
EdgeTypesLeft(keys) == keys \ DOMAIN edge_features

FirstOf(keys) == CHOOSE k \in keys : \A j \in keys : KeyId(k) <= KeyId(j)
NothingToFeaturize == ~config.edge_features \/ eligible_types = {}

SkipEdgeRows ==
    /\ pc = "edge_rows"
    /\ NothingToFeaturize
    /\ pc' = "assemble"
    /\ UNCHANGED <<inputs, node_id_df, edges_final, edge_indices,
                   feature_tensors, edge_features, cursor, tensor, collected,
                   edge_type_details>>

CollectEdgeRowChunk ==
    LET key == FirstOf(EdgeTypesLeft(large_keys))
        n == EdgeCount(key)
        lo == NextRow(key)
        hi == Smaller(lo + EdgeBudget, n)
        entries == InRange(EdgeEntries(key), lo, hi)
        rows == Scatter(RowsSoFar(key, n), entries)
    IN /\ pc = "edge_rows"
       /\ ~NothingToFeaturize
       /\ EdgeTypesLeft(large_keys) # {}
       /\ collected' = [types |-> 1, size |-> Cardinality(entries),
                        budget |-> EdgeBudget, whole |-> FALSE]
       /\ IF hi < n
          THEN /\ tensor' = [of |-> key, next |-> hi, rows |-> rows]
               /\ UNCHANGED <<edge_features, pc>>
          ELSE /\ tensor' = NoTensor
               /\ edge_features' =
                    [k \in DOMAIN edge_features \cup {key} |->
                        IF k = key THEN rows ELSE edge_features[k]]
               /\ pc' = IF EdgeTypesLeft(eligible_types) = {key}
                        THEN "assemble" ELSE pc
       /\ UNCHANGED <<inputs, node_id_df, edges_final, edge_indices,
                      feature_tensors, cursor, edge_type_details>>

\* Mutant: a batch is capped by its number of types alone.
BatchHoldsTypes(keys) ==
    Cardinality(keys) <= AtLeastOne(config.max_edge_types_per_batch)

\* _collect_small_batches: two caps, and the next type goes in while both hold.
BatchHolds(keys) ==
    \/ Cardinality(keys) = 1
    \/ /\ EdgeTotal(keys) <= EdgeBudget
       /\ Cardinality(keys) <= AtLeastOne(config.max_edge_types_per_batch)

CollectEdgeRowBatch(batch) ==
    LET rest == EdgeTypesLeft(small_keys) \ batch
    IN /\ pc = "edge_rows"
       /\ ~NothingToFeaturize
       /\ EdgeTypesLeft(large_keys) = {}
       /\ \A k \in batch, j \in rest : KeyId(k) < KeyId(j)
       /\ BatchHolds(batch)
       /\ rest # {} => ~BatchHolds(batch \cup {FirstOf(rest)})
       /\ edge_features' =
            [k \in DOMAIN edge_features \cup batch |->
                IF k \in batch THEN Scatter(Zeros(EdgeCount(k)), EdgeEntries(k))
                ELSE edge_features[k]]
       /\ collected' = [types |-> Cardinality(batch), size |-> EdgeTotal(batch),
                        budget |-> EdgeBudget, whole |-> FALSE]
       /\ pc' = IF rest = {} THEN "assemble" ELSE pc
       /\ UNCHANGED <<inputs, node_id_df, edges_final, edge_indices,
                      feature_tensors, cursor, tensor, edge_type_details>>

\* register_edge_types. The flag is kept per relation: of the edge types of
\* one relation the last in edge_indices says it for all.
has_features(rel) ==
    LET keys == {k \in DOMAIN edge_indices : k[2] = rel}
    IN (CHOOSE k \in keys : \A j \in keys : KeyId(j) <= KeyId(k))
         \in DOMAIN edge_features

\* Steps 4 and 5: what the metadata says of the edge types, and the graph.
Assemble ==
    /\ pc = "assemble"
    /\ edge_type_details' =
          [k \in DOMAIN edge_indices |->
              [count |-> Cardinality(DOMAIN edge_indices[k]),
               has_features |-> has_features(k[2])]]
    /\ pc' = "done"
    /\ UNCHANGED <<inputs, node_id_df, edges_final, edge_indices,
                   feature_tensors, edge_features, cursor, tensor, collected>>

Next ==
    \/ MapNodes \/ ResolveEdges \/ CollectEdges
    \/ \E t \in NodeTypes : CollectNodeChunk(t)
    \/ DivideByZero
    \/ \E batch \in (SUBSET NodeTypesLeft) \ {{}} : CollectNodeBatch(batch)
    \/ SkipEdgeRows
    \/ CollectEdgeRowChunk
    \/ \E batch \in (SUBSET EdgeTypesLeft(small_keys)) \ {{}} :
          CollectEdgeRowBatch(batch)
    \/ Assemble

\* A build that has ended stays as it is; any other must have a next step.
Ended == pc \in {"done", "failed"} /\ UNCHANGED vars

Spec == Init /\ [][Next \/ Ended]_vars
(* ----------------------------- properties ------------------------------ *)

Typed == {t.s : t \in type_triples}
NodeAt(t, i) == CHOOSE u \in DOMAIN node_id_df : node_id_df[u] = [type |-> t, id |-> i]
Columns == {c \in EdgeKeys \X (0..Cardinality(edges_final)) :
              c[1] \in DOMAIN edge_indices /\ c[2] \in DOMAIN edge_indices[c[1]]}
Source(c) == NodeAt(c[1][1], edge_indices[c[1]][c[2]][1])
Target(c) == NodeAt(c[1][3], edge_indices[c[1]][c[2]][2])

\* The rows of every node type are numbered without a gap, each for one
\* entity, and every typed entity that the configuration keeps has one: what
\* node_index promises to whoever attaches labels to the graph.
RowsAreEntities ==
    pc \notin {"nodes", "failed"} =>
        /\ DOMAIN node_id_df = Typed
        /\ \A t \in NodeTypes : \A i \in 0..(NodeCount(t) - 1) :
              \E u \in DOMAIN node_id_df : node_id_df[u] = [type |-> t, id |-> i]

\* The finished graph, read back through the node index, says exactly what
\* the triples between typed entities said, each of them once, whatever the
\* chunks the edges were collected in.
GraphIsTheTriples ==
    pc = "done" =>
        /\ {<<Source(c), c[1][2], Target(c)>> : c \in Columns}
             = {<<t.s, RelationOf[t.p], t.o>> :
                  t \in {r \in triples :
                           /\ r.p \notin ExcludedEdge
                           /\ {r.s, r.o} \subseteq Typed
                           /\ \/ config.edge_types = {}
                              \/ RelationOf[r.p] \in config.edge_types}}
        /\ \A c, d \in Columns :
              c[1] = d[1] /\ c # d => edge_indices[c[1]][c[2]] # edge_indices[d[1]][d[2]]

\* Row i of a node type's x was computed from the entity that has number i,
\* whether the type was collected whole, in a batch or in ranges; and row i of
\* an edge type's edge_attr from the two ends of column i of its edge_index,
\* with all their numbers: the ordering contract between EdgeMapper and
\* EdgeFeatureExtractor, and the narrow frames' promise.
RowsBelong ==
    LET Numbers(u, end) == {<<t.p, end, t.o>> : t \in {r \in triples :
                               r.s = u /\ r.p \in Numeric /\ r.o \notin Typed}}
    IN pc = "done" =>
        /\ \A u \in DOMAIN node_id_df :
              LET at == node_id_df[u]
              IN /\ DOMAIN feature_tensors[at.type] = 0..(NodeCount(at.type) - 1)
                 /\ feature_tensors[at.type][at.id]
                      = {<<t.p, t.o>> : t \in {r \in triples : r.s = u}}
        /\ config.edge_features =>
              /\ DOMAIN edge_features = eligible_types
              /\ \A c \in {d \in Columns : d[1] \in eligible_types} :
                    edge_features[c[1]][c[2]]
                      = Numbers(Source(c), "src") \cup Numbers(Target(c), "dst")

\* graph_schema.json says of every edge type whether it has an edge_attr, and
\* the number of its edges, as the graph has them, although the flag is kept
\* per relation and the tensors per edge type.
SchemaIsTrue ==
    pc = "done" =>
        \A k \in DOMAIN edge_indices :
            edge_type_details[k] = [count |-> EdgeCount(k),
                                    has_features |-> k \in DOMAIN edge_features]

\* No collect brings more rows to the driver than its budget. A chunk of
\* edges may exceed it by being one edge type; a feature collect never may.
CollectsAreBounded ==
    collected.size <= collected.budget \/ (collected.whole /\ collected.types = 1)

\* One concept is one node type: no entity is placed under a type all of
\* whose entities are also of a wider type, unless the type is pinned. The
\* premise: no entity has two type URIs with this name.
NoSubclassShard ==
    \A u \in DOMAIN node_id_df :
        LET n == node_id_df[u].type
        IN \/ Priority(n) <= Len(Pinned)
           \/ TypeCount(n) # Cardinality(Carriers(n))
           \/ ~\E m \in NamesOf(u) : /\ Carriers(n) \subseteq Carriers(m)
                                     /\ Carriers(n) # Carriers(m)

\* Every step of a build brings it nearer to its end: it goes on to a later
\* step, or to the next type, or to later rows of the same type. With the
\* absence of deadlock, and finitely many rows, every build ends.
Place(p) == CASE p = "nodes" -> 1 [] p = "edges" -> 2 [] p = "collect_edges" -> 3
              [] p = "node_rows" -> 4 [] p = "edge_rows" -> 5
              [] p = "assemble" -> 6 [] OTHER -> 7
Built == Cardinality(DOMAIN edge_indices) + Cardinality(DOMAIN feature_tensors)
         + Cardinality(DOMAIN edge_features)
StepsAdvance ==
    [][\/ Place(pc') > Place(pc)
       \/ Built' > Built
       \/ Built' = Built /\ tensor'.next > tensor.next]_vars
=============================================================================
