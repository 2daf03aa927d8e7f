--------------------------- MODULE OntologyMapper ----------------------------
(***************************************************************************)
(* ontology_mapper.py: equivalences and hierarchies over the vocabulary,   *)
(* and what is read off the graph itself: the folded predicates, the       *)
(* preferred labels, the domains and the ranges.                           *)
(***************************************************************************)
EXTENDS Triples, SequencesExt

CONSTANTS
    CLASS_MAPPINGS,      \* <<class, unified class>>, one target a class
    PROPERTY_MAPPINGS,   \* <<predicate, unified predicate>>
    ClassName,           \* class -> <<namespace, words of its local name>>
    NotData              \* _NOT_A_DATA_PREDICATE

ASSUME ClassesAssumption == IsFiniteSet(CLASS_MAPPINGS) /\ IsFiniteSet(DOMAIN ClassName)

Negating == {"Less", "Excluding", "Without", "Except"}
C(c) == <<"class", c>>
P(p) == <<"property", p>>

\* overrides: <<class, target>>, "" to drop the class.
resolve_class_mappings(overrides) ==
    LET said == {o[1] : o \in overrides}
    IN  {m \in CLASS_MAPPINGS : m[1] \notin said} \cup {o \in overrides : o[2] # ""}

\* A target of several is wider than each; of one, the same.
partition_shared_targets(mappings) ==
    LET shared == {m \in mappings : \E n \in mappings : n # m /\ n[2] = m[2]}
    IN  [wider |-> shared, same |-> mappings \ shared]

\* A level or a rate is under its dataset's data, a class under one of its
\* namespace whose name ends its own, unless what comes before negates it.
derive_subclass_edges(classes) ==
    LET Ns(c) == ClassName[c][1]
        Words(c) == ClassName[c][2]
        Measure(c, d) == /\ Last(Words(c)) \in {"Level", "Rate"}
                         /\ Words(d) = Front(Words(c)) \o <<"Data">>
        Ends(c, d) == /\ IsSuffix(Words(d), Words(c)) /\ c # d
                      /\ ToSet(SubSeq(Words(c), 1, Len(Words(c)) - Len(Words(d)))) \cap Negating = {}
    IN  {cd \in classes \X classes :
            Ns(cd[1]) = Ns(cd[2]) /\ (Measure(cd[1], cd[2]) \/ Ends(cd[1], cd[2]))}

_assert_is_dag(edges) == \A e \in edges : e[1] \notin Reach(edges, e[1])

ClassEdges(G, overrides) ==
    partition_shared_targets(resolve_class_mappings(overrides)).wider
    \cup derive_subclass_edges({c[2] : c \in ObjectsOf(G, "a")} \cap DOMAIN ClassName)
_derive_class_hierarchy(G, overrides) ==
    {<<C(e[1]), "subClassOf", C(e[2])>> : e \in ClassEdges(G, overrides)}
_create_class_equivalences(overrides) ==
    {<<C(m[1]), "equivalentClass", C(m[2])>> :
        m \in partition_shared_targets(resolve_class_mappings(overrides)).same}
_derive_property_hierarchy ==
    {<<P(m[1]), "subPropertyOf", P(m[2])>> : m \in partition_shared_targets(PROPERTY_MAPPINGS).wider}
_create_property_equivalences ==
    {<<P(m[1]), "equivalentProperty", P(m[2])>> :
        m \in partition_shared_targets(PROPERTY_MAPPINGS).same}

\* Every triple of a mapped predicate, again under the unified one.
_fold_predicates_to_unified(G) ==
    UNION {{<<t[1], m[2], t[3]>> : t \in Only(G, {m[1]})} : m \in PROPERTY_MAPPINGS}
_normalize_labels(G) ==
    {<<r[1], "prefLabel", r[2]>> : r \in {q \in Rel(G, "label") : q[1] \notin SubjectsOf(G, "prefLabel")}}

\* <<predicate, class>> of the typed subjects, or objects, of the data.
Observed(G, i) ==
    UNION {{<<t[2], y[2]>> : y \in {r[2] : r \in {q \in Rel(G, "a") : q[1] = t[i]}}} :
           t \in {u \in G : u[2] \notin NotData}}
\* Where only one was observed.
derive_domain_edges(observed) ==
    {o \in observed : \A q \in observed : q[1] = o[1] => q = o}
_derive_property_schema(G) ==
    LET datatypes == {<<r[1][2], r[2][2]>> : r \in Rel(G, "observedLiteralDatatype")}
    IN  {<<P(d[1]), "domain", C(d[2])>> : d \in derive_domain_edges(Observed(G, 1))}
        \cup {<<P(d[1]), "range", C(d[2])>> : d \in derive_domain_edges(Observed(G, 3) \cup datatypes)}

\* A plausible slip: the mappings are looked at before the names are.
MapperFailsOnMappings(G, overrides) ==
    ~(_assert_is_dag(partition_shared_targets(resolve_class_mappings(overrides)).wider)
      /\ _assert_is_dag(partition_shared_targets(PROPERTY_MAPPINGS).wider))
MapperFails(G, overrides) ==
    ~(_assert_is_dag(ClassEdges(G, overrides))
      /\ _assert_is_dag(partition_shared_targets(PROPERTY_MAPPINGS).wider))
OntologyEnrich(G, overrides) ==
    _create_property_equivalences \cup _create_class_equivalences(overrides)
    \cup _fold_predicates_to_unified(G) \cup _normalize_labels(G)
    \cup _derive_class_hierarchy(G, overrides) \cup _derive_property_hierarchy
    \cup _derive_property_schema(G)
=============================================================================
