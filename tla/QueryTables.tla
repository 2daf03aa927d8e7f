----------------------------- MODULE QueryTables -----------------------------
(***************************************************************************)
(* graph/tables.py: the query tables, computed from the enriched triples   *)
(* and a node table of their own, and the feeds read beside them. A node   *)
(* is named by its URI wherever the tables give its number: node ids are   *)
(* one to one within a type. N is the node table, node -> node type.       *)
(***************************************************************************)
EXTENDS Triples

CONSTANTS
    TypeRank,                  \* class -> its node type's place in string order
    MetaClasses,               \* of the OWL, RDF and RDFS vocabularies
    PinnedTypes,               \* _CANONICAL_TYPE_PRIORITY, a sequence
    EXCLUDED_EDGE_PREDICATES,
    UnregisteredNames,         \* classes and predicates of no known namespace
    LiteralKinds               \* kinds of value that are not a URI

SnapshotTypes == {"EquitySnapshot", "OptionSnapshot"}
LEFT_OUT_NODE_TYPES == {"CompanyFact"}
SOURCE_DAY_TYPE == "SourceDay"
UNIFIED_DAY_TYPE == "UnifiedDay"

\* NodeMapper with an empty config: the run's own filters do not apply.
build_node_id_table(G) ==
    LET types == {r \in Rel(G, "a") : r[2][2] \notin MetaClasses}
        names == {r[2][2] : r \in types}
        carriers == [c \in names |-> {r[1] : r \in {q \in types : q[2][2] = c}}]
        subsumed == {c \in names : \E d \in names \ {c} :
                        carriers[c] \subseteq carriers[d] /\ carriers[c] # carriers[d]}
        pinned == {PinnedTypes[i] : i \in 1..Len(PinnedTypes)}
        Place(c) == IF c \in pinned THEN CHOOSE i \in 1..Len(PinnedTypes) : PinnedTypes[i] = c
                    ELSE Len(PinnedTypes) + 1
        Contest(c) == <<Place(c), IF c \in subsumed THEN 1 ELSE 0,
                        Cardinality(carriers[c]), TypeRank[c]>>
        Of(u) == {r[2][2] : r \in {q \in types : q[1] = u}}
    IN  [u \in {r[1] : r \in types} |->
            CHOOSE c \in Of(u) : \A d \in Of(u) \ {c} : Before(Contest(c), Contest(d))]

NodesOf(N, types) == {u \in DOMAIN N : N[u] \in types}

resolve_edges(G, N) ==
    {t \in G : t[2] \notin EXCLUDED_EDGE_PREDICATES /\ t[1] \in DOMAIN N /\ t[3] \in DOMAIN N}

\* A plausible slip: a unified day goes with any of its source days.
DaysOfAnyLeftOut(E, N) ==
    LET Daters(d) == {N[t[1]] : t \in {e \in E : e[3] = d}} \ {UNIFIED_DAY_TYPE}
        source == {d \in NodesOf(N, {SOURCE_DAY_TYPE}) :
                      Daters(d) # {} /\ Daters(d) \subseteq LEFT_OUT_NODE_TYPES}
    IN  source \cup {t[1] : t \in {e \in E : e[3] \in source /\ N[e[1]] = UNIFIED_DAY_TYPE}}
\* The source days dated by left-out nodes only, and the unified days that
\* stand for nothing else. An edge from a unified day dates nothing.
days_only_left_out_nodes_dated(E, N) ==
    LET In(d) == {t \in E : t[3] = d}
        Daters(d) == {N[t[1]] : t \in In(d)} \ {UNIFIED_DAY_TYPE}
        source == {d \in NodesOf(N, {SOURCE_DAY_TYPE}) :
                      Daters(d) # {} /\ Daters(d) \subseteq LEFT_OUT_NODE_TYPES}
        StandsFor(u) == {t[3] : t \in {e \in E : e[1] = u /\ e[3] \in NodesOf(N, {SOURCE_DAY_TYPE})}}
        unified == {u \in NodesOf(N, {UNIFIED_DAY_TYPE}) :
                       StandsFor(u) # {} /\ StandsFor(u) \subseteq source}
    IN  source \cup unified

\* The types are left out, and those days; not the snapshots.
kept_node(N, days) == DOMAIN N \ (NodesOf(N, LEFT_OUT_NODE_TYPES) \cup days)

write_edges(E, kept) == {t \in E : t[1] \in kept /\ t[3] \in kept}

\* classify_edge_origin reads it off the predicate and the two types.
count_edge_types(E, N) == {<<N[t[1]], t[2], N[t[3]]>> : t \in E}
check_registered_names(names, allow) == allow \/ names \cap UnregisteredNames = {}

\* What a kept node says that is neither a type, a node nor a URI.
literals(G, kept) ==
    {t \in G : /\ t[2] # "a" /\ t[1] \in kept /\ t[3] \notin kept
               /\ KindOf(t[3]) \in LiteralKinds}
IsSnapshot(N, u) == N[u] \in SnapshotTypes
write_facts(L, N) == {t \in L : ~IsSnapshot(N, t[1])}

\* One row a snapshot and a value a column.
SnapshotColumns(L, N) == {t[2] : t \in {u \in L : IsSnapshot(N, u[1])}}

\* Without the snapshots' and the left-out nodes' own triples, and without
\* any that names a day left out.
store_triples(G, N, days) ==
    {t \in G : /\ t[1] \notin NodesOf(N, SnapshotTypes \cup LEFT_OUT_NODE_TYPES)
               /\ {t[1], t[3]} \cap days = {}}

\* Per capture: the stocks, those with options, the options; the least of
\* each over the captures, and the stocks no company was found for.
market_coverage(G, constituents) ==
    LET Of(c, p) == {r[1] : r \in {q \in Rel(G, "captureTime") : q[1] \in Typed(G, c) /\ q[2] = p}}
        captures == {r[2] : r \in {q \in Rel(G, "captureTime") : q[1] \in TypedAny(G, SnapshotTypes)}}
        Names(us, p) == {r[2] : r \in {q \in Rel(G, p) : q[1] \in us}}
        least(count(_)) == IF captures = {} THEN 0
                           ELSE CHOOSE n \in {count(c) : c \in captures} :
                                    \A c \in captures : n <= count(c)
        Stocks(c) == Cardinality(Of("EquitySnapshot", c))
        Underlyings(c) == Cardinality(Names(Of("OptionSnapshot", c), "underlyingSymbol"))
        Options(c) == Cardinality(Of("OptionSnapshot", c))
        stocks == UNION {Of("EquitySnapshot", c) : c \in captures}
    IN  [constituents |-> constituents, snapshots |-> Cardinality(captures),
         stocks |-> least(Stocks), stocks_with_options |-> least(Underlyings),
         option_rows |-> least(Options),
         stocks_without_company |->
             Names(stocks, "symbol") \ Names(stocks \cap SubjectsOf(G, "refersToCompany"), "symbol")]

\* ------------------------------------------------------------------- feeds
\* A feed's file is [kind, written, rows]. <<>> is no table, <<{}>> an empty one.
\* The month's splits, of a file written since the day began.
read_splits(file, day) ==
    IF file.kind # "rows" \/ file.written < day THEN <<>>
    ELSE <<{r \in file.rows : r.date = day}>>
\* The year's history: the numbers filed that day, except those repeated.
read_companyfacts(file, day) ==
    IF file.kind # "rows" THEN <<>>
    ELSE <<{r \in file.rows : r.date = day /\ r.status # "repeated"}>>
\* The day's files, a minute each (0 when the name gives none); those that
\* cannot be read are passed over unless none can. The first row of a ticker
\* and a minute stands.
read_minute_quotes(files) ==
    LET read == {i \in DOMAIN files : files[i].kind = "rows" /\ files[i].minute > 0}
        Earlier(i, r) == \E j \in read : /\ j < i /\ files[j].minute = files[i].minute
                                        /\ \E q \in files[j].rows : q.ticker = r.ticker
    IN  IF read = {} THEN <<>>
        ELSE <<UNION {{<<r.ticker, files[i].minute, r.quote>> :
                          r \in {q \in files[i].rows : q.ticker # 0 /\ ~Earlier(i, q)}} : i \in read}>>
=============================================================================
