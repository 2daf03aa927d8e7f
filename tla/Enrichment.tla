------------------------------ MODULE Enrichment -----------------------------
(***************************************************************************)
(* pipeline.py and intra_source_linker.py: the phases that add triples to  *)
(* the graph. The linkers of the sources all see the graph as loaded; each *)
(* later phase sees what the earlier ones left. A linker that raises is    *)
(* recorded and passed over, whatever the later phases raise ends the job. *)
(***************************************************************************)
EXTENDS SecLinker, NoaaLinker, BlsLinker, CrossSource, TemporalUnifier,
        Constituents, OntologyMapper, QueryTables

CONSTANTS
    DEFAULT_MARKET_SECTOR_PATTERNS,   \* <<symbol, sector>>
    MAX_LINKER_FAILURES,
    Stores                            \* what the constituents' prefix may hold

\* The links across sources, and the classes of the nodes they meet at.
HubLinks == {"refersToCompany", "affectsRegion", "hasRegion", "withinCensusRegion",
             "belongsToSector", "inEquitySector", "leadsTo", "relatedToEconomicSector",
             "sharesSubIndustryWith", "hasMoneyness", "hasViolationType"}
Hubs == {"GeographicRegion", "CensusRegion", "EconomicSector", "UnifiedCompany"}

\* What the phases name what they add, apart from the tables' own names. No
\* source states a name of theirs, nor is a name of a source's one of theirs.
LinkerPredicates ==
    {"a", "label", "sameAs", "hasCik", "precedes", "hasViolationType", "hasItemNumber",
     "hasConceptName", "affectsSameRegion", "sameEventType", "escalatesTo",
     "hasEventClassification", "eventOfCategory", "belongsToSector", "hasUnderlyingEquity",
     "straddleWith", "callSpreadWith", "putSpreadWith", "strangleWith", "inEquitySector",
     "hasMoneyness"}
TemporalPredicates == {"a", "label", "sameAs", "observedInPeriod", "coversMonth", "coversDay"}
CrossPredicates == {"a", "sameAs", "hasCik", "ticker"} \cup HubLinks
OntologyPredicates ==
    {"equivalentProperty", "equivalentClass", "prefLabel", "subClassOf", "subPropertyOf",
     "domain", "range"}
PhasePredicates ==
    LinkerPredicates \cup TemporalPredicates \cup CrossPredicates \cup OntologyPredicates
    \cup {"observedLiteralDatatype"}
SourcePredicates ==
    {"symbol", "hasIssuerCik", "hasIssuerTradingSymbol", "hasCusip", "captureTime", "hasInfo",
     "hasSentTime", "hasSeverity", "hasUrgency", "hasArea", "hasGeocode", "hasFIPSCode",
     "hasSAMECode", "hasReportingOwner", "hasIssuer", "hasPeriodOfReport", "hasDateValue"}
    \cup {ps[1] : ps \in DatePredicates}
LinkerClasses ==
    {"UnifiedCompany", "UnifiedPerson", "ViolationType", "Form8KItem", "XbrlConcept",
     "EconomicSector", "EquitySector", "Moneyness"}
PhaseClasses == LinkerClasses \cup Hubs \cup {"SourceDay"}
SourceClasses ==
    {"JoltsRegion", "EquitySnapshot", "OptionSnapshot", "WeatherAlert"} \cup FilingTypes

\* The names of the tables are their own: the dates' are the sources', the unified
\* properties, the correlations and the unified measurements are nobody else's.
ASSUME TablesAssumption ==
    /\ PhasePredicates \cap SourcePredicates = {}
    /\ \A m \in PROPERTY_MAPPINGS : m[2] \notin PhasePredicates \cup SourcePredicates
    /\ \A k \in KNOWN_CORRELATIONS : k[3] \notin PhasePredicates \cup SourcePredicates
    /\ \A m \in MeasurementClasses : m[2] \notin PhaseClasses \cup SourceClasses

VARIABLES
    stage,      \* what the driver does next
    job,        \* the run's settings, [sources, day, overrides, ontology, ...]
    graph,      \* triples_df
    new_dfs,    \* spark_new_dfs, the union of them
    failed,     \* the linkers whose stats carry an error
    store       \* the constituents files, key -> file

enrichment == <<graph, new_dfs, failed>>

REGISTERED == <<"bls", "sec", "market", "noaa">>

\* The linkers of the run's specs, in their order; then the union.
LinkersFrom(i) == {j \in i..4 : REGISTERED[j] \in job.sources}
FirstLinker(i) ==
    IF LinkersFrom(i) = {} THEN "union"
    ELSE REGISTERED[CHOOSE j \in LinkersFrom(i) : \A k \in LinkersFrom(i) : j <= k]
NextLinker(name) == FirstLinker(1 + CHOOSE i \in 1..4 : REGISTERED[i] = name)

Reads(columns) == _read_constituents(store, "folder", job.day, columns)

\* What a linker may return for a graph.
LinkerReturns(name, G) ==
    CASE name = "bls" -> BlsEnrichments(G)
      [] name = "sec" -> SecEnrichments(G)
      [] name = "noaa" -> NoaaEnrichments(G)
      [] name = "market" ->
            MarketEnrichments(G, get_sector_patterns(Reads({"symbol", "sector"}),
                                                     DEFAULT_MARKET_SECTOR_PATTERNS))

EnrichIntraSource(name) ==
    /\ stage = name
    /\ \E new \in LinkerReturns(name, graph) : new_dfs' = new_dfs \cup new
    /\ stage' = NextLinker(name)
    /\ UNCHANGED <<job, graph, failed, store>>

LinkerRaises(name) ==
    /\ stage = name
    /\ Cardinality(failed) < MAX_LINKER_FAILURES
    /\ failed' = failed \cup {name}
    /\ stage' = NextLinker(name)
    /\ UNCHANGED <<job, graph, new_dfs, store>>

\* The frame is kept before it is counted: an error while counting is
\* recorded as the linker's, with nothing added, and its triples stay.
CountingRaises(name) ==
    /\ stage = name
    /\ Cardinality(failed) < MAX_LINKER_FAILURES
    /\ failed' = failed \cup {name}
    /\ \E new \in LinkerReturns(name, graph) : new_dfs' = new_dfs \cup new
    /\ stage' = NextLinker(name)
    /\ UNCHANGED <<job, graph, store>>

\* Union and dropDuplicates: the graph is a set.
Settle(new, next) ==
    /\ graph' = graph \cup new
    /\ new_dfs' = {}
    /\ stage' = next
    /\ UNCHANGED <<job, failed, store>>

UnionIntraSource == stage = "union" /\ Settle(new_dfs, "temporal")
UnifyTemporal == stage = "temporal" /\ Settle(TemporalEnrich(graph), "cross")

\* The market source's inputs are read again here, each on its own.
LinkCrossSource ==
    /\ stage = "cross"
    /\ LET market == "market" \in job.sources
           tickers == IF market THEN get_ticker_cik_map(Reads({"symbol", "cik"})) ELSE {}
           subs == IF market THEN get_sub_industries(Reads({"symbol", "sub"})) ELSE {}
       IN  Settle(CrossEnrich(graph, tickers, subs),
                  IF job.ontology THEN "ontology" ELSE "enriched")

MapOntology ==
    /\ stage = "ontology"
    /\ ~MapperFails(graph, job.overrides)
    /\ Settle(OntologyEnrich(graph, job.overrides), "enriched")

\* _assert_is_dag: a --class_mappings that closes a cycle.
OntologyRefused ==
    /\ stage = "ontology"
    /\ MapperFails(graph, job.overrides)
    /\ stage' = "failed"
    /\ UNCHANGED <<job, graph, new_dfs, failed, store>>

\* The constituents are exported again while the run reads them.
StoreChanges ==
    /\ stage \in {REGISTERED[i] : i \in 1..4} \cup {"union", "temporal", "cross"}
    /\ "market" \in job.sources
    /\ store' \in Stores \ {store}
    /\ UNCHANGED <<stage, job, enrichment>>

RunEnrichment ==
    \/ \E i \in 1..4 : \/ EnrichIntraSource(REGISTERED[i])
                       \/ LinkerRaises(REGISTERED[i])
                       \/ CountingRaises(REGISTERED[i])
    \/ UnionIntraSource \/ UnifyTemporal \/ LinkCrossSource
    \/ MapOntology \/ OntologyRefused
    \/ StoreChanges

\* ---------------------------------------------------------------- properties
Enriched == stage = "enriched"
Whole(name) == name \in job.sources \ failed

\* What the chains are drawn over: <<entity, group, instant>>, a group that of
\* one chain and an instant a tuple that sorts. A filing's date is a whole one,
\* or a node's that has one.
Dates(p) ==
    LET named == Rel(graph, p) \cup Via(Rel(graph, p), Rel(graph, "hasDateValue"))
    IN  {<<r[1], DateKey(r[2])>> : r \in {q \in named : KindOf(q[2]) = "date" /\ q[2][4] > 0}}
Instants(p) == {<<r[1], <<r[2][2]>>>> : r \in {q \in Rel(graph, p) : KindOf(q[2]) = "time"}}
InGroup(of, members, dated) ==
    {<<x[1][1], <<of, x[1][2]>>, x[2][2]>> : x \in {x \in members \X dated : x[1][1] = x[2][1]}}
OfClass(R, cs) == {r \in R : r[1] \in TypedAny(graph, cs)}
Chained ==
    (IF ~Whole("sec") THEN {}
     ELSE InGroup("owner", OfClass(Rel(graph, "hasReportingOwner"), {"Form4"}),
                  Dates("hasPeriodOfReport"))
          \cup InGroup("issuer", OfClass(Rel(graph, "hasIssuer"), {"Form8K", "Form10Q", "Form10K"}),
                       Dates("hasPeriodOfReport")))
    \cup (IF ~Whole("market") THEN {}
          ELSE InGroup("symbol", OfClass(Rel(graph, "symbol"), {"EquitySnapshot", "OptionSnapshot"}),
                       Instants("captureTime")))
    \cup (IF ~Whole("noaa") THEN {}
          ELSE InGroup("zone", OfClass(_alert_geocodes(graph), {"WeatherAlert"}),
                       Via(Rel(graph, "hasInfo"), Instants("hasSentTime"))))

\* Every two dated entities of one group are put in one order, and only in
\* one: an entity stated under several dates or in several blocks takes one
\* place in its chain, and no link runs back in time. The linkers number rows,
\* not entities, over joins that repeat them.
ChainsAreTotal ==
    Enriched =>
    LET chain == Rel(graph, "precedes")
        First(e) == CHOOSE k \in {c[3] : c \in {x \in Chained : x[1] = e}} :
                        \A c \in Chained : c[1] = e => ~Before(c[3], k)
        After == [e \in {c[1] : c \in Chained} |-> Reach(chain, e)]
    IN  /\ \A c, d \in Chained : c[1] # d[1] /\ c[2] = d[2] =>
               (d[1] \in After[c[1]]) # (c[1] \in After[d[1]])
        /\ \A r \in chain : {r[1], r[2]} \subseteq DOMAIN After => ~Before(First(r[2]), First(r[1]))

\* What an alert says first: the blocks of its earliest time that rank a
\* severity, and the worst of them.
Spoken(a) ==
    {<<x[1][2], x[2][2][2], x[3][2][2]>> : x \in
        {x \in {r \in Rel(graph, "hasInfo") : r[1] = a}
               \X Rel(graph, "hasSentTime") \X Rel(graph, "hasSeverity") :
            x[1][2] = x[2][1] /\ x[1][2] = x[3][1]}}
SpeaksAt(a) == CHOOSE t \in {s[2] : s \in Spoken(a)} : \A s \in Spoken(a) : t <= s[2]
Worst(a) ==
    LET said == {s \in Spoken(a) : s[2] = SpeaksAt(a)}
    IN  {s \in said : \A q \in said : q[3] <= s[3]}
Severity(a) == CHOOSE s \in {w[3] : w \in Worst(a)} : TRUE
Urgencies(a) ==
    {0} \cup {r[2][2] : r \in {q \in Rel(graph, "hasUrgency") : q[1] \in {w[1] : w \in Worst(a)}}}
Neighbours ==
    LET zones == _alert_geocodes(graph)
        alerts == {a \in Typed(graph, "WeatherAlert") : Spoken(a) # {}}
        In(z) == {a \in alerts : <<a, z>> \in zones}
    IN  UNION {{ab \in In(z) \X In(z) :
                   /\ SpeaksAt(ab[1]) < SpeaksAt(ab[2])
                   /\ \A c \in In(z) : ~(SpeaksAt(ab[1]) <= SpeaksAt(c)
                                         /\ SpeaksAt(c) <= SpeaksAt(ab[2]) /\ c \notin {ab[1], ab[2]})} :
               z \in {x[2] : x \in zones}}

\* An alert escalates to another only when the worst it says rises, or its
\* urgency may; and of two alerts of one zone with none between, a rise in
\* severity is always linked: an alert says a severity in each language and
\* the shuffle must not decide which one is compared.
EscalationIsRealRise ==
    Enriched =>
    LET linked == Rel(graph, "escalatesTo")
    IN  /\ \A r \in linked :
               \/ Severity(r[1]) < Severity(r[2])
               \/ /\ Severity(r[1]) = Severity(r[2])
                  /\ \E u \in Urgencies(r[1]), v \in Urgencies(r[2]) : u < v
        /\ Whole("noaa") => {ab \in Neighbours : Severity(ab[1]) < Severity(ab[2])} \subseteq linked

\* An entity is observed in periods of one grain, the finest any of its dates
\* names, and a date that names no month there is places it nowhere; every
\* source's copy of a day is the same as the one unified day, which a unified
\* month covers.
FinestPeriodOnly ==
    Enriched =>
    LET observed == Rel(graph, "observedInPeriod")
        stated == {<<t[1], AsDate(t[3])>> : t \in
                      {u \in Only(graph, {ps[1] : ps \in DatePredicates}) :
                          KindOf(u[3]) \in {"date", "time"}}}
        Name(d) == IF d[4] > 0 THEN <<d[2], d[3], d[4]>> ELSE <<d[3]>>
        Places(d) == d[3] \in 1..12
        HasDay(e) == \E r \in stated : r[1] = e /\ Places(r[2]) /\ r[2][4] > 0
        days == Typed(graph, "SourceDay")
    IN  /\ \A r \in stated :
               (\E p \in {o[2] : o \in {q \in observed : q[1] = r[1]}} : p[4] = Name(r[2]))
               <=> Places(r[2]) /\ (r[2][4] > 0 \/ ~HasDay(r[1]))
        /\ \A r \in observed : HasDay(r[1]) => r[2] \in days
        /\ \A p \in days :
               \E u \in Typed(graph, "UnifiedDay") :
                   /\ {q[1] : q \in {x \in Rel(graph, "sameAs") : x[2] = p}} = {u}
                   /\ \E m \in Typed(graph, "UnifiedMonth") : <<m, "coversDay", u>> \in graph

\* What a source is linked to across sources is a node of the graph, and no
\* such node is left that nothing but its own description names: the hubs are
\* typed by the steps that link to them, each from its own reading of the graph.
HubsAreConnected ==
    Enriched =>
    LET linked == {<<t[1], t[3]>> : t \in Only(graph, HubLinks \cup {"sameAs"})}
    IN  /\ \A t \in Only(graph, HubLinks) : \E u \in graph : u[1] = t[3] /\ u[2] = "a"
        /\ \A h \in TypedAny(graph, Hubs) : \E r \in linked : h \in {r[1], r[2]}
        /\ \A h \in Typed(graph, "GeographicRegion") : \E r \in linked : r[2] = h /\ r[1] # h

\* A snapshot refers to one company. Where a filing states the symbol it is a
\* company that filing names, whatever the constituents say; and a stock the
\* day's coverage counts as without a company is one neither of them knows.
OneCompanyPerSymbol ==
    Enriched /\ {"sec", "market"} \subseteq _detect_sources(graph) =>
    LET of == Rel(graph, "refersToCompany")
        bearers == symbol_bearers(graph)
        Stated(y) == UNION {{Company(c[2]) : c \in {d \in issuer_ciks(graph) : d[1] = r[1]}} :
                            r \in {q \in Rel(graph, "hasIssuerTradingSymbol") : equity_symbol(q[2]) = y}}
        known == {r[1] : r \in get_ticker_cik_map(Reads({"symbol", "cik"}))}
    IN  /\ \A b \in bearers : Cardinality({r \in of : r[1] = b[1]}) <= 1
        /\ \A b \in bearers : \A r \in of :
               r[1] = b[1] /\ Stated(b[2]) # {} => r[2] \in Stated(b[2])
        /\ \A y \in market_coverage(graph, {}).stocks_without_company :
               Stated(y) = {} /\ y \notin known

\* No class is under itself, over the hierarchy the mapper writes: it is read
\* off the class names of the day and the mappings the run was given together.
HierarchyHasNoCircle ==
    Enriched =>
    LET under == Rel(graph, "subClassOf") IN \A r \in under : r[1] \notin Reach(under, r[1])
=============================================================================
