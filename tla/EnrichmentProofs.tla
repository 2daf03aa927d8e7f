-------------------------- MODULE EnrichmentProofs --------------------------
(***************************************************************************)
(* What the enrichment leaves in the graph, for any documents, any order   *)
(* the linkers may take their rows in, any linker that raises and any      *)
(* constituents that change meanwhile. The first part says, of each stage, *)
(* what the graph is made of; the others are about graphs alone, one lemma *)
(* for each phase, and speak of no step.                                   *)
(***************************************************************************)
EXTENDS GraphJobProofs, FiniteSetTheorems

Loaded == load_source_triples(job)

\* What one linker may give for the loaded triples, with whatever constituents.
MayGive(L, new) ==
    \/ new \in BlsEnrichments(L) \/ new \in SecEnrichments(L) \/ new \in NoaaEnrichments(L)
    \/ \E tickers : new \in MarketEnrichments(L, tickers)

\* The loaded triples, with what linkers gave: each of those came with all the
\* triples of its linker.
FromLinkers(L, G) ==
    /\ L \subseteq G
    /\ \A t \in G : t \in L \/ \E new : MayGive(L, new) /\ t \in new /\ new \subseteq G

TickersOfRun == IF "market" \in job.sources THEN get_ticker_cik_map(Reads({"symbol", "cik"})) ELSE {}
SubsOfRun == IF "market" \in job.sources THEN get_sub_industries(Reads({"symbol", "sub"})) ELSE {}

AfterLinkers(G) == FromLinkers(Loaded, G)
AfterTemporal(G) == \E H : AfterLinkers(H) /\ G = H \cup TemporalEnrich(H)
AfterCross(G) == \E H : AfterTemporal(H) /\ G = H \cup CrossEnrich(H, TickersOfRun, SubsOfRun)
AfterOntology(G) ==
    \/ AfterCross(G)
    \/ \E H : /\ AfterCross(H) /\ ~MapperFails(H, job.overrides)
              /\ G = H \cup OntologyEnrich(H, job.overrides)

PhaseInv ==
    /\ stage \in {Idle, "occupancy", "load", "temporal", "cross", "ontology", "enriched"} => new_dfs = {}
    /\ stage \in LinkStages => graph = Loaded /\ AfterLinkers(graph \cup new_dfs)
    /\ stage = "temporal" => AfterLinkers(graph)
    /\ stage = "cross" => AfterTemporal(graph)
    /\ stage = "ontology" => AfterCross(graph)
    /\ stage = "enriched" => AfterOntology(graph)

\* A linker's triples are added all together, or none of them.
LEMMA OneMore ==
  ASSUME NEW L, NEW G, FromLinkers(L, G), NEW new, MayGive(L, new)
  PROVE  FromLinkers(L, G \cup new)
  <1>1. L \subseteq G \cup new
    BY DEF FromLinkers
  <1>2. ASSUME NEW t \in G \cup new, t \notin L
        PROVE  \E n : MayGive(L, n) /\ t \in n /\ n \subseteq G \cup new
    <2>1. CASE t \in new
      BY <2>1
    <2>2. CASE t \in G
      <3>1. PICK n : MayGive(L, n) /\ t \in n /\ n \subseteq G
        BY <1>2, <2>2 DEF FromLinkers
      <3> QED
        BY <3>1
    <2> QED
      BY <2>1, <2>2
  <1> QED
    BY <1>1, <1>2 DEF FromLinkers

LEMMA ReturnsMayBeGiven ==
  ASSUME NEW i \in 1..4, NEW new \in LinkerReturns(REGISTERED[i], graph)
  PROVE  MayGive(graph, new)
  <1>1. REGISTERED[i] \in {"bls", "sec", "market", "noaa"}
    BY DEF REGISTERED
  <1>2. CASE REGISTERED[i] = "market"
    BY <1>2 DEF LinkerReturns, MayGive
  <1>3. CASE REGISTERED[i] # "market"
    BY <1>1, <1>3 DEF LinkerReturns, MayGive
  <1> QED
    BY <1>2, <1>3

\* A linker's step, whether or not it raises or is counted.
LEMMA LinkerStep ==
  ASSUME PhaseInv, NEW i \in 1..4,
         \/ EnrichIntraSource(REGISTERED[i]) \/ LinkerRaises(REGISTERED[i])
         \/ CountingRaises(REGISTERED[i])
  PROVE  PhaseInv'
  <1>1. stage = REGISTERED[i] /\ stage' = NextLinker(REGISTERED[i]) /\ UNCHANGED <<job, graph>>
    BY DEF EnrichIntraSource, LinkerRaises, CountingRaises
  <1>2. stage \in LinkStages
    BY <1>1 DEF REGISTERED, LinkStages
  <1>3. stage' \in LinkStages
    BY <1>1, NextStages
  <1>4. graph = Loaded /\ AfterLinkers(graph \cup new_dfs)
    BY <1>2 DEF PhaseInv
  <1>5. \/ new_dfs' = new_dfs
        \/ \E new \in LinkerReturns(REGISTERED[i], graph) : new_dfs' = new_dfs \cup new
    BY DEF EnrichIntraSource, LinkerRaises, CountingRaises
  <1>6. AfterLinkers(graph \cup new_dfs')
    <2>1. CASE new_dfs' = new_dfs
      BY <1>4, <2>1
    <2>2. ASSUME NEW new \in LinkerReturns(REGISTERED[i], graph), new_dfs' = new_dfs \cup new
          PROVE  AfterLinkers(graph \cup new_dfs')
      <3>1. MayGive(Loaded, new)
        BY <1>4, ReturnsMayBeGiven
      <3>2. FromLinkers(Loaded, (graph \cup new_dfs) \cup new)
        BY <1>4, <3>1, OneMore DEF AfterLinkers
      <3>3. (graph \cup new_dfs) \cup new = graph \cup new_dfs'
        BY <2>2
      <3> QED
        BY <3>2, <3>3 DEF AfterLinkers
    <2> QED
      BY <1>5, <2>1, <2>2
  <1>7. Loaded' = Loaded /\ graph' = graph
    BY <1>1 DEF Loaded
  <1>8. graph' = Loaded' /\ AfterLinkers(graph \cup new_dfs)'
    BY <1>4, <1>6, <1>7 DEF AfterLinkers
  <1> QED
    BY <1>3, <1>8 DEF PhaseInv, LinkStages, Idle

\* The phases after the linkers, each over what the one before left.
LEMMA PhaseStep ==
  ASSUME PhaseInv, UnionIntraSource \/ UnifyTemporal \/ LinkCrossSource \/ MapOntology \/ OntologyRefused
  PROVE  PhaseInv'
  <1>1. CASE UnionIntraSource
    <2>1. /\ stage = "union" /\ stage' = "temporal" /\ job' = job
          /\ graph' = graph \cup new_dfs /\ new_dfs' = {}
      BY <1>1 DEF UnionIntraSource, Settle
    <2>2. AfterLinkers(graph')
      BY <2>1 DEF PhaseInv, LinkStages
    <2>3. AfterLinkers(graph)'
      BY <2>1, <2>2 DEF AfterLinkers, Loaded
    <2> QED
      BY <2>1, <2>3 DEF PhaseInv, LinkStages, Idle
  <1>2. CASE UnifyTemporal
    <2>1. /\ stage = "temporal" /\ stage' = "cross" /\ job' = job
          /\ graph' = graph \cup TemporalEnrich(graph) /\ new_dfs' = {}
      BY <1>2 DEF UnifyTemporal, Settle
    <2>2. AfterLinkers(graph)
      BY <2>1 DEF PhaseInv
    <2>3. AfterTemporal(graph)'
      BY <2>1, <2>2 DEF AfterTemporal, AfterLinkers, Loaded
    <2> QED
      BY <2>1, <2>3 DEF PhaseInv, LinkStages, Idle
  <1>3. CASE LinkCrossSource
    <2>1. /\ stage = "cross" /\ stage' \in {"ontology", "enriched"} /\ UNCHANGED <<job, store>>
          /\ graph' = graph \cup CrossEnrich(graph, TickersOfRun, SubsOfRun) /\ new_dfs' = {}
      BY <1>3 DEF LinkCrossSource, Settle, TickersOfRun, SubsOfRun
    <2>2. AfterTemporal(graph)
      BY <2>1 DEF PhaseInv
    <2>3. TickersOfRun' = TickersOfRun /\ SubsOfRun' = SubsOfRun
      BY <2>1 DEF TickersOfRun, SubsOfRun, Reads
    <2>4. AfterCross(graph)'
      BY <2>1, <2>2, <2>3 DEF AfterCross, AfterTemporal, AfterLinkers, Loaded
    <2> QED
      BY <2>1, <2>4 DEF PhaseInv, LinkStages, Idle, AfterOntology
  <1>4. CASE MapOntology
    <2>1. /\ stage = "ontology" /\ stage' = "enriched" /\ UNCHANGED <<job, store>>
          /\ graph' = graph \cup OntologyEnrich(graph, job.overrides) /\ new_dfs' = {}
          /\ ~MapperFails(graph, job.overrides)
      BY <1>4 DEF MapOntology, Settle
    <2>2. AfterCross(graph)
      BY <2>1 DEF PhaseInv
    <2>3. TickersOfRun' = TickersOfRun /\ SubsOfRun' = SubsOfRun
      BY <2>1 DEF TickersOfRun, SubsOfRun, Reads
    <2>4. AfterOntology(graph)'
      BY <2>1, <2>2, <2>3 DEF AfterOntology, AfterCross, AfterTemporal, AfterLinkers, Loaded
    <2> QED
      BY <2>1, <2>4 DEF PhaseInv, LinkStages, Idle
  <1>5. CASE OntologyRefused
    BY <1>5 DEF OntologyRefused, PhaseInv, LinkStages, Idle
  <1> QED
    BY <1>1, <1>2, <1>3, <1>4, <1>5

\* The constituents change while nothing read of them is in the graph's making.
LEMMA StoreStep ==
  ASSUME PhaseInv, StoreChanges
  PROVE  PhaseInv'
  <1>1. stage' = stage /\ UNCHANGED <<job, graph, new_dfs>>
    BY DEF StoreChanges, enrichment
  <1>2. stage \in LinkStages \cup {"temporal", "cross"}
    BY DEF StoreChanges, REGISTERED, LinkStages
  <1>3. Loaded' = Loaded
    BY <1>1 DEF Loaded
  <1> QED
    BY <1>1, <1>2, <1>3 DEF PhaseInv, LinkStages, Idle, AfterTemporal, AfterLinkers

\* The steps outside the enrichment: they load the graph, clear it or leave it.
LEMMA JobStep ==
  ASSUME PhaseInv, RunJob
  PROVE  PhaseInv'
  <1>1. ASSUME NEW s, ParseArgs(Settings[s])
        PROVE  PhaseInv'
    BY <1>1 DEF ParseArgs, enrichment, PhaseInv, LinkStages, Idle
  <1>2. CASE check_work_dir_occupancy
    BY <1>2 DEF check_work_dir_occupancy, enrichment, PhaseInv, LinkStages, Idle
  <1>3. CASE LoadSourceTriples
    <2>1. stage = "load" /\ UNCHANGED <<job, new_dfs>> /\ new_dfs = {}
      BY <1>3 DEF LoadSourceTriples, PhaseInv
    <2>2. CASE stage' \in {"failed", "manifest"}
      BY <2>2 DEF PhaseInv, LinkStages, Idle
    <2>3. CASE stage' = FirstLinker(1) /\ graph' = Loaded
      <3>1. stage' \in LinkStages
        BY <2>3, LinkerStages
      <3>2. FromLinkers(Loaded, Loaded \cup {})
        BY DEF FromLinkers
      <3>3. Loaded' = Loaded /\ new_dfs' = {}
        BY <2>1 DEF Loaded
      <3>4. AfterLinkers(graph \cup new_dfs)'
        BY <2>3, <3>2, <3>3 DEF AfterLinkers
      <3> QED
        BY <2>3, <3>1, <3>3, <3>4 DEF PhaseInv, LinkStages, Idle
    <2> QED
      <3>1. LET loaded == IF ColumnsAreThere(job) THEN Loaded ELSE {}
            IN  /\ graph' = loaded
                /\ stage' = IF loaded = {} THEN "failed"
                            ELSE IF job.mode = "parse_only" THEN "manifest" ELSE FirstLinker(1)
        BY <1>3 DEF LoadSourceTriples, Loaded
      <3> HIDE DEF Loaded
      <3> QED
        BY <2>2, <2>3, <3>1
  <1>4. CASE SaveEnrichedParquet \/ SaveDatasetDescriptor \/ DescriptorLost
    BY <1>4 DEF SaveEnrichedParquet, SaveDatasetDescriptor, DescriptorLost, Write, TablesOrNot,
       enrichment, PhaseInv, LinkStages, Idle
  <1>5. CASE LoadDatasetDescriptor \/ LoadEnrichedParquet
    BY <1>5 DEF LoadDatasetDescriptor, LoadEnrichedParquet, enrichment, PhaseInv, LinkStages, Idle
  <1>6. CASE WriteNodes \/ WriteEdges \/ WriteLiterals \/ WriteGraphStore \/ WriteFeeds
    <2>1. stage' \in TableStages \cup {"failed", "build", "manifest"}
      BY <1>6 DEF WriteNodes, WriteEdges, WriteLiterals, WriteGraphStore, WriteFeeds, Write, TableStages
    <2> QED
      BY <2>1 DEF PhaseInv, LinkStages, Idle, TableStages
  <1>7. CASE Build
    BY <1>7 DEF Build, PhaseInv, LinkStages, Idle
  <1>8. CASE SavePyg
    BY <1>8 DEF SavePyg, Write, PhaseInv, LinkStages, Idle
  <1>9. ASSUME NEW i \in 1..7, SaveArtifact(i)
        PROVE  PhaseInv'
    <2>1. stage' \in GraphFiles \cup {"manifest"}
      BY <1>9 DEF SaveArtifact, Write, AfterArtifact, ArtifactsInOrder, GraphFiles
    <2> QED
      BY <2>1 DEF PhaseInv, LinkStages, Idle, GraphFiles
  <1>10. CASE SaveJobManifest \/ JobEnds
    BY <1>10 DEF SaveJobManifest, JobEnds, Cleared, PhaseInv, LinkStages, Idle
  <1> QED
    BY <1>1, <1>2, <1>3, <1>4, <1>5, <1>6, <1>7, <1>8, <1>9, <1>10 DEF RunJob

LEMMA StutterPhase ==
  ASSUME PhaseInv, UNCHANGED vars
  PROVE  PhaseInv'
  <1>1. UNCHANGED <<stage, job, graph, new_dfs, store>>
    BY DEF vars, enrichment
  <1>2. Loaded' = Loaded /\ TickersOfRun' = TickersOfRun /\ SubsOfRun' = SubsOfRun
    BY <1>1 DEF Loaded, TickersOfRun, SubsOfRun, Reads
  <1> QED
    BY <1>1, <1>2 DEF PhaseInv, AfterOntology, AfterCross, AfterTemporal, AfterLinkers

\* Whatever job runs, an enriched graph is the loaded triples, with what linkers
\* gave for them, and what each later phase adds to what it found.
THEOREM GraphIsMadeInPhases == Spec => []PhaseInv
  <1>1. Init => PhaseInv
    BY DEF Init, PhaseInv, LinkStages, Idle
  <1>2. PhaseInv /\ [Next]_vars => PhaseInv'
    <2> SUFFICES ASSUME PhaseInv, [Next]_vars PROVE PhaseInv'
      OBVIOUS
    <2> QED
      BY JobStep, LinkerStep, PhaseStep, StoreStep, StutterPhase DEF Next, EnrichGraph, RunEnrichment
  <1> QED
    BY <1>1, <1>2, PTL DEF Spec

----------------------------------------------------------------------------
(* The hubs.                                                               *)

SourcesSpeakForThemselves == \A t \in Loaded : IsOfASource(t)

JobIsGiven ==
    stage # Idle =>
       \E s \in DOMAIN Settings : job = JobConfig(Settings[s]) /\ ~JobConfigRefuses(Settings[s])

\* The job that runs is of the settings, from its start to its end.
LEMMA StepJob == QueueOfSettings /\ JobIsGiven /\ [Next]_vars => JobIsGiven'
  <1> SUFFICES ASSUME QueueOfSettings, JobIsGiven, [Next]_vars PROVE JobIsGiven'
    OBVIOUS
  <1>1. ASSUME NEW s \in IF queue = << >> THEN {} ELSE Head(queue), ParseArgs(Settings[s])
        PROVE  JobIsGiven'
    <2>1. s \in DOMAIN Settings
      BY <1>1 DEF QueueOfSettings
    <2> QED
      BY <1>1, <2>1 DEF ParseArgs, JobIsGiven
  <1>2. CASE JobEnds \/ SaveJobManifest
    BY <1>2 DEF JobEnds, SaveJobManifest, Cleared, JobIsGiven
  <1>3. CASE stage # Idle /\ job' = job
    BY <1>3 DEF JobIsGiven
  <1>4. CASE RunJob /\ ~(\E s \in IF queue = << >> THEN {} ELSE Head(queue) : ParseArgs(Settings[s]))
                    /\ ~(JobEnds \/ SaveJobManifest)
    <2>1. check_work_dir_occupancy \/ LoadSourceTriples \/ SaveEnrichedParquet
          \/ SaveDatasetDescriptor \/ DescriptorLost => stage # Idle /\ job' = job
      BY DEF check_work_dir_occupancy, LoadSourceTriples, SaveEnrichedParquet,
         SaveDatasetDescriptor, DescriptorLost, Idle
    <2>2. LoadDatasetDescriptor \/ LoadEnrichedParquet \/ WriteNodes \/ WriteEdges
          \/ WriteLiterals \/ WriteGraphStore \/ WriteFeeds => stage # Idle /\ job' = job
      BY DEF LoadDatasetDescriptor, LoadEnrichedParquet, WriteNodes, WriteEdges, WriteLiterals,
         WriteGraphStore, WriteFeeds, Idle
    <2>3. Build \/ SavePyg => stage # Idle /\ job' = job
      BY DEF Build, SavePyg, Idle
    <2>4. \A i \in 1..7 : SaveArtifact(i) => stage # Idle /\ job' = job
      BY DEF SaveArtifact, ArtifactsInOrder, Idle
    <2> QED
      BY <1>3, <1>4, <2>1, <2>2, <2>3, <2>4 DEF RunJob
  <1>5. CASE EnrichGraph
    <2>1. stage # Idle /\ job' = job
      BY <1>5 DEF EnrichGraph, RunEnrichment, EnrichIntraSource, LinkerRaises, CountingRaises,
         UnionIntraSource, UnifyTemporal, LinkCrossSource, MapOntology, OntologyRefused,
         StoreChanges, Settle, REGISTERED, Idle
    <2> QED
      BY <1>3, <2>1
  <1>6. CASE UNCHANGED vars
    BY <1>6 DEF vars, JobIsGiven
  <1> QED
    BY <1>1, <1>2, <1>4, <1>5, <1>6 DEF Next, RunJob

\* Padding an identifier leaves what it is not of the phases' making.
LEMMA PaddingStaysASources ==
  ASSUME NEW t, IsOfASource(t)
  PROVE  IsOfASource(<<_canonical_cik_uri(t[1]), t[2], _canonical_identifier_literal(t[2], t[3])>>)
  <1> DEFINE Padded == {"cik", "cusip", "zip", "issuer", "owner"}
             x == _canonical_cik_uri(t[1])
             y == _canonical_identifier_literal(t[2], t[3])
  <1>1. x = t[1] \/ KindOf(x) \in Padded
    BY DEF _canonical_cik_uri, CIK_KEYED_KINDS, KindOf
  <1>2. y = t[3] \/ (KindOf(y) \in Padded /\ \A c : y # <<"class", c>>)
    <2>1. \A k, n : k \in Padded => KindOf(<<k, n>>) \in Padded /\ \A c : <<k, n>> # <<"class", c>>
      BY DEF KindOf
    <2>2. \A p, k : <<p, k>> \in PADDED_IDENTIFIERS => k \in Padded
      BY DEF PADDED_IDENTIFIERS
    <2> QED
      BY <2>1, <2>2 DEF _canonical_identifier_literal, _canonical_cik_uri, CIK_KEYED_KINDS
  <1>3. Padded \cap (MintedKinds \cup {"date", "time"}) = {}
    BY DEF MintedKinds
  <1> HIDE DEF x, y, Padded
  <1>4. IsOfASource(<<x, t[2], y>>)
    BY <1>1, <1>2, <1>3 DEF IsOfASource
  <1> QED
    BY <1>4 DEF x, y

\* What is loaded is as the documents say it, but for the padding and the
\* datatypes of the literals.
LEMMA LoadedIsTheSources ==
  ASSUME JobIsGiven, stage # Idle
  PROVE  SourcesSpeakForThemselves
  <1>1. PICK s \in DOMAIN Settings : job = JobConfig(Settings[s])
    BY DEF JobIsGiven
  <1>2. job.paths = Settings[s].paths
    BY <1>1, SettingsAssumption DEF JobConfig
  <1> DEFINE Of(p) == canonicalize_source_triples(
                          UNION {turtle_rows_or_skip(d) : d \in p.docs}, match_path(p))
             rows == UNION {Of(p) : p \in job.paths}
  <1>3. Loaded = {r.t : r \in rows} \cup literal_datatype_observations(rows)
    BY DEF Loaded, load_source_triples
  <1>4. ASSUME NEW p \in job.paths, NEW q \in Of(p)
        PROVE  IsOfASource(q.t)
    <2> DEFINE read == UNION {turtle_rows_or_skip(d) : d \in p.docs}
    <2>1. ASSUME NEW r \in read
          PROVE  "t" \in DOMAIN r /\ IsOfASource(r.t)
      <3>1. PICK d \in p.docs : r \in d.rows
        BY DEF turtle_rows_or_skip
      <3> QED
        BY <1>2, <3>1, VocabulariesAssumption
    <2> HIDE DEF read
    <2>2. q \in canonicalize_source_triples(read, match_path(p))
      BY DEF read
    <2>3. CASE q \in read
      BY <2>1, <2>3
    <2>4. ASSUME NEW r \in read,
                 q = [r EXCEPT !.t = <<_canonical_cik_uri(@[1]), @[2],
                                       _canonical_identifier_literal(@[2], @[3])>>]
          PROVE  IsOfASource(q.t)
      <3>1. q.t = <<_canonical_cik_uri(r.t[1]), r.t[2], _canonical_identifier_literal(r.t[2], r.t[3])>>
        BY <2>1, <2>4
      <3> QED
        BY <2>1, <3>1, PaddingStaysASources
    <2> QED
      BY <2>2, <2>3, <2>4 DEF canonicalize_source_triples
  <1> HIDE DEF Of, rows
  <1>5. ASSUME NEW t \in literal_datatype_observations(rows)
        PROVE  IsOfASource(t)
    <2>1. \E c, d : t = <<P(c), "observedLiteralDatatype", C(d)>>
      BY DEF literal_datatype_observations
    <2>2. t[2] = "observedLiteralDatatype" /\ KindOf(t[1]) = "property"
      BY <2>1 DEF P, KindOf
    <2>3. "observedLiteralDatatype" \notin {ps[1] : ps \in DatePredicates}
      BY TablesAssumption DEF PhasePredicates, SourcePredicates
    <2> QED
      BY <2>2, <2>3 DEF IsOfASource, MintedKinds, HubLinks
  <1>6. ASSUME NEW t \in {r.t : r \in rows}
        PROVE  IsOfASource(t)
    <2>1. PICK q \in rows : t = q.t
      OBVIOUS
    <2>2. PICK p \in job.paths : q \in Of(p)
      BY DEF rows
    <2> QED
      BY <1>4, <2>1, <2>2
  <1> QED
    BY <1>3, <1>5, <1>6 DEF SourcesSpeakForThemselves

\* No table's name is a link's or a class's of the hubs, nor what the alerts say.
LEMMA TablesAreApart ==
  /\ \A m \in PROPERTY_MAPPINGS : m[2] \notin HubLinks \cup {"a", "hasInfo"}
  /\ \A k \in KNOWN_CORRELATIONS : k[3] \notin HubLinks \cup {"a", "hasInfo"}
  /\ \A m \in MeasurementClasses : m[2] \notin Hubs
  <1>1. HubLinks \cup {"a", "hasInfo"} \subseteq PhasePredicates \cup SourcePredicates
    BY DEF PhasePredicates, CrossPredicates, SourcePredicates
  <1>2. Hubs \subseteq PhaseClasses
    BY DEF PhaseClasses
  <1> QED
    BY <1>1, <1>2, TablesAssumption

\* Every correlation links under its own name.
LEMMA CorrelationsWrite ==
  ASSUME NEW B, NEW t \in _apply_known_correlations(B)
  PROVE  \E k \in KNOWN_CORRELATIONS : t[2] = k[3]
  <1>1. PICK k \in KNOWN_CORRELATIONS : \E a, b : t = <<a, k[3], b>>
    BY DEF _apply_known_correlations
  <1> QED
    BY <1>1

HubClasses == {<<"class", c>> : c \in Hubs}
Joins == HubLinks \cup {"sameAs"}

\* What is linked to has a type, and what is typed a hub is linked.
LinkIsTyped(t, G) == t[2] \in HubLinks => \E u \in G : u[1] = t[3] /\ u[2] = "a"
HubIsJoined(t, G) ==
    t[2] = "a" /\ t[3] \in HubClasses => \E u \in G : u[2] \in Joins /\ (u[1] = t[1] \/ u[3] = t[1])
RegionIsPointedAt(t, G) ==
    t[2] = "a" /\ t[3] = <<"class", "GeographicRegion">> =>
        \E u \in G : u[2] \in Joins /\ u[3] = t[1] /\ u[1] # t[1]
Answered(X, G) ==
    \A t \in X : /\ LinkIsTyped(t, G) /\ HubIsJoined(t, G) /\ RegionIsPointedAt(t, G)
                 /\ t[2] = "hasInfo" => KindOf(t[1]) # "region"

\* A triple that is neither a link to a hub nor the type of one.
Plain(X) ==
    \A t \in X : /\ t[2] \notin HubLinks /\ t[2] # "hasInfo"
                 /\ t[2] = "a" => t[3] \notin HubClasses

LEMMA PlainIsAnswered ==
  ASSUME NEW X, NEW G, Plain(X)
  PROVE  Answered(X, G)
  BY DEF Plain, Answered, LinkIsTyped, HubIsJoined, RegionIsPointedAt, HubClasses, Hubs

\* What answers a triple goes on answering it in a larger graph.
LEMMA AnswersStay ==
  ASSUME NEW X, NEW G, NEW H, Answered(X, G), G \subseteq H
  PROVE  Answered(X, H)
  <1>1. ASSUME NEW t \in X
        PROVE  /\ LinkIsTyped(t, H) /\ HubIsJoined(t, H) /\ RegionIsPointedAt(t, H)
               /\ t[2] = "hasInfo" => KindOf(t[1]) # "region"
    <2>1. /\ LinkIsTyped(t, G) /\ HubIsJoined(t, G) /\ RegionIsPointedAt(t, G)
          /\ t[2] = "hasInfo" => KindOf(t[1]) # "region"
      BY DEF Answered
    <2> QED
      BY <2>1 DEF LinkIsTyped, HubIsJoined, RegionIsPointedAt
  <1> QED
    BY <1>1 DEF Answered

LEMMA AnswersJoin ==
  ASSUME NEW X, NEW Y, NEW G, Answered(X, G), Answered(Y, G)
  PROVE  Answered(X \cup Y, G)
  BY DEF Answered

LEMMA AnswersOfFewer ==
  ASSUME NEW X, NEW Y, NEW G, Answered(X, G), Y \subseteq X
  PROVE  Answered(Y, G)
  BY DEF Answered

\* Two parts that are each answered by themselves.
LEMMA SelfAnswered ==
  ASSUME NEW X, NEW Y, Answered(X, X), Answered(Y, Y)
  PROVE  Answered(X \cup Y, X \cup Y)
  BY AnswersStay, AnswersJoin

\* A chain's links are no links to hubs.
LEMMA ChainsArePlain ==
  ASSUME NEW rows, NEW p, p \notin HubLinks \cup {"a", "hasInfo"}
  PROVE  Plain(sequence_to_triples(rows, p))
  BY DEF sequence_to_triples, Plain

\* Who states a number that entities share is the same as the shared one.
LEMMA StatedBySomeone ==
  ASSUME NEW S, NEW p, NEW c \in ObjectsOf(S, p)
  PROVE  \E r \in Rel(S, p) : r[2] = c
  <1>1. PICK t \in S : t[2] = p /\ t[3] = c
    BY DEF ObjectsOf
  <1>2. <<t[1], t[3]>> \in Rel(S, p)
    BY <1>1 DEF Rel
  <1> QED
    BY <1>1, <1>2

LEMMA UnifiedAnswers ==
  ASSUME NEW S, NEW p, NEW kind, NEW class \in {"UnifiedCompany", "UnifiedPerson"}
  PROVE  Answered(UnifyByCik(S, p, kind, class), UnifyByCik(S, p, kind, class))
  <1> DEFINE shared == SharedCiks(S, p)
             Node(c) == <<kind, c[2]>>
             U == UnifyByCik(S, p, kind, class)
  <1>1. U = {A(Node(c), class) : c \in shared} \cup {<<Node(c), "hasCik", c>> : c \in shared}
            \cup {<<Node(r[2]), "sameAs", r[1]>> : r \in {q \in Rel(S, p) : q[2] \in shared}}
    BY DEF UnifyByCik
  <1>2. shared \subseteq ObjectsOf(S, p)
    BY DEF SharedCiks
  <1> HIDE DEF shared, U
  <1>3. ASSUME NEW c \in shared
        PROVE  \E u \in U : u[2] \in Joins /\ u[1] = Node(c)
    <2>1. PICK r \in Rel(S, p) : r[2] = c
      BY <1>2, StatedBySomeone
    <2>2. <<Node(r[2]), "sameAs", r[1]>> \in U
      BY <1>1, <2>1
    <2> QED
      BY <2>1, <2>2 DEF Joins
  <1>4. ASSUME NEW u \in U
        PROVE  u[2] \in {"hasCik", "sameAs"} \/ \E c \in shared : u = A(Node(c), class)
    BY <1>1 DEF A
  <1>5. ASSUME NEW u \in U
        PROVE  LinkIsTyped(u, U) /\ HubIsJoined(u, U) /\ RegionIsPointedAt(u, U) /\ u[2] # "hasInfo"
    <2>1. CASE u[2] \in {"hasCik", "sameAs"}
      BY <2>1 DEF LinkIsTyped, HubIsJoined, RegionIsPointedAt, HubLinks
    <2>2. ASSUME NEW c \in shared, u = A(Node(c), class)
          PROVE  LinkIsTyped(u, U) /\ HubIsJoined(u, U) /\ RegionIsPointedAt(u, U) /\ u[2] # "hasInfo"
      BY <1>3, <2>2 DEF LinkIsTyped, HubIsJoined, RegionIsPointedAt, HubLinks, A
    <2> QED
      BY <1>4, <2>1, <2>2
  <1> QED
    BY <1>5 DEF U, Answered

\* A filing's violation and the codes it links to.
LEMMA ViolationsAnswer ==
  ASSUME NEW S
  PROVE  Answered(_apply_violation_patterns(S), _apply_violation_patterns(S))
  <1> DEFINE words == {r \in UriWords : KindOf(r[1]) \in SecKinds /\ r[1] \in {t[1] : t \in S}}
                      \cup UNION {{<<r[1], w>> : w \in r[2][2]} :
                                     r \in {q \in Rel(S, "label") : KindOf(q[1]) \in SecKinds}}
             matched == Via(words, ViolationWords)
             V == _apply_violation_patterns(S)
  <1>1. V = {A(<<"violation", m[2]>>, "ViolationType") : m \in matched}
            \cup {<<<<"violation", m[2]>>, "label", <<"text", {m[2]}>>>> : m \in matched}
            \cup {<<m[1], "hasViolationType", <<"violation", m[2]>>>> : m \in matched}
    BY DEF _apply_violation_patterns
  <1> HIDE DEF V, matched
  <1>2. \A u \in V : \/ u[2] = "label"
                     \/ u[2] = "a" /\ u[3] = <<"class", "ViolationType">>
                     \/ u[2] = "hasViolationType" /\ A(u[3], "ViolationType") \in V
    BY <1>1 DEF A
  <1>3. \A x : A(x, "ViolationType")[1] = x /\ A(x, "ViolationType")[2] = "a"
    BY DEF A
  <1> QED
    BY <1>2, <1>3 DEF V, Answered, LinkIsTyped, HubIsJoined, RegionIsPointedAt, HubLinks, HubClasses, Hubs

LEMMA CodesArePlain ==
  ASSUME NEW S
  PROVE  Plain(_type_linked_codes(S))
  <1>1. \A u \in _type_linked_codes(S) :
           \/ u[2] \in {"label", "hasItemNumber", "hasConceptName"}
           \/ u[2] = "a" /\ u[3] \in {<<"class", "Form8KItem">>, <<"class", "XbrlConcept">>}
    BY DEF _type_linked_codes, A
  <1> QED
    BY <1>1 DEF Plain, HubLinks, HubClasses, Hubs

LEMMA FilingChainsArePlain ==
  ASSUME NEW S
  PROVE  Plain(_link_temporal_sequences(S))
  <1>1. \A types, group : Plain(FilingSequence(S, types, group))
    BY ChainsArePlain DEF FilingSequence, HubLinks
  <1>2. Plain(_link_transaction_sequences(S))
    BY ChainsArePlain DEF _link_transaction_sequences, HubLinks
  <1> QED
    BY <1>1, <1>2 DEF _link_temporal_sequences, _link_ownership_filing_sequences,
       _link_periodic_reporting_sequences, Plain

LEMMA SecAnswers ==
  ASSUME NEW G, NEW new \in SecEnrichments(G)
  PROVE  Answered(new, G \cup new)
  <1> DEFINE S == _filter_sec_triples(G)
             found == _unify_company_entities(S) \cup _unify_person_entities(S)
                      \cup _link_temporal_sequences(S) \cup _apply_violation_patterns(S)
                      \cup _type_linked_codes(S)
  <1>1. Answered(_unify_company_entities(S), found) /\ Answered(_unify_person_entities(S), found)
    BY UnifiedAnswers, AnswersStay DEF _unify_company_entities, _unify_person_entities
  <1>2. Answered(_link_temporal_sequences(S), found) /\ Answered(_type_linked_codes(S), found)
    BY FilingChainsArePlain, CodesArePlain, PlainIsAnswered
  <1>3. Answered(_apply_violation_patterns(S), found)
    BY ViolationsAnswer, AnswersStay
  <1>4. Answered(found, found)
    <2> DEFINE F == found
    <2>1. F = found
      OBVIOUS
    <2> HIDE DEF F
    <2> QED
      BY <1>1, <1>2, <1>3, <2>1, AnswersJoin
  <1>5. new = {} \/ new = found \ G
    BY DEF SecEnrichments
  <1> HIDE DEF found
  <1>6. found \subseteq G \cup (found \ G)
    OBVIOUS
  <1> QED
    BY <1>4, <1>5, <1>6, AnswersStay, AnswersOfFewer DEF Answered

\* The alerts: nothing links them to a hub yet.
LEMMA NoaaAnswers ==
  ASSUME NEW G, NEW new \in NoaaEnrichments(G)
  PROVE  Answered(new, G \cup new)
  <1> DEFINE N == _noaa_triples(G)
             settled == NoaaSequences(N) \cup _link_geographic_relationships(N)
                        \cup _link_event_relationships(N) \cup _classify_event_categories(N)
  <1>1. Plain(NoaaSequences(N))
    BY ChainsArePlain DEF NoaaSequences, HubLinks
  <1>2. \A R, p : p \notin HubLinks \cup {"a", "hasInfo"} => Plain(Link(R, p))
    BY DEF Link, Plain
  <1>3. Plain(_link_geographic_relationships(N)) /\ Plain(_link_event_relationships(N))
    BY <1>2 DEF _link_geographic_relationships, _link_event_relationships, HubLinks
  <1>4. Plain(_classify_event_categories(N))
    BY DEF _classify_event_categories, Plain, HubLinks
  <1>5. \A rows : Plain(Escalates(rows))
    BY DEF Escalates, Plain, HubLinks
  <1>6. \A e \in _link_severity_escalations(N) : Plain(e)
    BY <1>5 DEF _link_severity_escalations
  <1>7. Plain({}) /\ \A e : Plain(e) => Plain(settled \cup e)
    BY <1>1, <1>3, <1>4 DEF Plain
  <1>8. new = {} \/ \E e \in _link_severity_escalations(N) : new = settled \cup e
    BY DEF NoaaEnrichments
  <1> HIDE DEF settled, N
  <1> QED
    BY <1>6, <1>7, <1>8, PlainIsAnswered

\* The series: the sectors their names hold are typed as they are linked.
LEMMA BlsSectorsAnswer ==
  ASSUME NEW B
  PROVE  Answered(_apply_sector_patterns(B), _apply_sector_patterns(B))
  <1> DEFINE matched == UNION {{<<e, k[3]>> : e \in Naming(B, k[1], k[2])} : k \in SectorWords}
             V == _apply_sector_patterns(B)
  <1>1. V = {A(<<"sector", m[2]>>, "EconomicSector") : m \in matched}
            \cup {<<<<"sector", m[2]>>, "label", <<"text", {}>>>> : m \in matched}
            \cup {<<m[1], "belongsToSector", <<"sector", m[2]>>>> : m \in matched}
    BY DEF _apply_sector_patterns
  <1> HIDE DEF V, matched
  <1>2. \A m \in matched : /\ A(<<"sector", m[2]>>, "EconomicSector") \in V
                           /\ <<m[1], "belongsToSector", <<"sector", m[2]>>>> \in V
    BY <1>1
  <1>3. ASSUME NEW u \in V
        PROVE  \/ u[2] = "label"
               \/ /\ u[2] = "a" /\ u[3] = <<"class", "EconomicSector">>
                  /\ \E w \in V : w[2] = "belongsToSector" /\ w[3] = u[1]
               \/ u[2] = "belongsToSector" /\ A(u[3], "EconomicSector") \in V
    <2>1. ASSUME NEW m \in matched, u = A(<<"sector", m[2]>>, "EconomicSector")
          PROVE  /\ u[2] = "a" /\ u[3] = <<"class", "EconomicSector">>
                 /\ \E w \in V : w[2] = "belongsToSector" /\ w[3] = u[1]
      <3>1. u[1] = <<"sector", m[2]>> /\ u[2] = "a" /\ u[3] = <<"class", "EconomicSector">>
        BY <2>1 DEF A
      <3>2. <<m[1], "belongsToSector", <<"sector", m[2]>>>> \in V
        BY <1>2
      <3> QED
        BY <3>1, <3>2
    <2>2. ASSUME NEW m \in matched, u = <<<<"sector", m[2]>>, "label", <<"text", {}>>>>
          PROVE  u[2] = "label"
      BY <2>2
    <2>3. ASSUME NEW m \in matched, u = <<m[1], "belongsToSector", <<"sector", m[2]>>>>
          PROVE  u[2] = "belongsToSector" /\ A(u[3], "EconomicSector") \in V
      <3>1. u[2] = "belongsToSector" /\ u[3] = <<"sector", m[2]>>
        BY <2>3
      <3>2. A(<<"sector", m[2]>>, "EconomicSector") \in V
        BY <1>2
      <3> QED
        BY <3>1, <3>2
    <2> QED
      BY <1>1, <2>1, <2>2, <2>3
  <1>4. \A x : A(x, "EconomicSector")[1] = x /\ A(x, "EconomicSector")[2] = "a"
    BY DEF A
  <1> QED
    BY <1>3, <1>4 DEF V, Answered, LinkIsTyped, HubIsJoined, RegionIsPointedAt, HubLinks, Joins

\* What is sequenced of the measurements is of one type of measurement.
LEMMA SequencedByType ==
  ASSUME NEW B, NEW seqs \in BlsSequences(B), NEW u \in seqs
  PROVE  \E m : \E o \in _link_single_measurement_type(B, m) : u \in o
  <1>1. PICK datasets : seqs \in link_temporal_sequences(B, datasets)
    BY DEF BlsSequences
  <1> DEFINE types == {m \in MEASUREMENT_TYPES : m[4] \in datasets}
             One(m) == _link_single_measurement_type(B, m)
  <1>2. PICK f : (\A m \in types : f[m] \in One(m)) /\ seqs = UNION {f[m] : m \in types}
    BY <1>1 DEF link_temporal_sequences
  <1> HIDE DEF types
  <1>3. PICK m \in types : u \in f[m]
    BY <1>2
  <1> QED
    BY <1>2, <1>3

LEMMA BlsAnswers ==
  ASSUME NEW G, NEW new \in BlsEnrichments(G)
  PROVE  Answered(new, G \cup new)
  <1> DEFINE B == _filter_bls_triples(G)
             sectors == _apply_sector_patterns(B)
             found(seqs) == (sectors \cup _apply_known_correlations(B)) \cup seqs
  <1>1. Plain(_apply_known_correlations(B))
    <2>1. \A t \in _apply_known_correlations(B) : \E k \in KNOWN_CORRELATIONS : t[2] = k[3]
      BY CorrelationsWrite
    <2> QED
      BY <2>1, TablesAreApart DEF Plain
  <1>2. ASSUME NEW seqs \in BlsSequences(B)
        PROVE  Plain(seqs)
    <2>1. \A m : \A o \in _link_single_measurement_type(B, m) : Plain(o)
      BY ChainsArePlain DEF _link_single_measurement_type, HubLinks
    <2>2. \A t \in seqs : \E m : \E o \in _link_single_measurement_type(B, m) : t \in o
      BY SequencedByType
    <2> QED
      BY <2>1, <2>2 DEF Plain
  <1>3. new = {} \/ \E seqs \in BlsSequences(B) : new = found(seqs) \ G
    BY DEF BlsEnrichments
  <1>4. ASSUME NEW seqs \in BlsSequences(B)
        PROVE  Answered(found(seqs), found(seqs))
    <2>1. Answered(sectors, sectors)
      BY BlsSectorsAnswer
    <2>2. Plain(_apply_known_correlations(B) \cup seqs)
      BY <1>1, <1>2 DEF Plain
    <2>3. found(seqs) = sectors \cup (_apply_known_correlations(B) \cup seqs)
      OBVIOUS
    <2> HIDE DEF sectors, found
    <2> QED
      BY <2>1, <2>2, <2>3, PlainIsAnswered, SelfAnswered
  <1> HIDE DEF found, B
  <1>5. ASSUME NEW seqs \in BlsSequences(B), new = found(seqs) \ G
        PROVE  Answered(new, G \cup new)
    <2>1. found(seqs) \subseteq G \cup new /\ new \subseteq found(seqs)
      BY <1>5
    <2> QED
      BY <1>4, <2>1, AnswersStay, AnswersOfFewer
  <1>6. CASE new = {}
    BY <1>6 DEF Answered
  <1> QED
    BY <1>3, <1>5, <1>6

\* What is linked to a node that is typed as it is linked, no hub being its class.
LinkedAndTyped(m, p, kind, class) ==
    {<<x[1], p, <<kind, x[2]>>>> : x \in m} \cup {A(<<kind, x[2]>>, class) : x \in m}

LEMMA TypedAsLinked ==
  ASSUME NEW m, NEW kind, NEW class \in {"EquitySector", "Moneyness"},
         NEW p \in {"inEquitySector", "hasMoneyness"}
  PROVE  Answered(LinkedAndTyped(m, p, kind, class), LinkedAndTyped(m, p, kind, class))
  <1> DEFINE V == LinkedAndTyped(m, p, kind, class)
  <1>0. V = {<<x[1], p, <<kind, x[2]>>>> : x \in m} \cup {A(<<kind, x[2]>>, class) : x \in m}
    BY DEF LinkedAndTyped
  <1> HIDE DEF V
  <1>1. \A x \in m : A(<<kind, x[2]>>, class) \in V
    BY <1>0
  <1>2. ASSUME NEW u \in V
        PROVE  \/ u[2] = "a" /\ u[3] = <<"class", class>>
               \/ u[2] = p /\ \E w \in V : w[1] = u[3] /\ w[2] = "a"
    <2>1. ASSUME NEW x \in m, u = <<x[1], p, <<kind, x[2]>>>>
          PROVE  u[2] = p /\ \E w \in V : w[1] = u[3] /\ w[2] = "a"
      <3>1. u[2] = p /\ u[3] = <<kind, x[2]>>
        BY <2>1
      <3>2. A(<<kind, x[2]>>, class)[1] = <<kind, x[2]>> /\ A(<<kind, x[2]>>, class)[2] = "a"
        BY DEF A
      <3> QED
        BY <1>1, <3>1, <3>2
    <2>2. ASSUME NEW x \in m, u = A(<<kind, x[2]>>, class)
          PROVE  u[2] = "a" /\ u[3] = <<"class", class>>
      BY <2>2 DEF A
    <2> QED
      BY <1>0, <2>1, <2>2
  <1>4. <<"class", class>> \notin HubClasses /\ <<"class", class>> # <<"class", "GeographicRegion">>
    BY DEF HubClasses, Hubs
  <1>5. ASSUME NEW u \in V
        PROVE  /\ LinkIsTyped(u, V) /\ HubIsJoined(u, V) /\ RegionIsPointedAt(u, V)
               /\ u[2] # "hasInfo"
    <2>1. CASE u[2] = "a" /\ u[3] = <<"class", class>>
      BY <1>4, <2>1 DEF LinkIsTyped, HubIsJoined, RegionIsPointedAt, HubLinks
    <2>2. CASE u[2] = p /\ \E w \in V : w[1] = u[3] /\ w[2] = "a"
      BY <2>2 DEF LinkIsTyped, HubIsJoined, RegionIsPointedAt
    <2> QED
      BY <1>2, <2>1, <2>2
  <1> QED
    BY <1>5 DEF V, Answered

\* The snapshots: the sector of a symbol and the moneyness of an option are
\* typed as they are linked, whatever the constituents say.
LEMMA QuotesAnswer ==
  ASSUME NEW G, NEW tickers
  PROVE  /\ Answered(_classify_sectors(G, tickers), _classify_sectors(G, tickers))
         /\ Answered(_compute_moneyness(G), _compute_moneyness(G))
  <1>2. Answered(_classify_sectors(G, tickers), _classify_sectors(G, tickers))
    <2> DEFINE belongs == Via(Rel(G, "symbol") \cup Underlying(G), tickers)
    <2>1. _classify_sectors(G, tickers) =
              LinkedAndTyped(belongs, "inEquitySector", "equitySector", "EquitySector")
      BY DEF _classify_sectors, LinkedAndTyped
    <2> HIDE DEF belongs
    <2> QED
      BY <2>1, TypedAsLinked
  <1>3. Answered(_compute_moneyness(G), _compute_moneyness(G))
    <2> DEFINE Of(o, p) == {r[2] : r \in {q \in Rel(G, p) : q[1] = o}}
               placed == UNION {{<<o, Moneyness(_canonical_contract_type(c), k[2], u[2])>> :
                                    c \in Of(o, "contractType"), k \in Of(o, "strikePrice"),
                                    u \in Of(o, "underlyingPrice")} :
                                o \in Typed(G, "OptionSnapshot")}
               found == {m \in placed : m[2] # "none"}
    <2>1. _compute_moneyness(G) =
              LinkedAndTyped(found, "hasMoneyness", "moneyness", "Moneyness")
      BY DEF _compute_moneyness, LinkedAndTyped
    <2> HIDE DEF placed, found
    <2> QED
      BY <2>1, TypedAsLinked
  <1> QED
    BY <1>2, <1>3

LEMMA MarketAnswers ==
  ASSUME NEW G, NEW tickers, NEW new \in MarketEnrichments(G, tickers)
  PROVE  Answered(new, G \cup new)
  <1>1. Plain(_link_snapshot_sequences(G))
    BY ChainsArePlain DEF _link_snapshot_sequences, HubLinks
  <1>2. \A linked \in _link_options_to_underlying(G) : Plain(linked)
    BY DEF _link_options_to_underlying, Plain, HubLinks
  <1>3. \A paired \in _identify_option_strategies(G) : Plain(paired)
    <2>1. \A chains : Plain(_identify_straddles(chains))
      BY DEF _identify_straddles, Plain, HubLinks
    <2>2. ASSUME NEW chains
          PROVE  Plain(_identify_vertical_spreads(chains))
      <3> DEFINE Key(r) == <<r.strike, r.entity[2]>>
                 Of(right) == Keyed({r \in chains : r.right = right}, Key)
                 S(right) == sequence_within_partitions(Of(right))
      <3>1. _identify_vertical_spreads(chains) =
               {<<x[1].entity, "callSpreadWith", x[2].entity>> : x \in S("CALL")}
               \cup {<<x[1].entity, "putSpreadWith", x[2].entity>> : x \in S("PUT")}
        BY DEF _identify_vertical_spreads
      <3> HIDE DEF S
      <3> QED
        BY <3>1 DEF Plain, HubLinks
    <2>3. ASSUME NEW chains, NEW pairs \in _identify_strangles(chains)
          PROVE  Plain(pairs)
      <3>1. PICK cs, ps : pairs = _pair_by_rank(cs, ps)
        BY DEF _identify_strangles
      <3> QED
        BY <3>1 DEF _pair_by_rank, Plain, HubLinks
    <2> QED
      BY <2>1, <2>2, <2>3 DEF _identify_option_strategies, Plain
  <1> DEFINE known == _classify_sectors(G, tickers) \cup _compute_moneyness(G)
             rest(l, q) == _link_snapshot_sequences(G) \cup l \cup q
  <1>4. \/ new = {}
        \/ \E l \in _link_options_to_underlying(G), q \in _identify_option_strategies(G) :
              new = known \cup rest(l, q)
    BY DEF MarketEnrichments
  <1>5. Answered(known, known)
    BY QuotesAnswer, SelfAnswered
  <1>6. \A l \in _link_options_to_underlying(G), q \in _identify_option_strategies(G) :
           Plain(rest(l, q))
    BY <1>1, <1>2, <1>3 DEF Plain
  <1> HIDE DEF known, rest
  <1>7. CASE new = {}
    BY <1>7 DEF Answered
  <1>8. ASSUME NEW l \in _link_options_to_underlying(G), NEW q \in _identify_option_strategies(G),
               new = known \cup rest(l, q)
        PROVE  Answered(new, G \cup new)
    <2>1. Answered(known \cup rest(l, q), known \cup rest(l, q))
      BY <1>5, <1>6, PlainIsAnswered, SelfAnswered
    <2> QED
      BY <1>8, <2>1, AnswersStay
  <1> QED
    BY <1>4, <1>7, <1>8

\* The periods are linked, covered and the same as others, and no hub is one.
LEMMA PeriodsArePlain ==
  ASSUME NEW G
  PROVE  Plain(TemporalEnrich(G))
  <1> DEFINE Grains == {"month", "year", "quarter", "day"}
             dated == Dated(G)
             periods == collect_bls_months_years(G) \cup collect_bls_quarters(G)
                        \cup {d[2] : d \in dated}
  <1>1. \A x \in collect_bls_months_years(G) \cup collect_bls_quarters(G) : x.kind \in Grains
    BY DEF collect_bls_months_years, collect_bls_quarters, Period
  <1>2. ASSUME NEW d \in dated
        PROVE  d[2].kind \in Grains
    <2>1. PICK ps \in DatePredicates : d \in _collect_date_based_temporals(G, ps[1], ps[2])
      BY DEF Dated
    <2>2. \A src, name, kind : Minted(src, kind, name).kind = kind
      BY DEF Minted, Period
    <2> DEFINE Places(v) ==
                   {Minted(ps[2], "month", <<v[3]>>), Minted(ps[2], "year", <<v[2]>>)}
                   \cup (IF v[4] > 0 THEN {Minted(ps[2], "day", <<v[2], v[3], v[4]>>)} ELSE {})
    <2>3. PICK r, x : /\ d = <<r[1], x>>
                      /\ x \in IF AsDate(r[2])[3] \in 1..12 THEN Places(AsDate(r[2])) ELSE {}
      BY <2>1 DEF _collect_date_based_temporals
    <2>4. \A v : \A y \in Places(v) : y.kind \in Grains
      <3>1. \A v : \A y \in Places(v) : \/ y = Minted(ps[2], "month", <<v[3]>>)
                                      \/ y = Minted(ps[2], "year", <<v[2]>>)
                                      \/ y = Minted(ps[2], "day", <<v[2], v[3], v[4]>>)
        OBVIOUS
      <3> QED
        BY <2>2, <3>1
    <2> HIDE DEF Places
    <2>5. x.kind \in Grains
      BY <2>3, <2>4
    <2> QED
      BY <2>3, <2>5
  <1>3. \A x \in periods : x.kind \in Grains
    BY <1>1, <1>2
  <1> HIDE DEF dated, periods
  <1>4. \A kind \in Grains : /\ <<"class", SourceClass(kind)>> \notin HubClasses
                             /\ <<"class", UnifiedClass(kind)>> \notin HubClasses
    BY DEF SourceClass, UnifiedClass, HubClasses, Hubs
  <1>5. \A x, c : <<"class", c>> \notin HubClasses => Plain({A(x, c)})
    BY DEF A, Plain, HubLinks
  <1>6. \A x, name : Plain({Label(x, name)})
    BY DEF Label, Plain, HubLinks
  <1>7. Plain(_create_source_temporal_types(periods))
    <2>1. \A t \in _create_source_temporal_types(periods) : Plain({t})
      BY <1>3, <1>4, <1>5, <1>6 DEF _create_source_temporal_types
    <2> QED
      BY <2>1 DEF Plain
  <1>8. Plain(_finest_grain_links(dated))
    BY DEF _finest_grain_links, Plain, HubLinks
  <1>9. ASSUME NEW kind \in Grains
        PROVE  Plain(Unify(periods, kind))
    <2>1. \A x : Plain({<<Unified(kind, x.name), "sameAs", x.uri>>})
      BY DEF Plain, HubLinks
    <2>2. \A t \in Unify(periods, kind) : Plain({t})
      BY <1>4, <1>5, <1>6, <2>1 DEF Unify
    <2> QED
      BY <2>2 DEF Plain
  <1>10. Plain(_create_unified_months(periods)) /\ Plain(_create_unified_years(periods))
    BY <1>9 DEF _create_unified_months, _create_unified_years
  <1>11. Plain(_create_unified_quarters(periods))
    <2> DEFINE Q == {y \in periods : y.kind = "quarter"}
               Numbers(x) == (3 * x.name[1] - 2)..(3 * x.name[1])
               Months(x) == {<<Unified("quarter", x.name), "coversMonth", Unified("month", <<m>>)>> :
                                m \in Numbers(x)}
    <2>1. _create_unified_quarters(periods) = Unify(periods, "quarter") \cup UNION {Months(x) : x \in Q}
      BY DEF _create_unified_quarters
    <2> HIDE DEF Numbers
    <2>2. ASSUME NEW x, NEW t \in Months(x)
          PROVE  t[2] = "coversMonth"
      <3>1. PICK m \in Numbers(x) :
               t = <<Unified("quarter", x.name), "coversMonth", Unified("month", <<m>>)>>
        OBVIOUS
      <3> QED
        BY <3>1
    <2> HIDE DEF Months
    <2>3. \A t \in UNION {Months(x) : x \in Q} : t[2] = "coversMonth"
      BY <2>2
    <2> QED
      BY <1>9, <2>1, <2>3 DEF Plain, HubLinks
  <1>12. Plain(_create_unified_days(periods))
    <2> DEFINE Covers(x) == <<Unified("month", <<x.name[2]>>), "coversDay", Unified("day", x.name)>>
    <2>1. _create_unified_days(periods) =
             Unify(periods, "day") \cup {Covers(x) : x \in {y \in periods : y.kind = "day"}}
      BY DEF _create_unified_days
    <2>2. \A x : Covers(x)[2] = "coversDay"
      OBVIOUS
    <2> HIDE DEF Covers
    <2> QED
      BY <1>9, <2>1, <2>2 DEF Plain, HubLinks
  <1>13. TemporalEnrich(G) =
            _create_source_temporal_types(periods) \cup _finest_grain_links(dated)
            \cup _create_unified_months(periods) \cup _create_unified_years(periods)
            \cup _create_unified_quarters(periods) \cup _create_unified_days(periods)
    BY DEF TemporalEnrich, periods, dated
  <1> QED
    BY <1>7, <1>8, <1>10, <1>11, <1>12, <1>13 DEF Plain

\* Sectors that are typed where they are linked.
LEMMA SectorsAnswer ==
  ASSUME NEW V, NEW L, NEW p \in {"belongsToSector", "relatedToEconomicSector"},
         \A l \in L : A(Sector(l[2]), "EconomicSector") \in V /\ <<l[1], p, Sector(l[2])>> \in V,
         \A u \in V : \/ u[2] = "label"
                      \/ \E l \in L : \/ u = A(Sector(l[2]), "EconomicSector")
                                      \/ u = <<l[1], p, Sector(l[2])>>
  PROVE  Answered(V, V)
  <1>1. ASSUME NEW u \in V
        PROVE  /\ LinkIsTyped(u, V) /\ HubIsJoined(u, V) /\ RegionIsPointedAt(u, V)
               /\ u[2] # "hasInfo"
    <2>1. CASE u[2] = "label"
      BY <2>1 DEF LinkIsTyped, HubIsJoined, RegionIsPointedAt, HubLinks
    <2>2. ASSUME NEW l \in L, u = A(Sector(l[2]), "EconomicSector")
          PROVE  /\ LinkIsTyped(u, V) /\ HubIsJoined(u, V) /\ RegionIsPointedAt(u, V)
                 /\ u[2] # "hasInfo"
      <3>1. u[1] = Sector(l[2]) /\ u[2] = "a" /\ u[3] = <<"class", "EconomicSector">>
        BY <2>2 DEF A
      <3>2. \E w \in V : w[2] = p /\ w[3] = u[1]
        BY <3>1
      <3> QED
        BY <3>1, <3>2 DEF LinkIsTyped, HubIsJoined, RegionIsPointedAt, HubLinks, Joins
    <2>3. ASSUME NEW l \in L, u = <<l[1], p, Sector(l[2])>>
          PROVE  /\ LinkIsTyped(u, V) /\ HubIsJoined(u, V) /\ RegionIsPointedAt(u, V)
                 /\ u[2] # "hasInfo"
      <3>1. u[2] = p /\ u[3] = Sector(l[2])
        BY <2>3
      <3>2. \E w \in V : w[1] = Sector(l[2]) /\ w[2] = "a"
        BY DEF A
      <3> QED
        BY <3>1, <3>2 DEF LinkIsTyped, HubIsJoined, RegionIsPointedAt, HubLinks
    <2> QED
      BY <2>1, <2>2, <2>3
  <1> QED
    BY <1>1 DEF Answered

LEMMA NamedSectorsAnswer ==
  ASSUME NEW G
  PROVE  Answered(_link_by_sector(G), _link_by_sector(G))
  <1> DEFINE out == UNION {SourceKinds[s] : s \in DOMAIN SourceKinds \ KeywordSources}
             named == {t[1] : t \in {u \in G : KindOf(u[1]) \notin out
                                        \cup {"sector", "equitySector", "moneyness"}}}
             matched == {m \in Via(UriWords, SectorKeywords) : m[1] \in named}
             V == _link_by_sector(G)
  <1>1. V = {A(Sector(m[2]), "EconomicSector") : m \in matched}
            \cup {<<m[1], "belongsToSector", Sector(m[2])>> : m \in matched}
    BY DEF _link_by_sector
  <1> HIDE DEF V, matched
  <1>2. ASSUME NEW m \in matched
        PROVE  /\ A(Sector(m[2]), "EconomicSector") \in V
               /\ <<m[1], "belongsToSector", Sector(m[2])>> \in V
    BY <1>1
  <1>3. \A u \in V : \E m \in matched : \/ u = A(Sector(m[2]), "EconomicSector")
                                        \/ u = <<m[1], "belongsToSector", Sector(m[2])>>
    BY <1>1
  <1>4. Answered(V, V)
    BY <1>2, <1>3, SectorsAnswer
  <1> QED
    BY <1>4 DEF V

LEMMA FiledSectorsAnswer ==
  ASSUME NEW G
  PROVE  Answered(sec_sector_keys(G), sec_sector_keys(G))
  <1> DEFINE MajorGroup(x) == x[2] \div 100
             filed == {r \in Rel(G, "hasSic") : r[2][2] < 10000}
             placed == UNION {{<<c, d[3]>> : c \in {q[2] : q \in {y \in issuer_ciks(G) :
                                   <<r[1], "hasIssuer", y[1]>> \in G}},
                                   d \in {e \in SIC_DIVISIONS : MajorGroup(r[2]) \in e[1]..e[2]}} :
                              r \in filed}
             V == sec_sector_keys(G)
  <1>1. V = {<<Company(x[1]), "belongsToSector", Sector(x[2])>> : x \in placed}
            \cup {A(Sector(x[2]), "EconomicSector") : x \in placed}
    BY DEF sec_sector_keys
  <1> HIDE DEF V, placed
  <1>2. ASSUME NEW x \in placed
        PROVE  /\ A(Sector(x[2]), "EconomicSector") \in V
               /\ <<Company(x[1]), "belongsToSector", Sector(x[2])>> \in V
    BY <1>1
  <1>3. \A u \in V : \E x \in placed : \/ u = A(Sector(x[2]), "EconomicSector")
                                       \/ u = <<Company(x[1]), "belongsToSector", Sector(x[2])>>
    BY <1>1
  <1> DEFINE L == {<<Company(x[1]), x[2]>> : x \in placed}
  <1>4. \A l \in L : /\ A(Sector(l[2]), "EconomicSector") \in V
                    /\ <<l[1], "belongsToSector", Sector(l[2])>> \in V
    BY <1>2
  <1>5. \A u \in V : \E l \in L : \/ u = A(Sector(l[2]), "EconomicSector")
                                \/ u = <<l[1], "belongsToSector", Sector(l[2])>>
    <2>1. ASSUME NEW x \in placed
          PROVE  \E l \in L : l[1] = Company(x[1]) /\ l[2] = x[2]
      <3>1. <<Company(x[1]), x[2]>> \in L
        OBVIOUS
      <3> QED
        BY <3>1
    <2> QED
      BY <1>3, <2>1
  <1> HIDE DEF L
  <1>6. Answered(V, V)
    BY <1>4, <1>5, SectorsAnswer
  <1> QED
    BY <1>6 DEF V

LEMMA QuotedSectorsAnswer ==
  ASSUME NEW G
  PROVE  Answered(market_sector_keys(G), market_sector_keys(G))
  <1> DEFINE matched == {m \in EQUITY_TO_ECONOMIC_SECTORS :
                            <<"equitySector", m[1]>> \in Typed(G, "EquitySector")}
             Equity(m) == <<"equitySector", m[1]>>
             V == market_sector_keys(G)
  <1>1. V = {A(Sector(m[2]), "EconomicSector") : m \in matched}
            \cup {<<Equity(m), "relatedToEconomicSector", Sector(m[2])>> : m \in matched}
    BY DEF market_sector_keys
  <1> HIDE DEF V, matched, Equity
  <1>2. ASSUME NEW m \in matched
        PROVE  /\ A(Sector(m[2]), "EconomicSector") \in V
               /\ <<Equity(m), "relatedToEconomicSector", Sector(m[2])>> \in V
    BY <1>1
  <1>3. \A u \in V : \E m \in matched : \/ u = A(Sector(m[2]), "EconomicSector")
                                        \/ u = <<Equity(m), "relatedToEconomicSector", Sector(m[2])>>
    BY <1>1
  <1> DEFINE L == {<<Equity(m), m[2]>> : m \in matched}
  <1>4. \A l \in L : /\ A(Sector(l[2]), "EconomicSector") \in V
                    /\ <<l[1], "relatedToEconomicSector", Sector(l[2])>> \in V
    BY <1>2
  <1>5. \A u \in V : \E l \in L : \/ u = A(Sector(l[2]), "EconomicSector")
                                \/ u = <<l[1], "relatedToEconomicSector", Sector(l[2])>>
    <2>1. ASSUME NEW m \in matched
          PROVE  \E l \in L : l[1] = Equity(m) /\ l[2] = m[2]
      <3>1. <<Equity(m), m[2]>> \in L
        OBVIOUS
      <3> QED
        BY <3>1
    <2> QED
      BY <1>3, <2>1
  <1> HIDE DEF L
  <1>6. Answered(V, V)
    BY <1>4, <1>5, SectorsAnswer
  <1> QED
    BY <1>6 DEF V

\* A company is typed by each of the references that are linked to it.
LEMMA CompaniesAnswer ==
  ASSUME NEW G, NEW srcs, NEW tickers
  PROVE  /\ Answered(_link_by_company(G, srcs, tickers), _link_by_company(G, srcs, tickers))
         /\ \A c \in CompanyCiks(G, srcs, tickers) :
               A(Company(c), "UnifiedCompany") \in _link_by_company(G, srcs, tickers)
  <1> DEFINE R == References(G, srcs, tickers)
             Of(r) == {A(Company(r[2]), "UnifiedCompany"), <<Company(r[2]), "hasCik", r[2]>>,
                       <<r[1], "refersToCompany", Company(r[2])>>}
                      \cup (IF r[3] = NoSymbol THEN {} ELSE {<<Company(r[2]), "ticker", r[3]>>})
             V == _link_by_company(G, srcs, tickers)
  <1>1. V = UNION {Of(r) : r \in R}
    BY DEF _link_by_company
  <1>2. ASSUME NEW r
        PROVE  /\ A(Company(r[2]), "UnifiedCompany") \in Of(r)
               /\ <<r[1], "refersToCompany", Company(r[2])>> \in Of(r)
               /\ \A u \in Of(r) : \/ u = A(Company(r[2]), "UnifiedCompany")
                                   \/ u = <<r[1], "refersToCompany", Company(r[2])>>
                                   \/ u[2] \in {"hasCik", "ticker"}
    OBVIOUS
  <1> HIDE DEF Of, V, R
  <1>3. \A r \in R : Of(r) \subseteq V
    BY <1>1
  <1>4. ASSUME NEW u \in V
        PROVE  /\ LinkIsTyped(u, V) /\ HubIsJoined(u, V) /\ RegionIsPointedAt(u, V)
               /\ u[2] # "hasInfo"
    <2>1. PICK r \in R : u \in Of(r)
      BY <1>1
    <2>2. /\ A(Company(r[2]), "UnifiedCompany") \in V
          /\ <<r[1], "refersToCompany", Company(r[2])>> \in V
      BY <1>2, <1>3
    <2>3. CASE u = A(Company(r[2]), "UnifiedCompany")
      <3>1. u[1] = Company(r[2]) /\ u[2] = "a" /\ u[3] = <<"class", "UnifiedCompany">>
        BY <2>3 DEF A
      <3>2. \E w \in V : w[2] = "refersToCompany" /\ w[3] = u[1]
        BY <2>2, <3>1
      <3> QED
        BY <3>1, <3>2 DEF LinkIsTyped, HubIsJoined, RegionIsPointedAt, HubLinks, Joins
    <2>4. CASE u = <<r[1], "refersToCompany", Company(r[2])>>
      <3>1. u[2] = "refersToCompany" /\ u[3] = Company(r[2])
        BY <2>4
      <3>2. \E w \in V : w[1] = Company(r[2]) /\ w[2] = "a"
        BY <2>2 DEF A
      <3> QED
        BY <3>1, <3>2 DEF LinkIsTyped, HubIsJoined, RegionIsPointedAt, HubLinks
    <2>5. CASE u[2] \in {"hasCik", "ticker"}
      BY <2>5 DEF LinkIsTyped, HubIsJoined, RegionIsPointedAt, HubLinks
    <2> QED
      BY <1>2, <2>1, <2>3, <2>4, <2>5
  <1>5. ASSUME NEW c \in CompanyCiks(G, srcs, tickers)
        PROVE  A(Company(c), "UnifiedCompany") \in V
    <2>1. PICK r \in R : r[2] = c
      BY DEF CompanyCiks, R
    <2> QED
      BY <1>2, <1>3, <2>1
  <1> QED
    BY <1>4, <1>5 DEF V, Answered

\* Companies of one sub-industry are linked only when the run refers to them.
LEMMA SubIndustriesAnswer ==
  ASSUME NEW G, NEW srcs, NEW tickers, NEW subs
  PROVE  Answered(link_by_sub_industry(G, srcs, tickers, subs), _link_by_company(G, srcs, tickers))
  <1> DEFINE members == {m \in Via(Flip(SymbolCiks(G, srcs, tickers)), subs) :
                             m[1] \in CompanyCiks(G, srcs, tickers)}
             V == link_by_sub_industry(G, srcs, tickers, subs)
             W == _link_by_company(G, srcs, tickers)
  <1>1. ASSUME NEW u \in V
        PROVE  /\ u[2] = "sharesSubIndustryWith"
               /\ \E c \in CompanyCiks(G, srcs, tickers) : u[3] = Company(c)
    <2>1. \E m, n \in members : u = <<Company(m[1]), "sharesSubIndustryWith", Company(n[1])>>
      BY DEF link_by_sub_industry
    <2> QED
      BY <2>1
  <1> HIDE DEF V, W
  <1>2. \A c \in CompanyCiks(G, srcs, tickers) : \E w \in W : w[1] = Company(c) /\ w[2] = "a"
    <2>1. \A c \in CompanyCiks(G, srcs, tickers) : A(Company(c), "UnifiedCompany") \in W
      BY CompaniesAnswer DEF W
    <2>2. \A c : A(Company(c), "UnifiedCompany")[1] = Company(c)
                 /\ A(Company(c), "UnifiedCompany")[2] = "a"
      BY DEF A
    <2> QED
      BY <2>1, <2>2
  <1>3. Answered(V, W)
    BY <1>1, <1>2 DEF Answered, LinkIsTyped, HubIsJoined, RegionIsPointedAt, HubLinks
  <1> QED
    BY <1>3 DEF V, W

\* What states are linked from is an alert, or an area of BLS's: not a region.
LEMMA StateLinks ==
  ASSUME NEW G, \A t \in G : t[2] = "hasInfo" => KindOf(t[1]) # "region",
         NEW l \in _alert_state_links(G) \cup _local_area_state_links(G)
  PROVE  /\ l[2] \in {"affectsRegion", "hasRegion"}
         /\ KindOf(l[1]) # "region" /\ KindOf(l[3]) = "region"
  <1> DEFINE areas == Flip(Via(Rel(G, "hasInfo"), Rel(G, "hasArea")))
  <1>1. \A s : KindOf(Region(s)) = "region"
    BY DEF Region, KindOf
  <1>2. ASSUME NEW x \in areas
        PROVE  KindOf(x[2]) # "region"
    <2>1. PICK y \in Via(Rel(G, "hasInfo"), Rel(G, "hasArea")) : x = <<y[2], y[1]>>
      BY DEF Flip
    <2>2. PICK z \in Rel(G, "hasInfo") \X Rel(G, "hasArea") : y = <<z[1][1], z[2][2]>>
      BY DEF Via
    <2>3. PICK t \in G : t[2] = "hasInfo" /\ z[1] = <<t[1], t[3]>>
      BY <2>2 DEF Rel
    <2>4. x[2] = t[1]
      BY <2>1, <2>2, <2>3
    <2> QED
      BY <2>3, <2>4
  <1> HIDE DEF areas
  <1>3. CASE l \in _alert_state_links(G)
    <2> DEFINE named == {<<x[1][2], x[3]>> : x \in
                            {x \in areas \X Rel(G, "hasAreaDescription") \X US_STATES :
                                x[1][1] = x[2][1] /\ {x[3].name, x[3].abbr} \cap x[2][2][2] # {}}}
               coded == {<<x[1][2], x[3]>> : x \in
                            {x \in areas \X Via(Rel(G, "hasGeocode"), Rel(G, "hasStateFIPS")) \X US_STATES :
                                x[1][1] = x[2][1] /\ x[2][2][2] % 100 = x[3].fips}}
    <2>1. _alert_state_links(G) = {<<k[1], "affectsRegion", Region(k[2])>> : k \in named \cup coded}
      BY DEF _alert_state_links, areas
    <2>2. \A k \in named \cup coded : \E x \in areas : k[1] = x[2]
      <3>1. \A k \in named : \E x \in areas : k[1] = x[2]
        OBVIOUS
      <3>2. \A k \in coded : \E x \in areas : k[1] = x[2]
        OBVIOUS
      <3> QED
        BY <3>1, <3>2
    <2> HIDE DEF named, coded
    <2>3. PICK k \in named \cup coded : l = <<k[1], "affectsRegion", Region(k[2])>>
      BY <1>3, <2>1
    <2> QED
      BY <1>1, <1>2, <2>2, <2>3
  <1>4. CASE l \in _local_area_state_links(G)
    <2>1. PICK x, s : /\ x \in Kind(G, "laus")
                      /\ l = <<x, "hasRegion", Region(s)>>
      BY <1>4 DEF _local_area_state_links
    <2>2. KindOf(x) = "laus"
      BY <2>1 DEF Kind
    <2> QED
      BY <1>1, <2>1, <2>2
  <1> QED
    BY <1>3, <1>4

\* The census regions are reached from the states that are linked, or are BLS's.
LEMMA CensusAnswers ==
  ASSUME NEW linked, NEW own
  PROVE  Answered(_link_census_regions(linked, own), _link_census_regions(linked, own))
  <1> DEFINE within == {s \in US_STATES : Region(s) \in linked}
             reached == {s.census : s \in within} \cup {o[2] : o \in own}
             V == _link_census_regions(linked, own)
  <1>1. V = {A(CensusRegion(n), "CensusRegion") : n \in reached}
            \cup {<<Region(s), "withinCensusRegion", CensusRegion(s.census)>> : s \in within}
            \cup {<<CensusRegion(o[2]), "sameAs", o[1]>> : o \in own}
    BY DEF _link_census_regions
  <1>2. \A n \in reached : (\E s \in within : n = s.census) \/ (\E o \in own : n = o[2])
    OBVIOUS
  <1>3. \A s \in within : s.census \in reached
    OBVIOUS
  <1> HIDE DEF V, within, reached
  <1>4. ASSUME NEW n \in reached, NEW u \in V, u = A(CensusRegion(n), "CensusRegion")
        PROVE  LinkIsTyped(u, V) /\ HubIsJoined(u, V) /\ RegionIsPointedAt(u, V) /\ u[2] # "hasInfo"
    <2>1. u[1] = CensusRegion(n) /\ u[2] = "a" /\ u[3] = <<"class", "CensusRegion">>
      BY <1>4 DEF A
    <2>2. \E w \in V : w[2] \in Joins /\ (w[1] = CensusRegion(n) \/ w[3] = CensusRegion(n))
      <3>1. CASE \E s \in within : n = s.census
        <4>1. PICK s \in within : n = s.census
          BY <3>1
        <4>2. <<Region(s), "withinCensusRegion", CensusRegion(n)>> \in V
          BY <1>1, <4>1
        <4> QED
          BY <4>2 DEF Joins, HubLinks
      <3>2. CASE \E o \in own : n = o[2]
        <4>1. PICK o \in own : n = o[2]
          BY <3>2
        <4>2. <<CensusRegion(n), "sameAs", o[1]>> \in V
          BY <1>1, <4>1
        <4> QED
          BY <4>2 DEF Joins
      <3> QED
        BY <1>2, <3>1, <3>2
    <2> QED
      BY <2>1, <2>2 DEF LinkIsTyped, HubIsJoined, RegionIsPointedAt, HubLinks
  <1>5. ASSUME NEW s \in within, NEW u \in V,
               u = <<Region(s), "withinCensusRegion", CensusRegion(s.census)>>
        PROVE  LinkIsTyped(u, V) /\ HubIsJoined(u, V) /\ RegionIsPointedAt(u, V) /\ u[2] # "hasInfo"
    <2>1. u[2] = "withinCensusRegion" /\ u[3] = CensusRegion(s.census)
      BY <1>5
    <2>2. \E w \in V : w[1] = CensusRegion(s.census) /\ w[2] = "a"
      <3>1. A(CensusRegion(s.census), "CensusRegion") \in V
        BY <1>1, <1>3
      <3> QED
        BY <3>1 DEF A
    <2> QED
      BY <2>1, <2>2 DEF LinkIsTyped, HubIsJoined, RegionIsPointedAt, HubLinks
  <1>6. ASSUME NEW u \in V, u[2] = "sameAs"
        PROVE  LinkIsTyped(u, V) /\ HubIsJoined(u, V) /\ RegionIsPointedAt(u, V) /\ u[2] # "hasInfo"
    BY <1>6 DEF LinkIsTyped, HubIsJoined, RegionIsPointedAt, HubLinks
  <1>7. \A u \in V : \/ \E n \in reached : u = A(CensusRegion(n), "CensusRegion")
                     \/ \E s \in within : u = <<Region(s), "withinCensusRegion", CensusRegion(s.census)>>
                     \/ u[2] = "sameAs"
    BY <1>1
  <1>8. Answered(V, V)
    BY <1>4, <1>5, <1>6, <1>7 DEF Answered
  <1> QED
    BY <1>8 DEF V

\* A region is typed for each link to it, and that link points at it.
LEMMA RegionsAnswer ==
  ASSUME NEW G, \A t \in G : t[2] = "hasInfo" => KindOf(t[1]) # "region", NEW srcs
  PROVE  Answered(_link_by_geography(G, srcs), _link_by_geography(G, srcs))
  <1> DEFINE links == _state_links(G, srcs)
             linked == {l[3] : l \in links}
             types == {A(r, "GeographicRegion") : r \in linked}
             census == _link_census_regions(linked, _own_census_regions(G, srcs))
  <1>1. \A l \in links : /\ l[2] \in {"affectsRegion", "hasRegion"}
                         /\ l[1] # l[3] /\ A(l[3], "GeographicRegion") \in types
    <2>1. \A l \in links : l \in _alert_state_links(G) \cup _local_area_state_links(G)
      BY DEF _state_links
    <2>2. \A l \in links : A(l[3], "GeographicRegion") \in types
      OBVIOUS
    <2> HIDE DEF links, types
    <2>3. \A l \in links : /\ l[2] \in {"affectsRegion", "hasRegion"}
                           /\ KindOf(l[1]) # "region" /\ KindOf(l[3]) = "region"
      BY <2>1, StateLinks
    <2> QED
      BY <2>2, <2>3
  <1>2. \A t \in types : \E l \in links : t = A(l[3], "GeographicRegion")
    OBVIOUS
  <1>3. _link_by_geography(G, srcs) = (links \cup types) \cup census
    BY DEF _link_by_geography
  <1>4. Answered(census, census)
    BY CensusAnswers
  <1> HIDE DEF links, types, census
  <1> DEFINE V == links \cup types
  <1>5. ASSUME NEW l \in links
        PROVE  LinkIsTyped(l, V) /\ HubIsJoined(l, V) /\ RegionIsPointedAt(l, V) /\ l[2] # "hasInfo"
    <2>1. \E w \in V : w[1] = l[3] /\ w[2] = "a"
      <3>1. A(l[3], "GeographicRegion") \in V
        BY <1>1
      <3>2. A(l[3], "GeographicRegion")[1] = l[3] /\ A(l[3], "GeographicRegion")[2] = "a"
        BY DEF A
      <3> QED
        BY <3>1, <3>2
    <2> QED
      BY <1>1, <2>1 DEF LinkIsTyped, HubIsJoined, RegionIsPointedAt
  <1>6. ASSUME NEW t \in types
        PROVE  LinkIsTyped(t, V) /\ HubIsJoined(t, V) /\ RegionIsPointedAt(t, V) /\ t[2] # "hasInfo"
    <2>1. PICK l \in links : t = A(l[3], "GeographicRegion")
      BY <1>2
    <2>2. t[1] = l[3] /\ t[2] = "a"
      BY <2>1 DEF A
    <2>3. l \in V /\ l[2] \in Joins
      BY <1>1 DEF Joins, HubLinks
    <2> QED
      BY <1>1, <2>2, <2>3 DEF LinkIsTyped, HubIsJoined, RegionIsPointedAt, HubLinks
  <1>7. Answered(V, V)
    BY <1>5, <1>6 DEF Answered
  <1>8. Answered(V \cup census, V \cup census)
    BY <1>4, <1>7, SelfAnswered
  <1> QED
    BY <1>3, <1>8

\* An indicator leads to a sector that a snapshot is in, typed before this phase.
LEMMA IndicatorsAnswer ==
  ASSUME NEW G, Answered(G, G)
  PROVE  Answered(link_indicators_to_equity_sectors(G), G)
  <1> DEFINE bls == {r \in Rel(G, "belongsToSector") : KindOf(r[1]) \in SourceKinds["bls"]}
             held == {r[2] : r \in {q \in Rel(G, "inEquitySector") :
                                       KindOf(q[1]) \in SourceKinds["market"]}}
             Equity(e) == <<"equitySector", e>>
             V == link_indicators_to_equity_sectors(G)
  <1>1. V = {<<x[1][1], "leadsTo", Equity(x[2][1])>> : x \in
                {x \in bls \X EQUITY_TO_ECONOMIC_SECTORS :
                    x[1][2] = Sector(x[2][2]) /\ Equity(x[2][1]) \in held}}
    BY DEF link_indicators_to_equity_sectors
  <1>2. ASSUME NEW h \in held
        PROVE  \E w \in G : w[1] = h /\ w[2] = "a"
    <2>1. PICK t \in G : t[2] = "inEquitySector" /\ t[3] = h
      BY DEF Rel
    <2>2. LinkIsTyped(t, G)
      BY DEF Answered
    <2> QED
      BY <2>1, <2>2 DEF LinkIsTyped, HubLinks
  <1> HIDE DEF bls, held, V, Equity
  <1>3. \A u \in V : u[2] = "leadsTo" /\ u[3] \in held
    BY <1>1
  <1>4. Answered(V, G)
    BY <1>2, <1>3 DEF Answered, LinkIsTyped, HubIsJoined, RegionIsPointedAt, HubLinks
  <1> QED
    BY <1>4 DEF V

\* The measurements the sources share are no hubs.
LEMMA MeasurementsArePlain ==
  ASSUME NEW G, NEW srcs
  PROVE  Plain(_align_measurement_types(G, srcs))
  <1>1. ASSUME NEW u \in _align_measurement_types(G, srcs)
        PROVE  u[2] = "a" /\ u[3] \notin HubClasses
    <2>1. PICK m \in MeasurementClasses : \E e : u = A(e, m[2])
      BY DEF _align_measurement_types
    <2>2. m[2] \notin Hubs
      BY TablesAreApart
    <2> QED
      BY <2>1, <2>2 DEF A, HubClasses
  <1> QED
    BY <1>1 DEF Plain, HubLinks

LEMMA CrossAnswers ==
  ASSUME NEW G, Answered(G, G), NEW tickers, NEW subs
  PROVE  Answered(CrossEnrich(G, tickers, subs), G \cup CrossEnrich(G, tickers, subs))
  <1> DEFINE srcs == _detect_sources(G)
             sectors == _link_by_sector(G)
             filed == IF "sec" \in srcs THEN sec_sector_keys(G) ELSE {}
             quoted == IF "market" \in srcs THEN market_sector_keys(G) ELSE {}
             companies == _link_by_company(G, srcs, tickers)
             regions == _link_by_geography(G, srcs)
             leads == IF {"bls", "market"} \subseteq srcs
                      THEN link_indicators_to_equity_sectors(G) ELSE {}
             peers == IF "market" \in srcs THEN link_by_sub_industry(G, srcs, tickers, subs) ELSE {}
             measures == _align_measurement_types(G, srcs)
             new == sectors \cup filed \cup quoted \cup companies \cup regions
                    \cup leads \cup peers \cup measures
  <1>1. CrossEnrich(G, tickers, subs) \in {{}, new \ G}
    BY DEF CrossEnrich
  <1>2. \A Y : Answered({}, Y)
    BY DEF Answered
  <1>3. Answered(sectors, sectors) /\ Answered(filed, filed) /\ Answered(quoted, quoted)
    BY <1>2, NamedSectorsAnswer, FiledSectorsAnswer, QuotedSectorsAnswer
  <1>4. Answered(companies, companies) /\ Answered(peers, companies)
    BY <1>2, CompaniesAnswer, SubIndustriesAnswer
  <1>5. Answered(regions, regions)
    <2>1. \A t \in G : t[2] = "hasInfo" => KindOf(t[1]) # "region"
      BY DEF Answered
    <2> QED
      BY <2>1, RegionsAnswer
  <1>6. Answered(leads, G)
    BY <1>2, IndicatorsAnswer
  <1>7. Answered(measures, G)
    BY MeasurementsArePlain, PlainIsAnswered
  <1> HIDE DEF sectors, filed, quoted, companies, regions, leads, peers, measures
  <1> DEFINE all == G \cup new
  <1>8. /\ G \subseteq all /\ sectors \subseteq all /\ filed \subseteq all /\ quoted \subseteq all
        /\ companies \subseteq all /\ regions \subseteq all
    OBVIOUS
  <1>9. Answered(new, all)
    <2> HIDE DEF all
    <2>1. /\ Answered(sectors, all) /\ Answered(filed, all) /\ Answered(quoted, all)
          /\ Answered(companies, all) /\ Answered(peers, all) /\ Answered(regions, all)
          /\ Answered(leads, all) /\ Answered(measures, all)
      BY <1>3, <1>4, <1>5, <1>6, <1>7, <1>8, AnswersStay
    <2> QED
      BY <2>1, AnswersJoin
  <1>10. all = G \cup (new \ G) /\ new \ G \subseteq new
    OBVIOUS
  <1> HIDE DEF new, all
  <1>11. Answered(new \ G, G \cup (new \ G))
    BY <1>9, <1>10, AnswersOfFewer
  <1> QED
    BY <1>1, <1>2, <1>11

\* The vocabulary and what is read off the graph: no links, no types.
LEMMA OntologyIsPlain ==
  ASSUME NEW G, NEW overrides
  PROVE  Plain(OntologyEnrich(G, overrides))
  <1> DEFINE Words == {"equivalentProperty", "equivalentClass", "prefLabel", "subClassOf",
                       "subPropertyOf", "domain", "range"}
  <1>1. \A t \in _fold_predicates_to_unified(G) : t[2] \notin HubLinks \cup {"a", "hasInfo"}
    <2>1. ASSUME NEW t \in _fold_predicates_to_unified(G)
          PROVE  \E m \in PROPERTY_MAPPINGS : t[2] = m[2]
      <3>1. PICK m \in PROPERTY_MAPPINGS : \E u : t = <<u[1], m[2], u[3]>>
        BY DEF _fold_predicates_to_unified
      <3> QED
        BY <3>1
    <2> QED
      BY <2>1, TablesAreApart
  <1>2. \A t \in _create_property_equivalences \cup _create_class_equivalences(overrides)
                 \cup _derive_property_hierarchy \cup _derive_class_hierarchy(G, overrides) :
           t[2] \in Words
    <2>1. \A t \in _create_property_equivalences : t[2] \in Words
      BY DEF _create_property_equivalences
    <2>2. \A t \in _create_class_equivalences(overrides) : t[2] \in Words
      BY DEF _create_class_equivalences
    <2>3. \A t \in _derive_property_hierarchy : t[2] \in Words
      BY DEF _derive_property_hierarchy
    <2>4. \A t \in _derive_class_hierarchy(G, overrides) : t[2] \in Words
      BY DEF _derive_class_hierarchy
    <2> QED
      BY <2>1, <2>2, <2>3, <2>4
  <1>3. \A t \in _normalize_labels(G) : t[2] \in Words
    BY DEF _normalize_labels
  <1>4. \A t \in _derive_property_schema(G) : t[2] \in Words
    <2>1. \E D, R : _derive_property_schema(G) =
                        {<<P(d[1]), "domain", C(d[2])>> : d \in D}
                        \cup {<<P(d[1]), "range", C(d[2])>> : d \in R}
      BY DEF _derive_property_schema
    <2> QED
      BY <2>1
  <1>5. Words \cap (HubLinks \cup {"a", "hasInfo"}) = {}
    BY DEF HubLinks
  <1> HIDE DEF Words
  <1>6. \A t \in OntologyEnrich(G, overrides) : t[2] \notin HubLinks \cup {"a", "hasInfo"}
    BY <1>1, <1>2, <1>3, <1>4, <1>5 DEF OntologyEnrich
  <1> QED
    BY <1>6 DEF Plain

----------------------------------------------------------------------------
LEMMA LinkersAnswer ==
  ASSUME NEW G, SourcesSpeakForThemselves, AfterLinkers(G)
  PROVE  Answered(G, G)
  <1>1. Answered(Loaded, G)
    BY DEF SourcesSpeakForThemselves, IsOfASource, MintedKinds, Answered, LinkIsTyped,
       HubIsJoined, RegionIsPointedAt, HubClasses, Hubs
  <1>2. ASSUME NEW new, MayGive(Loaded, new), new \subseteq G
        PROVE  Answered(new, G)
    <2>1. Answered(new, Loaded \cup new)
      BY <1>2, BlsAnswers, SecAnswers, NoaaAnswers, MarketAnswers DEF MayGive
    <2>2. Loaded \cup new \subseteq G
      BY <1>2 DEF AfterLinkers, FromLinkers
    <2> QED
      BY <2>1, <2>2, AnswersStay
  <1>3. \A t \in G : t \in Loaded \/ \E new : MayGive(Loaded, new) /\ t \in new /\ new \subseteq G
    BY DEF AfterLinkers, FromLinkers
  <1> QED
    BY <1>1, <1>2, <1>3 DEF Answered

LEMMA EveryGraphAnswers ==
  ASSUME NEW G, SourcesSpeakForThemselves, AfterOntology(G)
  PROVE  Answered(G, G)
  <1>1. ASSUME NEW H, NEW new, Answered(H, H), Answered(new, H \cup new)
        PROVE  Answered(H \cup new, H \cup new)
    <2>1. Answered(H, H \cup new)
      BY <1>1, AnswersStay
    <2> QED
      BY <1>1, <2>1, AnswersJoin
  <1>2. \A H : AfterTemporal(H) => Answered(H, H)
    BY <1>1, LinkersAnswer, PeriodsArePlain, PlainIsAnswered DEF AfterTemporal
  <1>3. \A H : AfterCross(H) => Answered(H, H)
    BY <1>1, <1>2, CrossAnswers DEF AfterCross
  <1> QED
    BY <1>1, <1>3, OntologyIsPlain, PlainIsAnswered DEF AfterOntology

\* What is linked to across sources is typed and every hub is linked, in every
\* graph a run may enrich: whatever the documents say in their own vocabularies,
\* whichever linkers raise and whatever constituents each step reads.
THEOREM HubsHoldTogether == Spec => []HubsAreConnected
  <1>1. ASSUME PhaseInv, JobIsGiven
        PROVE  HubsAreConnected
    <2> SUFFICES ASSUME stage = "enriched" PROVE HubsAreConnected
      BY DEF HubsAreConnected, Enriched
    <2>0. SourcesSpeakForThemselves
      BY <1>1, LoadedIsTheSources DEF Idle
    <2>1. Answered(graph, graph)
      BY <1>1, <2>0, EveryGraphAnswers DEF PhaseInv
    <2> DEFINE linked == {<<t[1], t[3]>> : t \in Only(graph, Joins)}
    <2>2. \A u \in graph : u[2] \in Joins => <<u[1], u[3]>> \in linked
      BY DEF Only
    <2> HIDE DEF linked
    <2>3. \A t \in Only(graph, HubLinks) : \E u \in graph : u[1] = t[3] /\ u[2] = "a"
      BY <2>1 DEF Answered, LinkIsTyped, Only
    <2>4. ASSUME NEW h \in TypedAny(graph, Hubs)
          PROVE  \E r \in linked : h \in {r[1], r[2]}
      <3>1. PICK t \in graph : t[1] = h /\ t[2] = "a" /\ t[3] \in HubClasses
        <4>1. PICK c \in Hubs : h \in Typed(graph, c)
          BY DEF TypedAny
        <4>2. PICK t \in graph : t[1] = h /\ t[2] = "a" /\ t[3] = <<"class", c>>
          BY <4>1 DEF Typed
        <4> QED
          BY <4>2 DEF HubClasses
      <3>2. HubIsJoined(t, graph)
        BY <2>1 DEF Answered
      <3>3. PICK u \in graph : u[2] \in Joins /\ (u[1] = h \/ u[3] = h)
        BY <3>1, <3>2 DEF HubIsJoined
      <3>4. <<u[1], u[3]>> \in linked /\ h \in {<<u[1], u[3]>>[1], <<u[1], u[3]>>[2]}
        BY <2>2, <3>3
      <3> QED
        BY <3>4
    <2>5. ASSUME NEW h \in Typed(graph, "GeographicRegion")
          PROVE  \E r \in linked : r[2] = h /\ r[1] # h
      <3>1. PICK t \in graph : t[1] = h /\ t[2] = "a" /\ t[3] = <<"class", "GeographicRegion">>
        BY DEF Typed
      <3>2. RegionIsPointedAt(t, graph)
        BY <2>1 DEF Answered
      <3>3. PICK u \in graph : u[2] \in Joins /\ u[3] = h /\ u[1] # h
        BY <3>1, <3>2 DEF RegionIsPointedAt
      <3>4. <<u[1], u[3]>> \in linked /\ <<u[1], u[3]>>[2] = h /\ <<u[1], u[3]>>[1] # h
        BY <2>2, <3>3
      <3> QED
        BY <3>4
    <2> QED
      BY <2>3, <2>4, <2>5 DEF HubsAreConnected, linked, Joins
  <1>2. Init => QueueOfSettings /\ JobIsGiven
    BY SettingsAssumption DEF Init, QueueOfSettings, JobIsGiven
  <1> QED
    BY <1>1, <1>2, StepQueue, StepJob, GraphIsMadeInPhases, PTL DEF Spec

----------------------------------------------------------------------------
(* What each phase writes: the predicates, the classes, and the nodes that  *)
(* are the same as others. What the sources say is theirs alone.            *)

Correlations == {k[3] : k \in KNOWN_CORRELATIONS}
Dates0 == {ps[1] : ps \in DatePredicates}

\* Of the linkers' making, over the loaded triples L.
ByALinker(t, L) ==
    /\ t[2] \in LinkerPredicates \cup Correlations
    /\ t[2] = "a" => t[3] \in {<<"class", c>> : c \in LinkerClasses}
    /\ t[2] = "sameAs" => \E u \in L : u[1] = t[3]
AllByALinker(X, L) == \A t \in X : ByALinker(t, L)

\* And not of the one that links the alerts that escalate.
ByAnother(t, L) == ByALinker(t, L) /\ t[2] # "escalatesTo"
AllByAnother(X, L) == \A t \in X : ByAnother(t, L)

LEMMA LinkByALinker ==
  ASSUME NEW t, NEW L, t[2] \in (LinkerPredicates \cup Correlations) \ {"a", "sameAs", "escalatesTo"}
  PROVE  ByAnother(t, L)
  BY DEF ByAnother, ByALinker

LEMMA EscalationByALinker ==
  ASSUME NEW t, NEW L, t[2] = "escalatesTo"
  PROVE  ByALinker(t, L)
  BY DEF ByALinker, LinkerPredicates

LEMMA TypeByALinker ==
  ASSUME NEW x, NEW c \in LinkerClasses, NEW L
  PROVE  ByAnother(A(x, c), L)
  <1>1. A(x, c)[2] = "a" /\ A(x, c)[3] = <<"class", c>>
    BY DEF A
  <1> QED
    BY <1>1 DEF ByAnother, ByALinker, LinkerPredicates

LEMMA ChainByALinker ==
  ASSUME NEW rows, NEW L
  PROVE  AllByAnother(sequence_to_triples(rows, "precedes"), L)
  <1>1. \A t \in sequence_to_triples(rows, "precedes") : t[2] = "precedes"
    BY DEF sequence_to_triples
  <1> QED
    BY <1>1, LinkByALinker DEF AllByAnother, LinkerPredicates

\* The companies and the persons are the same as who states the number.
LEMMA UnifiedByALinker ==
  ASSUME NEW S, NEW L, S \subseteq L, NEW p, NEW kind, NEW class \in LinkerClasses
  PROVE  AllByAnother(UnifyByCik(S, p, kind, class), L)
  <1> DEFINE shared == SharedCiks(S, p)
             Node(c) == <<kind, c[2]>>
             U == UnifyByCik(S, p, kind, class)
  <1>1. U = {A(Node(c), class) : c \in shared} \cup {<<Node(c), "hasCik", c>> : c \in shared}
            \cup {<<Node(r[2]), "sameAs", r[1]>> : r \in {q \in Rel(S, p) : q[2] \in shared}}
    BY DEF UnifyByCik
  <1> HIDE DEF shared, U, Node
  <1>2. ASSUME NEW u \in U
        PROVE  ByAnother(u, L)
    <2>1. CASE \E c \in shared : u = A(Node(c), class)
      BY <2>1, TypeByALinker
    <2>2. CASE \E c \in shared : u = <<Node(c), "hasCik", c>>
      <3>1. u[2] = "hasCik"
        BY <2>2
      <3> QED
        BY <3>1, LinkByALinker DEF LinkerPredicates
    <2>3. CASE \E r \in Rel(S, p) : u = <<Node(r[2]), "sameAs", r[1]>>
      <3>1. PICK r \in Rel(S, p) : u = <<Node(r[2]), "sameAs", r[1]>>
        BY <2>3
      <3>2. u[2] = "sameAs" /\ u[3] = r[1]
        BY <3>1
      <3>3. PICK t \in S : r = <<t[1], t[3]>>
        BY DEF Rel
      <3> QED
        BY <3>2, <3>3 DEF ByAnother, ByALinker, LinkerPredicates
    <2> QED
      BY <1>1, <2>1, <2>2, <2>3
  <1> QED
    BY <1>2 DEF U, AllByAnother

LEMMA SecByALinker ==
  ASSUME NEW G, NEW new \in SecEnrichments(G)
  PROVE  AllByAnother(new, G)
  <1> DEFINE S == _filter_sec_triples(G)
  <1>0. S \subseteq G
    BY DEF _filter_sec_triples
  <1>1. AllByAnother(_unify_company_entities(S), G) /\ AllByAnother(_unify_person_entities(S), G)
    <2>1. "UnifiedCompany" \in LinkerClasses /\ "UnifiedPerson" \in LinkerClasses
      BY DEF LinkerClasses
    <2> HIDE DEF S
    <2> QED
      BY <1>0, <2>1, UnifiedByALinker DEF _unify_company_entities, _unify_person_entities
  <1>2. AllByAnother(_link_temporal_sequences(S), G)
    <2>1. \A types, group : AllByAnother(FilingSequence(S, types, group), G)
      BY ChainByALinker DEF FilingSequence
    <2>2. AllByAnother(_link_transaction_sequences(S), G)
      BY ChainByALinker DEF _link_transaction_sequences
    <2> QED
      BY <2>1, <2>2 DEF _link_temporal_sequences, _link_ownership_filing_sequences,
         _link_periodic_reporting_sequences, AllByAnother
  <1>3. AllByAnother(_apply_violation_patterns(S), G)
    <2> DEFINE words == {r \in UriWords : KindOf(r[1]) \in SecKinds /\ r[1] \in {t[1] : t \in S}}
                        \cup UNION {{<<r[1], w>> : w \in r[2][2]} :
                                       r \in {q \in Rel(S, "label") : KindOf(q[1]) \in SecKinds}}
               matched == Via(words, ViolationWords)
    <2>1. _apply_violation_patterns(S) =
              {A(<<"violation", m[2]>>, "ViolationType") : m \in matched}
              \cup {<<<<"violation", m[2]>>, "label", <<"text", {m[2]}>>>> : m \in matched}
              \cup {<<m[1], "hasViolationType", <<"violation", m[2]>>>> : m \in matched}
      BY DEF _apply_violation_patterns
    <2> HIDE DEF matched
    <2>2. ASSUME NEW t \in _apply_violation_patterns(S)
          PROVE  (\E x : t = A(x, "ViolationType")) \/ t[2] \in {"label", "hasViolationType"}
      <3>1. \/ t \in {A(<<"violation", m[2]>>, "ViolationType") : m \in matched}
            \/ t \in {<<<<"violation", m[2]>>, "label", <<"text", {m[2]}>>>> : m \in matched}
            \/ t \in {<<m[1], "hasViolationType", <<"violation", m[2]>>>> : m \in matched}
        BY <2>1, Zenon
      <3>2. CASE t \in {A(<<"violation", m[2]>>, "ViolationType") : m \in matched}
        BY <3>2
      <3>3. CASE t \in {<<<<"violation", m[2]>>, "label", <<"text", {m[2]}>>>> : m \in matched}
        <4>1. PICK m \in matched : t = <<<<"violation", m[2]>>, "label", <<"text", {m[2]}>>>>
          BY <3>3
        <4> QED
          BY <4>1
      <3>4. CASE t \in {<<m[1], "hasViolationType", <<"violation", m[2]>>>> : m \in matched}
        <4>1. PICK m \in matched : t = <<m[1], "hasViolationType", <<"violation", m[2]>>>>
          BY <3>4
        <4> QED
          BY <4>1
      <3> QED
        BY <3>1, <3>2, <3>3, <3>4
    <2> QED
      BY <2>2, TypeByALinker, LinkByALinker DEF AllByAnother, LinkerClasses, LinkerPredicates
  <1>4. AllByAnother(_type_linked_codes(S), G)
    <2>1. \A t \in _type_linked_codes(S) :
             \/ \E x : t = A(x, "Form8KItem") \/ t = A(x, "XbrlConcept")
             \/ t[2] \in {"label", "hasItemNumber", "hasConceptName"}
      BY DEF _type_linked_codes
    <2> QED
      BY <2>1, TypeByALinker, LinkByALinker DEF AllByAnother, LinkerClasses, LinkerPredicates
  <1>5. new \subseteq _unify_company_entities(S) \cup _unify_person_entities(S)
                      \cup _link_temporal_sequences(S) \cup _apply_violation_patterns(S)
                      \cup _type_linked_codes(S)
    BY DEF SecEnrichments
  <1> QED
    BY <1>1, <1>2, <1>3, <1>4, <1>5 DEF AllByAnother

LEMMA NoaaByALinker ==
  ASSUME NEW G, NEW new \in NoaaEnrichments(G)
  PROVE  AllByALinker(new, G)
  <1> DEFINE N == _noaa_triples(G)
  <1>1. AllByALinker(NoaaSequences(N), G)
    BY ChainByALinker DEF NoaaSequences, AllByALinker, AllByAnother, ByAnother
  <1>2. \A t \in _link_geographic_relationships(N) \cup _link_event_relationships(N) :
           t[2] \in {"affectsSameRegion", "sameEventType"}
    BY DEF _link_geographic_relationships, _link_event_relationships, Link
  <1>3. \A t \in _classify_event_categories(N) :
           t[2] \in {"hasEventClassification", "eventOfCategory"}
    BY DEF _classify_event_categories
  <1>4. \A e \in _link_severity_escalations(N) : \A t \in e : t[2] = "escalatesTo"
    BY DEF _link_severity_escalations, Escalates
  <1>5. \/ new = {}
        \/ \E e \in _link_severity_escalations(N) :
              new = NoaaSequences(N) \cup _link_geographic_relationships(N)
                    \cup _link_event_relationships(N) \cup _classify_event_categories(N) \cup e
    BY DEF NoaaEnrichments
  <1> HIDE DEF N
  <1>6. \A t \in new : \/ t \in NoaaSequences(N)
                       \/ t[2] \in LinkerPredicates \ {"a", "sameAs"}
    BY <1>2, <1>3, <1>4, <1>5 DEF LinkerPredicates
  <1> QED
    BY <1>1, <1>6, EscalationByALinker, LinkByALinker DEF AllByALinker, ByAnother

LEMMA BlsByALinker ==
  ASSUME NEW G, NEW new \in BlsEnrichments(G)
  PROVE  AllByAnother(new, G)
  <1> DEFINE B == _filter_bls_triples(G)
  <1>1. AllByAnother(_apply_sector_patterns(B), G)
    <2> DEFINE matched == UNION {{<<e, k[3]>> : e \in Naming(B, k[1], k[2])} : k \in SectorWords}
    <2>0. _apply_sector_patterns(B) =
              {A(<<"sector", m[2]>>, "EconomicSector") : m \in matched}
              \cup {<<<<"sector", m[2]>>, "label", <<"text", {}>>>> : m \in matched}
              \cup {<<m[1], "belongsToSector", <<"sector", m[2]>>>> : m \in matched}
      BY DEF _apply_sector_patterns
    <2> HIDE DEF matched
    <2>1. ASSUME NEW t \in _apply_sector_patterns(B)
          PROVE  (\E x : t = A(x, "EconomicSector")) \/ t[2] \in {"label", "belongsToSector"}
      <3>1. \/ t \in {A(<<"sector", m[2]>>, "EconomicSector") : m \in matched}
            \/ t \in {<<<<"sector", m[2]>>, "label", <<"text", {}>>>> : m \in matched}
            \/ t \in {<<m[1], "belongsToSector", <<"sector", m[2]>>>> : m \in matched}
        BY <2>0, Zenon
      <3>2. CASE t \in {A(<<"sector", m[2]>>, "EconomicSector") : m \in matched}
        BY <3>2
      <3>3. CASE t \in {<<<<"sector", m[2]>>, "label", <<"text", {}>>>> : m \in matched}
        <4>1. PICK m \in matched : t = <<<<"sector", m[2]>>, "label", <<"text", {}>>>>
          BY <3>3
        <4> QED
          BY <4>1
      <3>4. CASE t \in {<<m[1], "belongsToSector", <<"sector", m[2]>>>> : m \in matched}
        <4>1. PICK m \in matched : t = <<m[1], "belongsToSector", <<"sector", m[2]>>>>
          BY <3>4
        <4> QED
          BY <4>1
      <3> QED
        BY <3>1, <3>2, <3>3, <3>4
    <2> QED
      BY <2>1, TypeByALinker, LinkByALinker DEF AllByAnother, LinkerClasses, LinkerPredicates
  <1>2. AllByAnother(_apply_known_correlations(B), G)
    <2>1. \A t \in _apply_known_correlations(B) : t[2] \in Correlations
      BY CorrelationsWrite DEF Correlations
    <2>2. Correlations \cap {"a", "sameAs", "escalatesTo"} = {}
      BY TablesAssumption DEF Correlations, PhasePredicates, LinkerPredicates
    <2> QED
      BY <2>1, <2>2, LinkByALinker DEF AllByAnother
  <1>3. \A seqs \in BlsSequences(B) : AllByAnother(seqs, G)
    <2>1. \A m : \A o \in _link_single_measurement_type(B, m) : AllByAnother(o, G)
      BY ChainByALinker DEF _link_single_measurement_type
    <2>2. ASSUME NEW seqs \in BlsSequences(B)
          PROVE  \A t \in seqs : \E m : \E o \in _link_single_measurement_type(B, m) : t \in o
      BY SequencedByType
    <2> QED
      BY <2>1, <2>2 DEF AllByAnother
  <1>4. \/ new = {}
        \/ \E seqs \in BlsSequences(B) :
              new \subseteq _apply_sector_patterns(B) \cup _apply_known_correlations(B) \cup seqs
    BY DEF BlsEnrichments
  <1> QED
    BY <1>1, <1>2, <1>3, <1>4 DEF AllByAnother

LEMMA MarketByALinker ==
  ASSUME NEW G, NEW tickers, NEW new \in MarketEnrichments(G, tickers)
  PROVE  AllByAnother(new, G)
  <1>1. AllByAnother(_link_snapshot_sequences(G), G)
    BY ChainByALinker DEF _link_snapshot_sequences
  <1>2. AllByAnother(_classify_sectors(G, tickers), G)
    <2> DEFINE belongs == Via(Rel(G, "symbol") \cup Underlying(G), tickers)
    <2>0. _classify_sectors(G, tickers) =
              {<<b[1], "inEquitySector", <<"equitySector", b[2]>>>> : b \in belongs}
              \cup {A(<<"equitySector", b[2]>>, "EquitySector") : b \in belongs}
      BY DEF _classify_sectors
    <2> HIDE DEF belongs
    <2>1. ASSUME NEW t \in _classify_sectors(G, tickers)
          PROVE  (\E x : t = A(x, "EquitySector")) \/ t[2] = "inEquitySector"
      <3>1. CASE \E b \in belongs : t = A(<<"equitySector", b[2]>>, "EquitySector")
        BY <3>1
      <3>2. CASE ~(\E b \in belongs : t = A(<<"equitySector", b[2]>>, "EquitySector"))
        BY <2>0, <3>2
      <3> QED
        BY <3>1, <3>2
    <2> QED
      BY <2>1, TypeByALinker, LinkByALinker DEF AllByAnother, LinkerClasses, LinkerPredicates
  <1>3. AllByAnother(_compute_moneyness(G), G)
    <2> DEFINE Of(o, p) == {r[2] : r \in {q \in Rel(G, p) : q[1] = o}}
               placed == UNION {{<<o, Moneyness(_canonical_contract_type(c), k[2], u[2])>> :
                                    c \in Of(o, "contractType"), k \in Of(o, "strikePrice"),
                                    u \in Of(o, "underlyingPrice")} :
                                o \in Typed(G, "OptionSnapshot")}
               found == {m \in placed : m[2] # "none"}
    <2>1. _compute_moneyness(G) = {<<m[1], "hasMoneyness", <<"moneyness", m[2]>>>> : m \in found}
                                  \cup {A(<<"moneyness", m[2]>>, "Moneyness") : m \in found}
      BY DEF _compute_moneyness
    <2> HIDE DEF placed, found
    <2>2. ASSUME NEW t \in _compute_moneyness(G)
          PROVE  (\E x : t = A(x, "Moneyness")) \/ t[2] = "hasMoneyness"
      <3>1. CASE \E m \in found : t = A(<<"moneyness", m[2]>>, "Moneyness")
        BY <3>1
      <3>2. CASE ~(\E m \in found : t = A(<<"moneyness", m[2]>>, "Moneyness"))
        BY <2>1, <3>2
      <3> QED
        BY <3>1, <3>2
    <2> QED
      BY <2>2, TypeByALinker, LinkByALinker DEF AllByAnother, LinkerClasses, LinkerPredicates
  <1>4. \A linked \in _link_options_to_underlying(G) : \A t \in linked : t[2] = "hasUnderlyingEquity"
    BY DEF _link_options_to_underlying
  <1>5. \A paired \in _identify_option_strategies(G) : \A t \in paired :
           t[2] \in {"straddleWith", "callSpreadWith", "putSpreadWith", "strangleWith"}
    <2>1. \A chains : \A t \in _identify_straddles(chains) : t[2] = "straddleWith"
      BY DEF _identify_straddles
    <2>2. ASSUME NEW chains
          PROVE  \A t \in _identify_vertical_spreads(chains) : t[2] \in {"callSpreadWith", "putSpreadWith"}
      <3> DEFINE Key(r) == <<r.strike, r.entity[2]>>
                 Of(right) == Keyed({r \in chains : r.right = right}, Key)
                 S(right) == sequence_within_partitions(Of(right))
      <3>1. _identify_vertical_spreads(chains) =
               {<<x[1].entity, "callSpreadWith", x[2].entity>> : x \in S("CALL")}
               \cup {<<x[1].entity, "putSpreadWith", x[2].entity>> : x \in S("PUT")}
        BY DEF _identify_vertical_spreads
      <3> HIDE DEF S
      <3> QED
        BY <3>1
    <2>3. ASSUME NEW chains, NEW pairs \in _identify_strangles(chains)
          PROVE  \A t \in pairs : t[2] = "strangleWith"
      <3>1. PICK cs, ps : pairs = _pair_by_rank(cs, ps)
        BY DEF _identify_strangles
      <3> QED
        BY <3>1 DEF _pair_by_rank
    <2>4. ASSUME NEW paired \in _identify_option_strategies(G)
          PROVE  \E chains : \E pairs \in _identify_strangles(chains) :
                    paired = (_identify_straddles(chains) \cup _identify_vertical_spreads(chains)) \cup pairs
      BY DEF _identify_option_strategies
    <2>5. ASSUME NEW paired \in _identify_option_strategies(G), NEW t \in paired
          PROVE  t[2] \in {"straddleWith", "callSpreadWith", "putSpreadWith", "strangleWith"}
      BY <2>1, <2>2, <2>3, <2>4
    <2> QED
      BY <2>5
  <1>6. \/ new = {}
        \/ \E l \in _link_options_to_underlying(G), q \in _identify_option_strategies(G) :
              new = (_link_snapshot_sequences(G) \cup _classify_sectors(G, tickers)
                     \cup _compute_moneyness(G)) \cup l \cup q
    BY DEF MarketEnrichments
  <1>7. ASSUME NEW t \in new
        PROVE  \/ t \in _link_snapshot_sequences(G) \cup _classify_sectors(G, tickers) \cup _compute_moneyness(G)
               \/ t[2] \in LinkerPredicates \ {"a", "sameAs", "escalatesTo"}
    BY <1>4, <1>5, <1>6 DEF LinkerPredicates
  <1> QED
    BY <1>1, <1>2, <1>3, <1>7, LinkByALinker DEF AllByAnother

\* Before the periods are unified a triple is loaded or a linker's.
LEMMA LinkersWrite ==
  ASSUME NEW G, AfterLinkers(G), NEW t \in G
  PROVE  t \in Loaded \/ ByALinker(t, Loaded)
  BY SecByALinker, NoaaByALinker, BlsByALinker, MarketByALinker
     DEF AfterLinkers, FromLinkers, MayGive, AllByALinker, AllByAnother, ByAnother

\* Of the cross-source phase's making, over the graph G it finds.
ByCross(t, G) ==
    /\ t[2] \in CrossPredicates
    /\ t[2] = "a" => t[3] \in {<<"class", c>> : c \in Hubs \cup {m[2] : m \in MeasurementClasses}}
    /\ t[2] = "sameAs" => t[3] \in Typed(G, "JoltsRegion")

LEMMA LinkByCross ==
  ASSUME NEW t, NEW G, t[2] \in CrossPredicates \ {"a", "sameAs"}
  PROVE  ByCross(t, G)
  BY DEF ByCross

LEMMA TypeByCross ==
  ASSUME NEW x, NEW c \in Hubs, NEW G
  PROVE  ByCross(A(x, c), G)
  <1>1. A(x, c)[2] = "a" /\ A(x, c)[3] = <<"class", c>>
    BY DEF A
  <1> QED
    BY <1>1 DEF ByCross, CrossPredicates

\* Of one of its steps that do not link to companies.
ByCrossAlone(t, G) == ByCross(t, G) /\ t[2] # "refersToCompany"
LEMMA TypeAlone ==
  ASSUME NEW x, NEW c \in Hubs, NEW G
  PROVE  ByCrossAlone(A(x, c), G)
  <1>1. A(x, c)[2] = "a"
    BY DEF A
  <1> QED
    BY <1>1, TypeByCross DEF ByCrossAlone

\* The sectors, whichever step links to them.
LEMMA SectorsByCross ==
  ASSUME NEW G
  PROVE  \A t \in _link_by_sector(G) \cup sec_sector_keys(G) \cup market_sector_keys(G) : ByCrossAlone(t, G)
  <1> DEFINE Sectoral(t) == \/ \E x : t = A(x, "EconomicSector")
                            \/ t[2] \in {"belongsToSector", "relatedToEconomicSector"}
  <1>1. ASSUME NEW t \in _link_by_sector(G)
        PROVE  Sectoral(t)
    <2> DEFINE out == UNION {SourceKinds[s] : s \in DOMAIN SourceKinds \ KeywordSources}
               named == {u[1] : u \in {w \in G : KindOf(w[1]) \notin out
                                          \cup {"sector", "equitySector", "moneyness"}}}
               matched == {m \in Via(UriWords, SectorKeywords) : m[1] \in named}
    <2>1. _link_by_sector(G) = {A(Sector(m[2]), "EconomicSector") : m \in matched}
                               \cup {<<m[1], "belongsToSector", Sector(m[2])>> : m \in matched}
      BY DEF _link_by_sector
    <2> HIDE DEF matched
    <2>2. CASE \E m \in matched : t = A(Sector(m[2]), "EconomicSector")
      BY <2>2
    <2>3. CASE ~(\E m \in matched : t = A(Sector(m[2]), "EconomicSector"))
      BY <2>1, <2>3
    <2> QED
      BY <2>2, <2>3
  <1>2. ASSUME NEW t \in sec_sector_keys(G)
        PROVE  Sectoral(t)
    <2> DEFINE MajorGroup(x) == x[2] \div 100
               filed == {r \in Rel(G, "hasSic") : r[2][2] < 10000}
               placed == UNION {{<<c, d[3]>> : c \in {q[2] : q \in {y \in issuer_ciks(G) :
                                     <<r[1], "hasIssuer", y[1]>> \in G}},
                                     d \in {e \in SIC_DIVISIONS : MajorGroup(r[2]) \in e[1]..e[2]}} :
                                r \in filed}
    <2>1. sec_sector_keys(G) = {<<Company(x[1]), "belongsToSector", Sector(x[2])>> : x \in placed}
                               \cup {A(Sector(x[2]), "EconomicSector") : x \in placed}
      BY DEF sec_sector_keys
    <2> HIDE DEF placed
    <2>2. CASE \E x \in placed : t = A(Sector(x[2]), "EconomicSector")
      BY <2>2
    <2>3. CASE ~(\E x \in placed : t = A(Sector(x[2]), "EconomicSector"))
      BY <2>1, <2>3
    <2> QED
      BY <2>2, <2>3
  <1>3. ASSUME NEW t \in market_sector_keys(G)
        PROVE  Sectoral(t)
    <2> DEFINE matched == {m \in EQUITY_TO_ECONOMIC_SECTORS :
                              <<"equitySector", m[1]>> \in Typed(G, "EquitySector")}
    <2>1. market_sector_keys(G) =
             {A(Sector(m[2]), "EconomicSector") : m \in matched}
             \cup {<<<<"equitySector", m[1]>>, "relatedToEconomicSector", Sector(m[2])>> : m \in matched}
      BY DEF market_sector_keys
    <2> HIDE DEF matched
    <2>2. CASE \E m \in matched : t = A(Sector(m[2]), "EconomicSector")
      BY <2>2
    <2>3. CASE ~(\E m \in matched : t = A(Sector(m[2]), "EconomicSector"))
      BY <2>1, <2>3
    <2> QED
      BY <2>2, <2>3
  <1>4. ASSUME NEW t, Sectoral(t)
        PROVE  ByCrossAlone(t, G)
    <2>1. t[2] \in {"a", "belongsToSector", "relatedToEconomicSector"}
      BY <1>4 DEF A
    <2>2. ByCross(t, G)
      BY <1>4, TypeByCross, LinkByCross DEF Hubs, CrossPredicates, HubLinks
    <2> QED
      BY <2>1, <2>2 DEF ByCrossAlone
  <1> HIDE DEF Sectoral
  <1> QED
    BY <1>1, <1>2, <1>3, <1>4

LEMMA CompaniesByCross ==
  ASSUME NEW G, NEW H, NEW srcs, NEW tickers, NEW subs,
         NEW t \in _link_by_company(G, srcs, tickers) \cup link_by_sub_industry(G, srcs, tickers, subs)
  PROVE  ByCross(t, H)
  <1>1. CASE t \in _link_by_company(G, srcs, tickers)
    <2> DEFINE Of(r) == {A(Company(r[2]), "UnifiedCompany"), <<Company(r[2]), "hasCik", r[2]>>,
                         <<r[1], "refersToCompany", Company(r[2])>>}
                        \cup (IF r[3] = NoSymbol THEN {} ELSE {<<Company(r[2]), "ticker", r[3]>>})
    <2>1. _link_by_company(G, srcs, tickers) = UNION {Of(r) : r \in References(G, srcs, tickers)}
      BY DEF _link_by_company
    <2>2. \A r : \A u \in Of(r) : \/ u = A(Company(r[2]), "UnifiedCompany")
                                  \/ u[2] \in {"hasCik", "refersToCompany", "ticker"}
      OBVIOUS
    <2> HIDE DEF Of
    <2>3. (\E x : t = A(x, "UnifiedCompany")) \/ t[2] \in {"hasCik", "refersToCompany", "ticker"}
      BY <1>1, <2>1, <2>2
    <2> QED
      BY <2>3, TypeByCross, LinkByCross DEF Hubs, CrossPredicates, HubLinks
  <1>2. CASE t \in link_by_sub_industry(G, srcs, tickers, subs)
    <2>1. t[2] = "sharesSubIndustryWith"
      BY <1>2 DEF link_by_sub_industry
    <2> QED
      BY <2>1, LinkByCross DEF CrossPredicates, HubLinks
  <1> QED
    BY <1>1, <1>2

\* A census region is the same as the one of BLS's own.
LEMMA RegionsByCross ==
  ASSUME NEW G, NEW srcs, NEW t \in _link_by_geography(G, srcs)
  PROVE  ByCrossAlone(t, G)
  <1> DEFINE links == _state_links(G, srcs)
             linked == {l[3] : l \in links}
             own == _own_census_regions(G, srcs)
  <1>1. \A l \in links : l[2] \in {"affectsRegion", "hasRegion"}
    <2>1. \A l \in _alert_state_links(G) : l[2] = "affectsRegion"
      <3>1. \E M : _alert_state_links(G) = {<<l[1], "affectsRegion", Region(l[2])>> : l \in M}
        BY DEF _alert_state_links
      <3> QED
        BY <3>1
    <2>2. ASSUME NEW l \in _local_area_state_links(G)
          PROVE  l[2] = "hasRegion"
      <3>1. PICK x, s : l = <<x, "hasRegion", Region(s)>>
        BY DEF _local_area_state_links
      <3> QED
        BY <3>1
    <2> QED
      BY <2>1, <2>2 DEF _state_links
  <1>2. ASSUME NEW o \in own
        PROVE  o[1] \in Typed(G, "JoltsRegion")
    <2>1. PICK x \in Typed(G, "JoltsRegion") \X CENSUS_REGIONS : o = <<x[1], x[2].name>>
      BY DEF _own_census_regions, _census_region_entities
    <2> QED
      BY <2>1
  <1>3. _link_by_geography(G, srcs) = (links \cup {A(r, "GeographicRegion") : r \in linked})
                                      \cup _link_census_regions(linked, own)
    BY DEF _link_by_geography
  <1> HIDE DEF links, linked, own
  <1>4. CASE t \in links
    BY <1>1, <1>4, LinkByCross DEF ByCrossAlone, CrossPredicates, HubLinks
  <1>5. CASE \E r \in linked : t = A(r, "GeographicRegion")
    BY <1>5, TypeAlone DEF Hubs
  <1>6. CASE t \in _link_census_regions(linked, own)
    <2> DEFINE within == {s \in US_STATES : Region(s) \in linked}
               reached == {s.census : s \in within} \cup {o[2] : o \in own}
    <2>1. _link_census_regions(linked, own) =
             {A(CensusRegion(n), "CensusRegion") : n \in reached}
             \cup {<<Region(s), "withinCensusRegion", CensusRegion(s.census)>> : s \in within}
             \cup {<<CensusRegion(o[2]), "sameAs", o[1]>> : o \in own}
      BY DEF _link_census_regions
    <2> HIDE DEF within, reached
    <2>2. CASE \E n \in reached : t = A(CensusRegion(n), "CensusRegion")
      BY <2>2, TypeAlone DEF Hubs
    <2>3. CASE \E s \in within : t = <<Region(s), "withinCensusRegion", CensusRegion(s.census)>>
      <3>1. t[2] = "withinCensusRegion"
        BY <2>3
      <3> QED
        BY <3>1, LinkByCross DEF ByCrossAlone, CrossPredicates, HubLinks
    <2>4. CASE \E o \in own : t = <<CensusRegion(o[2]), "sameAs", o[1]>>
      <3>1. t[2] = "sameAs" /\ t[3] \in Typed(G, "JoltsRegion")
        BY <1>2, <2>4
      <3> QED
        BY <3>1 DEF ByCrossAlone, ByCross, CrossPredicates
    <2> QED
      BY <1>6, <2>1, <2>2, <2>3, <2>4
  <1> QED
    BY <1>3, <1>4, <1>5, <1>6

LEMMA CrossWrites ==
  ASSUME NEW G, NEW tickers, NEW subs, NEW t \in CrossEnrich(G, tickers, subs)
  PROVE  ByCross(t, G)
  <1> DEFINE srcs == _detect_sources(G)
  <1>1. \/ t \in _link_by_sector(G) \cup sec_sector_keys(G) \cup market_sector_keys(G)
        \/ t \in _link_by_company(G, srcs, tickers) \cup link_by_sub_industry(G, srcs, tickers, subs)
        \/ t \in _link_by_geography(G, srcs)
        \/ t \in link_indicators_to_equity_sectors(G)
        \/ t \in _align_measurement_types(G, srcs)
    BY DEF CrossEnrich
  <1>2. ASSUME t \in link_indicators_to_equity_sectors(G)
        PROVE  ByCross(t, G)
    <2>1. t[2] = "leadsTo"
      BY <1>2 DEF link_indicators_to_equity_sectors
    <2> QED
      BY <2>1, LinkByCross DEF CrossPredicates, HubLinks
  <1>3. ASSUME t \in _align_measurement_types(G, srcs)
        PROVE  ByCross(t, G)
    <2>1. PICK m \in MeasurementClasses : \E e : t = A(e, m[2])
      BY <1>3 DEF _align_measurement_types
    <2>2. t[2] = "a" /\ t[3] = <<"class", m[2]>>
      BY <2>1 DEF A
    <2> QED
      BY <2>2 DEF ByCross, CrossPredicates
  <1> QED
    BY <1>1, <1>2, <1>3, SectorsByCross, CompaniesByCross, RegionsByCross DEF ByCrossAlone

\* The mapper writes the vocabulary's own predicates and the unified ones.
LEMMA OntologyWrites ==
  ASSUME NEW G, NEW overrides, NEW t \in OntologyEnrich(G, overrides)
  PROVE  t[2] \in OntologyPredicates \cup {m[2] : m \in PROPERTY_MAPPINGS}
  <1>1. CASE t \in _fold_predicates_to_unified(G)
    <2>1. PICK m \in PROPERTY_MAPPINGS : \E u : t = <<u[1], m[2], u[3]>>
      BY <1>1 DEF _fold_predicates_to_unified
    <2> QED
      BY <2>1
  <1>2. CASE t \in _create_property_equivalences \cup _create_class_equivalences(overrides)
    BY <1>2 DEF _create_property_equivalences, _create_class_equivalences, OntologyPredicates
  <1>3. CASE t \in _derive_property_hierarchy \cup _derive_class_hierarchy(G, overrides)
    BY <1>3 DEF _derive_property_hierarchy, _derive_class_hierarchy, OntologyPredicates
  <1>4. CASE t \in _normalize_labels(G)
    BY <1>4 DEF _normalize_labels, OntologyPredicates
  <1>5. CASE t \in _derive_property_schema(G)
    <2>1. \E D, R : _derive_property_schema(G) =
                        {<<P(d[1]), "domain", C(d[2])>> : d \in D}
                        \cup {<<P(d[1]), "range", C(d[2])>> : d \in R}
      BY DEF _derive_property_schema
    <2> QED
      BY <1>5, <2>1 DEF OntologyPredicates
  <1> QED
    BY <1>1, <1>2, <1>3, <1>4, <1>5 DEF OntologyEnrich

----------------------------------------------------------------------------
(* The periods.                                                            *)

\* What the sources date, and the periods a date places its subject in.
Facts(G) == {t \in Only(G, Dates0) : KindOf(t[3]) \in {"date", "time"}}
DayOf(d, src) == Minted(src, "day", <<d[2], d[3], d[4]>>)
MonthOf(d, src) == Minted(src, "month", <<d[3]>>)
YearOf(d, src) == Minted(src, "year", <<d[2]>>)
PlacedBy(d, src) ==
    {MonthOf(d, src), YearOf(d, src)} \cup (IF d[4] > 0 THEN {DayOf(d, src)} ELSE {})
DayIsPlaced(d) == d[3] \in 1..12 /\ d[4] > 0
PeriodsOf(G) ==
    collect_bls_months_years(G) \cup collect_bls_quarters(G) \cup {d[2] : d \in Dated(G)}

\* A minted period is told by its source, its kind and its name.
LEMMA PeriodsAreMinted ==
  /\ \A d, src : /\ DayOf(d, src).kind = "day" /\ DayOf(d, src).name = <<d[2], d[3], d[4]>>
                 /\ DayOf(d, src).uri = <<"period", src, "day", <<d[2], d[3], d[4]>>>>
  /\ \A d, src : /\ MonthOf(d, src).kind = "month" /\ MonthOf(d, src).name = <<d[3]>>
                 /\ MonthOf(d, src).uri = <<"period", src, "month", <<d[3]>>>>
  /\ \A d, src : /\ YearOf(d, src).kind = "year" /\ YearOf(d, src).name = <<d[2]>>
                 /\ YearOf(d, src).uri = <<"period", src, "year", <<d[2]>>>>
  BY DEF DayOf, MonthOf, YearOf, Minted, Period

LEMMA GrainsInOrder ==
  GrainRank("day") = 1 /\ GrainRank("month") = 2 /\ GrainRank("year") = 3
  <1>1. /\ \A i \in 1..3 : PERIOD_GRAINS_FINEST_FIRST[i] = "day" <=> i = 1
        /\ \A i \in 1..3 : PERIOD_GRAINS_FINEST_FIRST[i] = "month" <=> i = 2
        /\ \A i \in 1..3 : PERIOD_GRAINS_FINEST_FIRST[i] = "year" <=> i = 3
    BY DEF PERIOD_GRAINS_FINEST_FIRST
  <1> QED
    BY <1>1 DEF GrainRank

\* An entity is dated by a triple that names a month, and as that triple says.
LEMMA DatedByAFact ==
  ASSUME NEW G, NEW x \in Dated(G)
  PROVE  \E t \in Facts(G) : \E src :
            /\ AsDate(t[3])[3] \in 1..12
            /\ x = <<x[1], x[2]>> /\ x[1] = t[1] /\ x[2] \in PlacedBy(AsDate(t[3]), src)
  <1>1. PICK ps \in DatePredicates : x \in _collect_date_based_temporals(G, ps[1], ps[2])
    BY DEF Dated
  <1>2. PICK r \in Rel(G, ps[1]) :
           /\ KindOf(r[2]) \in {"date", "time"}
           /\ \E y \in IF AsDate(r[2])[3] \in 1..12 THEN PlacedBy(AsDate(r[2]), ps[2]) ELSE {} :
                 x = <<r[1], y>>
    <2> DEFINE Named(d) == {Minted(ps[2], "month", <<d[3]>>), Minted(ps[2], "year", <<d[2]>>)}
                           \cup (IF d[4] > 0 THEN {Minted(ps[2], "day", <<d[2], d[3], d[4]>>)} ELSE {})
               Rows(q) == {<<q[1], y>> : y \in IF AsDate(q[2])[3] \in 1..12
                                               THEN Named(AsDate(q[2])) ELSE {}}
               given == {q \in Rel(G, ps[1]) : KindOf(q[2]) \in {"date", "time"}}
    <2>1. _collect_date_based_temporals(G, ps[1], ps[2]) = UNION {Rows(q) : q \in given}
      BY DEF _collect_date_based_temporals
    <2>2. \A d : Named(d) = PlacedBy(d, ps[2])
      BY DEF PlacedBy, MonthOf, YearOf, DayOf
    <2> HIDE DEF Named, given
    <2>3. PICK q \in given : x \in Rows(q)
      BY <1>1, <2>1
    <2>4. PICK y \in IF AsDate(q[2])[3] \in 1..12 THEN Named(AsDate(q[2])) ELSE {} : x = <<q[1], y>>
      BY <2>3
    <2>5. q \in Rel(G, ps[1]) /\ KindOf(q[2]) \in {"date", "time"}
      BY DEF given
    <2> QED
      BY <2>2, <2>4, <2>5
  <1>3. PICK t \in G : t[2] = ps[1] /\ r = <<t[1], t[3]>>
    BY DEF Rel
  <1>4. t \in Facts(G)
    BY <1>2, <1>3 DEF Facts, Only, Dates0
  <1>5. /\ AsDate(t[3])[3] \in 1..12
        /\ x = <<x[1], x[2]>> /\ x[1] = t[1] /\ x[2] \in PlacedBy(AsDate(t[3]), ps[2])
    BY <1>2, <1>3
  <1> QED
    BY <1>4, <1>5

LEMMA FactsDate ==
  ASSUME NEW G, NEW t \in Facts(G), AsDate(t[3])[3] \in 1..12
  PROVE  \E src : \A y \in PlacedBy(AsDate(t[3]), src) : <<t[1], y>> \in Dated(G)
  <1>1. t \in G /\ KindOf(t[3]) \in {"date", "time"}
    BY DEF Facts, Only
  <1>2. PICK ps \in DatePredicates : t[2] = ps[1]
    BY DEF Facts, Only, Dates0
  <1> DEFINE r == <<t[1], t[3]>>
  <1>3. r \in Rel(G, ps[1])
    BY <1>1, <1>2 DEF Rel
  <1>4. ASSUME NEW y \in PlacedBy(AsDate(t[3]), ps[2])
        PROVE  <<t[1], y>> \in Dated(G)
    <2> DEFINE Of(q) == {<<q[1], z>> : z \in IF AsDate(q[2])[3] \in 1..12
                                            THEN PlacedBy(AsDate(q[2]), ps[2]) ELSE {}}
    <2>1. _collect_date_based_temporals(G, ps[1], ps[2]) =
             UNION {Of(q) : q \in {q \in Rel(G, ps[1]) : KindOf(q[2]) \in {"date", "time"}}}
      BY DEF _collect_date_based_temporals, PlacedBy, MonthOf, YearOf, DayOf
    <2>2. r[1] = t[1] /\ r[2] = t[3]
      OBVIOUS
    <2>3. <<t[1], y>> \in Of(r)
      BY <1>4, <2>2
    <2> HIDE DEF Of, r
    <2>4. <<t[1], y>> \in _collect_date_based_temporals(G, ps[1], ps[2])
      BY <1>1, <1>3, <2>1, <2>2, <2>3
    <2> QED
      BY <2>4 DEF Dated
  <1> QED
    BY <1>4

\* What places an entity: a day of its dates, or a month when none has a day.
LEMMA FinestLinks ==
  ASSUME NEW G, NEW l \in _finest_grain_links(Dated(G))
  PROVE  \E t \in Facts(G) : \E src :
            LET d == AsDate(t[3])
            IN  /\ t[1] = l[1] /\ d[3] \in 1..12
                /\ \/ d[4] > 0 /\ l[3] = DayOf(d, src).uri /\ <<l[1], DayOf(d, src)>> \in Dated(G)
                   \/ /\ l[3] = MonthOf(d, src).uri
                      /\ \A f \in Facts(G) : f[1] = l[1] => ~DayIsPlaced(AsDate(f[3]))
  <1>1. PICK x \in Dated(G) :
           /\ l = <<x[1], "observedInPeriod", x[2].uri>>
           /\ \A y \in Dated(G) : y[1] = x[1] => GrainRank(x[2].kind) <= GrainRank(y[2].kind)
    BY DEF _finest_grain_links
  <1>2. PICK t \in Facts(G) : \E src :
            /\ AsDate(t[3])[3] \in 1..12
            /\ x[1] = t[1] /\ x[2] \in PlacedBy(AsDate(t[3]), src)
    BY DatedByAFact
  <1>3. PICK src : x[1] = t[1] /\ x[2] \in PlacedBy(AsDate(t[3]), src)
    BY <1>2
  <1> DEFINE d == AsDate(t[3])
  <1>4. \/ d[4] > 0 /\ x[2] = DayOf(d, src)
        \/ x[2] = MonthOf(d, src) \/ x[2] = YearOf(d, src)
    BY <1>3 DEF PlacedBy
  <1>5. l[1] = x[1] /\ l[3] = x[2].uri
    BY <1>1
  <1>6. x[2].kind # "year"
    <2>1. PICK s : \A y \in PlacedBy(AsDate(t[3]), s) : <<t[1], y>> \in Dated(G)
      BY <1>2, FactsDate
    <2>2. <<t[1], MonthOf(d, s)>> \in Dated(G)
      BY <2>1 DEF PlacedBy
    <2>3. GrainRank(x[2].kind) <= GrainRank(MonthOf(d, s).kind)
      BY <1>1, <1>3, <2>2
    <2> QED
      BY <2>3, PeriodsAreMinted, GrainsInOrder
  <1>7. CASE d[4] > 0 /\ x[2] = DayOf(d, src)
    <2>1. <<l[1], DayOf(d, src)>> \in Dated(G)
      <3>1. x = <<x[1], x[2]>>
        BY DatedByAFact
      <3> QED
        BY <1>5, <1>7, <3>1
    <2> QED
      BY <1>2, <1>3, <1>5, <1>7, <2>1
  <1>8. CASE x[2] = MonthOf(d, src)
    <2>1. ASSUME NEW f \in Facts(G), f[1] = l[1], DayIsPlaced(AsDate(f[3]))
          PROVE  FALSE
      <3>2. PICK s : \A y \in PlacedBy(AsDate(f[3]), s) : <<f[1], y>> \in Dated(G)
        BY <2>1, FactsDate DEF DayIsPlaced
      <3>3. <<f[1], DayOf(AsDate(f[3]), s)>> \in Dated(G)
        BY <2>1, <3>2 DEF PlacedBy, DayIsPlaced
      <3>4. GrainRank(x[2].kind) <= GrainRank(DayOf(AsDate(f[3]), s).kind)
        BY <1>1, <1>5, <2>1, <3>3
      <3> QED
        BY <1>8, <3>4, PeriodsAreMinted, GrainsInOrder
    <2> QED
      BY <1>2, <1>3, <1>5, <1>8, <2>1
  <1> QED
    BY <1>4, <1>6, <1>7, <1>8, PeriodsAreMinted

LEMMA LinksTheDay ==
  ASSUME NEW G, NEW t \in Facts(G), DayIsPlaced(AsDate(t[3]))
  PROVE  \E src : <<t[1], "observedInPeriod", DayOf(AsDate(t[3]), src).uri>>
                     \in _finest_grain_links(Dated(G))
  <1> DEFINE d == AsDate(t[3])
  <1>1. d[3] \in 1..12 /\ d[4] > 0
    BY DEF DayIsPlaced
  <1>2. PICK src : \A y \in PlacedBy(AsDate(t[3]), src) : <<t[1], y>> \in Dated(G)
    BY <1>1, FactsDate
  <1>3. <<t[1], DayOf(d, src)>> \in Dated(G)
    BY <1>1, <1>2 DEF PlacedBy
  <1>4. ASSUME NEW y \in Dated(G)
        PROVE  GrainRank(DayOf(d, src).kind) <= GrainRank(y[2].kind)
    <2>1. PICK e, s : y[2] \in PlacedBy(e, s)
      BY DatedByAFact
    <2>2. y[2].kind \in {"day", "month", "year"}
      BY <2>1, PeriodsAreMinted DEF PlacedBy
    <2> QED
      BY <2>2, PeriodsAreMinted, GrainsInOrder
  <1> QED
    BY <1>3, <1>4 DEF _finest_grain_links

LEMMA LinksTheMonth ==
  ASSUME NEW G, NEW t \in Facts(G), AsDate(t[3])[3] \in 1..12,
         \A f \in Facts(G) : f[1] = t[1] => ~DayIsPlaced(AsDate(f[3]))
  PROVE  \E src : <<t[1], "observedInPeriod", MonthOf(AsDate(t[3]), src).uri>>
                     \in _finest_grain_links(Dated(G))
  <1> DEFINE d == AsDate(t[3])
  <1>1. PICK src : \A y \in PlacedBy(AsDate(t[3]), src) : <<t[1], y>> \in Dated(G)
    BY FactsDate
  <1>2. <<t[1], MonthOf(d, src)>> \in Dated(G)
    BY <1>1 DEF PlacedBy
  <1>3. ASSUME NEW y \in Dated(G), y[1] = t[1]
        PROVE  GrainRank(MonthOf(d, src).kind) <= GrainRank(y[2].kind)
    <2>1. PICK f \in Facts(G) :
             AsDate(f[3])[3] \in 1..12 /\ \E s : y[1] = f[1] /\ y[2] \in PlacedBy(AsDate(f[3]), s)
      BY DatedByAFact
    <2>2. PICK s : y[2] \in PlacedBy(AsDate(f[3]), s)
      BY <2>1
    <2>3. ~(AsDate(f[3])[4] > 0)
      BY <1>3, <2>1 DEF DayIsPlaced
    <2>4. y[2].kind \in {"month", "year"}
      BY <2>2, <2>3, PeriodsAreMinted DEF PlacedBy
    <2> QED
      BY <2>4, PeriodsAreMinted, GrainsInOrder
  <1> QED
    BY <1>2, <1>3 DEF _finest_grain_links

\* Of the temporal phase's making, over the graph G it finds.
ByTemporal(t, G) ==
    /\ t[2] \in TemporalPredicates
    /\ t[2] = "observedInPeriod" => t \in _finest_grain_links(Dated(G))
    /\ t[2] = "a" /\ t[3] = <<"class", "SourceDay">> =>
          \E x \in PeriodsOf(G) : x.kind = "day" /\ t[1] = x.uri
    /\ t[2] = "a" => t[3] \notin {<<"class", c>> : c \in SourceClasses}
    /\ t[2] = "sameAs" => \E x \in PeriodsOf(G) : t = <<Unified(x.kind, x.name), "sameAs", x.uri>>

\* A period is one of BLS's nodes or a minted one, and of one of the four grains.
LEMMA PeriodKinds ==
  ASSUME NEW G, NEW x \in PeriodsOf(G)
  PROVE  /\ x.kind \in {"month", "year", "quarter", "day"}
         /\ \/ KindOf(x.uri) # "period" /\ x.kind # "day"
            \/ \E t \in Facts(G) : \E src : /\ AsDate(t[3])[3] \in 1..12
                                            /\ x \in PlacedBy(AsDate(t[3]), src)
                                            /\ <<t[1], x>> \in Dated(G)
  <1>1. CASE x \in collect_bls_months_years(G) \cup collect_bls_quarters(G)
    BY <1>1 DEF collect_bls_months_years, collect_bls_quarters, Period
  <1>2. CASE \E d \in Dated(G) : x = d[2]
    <2>1. PICK d \in Dated(G) : x = d[2]
      BY <1>2
    <2>2. PICK t \in Facts(G) : \E src :
              /\ AsDate(t[3])[3] \in 1..12
              /\ d = <<d[1], d[2]>> /\ d[1] = t[1] /\ d[2] \in PlacedBy(AsDate(t[3]), src)
      BY DatedByAFact
    <2>3. PICK src : d[2] \in PlacedBy(AsDate(t[3]), src)
      BY <2>2
    <2>4. x.kind \in {"month", "year", "day"}
      BY <2>1, <2>3, PeriodsAreMinted DEF PlacedBy
    <2>5. <<t[1], x>> \in Dated(G)
      BY <2>1, <2>2
    <2> QED
      BY <2>1, <2>2, <2>3, <2>4, <2>5
  <1> QED
    BY <1>1, <1>2 DEF PeriodsOf

LEMMA ClassesOfPeriods ==
  /\ SourceClass("month") = "SourceMonth" /\ UnifiedClass("month") = "UnifiedMonth"
  /\ SourceClass("year") = "SourceYear" /\ UnifiedClass("year") = "UnifiedYear"
  /\ SourceClass("quarter") = "SourceQuarter" /\ UnifiedClass("quarter") = "UnifiedQuarter"
  /\ SourceClass("day") = "SourceDay" /\ UnifiedClass("day") = "UnifiedDay"
  BY DEF SourceClass, UnifiedClass

LEMMA UnifyWrites ==
  ASSUME NEW G, NEW kind \in {"month", "year", "quarter", "day"},
         NEW t \in Unify(PeriodsOf(G), kind)
  PROVE  ByTemporal(t, G)
  <1>1. PICK x \in PeriodsOf(G) :
           /\ x.kind = kind
           /\ t \in {A(Unified(kind, x.name), UnifiedClass(kind)), Label(Unified(kind, x.name), x.name),
                     <<Unified(kind, x.name), "sameAs", x.uri>>}
    BY DEF Unify
  <1>2. CASE t = A(Unified(kind, x.name), UnifiedClass(kind))
    <2>1. t[2] = "a" /\ t[3] = <<"class", UnifiedClass(kind)>>
      BY <1>2 DEF A
    <2>2. UnifiedClass(kind) # "SourceDay" /\ UnifiedClass(kind) \notin SourceClasses
      BY ClassesOfPeriods DEF SourceClasses, FilingTypes
    <2> QED
      BY <2>1, <2>2 DEF ByTemporal, TemporalPredicates
  <1>3. CASE t = Label(Unified(kind, x.name), x.name)
    BY <1>3 DEF Label, ByTemporal, TemporalPredicates
  <1>4. CASE t = <<Unified(kind, x.name), "sameAs", x.uri>>
    <2>1. t[2] = "sameAs"
      BY <1>4
    <2> QED
      BY <1>1, <1>4, <2>1 DEF ByTemporal, TemporalPredicates
  <1> QED
    BY <1>1, <1>2, <1>3, <1>4

LEMMA TemporalWrites ==
  ASSUME NEW G, NEW t \in TemporalEnrich(G)
  PROVE  ByTemporal(t, G)
  <1> DEFINE periods == PeriodsOf(G)
  <1>1. \/ t \in _create_source_temporal_types(periods) \/ t \in _finest_grain_links(Dated(G))
        \/ t \in _create_unified_months(periods) \/ t \in _create_unified_years(periods)
        \/ t \in _create_unified_quarters(periods) \/ t \in _create_unified_days(periods)
    BY DEF TemporalEnrich, PeriodsOf
  <1>2. CASE t \in _create_source_temporal_types(periods)
    <2>1. PICK x \in periods : t = A(x.uri, SourceClass(x.kind)) \/ t = Label(x.uri, x.name)
      BY <1>2 DEF _create_source_temporal_types
    <2>2. CASE t = A(x.uri, SourceClass(x.kind))
      <3>1. t[1] = x.uri /\ t[2] = "a" /\ t[3] = <<"class", SourceClass(x.kind)>>
        BY <2>2 DEF A
      <3>2. SourceClass(x.kind) \notin SourceClasses /\ (SourceClass(x.kind) = "SourceDay" => x.kind = "day")
        BY PeriodKinds, ClassesOfPeriods DEF SourceClasses, FilingTypes
      <3> QED
        BY <3>1, <3>2 DEF ByTemporal, TemporalPredicates
    <2>3. CASE t = Label(x.uri, x.name)
      BY <2>3 DEF Label, ByTemporal, TemporalPredicates
    <2> QED
      BY <2>1, <2>2, <2>3
  <1>3. CASE t \in _finest_grain_links(Dated(G))
    <2>1. t[2] = "observedInPeriod"
      BY <1>3 DEF _finest_grain_links
    <2> QED
      BY <1>3, <2>1 DEF ByTemporal, TemporalPredicates
  <1>4. ASSUME t[2] \in {"coversMonth", "coversDay"}
        PROVE  ByTemporal(t, G)
    BY <1>4 DEF ByTemporal, TemporalPredicates
  <1>5. CASE t \in _create_unified_months(periods) \cup _create_unified_years(periods)
    BY <1>5, UnifyWrites DEF _create_unified_months, _create_unified_years
  <1>6. CASE t \in _create_unified_quarters(periods)
    <2> DEFINE Numbers(x) == (3 * x.name[1] - 2)..(3 * x.name[1])
               Months(x) == {<<Unified("quarter", x.name), "coversMonth", Unified("month", <<m>>)>> :
                                m \in Numbers(x)}
    <2>1. t \in Unify(periods, "quarter") \/ \E x : t \in Months(x)
      BY <1>6 DEF _create_unified_quarters
    <2> HIDE DEF Numbers
    <2>2. ASSUME NEW x, t \in Months(x)
          PROVE  t[2] = "coversMonth"
      <3>1. PICK m \in Numbers(x) :
               t = <<Unified("quarter", x.name), "coversMonth", Unified("month", <<m>>)>>
        BY <2>2
      <3> QED
        BY <3>1
    <2> HIDE DEF Months
    <2> QED
      BY <1>4, <2>1, <2>2, UnifyWrites
  <1>7. CASE t \in _create_unified_days(periods)
    <2>1. \/ t \in Unify(periods, "day")
          \/ \E x : t = <<Unified("month", <<x.name[2]>>), "coversDay", Unified("day", x.name)>>
      BY <1>7 DEF _create_unified_days
    <2>2. ASSUME NEW x, t = <<Unified("month", <<x.name[2]>>), "coversDay", Unified("day", x.name)>>
          PROVE  t[2] = "coversDay"
      BY <2>2
    <2> QED
      BY <1>4, <2>1, <2>2, UnifyWrites
  <1> QED
    BY <1>1, <1>2, <1>3, <1>5, <1>6, <1>7

\* What is written of a day an entity is dated by: its type, its unified day and
\* that day's month.
LEMMA DaysAreWritten ==
  ASSUME NEW G, NEW d, NEW src, NEW e, <<e, DayOf(d, src)>> \in Dated(G)
  PROVE  LET x == DayOf(d, src)
             u == Unified("day", x.name)
         IN  /\ A(x.uri, "SourceDay") \in TemporalEnrich(G)
             /\ A(u, "UnifiedDay") \in TemporalEnrich(G)
             /\ <<u, "sameAs", x.uri>> \in TemporalEnrich(G)
             /\ <<Unified("month", <<x.name[2]>>), "coversDay", u>> \in TemporalEnrich(G)
  <1> DEFINE x == DayOf(d, src)
             periods == PeriodsOf(G)
  <1>1. x \in periods
    <2>1. x = <<e, x>>[2]
      OBVIOUS
    <2> QED
      BY <2>1 DEF PeriodsOf
  <1>2. x.kind = "day"
    BY PeriodsAreMinted
  <1>3. _create_source_temporal_types(periods) \cup _create_unified_days(periods) \subseteq TemporalEnrich(G)
    BY DEF TemporalEnrich, PeriodsOf
  <1> HIDE DEF x, periods
  <1>4. A(x.uri, SourceClass(x.kind)) \in _create_source_temporal_types(periods)
    BY <1>1 DEF _create_source_temporal_types
  <1>5. /\ A(Unified("day", x.name), UnifiedClass("day")) \in Unify(periods, "day")
        /\ <<Unified("day", x.name), "sameAs", x.uri>> \in Unify(periods, "day")
    BY <1>1, <1>2 DEF Unify
  <1>6. /\ Unify(periods, "day") \subseteq _create_unified_days(periods)
        /\ <<Unified("month", <<x.name[2]>>), "coversDay", Unified("day", x.name)>>
              \in _create_unified_days(periods)
    BY <1>1, <1>2 DEF _create_unified_days
  <1> QED
    BY <1>2, <1>3, <1>4, <1>5, <1>6, ClassesOfPeriods DEF x

LEMMA MonthsAreWritten ==
  ASSUME NEW G, NEW d, NEW src, NEW e, <<e, MonthOf(d, src)>> \in Dated(G)
  PROVE  A(Unified("month", <<d[3]>>), "UnifiedMonth") \in TemporalEnrich(G)
  <1> DEFINE x == MonthOf(d, src)
             periods == PeriodsOf(G)
  <1>1. x \in periods
    <2>1. x = <<e, x>>[2]
      OBVIOUS
    <2> QED
      BY <2>1 DEF PeriodsOf
  <1>2. x.kind = "month" /\ x.name = <<d[3]>>
    BY PeriodsAreMinted
  <1>3. Unify(periods, "month") \subseteq TemporalEnrich(G)
    BY DEF TemporalEnrich, PeriodsOf, _create_unified_months
  <1> HIDE DEF x, periods
  <1>4. A(Unified("month", x.name), UnifiedClass("month")) \in Unify(periods, "month")
    BY <1>1, <1>2 DEF Unify
  <1> QED
    BY <1>2, <1>3, <1>4, ClassesOfPeriods

\* What the temporal phase wrote of a graph H is what a later graph G says of
\* periods, and the sources' dates are the same in both.
SaysThePeriodsOf(G, H) ==
    /\ H \cup TemporalEnrich(H) \subseteq G
    /\ Facts(G) = Facts(H)
    /\ \A t \in G :
          \/ t[2] = "observedInPeriod"
          \/ t[2] = "a" /\ t[3] = <<"class", "SourceDay">>
          \/ t[2] = "sameAs" /\ KindOf(t[3]) = "period"
          => t \in TemporalEnrich(H)

\* No triple loaded and none of a linker's is about periods.
LEMMA LinkersSayNoPeriods ==
  ASSUME SourcesSpeakForThemselves, NEW H, AfterLinkers(H), NEW t \in H
  PROVE  /\ t[2] # "observedInPeriod"
         /\ t[2] = "a" => t[3] # <<"class", "SourceDay">>
         /\ t[2] = "a" /\ t[3] = <<"class", "JoltsRegion">> => KindOf(t[1]) # "period"
         /\ t[2] = "sameAs" => KindOf(t[3]) # "period"
  <1>1. \A u \in Loaded : IsOfASource(u)
    BY DEF SourcesSpeakForThemselves
  <1>2. CASE t \in Loaded
    BY <1>1, <1>2 DEF IsOfASource, MintedKinds
  <1>3. CASE ByALinker(t, Loaded)
    <2>1. t[2] \in LinkerPredicates \cup Correlations
      BY <1>3 DEF ByALinker
    <2>2. "observedInPeriod" \notin LinkerPredicates \cup Correlations
      <3>1. "observedInPeriod" \in PhasePredicates /\ "observedInPeriod" \notin LinkerPredicates
        BY DEF PhasePredicates, TemporalPredicates, LinkerPredicates
      <3> QED
        BY <3>1, TablesAssumption DEF Correlations
    <2>3. "SourceDay" \notin LinkerClasses /\ "JoltsRegion" \notin LinkerClasses
      BY DEF LinkerClasses
    <2>4. t[2] = "a" => t[3] \notin {<<"class", "SourceDay">>, <<"class", "JoltsRegion">>}
      BY <1>3, <2>3 DEF ByALinker
    <2>5. t[2] = "sameAs" => KindOf(t[3]) # "period"
      BY <1>1, <1>3 DEF ByALinker, IsOfASource, MintedKinds
    <2> QED
      BY <2>1, <2>2, <2>3, <2>4, <2>5 DEF Facts, Only
  <1> QED
    BY <1>2, <1>3, LinkersWrite

LEMMA PeriodsAfterTemporal ==
  ASSUME SourcesSpeakForThemselves, NEW H, AfterLinkers(H), NEW G, G = H \cup TemporalEnrich(H)
  PROVE  /\ SaysThePeriodsOf(G, H)
         /\ \A x \in Typed(G, "JoltsRegion") : KindOf(x) # "period"
  <1>1. \A t \in TemporalEnrich(H) : ByTemporal(t, H)
    BY TemporalWrites
  <1>2. TemporalPredicates \cap Dates0 = {}
    BY TablesAssumption DEF PhasePredicates, SourcePredicates, Dates0
  <1>3. Facts(G) = Facts(H)
    BY <1>1, <1>2 DEF Facts, Only, ByTemporal
  <1>5. ASSUME NEW t \in G,
               \/ t[2] = "observedInPeriod"
               \/ t[2] = "a" /\ t[3] = <<"class", "SourceDay">>
               \/ t[2] = "sameAs" /\ KindOf(t[3]) = "period"
        PROVE  t \in TemporalEnrich(H)
    BY <1>5, LinkersSayNoPeriods
  <1>6. ASSUME NEW x \in Typed(G, "JoltsRegion")
        PROVE  KindOf(x) # "period"
    <2>1. PICK t \in G : t[1] = x /\ t[2] = "a" /\ t[3] = <<"class", "JoltsRegion">>
      BY DEF Typed
    <2>2. t \in H
      BY <1>1, <2>1 DEF ByTemporal, SourceClasses
    <2> QED
      BY <2>1, <2>2, LinkersSayNoPeriods
  <1> QED
    BY <1>3, <1>5, <1>6 DEF SaysThePeriodsOf

\* A phase that writes none of it leaves it so.
LEMMA PeriodsStay ==
  ASSUME NEW G, NEW H, SaysThePeriodsOf(G, H), NEW new,
         \A t \in new : /\ t[2] \notin Dates0 \cup {"observedInPeriod"}
                        /\ t[2] = "a" => t[3] # <<"class", "SourceDay">>
                        /\ t[2] = "sameAs" => KindOf(t[3]) # "period"
  PROVE  SaysThePeriodsOf(G \cup new, H)
  <1>1. Facts(G \cup new) = Facts(G)
    BY DEF Facts, Only
  <1> QED
    BY <1>1 DEF SaysThePeriodsOf

LEMMA EveryGraphSaysThePeriods ==
  ASSUME SourcesSpeakForThemselves, NEW G, AfterOntology(G)
  PROVE  \E H : SaysThePeriodsOf(G, H)
  <1>1. ASSUME NEW K, AfterTemporal(K)
        PROVE  \E H : SaysThePeriodsOf(K \cup CrossEnrich(K, TickersOfRun, SubsOfRun), H)
    <2>1. PICK H : AfterLinkers(H) /\ K = H \cup TemporalEnrich(H)
      BY <1>1 DEF AfterTemporal
    <2>2. /\ SaysThePeriodsOf(K, H)
          /\ \A x \in Typed(K, "JoltsRegion") : KindOf(x) # "period"
      BY <2>1, PeriodsAfterTemporal
    <2>3. CrossPredicates \cap (Dates0 \cup {"observedInPeriod"}) = {}
      <3>1. CrossPredicates \cap Dates0 = {}
        BY TablesAssumption DEF PhasePredicates, SourcePredicates, Dates0
      <3>2. "observedInPeriod" \notin CrossPredicates
        BY DEF CrossPredicates, HubLinks
      <3> QED
        BY <3>1, <3>2
    <2>4. "SourceDay" \notin Hubs \cup {m[2] : m \in MeasurementClasses}
      <3>1. "SourceDay" \in PhaseClasses /\ "SourceDay" \notin Hubs
        BY DEF PhaseClasses, Hubs
      <3> QED
        BY <3>1, TablesAssumption
    <2>5. ASSUME NEW t \in CrossEnrich(K, TickersOfRun, SubsOfRun)
          PROVE  /\ t[2] \notin Dates0 \cup {"observedInPeriod"}
                 /\ t[2] = "a" => t[3] # <<"class", "SourceDay">>
                 /\ t[2] = "sameAs" => KindOf(t[3]) # "period"
      <3>1. ByCross(t, K)
        BY CrossWrites
      <3> QED
        BY <2>2, <2>3, <2>4, <3>1 DEF ByCross
    <2> QED
      BY <2>2, <2>5, PeriodsStay
  <1>2. ASSUME NEW K, NEW H, SaysThePeriodsOf(K, H)
        PROVE  SaysThePeriodsOf(K \cup OntologyEnrich(K, job.overrides), H)
    <2> DEFINE theirs == OntologyPredicates \cup {m[2] : m \in PROPERTY_MAPPINGS}
    <2>1. OntologyPredicates \cap {"observedInPeriod", "a", "sameAs"} = {}
      BY DEF OntologyPredicates
    <2>2. OntologyPredicates \cap Dates0 = {}
      BY TablesAssumption DEF PhasePredicates, SourcePredicates, Dates0
    <2>3. \A m \in PROPERTY_MAPPINGS : m[2] \notin Dates0 \cup {"observedInPeriod", "a", "sameAs"}
      <3>1. Dates0 \cup {"observedInPeriod", "a", "sameAs"} \subseteq PhasePredicates \cup SourcePredicates
        BY DEF PhasePredicates, TemporalPredicates, SourcePredicates, Dates0
      <3> QED
        BY <3>1, TablesAssumption
    <2>4. \A t \in OntologyEnrich(K, job.overrides) : t[2] \in theirs
      BY OntologyWrites
    <2> QED
      BY <1>2, <2>1, <2>2, <2>3, <2>4, PeriodsStay
  <1> QED
    BY <1>1, <1>2 DEF AfterOntology, AfterCross

\* An entity is observed in periods of one grain, the finest any of its dates
\* names, and each source's copy of a day has one unified day, which a month
\* covers: over every graph a run may enrich, whatever the dates, the sources
\* that state them and the linkers that raise.
THEOREM DatesTakeTheFinestPeriod == Spec => []FinestPeriodOnly
  <1>1. ASSUME PhaseInv, JobIsGiven
        PROVE  FinestPeriodOnly
    <2> SUFFICES ASSUME stage = "enriched" PROVE FinestPeriodOnly
      BY DEF FinestPeriodOnly, Enriched
    <2>1. PICK H : SaysThePeriodsOf(graph, H)
      BY <1>1, LoadedIsTheSources, EveryGraphSaysThePeriods DEF PhaseInv, Idle
    <2> DEFINE observed == Rel(graph, "observedInPeriod")
               said == {<<t[1], AsDate(t[3])>> : t \in Facts(graph)}
               Name(d) == IF d[4] > 0 THEN <<d[2], d[3], d[4]>> ELSE <<d[3]>>
               Places(d) == d[3] \in 1..12
               HasDay(e) == \E r \in said : r[1] = e /\ Places(r[2]) /\ r[2][4] > 0
               days == Typed(graph, "SourceDay")
    <2>2. Facts(graph) = Facts(H) /\ TemporalEnrich(H) \subseteq graph
      BY <2>1 DEF SaysThePeriodsOf
    <2>3. ASSUME NEW f \in Facts(H), DayIsPlaced(AsDate(f[3]))
          PROVE  HasDay(f[1])
      <3> DEFINE r == <<f[1], AsDate(f[3])>>
      <3>1. r \in said /\ r[1] = f[1] /\ r[2] = AsDate(f[3])
        BY <2>2
      <3> HIDE DEF r, said
      <3> QED
        BY <2>3, <3>1 DEF DayIsPlaced
    <2>4. ASSUME NEW e, HasDay(e)
          PROVE  \E f \in Facts(H) : f[1] = e /\ DayIsPlaced(AsDate(f[3]))
      BY <2>2, <2>4 DEF DayIsPlaced
    <2>5. \A l \in _finest_grain_links(Dated(H)) : <<l[1], l[3]>> \in observed
      <3>1. _finest_grain_links(Dated(H)) \subseteq graph
        BY <2>2 DEF TemporalEnrich
      <3>2. \A l \in _finest_grain_links(Dated(H)) : l[2] = "observedInPeriod"
        BY DEF _finest_grain_links
      <3> QED
        BY <3>1, <3>2 DEF Rel
    <2>6. ASSUME NEW q \in observed
          PROVE  \E t \in Facts(H) : \E src :
                    LET d == AsDate(t[3])
                    IN  /\ t[1] = q[1] /\ d[3] \in 1..12
                        /\ \/ /\ d[4] > 0 /\ q[2] = DayOf(d, src).uri
                              /\ <<q[1], DayOf(d, src)>> \in Dated(H)
                           \/ q[2] = MonthOf(d, src).uri /\ ~HasDay(q[1])
      <3>1. PICK l \in graph : l[2] = "observedInPeriod" /\ q = <<l[1], l[3]>>
        BY DEF Rel
      <3>2. l \in TemporalEnrich(H)
        BY <2>1, <3>1 DEF SaysThePeriodsOf
      <3>3. l \in _finest_grain_links(Dated(H))
        BY <3>1, <3>2, TemporalWrites DEF ByTemporal
      <3>4. q[1] = l[1] /\ q[2] = l[3]
        BY <3>1
      <3> HIDE DEF observed, HasDay
      <3> QED
        BY <2>2, <2>4, <3>3, <3>4, FinestLinks
    <2> HIDE DEF observed, HasDay
    <2>7. ASSUME NEW t \in Facts(H)
          PROVE  (\E p \in {o[2] : o \in {q \in observed : q[1] = t[1]}} : p[4] = Name(AsDate(t[3])))
                 <=> Places(AsDate(t[3])) /\ (AsDate(t[3])[4] > 0 \/ ~HasDay(t[1]))
      <3> DEFINE d == AsDate(t[3])
      <3>1. CASE DayIsPlaced(d)
        <4>1. PICK src : <<t[1], "observedInPeriod", DayOf(d, src).uri>> \in _finest_grain_links(Dated(H))
          BY <3>1, LinksTheDay
        <4>2. <<t[1], DayOf(d, src).uri>> \in observed
          BY <4>1, <2>5
        <4>3. DayOf(d, src).uri[4] = Name(d)
          BY <3>1, PeriodsAreMinted DEF DayIsPlaced
        <4> HIDE DEF d, Name
        <4>4. \E p \in {o[2] : o \in {q \in observed : q[1] = t[1]}} : p[4] = Name(d)
          BY <4>2, <4>3
        <4> QED
          BY <3>1, <4>4 DEF d, DayIsPlaced
      <3>2. CASE ~(d[4] > 0) /\ ~HasDay(t[1]) /\ Places(d)
        <4>2. PICK src : <<t[1], "observedInPeriod", MonthOf(d, src).uri>> \in _finest_grain_links(Dated(H))
          BY <2>3, <3>2, LinksTheMonth
        <4>3. <<t[1], MonthOf(d, src).uri>> \in observed
          BY <4>2, <2>5
        <4>4. MonthOf(d, src).uri[4] = Name(d)
          BY <3>2, PeriodsAreMinted
        <4> HIDE DEF d, Name
        <4>5. \E p \in {o[2] : o \in {q \in observed : q[1] = t[1]}} : p[4] = Name(d)
          BY <4>3, <4>4
        <4> QED
          BY <3>2, <4>5 DEF d
      <3>3. ASSUME NEW q \in observed, q[1] = t[1], q[2][4] = Name(d)
            PROVE  Places(d) /\ (d[4] > 0 \/ ~HasDay(t[1]))
        <4>1. PICK f \in Facts(H) : \E src :
                LET b == AsDate(f[3])
                IN  /\ f[1] = q[1] /\ b[3] \in 1..12
                    /\ \/ b[4] > 0 /\ q[2] = DayOf(b, src).uri
                       \/ q[2] = MonthOf(b, src).uri /\ ~HasDay(q[1])
          BY <2>6
        <4> DEFINE b == AsDate(f[3])
        <4>2. PICK src : \/ b[4] > 0 /\ q[2] = DayOf(b, src).uri
                         \/ q[2] = MonthOf(b, src).uri /\ ~HasDay(q[1])
          BY <4>1
        <4>3. b[3] \in 1..12
          BY <4>1
        <4>4. /\ \A x, y, z, w : <<x, y, z>> # <<w>>
              /\ \A x, y, z, u, v, w : <<x, y, z>> = <<u, v, w>> => y = v
              /\ \A x, y : <<x>> = <<y>> => x = y
          OBVIOUS
        <4>5. CASE q[2] = DayOf(b, src).uri
          <5>1. Name(d) = <<b[2], b[3], b[4]>>
            BY <3>3, <4>5, PeriodsAreMinted
          <5>2. d[4] > 0
            BY <4>4, <5>1
          <5>3. <<d[2], d[3], d[4]>> = <<b[2], b[3], b[4]>>
            BY <5>1, <5>2
          <5>4. d[3] = b[3]
            BY <5>3
          <5> QED
            BY <4>3, <5>2, <5>4
        <4>6. CASE q[2] = MonthOf(b, src).uri /\ ~HasDay(q[1])
          <5>1. Name(d) = <<b[3]>>
            BY <3>3, <4>6, PeriodsAreMinted
          <5>2. ~(d[4] > 0)
            BY <4>4, <5>1
          <5>3. <<d[3]>> = <<b[3]>>
            BY <5>1, <5>2
          <5>4. d[3] = b[3]
            BY <5>3
          <5> QED
            BY <3>3, <4>3, <4>6, <5>4
        <4> QED
          BY <4>2, <4>5, <4>6
      <3> HIDE DEF d, Name
      <3>4. ASSUME NEW p \in {o[2] : o \in {q \in observed : q[1] = t[1]}}, p[4] = Name(d)
            PROVE  Places(d) /\ (d[4] > 0 \/ ~HasDay(t[1]))
        <4>1. PICK q \in observed : q[1] = t[1] /\ p = q[2]
          BY <3>4
        <4> QED
          BY <3>3, <3>4, <4>1
      <3> QED
        BY <3>1, <3>2, <3>4 DEF d, DayIsPlaced
    <2>8. ASSUME NEW q \in observed, HasDay(q[1])
          PROVE  q[2] \in days
      <3>1. PICK t \in Facts(H) : \E src : /\ q[2] = DayOf(AsDate(t[3]), src).uri
                                           /\ <<q[1], DayOf(AsDate(t[3]), src)>> \in Dated(H)
        BY <2>6, <2>8
      <3>2. A(q[2], "SourceDay") \in graph
        BY <2>2, <3>1, DaysAreWritten
      <3> QED
        BY <3>2 DEF A, Typed
    <2>9. ASSUME NEW p \in days
          PROVE  \E u \in Typed(graph, "UnifiedDay") :
                   /\ {q[1] : q \in {x \in Rel(graph, "sameAs") : x[2] = p}} = {u}
                   /\ \E m \in Typed(graph, "UnifiedMonth") : <<m, "coversDay", u>> \in graph
      <3>1. PICK t \in graph : t[1] = p /\ t[2] = "a" /\ t[3] = <<"class", "SourceDay">>
        BY DEF Typed
      <3>2. t \in TemporalEnrich(H)
        BY <2>1, <3>1 DEF SaysThePeriodsOf
      <3>3. PICK x \in PeriodsOf(H) : x.kind = "day" /\ p = x.uri
        BY <3>1, <3>2, TemporalWrites DEF ByTemporal
      <3>4. PICK f \in Facts(H) : \E src : /\ AsDate(f[3])[3] \in 1..12
                                           /\ x \in PlacedBy(AsDate(f[3]), src)
                                           /\ <<f[1], x>> \in Dated(H)
        BY <3>3, PeriodKinds
      <3> DEFINE d == AsDate(f[3])
      <3>5. PICK src : x \in PlacedBy(d, src) /\ <<f[1], x>> \in Dated(H)
        BY <3>4
      <3>6. d[4] > 0 /\ x = DayOf(d, src)
        BY <3>3, <3>5, PeriodsAreMinted DEF PlacedBy
      <3> DEFINE u == Unified("day", x.name)
                 m == Unified("month", <<d[3]>>)
      <3>7. x.name = <<d[2], d[3], d[4]>> /\ p = <<"period", src, "day", x.name>>
        BY <3>3, <3>6, PeriodsAreMinted
      <3>8. /\ A(u, "UnifiedDay") \in graph /\ <<u, "sameAs", p>> \in graph
            /\ <<m, "coversDay", u>> \in graph
        <4>1. x.name[2] = d[3]
          BY <3>7
        <4> HIDE DEF d
        <4> QED
          BY <2>2, <3>3, <3>5, <3>6, <4>1, DaysAreWritten
      <3>9. A(m, "UnifiedMonth") \in graph
        <4>1. PICK s : \A y \in PlacedBy(d, s) : <<f[1], y>> \in Dated(H)
          BY <3>4, FactsDate
        <4>2. <<f[1], MonthOf(d, s)>> \in Dated(H)
          BY <4>1 DEF PlacedBy
        <4> HIDE DEF d
        <4> QED
          BY <2>2, <4>2, MonthsAreWritten
      <3> HIDE DEF d, u, m
      <3>10. u \in Typed(graph, "UnifiedDay") /\ m \in Typed(graph, "UnifiedMonth")
        BY <3>8, <3>9 DEF A, Typed
      <3>11. <<u, p>> \in Rel(graph, "sameAs")
        BY <3>8 DEF Rel
      <3>12. ASSUME NEW q \in Rel(graph, "sameAs"), q[2] = p
             PROVE  q[1] = u
        <4>1. PICK l \in graph : l[2] = "sameAs" /\ q = <<l[1], l[3]>>
          BY DEF Rel
        <4>2. l[3] = p /\ KindOf(p) = "period"
          BY <3>7, <3>12, <4>1 DEF KindOf
        <4>3. l \in TemporalEnrich(H)
          BY <2>1, <4>1, <4>2 DEF SaysThePeriodsOf
        <4>4. PICK y \in PeriodsOf(H) : l = <<Unified(y.kind, y.name), "sameAs", y.uri>>
          BY <4>1, <4>3, TemporalWrites DEF ByTemporal
        <4>5. y.uri = p
          BY <4>2, <4>4
        <4>6. PICK b, s : y \in PlacedBy(b, s)
          BY <4>2, <4>5, PeriodKinds
        <4>7. y.uri = <<"period", s, y.kind, y.name>>
          BY <4>6, PeriodsAreMinted DEF PlacedBy
        <4>8. y.kind = "day" /\ y.name = x.name
          BY <3>7, <4>5, <4>7
        <4> QED
          BY <4>1, <4>4, <4>8 DEF u
      <3>13. {q[1] : q \in {y \in Rel(graph, "sameAs") : y[2] = p}} = {u}
        BY <3>11, <3>12
      <3> QED
        BY <3>8, <3>10, <3>13
    <2>10. said = {<<t[1], AsDate(t[3])>> : t \in
                      {u \in Only(graph, {ps[1] : ps \in DatePredicates}) :
                          KindOf(u[3]) \in {"date", "time"}}}
      BY DEF Facts, Dates0
    <2>11. ASSUME NEW r \in said
           PROVE  (\E p \in {o[2] : o \in {q \in observed : q[1] = r[1]}} : p[4] = Name(r[2]))
                  <=> Places(r[2]) /\ (r[2][4] > 0 \/ ~HasDay(r[1]))
      <3>1. PICK t \in Facts(H) : r = <<t[1], AsDate(t[3])>>
        BY <2>2
      <3>2. r[1] = t[1] /\ r[2] = AsDate(t[3])
        BY <3>1
      <3> HIDE DEF Name
      <3> QED
        BY <2>7, <3>2
    <2> HIDE DEF said, days
    <2> QED
      BY <2>8, <2>9, <2>10, <2>11 DEF FinestPeriodOnly, HasDay, days, observed
  <1>2. Init => QueueOfSettings /\ JobIsGiven
    BY SettingsAssumption DEF Init, QueueOfSettings, JobIsGiven
  <1> QED
    BY <1>1, <1>2, StepQueue, StepJob, GraphIsMadeInPhases, PTL DEF Spec

----------------------------------------------------------------------------
(* The hierarchy of classes.                                               *)

\* What a relation reaches is built up a step at a time, f[n] after n more.
OneStep(R, ns) == {r[2] : r \in {q \in R : q[1] \in ns}}
Climbs(R, a, N, f) ==
    f = [n \in 0..N |-> IF n = 0 THEN OneStep(R, {a}) ELSE f[n - 1] \cup OneStep(R, f[n - 1])]

\* A set of natural numbers has a least one.
LEMMA LeastOfSome ==
  ASSUME NEW S, S \subseteq Nat, S # {}
  PROVE  \E n \in S : \A m \in S : n <= m
  <1> DEFINE R == {ss \in Nat \X Nat : ss[1] < ss[2]}
  <1>1. IsWellFoundedOn(R, Nat)
    BY NatLessThanWellFounded DEF OpToRel
  <1> HIDE DEF R
  <1>2. PICK n \in S : \A m \in S : <<m, n>> \notin R
    BY <1>1, WFMin
  <1>3. ASSUME NEW m \in S
        PROVE  n <= m
    <2>1. <<m, n>> \in Nat \X Nat /\ m \in Nat /\ n \in Nat
      OBVIOUS
    <2>2. ~(<<m, n>>[1] < <<m, n>>[2])
      BY <1>2, <2>1 DEF R
    <2> QED
      BY <2>1, <2>2
  <1> QED
    BY <1>3

LEMMA ClimbStarts ==
  ASSUME NEW R, NEW a, NEW N \in Nat, NEW f, Climbs(R, a, N, f)
  PROVE  f[0] = OneStep(R, {a})
  <1>1. \A n \in 0..N : f[n] = IF n = 0 THEN OneStep(R, {a}) ELSE f[n - 1] \cup OneStep(R, f[n - 1])
    BY DEF Climbs
  <1>2. 0 \in 0..N
    OBVIOUS
  <1> QED
    BY <1>1, <1>2

LEMMA ClimbGoesOn ==
  ASSUME NEW R, NEW a, NEW N \in Nat, NEW f, Climbs(R, a, N, f), NEW n \in 1..N
  PROVE  f[n] = f[n - 1] \cup OneStep(R, f[n - 1])
  <1>1. \A k \in 0..N : f[k] = IF k = 0 THEN OneStep(R, {a}) ELSE f[k - 1] \cup OneStep(R, f[k - 1])
    BY DEF Climbs
  <1>2. n \in 0..N /\ n # 0
    OBVIOUS
  <1> QED
    BY <1>1, <1>2

LEMMA SomethingClimbs ==
  ASSUME NEW R, NEW a, NEW N \in Nat
  PROVE  \E f : Climbs(R, a, N, f)
  <1> DEFINE S == {n \in Nat : ~ \E f : Climbs(R, a, n, f)}
  <1> SUFFICES ASSUME S # {} PROVE FALSE
    OBVIOUS
  <1>1. PICK n \in S : \A m \in S : n <= m
    BY LeastOfSome
  <1>2. CASE n = 0
    <2> DEFINE f == [k \in 0..0 |-> OneStep(R, {a})]
    <2>1. f[0] = OneStep(R, {a}) /\ \A k \in 0..0 : k = 0
      OBVIOUS
    <2>2. Climbs(R, a, 0, f)
      BY <2>1 DEF Climbs
    <2> QED
      BY <1>2, <2>2
  <1>3. CASE n # 0
    <2>1. PICK m \in Nat : m = n - 1 /\ m < n /\ n \in Nat
      BY <1>3
    <2>2. PICK f : Climbs(R, a, m, f)
      BY <1>1, <2>1
    <2>3. \A l \in 1..m : f[l] = f[l - 1] \cup OneStep(R, f[l - 1])
      BY <2>2, ClimbGoesOn
    <2> DEFINE g == [k \in 0..n |-> IF k = n THEN f[m] \cup OneStep(R, f[m]) ELSE f[k]]
    <2>4. ASSUME NEW k \in 0..n
          PROVE  g[k] = IF k = 0 THEN OneStep(R, {a}) ELSE g[k - 1] \cup OneStep(R, g[k - 1])
      <3>1. CASE k = 0
        <4>1. f[0] = OneStep(R, {a})
          BY <2>2, ClimbStarts
        <4> QED
          BY <1>3, <3>1, <4>1
      <3>2. CASE k = n
        <4>1. m \in 0..n /\ m # n
          BY <2>1
        <4>2. g[m] = f[m]
          BY <4>1
        <4> QED
          BY <1>3, <2>1, <3>2, <4>2
      <3>3. CASE k # 0 /\ k # n
        <4>1. k \in 1..m /\ k - 1 \in 0..n /\ k - 1 # n
          BY <2>1, <3>3
        <4>2. f[k] = f[k - 1] \cup OneStep(R, f[k - 1])
          BY <2>3, <4>1
        <4>3. g[k] = f[k] /\ g[k - 1] = f[k - 1]
          BY <3>3, <4>1
        <4> QED
          BY <3>3, <4>2, <4>3
      <3> QED
        BY <3>1, <3>2, <3>3
    <2>5. g = [k \in 0..n |-> g[k]]
      OBVIOUS
    <2> HIDE DEF g
    <2>6. Climbs(R, a, n, g)
      BY <2>4, <2>5 DEF Climbs
    <2> QED
      BY <2>6
  <1> QED
    BY <1>2, <1>3

\* What is reached is what is climbed to in as many steps as there are pairs.
LEMMA ReachIsClimbed ==
  ASSUME NEW R, NEW a, IsFiniteSet(R)
  PROVE  \E f : Climbs(R, a, Cardinality(R), f) /\ Reach(R, a) = f[Cardinality(R)]
  <1> DEFINE N == Cardinality(R)
             up == CHOOSE f : f = [n \in 0..N |-> IF n = 0 THEN OneStep(R, {a})
                                                 ELSE f[n - 1] \cup OneStep(R, f[n - 1])]
  <1>1. \E f : Climbs(R, a, N, f)
    BY SomethingClimbs, FS_CardinalityType
  <1>2. Climbs(R, a, N, up)
    BY <1>1 DEF Climbs
  <1>3. Reach(R, a) = up[N]
    BY DEF Reach, OneStep
  <1> QED
    BY <1>2, <1>3

\* A climb loses nothing on the way.
LEMMA ClimbGrows ==
  ASSUME NEW R, NEW a, NEW N \in Nat, NEW f, Climbs(R, a, N, f), NEW m \in 0..N
  PROVE  f[m] \subseteq f[N]
  <1> DEFINE S == {n \in Nat : m <= n /\ n <= N /\ ~(f[m] \subseteq f[n])}
  <1> SUFFICES ASSUME S # {} PROVE FALSE
    OBVIOUS
  <1>1. PICK n \in S : \A k \in S : n <= k
    BY LeastOfSome
  <1>2. n \in 1..N /\ n - 1 \in Nat /\ m <= n - 1
    <2>1. n # m
      OBVIOUS
    <2> QED
      BY <2>1
  <1>3. f[m] \subseteq f[n - 1]
    BY <1>1, <1>2
  <1>4. f[n] = f[n - 1] \cup OneStep(R, f[n - 1])
    BY <1>2, ClimbGoesOn
  <1>5. f[n - 1] \subseteq f[n]
    BY <1>4
  <1> QED
    BY <1>3, <1>5

\* What is climbed to over the classes' nodes is climbed to over their names.
Names(y, x) == y = C(x)
LEMMA NamesClimb ==
  ASSUME NEW E, NEW a, NEW N \in Nat, NEW f, Climbs(E, a, N, f),
         NEW U, \A u \in U : \E e \in E : Names(u[1], e[1]) /\ Names(u[2], e[2]),
         NEW M \in Nat, M <= N, NEW g, NEW b, Names(b, a), Climbs(U, b, M, g)
  PROVE  \A n \in 0..M : \A y \in g[n] : \E x \in f[n] : Names(y, x)
  <1>1. ASSUME NEW ns, NEW xs, \A y \in ns : \E x \in xs : Names(y, x), NEW y \in OneStep(U, ns)
        PROVE  \E x \in OneStep(E, xs) : Names(y, x)
    <2>1. PICK u \in U : u[1] \in ns /\ y = u[2]
      BY <1>1 DEF OneStep
    <2>2. PICK e \in E : Names(u[1], e[1]) /\ Names(u[2], e[2])
      OBVIOUS
    <2>3. PICK x \in xs : Names(u[1], x)
      BY <1>1, <2>1
    <2>4. e[1] = x
      BY <2>2, <2>3 DEF Names, C
    <2>5. e[2] \in OneStep(E, xs)
      BY <2>4 DEF OneStep
    <2> QED
      BY <2>1, <2>2, <2>5
  <1> DEFINE S == {n \in Nat : n <= M /\ ~ \A y \in g[n] : \E x \in f[n] : Names(y, x)}
  <1> SUFFICES ASSUME S # {} PROVE FALSE
    OBVIOUS
  <1>2. PICK n \in S : \A k \in S : n <= k
    BY LeastOfSome
  <1>3. CASE n = 0
    <2>1. g[0] = OneStep(U, {b})
      BY ClimbStarts
    <2>2. f[0] = OneStep(E, {a})
      BY ClimbStarts
    <2>3. \A y \in {b} : \E x \in {a} : Names(y, x)
      OBVIOUS
    <2>4. \A y \in g[0] : \E x \in f[0] : Names(y, x)
      BY <1>1, <2>1, <2>2, <2>3
    <2> QED
      BY <1>3, <2>4
  <1>4. CASE n # 0
    <2>1. n \in 1..M /\ n \in 1..N /\ n - 1 \in 0..M /\ ~(n <= n - 1)
      BY <1>4
    <2>2. \A y \in g[n - 1] : \E x \in f[n - 1] : Names(y, x)
      BY <1>2, <2>1
    <2>3. g[n] = g[n - 1] \cup OneStep(U, g[n - 1])
      BY <2>1, ClimbGoesOn
    <2>4. f[n] = f[n - 1] \cup OneStep(E, f[n - 1])
      BY <2>1, ClimbGoesOn
    <2>5. \A y \in OneStep(U, g[n - 1]) : \E x \in OneStep(E, f[n - 1]) : Names(y, x)
      BY <1>1, <2>2
    <2>6. \A y \in g[n] : \E x \in f[n] : Names(y, x)
      BY <2>2, <2>3, <2>4, <2>5
    <2> QED
      BY <2>6
  <1> QED
    BY <1>3, <1>4

LEMMA NoCircleOfNames ==
  ASSUME NEW E, IsFiniteSet(E), _assert_is_dag(E),
         NEW U, U = {<<C(e[1]), C(e[2])>> : e \in E}, NEW r \in U
  PROVE  r[1] \notin Reach(U, r[1])
  <1> DEFINE named == [x \in E |-> <<C(x[1]), C(x[2])>>]
             N == Cardinality(E)
             M == Cardinality(U)
  <1>1. PICK e \in E : r = <<C(e[1]), C(e[2])>>
    OBVIOUS
  <1>2. IsFiniteSet(U) /\ M <= N
    <2>1. named \in Surjection(E, U)
      BY DEF Surjection
    <2> QED
      BY <2>1, FS_Surjection
  <1>3. M \in Nat /\ N \in Nat
    BY <1>2, FS_CardinalityType
  <1>4. \A u \in U : \E x \in E : Names(u[1], x[1]) /\ Names(u[2], x[2])
    BY DEF Names
  <1>5. Names(r[1], e[1])
    BY <1>1 DEF Names
  <1>6. PICK f : Climbs(E, e[1], N, f) /\ Reach(E, e[1]) = f[N]
    BY ReachIsClimbed
  <1>7. PICK g : Climbs(U, r[1], M, g) /\ Reach(U, r[1]) = g[M]
    BY <1>2, ReachIsClimbed
  <1> HIDE DEF N, M
  <1>8. ASSUME r[1] \in Reach(U, r[1])
        PROVE  FALSE
    <2>1. M \in 0..M /\ M \in 0..N
      BY <1>2, <1>3
    <2>2. \A n \in 0..M : \A y \in g[n] : \E x \in f[n] : Names(y, x)
      BY <1>2, <1>3, <1>4, <1>5, <1>6, <1>7, NamesClimb
    <2>3. PICK x \in f[M] : Names(r[1], x)
      BY <1>7, <1>8, <2>1, <2>2
    <2>4. x = e[1]
      BY <1>5, <2>3 DEF Names, C
    <2>5. f[M] \subseteq f[N]
      BY <1>3, <1>6, <2>1, ClimbGrows
    <2>6. e[1] \in Reach(E, e[1])
      BY <1>6, <2>3, <2>4, <2>5
    <2> QED
      BY <2>6 DEF _assert_is_dag
  <1> QED
    BY <1>8

\* There are finitely many edges of classes, whatever the graph.
LEMMA FiniteEdges ==
  ASSUME NEW G, NEW overrides, IsFiniteSet(overrides)
  PROVE  IsFiniteSet(ClassEdges(G, overrides))
  <1> DEFINE mappings == resolve_class_mappings(overrides)
             classes == {c[2] : c \in ObjectsOf(G, "a")} \cap DOMAIN ClassName
  <1>1. IsFiniteSet(CLASS_MAPPINGS \cup overrides)
    BY ClassesAssumption, FS_Union
  <1>2. partition_shared_targets(mappings).wider \subseteq CLASS_MAPPINGS \cup overrides
    <2>1. partition_shared_targets(mappings).wider \subseteq mappings
      BY DEF partition_shared_targets
    <2>2. mappings \subseteq CLASS_MAPPINGS \cup overrides
      BY DEF resolve_class_mappings
    <2> QED
      BY <2>1, <2>2
  <1>3. IsFiniteSet(classes)
    <2>1. classes \subseteq DOMAIN ClassName
      OBVIOUS
    <2> HIDE DEF classes
    <2> QED
      BY <2>1, ClassesAssumption, FS_Subset
  <1> HIDE DEF classes, mappings
  <1>4. IsFiniteSet(classes \X classes)
    BY <1>3, FS_Product
  <1>5. derive_subclass_edges(classes) \subseteq classes \X classes
    BY DEF derive_subclass_edges
  <1>6. IsFiniteSet(partition_shared_targets(mappings).wider)
    BY <1>1, <1>2, FS_Subset
  <1>7. IsFiniteSet(derive_subclass_edges(classes))
    BY <1>4, <1>5, FS_Subset
  <1>8. ClassEdges(G, overrides) =
           partition_shared_targets(mappings).wider \cup derive_subclass_edges(classes)
    BY DEF ClassEdges, mappings, classes
  <1> QED
    BY <1>6, <1>7, <1>8, FS_Union

\* What the mapper says of a class being under another is the hierarchy it derived.
LEMMA OntologySubclasses ==
  ASSUME NEW G, NEW overrides, NEW t \in OntologyEnrich(G, overrides), t[2] = "subClassOf"
  PROVE  t \in _derive_class_hierarchy(G, overrides)
  <1>1. t \notin _fold_predicates_to_unified(G)
    <2>1. ASSUME t \in _fold_predicates_to_unified(G)
          PROVE  \E m \in PROPERTY_MAPPINGS : m[2] = "subClassOf"
      <3>1. PICK m \in PROPERTY_MAPPINGS : \E u : t = <<u[1], m[2], u[3]>>
        BY <2>1 DEF _fold_predicates_to_unified
      <3> QED
        BY <3>1
    <2>2. "subClassOf" \in PhasePredicates
      BY DEF PhasePredicates, OntologyPredicates
    <2> QED
      BY <2>1, <2>2, TablesAssumption
  <1>2. t \notin _create_property_equivalences \cup _create_class_equivalences(overrides)
    BY DEF _create_property_equivalences, _create_class_equivalences
  <1>3. t \notin _derive_property_hierarchy
    BY DEF _derive_property_hierarchy
  <1>4. t \notin _normalize_labels(G)
    BY DEF _normalize_labels
  <1>5. t \notin _derive_property_schema(G)
    <2>1. \E D, R : _derive_property_schema(G) =
                        {<<P(d[1]), "domain", C(d[2])>> : d \in D}
                        \cup {<<P(d[1]), "range", C(d[2])>> : d \in R}
      BY DEF _derive_property_schema
    <2> QED
      BY <2>1
  <1> QED
    BY <1>1, <1>2, <1>3, <1>4, <1>5 DEF OntologyEnrich

\* No phase before the mapper puts a class under another, nor does a source.
LEMMA NoClassIsUnderYet ==
  ASSUME SourcesSpeakForThemselves, NEW G, AfterCross(G), NEW t \in G
  PROVE  t[2] # "subClassOf"
  <1>1. PICK K : AfterTemporal(K) /\ G = K \cup CrossEnrich(K, TickersOfRun, SubsOfRun)
    BY DEF AfterCross
  <1>2. PICK H : AfterLinkers(H) /\ K = H \cup TemporalEnrich(H)
    BY <1>1 DEF AfterTemporal
  <1>3. CASE t \in Loaded
    BY <1>3 DEF SourcesSpeakForThemselves, IsOfASource
  <1>4. CASE ByALinker(t, Loaded)
    <2>1. "subClassOf" \in PhasePredicates /\ "subClassOf" \notin LinkerPredicates
      BY DEF PhasePredicates, OntologyPredicates, LinkerPredicates
    <2>2. "subClassOf" \notin Correlations
      BY <2>1, TablesAssumption DEF Correlations
    <2> QED
      BY <1>4, <2>1, <2>2 DEF ByALinker
  <1>5. CASE t \in TemporalEnrich(H)
    BY <1>5, TemporalWrites DEF ByTemporal, TemporalPredicates
  <1>6. CASE t \in CrossEnrich(K, TickersOfRun, SubsOfRun)
    <2>1. ByCross(t, K)
      BY <1>6, CrossWrites
    <2> QED
      BY <2>1 DEF ByCross, CrossPredicates, HubLinks
  <1> QED
    BY <1>1, <1>2, <1>3, <1>4, <1>5, <1>6, LinkersWrite

\* The hierarchy of an enriched graph is the one the mapper found no circle in.
LEMMA HierarchyIsTheMappers ==
  ASSUME SourcesSpeakForThemselves, NEW G, AfterOntology(G), IsFiniteSet(job.overrides),
         NEW r \in Rel(G, "subClassOf")
  PROVE  r[1] \notin Reach(Rel(G, "subClassOf"), r[1])
  <1>1. PICK t \in G : t[2] = "subClassOf" /\ r = <<t[1], t[3]>>
    BY DEF Rel
  <1>2. PICK H : /\ AfterCross(H) /\ ~MapperFails(H, job.overrides)
                 /\ G = H \cup OntologyEnrich(H, job.overrides)
    BY <1>1, NoClassIsUnderYet DEF AfterOntology
  <1> DEFINE E == ClassEdges(H, job.overrides)
             U == {<<C(e[1]), C(e[2])>> : e \in E}
  <1>3. IsFiniteSet(E) /\ _assert_is_dag(E)
    BY <1>2, FiniteEdges DEF MapperFails
  <1>4. _derive_class_hierarchy(H, job.overrides) = {<<C(e[1]), "subClassOf", C(e[2])>> : e \in E}
    BY DEF _derive_class_hierarchy
  <1> HIDE DEF E
  <1>5. Rel(G, "subClassOf") = U
    <2>1. ASSUME NEW q \in Rel(G, "subClassOf")
          PROVE  q \in U
      <3>1. PICK u \in G : u[2] = "subClassOf" /\ q = <<u[1], u[3]>>
        BY DEF Rel
      <3>2. u \in _derive_class_hierarchy(H, job.overrides)
        BY <1>2, <3>1, NoClassIsUnderYet, OntologySubclasses
      <3>3. PICK e \in E : u = <<C(e[1]), "subClassOf", C(e[2])>>
        BY <1>4, <3>2
      <3> QED
        BY <3>1, <3>3
    <2>2. ASSUME NEW e \in E
          PROVE  <<C(e[1]), C(e[2])>> \in Rel(G, "subClassOf")
      <3> DEFINE u == <<C(e[1]), "subClassOf", C(e[2])>>
      <3>1. u \in _derive_class_hierarchy(H, job.overrides)
        BY <1>4
      <3>2. u \in G
        BY <1>2, <3>1 DEF OntologyEnrich
      <3>3. u[1] = C(e[1]) /\ u[2] = "subClassOf" /\ u[3] = C(e[2])
        OBVIOUS
      <3> HIDE DEF u
      <3>4. <<u[1], u[3]>> \in Rel(G, "subClassOf")
        BY <3>2, <3>3 DEF Rel
      <3> QED
        BY <3>3, <3>4
    <2> QED
      BY <2>1, <2>2
  <1> HIDE DEF U
  <1>6. U = {<<C(e[1]), C(e[2])>> : e \in E}
    BY DEF U
  <1> QED
    BY <1>3, <1>5, <1>6, NoCircleOfNames

\* No class is under itself in any graph a run may enrich: whatever classes the
\* documents name that day and whatever mappings the run was given, the mapper
\* looks at the two together before it writes either.
THEOREM ClassesClimbUpward == Spec => []HierarchyHasNoCircle
  <1>1. ASSUME PhaseInv, JobIsGiven
        PROVE  HierarchyHasNoCircle
    <2> SUFFICES ASSUME stage = "enriched" PROVE HierarchyHasNoCircle
      BY DEF HierarchyHasNoCircle, Enriched
    <2>1. SourcesSpeakForThemselves
      BY <1>1, LoadedIsTheSources DEF Idle
    <2>2. PICK s \in DOMAIN Settings : job = JobConfig(Settings[s])
      BY <1>1 DEF JobIsGiven, Idle
    <2>3. job.overrides = Settings[s].overrides
      BY <2>2, SettingsAssumption DEF JobConfig
    <2>4. IsFiniteSet(job.overrides)
      BY <2>3, SettingsAssumption
    <2>5. AfterOntology(graph)
      BY <1>1 DEF PhaseInv
    <2>6. ASSUME NEW r \in Rel(graph, "subClassOf")
          PROVE  r[1] \notin Reach(Rel(graph, "subClassOf"), r[1])
      BY <2>1, <2>4, <2>5, HierarchyIsTheMappers
    <2> QED
      BY <2>6 DEF HierarchyHasNoCircle
  <1>2. Init => QueueOfSettings /\ JobIsGiven
    BY SettingsAssumption DEF Init, QueueOfSettings, JobIsGiven
  <1> QED
    BY <1>1, <1>2, StepQueue, StepJob, GraphIsMadeInPhases, PTL DEF Spec

----------------------------------------------------------------------------
(* The companies.                                                          *)

\* The constituents are among those there may be, whenever they are exported.
StoreIsGiven == store \in Stores
LEMMA StepStore == StoreIsGiven /\ [Next]_vars => StoreIsGiven'
  <1> SUFFICES ASSUME StoreIsGiven, [Next]_vars PROVE StoreIsGiven'
    OBVIOUS
  <1>1. CASE StoreChanges
    BY <1>1 DEF StoreChanges, StoreIsGiven
  <1>2. CASE EnrichGraph /\ ~StoreChanges
    <2>1. store' = store
      BY <1>2 DEF EnrichGraph, RunEnrichment, EnrichIntraSource, LinkerRaises, CountingRaises,
         UnionIntraSource, UnifyTemporal, LinkCrossSource, MapOntology, OntologyRefused, Settle
    <2> QED
      BY <2>1 DEF StoreIsGiven
  <1>3. CASE RunJob
    <2>1. ASSUME NEW s, ParseArgs(Settings[s])
          PROVE  store' = store
      BY <2>1 DEF ParseArgs
    <2>2. check_work_dir_occupancy \/ LoadSourceTriples \/ SaveEnrichedParquet
          \/ SaveDatasetDescriptor \/ DescriptorLost => store' = store
      BY DEF check_work_dir_occupancy, LoadSourceTriples, SaveEnrichedParquet,
         SaveDatasetDescriptor, DescriptorLost
    <2>3. LoadDatasetDescriptor \/ LoadEnrichedParquet \/ WriteNodes \/ WriteEdges
          \/ WriteLiterals \/ WriteGraphStore \/ WriteFeeds => store' = store
      BY DEF LoadDatasetDescriptor, LoadEnrichedParquet, WriteNodes, WriteEdges, WriteLiterals,
         WriteGraphStore, WriteFeeds
    <2>4. Build \/ SavePyg \/ SaveJobManifest \/ JobEnds => store' = store
      BY DEF Build, SavePyg, SaveJobManifest, JobEnds, Cleared
    <2>5. \A i \in 1..7 : SaveArtifact(i) => store' = store
      BY DEF SaveArtifact
    <2> QED
      BY <1>3, <2>1, <2>2, <2>3, <2>4, <2>5 DEF RunJob, StoreIsGiven
  <1>4. CASE UNCHANGED vars
    BY <1>4 DEF vars, StoreIsGiven
  <1> QED
    BY <1>1, <1>2, <1>3, <1>4 DEF Next

\* The constituents' CIKs are numbers.
LEMMA TickersAreNumbers ==
  ASSUME StoreIsGiven, NEW t \in TickersOfRun
  PROVE  t[2][2] \in Nat
  <1> DEFINE read == Reads({"symbol", "cik"})
  <1>1. t \in get_ticker_cik_map(read)
    BY DEF TickersOfRun
  <1> HIDE DEF read
  <1>2. PICK row \in read.rows : row.cik > 0 /\ \E s : t = <<<<"sym", s>>, <<"cik", row.cik>>>>
    BY <1>1 DEF get_ticker_cik_map
  <1>3. row.cik \in Int
    <2> DEFINE keys == constituents_keys("folder", job.day)
               there == {i \in 1..Len(keys) : keys[i] \in DOMAIN store /\ store[keys[i]].kind # "absent"}
               first == CHOOSE j \in there : \A k \in there : j <= k
    <2>1. read.rows = {} \/ (there # {} /\ read.rows = store[keys[first]].rows)
      BY DEF read, Reads, _read_constituents, NoFile
    <2>2. there # {} /\ read.rows = store[keys[first]].rows
      BY <1>2, <2>1
    <2>3. there \subseteq Nat
      OBVIOUS
    <2> HIDE DEF there
    <2>4. first \in there
      BY <2>2, <2>3, LeastOfSome
    <2>5. keys[first] \in DOMAIN store
      BY <2>4 DEF there
    <2> QED
      BY <1>2, <2>2, <2>5, StoresAssumption DEF StoreIsGiven
  <1>4. t[2][2] = row.cik
    BY <1>2
  <1> QED
    BY <1>2, <1>3, <1>4

\* A triple that is loaded is a row of a document of one path, which the filings'
\* have padded, or it says what datatype a predicate's literals are of.
RowOf(p, t) ==
    \E d \in p.docs : \E r \in d.rows :
       t = IF match_path(p) # "sec" THEN r.t
           ELSE <<_canonical_cik_uri(r.t[1]), r.t[2], _canonical_identifier_literal(r.t[2], r.t[3])>>
LEMMA LoadedIsOfRows ==
  ASSUME JobIsGiven, stage # Idle, NEW t \in Loaded
  PROVE  \/ \E p \in job.paths : RowOf(p, t)
         \/ KindOf(t[1]) = "property" /\ t[2] = "observedLiteralDatatype"
  <1>1. PICK s \in DOMAIN Settings : job = JobConfig(Settings[s])
    BY DEF JobIsGiven
  <1>2. job.paths = Settings[s].paths
    BY <1>1, SettingsAssumption DEF JobConfig
  <1> DEFINE Read(p) == UNION {turtle_rows_or_skip(d) : d \in p.docs}
             Of(p) == canonicalize_source_triples(Read(p), match_path(p))
             rows == UNION {Of(p) : p \in job.paths}
  <1>3. Loaded = {r.t : r \in rows} \cup literal_datatype_observations(rows)
    BY DEF Loaded, load_source_triples
  <1>4. ASSUME NEW p \in job.paths, NEW q \in Of(p)
        PROVE  RowOf(p, q.t)
    <2>1. ASSUME NEW r \in Read(p)
          PROVE  "t" \in DOMAIN r /\ \E d \in p.docs : r \in d.rows
      <3>1. PICK d \in p.docs : r \in d.rows
        BY DEF turtle_rows_or_skip
      <3> QED
        BY <1>2, <3>1, VocabulariesAssumption
    <2>2. q \in canonicalize_source_triples(Read(p), match_path(p))
      OBVIOUS
    <2> HIDE DEF Read
    <2>3. CASE match_path(p) # "sec"
      <3>1. q \in Read(p)
        BY <2>2, <2>3 DEF canonicalize_source_triples
      <3> QED
        BY <2>1, <2>3, <3>1 DEF RowOf
    <2>4. CASE match_path(p) = "sec"
      <3>1. PICK r \in Read(p) :
               q = [r EXCEPT !.t = <<_canonical_cik_uri(@[1]), @[2],
                                     _canonical_identifier_literal(@[2], @[3])>>]
        BY <2>2, <2>4 DEF canonicalize_source_triples
      <3>2. q.t = <<_canonical_cik_uri(r.t[1]), r.t[2], _canonical_identifier_literal(r.t[2], r.t[3])>>
        BY <2>1, <3>1
      <3> QED
        BY <2>1, <2>4, <3>2 DEF RowOf
    <2> QED
      BY <2>3, <2>4
  <1> HIDE DEF Of, rows
  <1>5. ASSUME t \in literal_datatype_observations(rows)
        PROVE  KindOf(t[1]) = "property" /\ t[2] = "observedLiteralDatatype"
    <2>1. \E c, d : t = <<P(c), "observedLiteralDatatype", C(d)>>
      BY <1>5 DEF literal_datatype_observations
    <2> QED
      BY <2>1 DEF P, KindOf
  <1>6. ASSUME t \in {r.t : r \in rows}
        PROVE  \E p \in job.paths : RowOf(p, t)
    <2>1. PICK q \in rows : t = q.t
      BY <1>6
    <2>2. PICK p \in job.paths : q \in Of(p)
      BY DEF rows
    <2> QED
      BY <1>4, <2>1, <2>2
  <1> QED
    BY <1>3, <1>5, <1>6

\* What the filings' padding leaves is of the filings, its CIKs numbers.
LEMMA PaddedIsOfTheFilings ==
  ASSUME NEW t, IsOf("sec", t)
  PROVE  /\ KindOf(_canonical_cik_uri(t[1])) \in SourceKinds["sec"]
         /\ t[2] = "hasIssuerCik" => _canonical_identifier_literal(t[2], t[3])[2] \in Nat
         /\ t[2] \notin {"symbol", "hasInfo", "hasSentTime", "hasSeverity"}
  <1>0. t[2] \notin {"symbol", "hasInfo", "hasSentTime", "hasSeverity"}
    BY DEF IsOf
  <1>1. t[2] = "hasIssuerCik" => _canonical_identifier_literal(t[2], t[3])[2] \in Nat
    BY DEF IsOf, _canonical_identifier_literal, _canonical_cik_uri, PADDED_IDENTIFIERS, KindOf
  <1>2. CASE KindOf(t[1]) = "raw"
    <2>1. t[1][2] \in CIK_KEYED_KINDS
      BY <1>2, SourcesAssumption DEF IsOf
    <2>2. _canonical_cik_uri(t[1]) = <<t[1][2], t[1][3]>>
      BY <1>2, <2>1 DEF _canonical_cik_uri
    <2>3. KindOf(_canonical_cik_uri(t[1])) \in SourceKinds["sec"]
      BY <2>1, <2>2, SourcesAssumption DEF KindOf
    <2> QED
      BY <1>0, <1>1, <2>3
  <1>3. CASE KindOf(t[1]) # "raw"
    <2>1. KindOf(t[1]) \in SourceKinds["sec"] /\ _canonical_cik_uri(t[1]) = t[1]
      BY <1>3 DEF IsOf, _canonical_cik_uri
    <2> QED
      BY <1>0, <1>1, <2>1
  <1> QED
    BY <1>2, <1>3

OfTriplesMode == job.mode \in TriplesModes

\* Who states what companies are known by, and the numbers of what is stated.
StatedByItsOwn(t) ==
    /\ KindOf(t[1]) \in SourceKinds["market"] => "market" \in job.sources
    /\ t[2] = "symbol" => KindOf(t[1]) \in SourceKinds["market"]
    /\ t[2] \in {"hasIssuerCik", "hasCusip"} => KindOf(t[1]) \in SourceKinds["sec"]
    /\ t[2] = "hasIssuerCik" => t[3][2] \in Nat
    /\ t[2] = "hasInfo" => t[1][2] \in Nat
    /\ t[2] = "hasSentTime" => t[3][2] \in Nat
    /\ t[2] = "hasSeverity" => t[3][2] \in 1..4

\* The paths of a job that reads are each of one source, and are its sources.
LEMMA PathsAreOfSources ==
  ASSUME JobIsGiven, OfTriplesMode, stage # Idle
  PROVE  /\ job.sources = pick(job.paths)
         /\ \E s \in DOMAIN Settings : job.paths = Settings[s].paths
         /\ \A p \in job.paths : Matches(p)
  <1>1. PICK s \in DOMAIN Settings : job = JobConfig(Settings[s]) /\ ~JobConfigRefuses(Settings[s])
    BY DEF JobIsGiven
  <1>2. job.paths = Settings[s].paths /\ job.mode = Settings[s].mode
    BY <1>1, SettingsAssumption DEF JobConfig
  <1>3. Reading(Settings[s])
    BY <1>2 DEF Reading, OfTriplesMode, TriplesModes
  <1>4. job.sources = pick(Settings[s].paths)
    BY <1>1, <1>3 DEF JobConfig
  <1>5. \A p \in Settings[s].paths : Matches(p)
    BY <1>1, <1>3 DEF JobConfigRefuses
  <1> QED
    BY <1>2, <1>4, <1>5

\* What a source of the job states, padded where the filings state it.
StatedBy(source, t) ==
    \E x : /\ IsOf(source, x)
           /\ t = IF source # "sec" THEN x
                  ELSE <<_canonical_cik_uri(x[1]), x[2], _canonical_identifier_literal(x[2], x[3])>>
LEMMA LoadedIsStated ==
  ASSUME JobIsGiven, OfTriplesMode, stage # Idle, NEW t \in Loaded
  PROVE  \/ KindOf(t[1]) = "property" /\ t[2] = "observedLiteralDatatype"
         \/ \E source \in job.sources \cap DOMAIN SourceKinds : StatedBy(source, t)
  <1>1. ASSUME NEW p \in job.paths, RowOf(p, t)
        PROVE  \E source \in job.sources \cap DOMAIN SourceKinds : StatedBy(source, t)
    <2>1. PICK s \in DOMAIN Settings : job.paths = Settings[s].paths
      BY PathsAreOfSources
    <2>2. Matches(p) /\ match_path(p) \in job.sources
      BY PathsAreOfSources DEF pick
    <2>3. PICK d \in p.docs : \E r \in d.rows :
             t = IF match_path(p) # "sec" THEN r.t
                 ELSE <<_canonical_cik_uri(r.t[1]), r.t[2], _canonical_identifier_literal(r.t[2], r.t[3])>>
      BY <1>1 DEF RowOf
    <2>4. PICK r \in d.rows :
             t = IF match_path(p) # "sec" THEN r.t
                 ELSE <<_canonical_cik_uri(r.t[1]), r.t[2], _canonical_identifier_literal(r.t[2], r.t[3])>>
      BY <2>3
    <2>5. match_path(p) \in DOMAIN SourceKinds /\ IsOf(match_path(p), r.t)
      BY <2>1, <2>2, SourcesAssumption
    <2>6. StatedBy(match_path(p), t)
      BY <2>4, <2>5 DEF StatedBy
    <2> QED
      BY <2>2, <2>5, <2>6
  <1> QED
    BY <1>1, LoadedIsOfRows

LEMMA LoadedIsTheirOwn ==
  ASSUME JobIsGiven, OfTriplesMode, stage # Idle, NEW t \in Loaded
  PROVE  StatedByItsOwn(t)
  <1>0. "sec" \in DOMAIN SourceKinds /\ "market" \in DOMAIN SourceKinds
    BY SourcesAssumption
  <1>1. CASE KindOf(t[1]) = "property" /\ t[2] = "observedLiteralDatatype"
    <2>1. "property" \notin SourceKinds["market"]
      BY <1>0, SourcesAssumption
    <2> QED
      BY <1>1, <2>1 DEF StatedByItsOwn
  <1>2. ASSUME NEW source \in job.sources \cap DOMAIN SourceKinds, StatedBy(source, t)
        PROVE  StatedByItsOwn(t)
    <2>1. PICK x : /\ IsOf(source, x)
                   /\ t = IF source # "sec" THEN x
                          ELSE <<_canonical_cik_uri(x[1]), x[2], _canonical_identifier_literal(x[2], x[3])>>
      BY <1>2 DEF StatedBy
    <2>2. CASE source = "sec"
      <3>1. /\ KindOf(t[1]) \in SourceKinds["sec"]
            /\ t[2] = "hasIssuerCik" => t[3][2] \in Nat
            /\ t[2] \notin {"symbol", "hasInfo", "hasSentTime", "hasSeverity"}
        BY <2>1, <2>2, PaddedIsOfTheFilings
      <3>2. SourceKinds["sec"] \cap SourceKinds["market"] = {}
        BY <1>0, SourcesAssumption
      <3> QED
        BY <3>1, <3>2 DEF StatedByItsOwn
    <2>3. CASE source # "sec"
      <3>1. /\ t = x /\ KindOf(t[1]) \in SourceKinds[source]
            /\ t[2] \notin {"hasIssuerCik", "hasCusip"}
            /\ t[2] = "symbol" => source = "market"
            /\ t[2] = "hasSentTime" => t[3][2] \in Nat
            /\ t[2] = "hasSeverity" => t[3][2] \in 1..4
        BY <2>1, <2>3 DEF IsOf
      <3>2. t[2] = "hasInfo" => t[1][2] \in Nat
        <4>1. t[2] = "hasInfo" => t[1] \in UrisOf("alert")
          BY <2>1, <3>1 DEF IsOf
        <4> QED
          BY <4>1 DEF UrisOf
      <3>3. KindOf(t[1]) \in SourceKinds["market"] => source = "market"
        BY <1>0, <3>1, SourcesAssumption
      <3> QED
        BY <1>2, <3>1, <3>2, <3>3 DEF StatedByItsOwn
    <2> QED
      BY <2>2, <2>3
  <1> QED
    BY <1>1, <1>2, LoadedIsStated

\* A snapshot is of one symbol.
LEMMA OneSymbolASnapshot ==
  ASSUME JobIsGiven, OfTriplesMode, stage # Idle,
         NEW t \in Loaded, NEW u \in Loaded, t[2] = "symbol", u[2] = "symbol", t[1] = u[1]
  PROVE  t[3] = u[3]
  <1>1. PICK s \in DOMAIN Settings : job.paths = Settings[s].paths
    BY PathsAreOfSources
  <1>2. ASSUME NEW x \in Loaded, x[2] = "symbol"
        PROVE  \E p \in job.paths : \E d \in p.docs : \E r \in d.rows : x = r.t
    <2>1. PICK p \in job.paths : RowOf(p, x)
      BY <1>2, LoadedIsOfRows
    <2>2. PICK d \in p.docs : \E r \in d.rows :
             x = IF match_path(p) # "sec" THEN r.t
                 ELSE <<_canonical_cik_uri(r.t[1]), r.t[2], _canonical_identifier_literal(r.t[2], r.t[3])>>
      BY <2>1 DEF RowOf
    <2>r. PICK r \in d.rows :
             x = IF match_path(p) # "sec" THEN r.t
                 ELSE <<_canonical_cik_uri(r.t[1]), r.t[2], _canonical_identifier_literal(r.t[2], r.t[3])>>
      BY <2>2
    <2>3. IsOf(match_path(p), r.t)
      BY <1>1, PathsAreOfSources, SourcesAssumption
    <2>4. match_path(p) # "sec"
      BY <1>2, <2>3, <2>r, PaddedIsOfTheFilings
    <2> QED
      BY <2>4, <2>r
  <1>3. PICK p \in job.paths : \E d \in p.docs : \E r \in d.rows : t = r.t
    BY <1>2
  <1>4. PICK q \in job.paths : \E d \in q.docs : \E r \in d.rows : u = r.t
    BY <1>2
  <1> QED
    BY <1>1, <1>3, <1>4, SourcesAssumption

\* What the sources state in words of their own, the phases leave as it is.
LEMMA FactsAreLoaded ==
  ASSUME NEW G, AfterOntology(G), NEW t \in G,
         \/ t[2] \in SourcePredicates
         \/ t[2] = "a" /\ t[3] \in {<<"class", c>> : c \in SourceClasses}
  PROVE  t \in Loaded
  <1> DEFINE IsFact == \/ t[2] \in SourcePredicates
                       \/ t[2] = "a" /\ t[3] \in {<<"class", c>> : c \in SourceClasses}
  <1>0. PhasePredicates \cap SourcePredicates = {}
    BY TablesAssumption
  <1>1. ASSUME NEW H, AfterLinkers(H), t \in H
        PROVE  t \in Loaded
    <2>1. ~ByALinker(t, Loaded)
      <3>1. LinkerClasses \cap SourceClasses = {}
        BY DEF LinkerClasses, SourceClasses, FilingTypes
      <3>2. (LinkerPredicates \cup Correlations) \cap SourcePredicates = {}
        BY <1>0, TablesAssumption DEF Correlations, PhasePredicates
      <3> QED
        BY <3>1, <3>2 DEF ByALinker
    <2> QED
      BY <1>1, <2>1, LinkersWrite
  <1>2. ASSUME NEW H, AfterTemporal(H), t \in H
        PROVE  t \in Loaded
    <2>1. PICK K : AfterLinkers(K) /\ H = K \cup TemporalEnrich(K)
      BY <1>2 DEF AfterTemporal
    <2>2. ~ByTemporal(t, K)
      BY <1>0 DEF ByTemporal, PhasePredicates
    <2>3. t \in K
      BY <1>2, <2>1, <2>2, TemporalWrites
    <2> QED
      BY <1>1, <2>1, <2>3
  <1>3. ASSUME NEW H, AfterCross(H), t \in H
        PROVE  t \in Loaded
    <2>1. PICK K : AfterTemporal(K) /\ H = K \cup CrossEnrich(K, TickersOfRun, SubsOfRun)
      BY <1>3 DEF AfterCross
    <2>2. ~ByCross(t, K)
      <3>1. (Hubs \cup {m[2] : m \in MeasurementClasses}) \cap SourceClasses = {}
        BY TablesAssumption DEF Hubs, SourceClasses, FilingTypes
      <3> QED
        BY <1>0, <3>1 DEF ByCross, PhasePredicates
    <2>3. t \in K
      BY <1>3, <2>1, <2>2, CrossWrites
    <2> QED
      BY <1>2, <2>1, <2>3
  <1>4. CASE AfterCross(G)
    BY <1>3, <1>4
  <1>5. ASSUME NEW H, AfterCross(H), G = H \cup OntologyEnrich(H, job.overrides)
        PROVE  t \in Loaded
    <2>1. t[2] \notin OntologyPredicates \cup {m[2] : m \in PROPERTY_MAPPINGS}
      <3>1. "a" \notin OntologyPredicates /\ "a" \in PhasePredicates
        BY DEF OntologyPredicates, PhasePredicates, LinkerPredicates
      <3> QED
        BY <1>0, <3>1, TablesAssumption DEF PhasePredicates
    <2>2. t \in H
      BY <1>5, <2>1, OntologyWrites
    <2> QED
      BY <1>3, <1>5, <2>2
  <1> QED
    BY <1>4, <1>5 DEF AfterOntology

\* What the phases refer to companies are the references of the cross-source phase.
LEMMA CrossRefers ==
  ASSUME NEW G, NEW tickers, NEW subs, NEW t \in CrossEnrich(G, tickers, subs), t[2] = "refersToCompany"
  PROVE  \E r \in References(G, _detect_sources(G), tickers) : t[1] = r[1] /\ t[3] = Company(r[2])
  <1> DEFINE srcs == _detect_sources(G)
             Of(r) == {A(Company(r[2]), "UnifiedCompany"), <<Company(r[2]), "hasCik", r[2]>>,
                       <<r[1], "refersToCompany", Company(r[2])>>}
                      \cup (IF r[3] = NoSymbol THEN {} ELSE {<<Company(r[2]), "ticker", r[3]>>})
  <1>1. \/ t \in _link_by_sector(G) \cup sec_sector_keys(G) \cup market_sector_keys(G)
        \/ t \in _link_by_company(G, srcs, tickers) \cup link_by_sub_industry(G, srcs, tickers, subs)
        \/ t \in _link_by_geography(G, srcs)
        \/ t \in link_indicators_to_equity_sectors(G)
        \/ t \in _align_measurement_types(G, srcs)
    BY DEF CrossEnrich
  <1>2. t \notin link_indicators_to_equity_sectors(G)
    BY DEF link_indicators_to_equity_sectors
  <1>3. t \notin _align_measurement_types(G, srcs)
    <2>1. ASSUME t \in _align_measurement_types(G, srcs)
          PROVE  \E e, c : t = A(e, c)
      BY <2>1 DEF _align_measurement_types
    <2> QED
      BY <2>1 DEF A
  <1>4. t \notin link_by_sub_industry(G, srcs, tickers, subs)
    BY DEF link_by_sub_industry
  <1>5. t \in _link_by_company(G, srcs, tickers)
    BY <1>1, <1>2, <1>3, <1>4, SectorsByCross, RegionsByCross DEF ByCrossAlone
  <1>6. _link_by_company(G, srcs, tickers) = UNION {Of(r) : r \in References(G, srcs, tickers)}
    BY DEF _link_by_company
  <1>7. \A r : \A u \in Of(r) :
           u[2] = "refersToCompany" => u[1] = r[1] /\ u[3] = Company(r[2])
    BY DEF A
  <1> HIDE DEF Of
  <1>8. PICK r \in References(G, srcs, tickers) : t \in Of(r)
    BY <1>5, <1>6
  <1> QED
    BY <1>7, <1>8

\* Every reference is written, unless the graph has fewer than two sources.
LEMMA CrossWritesReferences ==
  ASSUME NEW G, NEW tickers, NEW subs, ~(Cardinality(_detect_sources(G)) < 2),
         NEW r \in References(G, _detect_sources(G), tickers)
  PROVE  <<r[1], "refersToCompany", Company(r[2])>> \in G \cup CrossEnrich(G, tickers, subs)
  <1> DEFINE srcs == _detect_sources(G)
  <1>1. <<r[1], "refersToCompany", Company(r[2])>> \in _link_by_company(G, srcs, tickers)
    BY DEF _link_by_company
  <1> QED
    BY <1>1 DEF CrossEnrich

\* Before the cross-source phase nothing refers to a company.
LEMMA NothingRefersYet ==
  ASSUME SourcesSpeakForThemselves, NEW G, AfterTemporal(G), NEW t \in G
  PROVE  t[2] # "refersToCompany"
  <1>1. PICK H : AfterLinkers(H) /\ G = H \cup TemporalEnrich(H)
    BY DEF AfterTemporal
  <1>2. CASE t \in Loaded
    BY <1>2 DEF SourcesSpeakForThemselves, IsOfASource, HubLinks
  <1>3. CASE ByALinker(t, Loaded)
    <2>1. "refersToCompany" \in PhasePredicates /\ "refersToCompany" \notin LinkerPredicates
      BY DEF PhasePredicates, CrossPredicates, HubLinks, LinkerPredicates
    <2>2. "refersToCompany" \notin Correlations
      BY <2>1, TablesAssumption DEF Correlations
    <2> QED
      BY <1>3, <2>1, <2>2 DEF ByALinker
  <1>4. CASE t \in TemporalEnrich(H)
    BY <1>4, TemporalWrites DEF ByTemporal, TemporalPredicates
  <1> QED
    BY <1>1, <1>2, <1>3, <1>4, LinkersWrite

\* So an enriched graph's references are those read off the graph K that the
\* phase found, and the mapper adds none, nor any node.
LEMMA ReferencesOfTheGraph ==
  ASSUME SourcesSpeakForThemselves, NEW G, AfterOntology(G)
  PROVE  \E K : /\ AfterTemporal(K) /\ K \cup CrossEnrich(K, TickersOfRun, SubsOfRun) \subseteq G
                /\ \A t \in G : t[2] = "refersToCompany" =>
                      t \in CrossEnrich(K, TickersOfRun, SubsOfRun)
                /\ \A t \in G : \/ KindOf(t[1]) \in {"class", "property"}
                                \/ \E u \in K \cup CrossEnrich(K, TickersOfRun, SubsOfRun) : t[1] = u[1]
  <1>1. PICK H : AfterCross(H) /\ (G = H \/ G = H \cup OntologyEnrich(H, job.overrides))
    BY DEF AfterOntology
  <1>2. PICK K : AfterTemporal(K) /\ H = K \cup CrossEnrich(K, TickersOfRun, SubsOfRun)
    BY <1>1 DEF AfterCross
  <1>3. ASSUME NEW t \in OntologyEnrich(H, job.overrides)
        PROVE  KindOf(t[1]) \in {"class", "property"} \/ \E u \in H : t[1] = u[1]
    <2>1. CASE t \in _fold_predicates_to_unified(H)
      <3>1. PICK m \in PROPERTY_MAPPINGS : \E u \in H : t = <<u[1], m[2], u[3]>>
        BY <2>1 DEF _fold_predicates_to_unified, Only
      <3> QED
        BY <3>1
    <2>2. CASE t \in _normalize_labels(H)
      <3>1. PICK q \in Rel(H, "label") : t[1] = q[1]
        BY <2>2 DEF _normalize_labels
      <3>2. PICK u \in H : q = <<u[1], u[3]>>
        BY DEF Rel
      <3> QED
        BY <3>1, <3>2
    <2>3. CASE t \in _create_property_equivalences \cup _create_class_equivalences(job.overrides)
      BY <2>3 DEF _create_property_equivalences, _create_class_equivalences, P, C, KindOf
    <2>4. CASE t \in _derive_property_hierarchy \cup _derive_class_hierarchy(H, job.overrides)
      BY <2>4 DEF _derive_property_hierarchy, _derive_class_hierarchy, P, C, KindOf
    <2>5. CASE t \in _derive_property_schema(H)
      <3>1. \E D, R : _derive_property_schema(H) =
                          {<<P(d[1]), "domain", C(d[2])>> : d \in D}
                          \cup {<<P(d[1]), "range", C(d[2])>> : d \in R}
        BY DEF _derive_property_schema
      <3> QED
        BY <2>5, <3>1 DEF P, KindOf
    <2> QED
      BY <2>1, <2>2, <2>3, <2>4, <2>5 DEF OntologyEnrich
  <1>4. ASSUME NEW t \in OntologyEnrich(H, job.overrides)
        PROVE  t[2] # "refersToCompany"
    <2>1. "refersToCompany" \in PhasePredicates /\ "refersToCompany" \notin OntologyPredicates
      BY DEF PhasePredicates, CrossPredicates, HubLinks, OntologyPredicates
    <2> QED
      BY <2>1, OntologyWrites, TablesAssumption
  <1>5. \A t \in K : t[2] # "refersToCompany"
    BY <1>2, NothingRefersYet
  <1>6. \A t \in G : t \in K \/ t \in CrossEnrich(K, TickersOfRun, SubsOfRun)
                     \/ t \in OntologyEnrich(H, job.overrides)
    BY <1>1, <1>2
  <1>7. \A t \in G : t[2] = "refersToCompany" => t \in CrossEnrich(K, TickersOfRun, SubsOfRun)
    BY <1>4, <1>5, <1>6
  <1>8. \A t \in G : \/ KindOf(t[1]) \in {"class", "property"}
                     \/ \E u \in H : t[1] = u[1]
    BY <1>1, <1>3
  <1> QED
    BY <1>1, <1>2, <1>7, <1>8

\* The pairings of symbols with CIKs, put in order by number.
Numbered(pairs) == \A p \in pairs : p[2][2] \in Nat /\ p[3] \in Nat
Foremost(q, pairs) ==
    \A r \in pairs : r[1] = q[1] => ~Before(<<r[3], r[2][2]>>, <<q[3], q[2][2]>>)
LEMMA SymbolCiksAreForemost ==
  ASSUME NEW G, NEW srcs, NEW tickers
  PROVE  LET pairs == SymbolPairings(G, srcs, tickers)
         IN  SymbolCiks(G, srcs, tickers) = {<<p[1], p[2]>> : p \in {q \in pairs : Foremost(q, pairs)}}
  BY DEF SymbolCiks, Foremost

LEMMA BeforeByTwo ==
  ASSUME NEW a \in Nat, NEW b \in Nat, NEW c \in Nat, NEW d \in Nat
  PROVE  Before(<<a, b>>, <<c, d>>) <=> a < c \/ (a = c /\ b < d)
  <1> DEFINE x == <<a, b>>
             y == <<c, d>>
  <1>1. Len(x) = 2 /\ x[1] = a /\ x[2] = b /\ y[1] = c /\ y[2] = d
    OBVIOUS
  <1> HIDE DEF x, y
  <1>2. Before(x, y) <=> \E i \in 1..2 : x[i] < y[i] /\ \A j \in 1..(i - 1) : x[j] = y[j]
    BY <1>1 DEF Before
  <1>3. ASSUME Before(x, y)
        PROVE  a < c \/ (a = c /\ b < d)
    <2>1. PICK i \in 1..2 : x[i] < y[i] /\ \A j \in 1..(i - 1) : x[j] = y[j]
      BY <1>2, <1>3
    <2>2. CASE i = 1
      BY <1>1, <2>1, <2>2
    <2>3. CASE i = 2
      <3>1. 1 \in 1..(i - 1)
        BY <2>3
      <3> QED
        BY <1>1, <2>1, <2>3, <3>1
    <2> QED
      BY <2>1, <2>2, <2>3
  <1>4. ASSUME a < c
        PROVE  Before(x, y)
    <2>1. x[1] < y[1] /\ \A j \in 1..(1 - 1) : x[j] = y[j]
      BY <1>1, <1>4
    <2> QED
      BY <1>2, <2>1
  <1>5. ASSUME a = c, b < d
        PROVE  Before(x, y)
    <2>1. \A j \in 1..(2 - 1) : x[j] = y[j]
      BY <1>1, <1>5
    <2> QED
      BY <1>1, <1>2, <1>5, <2>1
  <1> QED
    BY <1>3, <1>4, <1>5 DEF x, y

\* Of two foremost pairings of a symbol the priorities and the CIKs are the same.
LEMMA OneForemost ==
  ASSUME NEW pairs, Numbered(pairs), NEW p \in pairs, NEW q \in pairs, p[1] = q[1], Foremost(p, pairs)
  PROVE  /\ p[3] <= q[3]
         /\ Foremost(q, pairs) => p[3] = q[3] /\ p[2][2] = q[2][2]
  <1>1. p[2][2] \in Nat /\ p[3] \in Nat /\ q[2][2] \in Nat /\ q[3] \in Nat
    BY DEF Numbered
  <1>2. ~Before(<<q[3], q[2][2]>>, <<p[3], p[2][2]>>)
    BY DEF Foremost
  <1>3. Foremost(q, pairs) => ~Before(<<p[3], p[2][2]>>, <<q[3], q[2][2]>>)
    BY DEF Foremost
  <1> QED
    BY <1>1, <1>2, <1>3, BeforeByTwo

\* A symbol that is paired at all has a foremost pairing.
LEMMA SomeForemost ==
  ASSUME NEW pairs, Numbered(pairs), NEW p \in pairs
  PROVE  \E q \in pairs : q[1] = p[1] /\ Foremost(q, pairs)
  <1> DEFINE of == {q \in pairs : q[1] = p[1]}
             priorities == {q[3] : q \in of}
  <1>1. priorities \subseteq Nat /\ priorities # {}
    BY DEF Numbered
  <1> HIDE DEF priorities
  <1>2. PICK a \in priorities : \A m \in priorities : a <= m
    BY <1>1, LeastOfSome
  <1> DEFINE first == {q \in of : q[3] = a}
             ciks == {q[2][2] : q \in first}
  <1>3. first # {}
    BY <1>2 DEF priorities
  <1>4. ciks \subseteq Nat /\ ciks # {}
    BY <1>3 DEF Numbered
  <1> HIDE DEF ciks
  <1>5. PICK n \in ciks : \A m \in ciks : n <= m
    BY <1>4, LeastOfSome
  <1>6. PICK q \in first : q[2][2] = n
    BY <1>5 DEF ciks
  <1>7. ASSUME NEW r \in pairs, r[1] = q[1]
        PROVE  ~Before(<<r[3], r[2][2]>>, <<q[3], q[2][2]>>)
    <2>1. r \in of /\ q[3] = a
      BY <1>6, <1>7
    <2>2. a <= r[3]
      BY <1>2, <2>1 DEF priorities
    <2>3. r[3] = a => n <= r[2][2]
      BY <1>5, <2>1 DEF ciks
    <2>4. r[2][2] \in Nat /\ r[3] \in Nat /\ q[2][2] \in Nat /\ q[3] \in Nat
      BY <1>6 DEF Numbered
    <2> QED
      BY <1>6, <2>1, <2>2, <2>3, <2>4, BeforeByTwo
  <1> QED
    BY <1>6, <1>7 DEF Foremost

\* The pairings are the filings' own, before any of the constituents'.
LEMMA PairingsAre ==
  ASSUME NEW G, NEW srcs, NEW tickers, NEW p \in SymbolPairings(G, srcs, tickers)
  PROVE  \/ /\ p[3] = 0 /\ "sec" \in srcs
            /\ \E r \in Rel(G, "hasIssuerTradingSymbol") : \E q \in issuer_ciks(G) :
                  q[1] = r[1] /\ p[1] = equity_symbol(r[2]) /\ p[2] = q[2]
         \/ p[3] = 1 /\ "market" \in srcs /\ \E t \in tickers : p[1] = t[1] /\ p[2] = t[2]
  <1> DEFINE Of(r) == {<<equity_symbol(r[2]), q[2], 0>> : q \in {x \in issuer_ciks(G) : x[1] = r[1]}}
             filed == UNION {Of(r) : r \in Rel(G, "hasIssuerTradingSymbol")}
  <1>1. \/ "sec" \in srcs /\ p \in filed
        \/ "market" \in srcs /\ p \in {<<t[1], t[2], 1>> : t \in tickers}
    BY DEF SymbolPairings
  <1>2. CASE p \in {<<t[1], t[2], 1>> : t \in tickers} /\ "market" \in srcs
    BY <1>2
  <1>3. CASE p \in filed /\ "sec" \in srcs
    <2>1. PICK r \in Rel(G, "hasIssuerTradingSymbol") : p \in Of(r)
      BY <1>3
    <2>2. PICK q \in issuer_ciks(G) : q[1] = r[1] /\ p = <<equity_symbol(r[2]), q[2], 0>>
      BY <2>1
    <2> QED
      BY <1>3, <2>2
  <1> QED
    BY <1>1, <1>2, <1>3

LEMMA StatedIsPaired ==
  ASSUME NEW G, NEW srcs, NEW tickers, "sec" \in srcs, NEW r \in Rel(G, "hasIssuerTradingSymbol"),
         NEW q \in issuer_ciks(G), q[1] = r[1]
  PROVE  <<equity_symbol(r[2]), q[2], 0>> \in SymbolPairings(G, srcs, tickers)
  BY DEF SymbolPairings

LEMMA ConstituentIsPaired ==
  ASSUME NEW G, NEW srcs, NEW tickers, "market" \in srcs, NEW t \in tickers
  PROVE  <<t[1], t[2], 1>> \in SymbolPairings(G, srcs, tickers)
  BY DEF SymbolPairings

\* A reference is by a symbol an entity bears, or by what a filing or a holding states.
LEMMA ReferencesAre ==
  ASSUME NEW G, NEW srcs, NEW tickers, NEW r \in References(G, srcs, tickers)
  PROVE  \/ \E b \in symbol_bearers(G) : \E x \in SymbolCiks(G, srcs, tickers) :
               b[2] = x[1] /\ r[1] = b[1] /\ r[2] = x[2]
         \/ \E q \in issuer_ciks(G) : r[1] = q[1]
         \/ \E q \in Rel(G, "hasCusip") : r[1] = q[1]
  <1> DEFINE ciks == SymbolCiks(G, srcs, tickers)
             Under(R) == {<<x[1][1], x[2][2], x[1][2]>> : x \in {x \in R \X ciks : x[1][2] = x[2][1]}}
             named == cusip_symbols(G)
             lesser == {n \in named : \A q \in named : q[1] = n[1] => n[2][2] <= q[2][2]}
  <1>1. \/ r \in Under(symbol_bearers(G))
        \/ r \in {<<q[1], q[2], NoSymbol>> : q \in issuer_ciks(G)}
        \/ r \in Under(Via(holding_cusips(G), lesser))
    BY DEF References
  <1> HIDE DEF lesser, ciks
  <1>2. ASSUME NEW R, r \in Under(R)
        PROVE  \E b \in R : \E x \in ciks : b[2] = x[1] /\ r[1] = b[1] /\ r[2] = x[2]
    <2>1. PICK y \in R \X ciks : y[1][2] = y[2][1] /\ r = <<y[1][1], y[2][2], y[1][2]>>
      BY <1>2
    <2>2. y[1] \in R /\ y[2] \in ciks /\ r[1] = y[1][1] /\ r[2] = y[2][2]
      BY <2>1
    <2> QED
      BY <2>1, <2>2
  <1>3. \A v \in Via(holding_cusips(G), lesser) : \E q \in Rel(G, "hasCusip") : v[1] = q[1]
    BY DEF Via, holding_cusips
  <1> HIDE DEF Under
  <1> QED
    BY <1>1, <1>2, <1>3 DEF ciks

LEMMA BearersAreReferred ==
  ASSUME NEW G, NEW srcs, NEW tickers, "market" \in srcs,
         NEW b \in symbol_bearers(G), NEW x \in SymbolCiks(G, srcs, tickers), b[2] = x[1]
  PROVE  <<b[1], x[2], b[2]>> \in References(G, srcs, tickers)
  <1> DEFINE ciks == SymbolCiks(G, srcs, tickers)
             Under(R) == {<<y[1][1], y[2][2], y[1][2]>> : y \in {y \in R \X ciks : y[1][2] = y[2][1]}}
  <1>1. Under(symbol_bearers(G)) \subseteq References(G, srcs, tickers)
    BY DEF References
  <1>2. <<b, x>> \in symbol_bearers(G) \X ciks
    OBVIOUS
  <1>3. <<b[1], x[2], b[2]>> \in Under(symbol_bearers(G))
    <2>1. <<b, x>>[1] = b /\ <<b, x>>[2] = x
      OBVIOUS
    <2> QED
      BY <1>2, <2>1
  <1> QED
    BY <1>1, <1>3

LEMMA FactsAreTheSame ==
  ASSUME NEW G, AfterOntology(G), NEW K, Loaded \subseteq K, K \subseteq G
  PROVE  /\ \A p \in SourcePredicates : Rel(G, p) = Rel(K, p)
         /\ symbol_bearers(G) = symbol_bearers(K)
  <1>1. \A p \in SourcePredicates : Rel(G, p) = Rel(K, p)
    BY FactsAreLoaded DEF Rel
  <1>2. "symbol" \in SourcePredicates
    BY DEF SourcePredicates
  <1>3. \A c \in SourceClasses : Typed(G, c) = Typed(K, c)
    BY FactsAreLoaded DEF Typed
  <1>4. TypedAny(G, {"EquitySnapshot", "OptionSnapshot"}) = TypedAny(K, {"EquitySnapshot", "OptionSnapshot"})
    BY <1>3 DEF TypedAny, SourceClasses
  <1> QED
    BY <1>1, <1>2, <1>4 DEF symbol_bearers

\* In every graph between what was loaded and what was enriched, the symbols, the
\* CIKs and the CUSIPs are stated by their own sources, and a snapshot's symbol is one.
LEMMA StatementsAreOwn ==
  ASSUME JobIsGiven, OfTriplesMode, stage # Idle,
         NEW G, AfterOntology(G), NEW K, K \subseteq G, Loaded \subseteq K
  PROVE  /\ \A r \in Rel(K, "symbol") : /\ KindOf(r[1]) \in SourceKinds["market"]
                                        /\ "market" \in job.sources
                                        /\ "market" \in _detect_sources(K)
         /\ \A r \in Rel(K, "hasCusip") : KindOf(r[1]) \notin SourceKinds["market"]
         /\ \A r \in issuer_ciks(K) : /\ KindOf(r[1]) \notin SourceKinds["market"]
                                      /\ r[2][2] \in Nat /\ "sec" \in _detect_sources(K)
         /\ \A r \in Rel(K, "symbol") : \A q \in Rel(K, "symbol") : r[1] = q[1] => r[2] = q[2]
  <1>0. {"symbol", "hasIssuerCik", "hasCusip"} \subseteq SourcePredicates
    BY DEF SourcePredicates
  <1>1. "sec" \in DOMAIN SourceKinds /\ "market" \in DOMAIN SourceKinds
        /\ SourceKinds["sec"] \cap SourceKinds["market"] = {}
    BY SourcesAssumption
  <1>2. ASSUME NEW p \in {"symbol", "hasIssuerCik", "hasCusip"}, NEW r \in Rel(K, p)
        PROVE  \E t \in Loaded : StatedByItsOwn(t) /\ t[2] = p /\ r = <<t[1], t[3]>>
    <2>1. PICK t \in K : t[2] = p /\ r = <<t[1], t[3]>>
      BY DEF Rel
    <2>2. t \in Loaded
      BY <1>0, <2>1, FactsAreLoaded
    <2> QED
      BY <2>1, <2>2, LoadedIsTheirOwn
  <1>3. ASSUME NEW r \in Rel(K, "symbol")
        PROVE  /\ KindOf(r[1]) \in SourceKinds["market"]
               /\ "market" \in job.sources
               /\ "market" \in _detect_sources(K)
    <2>1. PICK t \in Loaded : StatedByItsOwn(t) /\ t[2] = "symbol" /\ r = <<t[1], t[3]>>
      BY <1>2
    <2>2. KindOf(t[1]) \in SourceKinds["market"] /\ t[1] = r[1]
      BY <2>1 DEF StatedByItsOwn
    <2> QED
      BY <1>1, <2>1, <2>2 DEF StatedByItsOwn, _detect_sources
  <1>4. ASSUME NEW r \in Rel(K, "hasCusip")
        PROVE  KindOf(r[1]) \notin SourceKinds["market"]
    <2>1. PICK t \in Loaded : StatedByItsOwn(t) /\ t[2] = "hasCusip" /\ r = <<t[1], t[3]>>
      BY <1>2
    <2>2. KindOf(t[1]) \in SourceKinds["sec"] /\ t[1] = r[1]
      BY <2>1 DEF StatedByItsOwn
    <2> QED
      BY <1>1, <2>2
  <1>5. ASSUME NEW r \in issuer_ciks(K)
        PROVE  /\ KindOf(r[1]) \notin SourceKinds["market"]
               /\ r[2][2] \in Nat /\ "sec" \in _detect_sources(K)
    <2>1. PICK t \in Loaded : StatedByItsOwn(t) /\ t[2] = "hasIssuerCik" /\ r = <<t[1], t[3]>>
      BY <1>2 DEF issuer_ciks
    <2>2. KindOf(t[1]) \in SourceKinds["sec"] /\ t[1] = r[1] /\ t[3] = r[2] /\ t[3][2] \in Nat
      BY <2>1 DEF StatedByItsOwn
    <2> QED
      BY <1>1, <2>2 DEF _detect_sources
  <1>6. ASSUME NEW r \in Rel(K, "symbol"), NEW q \in Rel(K, "symbol"), r[1] = q[1]
        PROVE  r[2] = q[2]
    <2>1. PICK t \in Loaded : t[2] = "symbol" /\ r = <<t[1], t[3]>>
      BY <1>2
    <2>2. PICK u \in Loaded : u[2] = "symbol" /\ q = <<u[1], u[3]>>
      BY <1>2
    <2>3. t[1] = r[1] /\ t[3] = r[2] /\ u[1] = q[1] /\ u[3] = q[2]
      BY <2>1, <2>2
    <2> QED
      BY <1>6, <2>1, <2>2, <2>3, OneSymbolASnapshot
  <1> QED
    BY <1>3, <1>4, <1>5, <1>6

\* Everything the phase reads of companies, of an enriched graph G: the graph K
\* it found, and the pairings of symbols and CIKs there.
PairsOf(K) == SymbolPairings(K, _detect_sources(K), TickersOfRun)
Found(G, K) ==
    /\ Loaded \subseteq K /\ K \subseteq G
    /\ \A t \in G : t[2] = "refersToCompany" =>
          t \in CrossEnrich(K, TickersOfRun, SubsOfRun)
    /\ {"sec", "market"} \subseteq _detect_sources(G) => K \cup CrossEnrich(K, TickersOfRun, SubsOfRun) \subseteq G
          /\ ~(Cardinality(_detect_sources(K)) < 2)

\* A graph of filings and quotes had both when the phase found it.
LEMMA BothWereThere ==
  ASSUME SourcesSpeakForThemselves, NEW G, AfterOntology(G)
  PROVE  \E K : Found(G, K)
  <1>1. PICK K : /\ AfterTemporal(K) /\ K \cup CrossEnrich(K, TickersOfRun, SubsOfRun) \subseteq G
                 /\ \A t \in G : t[2] = "refersToCompany" =>
                       t \in CrossEnrich(K, TickersOfRun, SubsOfRun)
                 /\ \A t \in G : \/ KindOf(t[1]) \in {"class", "property"}
                                 \/ \E u \in K \cup CrossEnrich(K, TickersOfRun, SubsOfRun) : t[1] = u[1]
    BY ReferencesOfTheGraph
  <1>2. Loaded \subseteq K
    BY <1>1 DEF AfterTemporal, AfterLinkers, FromLinkers
  <1>3. ASSUME {"sec", "market"} \subseteq _detect_sources(G), Cardinality(_detect_sources(K)) < 2
        PROVE  FALSE
    <2>1. CrossEnrich(K, TickersOfRun, SubsOfRun) = {}
      BY <1>3 DEF CrossEnrich
    <2>2. ASSUME NEW s \in {"sec", "market"}
          PROVE  s \in _detect_sources(K)
      <3>1. s \in DOMAIN SourceKinds /\ \E t \in G : KindOf(t[1]) \in SourceKinds[s]
        BY <1>3 DEF _detect_sources
      <3>2. PICK t \in G : KindOf(t[1]) \in SourceKinds[s]
        BY <3>1
      <3>3. KindOf(t[1]) \notin {"class", "property"}
        BY <3>1, <3>2, SourcesAssumption
      <3>4. PICK u \in K : t[1] = u[1]
        BY <1>1, <2>1, <3>3
      <3> QED
        BY <3>1, <3>2, <3>4 DEF _detect_sources
    <2>3. IsFiniteSet(_detect_sources(K))
      <3>1. _detect_sources(K) \subseteq DOMAIN SourceKinds
        BY DEF _detect_sources
      <3> QED
        BY <3>1, SourcesAssumption, FS_Subset
    <2>4. Cardinality({"sec", "market"}) = 2
      <3>1. IsFiniteSet({"sec"}) /\ Cardinality({"sec"}) = 1
        BY FS_Singleton
      <3>2. Cardinality({"sec"} \cup {"market"}) = Cardinality({"sec"}) + 1
        BY <3>1, FS_AddElement
      <3>3. {"sec"} \cup {"market"} = {"sec", "market"}
        OBVIOUS
      <3> QED
        BY <3>1, <3>2, <3>3
    <2>5. {"sec", "market"} \subseteq _detect_sources(K)
      BY <2>2
    <2>6. Cardinality({"sec", "market"}) <= Cardinality(_detect_sources(K))
      BY <2>3, <2>5, FS_Subset
    <2>7. Cardinality(_detect_sources(K)) \in Nat
      BY <2>3, FS_CardinalityType
    <2> QED
      BY <1>3, <2>4, <2>6, <2>7
  <1> QED
    BY <1>1, <1>2, <1>3 DEF Found

LEMMA PairsAreNumbered ==
  ASSUME JobIsGiven, OfTriplesMode, stage # Idle, StoreIsGiven,
         NEW G, AfterOntology(G), NEW K, Found(G, K)
  PROVE  Numbered(PairsOf(K))
  <1>1. \A r \in issuer_ciks(K) : r[2][2] \in Nat
    BY StatementsAreOwn DEF Found
  <1>2. ASSUME NEW p \in PairsOf(K)
        PROVE  p[2][2] \in Nat /\ p[3] \in Nat
    <2>1. CASE p[3] = 0 /\ \E r : \E q \in issuer_ciks(K) : p[2] = q[2]
      BY <1>1, <2>1
    <2>2. CASE p[3] = 1 /\ \E t \in TickersOfRun : p[2] = t[2]
      BY <2>2, TickersAreNumbers
    <2> QED
      BY <2>1, <2>2, PairingsAre DEF PairsOf
  <1> QED
    BY <1>2 DEF Numbered

\* The company a bearer of a symbol is linked to is the one of the symbol's foremost pairing.
LEMMA BearersCompany ==
  ASSUME JobIsGiven, OfTriplesMode, stage # Idle,
         NEW G, AfterOntology(G), NEW K, Found(G, K),
         NEW b \in symbol_bearers(G), NEW t \in G, t[2] = "refersToCompany", t[1] = b[1]
  PROVE  \E p \in PairsOf(K) : p[1] = b[2] /\ Foremost(p, PairsOf(K)) /\ t[3] = Company(p[2])
  <1> DEFINE ciks == SymbolCiks(K, _detect_sources(K), TickersOfRun)
  <1>1. PICK r \in References(K, _detect_sources(K), TickersOfRun) : t[1] = r[1] /\ t[3] = Company(r[2])
    BY CrossRefers DEF Found
  <1>2. b \in symbol_bearers(K)
    BY FactsAreTheSame DEF Found
  <1>3. ASSUME NEW c \in symbol_bearers(K)
        PROVE  \E q \in Rel(K, "symbol") : c[1] = q[1] /\ c[2] = equity_symbol(q[2])
    BY DEF symbol_bearers
  <1>4. PICK y \in Rel(K, "symbol") : b[1] = y[1] /\ b[2] = equity_symbol(y[2])
    BY <1>2, <1>3
  <1>5. KindOf(r[1]) \in SourceKinds["market"]
    BY <1>1, <1>4, StatementsAreOwn DEF Found
  <1>6. PICK c \in symbol_bearers(K) : \E x \in ciks : c[2] = x[1] /\ r[1] = c[1] /\ r[2] = x[2]
    BY <1>5, ReferencesAre, StatementsAreOwn DEF Found
  <1>7. PICK x \in ciks : c[2] = x[1] /\ r[1] = c[1] /\ r[2] = x[2]
    BY <1>6
  <1>8. c[2] = b[2]
    <2>1. PICK q \in Rel(K, "symbol") : c[1] = q[1] /\ c[2] = equity_symbol(q[2])
      BY <1>3
    <2>2. q[1] = y[1]
      BY <1>1, <1>4, <1>7, <2>1
    <2>3. \A u, v \in Rel(K, "symbol") : u[1] = v[1] => u[2] = v[2]
      BY StatementsAreOwn DEF Found
    <2>4. q[2] = y[2]
      BY <1>4, <2>1, <2>2, <2>3
    <2> QED
      BY <1>4, <2>1, <2>4
  <1>9. PICK p \in PairsOf(K) : Foremost(p, PairsOf(K)) /\ x = <<p[1], p[2]>>
    BY SymbolCiksAreForemost DEF PairsOf
  <1> QED
    BY <1>1, <1>7, <1>8, <1>9

\* Two references of one bearer are to one company: the foremost pairings of a
\* symbol have one CIK.
LEMMA BearersAreOfOne ==
  ASSUME JobIsGiven, OfTriplesMode, stage # Idle, StoreIsGiven,
         NEW G, AfterOntology(G), NEW K, Found(G, K), NEW b \in symbol_bearers(G),
         NEW t \in G, t[2] = "refersToCompany", t[1] = b[1],
         NEW u \in G, u[2] = "refersToCompany", u[1] = b[1]
  PROVE  t[3] = u[3]
  <1>1. PICK p \in PairsOf(K) : p[1] = b[2] /\ Foremost(p, PairsOf(K)) /\ t[3] = Company(p[2])
    BY BearersCompany
  <1>2. PICK q \in PairsOf(K) : q[1] = b[2] /\ Foremost(q, PairsOf(K)) /\ u[3] = Company(q[2])
    BY BearersCompany
  <1>3. p[2][2] = q[2][2]
    BY <1>1, <1>2, PairsAreNumbered, OneForemost
  <1> QED
    BY <1>1, <1>2, <1>3 DEF Company

\* Where a filing states a CIK for the symbol, the company is one that a filing states.
LEMMA FiledComesFirst ==
  ASSUME JobIsGiven, OfTriplesMode, stage # Idle, StoreIsGiven,
         NEW G, AfterOntology(G), NEW K, Found(G, K), NEW b \in symbol_bearers(G),
         NEW t \in G, t[2] = "refersToCompany", t[1] = b[1],
         NEW r \in Rel(G, "hasIssuerTradingSymbol"), NEW c \in issuer_ciks(G), c[1] = r[1],
         equity_symbol(r[2]) = b[2]
  PROVE  \E o \in Rel(G, "hasIssuerTradingSymbol") : \E d \in issuer_ciks(G) :
            d[1] = o[1] /\ equity_symbol(o[2]) = b[2] /\ t[3] = Company(d[2])
  <1>1. PICK p \in PairsOf(K) : p[1] = b[2] /\ Foremost(p, PairsOf(K)) /\ t[3] = Company(p[2])
    BY BearersCompany
  <1>2. /\ Rel(G, "hasIssuerTradingSymbol") = Rel(K, "hasIssuerTradingSymbol")
        /\ issuer_ciks(G) = issuer_ciks(K)
    BY FactsAreTheSame DEF Found, SourcePredicates, issuer_ciks
  <1>3. "sec" \in _detect_sources(K)
    BY <1>2, StatementsAreOwn DEF Found
  <1> DEFINE q == <<equity_symbol(r[2]), c[2], 0>>
  <1>4. q \in PairsOf(K)
    BY <1>2, <1>3, StatedIsPaired DEF PairsOf
  <1>5. q[1] = b[2] /\ q[3] = 0
    OBVIOUS
  <1> HIDE DEF q
  <1>6. p[3] <= q[3]
    BY <1>1, <1>4, <1>5, PairsAreNumbered, OneForemost
  <1>7. p[3] # 1
    BY <1>5, <1>6
  <1>8. PICK o \in Rel(K, "hasIssuerTradingSymbol") : \E d \in issuer_ciks(K) :
           d[1] = o[1] /\ p[1] = equity_symbol(o[2]) /\ p[2] = d[2]
    BY <1>7, PairingsAre DEF PairsOf
  <1> QED
    BY <1>1, <1>2, <1>8

\* A bearer of a symbol that is paired with a CIK at all is linked to a company.
LEMMA PairedIsReferred ==
  ASSUME JobIsGiven, OfTriplesMode, stage # Idle, StoreIsGiven,
         NEW G, AfterOntology(G), NEW K, Found(G, K), {"sec", "market"} \subseteq _detect_sources(G),
         NEW b \in symbol_bearers(K), NEW p \in PairsOf(K), p[1] = b[2]
  PROVE  \E t \in G : t[1] = b[1] /\ t[2] = "refersToCompany"
  <1> DEFINE srcs == _detect_sources(K)
  <1>1. PICK q \in PairsOf(K) : q[1] = p[1] /\ Foremost(q, PairsOf(K))
    BY PairsAreNumbered, SomeForemost
  <1> DEFINE x == <<q[1], q[2]>>
  <1>2. x \in SymbolCiks(K, srcs, TickersOfRun)
    BY <1>1, SymbolCiksAreForemost DEF PairsOf
  <1>3. x[1] = b[2]
    BY <1>1
  <1> HIDE DEF x
  <1>4. PICK y \in Rel(K, "symbol") : b[1] = y[1]
    BY DEF symbol_bearers
  <1>5. "market" \in srcs
    BY StatementsAreOwn, <1>4 DEF Found
  <1>6. <<b[1], x[2], b[2]>> \in References(K, srcs, TickersOfRun)
    BY <1>2, <1>3, <1>5, BearersAreReferred
  <1> DEFINE r == <<b[1], x[2], b[2]>>
  <1>7. r \in References(K, srcs, TickersOfRun) /\ r[1] = b[1]
    BY <1>6
  <1> HIDE DEF r
  <1>8. <<r[1], "refersToCompany", Company(r[2])>> \in K \cup CrossEnrich(K, TickersOfRun, SubsOfRun)
    BY <1>7, CrossWritesReferences DEF Found
  <1>9. K \cup CrossEnrich(K, TickersOfRun, SubsOfRun) \subseteq G
    BY DEF Found
  <1> QED
    BY <1>7, <1>8, <1>9

\* The stocks' symbols that no company was found for.
LEMMA Uncovered ==
  ASSUME NEW G, NEW constituents, NEW y \in market_coverage(G, constituents).stocks_without_company
  PROVE  \E r \in Rel(G, "symbol") :
            /\ r[1] \in Typed(G, "EquitySnapshot") /\ r[2] = y
            /\ r[1] \notin SubjectsOf(G, "refersToCompany")
  <1> DEFINE Of(c, p) == {r[1] : r \in {q \in Rel(G, "captureTime") : q[1] \in Typed(G, c) /\ q[2] = p}}
             captures == {r[2] : r \in {q \in Rel(G, "captureTime") : q[1] \in TypedAny(G, SnapshotTypes)}}
             Called(us, p) == {r[2] : r \in {q \in Rel(G, p) : q[1] \in us}}
             stocks == UNION {Of("EquitySnapshot", c) : c \in captures}
             known == stocks \cap SubjectsOf(G, "refersToCompany")
  <1>1. market_coverage(G, constituents).stocks_without_company =
           Called(stocks, "symbol") \ Called(known, "symbol")
    BY DEF market_coverage
  <1>2. stocks \subseteq Typed(G, "EquitySnapshot")
    OBVIOUS
  <1>3. known = stocks \cap SubjectsOf(G, "refersToCompany")
    OBVIOUS
  <1> HIDE DEF stocks, known
  <1>4. PICK r \in Rel(G, "symbol") : r[1] \in stocks /\ y = r[2]
    BY <1>1
  <1>5. r[1] \notin known
    BY <1>1, <1>4
  <1> QED
    BY <1>2, <1>3, <1>4, <1>5

\* A symbol that a filing or a constituent pairs with a CIK is one of a company:
\* no stock quoted under it is left without.
LEMMA PairedIsCovered ==
  ASSUME JobIsGiven, OfTriplesMode, stage # Idle, StoreIsGiven,
         NEW G, AfterOntology(G), NEW K, Found(G, K), {"sec", "market"} \subseteq _detect_sources(G),
         NEW y \in market_coverage(G, {}).stocks_without_company, KindOf(y) # "occ",
         NEW p \in PairsOf(K)
  PROVE  p[1] # y
  <1>1. PICK r \in Rel(G, "symbol") :
           /\ r[1] \in Typed(G, "EquitySnapshot") /\ r[2] = y
           /\ r[1] \notin SubjectsOf(G, "refersToCompany")
    BY Uncovered
  <1> DEFINE b == <<r[1], equity_symbol(r[2])>>
  <1>2. b \in symbol_bearers(G)
    BY <1>1 DEF symbol_bearers, TypedAny
  <1>3. b[1] = r[1] /\ b[2] = y
    BY <1>1 DEF equity_symbol
  <1> HIDE DEF b
  <1>4. b \in symbol_bearers(K)
    BY <1>2, FactsAreTheSame DEF Found
  <1>5. ASSUME p[1] = y
        PROVE  FALSE
    <2>1. PICK t \in G : t[1] = b[1] /\ t[2] = "refersToCompany"
      BY <1>3, <1>4, <1>5, PairedIsReferred
    <2>2. b[1] \in SubjectsOf(G, "refersToCompany")
      BY <2>1 DEF SubjectsOf
    <2> QED
      BY <1>1, <1>3, <2>2
  <1> QED
    BY <1>5

\* What a filing states of a symbol is a pairing, and so is a constituent of it.
LEMMA KnownIsPaired ==
  ASSUME JobIsGiven, OfTriplesMode, stage # Idle, StoreIsGiven,
         NEW G, AfterOntology(G), NEW K, Found(G, K), NEW y
  PROVE  /\ \A r \in Rel(G, "hasIssuerTradingSymbol") : \A c \in issuer_ciks(G) :
               c[1] = r[1] /\ equity_symbol(r[2]) = y => \E p \in PairsOf(K) : p[1] = y
         /\ \A k \in TickersOfRun : "market" \in _detect_sources(K) /\ k[1] = y =>
               \E p \in PairsOf(K) : p[1] = y
  <1>1. /\ Rel(G, "hasIssuerTradingSymbol") = Rel(K, "hasIssuerTradingSymbol")
        /\ issuer_ciks(G) = issuer_ciks(K)
    BY FactsAreTheSame DEF Found, SourcePredicates, issuer_ciks
  <1>2. ASSUME NEW r \in Rel(K, "hasIssuerTradingSymbol"), NEW c \in issuer_ciks(K),
               c[1] = r[1], equity_symbol(r[2]) = y
        PROVE  \E p \in PairsOf(K) : p[1] = y
    <2>1. "sec" \in _detect_sources(K)
      BY StatementsAreOwn DEF Found
    <2>2. <<equity_symbol(r[2]), c[2], 0>> \in PairsOf(K)
      BY <1>2, <2>1, StatedIsPaired DEF PairsOf
    <2> QED
      BY <1>2, <2>2
  <1>3. ASSUME NEW k \in TickersOfRun, "market" \in _detect_sources(K), k[1] = y
        PROVE  \E p \in PairsOf(K) : p[1] = y
    <2>1. <<k[1], k[2], 1>> \in PairsOf(K)
      BY <1>3, ConstituentIsPaired DEF PairsOf
    <2> QED
      BY <1>3, <2>1
  <1> QED
    BY <1>1, <1>2, <1>3

\* A stock or an option of a graph that has filings and quotes is of one company
\* at most, one that a filing states wherever one states any, and no symbol that
\* a filing or the constituents know is left without: in every graph a run may
\* enrich, whatever either source says and whichever linkers raise.
THEOREM QuotesAreOfOneCompany == Spec => []OneCompanyPerSymbol
  <1>1. ASSUME PhaseInv, JobIsGiven, StoreIsGiven, IInv
        PROVE  OneCompanyPerSymbol
    <2> SUFFICES ASSUME stage = "enriched", {"sec", "market"} \subseteq _detect_sources(graph)
                 PROVE  OneCompanyPerSymbol
      BY DEF OneCompanyPerSymbol, Enriched
    <2> DEFINE of == Rel(graph, "refersToCompany")
               Stated(y) == UNION {{Company(c[2]) : c \in {d \in issuer_ciks(graph) : d[1] = r[1]}} :
                                   r \in {q \in Rel(graph, "hasIssuerTradingSymbol") : equity_symbol(q[2]) = y}}
               known == {r[1] : r \in get_ticker_cik_map(Reads({"symbol", "cik"}))}
    <2>1. stage # Idle /\ OfTriplesMode
      BY <1>1 DEF IInv, StageAndMode, OfTriplesMode, Idle
    <2>2. SourcesSpeakForThemselves
      BY <1>1, <2>1, LoadedIsTheSources
    <2>3. AfterOntology(graph)
      BY <1>1 DEF PhaseInv
    <2>4. PICK K : Found(graph, K)
      BY <2>2, <2>3, BothWereThere
    <2>5. ASSUME NEW r \in of
          PROVE  \E t \in graph : t[2] = "refersToCompany" /\ r = <<t[1], t[3]>>
      BY DEF Rel
    <2>6. ASSUME NEW y
          PROVE  \A z \in Stated(y) : \E r \in Rel(graph, "hasIssuerTradingSymbol") :
                    \E c \in issuer_ciks(graph) :
                       c[1] = r[1] /\ equity_symbol(r[2]) = y /\ z = Company(c[2])
      OBVIOUS
    <2>7. ASSUME NEW y, NEW r \in Rel(graph, "hasIssuerTradingSymbol"), NEW c \in issuer_ciks(graph),
                 c[1] = r[1], equity_symbol(r[2]) = y
          PROVE  Company(c[2]) \in Stated(y)
      BY <2>7
    <2> HIDE DEF of, Stated, known
    <2>8. ASSUME NEW b \in symbol_bearers(graph)
          PROVE  Cardinality({r \in of : r[1] = b[1]}) <= 1
      <3> DEFINE its == {r \in of : r[1] = b[1]}
      <3>1. ASSUME NEW r \in its, NEW q \in its
            PROVE  r = q
        <4>1. PICK t \in graph : t[2] = "refersToCompany" /\ r = <<t[1], t[3]>>
          BY <2>5
        <4>2. PICK u \in graph : u[2] = "refersToCompany" /\ q = <<u[1], u[3]>>
          BY <2>5
        <4>3. t[1] = b[1] /\ u[1] = b[1]
          BY <4>1, <4>2
        <4>4. t[3] = u[3]
          BY <1>1, <2>1, <2>3, <2>4, <4>1, <4>2, <4>3, BearersAreOfOne
        <4> QED
          BY <4>1, <4>2, <4>3, <4>4
      <3> HIDE DEF its
      <3>2. CASE its = {}
        BY <3>2, FS_EmptySet DEF its
      <3>3. CASE its # {}
        <4>1. PICK r : its = {r}
          BY <3>1, <3>3
        <4>2. Cardinality(its) = 1
          BY <4>1, FS_Singleton
        <4> QED
          BY <4>2 DEF its
      <3> QED
        BY <3>2, <3>3
    <2>9. ASSUME NEW b \in symbol_bearers(graph), NEW r \in of, r[1] = b[1], Stated(b[2]) # {}
          PROVE  r[2] \in Stated(b[2])
      <3>1. PICK t \in graph : t[2] = "refersToCompany" /\ r = <<t[1], t[3]>>
        BY <2>5
      <3>2. t[1] = b[1] /\ r[2] = t[3]
        BY <2>9, <3>1
      <3>3. PICK q \in Rel(graph, "hasIssuerTradingSymbol") : \E c \in issuer_ciks(graph) :
                    c[1] = q[1] /\ equity_symbol(q[2]) = b[2]
        BY <2>6, <2>9
      <3>4. PICK o \in Rel(graph, "hasIssuerTradingSymbol") : \E d \in issuer_ciks(graph) :
                    d[1] = o[1] /\ equity_symbol(o[2]) = b[2] /\ t[3] = Company(d[2])
        BY <1>1, <2>1, <2>3, <2>4, <3>1, <3>2, <3>3, FiledComesFirst
      <3> QED
        BY <2>7, <3>2, <3>4
    <2>10. ASSUME NEW y \in market_coverage(graph, {}).stocks_without_company
           PROVE  Stated(y) = {} /\ y \notin known
      <3>1. PICK s \in Rel(graph, "symbol") : s[2] = y
        BY Uncovered
      <3>2. s \in Rel(K, "symbol")
        BY <2>3, <2>4, FactsAreTheSame DEF Found, SourcePredicates
      <3>3. "market" \in job.sources /\ "market" \in _detect_sources(K)
        BY <1>1, <2>1, <2>3, <2>4, <3>2, StatementsAreOwn DEF Found
      <3>4. CASE KindOf(y) = "occ"
        <4>1. \A x : KindOf(equity_symbol(x)) # "occ"
          BY DEF equity_symbol, occ_underlying, KindOf
        <4>2. \A k \in known : KindOf(k) = "sym"
          BY DEF known, get_ticker_cik_map, KindOf
        <4> QED
          BY <2>6, <3>4, <4>1, <4>2
      <3>5. CASE KindOf(y) # "occ"
        <4>1. \A p \in PairsOf(K) : p[1] # y
          BY <1>1, <2>1, <2>3, <2>4, <3>5, PairedIsCovered
        <4>2. Stated(y) = {}
          BY <1>1, <2>1, <2>3, <2>4, <2>6, <4>1, KnownIsPaired
        <4>3. ASSUME y \in known
              PROVE  FALSE
          <5>1. PICK k \in TickersOfRun : k[1] = y
            BY <3>3, <4>3 DEF known, TickersOfRun
          <5> QED
            BY <1>1, <2>1, <2>3, <2>4, <3>3, <4>1, <5>1, KnownIsPaired
        <4> QED
          BY <4>2, <4>3
      <3> QED
        BY <3>4, <3>5
    <2> QED
      BY <2>8, <2>9, <2>10 DEF OneCompanyPerSymbol, of, Stated, known
  <1>2. Init => QueueOfSettings /\ JobIsGiven /\ StoreIsGiven
    BY SettingsAssumption DEF Init, QueueOfSettings, JobIsGiven, StoreIsGiven
  <1> QED
    BY <1>1, <1>2, StepQueue, StepJob, StepStore, Invariance, GraphIsMadeInPhases, PTL DEF Spec

----------------------------------------------------------------------------
(* What the linkers gave stays.                                            *)

\* What a linker gives for the loaded triples, with whatever constituents.
Gives(name, new) ==
    \/ name = "bls" /\ new \in BlsEnrichments(Loaded)
    \/ name = "sec" /\ new \in SecEnrichments(Loaded)
    \/ name = "noaa" /\ new \in NoaaEnrichments(Loaded)
    \/ name = "market" /\ \E tickers : new \in MarketEnrichments(Loaded, tickers)

\* A linker whose turn is over has given all it gives, or it raised.
Late == {"union", "temporal", "cross", "ontology", "enriched"}
Passed(i, now) == now \in Late \/ \E j \in 1..4 : now = REGISTERED[j] /\ i < j
GaveAll(i) == \E new : Gives(REGISTERED[i], new) /\ new \subseteq graph \cup new_dfs
LinkersAreIn == \A i \in 1..4 : Passed(i, stage) /\ Whole(REGISTERED[i]) => GaveAll(i)

\* The next linker is no later than any of the run's that is still to come.
LEMMA FirstIsLeast ==
  ASSUME NEW k \in 1..5, NEW i \in k..4, REGISTERED[i] \in job.sources
  PROVE  \E j \in k..i : FirstLinker(k) = REGISTERED[j]
  <1>1. LinkersFrom(k) \subseteq 1..4 /\ LinkersFrom(k) \subseteq k..4 /\ i \in LinkersFrom(k)
    BY DEF LinkersFrom
  <1> DEFINE first == CHOOSE j \in LinkersFrom(k) : \A l \in LinkersFrom(k) : j <= l
  <1>2. \E j \in LinkersFrom(k) : \A l \in LinkersFrom(k) : j <= l
    BY <1>1, LeastOfSome
  <1>3. first \in LinkersFrom(k) /\ \A l \in LinkersFrom(k) : first <= l
    BY <1>2
  <1>4. FirstLinker(k) = REGISTERED[first]
    BY <1>1 DEF FirstLinker
  <1> HIDE DEF first
  <1>5. first \in k..i
    BY <1>1, <1>3
  <1> QED
    BY <1>4, <1>5

\* So no linker of the run has passed when the first of the rest begins.
LEMMA NoneIsPassedOver ==
  ASSUME NEW k \in 1..5, NEW i \in k..4, REGISTERED[i] \in job.sources
  PROVE  ~Passed(i, FirstLinker(k))
  <1>1. PICK j \in k..i : FirstLinker(k) = REGISTERED[j]
    BY FirstIsLeast
  <1>2. j \in 1..4 /\ i \in 1..4 /\ j <= i
    OBVIOUS
  <1> QED
    BY <1>1, <1>2 DEF Passed, Late, REGISTERED

LEMMA GivenByLinkers ==
  ASSUME PhaseInv, LinkersAreIn, NEW l \in 1..4,
         \/ EnrichIntraSource(REGISTERED[l]) \/ LinkerRaises(REGISTERED[l])
         \/ CountingRaises(REGISTERED[l])
  PROVE  LinkersAreIn'
  <1>1. /\ stage = REGISTERED[l] /\ stage' = NextLinker(REGISTERED[l]) /\ UNCHANGED <<job, graph>>
        /\ new_dfs \subseteq new_dfs' /\ failed \subseteq failed'
    BY DEF EnrichIntraSource, LinkerRaises, CountingRaises
  <1>2. Loaded' = Loaded /\ graph' = graph /\ graph = Loaded
    BY <1>1 DEF Loaded, PhaseInv, LinkStages, REGISTERED
  <1>3. stage' = FirstLinker(l + 1)
    <2> DEFINE at == CHOOSE k \in 1..4 : REGISTERED[k] = REGISTERED[l]
    <2>1. at \in 1..4 /\ REGISTERED[at] = REGISTERED[l]
      OBVIOUS
    <2>2. stage' = FirstLinker(1 + at)
      BY <1>1 DEF NextLinker
    <2> HIDE DEF at
    <2>3. at = l
      BY <2>1 DEF REGISTERED
    <2> QED
      BY <2>2, <2>3
  <1> SUFFICES ASSUME NEW i \in 1..4, Passed(i, stage'), REGISTERED[i] \in job.sources,
                      REGISTERED[i] \notin failed'
               PROVE  \E new : Gives(REGISTERED[i], new) /\ new \subseteq graph \cup new_dfs'
    BY <1>1, <1>2 DEF LinkersAreIn, GaveAll, Gives, Whole
  <1>4. CASE i < l
    <2>1. GaveAll(i)
      BY <1>1, <1>4 DEF LinkersAreIn, Whole, Passed
    <2> QED
      BY <1>1, <2>1 DEF GaveAll
  <1>5. CASE i = l
    <2>1. ~LinkerRaises(REGISTERED[l])
      BY <1>5 DEF LinkerRaises
    <2>2. PICK new \in LinkerReturns(REGISTERED[l], graph) : new_dfs' = new_dfs \cup new
      BY <2>1 DEF EnrichIntraSource, CountingRaises
    <2>3. REGISTERED[l] \in {"bls", "sec", "noaa", "market"}
      BY DEF REGISTERED
    <2>4. Gives(REGISTERED[i], new)
      <3>1. CASE REGISTERED[l] = "market"
        BY <1>2, <1>5, <2>2, <3>1 DEF LinkerReturns, Gives
      <3>2. CASE REGISTERED[l] # "market"
        BY <1>2, <1>5, <2>2, <2>3, <3>2 DEF LinkerReturns, Gives
      <3> QED
        BY <3>1, <3>2
    <2> QED
      BY <2>2, <2>4
  <1>6. CASE l < i
    <2>1. l + 1 \in 1..5 /\ i \in (l + 1)..4
      BY <1>6
    <2> QED
      BY <1>3, <2>1, NoneIsPassedOver
  <1> QED
    BY <1>4, <1>5, <1>6

LEMMA GivenByPhases ==
  ASSUME PhaseInv, LinkersAreIn, UnionIntraSource \/ UnifyTemporal \/ LinkCrossSource \/ MapOntology
  PROVE  LinkersAreIn'
  <1>1. stage \in Late /\ UNCHANGED <<job, failed>>
    BY DEF UnionIntraSource, UnifyTemporal, LinkCrossSource, MapOntology, Settle, Late
  <1>2. graph \cup new_dfs \subseteq graph' \cup new_dfs'
    <2>1. CASE UnionIntraSource
      BY <2>1 DEF UnionIntraSource, Settle
    <2>2. CASE UnifyTemporal \/ LinkCrossSource \/ MapOntology
      <3>1. new_dfs = {}
        BY <2>2 DEF UnifyTemporal, LinkCrossSource, MapOntology, PhaseInv
      <3>2. graph \subseteq graph'
        BY <2>2 DEF UnifyTemporal, LinkCrossSource, MapOntology, Settle
      <3> QED
        BY <3>1, <3>2
    <2> QED
      BY <2>1, <2>2
  <1>3. Loaded' = Loaded
    BY <1>1 DEF Loaded
  <1>4. \A i \in 1..4 : Whole(REGISTERED[i]) => GaveAll(i)
    BY <1>1 DEF LinkersAreIn, Passed
  <1> SUFFICES ASSUME NEW i \in 1..4, REGISTERED[i] \in job.sources \ failed
               PROVE  \E new : Gives(REGISTERED[i], new) /\ new \subseteq graph' \cup new_dfs'
    BY <1>1, <1>3 DEF LinkersAreIn, GaveAll, Gives, Whole
  <1>5. GaveAll(i)
    BY <1>4 DEF Whole
  <1> QED
    BY <1>2, <1>5 DEF GaveAll

LEMMA GivenByJob ==
  ASSUME PhaseInv, LinkersAreIn, RunJob
  PROVE  LinkersAreIn'
  <1> DEFINE Early(now) == now \notin Late \cup LinkStages
  <1>1. ASSUME Early(stage')
        PROVE  LinkersAreIn'
    <2>1. \A i \in 1..4 : REGISTERED[i] \in LinkStages
      BY DEF REGISTERED, LinkStages
    <2> QED
      BY <1>1, <2>1 DEF LinkersAreIn, Passed
  <1>2. ASSUME NEW s, ParseArgs(Settings[s])
        PROVE  Early(stage')
    BY <1>2 DEF ParseArgs, Late, LinkStages
  <1>3. CASE check_work_dir_occupancy
    BY <1>1, <1>3 DEF check_work_dir_occupancy, Late, LinkStages
  <1>4. CASE LoadSourceTriples
    <2>1. job' = job
      BY <1>4 DEF LoadSourceTriples
    <2>2. stage' \in {"failed", "manifest", FirstLinker(1)}
      BY <1>4 DEF LoadSourceTriples
    <2>3. ASSUME stage' = FirstLinker(1), NEW i \in 1..4, REGISTERED[i] \in job.sources
          PROVE  ~Passed(i, stage')
      BY <2>3, NoneIsPassedOver
    <2>4. Early("failed") /\ Early("manifest")
      BY DEF Late, LinkStages
    <2> QED
      BY <1>1, <2>1, <2>2, <2>3, <2>4 DEF LinkersAreIn, Whole
  <1>5. CASE SaveEnrichedParquet \/ SaveDatasetDescriptor \/ DescriptorLost
    BY <1>1, <1>5 DEF SaveEnrichedParquet, SaveDatasetDescriptor, DescriptorLost, Write, TablesOrNot,
       Late, LinkStages
  <1>6. CASE LoadDatasetDescriptor \/ LoadEnrichedParquet
    BY <1>1, <1>6 DEF LoadDatasetDescriptor, LoadEnrichedParquet, Late, LinkStages
  <1>7. CASE WriteNodes \/ WriteEdges \/ WriteLiterals \/ WriteGraphStore \/ WriteFeeds
    <2>1. stage' \in TableStages \cup {"failed", "build", "manifest"}
      BY <1>7 DEF WriteNodes, WriteEdges, WriteLiterals, WriteGraphStore, WriteFeeds, Write, TableStages
    <2> QED
      BY <1>1, <2>1 DEF TableStages, Late, LinkStages
  <1>8. CASE Build \/ SavePyg
    BY <1>1, <1>8 DEF Build, SavePyg, Write, Late, LinkStages
  <1>9. ASSUME NEW i \in 1..7, SaveArtifact(i)
        PROVE  Early(stage')
    <2>1. stage' \in GraphFiles \cup {"manifest"}
      BY <1>9 DEF SaveArtifact, Write, AfterArtifact, ArtifactsInOrder, GraphFiles
    <2> QED
      BY <2>1 DEF GraphFiles, Late, LinkStages
  <1>10. CASE SaveJobManifest \/ JobEnds
    BY <1>1, <1>10 DEF SaveJobManifest, JobEnds, Cleared, Idle, Late, LinkStages
  <1> QED
    BY <1>1, <1>2, <1>3, <1>4, <1>5, <1>6, <1>7, <1>8, <1>9, <1>10 DEF RunJob

\* The graph of a run has all that the linkers give that did not raise.
LEMMA GivenStaysIn == PhaseInv /\ LinkersAreIn /\ [Next]_vars => LinkersAreIn'
  <1> SUFFICES ASSUME PhaseInv, LinkersAreIn, [Next]_vars PROVE LinkersAreIn'
    OBVIOUS
  <1>1. CASE RunJob
    BY <1>1, GivenByJob
  <1>2. CASE \E i \in 1..4 : \/ EnrichIntraSource(REGISTERED[i]) \/ LinkerRaises(REGISTERED[i])
                             \/ CountingRaises(REGISTERED[i])
    BY <1>2, GivenByLinkers
  <1>3. CASE UnionIntraSource \/ UnifyTemporal \/ LinkCrossSource \/ MapOntology
    BY <1>3, GivenByPhases
  <1>4. CASE OntologyRefused
    <2>1. \A i \in 1..4 : ~Passed(i, stage')
      BY <1>4 DEF OntologyRefused, Passed, Late, REGISTERED
    <2> QED
      BY <2>1 DEF LinkersAreIn
  <1>5. CASE StoreChanges \/ UNCHANGED vars
    <2>1. UNCHANGED <<stage, job, graph, new_dfs, failed>>
      BY <1>5 DEF StoreChanges, vars, enrichment
    <2>2. Loaded' = Loaded
      BY <2>1 DEF Loaded
    <2> QED
      BY <2>1, <2>2 DEF LinkersAreIn, GaveAll, Gives, Whole
  <1> QED
    BY <1>1, <1>2, <1>3, <1>4, <1>5 DEF Next, EnrichGraph, RunEnrichment

\* What a whole linker gave is in the enriched graph.
LEMMA GivenIsInTheGraph ==
  ASSUME PhaseInv, LinkersAreIn, stage = "enriched", NEW i \in 1..4, Whole(REGISTERED[i])
  PROVE  \E new : Gives(REGISTERED[i], new) /\ new \subseteq graph
  <1>1. GaveAll(i) /\ new_dfs = {}
    BY DEF LinkersAreIn, PhaseInv, Passed, Late
  <1> QED
    BY <1>1 DEF GaveAll

LEMMA NothingIsGivenYet == Init => LinkersAreIn
  <1>1. Idle \notin Late /\ \A i \in 1..4 : Idle # REGISTERED[i]
    BY DEF Idle, Late, REGISTERED
  <1> QED
    BY <1>1 DEF Init, LinkersAreIn, Passed

----------------------------------------------------------------------------
(* The alerts.                                                             *)

\* What the linker reads of the alerts.
AlertFacts ==
    {"hasInfo", "hasSentTime", "hasSeverity", "hasUrgency", "hasArea", "hasGeocode",
     "hasFIPSCode", "hasSAMECode"}
SameAlerts(N, G) ==
    /\ \A p \in AlertFacts : Rel(G, p) = Rel(N, p)
    /\ Typed(G, "WeatherAlert") = Typed(N, "WeatherAlert")

LEMMA LoadedStays ==
  ASSUME NEW G, AfterOntology(G)
  PROVE  Loaded \subseteq G
  BY DEF AfterOntology, AfterCross, AfterTemporal, AfterLinkers, FromLinkers

\* An enriched graph says of the alerts what was loaded, which is what the linker read.
LEMMA AlertsAreAsLoaded ==
  ASSUME NEW G, AfterOntology(G)
  PROVE  SameAlerts(_noaa_triples(Loaded), G)
  <1> DEFINE N == _noaa_triples(Loaded)
  <1>1. AlertFacts \subseteq SourcePredicates /\ "WeatherAlert" \in SourceClasses
    BY DEF AlertFacts, SourcePredicates, SourceClasses
  <1>2. \A p \in AlertFacts : Rel(G, p) = Rel(Loaded, p)
    BY <1>1, LoadedStays, FactsAreLoaded DEF Rel
  <1>3. Typed(G, "WeatherAlert") = Typed(Loaded, "WeatherAlert")
    <2>1. Loaded \subseteq G
      BY LoadedStays
    <2>2. {u \in G : u[2] = "a" /\ u[3] = <<"class", "WeatherAlert">>}
             = {u \in Loaded : u[2] = "a" /\ u[3] = <<"class", "WeatherAlert">>}
      <3>1. ASSUME NEW u \in G, u[2] = "a", u[3] = <<"class", "WeatherAlert">>
            PROVE  u \in Loaded
        BY <1>1, <3>1, FactsAreLoaded
      <3> QED
        BY <2>1, <3>1
    <2> QED
      BY <2>2 DEF Typed
  <1>4. \A p \in AlertFacts : Rel(N, p) = Rel(Loaded, p)
    BY DEF _noaa_triples, Only, Rel, AlertFacts
  <1>5. Typed(N, "WeatherAlert") = Typed(Loaded, "WeatherAlert")
    BY DEF _noaa_triples, Only, Typed
  <1> QED
    BY <1>2, <1>3, <1>4, <1>5 DEF SameAlerts

\* What the alerts' linker says of escalations.
LEMMA EscalationsOfTheLinker ==
  ASSUME NEW L, NEW new \in NoaaEnrichments(L), NEW t \in new, t[2] = "escalatesTo"
  PROVE  \E rows \in TieBreaks(Escalatable(_noaa_triples(L))) : t \in Escalates(rows)
  <1> DEFINE N == _noaa_triples(L)
  <1>1. \A u \in NoaaSequences(N) : u[2] # "escalatesTo"
    BY ChainByALinker DEF NoaaSequences, AllByAnother, ByAnother
  <1>2. \A u \in _link_geographic_relationships(N) \cup _link_event_relationships(N) :
           u[2] \in {"affectsSameRegion", "sameEventType"}
    BY DEF _link_geographic_relationships, _link_event_relationships, Link
  <1>3. \A u \in _classify_event_categories(N) : u[2] \in {"hasEventClassification", "eventOfCategory"}
    BY DEF _classify_event_categories
  <1>4. PICK e \in _link_severity_escalations(N) :
              new = NoaaSequences(N) \cup _link_geographic_relationships(N)
                    \cup _link_event_relationships(N) \cup _classify_event_categories(N) \cup e
    BY DEF NoaaEnrichments
  <1>5. t \in e
    BY <1>1, <1>2, <1>3, <1>4
  <1> QED
    BY <1>4, <1>5 DEF _link_severity_escalations

LEMMA EscalationsAreTheLinkers ==
  ASSUME SourcesSpeakForThemselves, NEW G, AfterOntology(G), NEW t \in G, t[2] = "escalatesTo"
  PROVE  \E rows \in TieBreaks(Escalatable(_noaa_triples(Loaded))) : t \in Escalates(rows)
  <1>1. "escalatesTo" \in PhasePredicates
    BY DEF PhasePredicates, LinkerPredicates
  <1>2. t \notin Loaded
    BY DEF SourcesSpeakForThemselves, IsOfASource
  <1>3. ASSUME NEW H, AfterLinkers(H), t \in H
        PROVE  \E new \in NoaaEnrichments(Loaded) : t \in new
    <2>1. PICK new : MayGive(Loaded, new) /\ t \in new
      BY <1>2, <1>3 DEF AfterLinkers, FromLinkers
    <2>2. \/ new \in NoaaEnrichments(Loaded)
          \/ AllByAnother(new, Loaded)
      BY <2>1, SecByALinker, BlsByALinker, MarketByALinker DEF MayGive
    <2> QED
      BY <2>1, <2>2 DEF AllByAnother, ByAnother
  <1>4. ASSUME NEW H, AfterTemporal(H), t \in H
        PROVE  \E new \in NoaaEnrichments(Loaded) : t \in new
    <2>1. PICK K : AfterLinkers(K) /\ H = K \cup TemporalEnrich(K)
      BY <1>4 DEF AfterTemporal
    <2>2. t \notin TemporalEnrich(K)
      BY TemporalWrites DEF ByTemporal, TemporalPredicates
    <2> QED
      BY <1>3, <1>4, <2>1, <2>2
  <1>5. ASSUME NEW H, AfterCross(H), t \in H
        PROVE  \E new \in NoaaEnrichments(Loaded) : t \in new
    <2>1. PICK K : AfterTemporal(K) /\ H = K \cup CrossEnrich(K, TickersOfRun, SubsOfRun)
      BY <1>5 DEF AfterCross
    <2>2. t \notin CrossEnrich(K, TickersOfRun, SubsOfRun)
      BY CrossWrites DEF ByCross, CrossPredicates, HubLinks
    <2> QED
      BY <1>4, <1>5, <2>1, <2>2
  <1>6. ASSUME NEW H, t \in OntologyEnrich(H, job.overrides)
        PROVE  FALSE
    <2>1. t[2] \in OntologyPredicates \cup {m[2] : m \in PROPERTY_MAPPINGS}
      BY <1>6, OntologyWrites
    <2> QED
      BY <1>1, <2>1, TablesAssumption DEF OntologyPredicates
  <1>7. \E new \in NoaaEnrichments(Loaded) : t \in new
    BY <1>5, <1>6 DEF AfterOntology
  <1> QED
    BY <1>7, EscalationsOfTheLinker

\* The alerts' values are numbers that can be put in order.
NumbersSaid(G) ==
    /\ \A r \in Rel(G, "hasInfo") : r[1][2] \in Nat
    /\ \A r \in Rel(G, "hasSentTime") : r[2][2] \in Nat
    /\ \A r \in Rel(G, "hasSeverity") : r[2][2] \in 1..4

LEMMA AlertsSayNumbers ==
  ASSUME JobIsGiven, OfTriplesMode, stage # Idle, NEW G, AfterOntology(G)
  PROVE  NumbersSaid(G)
  <1>1. {"hasInfo", "hasSentTime", "hasSeverity"} \subseteq SourcePredicates
    BY DEF SourcePredicates
  <1>2. ASSUME NEW p \in {"hasInfo", "hasSentTime", "hasSeverity"}, NEW r \in Rel(G, p)
        PROVE  \E t : StatedByItsOwn(t) /\ t[2] = p /\ r = <<t[1], t[3]>>
    <2>1. PICK t \in G : t[2] = p /\ r = <<t[1], t[3]>>
      BY DEF Rel
    <2>2. t \in Loaded
      BY <1>1, <2>1, FactsAreLoaded
    <2> QED
      BY <2>1, <2>2, LoadedIsTheirOwn
  <1>3. ASSUME NEW r \in Rel(G, "hasInfo")
        PROVE  r[1][2] \in Nat
    <2>1. PICK t : StatedByItsOwn(t) /\ t[2] = "hasInfo" /\ r = <<t[1], t[3]>>
      BY <1>2
    <2> QED
      BY <2>1 DEF StatedByItsOwn
  <1>4. ASSUME NEW r \in Rel(G, "hasSentTime")
        PROVE  r[2][2] \in Nat
    <2>1. PICK t : StatedByItsOwn(t) /\ t[2] = "hasSentTime" /\ r = <<t[1], t[3]>>
      BY <1>2
    <2> QED
      BY <2>1 DEF StatedByItsOwn
  <1>5. ASSUME NEW r \in Rel(G, "hasSeverity")
        PROVE  r[2][2] \in 1..4
    <2>1. PICK t : StatedByItsOwn(t) /\ t[2] = "hasSeverity" /\ r = <<t[1], t[3]>>
      BY <1>2
    <2> QED
      BY <2>1 DEF StatedByItsOwn
  <1> QED
    BY <1>3, <1>4, <1>5 DEF NumbersSaid

\* What the graph says of an alert: a block, its time and a severity.
LEMMA SpokenIs ==
  ASSUME NEW a, NEW s
  PROVE  s \in Spoken(a) <=>
            \E i \in Rel(graph, "hasInfo") : \E t \in Rel(graph, "hasSentTime") :
               \E v \in Rel(graph, "hasSeverity") :
                  i[1] = a /\ i[2] = t[1] /\ i[2] = v[1] /\ s = <<i[2], t[2][2], v[2][2]>>
  <1> DEFINE its == {r \in Rel(graph, "hasInfo") : r[1] = a}
             X == its \X Rel(graph, "hasSentTime") \X Rel(graph, "hasSeverity")
  <1>1. ASSUME s \in Spoken(a)
        PROVE  \E i \in Rel(graph, "hasInfo") : \E t \in Rel(graph, "hasSentTime") :
                  \E v \in Rel(graph, "hasSeverity") :
                     i[1] = a /\ i[2] = t[1] /\ i[2] = v[1] /\ s = <<i[2], t[2][2], v[2][2]>>
    <2>1. PICK x \in X : /\ x[1][2] = x[2][1] /\ x[1][2] = x[3][1]
                         /\ s = <<x[1][2], x[2][2][2], x[3][2][2]>>
      BY <1>1 DEF Spoken
    <2>2. x[1] \in its /\ x[2] \in Rel(graph, "hasSentTime") /\ x[3] \in Rel(graph, "hasSeverity")
      BY <2>1
    <2> QED
      BY <2>1, <2>2
  <1>2. ASSUME NEW i \in Rel(graph, "hasInfo"), NEW t \in Rel(graph, "hasSentTime"),
               NEW v \in Rel(graph, "hasSeverity"),
               i[1] = a, i[2] = t[1], i[2] = v[1], s = <<i[2], t[2][2], v[2][2]>>
        PROVE  s \in Spoken(a)
    <2> DEFINE x == <<i, t, v>>
    <2>1. x \in X /\ x[1] = i /\ x[2] = t /\ x[3] = v
      BY <1>2
    <2> HIDE DEF x
    <2>2. x[1][2] = x[2][1] /\ x[1][2] = x[3][1] /\ s = <<x[1][2], x[2][2][2], x[3][2][2]>>
      BY <1>2, <2>1
    <2> QED
      BY <2>1, <2>2 DEF Spoken
  <1> QED
    BY <1>1, <1>2

\* Two severities and two times of an alert are numbers.
LEMMA SpokenNumbers ==
  ASSUME NumbersSaid(graph), NEW a, NEW s \in Spoken(a)
  PROVE  a[2] \in Nat /\ s[2] \in Nat /\ s[3] \in 1..4
  BY SpokenIs DEF NumbersSaid

\* The alerts, and where they apply.
IsAlert(a, z) == a \in Typed(graph, "WeatherAlert") /\ <<a, z>> \in _alert_geocodes(graph)
Urges(b, u) == u = 0 \/ \E q \in Rel(graph, "hasUrgency") : q[1] = b /\ u = q[2][2]

LEMMA GeocodesAreTheSame ==
  ASSUME NEW N, SameAlerts(N, graph)
  PROVE  _alert_geocodes(N) = _alert_geocodes(graph)
  BY DEF SameAlerts, AlertFacts, _alert_geocodes

\* A row of a block is of an alert that speaks and of a place where it applies.
LEMMA RowsOfBlocks ==
  ASSUME NEW N, SameAlerts(N, graph), NEW q \in BlockRows(N)
  PROVE  /\ IsAlert(q.entity, q.part)
         /\ \E s \in Spoken(q.entity) : /\ q.severity = s[3] /\ Urges(s[1], q.urgency)
                                        /\ q.key = <<s[2], q.entity[2]>>
         /\ q = [entity |-> q.entity, part |-> q.part, severity |-> q.severity,
                 urgency |-> q.urgency, key |-> q.key]
  <1> DEFINE Of(b, p) == {r[2][2] : r \in {o \in Rel(N, p) : o[1] = b}}
             Urgency(b) == IF Of(b, "hasUrgency") = {} THEN {0} ELSE Of(b, "hasUrgency")
             Places(a) == {c[2] : c \in {x \in _alert_geocodes(N) : x[1] = a}}
             Said(ab) == Of(ab[2], "hasSentTime") \X Of(ab[2], "hasSeverity")
                         \X Urgency(ab[2]) \X Places(ab[1])
             Rows(ab) == {[entity |-> ab[1], part |-> x[4], severity |-> x[2], urgency |-> x[3],
                           key |-> <<x[1], ab[1][2]>>] : x \in Said(ab)}
  <1>0. BlockRows(N) = UNION {Rows(ab) : ab \in _build_alert_info(N)}
    BY DEF BlockRows
  <1> HIDE DEF Said
  <1>1. PICK ab \in _build_alert_info(N) : q \in Rows(ab)
    BY <1>0
  <1>2. PICK x \in Said(ab) :
              q = [entity |-> ab[1], part |-> x[4], severity |-> x[2], urgency |-> x[3],
                   key |-> <<x[1], ab[1][2]>>]
    BY <1>1
  <1> HIDE DEF Of, Urgency, Places
  <1> DEFINE at == x[1]
             sev == x[2]
             urg == x[3]
             z == x[4]
  <1>a. /\ at \in Of(ab[2], "hasSentTime") /\ sev \in Of(ab[2], "hasSeverity")
        /\ urg \in Urgency(ab[2]) /\ z \in Places(ab[1])
    BY <1>2 DEF Said
  <1>3. ab \in Rel(graph, "hasInfo") /\ ab[1] \in Typed(graph, "WeatherAlert")
    BY DEF _build_alert_info, SameAlerts, AlertFacts
  <1>4. PICK t \in Rel(graph, "hasSentTime") : t[1] = ab[2] /\ at = t[2][2]
    BY <1>a DEF Of, SameAlerts, AlertFacts
  <1>5. PICK v \in Rel(graph, "hasSeverity") : v[1] = ab[2] /\ sev = v[2][2]
    BY <1>a DEF Of, SameAlerts, AlertFacts
  <1>6. Urges(ab[2], urg)
    <2>1. CASE Of(ab[2], "hasUrgency") = {}
      BY <1>a, <2>1 DEF Urges, Urgency
    <2>2. CASE urg \in Of(ab[2], "hasUrgency")
      BY <2>2 DEF Of, Urges, SameAlerts, AlertFacts
    <2> QED
      BY <1>a, <2>1, <2>2 DEF Urgency
  <1>7. <<ab[1], z>> \in _alert_geocodes(graph)
    <2>1. PICK c \in _alert_geocodes(N) : c[1] = ab[1] /\ z = c[2]
      BY <1>a DEF Places
    <2>2. c = <<c[1], c[2]>>
      BY <2>1 DEF _alert_geocodes, Via
    <2> QED
      BY <2>1, <2>2, GeocodesAreTheSame
  <1> HIDE DEF at, sev, urg, z
  <1> DEFINE s == <<ab[2], at, sev>>
  <1>8. s \in Spoken(ab[1])
    BY <1>3, <1>4, <1>5, SpokenIs
  <1>9. s[1] = ab[2] /\ s[2] = at /\ s[3] = sev
    OBVIOUS
  <1> HIDE DEF s
  <1>10. /\ q.entity = ab[1] /\ q.part = z /\ q.severity = sev /\ q.urgency = urg
         /\ q.key = <<at, ab[1][2]>>
    BY <1>2 DEF at, sev, urg, z
  <1> QED
    BY <1>2, <1>3, <1>6, <1>7, <1>8, <1>9, <1>10 DEF IsAlert

\* And whatever an alert says has a row wherever it applies.
LEMMA BlocksOfRows ==
  ASSUME NEW N, SameAlerts(N, graph), NEW a, NEW z, IsAlert(a, z), NEW s \in Spoken(a)
  PROVE  \E q \in BlockRows(N) : /\ q.entity = a /\ q.part = z /\ q.severity = s[3]
                                 /\ q.key = <<s[2], a[2]>>
  <1> DEFINE Of(b, p) == {r[2][2] : r \in {o \in Rel(N, p) : o[1] = b}}
             Urgency(b) == IF Of(b, "hasUrgency") = {} THEN {0} ELSE Of(b, "hasUrgency")
             Places(x) == {c[2] : c \in {y \in _alert_geocodes(N) : y[1] = x}}
             Said(ab) == Of(ab[2], "hasSentTime") \X Of(ab[2], "hasSeverity")
                         \X Urgency(ab[2]) \X Places(ab[1])
             Rows(ab) == {[entity |-> ab[1], part |-> x[4], severity |-> x[2], urgency |-> x[3],
                           key |-> <<x[1], ab[1][2]>>] : x \in Said(ab)}
  <1>0. BlockRows(N) = UNION {Rows(ab) : ab \in _build_alert_info(N)}
    BY DEF BlockRows
  <1>1. PICK i \in Rel(graph, "hasInfo"), t \in Rel(graph, "hasSentTime"), v \in Rel(graph, "hasSeverity") :
           i[1] = a /\ i[2] = t[1] /\ i[2] = v[1] /\ s = <<i[2], t[2][2], v[2][2]>>
    BY SpokenIs
  <1>2. i \in _build_alert_info(N)
    BY <1>1 DEF _build_alert_info, SameAlerts, AlertFacts, IsAlert
  <1>3. t[2][2] \in Of(i[2], "hasSentTime") /\ v[2][2] \in Of(i[2], "hasSeverity")
    BY <1>1 DEF SameAlerts, AlertFacts
  <1>4. PICK urg : urg \in Urgency(i[2])
    OBVIOUS
  <1>5. z \in Places(i[1])
    <2>1. <<a, z>> \in _alert_geocodes(N)
      BY GeocodesAreTheSame DEF IsAlert
    <2> QED
      BY <1>1, <2>1
  <1> HIDE DEF Of, Urgency, Places
  <1> DEFINE x == <<t[2][2], v[2][2], urg, z>>
  <1>6. x \in Said(i) /\ x[1] = t[2][2] /\ x[2] = v[2][2] /\ x[4] = z
    BY <1>3, <1>4, <1>5
  <1> HIDE DEF x, Said
  <1> DEFINE q == [entity |-> i[1], part |-> x[4], severity |-> x[2], urgency |-> x[3],
                   key |-> <<x[1], i[1][2]>>]
  <1>7. q \in Rows(i)
    BY <1>6
  <1>8. /\ q.entity = a /\ q.part = z /\ q.severity = s[3] /\ q.key = <<s[2], a[2]>>
    BY <1>1, <1>6
  <1> HIDE DEF q
  <1> QED
    BY <1>0, <1>2, <1>7, <1>8

\* One more column of a key, and keys of four columns.
LEMMA AppendColumn ==
  ASSUME NEW k \in Seq(Nat), NEW c \in Nat
  PROVE  /\ Append(k, c) \in Seq(Nat)
         /\ Len(Append(k, c)) = Len(k) + 1
         /\ Append(k, c)[Len(k) + 1] = c
         /\ \A i \in 1..Len(k) : Append(k, c)[i] = k[i]
  OBVIOUS

KeyOf(k, a, b, c, d) == Len(k) = 4 /\ k[1] = a /\ k[2] = b /\ k[3] = c /\ k[4] = d

LEMMA TwoColumnsMore ==
  ASSUME NEW a \in Nat, NEW b \in Nat, NEW c \in Nat, NEW d \in Nat
  PROVE  KeyOf(Append(Append(<<a, b>>, c), d), a, b, c, d)
  <1> DEFINE t == <<a, b>>
             u == Append(t, c)
             w == Append(u, d)
  <1>1. t \in Seq(Nat) /\ Len(t) = 2 /\ t[1] = a /\ t[2] = b
    OBVIOUS
  <1> HIDE DEF t
  <1>2. u \in Seq(Nat) /\ Len(u) = 3 /\ u[3] = c /\ \A i \in 1..2 : u[i] = t[i]
    <2>1. /\ u \in Seq(Nat) /\ Len(u) = Len(t) + 1 /\ u[Len(t) + 1] = c
          /\ \A i \in 1..Len(t) : u[i] = t[i]
      BY <1>1, AppendColumn
    <2> QED
      BY <1>1, <2>1
  <1>3. u[1] = a /\ u[2] = b
    BY <1>1, <1>2
  <1> HIDE DEF u
  <1>4. Len(w) = 4 /\ w[4] = d /\ \A i \in 1..3 : w[i] = u[i]
    <2>1. /\ Len(w) = Len(u) + 1 /\ w[Len(u) + 1] = d
          /\ \A i \in 1..Len(u) : w[i] = u[i]
      BY <1>2, AppendColumn
    <2> QED
      BY <1>2, <2>1
  <1>5. w[1] = a /\ w[2] = b /\ w[3] = c
    BY <1>2, <1>3, <1>4
  <1> HIDE DEF w
  <1>6. KeyOf(w, a, b, c, d)
    BY <1>4, <1>5 DEF KeyOf
  <1> QED
    BY <1>6 DEF t, u, w

Precede(a, b, c, d, e, f, g, h) ==
    \/ a < e
    \/ a = e /\ b < f
    \/ a = e /\ b = f /\ c < g
    \/ a = e /\ b = f /\ c = g /\ d < h

LEMMA BeforeByFour ==
  ASSUME NEW x, NEW y,
         NEW a \in Nat, NEW b \in Nat, NEW c \in Nat, NEW d \in Nat, KeyOf(x, a, b, c, d),
         NEW e \in Nat, NEW f \in Nat, NEW g \in Nat, NEW h \in Nat, KeyOf(y, e, f, g, h)
  PROVE  Before(x, y) <=> Precede(a, b, c, d, e, f, g, h)
  <1>1. /\ Len(x) = 4 /\ x[1] = a /\ x[2] = b /\ x[3] = c /\ x[4] = d
        /\ y[1] = e /\ y[2] = f /\ y[3] = g /\ y[4] = h
    BY DEF KeyOf
  <1>2. Before(x, y) <=> \E i \in {1, 2, 3, 4} : x[i] < y[i] /\ \A j \in 1..(i - 1) : x[j] = y[j]
    <2>1. 1..Len(x) = {1, 2, 3, 4}
      BY <1>1
    <2> QED
      BY <2>1 DEF Before
  <1>3. 1..(1 - 1) = {} /\ 1..(2 - 1) = {1} /\ 1..(3 - 1) = {1, 2} /\ 1..(4 - 1) = {1, 2, 3}
    OBVIOUS
  <1>4. Before(x, y) <=> \/ x[1] < y[1]
                         \/ x[2] < y[2] /\ x[1] = y[1]
                         \/ x[3] < y[3] /\ x[1] = y[1] /\ x[2] = y[2]
                         \/ x[4] < y[4] /\ x[1] = y[1] /\ x[2] = y[2] /\ x[3] = y[3]
    BY <1>2, <1>3
  <1> QED
    BY <1>1, <1>4 DEF Precede

\* Tied rows are told apart by one more column.
Broken(R, f) == {[r EXCEPT !.key = Append(@, f[r])] : r \in R}
Counts(R, f) == \A r \in R : f[r] \in Nat

LEMMA TieBreaksAre ==
  ASSUME NEW R, NEW rows \in TieBreaks(R)
  PROVE  \E f : Counts(R, f) /\ rows = Broken(R, f)
  <1>1. CASE R = {}
    <2>1. rows = {}
      BY <1>1 DEF TieBreaks
    <2>2. Broken(R, [r \in R |-> 0]) = {} /\ Counts(R, [r \in R |-> 0])
      BY <1>1 DEF Broken, Counts
    <2> QED
      BY <2>1, <2>2
  <1>2. CASE R # {}
    <2> DEFINE Tied(r) == {q \in R : q.part = r.part /\ q.key = r.key}
               most == CHOOSE k \in {Cardinality(Tied(r)) : r \in R} :
                          \A r \in R : Cardinality(Tied(r)) <= k
    <2>1. PICK f \in [R -> 1..most] : rows = {[r EXCEPT !.key = Append(@, f[r])] : r \in R}
      BY <1>2 DEF TieBreaks
    <2> HIDE DEF most
    <2>2. Counts(R, f)
      BY DEF Counts
    <2> QED
      BY <2>1, <2>2 DEF Broken
  <1> QED
    BY <1>1, <1>2

\* A row with one more column in its key.
Widen(r, c) == [r EXCEPT !.key = Append(@, c)]
Block(e, p, v, u, k) == [entity |-> e, part |-> p, severity |-> v, urgency |-> u, key |-> k]

LEMMA WidenedBlock ==
  ASSUME NEW e, NEW p, NEW v, NEW u, NEW k, NEW c
  PROVE  Widen(Block(e, p, v, u, k), c) = Block(e, p, v, u, Append(k, c))
  BY DEF Widen, Block

\* A row to compare is of what an alert says in a place where it applies.
SaidIn(r, s) ==
    /\ r.severity = s[3]
    /\ \E n \in Nat : KeyOf(r.key, s[2], r.entity[2], 4 - s[3], n)
IsRow(r) ==
    /\ IsAlert(r.entity, r.part)
    /\ \E s \in Spoken(r.entity) : SaidIn(r, s) /\ Urges(s[1], r.urgency)

LEMMA ComparedRow ==
  ASSUME NumbersSaid(graph), NEW N, SameAlerts(N, graph), NEW b \in BlockRows(N), NEW n \in Nat
  PROVE  LET r == Widen(Widen(b, 4 - b.severity), n)
         IN  /\ r.entity = b.entity /\ r.part = b.part /\ r.severity = b.severity
             /\ \A s \in Spoken(b.entity) :
                   b.severity = s[3] /\ b.key = <<s[2], b.entity[2]>> => SaidIn(r, s)
             /\ IsRow(r)
  <1> DEFINE sev == b.severity
             k == Append(Append(b.key, 4 - sev), n)
             r == Widen(Widen(b, 4 - b.severity), n)
  <1>1. b = Block(b.entity, b.part, sev, b.urgency, b.key)
    BY RowsOfBlocks DEF Block
  <1>2. r = Block(b.entity, b.part, sev, b.urgency, k)
    <2>1. Widen(b, 4 - sev) = Block(b.entity, b.part, sev, b.urgency, Append(b.key, 4 - sev))
      BY <1>1, WidenedBlock
    <2> QED
      BY <2>1, WidenedBlock
  <1> HIDE DEF r
  <1>3. r.entity = b.entity /\ r.part = b.part /\ r.severity = sev /\ r.urgency = b.urgency /\ r.key = k
    BY <1>2 DEF Block
  <1>4. ASSUME NEW s \in Spoken(b.entity), sev = s[3], b.key = <<s[2], b.entity[2]>>
        PROVE  SaidIn(r, s)
    <2>1. b.entity[2] \in Nat /\ s[2] \in Nat /\ s[3] \in 1..4
      BY SpokenNumbers
    <2>2. 4 - s[3] \in Nat
      BY <2>1
    <2>3. KeyOf(Append(Append(<<s[2], b.entity[2]>>, 4 - s[3]), n), s[2], b.entity[2], 4 - s[3], n)
      BY <2>1, <2>2, TwoColumnsMore
    <2>4. KeyOf(r.key, s[2], r.entity[2], 4 - s[3], n)
      BY <1>3, <1>4, <2>3
    <2> QED
      BY <1>3, <1>4, <2>4 DEF SaidIn
  <1>5. IsRow(r)
    <2>1. PICK s \in Spoken(b.entity) : /\ sev = s[3] /\ Urges(s[1], b.urgency)
                                        /\ b.key = <<s[2], b.entity[2]>>
      BY RowsOfBlocks
    <2>2. SaidIn(r, s)
      BY <1>4, <2>1
    <2>3. IsAlert(b.entity, b.part)
      BY RowsOfBlocks
    <2> QED
      BY <1>3, <2>1, <2>2, <2>3 DEF IsRow
  <1> QED
    BY <1>3, <1>4, <1>5 DEF r

\* However the ties are broken, the rows say what the alerts say.
LEMMA RowsCompared ==
  ASSUME NumbersSaid(graph), NEW N, SameAlerts(N, graph), NEW rows \in TieBreaks(Escalatable(N)),
         NEW r \in rows
  PROVE  IsRow(r)
  <1>1. PICK f : Counts(Escalatable(N), f) /\ rows = Broken(Escalatable(N), f)
    BY TieBreaksAre
  <1>2. PICK e \in Escalatable(N) : r = Widen(e, f[e])
    BY <1>1 DEF Broken, Widen
  <1>3. PICK b \in BlockRows(N) : e = Widen(b, 4 - b.severity)
    BY DEF Escalatable, Widen
  <1>4. f[e] \in Nat
    BY <1>1 DEF Counts
  <1> QED
    BY <1>2, <1>3, <1>4, ComparedRow

LEMMA AllIsCompared ==
  ASSUME NumbersSaid(graph), NEW N, SameAlerts(N, graph), NEW rows \in TieBreaks(Escalatable(N)),
         NEW a, NEW z, IsAlert(a, z), NEW s \in Spoken(a)
  PROVE  \E r \in rows : r.entity = a /\ r.part = z /\ SaidIn(r, s)
  <1>1. PICK f : Counts(Escalatable(N), f) /\ rows = Broken(Escalatable(N), f)
    BY TieBreaksAre
  <1>2. PICK b \in BlockRows(N) : /\ b.entity = a /\ b.part = z /\ b.severity = s[3]
                                  /\ b.key = <<s[2], a[2]>>
    BY BlocksOfRows
  <1> DEFINE e == Widen(b, 4 - b.severity)
  <1>3. e \in Escalatable(N)
    BY DEF Escalatable, Widen
  <1> HIDE DEF e
  <1>4. f[e] \in Nat
    BY <1>1, <1>3 DEF Counts
  <1> DEFINE r == Widen(e, f[e])
  <1>5. r \in rows
    BY <1>1, <1>3 DEF Broken, Widen
  <1>6. r.entity = a /\ r.part = z
    BY <1>2, <1>4, ComparedRow DEF e
  <1>7. SaidIn(r, s)
    BY <1>2, <1>4, ComparedRow DEF e
  <1> HIDE DEF r
  <1> QED
    BY <1>5, <1>6, <1>7

\* The rows say no more and no less than the alerts.
Compared(rows) ==
    /\ \A r \in rows : IsRow(r)
    /\ \A a, z : IsAlert(a, z) =>
          \A s \in Spoken(a) : \E r \in rows : r.entity = a /\ r.part = z /\ SaidIn(r, s)

LEMMA BrokenRowsAreCompared ==
  ASSUME NumbersSaid(graph), NEW N, SameAlerts(N, graph), NEW rows \in TieBreaks(Escalatable(N))
  PROVE  Compared(rows)
  <1>1. \A r \in rows : IsRow(r)
    BY RowsCompared
  <1>2. ASSUME NEW a, NEW z, IsAlert(a, z), NEW s \in Spoken(a)
        PROVE  \E r \in rows : r.entity = a /\ r.part = z /\ SaidIn(r, s)
    BY <1>2, AllIsCompared
  <1> QED
    BY <1>1, <1>2 DEF Compared

\* The time an alert speaks at is its earliest.
LEMMA SpeaksAtIs ==
  ASSUME NumbersSaid(graph), NEW a, NEW s \in Spoken(a), \A q \in Spoken(a) : s[2] <= q[2]
  PROVE  SpeaksAt(a) = s[2]
  <1> DEFINE T == {q[2] : q \in Spoken(a)}
             t == CHOOSE x \in T : \A q \in Spoken(a) : x <= q[2]
  <1>1. t \in T /\ \A q \in Spoken(a) : t <= q[2]
    OBVIOUS
  <1>2. PICK p \in Spoken(a) : t = p[2]
    BY <1>1
  <1>3. t <= s[2] /\ s[2] <= p[2]
    BY <1>1
  <1>4. t = SpeaksAt(a)
    BY DEF SpeaksAt
  <1> HIDE DEF t
  <1>5. s[2] \in Nat /\ p[2] \in Nat
    BY SpokenNumbers
  <1> QED
    BY <1>2, <1>3, <1>4, <1>5

\* It speaks at some time, before which it says nothing.
LEMMA SpeaksFirst ==
  ASSUME NumbersSaid(graph), NEW a, Spoken(a) # {}
  PROVE  /\ \E s \in Spoken(a) : s[2] = SpeaksAt(a)
         /\ \A q \in Spoken(a) : SpeaksAt(a) <= q[2]
  <1> DEFINE T == {q[2] : q \in Spoken(a)}
  <1>1. T \subseteq Nat /\ T # {}
    BY SpokenNumbers
  <1> HIDE DEF T
  <1>2. PICK t \in T : \A m \in T : t <= m
    BY <1>1, LeastOfSome
  <1>3. PICK s \in Spoken(a) : s[2] = t
    BY DEF T
  <1>4. \A q \in Spoken(a) : s[2] <= q[2]
    BY <1>2, <1>3 DEF T
  <1>5. SpeaksAt(a) = s[2]
    BY <1>4, SpeaksAtIs
  <1> QED
    BY <1>4, <1>5

\* Its severity is the worst it says at that time.
LEMMA SeverityIs ==
  ASSUME NumbersSaid(graph), NEW a, NEW s \in Spoken(a), s[2] = SpeaksAt(a),
         \A q \in Spoken(a) : q[2] = SpeaksAt(a) => q[3] <= s[3]
  PROVE  s \in Worst(a) /\ Severity(a) = s[3]
  <1>1. s \in Worst(a)
    BY DEF Worst
  <1> DEFINE V == {w[3] : w \in Worst(a)}
             v == CHOOSE x \in V : TRUE
  <1>2. v \in V
    BY <1>1
  <1>3. PICK w \in Worst(a) : v = w[3]
    BY <1>2
  <1>4. v = Severity(a)
    BY DEF Severity
  <1> HIDE DEF v
  <1>5. w \in Spoken(a) /\ w[3] <= s[3] /\ s[3] <= w[3]
    BY <1>1 DEF Worst
  <1>6. s[3] \in 1..4 /\ w[3] \in 1..4
    BY <1>5, SpokenNumbers
  <1> QED
    BY <1>1, <1>3, <1>4, <1>5, <1>6

\* Of what one alert says, the earlier comes first, and of one time the worse.
LEMMA SaidBefore ==
  ASSUME NumbersSaid(graph), NEW q, NEW r, q.entity = r.entity,
         NEW p \in Spoken(r.entity), NEW s \in Spoken(r.entity), SaidIn(q, p), SaidIn(r, s),
         p[2] < s[2] \/ (p[2] = s[2] /\ s[3] < p[3])
  PROVE  Before(q.key, r.key)
  <1>0. PICK e, k, l : e = r.entity[2] /\ k = 4 - p[3] /\ l = 4 - s[3]
    OBVIOUS
  <1>1. PICK n \in Nat : KeyOf(q.key, p[2], e, k, n)
    BY <1>0 DEF SaidIn
  <1>2. PICK m \in Nat : KeyOf(r.key, s[2], e, l, m)
    BY <1>0 DEF SaidIn
  <1>3. e \in Nat /\ p[2] \in Nat /\ s[2] \in Nat /\ p[3] \in 1..4 /\ s[3] \in 1..4
    BY <1>0, SpokenNumbers
  <1>4. k \in Nat /\ l \in Nat
    BY <1>0, <1>3
  <1>5. e \in Nat /\ p[2] \in Nat /\ s[2] \in Nat
    BY <1>3
  <1>6. Before(q.key, r.key) <=> Precede(p[2], e, k, n, s[2], e, l, m)
    BY <1>1, <1>2, <1>4, <1>5, BeforeByFour
  <1> QED
    BY <1>0, <1>3, <1>6 DEF Precede

\* The row an alert is compared by is of the worst it says first.
LEMMA FirstRowSpeaks ==
  ASSUME NumbersSaid(graph), NEW rows, Compared(rows), NEW r \in FirstRows(rows)
  PROVE  \E s \in Worst(r.entity) : /\ SaidIn(r, s) /\ s[2] = SpeaksAt(r.entity)
                                    /\ r.severity = Severity(r.entity)
                                    /\ r.urgency \in Urgencies(r.entity)
  <1> DEFINE a == r.entity
  <1>1. r \in rows /\ \A q \in rows : q.part = r.part /\ q.entity = a => ~Before(q.key, r.key)
    BY DEF FirstRows
  <1>2. IsAlert(a, r.part)
    BY <1>1 DEF Compared, IsRow
  <1>3. PICK s \in Spoken(a) : SaidIn(r, s) /\ Urges(s[1], r.urgency)
    BY <1>1 DEF Compared, IsRow
  <1>4. ASSUME NEW p \in Spoken(a), p[2] < s[2] \/ (p[2] = s[2] /\ s[3] < p[3])
        PROVE  FALSE
    <2>1. PICK q \in rows : q.entity = a /\ q.part = r.part /\ SaidIn(q, p)
      BY <1>2 DEF Compared
    <2>2. Before(q.key, r.key)
      BY <1>3, <1>4, <2>1, SaidBefore
    <2> QED
      BY <1>1, <2>1, <2>2
  <1>5. ASSUME NEW p \in Spoken(a)
        PROVE  s[2] <= p[2] /\ (p[2] = s[2] => p[3] <= s[3])
    <2>1. p[2] \in Nat /\ s[2] \in Nat /\ p[3] \in 1..4 /\ s[3] \in 1..4
      BY SpokenNumbers
    <2> QED
      BY <1>4, <2>1
  <1>6. SpeaksAt(a) = s[2]
    BY <1>5, SpeaksAtIs
  <1>7. s \in Worst(a) /\ Severity(a) = s[3]
    BY <1>5, <1>6, SeverityIs
  <1>8. r.urgency \in Urgencies(a)
    BY <1>3, <1>7 DEF Urges, Urgencies
  <1> QED
    BY <1>3, <1>6, <1>7, <1>8 DEF SaidIn

\* An alert that says anything has a row it is compared by wherever it applies.
LEMMA SomeFirstRow ==
  ASSUME NumbersSaid(graph), NEW rows, Compared(rows), NEW a, NEW z, IsAlert(a, z), Spoken(a) # {}
  PROVE  \E r \in FirstRows(rows) : r.entity = a /\ r.part = z
  <1> DEFINE first == {s \in Spoken(a) : s[2] = SpeaksAt(a)}
             ranks == {4 - s[3] : s \in first}
  <1>1. ranks \subseteq Nat /\ ranks # {}
    BY SpokenNumbers, SpeaksFirst
  <1> HIDE DEF ranks
  <1>2. PICK k \in ranks : \A m \in ranks : k <= m
    BY <1>1, LeastOfSome
  <1>3. PICK s \in first : k = 4 - s[3]
    BY DEF ranks
  <1> DEFINE t == SpeaksAt(a)
             Places(n) == \E r \in rows : r.entity = a /\ r.part = z /\ KeyOf(r.key, t, a[2], k, n)
             places == {n \in Nat : Places(n)}
  <1>4. s \in Spoken(a) /\ s[2] = t
    OBVIOUS
  <1>5. places \subseteq Nat /\ places # {}
    <2>1. PICK r \in rows : r.entity = a /\ r.part = z /\ SaidIn(r, s)
      BY <1>4 DEF Compared
    <2>2. PICK n \in Nat : KeyOf(r.key, s[2], r.entity[2], 4 - s[3], n)
      BY <2>1 DEF SaidIn
    <2> QED
      BY <1>3, <1>4, <2>1, <2>2
  <1> HIDE DEF places
  <1>6. PICK n \in places : \A m \in places : n <= m
    BY <1>5, LeastOfSome
  <1>7. PICK r \in rows : r.entity = a /\ r.part = z /\ KeyOf(r.key, t, a[2], k, n)
    BY DEF places
  <1>8. ASSUME NEW q \in rows, q.part = z, q.entity = a
        PROVE  ~Before(q.key, r.key)
    <2>1. PICK p \in Spoken(a) : SaidIn(q, p)
      BY <1>8 DEF Compared, IsRow
    <2>2. PICK m \in Nat : KeyOf(q.key, p[2], a[2], 4 - p[3], m)
      BY <1>8, <2>1 DEF SaidIn
    <2>3. /\ p[2] \in Nat /\ a[2] \in Nat /\ 4 - p[3] \in Nat /\ t \in Nat /\ k \in Nat /\ n \in Nat
          /\ t <= p[2]
      <3>1. p[2] \in Nat /\ a[2] \in Nat /\ p[3] \in 1..4 /\ t \in Nat
        BY <1>4, SpokenNumbers
      <3>2. t <= p[2]
        BY SpeaksFirst
      <3>3. k \in Nat /\ n \in Nat
        BY <1>1, <1>5
      <3> QED
        BY <3>1, <3>2, <3>3
    <2>4. p[2] = t => k <= 4 - p[3]
      <3>1. p[2] = t => 4 - p[3] \in ranks
        BY DEF ranks
      <3> QED
        BY <1>2, <3>1
    <2>5. p[2] = t /\ 4 - p[3] = k => n <= m
      <3>1. p[2] = t /\ 4 - p[3] = k => m \in places
        BY <1>8, <2>2 DEF places
      <3> QED
        BY <1>6, <3>1
    <2> HIDE DEF t
    <2>6. Before(q.key, r.key) <=> Precede(p[2], a[2], 4 - p[3], m, t, a[2], k, n)
      <3>1. PICK x : x = 4 - p[3]
        OBVIOUS
      <3>2. /\ p[2] \in Nat /\ a[2] \in Nat /\ x \in Nat /\ m \in Nat
            /\ t \in Nat /\ k \in Nat /\ n \in Nat
        BY <2>3, <3>1
      <3>3. KeyOf(q.key, p[2], a[2], x, m) /\ KeyOf(r.key, t, a[2], k, n)
        BY <1>7, <2>2, <3>1
      <3>4. Before(q.key, r.key) <=> Precede(p[2], a[2], x, m, t, a[2], k, n)
        BY <3>2, <3>3, BeforeByFour, Zenon
      <3> QED
        BY <3>1, <3>4
    <2> QED
      BY <2>3, <2>4, <2>5, <2>6 DEF Precede
  <1>9. r \in FirstRows(rows)
    BY <1>7, <1>8 DEF FirstRows
  <1> QED
    BY <1>7, <1>9

\* What is linked rises.
LEMMA LinkedRises ==
  ASSUME NumbersSaid(graph), NEW rows, Compared(rows), NEW t \in Escalates(rows)
  PROVE  \/ Severity(t[1]) < Severity(t[3])
         \/ /\ Severity(t[1]) = Severity(t[3])
            /\ \E u \in Urgencies(t[1]), v \in Urgencies(t[3]) : u < v
  <1> DEFINE Rises(x) == \/ x[2].severity > x[1].severity
                         \/ x[2].severity = x[1].severity /\ x[2].urgency > x[1].urgency
  <1>1. PICK x \in sequence_within_partitions(rows) :
              Rises(x) /\ t = <<x[1].entity, "escalatesTo", x[2].entity>>
    BY DEF Escalates
  <1>2. x[1] \in FirstRows(rows) /\ x[2] \in FirstRows(rows)
    BY DEF sequence_within_partitions, NextRows
  <1>3. t[1] = x[1].entity /\ t[3] = x[2].entity
    BY <1>1
  <1>4. x[1].severity = Severity(t[1]) /\ x[1].urgency \in Urgencies(t[1])
    BY <1>2, <1>3, FirstRowSpeaks
  <1>5. x[2].severity = Severity(t[3]) /\ x[2].urgency \in Urgencies(t[3])
    BY <1>2, <1>3, FirstRowSpeaks
  <1>6. /\ Severity(t[1]) \in 1..4 /\ Severity(t[3]) \in 1..4
    <2>1. ASSUME NEW r \in FirstRows(rows)
          PROVE  Severity(r.entity) \in 1..4
      <3>1. PICK s \in Worst(r.entity) : SaidIn(r, s) /\ r.severity = Severity(r.entity)
        BY FirstRowSpeaks
      <3>2. s \in Spoken(r.entity)
        BY DEF Worst
      <3> QED
        BY <3>1, <3>2, SpokenNumbers DEF SaidIn
    <2> QED
      BY <1>2, <1>3, <2>1
  <1>7. CASE x[2].severity > x[1].severity
    BY <1>4, <1>5, <1>6, <1>7
  <1>8. CASE x[2].severity = x[1].severity /\ x[2].urgency > x[1].urgency
    BY <1>4, <1>5, <1>8
  <1> QED
    BY <1>1, <1>7, <1>8

\* First rows are in the order of the times their alerts speak at.
LEMMA FirstRowsInTime ==
  ASSUME NumbersSaid(graph), NEW rows, Compared(rows),
         NEW q \in FirstRows(rows), NEW r \in FirstRows(rows)
  PROVE  /\ SpeaksAt(q.entity) \in Nat /\ SpeaksAt(r.entity) \in Nat
         /\ SpeaksAt(q.entity) < SpeaksAt(r.entity) => Before(q.key, r.key)
         /\ Before(q.key, r.key) => SpeaksAt(q.entity) <= SpeaksAt(r.entity)
  <1>1. PICK p \in Worst(q.entity) : SaidIn(q, p) /\ p[2] = SpeaksAt(q.entity)
    BY FirstRowSpeaks
  <1>2. PICK s \in Worst(r.entity) : SaidIn(r, s) /\ s[2] = SpeaksAt(r.entity)
    BY FirstRowSpeaks
  <1>3. p \in Spoken(q.entity) /\ s \in Spoken(r.entity)
    BY DEF Worst
  <1>4. PICK e, f, k, l : /\ e = q.entity[2] /\ f = r.entity[2] /\ k = 4 - p[3] /\ l = 4 - s[3]
    OBVIOUS
  <1>5. PICK n \in Nat : KeyOf(q.key, p[2], e, k, n)
    BY <1>1, <1>4 DEF SaidIn
  <1>6. PICK m \in Nat : KeyOf(r.key, s[2], f, l, m)
    BY <1>2, <1>4 DEF SaidIn
  <1>7. e \in Nat /\ f \in Nat /\ p[2] \in Nat /\ s[2] \in Nat
    BY <1>3, <1>4, SpokenNumbers
  <1>8. k \in Nat /\ l \in Nat
    <2>1. p[3] \in 1..4 /\ s[3] \in 1..4
      BY <1>3, SpokenNumbers
    <2> QED
      BY <1>4, <2>1
  <1>9. Before(q.key, r.key) <=> Precede(p[2], e, k, n, s[2], f, l, m)
    BY <1>5, <1>6, <1>7, <1>8, BeforeByFour
  <1>10. /\ p[2] < s[2] => Precede(p[2], e, k, n, s[2], f, l, m)
         /\ Precede(p[2], e, k, n, s[2], f, l, m) => p[2] <= s[2]
    BY <1>7 DEF Precede
  <1> QED
    BY <1>1, <1>2, <1>7, <1>9, <1>10

\* Two alerts of one place with none between are compared, and a rise is linked.
LEMMA NeighboursAreLinked ==
  ASSUME NumbersSaid(graph), NEW rows, Compared(rows), NEW ab \in Neighbours,
         Severity(ab[1]) < Severity(ab[2])
  PROVE  <<ab[1], "escalatesTo", ab[2]>> \in Escalates(rows)
  <1> DEFINE zones == _alert_geocodes(graph)
             alerts == {a \in Typed(graph, "WeatherAlert") : Spoken(a) # {}}
             In(z) == {a \in alerts : <<a, z>> \in zones}
             firsts == FirstRows(rows)
  <1>1. PICK z \in {x[2] : x \in zones} :
              /\ ab \in In(z) \X In(z) /\ SpeaksAt(ab[1]) < SpeaksAt(ab[2])
              /\ \A c \in In(z) : ~(SpeaksAt(ab[1]) <= SpeaksAt(c)
                                    /\ SpeaksAt(c) <= SpeaksAt(ab[2]) /\ c \notin {ab[1], ab[2]})
    BY DEF Neighbours
  <1>2. ab[1] \in In(z) /\ ab[2] \in In(z)
    BY <1>1
  <1>3. \A c \in In(z) : IsAlert(c, z) /\ Spoken(c) # {}
    BY DEF IsAlert
  <1>4. \A c : IsAlert(c, z) /\ Spoken(c) # {} => c \in In(z)
    BY DEF IsAlert
  <1> HIDE DEF In
  <1>5. PICK q \in firsts : q.entity = ab[1] /\ q.part = z
    BY <1>2, <1>3, SomeFirstRow
  <1>6. PICK r \in firsts : r.entity = ab[2] /\ r.part = z
    BY <1>2, <1>3, SomeFirstRow
  <1>7. Before(q.key, r.key)
    BY <1>1, <1>5, <1>6, FirstRowsInTime
  <1>8. ASSUME NEW s \in firsts, s.part = z, Before(q.key, s.key), Before(s.key, r.key)
        PROVE  FALSE
    <2>1. s \in rows /\ q \in rows /\ r \in rows
      BY DEF FirstRows
    <2>2. s.entity \in In(z)
      <3>1. IsRow(s)
        BY <2>1 DEF Compared
      <3> QED
        BY <1>4, <1>8, <3>1 DEF IsRow
    <2>3. SpeaksAt(ab[1]) <= SpeaksAt(s.entity)
      BY <1>5, <1>8, FirstRowsInTime
    <2>4. SpeaksAt(s.entity) <= SpeaksAt(ab[2])
      BY <1>6, <1>8, FirstRowsInTime
    <2>5. s.entity \in {ab[1], ab[2]}
      BY <1>1, <2>2, <2>3, <2>4
    <2>6. CASE s.entity = q.entity
      BY <1>5, <1>8, <2>1, <2>6 DEF FirstRows
    <2>7. CASE s.entity = r.entity
      BY <1>6, <1>8, <2>1, <2>7 DEF FirstRows
    <2> QED
      BY <1>5, <1>6, <2>5, <2>6, <2>7
  <1> HIDE DEF firsts
  <1> DEFINE x == <<q, r>>
  <1>9. x \in firsts \X firsts /\ x[1] = q /\ x[2] = r
    OBVIOUS
  <1> HIDE DEF x
  <1>10. x \in NextRows(firsts)
    BY <1>5, <1>6, <1>7, <1>8, <1>9 DEF NextRows
  <1>11. ab[1] # ab[2]
    BY <1>1, <1>5, <1>6, FirstRowsInTime DEF firsts
  <1>12. x \in sequence_within_partitions(rows)
    BY <1>5, <1>6, <1>9, <1>10, <1>11 DEF sequence_within_partitions, firsts
  <1>13. x[2].severity > x[1].severity
    <2>1. q.severity = Severity(ab[1]) /\ r.severity = Severity(ab[2])
      BY <1>5, <1>6, FirstRowSpeaks DEF firsts
    <2> QED
      BY <1>9, <2>1
  <1>14. <<ab[1], "escalatesTo", ab[2]>> = <<x[1].entity, "escalatesTo", x[2].entity>>
    BY <1>5, <1>6, <1>9
  <1> QED
    BY <1>12, <1>13, <1>14 DEF Escalates

\* Neighbours are pairs of alerts that have blocks.
LEMMA NeighboursArePairs ==
  ASSUME NEW ab \in Neighbours
  PROVE  ab = <<ab[1], ab[2]>>
  <1> DEFINE zones == _alert_geocodes(graph)
             alerts == {a \in Typed(graph, "WeatherAlert") : Spoken(a) # {}}
             In(z) == {a \in alerts : <<a, z>> \in zones}
  <1>1. PICK z \in {x[2] : x \in zones} : ab \in In(z) \X In(z)
    BY DEF Neighbours
  <1> HIDE DEF In
  <1> QED
    BY <1>1

LEMMA NeighboursHaveBlocks ==
  ASSUME NEW N, SameAlerts(N, graph), NEW ab \in Neighbours
  PROVE  _build_alert_info(N) # {}
  <1> DEFINE zones == _alert_geocodes(graph)
             alerts == {a \in Typed(graph, "WeatherAlert") : Spoken(a) # {}}
             In(z) == {a \in alerts : <<a, z>> \in zones}
  <1>1. PICK z \in {x[2] : x \in zones} : ab \in In(z) \X In(z)
    BY DEF Neighbours
  <1>2. ab[1] \in In(z)
    BY <1>1
  <1>3. ab[1] \in Typed(graph, "WeatherAlert") /\ Spoken(ab[1]) # {}
    BY <1>2
  <1>4. PICK s : s \in Spoken(ab[1])
    BY <1>3
  <1>5. PICK i \in Rel(graph, "hasInfo") : i[1] = ab[1]
    BY <1>4, SpokenIs
  <1> QED
    BY <1>3, <1>5 DEF _build_alert_info, SameAlerts, AlertFacts

LEMMA PairedByRel ==
  ASSUME NEW G, NEW p, NEW a, NEW b, <<a, p, b>> \in G
  PROVE  <<a, b>> \in Rel(G, p)
  <1> DEFINE t == <<a, p, b>>
  <1>1. t \in G /\ t[1] = a /\ t[2] = p /\ t[3] = b
    OBVIOUS
  <1> HIDE DEF t
  <1> QED
    BY <1>1 DEF Rel

\* What is linked as an escalation rises, and of two alerts of one place
\* with none between a rise in severity is always linked, whichever of its blocks
\* the shuffle puts first.
THEOREM AlertsRiseInEarnest == Spec => []EscalationIsRealRise
  <1>1. ASSUME PhaseInv, LinkersAreIn, JobIsGiven, IInv
        PROVE  EscalationIsRealRise
    <2> SUFFICES ASSUME stage = "enriched"
                 PROVE  EscalationIsRealRise
      BY DEF EscalationIsRealRise, Enriched
    <2> DEFINE N == _noaa_triples(Loaded)
               linked == Rel(graph, "escalatesTo")
    <2>1. stage # Idle /\ OfTriplesMode
      BY <1>1 DEF IInv, StageAndMode, OfTriplesMode, Idle
    <2>2. SourcesSpeakForThemselves
      BY <1>1, <2>1, LoadedIsTheSources
    <2>3. AfterOntology(graph)
      BY <1>1 DEF PhaseInv
    <2>4. SameAlerts(N, graph)
      BY <2>3, AlertsAreAsLoaded
    <2>5. NumbersSaid(graph)
      BY <1>1, <2>1, <2>3, AlertsSayNumbers
    <2>6. \A rows \in TieBreaks(Escalatable(N)) : Compared(rows)
      BY <2>4, <2>5, BrokenRowsAreCompared
    <2>7. ASSUME NEW p \in linked
          PROVE  \/ Severity(p[1]) < Severity(p[2])
                 \/ /\ Severity(p[1]) = Severity(p[2])
                    /\ \E u \in Urgencies(p[1]), v \in Urgencies(p[2]) : u < v
      <3>1. PICK t \in graph : t[2] = "escalatesTo" /\ p = <<t[1], t[3]>>
        BY DEF Rel
      <3>2. PICK rows \in TieBreaks(Escalatable(N)) : t \in Escalates(rows)
        BY <2>2, <2>3, <3>1, EscalationsAreTheLinkers
      <3>3. p[1] = t[1] /\ p[2] = t[3]
        BY <3>1
      <3> QED
        BY <2>5, <2>6, <3>2, <3>3, LinkedRises
    <2>8. ASSUME Whole("noaa"), NEW ab \in Neighbours, Severity(ab[1]) < Severity(ab[2])
          PROVE  ab \in linked
      <3>1. PICK new \in NoaaEnrichments(Loaded) : new \subseteq graph
        <4>1. REGISTERED[4] = "noaa" /\ 4 \in 1..4
          BY DEF REGISTERED
        <4> QED
          BY <1>1, <2>8, <4>1, GivenIsInTheGraph DEF Gives
      <3>2. _build_alert_info(N) # {}
        BY <2>4, <2>8, NeighboursHaveBlocks
      <3>3. PICK rows \in TieBreaks(Escalatable(N)) : Escalates(rows) \subseteq new
        BY <3>1, <3>2 DEF NoaaEnrichments, _link_severity_escalations
      <3>4. <<ab[1], "escalatesTo", ab[2]>> \in graph
        BY <2>5, <2>6, <2>8, <3>1, <3>3, NeighboursAreLinked
      <3>5. ab = <<ab[1], ab[2]>>
        BY <2>8, NeighboursArePairs
      <3> QED
        BY <3>4, <3>5, PairedByRel
    <2> HIDE DEF linked
    <2>9. Whole("noaa") => {ab \in Neighbours : Severity(ab[1]) < Severity(ab[2])} \subseteq linked
      BY <2>8
    <2> QED
      BY <2>7, <2>9 DEF EscalationIsRealRise, linked
  <1>2. Init => QueueOfSettings /\ JobIsGiven /\ LinkersAreIn
    BY SettingsAssumption, NothingIsGivenYet DEF Init, QueueOfSettings, JobIsGiven, Idle
  <1> QED
    BY <1>1, <1>2, StepQueue, StepJob, GivenStaysIn, Invariance, GraphIsMadeInPhases, PTL DEF Spec
=============================================================================
