------------------------------- MODULE GraphJob ------------------------------
(***************************************************************************)
(* build_graph.py with graph/persistence.py: jobs run one after another in *)
(* one work directory. A job loads and enriches triples, stores them under *)
(* its time period, writes the query tables of its day and the graph, or   *)
(* builds a graph from triples that were stored before. It may end at any  *)
(* point, by an exception or by being killed.                              *)
(*                                                                         *)
(* What is in the work directory is the number of the job that wrote it.   *)
(***************************************************************************)
EXTENDS Enrichment, JobInputs, Integers

CONSTANTS
    Settings,         \* a name -> what a job may be given
    Queues,           \* sequences of sets of names, a set for each job in turn
    ELSEWHERE_DAY,    \* the day of the triples --enriched_input_path names
    LATEST_PARTITION  \* the directory of the newest names, and a period's when so named

ASSUME SettingsAssumption ==
    /\ \A s \in DOMAIN Settings :
          /\ {"mode", "period", "overwrite", "name", "given", "paths", "overrides", "archive", "s3_key"}
                \subseteq DOMAIN Settings[s]
          /\ Settings[s].mode \in MODES
          /\ Settings[s].period # 0 /\ Settings[s].overwrite \in BOOLEAN
          /\ IsFiniteSet(Settings[s].overrides)
          /\ Settings[s].s3_key # << >> => Settings[s].s3_key[1] # 0
    /\ Queues \subseteq Seq(SUBSET DOMAIN Settings)

\* namespaces.py: a source's terms are under ontology/<source>/, what the
\* pipeline mints is not. A document states no link to a hub, no period of an
\* entity, no alert that escalates, nothing that precedes another, no hub's class
\* and no period's, nothing of a node the pipeline names, and no class under
\* another (ontology_mapper.py: no source declares one).
MintedKinds == {"region", "period"}
IsOfASource(t) ==
    /\ t[2] \notin HubLinks \cup {"observedInPeriod", "subClassOf", "escalatesTo", "precedes"}
    /\ t[2] = "a" => t[3] \notin {<<"class", c>> : c \in Hubs \cup {"SourceDay"}}
    /\ KindOf(t[1]) \notin MintedKinds
    /\ t[2] = "sameAs" => KindOf(t[3]) \notin MintedKinds
ASSUME VocabulariesAssumption ==
    \A s \in DOMAIN Settings : \A p \in Settings[s].paths : \A d \in p.docs : \A r \in d.rows :
       "t" \in DOMAIN r /\ IsOfASource(r.t)

\* A document's nodes are of its own source, and what companies are known by is
\* stated by one source each: a snapshot, which is of one symbol, by the market's,
\* an issuer's CIK and a holding's CUSIP by the filings. Only the alerts' feed says
\* when an alert was sent and how severe it is, in a rank of SEVERITY_HIERARCHY (a
\* severity it does not rank is lost in the join, as if it were not stated). What
\* is chained is of one namespace each: the filings that name an owner or an
\* issuer, the snapshots of a symbol, the alerts; their dates and times are numbers.
UrisOf(kind) == {kind} \X Nat
IsOf(source, t) ==
    /\ \/ KindOf(t[1]) \in SourceKinds[source]
       \/ source = "sec" /\ KindOf(t[1]) = "raw" /\ t[1][2] \in CIK_KEYED_KINDS
    /\ t[2] = "symbol" => source = "market" /\ KindOf(t[3]) \in {"sym", "occ"}
    /\ t[2] \in {"hasIssuerCik", "hasCusip"} => source = "sec"
    /\ t[2] = "hasIssuerCik" =>
          \/ KindOf(t[3]) = "cik" /\ t[3][2] \in Nat
          \/ KindOf(t[3]) = "raw" /\ t[3][2] = "cik" /\ t[3][3] \in Nat
    /\ t[2] \in {"hasInfo", "hasSentTime", "hasSeverity"} => source = "noaa"
    /\ t[2] \in {"hasReportingOwner", "hasIssuer", "hasPeriodOfReport", "hasDateValue"} => source = "sec"
    /\ t[2] \in {"hasReportingOwner", "hasIssuer"} => t[1] \in UrisOf("filing")
    /\ t[2] = "symbol" => t[1] \in UrisOf("quote")
    /\ t[2] = "hasInfo" => t[1] \in UrisOf("alert")
    /\ t[2] \in {"captureTime", "hasSentTime"} => KindOf(t[3]) = "time" /\ t[3][2] \in Nat
    /\ t[2] \in {"hasPeriodOfReport", "hasDateValue"} /\ KindOf(t[3]) = "date" =>
          t[3][2] \in Nat /\ t[3][3] \in Nat /\ t[3][4] \in Nat
    /\ t[2] = "hasSeverity" => t[3][2] \in 1..4
ASSUME SourcesAssumption ==
    /\ IsFiniteSet(DOMAIN SourceKinds) /\ {"sec", "market"} \subseteq DOMAIN SourceKinds
    /\ CIK_KEYED_KINDS \subseteq SourceKinds["sec"]
    /\ \A s, r \in DOMAIN SourceKinds : s # r => SourceKinds[s] \cap SourceKinds[r] = {}
    /\ \A s \in DOMAIN SourceKinds : SourceKinds[s] \cap {"class", "property", "raw", "date"} = {}
    /\ SourceKinds["sec"] \subseteq SecKinds
    /\ {"filing", "quote", "alert"} \cap DOMAIN BlsKinds = {}
    /\ \A s \in DOMAIN Settings :
          /\ IsFiniteSet(Settings[s].paths)
          /\ \A p \in Settings[s].paths : IsFiniteSet(p.docs) /\ \A d \in p.docs : IsFiniteSet(d.rows)
    /\ \A s \in DOMAIN Settings : \A p \in Settings[s].paths : Matches(p) =>
          /\ match_path(p) \in DOMAIN SourceKinds
          /\ \A d \in p.docs : \A r \in d.rows : IsOf(match_path(p), r.t)
    /\ \A s \in DOMAIN Settings : \A p, q \in Settings[s].paths : \A d \in p.docs, e \in q.docs :
          \A r \in d.rows, o \in e.rows :
             r.t[2] = "symbol" /\ o.t[2] = "symbol" /\ r.t[1] = o.t[1] => r.t[3] = o.t[3]
ASSUME StoresAssumption ==
    \A f \in Stores : \A k \in DOMAIN f : \A row \in f[k].rows : row.cik \in Int

VARIABLES
    queue,            \* the jobs to come
    past,             \* the jobs so far, AsTold
    work,             \* <<artifact, period, day or file name>> -> the job that wrote it
    wrote,            \* the artifacts of the job that runs
    graphs,           \* graph file -> what the graph was built from, and its day
    stated,           \* what a pyg_only job read of its input, [of, day]
    manifests,        \* [job, wrote]
    undescribed        \* the jobs that lost their descriptor

directory == <<work, wrote, graphs, manifests>>
jobs == <<queue, past, stated, undescribed>>
vars == <<stage, job, enrichment, store, directory, jobs>>

Half == -1            \* being written when the job ended
Idle == "start"
NoJob == [name |-> "none"]
Nothing == [of |-> 0, day |-> 0]
This == Len(past)

At(key) == IF key \in DOMAIN work THEN work[key] ELSE 0
Parquet == <<"parquet", job.period, 0>>
Descriptor == <<"descriptor", job.period, 0>>
\* A file name is <<stem, extension>>, and a period what period_partition makes
\* of it. What goes with a graph is filed under its stem, the S3 copies under the
\* key they are given, and the newest names where a period so called has its
\* metadata (of which they are one file).
S3Artifacts == {"s3_pt", "s3_metadata", "s3_checksums"}
FileOf(j, artifact) ==
    LET key == IF artifact \in S3Artifacts THEN j.s3_key
               ELSE <<IF artifact = "latest" THEN LATEST_PARTITION ELSE j.period, j.name>>
    IN  <<IF artifact = "latest" THEN "metadata" ELSE artifact, key[1],
          IF artifact \in {"pt", "s3_pt"} THEN key[2] ELSE key[2][1]>>
File(artifact) == FileOf(job, artifact)
\* Under its day alone: what the triples are of, not when they are filed.
Table(table) == <<table, 0, job.day>>

Init ==
    /\ stage = Idle /\ job = NoJob
    /\ graph = {} /\ new_dfs = {} /\ failed = {}
    /\ store \in Stores
    /\ queue \in Queues /\ past = << >> /\ work = << >> /\ wrote = {} /\ graphs = << >>
    /\ stated = Nothing /\ manifests = {} /\ undescribed = {}

\* ------------------------------------------------------------------ the start
AsTold(j) ==
    [mode |-> j.mode, day |-> j.day, period |-> j.period, overwrite |-> j.overwrite,
     name |-> j.name, archive |-> j.archive, s3_key |-> j.s3_key]
ParseArgs(settings) ==
    /\ stage = Idle
    /\ ~JobConfigRefuses(settings)
    /\ job' = JobConfig(settings)
    /\ past' = Append(past, AsTold(job'))
    /\ queue' = Tail(queue)
    /\ stage' = "occupancy"
    /\ UNCHANGED <<enrichment, store, directory, stated, undescribed>>

\* Mutant: the triples alone are looked at.
OccupiedByTriples == job.mode \in {"full", "enrichment_only"} /\ At(Parquet) > 0
\* What the mode writes, in place of a finished run's: the triples' _SUCCESS,
\* the graph's file whether or not it is whole.
Occupied ==
    \/ job.mode \in {"full", "enrichment_only"} /\ At(Parquet) > 0
    \/ job.mode \in {"full", "pyg_only"} /\ At(File("pt")) # 0

check_work_dir_occupancy ==
    /\ stage = "occupancy"
    /\ stage' = IF Occupied /\ ~job.overwrite THEN "failed"
                ELSE IF job.mode = "pyg_only" THEN "descriptor" ELSE "load"
    /\ UNCHANGED <<job, enrichment, store, directory, jobs>>

\* No column, or no triple, ends the job.
LoadSourceTriples ==
    /\ stage = "load"
    /\ LET loaded == IF ColumnsAreThere(job) THEN load_source_triples(job) ELSE {}
       IN  /\ graph' = loaded
           /\ stage' = IF loaded = {} THEN "failed"
                       ELSE IF job.mode = "parse_only" THEN "manifest" ELSE FirstLinker(1)
    /\ UNCHANGED <<job, new_dfs, failed, store, directory, jobs>>

\* -------------------------------------------------- the triples and their day
Put(keys, writer) == [k \in keys \cup DOMAIN work |-> IF k \in keys THEN writer ELSE work[k]]
Write(keys, next) ==
    /\ work' = Put(keys, This)
    /\ wrote' = wrote \cup keys
    /\ stage' = next

SaveEnrichedParquet ==
    /\ stage = "enriched"
    /\ Write({Parquet}, "describe")
    /\ UNCHANGED <<job, enrichment, store, graphs, manifests, jobs>>

\* A descriptor that cannot be written is only logged: the one before stays,
\* or what was written of this one.
TablesOrNot ==
    IF job.tables /\ job.day # 0 THEN "tables"
    ELSE IF job.mode = "full" THEN "build" ELSE "manifest"
SaveDatasetDescriptor ==
    /\ stage = "describe"
    /\ Write({Descriptor}, TablesOrNot)
    /\ UNCHANGED <<job, enrichment, store, graphs, manifests, jobs>>
DescriptorLost ==
    /\ stage = "describe"
    /\ \/ UNCHANGED work
       \/ work' = Put({Descriptor}, Half)
    /\ undescribed' = undescribed \cup {This}
    /\ stage' = TablesOrNot
    /\ UNCHANGED <<job, enrichment, store, wrote, graphs, manifests, queue, past, stated>>

\* A descriptor that is not there, or not whole, says nothing. dataset.json
\* and the triples are read apart.
SaidDay == IF job.elsewhere THEN ELSEWHERE_DAY
           ELSE IF At(Descriptor) > 0 THEN past[At(Descriptor)].day ELSE 0
\* Mutant: what the job was given stands.
LoadDescriptorGivenFirst ==
    /\ stage = "descriptor"
    /\ stated' = [of |-> 0, day |-> resolve_pyg_only_day(job.given, SaidDay)]
    /\ stage' = "read"
    /\ UNCHANGED <<job, enrichment, store, directory, queue, past, undescribed>>
LoadDatasetDescriptor ==
    /\ stage = "descriptor"
    /\ IF DaysConflict(SaidDay, job.given)
       THEN stage' = "failed" /\ UNCHANGED stated
       ELSE /\ stated' = [of |-> 0, day |-> resolve_pyg_only_day(SaidDay, job.given)]
            /\ stage' = "read"
    /\ UNCHANGED <<job, enrichment, store, directory, queue, past, undescribed>>
LoadEnrichedParquet ==
    /\ stage = "read"
    /\ IF job.elsewhere \/ At(Parquet) > 0
       THEN /\ stated' = [stated EXCEPT !.of = IF job.elsewhere THEN 0 ELSE At(Parquet)]
            /\ stage' = "build"
       ELSE stage' = "failed" /\ UNCHANGED stated
    /\ UNCHANGED <<job, enrichment, store, directory, queue, past, undescribed>>

\* ----------------------------------------------------------- the query tables
\* The frames the tables are written from, each computed once.
Frames ==
    LET N == build_node_id_table(graph)
        E == resolve_edges(graph, N)
        days == days_only_left_out_nodes_dated(E, N)
        kept == kept_node(N, days)
    IN  [nodes |-> N, edges |-> E, days |-> days, kept |-> kept]
NodeTypes(f) == {f.nodes[u] : u \in DOMAIN f.nodes}
TableEdgeTypes(f) == {k[2] : k \in count_edge_types(write_edges(f.edges, f.kept), f.nodes)}

WriteNodes ==
    /\ stage = "tables"
    /\ IF check_registered_names(NodeTypes(Frames), job.unregistered)
       THEN Write({Table("nodes")}, "edges")
       ELSE stage' = "failed" /\ UNCHANGED <<work, wrote>>
    /\ UNCHANGED <<job, enrichment, store, graphs, manifests, jobs>>

\* The names are looked at when the nodes are already written.
WriteEdges ==
    /\ stage = "edges"
    /\ IF check_registered_names(TableEdgeTypes(Frames), job.unregistered)
       THEN Write({Table("edges"), Table("edge_types")}, "literals")
       ELSE stage' = "failed" /\ UNCHANGED <<work, wrote>>
    /\ UNCHANGED <<job, enrichment, store, graphs, manifests, jobs>>

\* No snapshots, no table of them: an earlier one stays.
WriteLiterals ==
    /\ stage = "literals"
    /\ LET f == Frames
           quoted == SnapshotColumns(literals(graph, f.kept), f.nodes)
       IN  Write({Table("facts"), Table("entities")}
                 \cup (IF quoted = {} THEN {} ELSE {Table("snapshots")}), "store")
    /\ UNCHANGED <<job, enrichment, store, graphs, manifests, jobs>>
WriteGraphStore ==
    /\ stage = "store"
    /\ Write({Table("graph")}, "feeds")
    /\ UNCHANGED <<job, enrichment, store, graphs, manifests, jobs>>

\* A feed that cannot be read is left out, and an earlier table of it stays.
WriteFeeds ==
    /\ stage = "feeds"
    /\ Write((IF read_splits(job.splits, job.day) = <<>> THEN {} ELSE {Table("splits")})
             \cup (IF read_companyfacts(job.companyfacts, job.day) = <<>> THEN {}
                   ELSE {Table("companyfacts")})
             \cup (IF read_minute_quotes(job.minutes) = <<>> THEN {} ELSE {Table("minute_quotes")}),
             IF job.mode = "full" THEN "build" ELSE "manifest")
    /\ UNCHANGED <<job, enrichment, store, graphs, manifests, jobs>>

\* ------------------------------------------------------- the graph's artifacts
\* build_hetero_data, over the triples in hand or those read.
Build ==
    /\ stage = "build"
    /\ LET f == Frames
       IN  stage' = IF check_registered_names(NodeTypes(f) \cup {t[2] : t \in f.edges},
                                              job.unregistered)
                    THEN "pt" ELSE "failed"
    /\ UNCHANGED <<job, enrichment, store, directory, jobs>>

SavePyg ==
    /\ stage = "pt"
    /\ Write({File("pt")}, "metadata")
    /\ graphs' = [f \in DOMAIN graphs \cup {File("pt")} |->
                      IF f # File("pt") THEN graphs[f]
                      ELSE IF job.mode = "full" THEN [of |-> This, day |-> job.day] ELSE stated]
    /\ UNCHANGED <<job, enrichment, store, manifests, jobs>>

\* The rest of save_final_artifacts, in its order; checksums go in last. The
\* newest names are not written where they are the period's own.
ArtifactsInOrder == <<"metadata", "latest", "node_index", "checksums",
                      "s3_pt", "s3_metadata", "s3_checksums">>
AfterArtifact(i) ==
    IF i = 7 \/ (i = 4 /\ ~job.archive) THEN "manifest"
    ELSE ArtifactsInOrder[IF i = 1 /\ job.period = LATEST_PARTITION THEN 3 ELSE i + 1]
SaveArtifact(i) ==
    /\ stage = ArtifactsInOrder[i]
    /\ Write({File(ArtifactsInOrder[i])}, AfterArtifact(i))
    /\ UNCHANGED <<job, enrichment, store, graphs, manifests, jobs>>

\* -------------------------------------------------------------------- the end
Cleared ==
    /\ stage' = Idle /\ job' = NoJob
    /\ graph' = {} /\ new_dfs' = {} /\ failed' = {} /\ wrote' = {}
    /\ stated' = Nothing
    /\ UNCHANGED <<store, queue, past, graphs>>

\* A manifest that cannot be written is only logged.
SaveJobManifest ==
    /\ stage = "manifest"
    /\ \/ manifests' = manifests \cup {[job |-> This, wrote |-> wrote]}
       \/ UNCHANGED manifests
    /\ Cleared
    /\ UNCHANGED <<work, undescribed>>

\* What the job writes at its stage is left half written, or is untouched.
BeingWritten ==
    CASE stage = "enriched" -> {Parquet}
      [] stage = "describe" -> {Descriptor}
      [] stage = "tables" -> {Table("nodes")}
      [] stage = "edges" -> {Table("edges")}
      [] stage = "literals" -> {Table("facts")}
      [] stage = "store" -> {Table("graph")}
      [] stage \in {"pt"} \cup {ArtifactsInOrder[i] : i \in 1..7} -> {File(stage)}
      [] OTHER -> {}
JobEnds ==
    /\ stage # Idle
    /\ \/ UNCHANGED work
       \/ work' = Put(BeingWritten, Half)
    /\ undescribed' = undescribed \cup (IF stage = "describe" THEN {This} ELSE {})
    /\ Cleared
    /\ UNCHANGED manifests

RunJob ==
    \/ \E s \in IF queue = << >> THEN {} ELSE Head(queue) : ParseArgs(Settings[s])
    \/ check_work_dir_occupancy \/ LoadSourceTriples
    \/ SaveEnrichedParquet \/ SaveDatasetDescriptor \/ DescriptorLost
    \/ LoadDatasetDescriptor \/ LoadEnrichedParquet
    \/ WriteNodes \/ WriteEdges \/ WriteLiterals \/ WriteGraphStore \/ WriteFeeds
    \/ Build \/ SavePyg \/ (\E i \in 1..7 : SaveArtifact(i))
    \/ SaveJobManifest \/ JobEnds

EnrichGraph == RunEnrichment /\ UNCHANGED <<directory, jobs>>
Next == RunJob \/ EnrichGraph
Spec == Init /\ [][Next]_vars

\* ---------------------------------------------------------------- properties
\* The tables keep each other's company: an edge joins two nodes that are kept
\* and the store names no node that a table left out; a day is left out when
\* only left-out facts are dated by it, and a unified day only with every day
\* it stands for ("nothing else points at them", tables.py:305).
TablesAgree ==
    stage = "tables" =>
    LET f == Frames
        left == DOMAIN f.nodes \ f.kept
        stored == store_triples(graph, f.nodes, f.days)
        source == NodesOf(f.nodes, {SOURCE_DAY_TYPE})
        unified == NodesOf(f.nodes, {UNIFIED_DAY_TYPE})
        DatedBy(d) == {t[1] : t \in {e \in f.edges : e[3] = d}} \ unified
        StandsFor(u) == {t[3] : t \in {e \in f.edges : e[1] = u}} \cap source
    IN  /\ \A t \in stored : t[1] \notin left /\ t[3] \notin f.days
        /\ \A d \in source : DatedBy(d) # {} => (d \in left <=> DatedBy(d) \cap f.kept = {})
        /\ \A u \in unified : StandsFor(u) # {} => (u \in left <=> StandsFor(u) \cap f.kept = {})
        /\ write_facts(literals(graph, f.kept), f.nodes) \subseteq stored

\* Where a job's graph and what goes with it are filed.
GraphPlaces(j) ==
    {FileOf(j, a) : a \in {x \in {"pt"} \cup {ArtifactsInOrder[i] : i \in 1..7} :
                              x \in S3Artifacts => j.archive}}
Rewritten(key, j) ==
    \E k \in (j + 1)..This :
       \/ past[k].overwrite
       \/ key[2] = 0 /\ past[k].period # past[j].period
       \/ /\ past[k].mode \in {"full", "pyg_only"} /\ key \in GraphPlaces(past[k])
          /\ <<past[k].period, past[k].name>> # <<past[j].period, past[j].name>>

\* What a manifest says a job wrote is still that job's, and whole, until a
\* job is told to overwrite. Not what two jobs file under one name although
\* the check sees no finished run: the tables of a day another period's job
\* has too; and of two graphs, of other periods or file names, the newest
\* names, an S3 key both were given or that is the other's own, and what is
\* named after file names that differ in their extension alone.
FinishedRunsKeepTheirArtifacts ==
    \A m \in manifests : \A key \in m.wrote : At(key) = m.job \/ Rewritten(key, m.job)

\* A graph states the day of the triples it was built from, over runs that
\* ended early between writing triples and saying what they are, except where
\* the run that wrote them lost its word of them.
GraphStatesItsDay ==
    \A f \in DOMAIN graphs :
        LET g == graphs[f]
        IN  \/ g.of = 0
            \/ g.of \in undescribed
            \/ past[g.of].day \in {0, g.day}
=============================================================================
