# Verification of pyg-knowledge-graph-builder

TLA+ modules, TLC configurations and TLAPS proofs for the graph builder in `src/`. The code is the
reference: every action is a translation of one operation, and `PROJECT.json` ("map") names the lines each
definition stands for. `tlc -config X.cfg M` repeats a run, `tlapm M.tla` a proof.

## 1. The system

A night starts from a timer. `bin/daily_run.sh` picks the day, makes a run directory, stages the day's
source files (`bin/stage_sources.sh`), starts `bin/run_cluster_notebook.sh`, waits for it, publishes, archives
and prunes. The launcher runs a notebook, the notebook submits Spark jobs one after the other, and each job is
`spark_jobs/build_graph.py`: parse the day's Turtle, enrich the triples, write query tables, build a
`HeteroData` graph with its metadata.

| Part | State it keeps | Operations | Talks to |
|---|---|---|---|
| Publishing (`publish_run.py --upload`, `--upload-tables`) | the published destination: run folders, `index.json`, day tables, day markers; `publish.done` in the run | list, sync, check, put index, guard, sync parts, check, put marker | the job, whose files it sends; the night, which reads `publish.done` and asks the destination |
| Archive (`publish_run.py --archive`) | the archive: run folders, table partitions, one marker per day | check the run, remove a copy, copy, check, put marker, trim | the night and its prune |
| Night schedule (`daily_run.sh`) | run directories, work directories, a lock | stage, gate on memory, launch, publish tables early, publish, archive, prune | everything below |
| Launcher (`run_cluster_notebook.sh`) | `run.done`, `killed-by`, `stalls-captured`, the checkpoints, a lock on the run directory | sweep samplers, launch, watch the gateway, note captures, record, sweep | notebook process, watchdog |
| Stall watchdog (`stall_watchdog.py`) | per stage: completed count and when it last changed | poll, classify, capture | Spark's REST interface, the launcher through the capture directory |
| Notebook (`multi_experiment.ipynb`) | one record per submission | preflight, submit with a cap, inspect | `submit_spark_job.sh` |
| Source staging (`stage_sources.sh`) | the mirror and the store of source files | list, compare, copy from the store or from afar, save, verify | the night |
| Graph job (`build_graph.py`, `graph/`) | enriched Parquet and its descriptor, job manifests, tables, the graph with metadata and checksums | load, enrich, write tables, build, save | publishing reads what it wrote |
| Source registry (`sources/`) | constants: a source's paths, linkers, feeds | match a path, check the SEC feed, load constituents | the graph job, the enrichment |
| Enrichment (`enrichment/`) | one triples DataFrame that grows by phases; the failures so far | link within each source (four linkers), union, unify periods, link across sources, map ontologies | the graph job; the constituents files, read three times |
| Query tables (`graph/tables.py`, `graph_store.py`, `splits.py`, ...) | one folder per table and day | choose the nodes, edges, facts, snapshots and triples of a day, copy the feeds | the graph job, whose triples they are; publishing |
| Node and edge mapping (`pyg_builder/node_mapper.py`, `edge_mapper.py`, `constructor.py`) | node id table, resolved edges | canonical type, ids, join, collect in chunks, assemble | feature extraction |
| Feature extraction (`pyg_builder/`) | sparse entries on executors, dense tensors on the driver | place in slots, collect in batches or chunks, trim | constructor, metadata |
| Metadata writer | the metadata of a graph | register, lay out, checksum | consumers of a run |

What is hard here, and what would make each part correct:

- **Publishing** has no delete and no lock of its own, and every call can fail after it took effect. A run
  or a day is published when its marker is listed, so a marker must only ever stand for something whole, of one
  run, that was finished before it was sent, and must go on standing for it. Exit codes tell the operator and the
  prune what happened. Two runs of one day meet below the same prefix.
- **The archive** does delete, file by file, and may stop between any two files.
- **The night** decides from listings made one after the other whether a run may be deleted. Days can be
  built again, out of order, by hand. The archive keeps a number of days, the work disk a number of runs.
- **The launcher** runs beside a notebook, a network guard, a watchdog per submission and an operator, any of
  which may go first. What it finds in its directory may be an earlier attempt's.
- **Staging** resumes, checks by size and count, and reads from a store other nights write.
- **The graph job** leaves artefacts that a later job or the publisher takes as finished by a marker or a count.
  Triples and the descriptor that says what day they are of are written one after the other.
- **The enrichment** joins rows that may come several times, in any order, from sources that date and name things
  differently: a chain must not depend on the order of rows, and two phases must read the same thing the same way.
- **The query tables** are cut from one set of triples by four writers that must agree on what is left out.
- **The builder** aligns rows of independent Spark jobs by order alone, and splits collects by budgets.

`PROJECT.json` lists these as hazards, each at its line.

## 2. What is modelled

### Publish, PublishedView

One process per run (`pc[r]`), one variable per fact a listing can show: `folder[r][f]` and `parts[r][p]` are
"absent", "wrong" (short or of another moment) or "right", `index[r]` and `marker[d]` are what vouches for them.
Steps are the calls of `publish()` in their order: `ListRun`, `SendFile`, `SendEnds`, `CheckRun`, `PutIndex`,
`VerifyIndex`, then for the tables `AskDay`, `GuardDay`, `SendPart`, `SendPartsEnds`, `CheckDay`, `PutMarker`.
Every call may fail before or after it took effect; a sync may stop between files and leave one short. `Job`
writes the tables and ends the run while `--upload-tables` may be looking. A marker put with failure reported may have
been put. `MaxFaults` bounds failures and kills.

`PublishedView` is what a reader who waits for markers is promised: a run appears whole, a day appears whole and
of one run, in one step, and stays. `ImplementsView` is the refinement.

### Archive, ArchiveShelf

The drive (`folder`, `parts`, `marker`), one command at a time. `Start` makes the checks and decides whether a
copy has to go first; `Unmark`, `RemovePart`, `TablesRemoved`, `RemoveRunFile`, `RunRemoved` are the removal;
`CopyFile`, `CopyPart`, `CopyEnds`, `Check`, `PutMarker` the copy; `Trim`, `TrimNext` the days beyond
`KeepDays`. `Fails` and `Crash` may come anywhere. A copied graph may be spoiled: the right size, wrong bytes.
`ArchiveShelf` is what a reader of marked days sees.

### Nightly

Run directories are numbered, each of a day, each at a stage: made, started (its `run-config.txt` exists), built,
published. The archive is abstracted to which days are marked, and its three effects (`ArchiveTakesOut`,
`ArchivePuts`, `ArchiveTrims`) are separate steps because a night may die between them. The prune looks at one run directory
at a time, newest first, and counts. `PublishByHand` and `ArchiveByHand` are the operator.

### Launcher

One run directory and the attempts made in it. `Launch` is everything `run_cluster_notebook.sh` does before its wait
loop; `NoteCaptures`, `RunnerGone`, `Records`, `Sweeps` are the loop and what follows it. `runners`, `guards` and
`samplers` are the attempts whose process lives, and all of them hold the descriptor of the lock (`LockFree`). The runner
executes cells (`RunnerStarts`, `Preflight`, `Submit`, `EndsLeg`, `NotebookEnds`). Its `notebook.printed` has an entry for each leg
whose `=== label` header was printed: "ok", "failed", or `NoLine` for a leg without a status line. A leg that is submitted with
preflight red is a dry run (`NoLine`). `submit()` may raise (`SubmitRaises`), before its header (no source paths, a profile that cannot be
read: the leg is then not in the notebook at all) or after it; so may the wait for a job that was killed at its cap. What is
raised ends its cell (`CellRaises`): the seed's, after which the experiments still run, or the experiments', with every leg to come; the runner
then ends with 1 (`raised`). A submission is `job[r]`, in a session of its
own, which starts, hangs, recovers, ends or reaches its cap; its stall watchdog is `watch[r]`, with `SeesChange` and
`Captures` as the two outcomes of a `Poll`. `GuardPings`, `LauncherKilled`, `OperatorStops` and `RunnerNeverSaves` are what may
happen from outside. Time is a count of ticks up to `Stall`, since any longer wait is as good.

Left open: whether the running tasks of a silent stage are past its longest (`classify`), which depends on the work.
Left out: the race for a process group id that was given out again, and what the notebook prints of its results; a kernel that dies under
the runner; an exception while a job's output is read, or a job that lives on for a minute after it closed its output, either of
which leaves a job alive that the notebook has given up. A job has one stage at a time, and the watchdog's verdict and its capture are one
step; `stall_watchdog.py:423-474` goes through the stages one by one and captures after it has judged. `PYG_SKIP_SEED` and
`PYG_SEED_ONLY` are values of `Legs`; with the seed skipped, leg 1 is the first experiment and in the same cell as the rest.

### GraphJob, JobInputs

`GraphJob` is `build_graph.py` with `persistence.py`: jobs of a `queue`, one after another, in one work directory. `work`
says for each artifact which job wrote it, or that a job ended while writing it (`Half`). `stage` is the program
counter. A job starts (`ParseArgs`, which refuses or settles its configuration), looks whether the directory is taken
(`check_work_dir_occupancy`), loads (`LoadSourceTriples`), is enriched, and writes triples, descriptor, tables, graph,
metadata, alias, node index, checksums and manifest in the order of the code. `pyg_only` reads a descriptor and triples an earlier
job left. `JobEnds` may come at every stage, with what is being written half written or untouched; the S3 copies are among the
stages, since a copy that fails raises (`save_pyg_to_s3`, `write_metadata_to_s3`). `DescriptorLost` is a
descriptor that cannot be written, which is only logged.

Where an artifact is filed (`FileOf`) is what two jobs may share. A file name is `<<stem, extension>>`: metadata, node index and checksums
are filed under the stem, the graph under the whole name. A period is what `period_partition` makes of `--time_period`, and `latest` is one
(`LATEST_PARTITION`), the directory of the newest names. The S3 copies are filed under `--s3_pyg_key`, which is free and is only by default the
period and the file name (`JobConfig`); its bucket is folded into it.

`JobInputs` is what a job starts from: settings and their refusals (`JobConfigRefuses`, `JobConfig`), which source a path is
of, which column is read, documents that do not parse, identifiers padded or not, the datatypes that decide a date.

### Enrichment, with a module per linker

`Enrichment` is the machine of `pipeline.py`: a step per linker in the order of the registry, which gives triples
(`EnrichIntraSource`), raises (`LinkerRaises`) or raises while it is counted (`CountingRaises`), then `UnionIntraSource`,
`UnifyTemporal`, `LinkCrossSource`, `MapOntology`. `StoreChanges` is an export of the constituents between two of the
three times they are read. A BLS dataset whose chains fail is left out and the others stay (`BlsSequences`), without a linker having
failed. What a phase adds is a definition over a set of triples:

- `Sequencing`: the ranking and chaining that all linkers share (`sequence_within_partitions`).
- `SecLinker`, `NoaaLinker`, `BlsLinker`, `MarketLinker`: chains, companies and people, escalations, correlations, options and
  strategies. Where the code takes any of several rows (a capture among equals), the definition is the set of the
  possible results, and the step takes any of them.
- `TemporalUnifier`: source periods, unified periods, the finest of an entity's periods.
- `CrossSource`: companies and instruments, industries, sectors, regions, with `Constituents`, the file of a day or the newest.
  Of two lines of one ticker the last stands. With BLS in a graph its own census regions are hubs even when no state is
  linked: the code's `if not links` (`cross_source_linker.py:705`) asks for a list of frames, which BLS always adds one to.
- `OntologyMapper`: mapped classes and properties, the class hierarchy and its check for a circle.
- `Triples`: a triple is `<<subject, predicate, object>>`, and the joins over sets of them.

A URI is a tuple of a kind and numbers, a date a tuple of numbers that is compared like the code's strings. A word that
a linker looks for in a URI or a label is a fact about that node (`UriWords`).

### QueryTables

Which of the nodes, edges, literals and triples go to which table: `NodesOf`, `kept_node`, `write_edges`, `literals`, `write_facts`,
`SnapshotColumns`, `store_triples`, the left-out types and the days only they are dated by, and the feeds. `GraphJob`
writes the tables one after another from one `Frames`.

### NodeMapper, EdgeMapper, HeteroBuild

`NodeMapper` and `EdgeMapper` are pure definitions over a set of triples and a configuration: which types an entity
keeps, which of them wins (`ranked`), which row it gets (`NodeIds`), which triples become edges (`resolved_edges`), which
edge types share a collect (`ChunkEnd`), and what an edge type's columns are (`edge_index`). URIs and names are
numbers in the order their strings sort, because the code breaks every tie by a string.

`HeteroBuild` is `build_hetero_data` as a machine whose steps are the collects to the driver: `MapNodes`,
`ResolveEdges`, `CollectEdges` (one chunk of whole edge types), `CollectNodeChunk` (a range of one large or trimmed
type), `CollectNodeBatch` (several small types), `CollectEdgeRowChunk`, `CollectEdgeRowBatch`, `Assemble`. `Refused` and
`DivideByZero` are the ways a build fails. A feature row is the set of facts it is computed from: whether row
*i* was given the right entity's facts is the question, and what an encoder then makes of them is not.

What that leaves out: the columns a trimmed type does not store; a type whose encoders give no entries, which the code
fills with zeros and the model scatters nothing into; negative thresholds; a name given twice in `node_types`.
`chunk_edge_threshold` stands for the smaller of the row cap and the byte cap. The order of node types is any order, since
the code reads it off an unsorted collect; the model's node batches are those of any order, and a few more.

## 3. Runs

| Run | Instance | Shows |
|---|---|---|
| `publish_same_day` | two runs of one day, two parts, two faults, symmetry | TypeOK, DayIsOneRuns, IndexedRunIsWhole, MarkedTablesWereComplete, OkIsPublished, PublishedIsFrozen, and the refinement of PublishedView |
| `publish_two_days` | two runs of two days, one fault | running again publishes, under fairness |
| `publish_same_day_stuck` | two runs of one day, one fault | violation: a day can be kept from its marker for good by parts of an attempt that was cut short |
| `publish_refusal` | resumed tables, a failed listing | violation: exit code 2 after something was sent |
| `archive_safe` | two runs of day 1 and one of day 2, one day kept, two faults, one spoiled copy | TypeOK, MarkedDayIsWhole, OkIsArchived, NewestDaysOnly, DayLeavesForAReason, the refinement of ArchiveShelf, and on a drive that spoils nothing: running again finishes every copy |
| `archive_leftover` | the same, one fault | violation: a copy that no marker names stays |
| `nightly_safe` | four nights, four days, two runs retained, three days archived, two faults | NewestRunsKept, DayNotLost, WaitingRunCanGo |
| `nightly_old_day` | one run retained, two days archived | violation: a day older than the archive keeps leaves a run that can never be pruned |
| `hetero_build` | 8256 inputs in three families: every typing of three entities by a class, its subclass and a pinned type under four filters; every set of six links among four entities under every small budget; unregistered names, a zero threshold, edge features off | RowsAreEntities, GraphIsTheTriples, RowsBelong, SchemaIsTrue, CollectsAreBounded, NoSubclassShard, StepsAdvance |
| `launch` | two attempts of two legs each, one strike, one capture, jobs that hang in a stage, cells that raise; the master's page can be read | RunDirIsOneRuns, CapturesAreThisRuns, CapturedWasQuiet, SweepSparesLiveJob, OutcomeIsHonest, and under fairness StalledRunEnds |
| `outcome_stale` | two attempts | violation: a report of another attempt's notebook under this attempt's id |
| `graph_job` | twelve jobs alone (filings and quotes, alerts and series, census regions without a state, a closing circle, unregistered names, refused inputs); every two of nine jobs of two days and two periods; every two of eight jobs that share an S3 key, the newest names or a stem; triples stored, stored over and built from, by three jobs; three folders of constituents | ChainsAreTotal, EscalationIsRealRise, FinestPeriodOnly, HubsAreConnected, OneCompanyPerSymbol, HierarchyHasNoCircle, TablesAgree, FinishedRunsKeepTheirArtifacts, GraphStatesItsDay |

What the last run's properties say of the code:

- `ChainsAreTotal`: of two dated entities of one owner, issuer, symbol or zone exactly one comes after the other along the chain,
  whether or not an entity is dated twice or stated in several blocks, and no link runs back in time.
- `EscalationIsRealRise`: an alert escalates to another only when the worst it says rises, or is as bad and more urgent; and
  between neighbours in a zone a rise in severity is always linked.
- `FinestPeriodOnly`: an entity is observed in periods of the finest grain any of its dates names, and in no coarser one; a
  date in a month there is not places it nowhere; and every source's copy of a day is the same as one unified day.
- `HubsAreConnected`: what a source is linked to across sources is a typed node, and no hub is left that nothing is linked to.
- `OneCompanyPerSymbol`: a quote is of at most one company, a filing's where a filing states the symbol, and a stock counted as
  without a company is one that neither filings nor constituents know.
- `HierarchyHasNoCircle`: mappings and derived classes close no circle, or the run is refused.
- `TablesAgree`: edges join kept nodes, the store names no left-out node, a day goes when nothing kept is dated by it.
- `FinishedRunsKeepTheirArtifacts`: what a manifest lists stays its job's, whole, until a job is told to overwrite. That holds of what the
  occupancy check can know (triples and graphs by period and file name) and of what stands and falls with it. It leaves out what two jobs file under
  one name although the check sees no finished run (`Rewritten`): a day's query tables, which a job of another period writes too; and, of two graphs
  of other periods or file names, the newest names, an S3 key that both were given or that is the other's own, and what is named after file names
  that differ in `.pt` alone.
- `OutcomeIsHonest` (run `launch`): of a run that ended and is reported with every submission ok from its own notebook, no leg in it failed,
  hung, was dry-run or was left open, and beside runner code 0 every leg is in it. Beside code 1 a leg that raised before its header may be missing.
- `GraphStatesItsDay`: a graph states the day of the triples it was built from.

**Bounds.** Two runs of one day are what every hazard of publishing needs (one cut short, one going on); a third
would only repeat the second. Two parts let one be whole and the other short. Two faults allow a failure in
the recovery from a failure. In the archive three runs give both a replacement and a day that pushes another out.
In the schedule four nights give `Retain + 2`: a run to prune and one after it. Six links over three predicates, two of which have one name,
two node types and both directions give edge types of one to four edges, so that budgets of 0 to 3 split them, fill a
chunk exactly and fall short of one type; three entities give a subclass, its class and an entity of both. Two
attempts are one that leaves something behind and one that finds it; two legs are the seed and an experiment, which are in
two cells; `PageAnswers` is `{TRUE}` in `launch`, because a page that cannot be read only drops preflight's look at other applications, which
no property rests on and the proofs cover, and both values in `outcome_stale`; one strike and one tick are as good as more. Two jobs in a directory are one that leaves and one that
finds; the third case needs one more, because the job that stores triples over others' and the job that reads them
differ. The day of `filings_and_quotes` has for each linker a case that its rules distinguish: an entity dated twice, two
on one day, a symbol that two sources give, a stock without a company, a day that only left-out facts have.
`MAX_LINKER_FAILURES` is 1, because a linker that raises hides only its own triples; `MAX_STRANGLE_PAIRS_PER_CHAIN` is 1, so
that the cap is met. The proofs of section 4 have none of these bounds.

**Fairness.** `Publish!FairSpec` lets a started publisher go on and an operator run a publish again, again and
again (strong fairness, because another run of the day may be in the way in between): this is what "running the
same command again finishes it" assumes. `Archive!FairSpec` is the same for `--archive`. Faults are bounded, so
they stop. `Launcher!FairSpec` lets the launcher, the runner, the clock and the watchdog run, and a job that does not hang
end (weak fairness: each is a process of its own that nothing switches off); it assumes nothing of hangs, recoveries, the gateway,
kills or further launches, and `StalledRunEnds` is about stages, since a job that hangs with no task active is not what the
watchdog sees. A launcher that keeps waiting is left out: the cap of a leg is compared with the clock when a line of output comes
(`multi_experiment.ipynb:746`). The schedule and the graph job have no liveness property. A build is one thread: `StepsAdvance` says
that every step brings it nearer to its end, and with TLC's check for deadlock this is termination without a fairness assumption.

Subsumption is read off counts of rows, so two type URIs with one name make it blind; `NoSubclassShard` is stated for
entities without such a pair (the registered prefixes give no two type URIs one name). The module's docstring says the subsuming type
wins (`node_mapper.py:30`); in fact any unsubsumed type of the entity does, the rarest first.

**What the code and its documentation disagree about** is in `PROJECT.json` ("findings"), one violation run each.
Met while modelling and not the subject of a run: `ontology_mapper.py:214` does not take "Non" for a negating qualifier, so
`NonDerivativeTransaction` becomes a subclass of `DerivativeTransaction` (the run's graphs have the edge); a linker whose
result fails when it is counted is reported as having added nothing although its triples stay
(`intra_source_linker.py:60`, `CountingRaises`); `build_graph.py:779` refuses "when the artifacts this run would write already exist", but two
jobs given one `--s3_pyg_key` replace each other's archived graph without `--allow_overwrite`, and both manifests name it; a report reads "all
N submissions ok" of the legs that printed a header, so beside `runner rc=1` a leg that raised before its own may be missing from it; a job that is killed while it writes its graph keeps the next one out until someone
passes `--allow_overwrite` (`Occupied`); two jobs of one day and two periods write the same query tables.

## 4. Proofs

| Module | Theorems |
|---|---|
| `PublishProofs` | `Invariance`, `TypeCorrect`, `OneRunADay`, `IndexVouches`, `EarlyTablesComplete`, `OkMeansPublished`, `Frozen`, `Refinement` |
| `ArchiveProofs` | `Invariance`, `TypeCorrect`, `MarkersVouch`, `OkMeansArchived`, `OnlyTheNewest`, `DaysLeaveForAReason`, `Refinement` |
| `NightlyProofs` | `Invariance`, `TypeCorrect`, `NoDayIsLost`, `NewestStay`, `WaitingRunsCanGo` |
| `HeteroBuildProofs` | `Invariance`, `RowsForEntities`, `GraphSaysTheTriples`, `OneTypeForAConcept`, `RowsInvariance`, `RowsBelongToTheirNodes`, `CollectsStayBounded`, `SchemaSaysTheGraph`, `EveryStepAdvances` |
| `GraphJobProofs` | `Invariance`, `FinishedRunsKeep`, `GraphStatesDay`, `TablesKeepCompany` |
| `EnrichmentProofs` | `GraphIsMadeInPhases`, `HubsHoldTogether`, `DatesTakeTheFinestPeriod`, `ClassesClimbUpward`, `QuotesAreOfOneCompany`, `AlertsRiseInEarnest` |
| `ChainProofs` | `ChainsAreInOneOrder` |
| `LauncherProofs` | `Invariance`, `DirIsOneRuns`, `ReportedCapturesAreOwn`, `OnlyQuietIsCaptured`, `LiveJobsKeepCheckpoints`, `FullReportIsTrue` |

The first three are for every set of runs, days, files and parts, any number of faults and any bounds. None of the properties is
inductive by itself: a marker is put because of what a listing said some steps before. Each module therefore has an
invariant (`IInv`) that says, for each program counter, what the process still knows about the shared state, and why no other process can
have changed it since: publishers of the same day run one at a time (`Alone`, the schedule's lock), the archive command
runs alone, the prune's counter equals the number of started runs it has passed. `IInv` is proved inductive, one
step per action; each safety theorem follows from it, and each refinement theorem maps every step to a step of the
abstract module or a stutter. The constants' assumptions are named in the modules that declare them.

Two of their properties need an invariant of their own beside `IInv`. `OnlyTheNewest` (at most `KeepDays` days stay archived) rests on
`Trimmed`: once the command has listed what to remove, every marked day that it does not mean to remove has fewer than
`KeepDays` newer ones, and this stays so while the markers go one by one, because only the command itself marks a day. `WaitingRunsCanGo`
is about a schedule without faults whose days come in order (`Calm`), the condition of the property itself. There `CalmInv` relates
three sets that different steps write: every run that waits is published and archived or is tonight's (`Safe`), a
marker names a published run of its day (`Told`), a waiting run has at most `Retain` newer archived days and fewer unless the prune
is still to look at it (`FewNewer`), the prune's counter has missed no started run (`NoneMissed`), and the directories that went were older than
any that wait (`RemovedAreOldest`). Without the last two a prune could pass over a run that the archive no longer guards.

`HeteroBuildProofs` is about any finite set of triples, any names, filters and budgets. Its centre is the lemma
`Placing`: in a finite order, the number of elements before an element is a number below the size, and every such
number is taken once (by the pigeonhole theorem of the library, so no induction is needed). It gives the node ids, the
columns of an edge type and the numbers of the edge types, and with `i = 0` the first element of a finite order: that
the contest of an entity's types has a winner, that a lexicographic order of tuples is total, and where a chunk of edge
types ends. The invariant then says which frames are there at which step: before `ResolveEdges` nothing, during the
collects the edge types numbered below the cursor, afterwards all of them. Assumed of an input: finitely many triples,
an `rdf:type` names a class, the row budget and the two chunk thresholds are integers, edge features are on or off.

Its second half is about the rows of features, which are filled range by range into one tensor, a collect at a time. `RInv`
says that the rows before the next range are final, each of them computed from its own node's or edge's facts (`NodeTensor`, `EdgeTensor`), that those from
there on are still empty, and that a type's tensor is put away once its last range is done; so a row never holds what a neighbour in the collect
order said, and no range is collected twice or left out. `Budgets` carries what the ranges were cut by, which bounds each collect
by the rows it was allowed. `EveryStepAdvances` is about steps: each one either finishes a type or moves its cursor forward.

`GraphJobProofs` is about any settings, any queue of any length, any day's triples and whatever the linkers add. The
occupancy check looks at two artifacts, the triples and the graph; `Root` says which of them stands for every other one, `WroteSoFar`
that a job writes the one before the others, and `WayIsFree` that what the check saw is still so when the job writes. So
of an earlier job's artifacts only those go that a manifest's promise leaves out (`Replaces`). For the stated day,
`TriplesAreDescribed` says that whole triples have their own job's descriptor beside them, or its loss is known, or the
job is at that step. Assumed (`SettingsAssumption`): a job has a known mode, a period and its paths, and is told to overwrite or not.
`TablesKeepCompany` is about one graph and no step: it holds of every graph whose subjects are URIs and whose source days
are no facts of one another (`SubjectsAreUris`, `DaysDateNoDays`), which TLC finds true of every graph of the run.

`EnrichmentProofs` is about what the enrichment leaves in a graph, for any documents, linkers that raise, row orders and constituents that
change while a job reads them. `PhaseInv` says of each stage what the graph is made of: the loaded triples, what linkers gave for
those alone (each linker's triples all or none), and what each later phase added to the graph it found. It turns a property
of states into a lemma for each phase about a set of triples: `HubsHoldTogether` says that a triple is `Answered` in a
graph when what it links to is typed there, what it types as a hub is linked there, and a region has something else pointing at it;
a larger graph answers what a smaller one did, so that each linker and each step of the cross-source phase is shown to answer itself,
or the graph before it (`leadsTo` relies on the sectors the market linker typed).

The theorems after it rest on what each phase writes (`LinkersWrite`, `TemporalWrites`, `CrossWrites`, `OntologyWrites`: the predicates,
the classes and what is the same as what). So `DatesTakeTheFinestPeriod` is about one graph: an enriched graph has the facts with dates that the
temporal phase saw and the period links it wrote (`SaysThePeriodsOf`), and `FinestLinks` says which of an entity's
periods those are. `ClassesClimbUpward` is about a relation's reach, a recursive function. `ReachIsClimbed` unfolds it into a climb, one
step for each pair of the relation, and `ClimbGrows` and `NamesClimb` follow a climb up, each from the least step at which it would fail
(`LeastOfSome`, by the library's theorem that the order of the naturals is well founded), so that no induction over an operator is needed. They show
that the circle `_assert_is_dag` looks for among the names is the one the graph would have among its nodes, where there may be fewer pairs.

`QuotesAreOfOneCompany` joins what the phase reads to what the graph says at the end. `FactsAreLoaded` says that symbols, CIKs and
CUSIPs stay as they were loaded through every phase, so a property that reads them off the finished graph reads what the phase
read; `ReferencesOfTheGraph` says that every link to a company is one the phase wrote, of the graph `K` it found, and `BothWereThere` that `K`
had filings and quotes if the finished graph has, which is where a phase with a single source would have written nothing. The pairings of a symbol with
CIKs are ordered by who states them and then by number: `SomeForemost` finds one that none comes before and `OneForemost`
shows that any two such have the same CIK. A snapshot gets its references by its symbol alone, because what the other two kinds
of reference start from, an issuer's CIK and a holding's CUSIP, is stated of nodes of the filings (`LoadedIsTheirOwn`).

`AlertsRiseInEarnest` needs both directions: that what is linked came from the alerts' linker, and that what this linker found is still there.
`EscalationsAreTheLinkers` gives the first, because no other linker and no phase writes `escalatesTo`. For the second `LinkersAreIn` is
an invariant beside `PhaseInv`: of each linker whose turn is over and that did not raise, one of the sets it may return is in the graph as a
whole, through every later phase. The rest is about the linker's rows. `Compared` says that they are what the alerts say, each of them and
nothing else, however the ties are broken (`BrokenRowsAreCompared`); `FirstRowSpeaks` and `SomeFirstRow` that an alert is compared by the
worst it says at its earliest time, wherever it applies. So the column that breaks ties decides which block speaks but never a severity, and
two alerts with none between them in time have consecutive rows (`NeighboursAreLinked`).

`ChainProofs` goes on from there with `ChainsAreInOneOrder`, which needs both directions too: `ChainedByALinker` says that whatever
precedes something in an enriched graph was numbered by one of the linkers (nothing else writes `precedes`), `LinksAreInTheGraph` that the links
of a chain whose linker did not raise are all there. Between them is a theory of rows that knows no source. A linker's rows are keyed by an
instant and then by the entity's own number, so they are in a strict order although many may tie in time (`RowsAreOrdered`). A linker
numbers the rows of a group, and two groups that share entities number different rows: that their links never disagree rests on an
entity's place, the key of its first row, being the same in every group (`PlaceIsOne`, `Sooner`). Forward, `LaterIsReached`: from a row every
later one of its group is reached, since of those that were not the least would follow one that was. Backward, `NeverSooner`: what is
reached along any links, those of other groups included, is never placed sooner. Both speak of `Reach`, a recursive function of the finite relation, through `ReachGoesOn`
and `ReachStaysIn`, which are of the same making as the climb of `ClassesClimbUpward`. What is left is that each linker's rows are such a `Strand` (`StrandOfFilings`,
`StrandOfQuotes`, `StrandOfAlerts`: finitely many, one for each date of each entity of each group) and that a graph's dated groups are the rows of the linker
(`DrawnHasARow`), though a graph is read at the end and the linker read the loaded triples.

Assumed: the tables' names are none of the phases' own and none of the sources' that are read back (`TablesAssumption`, the pipeline's
vocabularies in `namespaces.py`); the documents', whose terms are the sources', state no such link, class, region, period or
hierarchy (`VocabulariesAssumption`; a test pins that the two kinds of vocabulary are apart, and `ontology_mapper.py:182` says that no source
declares a hierarchy); the class mappings, the named classes and the mappings of a run are finitely many
(`ClassesAssumption`, `SettingsAssumption`). For the companies, a document's nodes are of its own source and only one source
states symbols, CIKs and CUSIPs each (`SourcesAssumption`: the entity namespaces of `namespaces.py`, and each source's predicates under its own
ontology); a snapshot states one symbol (`tables.py:660` writes one row a snapshot, and
`test_cross_source_linker.py:1169` says that a snapshot is one contract at one timestamp); the constituents' CIKs are integers
(`StoresAssumption`). For the alerts, only their feed states `hasInfo`, `hasSentTime` and `hasSeverity`, of alerts with ordered names, times that are
numbers and severities that `SEVERITY_HIERARCHY` ranks (an inner join drops any other); and no document states an escalation, a
name of the pipeline's (`VocabulariesAssumption`). For the chains, only filings state an owner, an issuer, a period of report and a date's value; the
entities of a chain are named in one namespace each (filings, quotes, alerts), as numbers that sort as their names do; a date's year, month and day are
numbers; the paths, documents and rows of a job are finitely many; and no document says that one entity precedes another. No date has to be in the calendar. TLC evaluates all of it on the run's tables and documents.

`LauncherProofs` is about any number of attempts and legs, any limits of the watchdog and the guard, and jobs that may hang
anywhere. `OneRun` is the lock: whoever is alive in the directory is of the newest attempt, so a launcher that saw its runner
end has none. `Watched` relates the watchdog's clock to the job's: a watchdog that has taken note of the count has not waited
longer than the job has been quiet, which no single poll shows. `JobsOfRunners` says when a job may outlive its runner (only
when the runner was killed from outside). `Reported` counts the entries of the notebook: one for each leg that ended, unless a cell raised
(`LegEnds`, `CellEnds`), in which case the runner cannot end with 0; and the saved copy is the last one at the end. So a report with nothing but
successes is true of every leg in it, and beside runner code 0 it is of all legs. Assumed
(`LauncherAssumption`): the bounds are positive, and the master's page can be read or not.

So every safety property and every refinement of a passing run has its theorem. Only model-checked are the liveness properties
(`RunningAgainPublishes`, `RunningAgainArchives`, `StalledRunEnds`), which the prover cannot do, and the five findings: a counterexample is
an instance.

## 5. Not modelled

- **Source staging** (`stage_sources.sh`): a mirror and a store that are listed, compared and copied. A job's inputs take
  the mirror as whole or absent (`JobInputs`), a night takes staging as done or failed.
- **Two publishers started by hand** at once: the schedule holds one lock for the night.
- **Encodings and layouts**: floating-point values, slots and their collisions, the columns a trimmed type does not store, and
  the JSON that states them. A feature row is the set of facts it is computed from.
- **Syntax**: Turtle is rdflib's; URIs, dates and symbols are tuples. Blank nodes are named by their content in the code, so
  equal ones of two documents are one node; here a document has none.
- **SKOS labels and provenance triples**, which nothing else reads; the pivot of the snapshots; row groups and column types.
- **Samplers, fixtures, reports, repository checks**: nothing decides on what they write.
- **The S3 mirror of a manifest**, whose failure is logged (that of a graph raises, and ends the job); an S3 key shared with a job of
  another work directory; a file name with a directory in it; Spark's own scheduling and caching.

Next, in this order: the staging script as a module
between `Nightly` and `JobInputs`; layouts, slots and the trim.

Code outside `src/` (`aws`, Spark, the notebook kernel) is modelled from how `src/` uses it.
