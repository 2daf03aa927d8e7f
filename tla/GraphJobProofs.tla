--------------------------- MODULE GraphJobProofs ---------------------------
(***************************************************************************)
(* Theorems about GraphJob, for any settings, any queue of jobs and any    *)
(* tables of the enrichment: what a manifest lists stays the manifest's,   *)
(* and a graph states the day of its triples.                              *)
(***************************************************************************)
EXTENDS GraphJob, TLAPS

LinkStages == {"bls", "sec", "market", "noaa", "union"}
EnrichmentStages == {"bls", "sec", "market", "noaa", "union", "temporal", "cross", "ontology"}
TableStages == {"tables", "edges", "literals", "store", "feeds"}
GraphFiles == {"metadata", "latest", "node_index", "checksums", "s3_pt", "s3_metadata", "s3_checksums"}
GraphStages == {"pt"} \cup GraphFiles
OtherStages == {Idle, "occupancy", "load", "failed", "enriched", "describe", "manifest",
                "descriptor", "read", "build"}

TriplesModes == {"full", "enrichment_only"}
GraphModes == {"full", "pyg_only"}

\* Which modes come to which stage, and the job that runs is the last of past.
StageAndMode ==
    /\ stage \in EnrichmentStages \cup TableStages \cup GraphStages \cup OtherStages
    /\ past \in Seq({AsTold(JobConfig(Settings[s])) : s \in DOMAIN Settings})
    /\ stage # Idle =>
          /\ This \in 1..Len(past) /\ job.mode \in MODES
          /\ past[This] = AsTold(job)
    /\ stage = "load" => job.mode # "pyg_only"
    /\ stage \in EnrichmentStages \cup TableStages \cup {"enriched", "describe"} =>
          job.mode \in TriplesModes
    /\ stage \in GraphStages \cup {"build"} => job.mode \in GraphModes
    /\ stage \in {"descriptor", "read"} => job.mode = "pyg_only"
    /\ stage \in S3Artifacts => job.archive

\* The artifact the occupancy check looks at in place of another: the triples
\* for what is written with them, the graph for what is written with it.
Root(key, j) ==
    IF key[1] \in GraphStages THEN FileOf(j, "pt") ELSE <<"parquet", j.period, 0>>
\* Where a job files what it writes.
Filed(key, j) ==
    IF key[1] \in GraphStages THEN key \in GraphPlaces(j) ELSE key[2] \in {0, j.period}

\* What the running job has written so far, the artifact that stands for it
\* always with it.
WroteSoFar ==
    /\ \A k \in wrote : /\ At(k) = This /\ Filed(k, job)
                        /\ Root(k, job) \in wrote
    /\ stage \in EnrichmentStages \cup {Idle, "occupancy", "load", "descriptor", "read", "enriched"}
          => wrote = {}
    /\ stage = "describe" => wrote = {Parquet}
    /\ stage \in TableStages => Parquet \in wrote
    /\ stage \in GraphFiles => File("pt") \in wrote

\* What the check saw still holds: no earlier job's triples or graph are in
\* the way of a job that may not replace them.
WayIsFree ==
    stage \notin {Idle, "occupancy", "failed"} /\ ~job.overwrite =>
        /\ job.mode \in TriplesModes => At(Parquet) \notin 1..(This - 1)
        /\ job.mode \in GraphModes => At(File("pt")) \notin 1..(This - 1)

ManifestsHold ==
    \A m \in manifests :
        /\ m.job \in 1..This /\ (stage # Idle => m.job < This)
        /\ \A k \in m.wrote :
              /\ Filed(k, past[m.job])
              /\ Root(k, past[m.job]) \in m.wrote
              /\ At(k) = m.job \/ Rewritten(k, m.job)

\* Whole triples have their job's word of them beside them, or are known to
\* have lost it, or their job is about to write it.
Describes(k) ==
    \/ work[k] \in undescribed
    \/ At(<<"descriptor", k[2], 0>>) = work[k]
    \/ stage = "describe" /\ work[k] = This /\ k = Parquet
TriplesAreDescribed ==
    /\ undescribed \subseteq 1..This
    /\ \A k \in DOMAIN work : work[k] \in {Half} \cup 1..This
    /\ \A k \in DOMAIN work :
          k[1] = "parquet" => k = <<"parquet", k[2], 0>> /\ (work[k] # Half => Describes(k))

SaysItsDay(g) ==
    g.of = 0 \/ g.of \in undescribed \/ (g.of \in 1..This /\ past[g.of].day \in {0, g.day})
DaysAreSaid ==
    /\ stage = "read" => stated = [of |-> 0, day |-> resolve_pyg_only_day(SaidDay, job.given)]
    /\ stage \in GraphStages \cup {"build"} /\ job.mode # "full" => SaysItsDay(stated)
    /\ \A f \in DOMAIN graphs : SaysItsDay(graphs[f])

IInv == StageAndMode /\ WroteSoFar /\ WayIsFree /\ ManifestsHold /\ TriplesAreDescribed /\ DaysAreSaid

----------------------------------------------------------------------------
(* The stages, and what a write does to the work directory.                *)

\* The first linker of a run, and the one after each, or the union of their triples.
LEMMA LinkerStages ==
  ASSUME NEW i \in 1..5
  PROVE  FirstLinker(i) \in LinkStages /\ FirstLinker(i) \in EnrichmentStages
  <1> DEFINE S == LinkersFrom(i)
             least == CHOOSE j \in S : \A k \in S : j <= k
  <1>1. S \subseteq 1..4
    BY DEF LinkersFrom
  <1>2. CASE S = {}
    BY <1>2 DEF FirstLinker, LinkStages, EnrichmentStages
  <1>3. CASE S # {}
    <2>1. \E j \in S : \A k \in S : j <= k
      <3>1. PICK j \in S : \A k \in 1..(j - 1) : k \notin S
        BY <1>1, <1>3
      <3> QED
        BY <1>1, <3>1
    <2>2. least \in 1..4
      BY <1>1, <2>1
    <2> HIDE DEF least
    <2>3. REGISTERED[least] \in LinkStages /\ REGISTERED[least] \in EnrichmentStages
      BY <2>2 DEF REGISTERED, LinkStages, EnrichmentStages
    <2> QED
      BY <1>3, <2>3 DEF FirstLinker, least
  <1> QED
    BY <1>2, <1>3

LEMMA NextStages ==
  ASSUME NEW i \in 1..4
  PROVE  /\ NextLinker(REGISTERED[i]) \in LinkStages
         /\ NextLinker(REGISTERED[i]) \in EnrichmentStages
  <1> DEFINE at == CHOOSE k \in 1..4 : REGISTERED[k] = REGISTERED[i]
  <1>1. at \in 1..4
    OBVIOUS
  <1>2. 1 + at \in 1..5
    BY <1>1
  <1> HIDE DEF at
  <1>3. FirstLinker(1 + at) \in LinkStages /\ FirstLinker(1 + at) \in EnrichmentStages
    BY <1>2, LinkerStages
  <1> QED
    BY <1>3 DEF NextLinker, at

LEMMA PutAt ==
  ASSUME NEW keys, NEW writer, work' = Put(keys, writer), NEW k
  PROVE  At(k)' = IF k \in keys THEN writer ELSE At(k)
  BY DEF Put, At

LEMMA InitIInv == Init => IInv
  <1> SUFFICES ASSUME Init PROVE IInv
    OBVIOUS
  <1>1. StageAndMode
    BY DEF Init, StageAndMode, Idle, OtherStages, S3Artifacts, EnrichmentStages, TableStages, GraphStages, GraphFiles
  <1>2. WroteSoFar /\ WayIsFree
    BY DEF Init, WroteSoFar, WayIsFree, Idle, TableStages, GraphFiles
  <1>3. ManifestsHold /\ TriplesAreDescribed /\ DaysAreSaid
    BY DEF Init, ManifestsHold, TriplesAreDescribed, DaysAreSaid, GraphStages, GraphFiles, Idle
  <1> QED
    BY <1>1, <1>2, <1>3 DEF IInv

----------------------------------------------------------------------------
(* What a running job writes, and what it may write over.                  *)

Busy == stage \notin {Idle, "occupancy", "failed"}

\* The key of an artifact the job may write at its stage: filed under its
\* period or under none, and standing behind what the check looked at.
Own(k) ==
    /\ Filed(k, job)
    /\ \/ job.mode \in TriplesModes /\ Root(k, job) = Parquet
       \/ job.mode \in GraphModes /\ Root(k, job) = File("pt")

LEMMA Periods ==
  ASSUME StageAndMode
  PROVE  /\ This \in Nat
         /\ \A j \in 1..This : past[j].period # 0 /\ past[j].overwrite \in BOOLEAN
  <1>1. ASSUME NEW s \in DOMAIN Settings
        PROVE  /\ AsTold(JobConfig(Settings[s])).period # 0
               /\ AsTold(JobConfig(Settings[s])).overwrite \in BOOLEAN
    <2>1. {"period", "overwrite"} \subseteq DOMAIN Settings[s] /\ Settings[s].period # 0
          /\ Settings[s].overwrite \in BOOLEAN
      BY <1>1, SettingsAssumption
    <2>2. JobConfig(Settings[s]).period = Settings[s].period
          /\ JobConfig(Settings[s]).overwrite = Settings[s].overwrite
      BY <2>1 DEF JobConfig
    <2> QED
      BY <2>1, <2>2 DEF AsTold
  <1>2. past \in Seq({AsTold(JobConfig(Settings[s])) : s \in DOMAIN Settings})
    BY DEF StageAndMode
  <1> QED
    BY <1>1, <1>2 DEF This

\* What a job is remembered by says where it files.
LEMMA ToldPlaces ==
  ASSUME NEW j
  PROVE  /\ GraphPlaces(AsTold(j)) = GraphPlaces(j)
         /\ \A k : Filed(k, AsTold(j)) = Filed(k, j) /\ Root(k, AsTold(j)) = Root(k, j)
  <1>1. /\ AsTold(j).period = j.period /\ AsTold(j).name = j.name
        /\ AsTold(j).archive = j.archive /\ AsTold(j).s3_key = j.s3_key
    BY DEF AsTold
  <1>2. \A a : FileOf(AsTold(j), a) = FileOf(j, a)
    BY <1>1 DEF FileOf
  <1>3. GraphPlaces(AsTold(j)) = GraphPlaces(j)
    BY <1>1, <1>2 DEF GraphPlaces
  <1> QED
    BY <1>1, <1>2, <1>3 DEF Filed, Root

\* Two graphs of one file are of one period and one file name.
LEMMA OwnGraphFile ==
  ASSUME NEW i, NEW j, FileOf(i, "pt") \in GraphPlaces(j)
  PROVE  i.period = j.period /\ i.name = j.name
  <1>1. FileOf(i, "pt") = <<"pt", i.period, i.name>>
    BY DEF FileOf, S3Artifacts
  <1>2. PICK a \in {"pt"} \cup {ArtifactsInOrder[n] : n \in 1..7} : FileOf(i, "pt") = FileOf(j, a)
    BY DEF GraphPlaces
  <1>3. FileOf(j, a)[1] = IF a = "latest" THEN "metadata" ELSE a
    BY DEF FileOf
  <1>4. a = "pt"
    BY <1>1, <1>2, <1>3
  <1>5. FileOf(j, "pt") = <<"pt", j.period, j.name>>
    BY DEF FileOf, S3Artifacts
  <1> QED
    BY <1>1, <1>2, <1>4, <1>5

\* Of an earlier job's finished artifacts the running one replaces only those
\* that may be: the property allows it.
LEMMA Replaces ==
  ASSUME IInv, Busy, NEW k, Own(k), NEW m \in manifests, k \in m.wrote
  PROVE  Rewritten(k, m.job)
  <1> USE DEF IInv
  <1> DEFINE j == m.job
             root == Root(k, past[j])
  <1>1. /\ This \in Nat /\ j \in 1..This /\ j < This
        /\ past[This] = AsTold(job) /\ past[j].period # 0
        /\ past[This].period = job.period /\ past[This].name = job.name
        /\ past[This].mode = job.mode
    <2>1. This \in Nat /\ j \in 1..This /\ j < This /\ past[j].period # 0
      BY Periods DEF ManifestsHold, Busy
    <2>2. past[This] = AsTold(job)
      BY DEF StageAndMode, Busy
    <2> QED
      BY <2>1, <2>2 DEF AsTold
  <1>2. Filed(k, past[This]) /\ Filed(k, past[j]) /\ root \in m.wrote
    BY <1>1, ToldPlaces DEF ManifestsHold, Own
  <1>3. CASE job.overwrite
    <2>1. past[This].overwrite
      <3>1. past[This].overwrite = job.overwrite
        BY <1>1 DEF AsTold
      <3> QED
        BY <1>3, <3>1, Zenon
    <2>2. This \in (j + 1)..This
      BY <1>1
    <2> QED
      BY <2>1, <2>2, Zenon DEF Rewritten
  <1>4. CASE k[1] \notin GraphStages /\ past[This].period # past[j].period
    <2>1. k[2] = 0
      BY <1>2, <1>4 DEF Filed
    <2> QED
      BY <1>1, <1>4, <2>1 DEF Rewritten
  <1>5. CASE k[1] \in GraphStages /\ <<job.period, job.name>> # <<past[j].period, past[j].name>>
    <2>1. job.mode \in {"full", "pyg_only"}
      BY <1>5 DEF Own, Root, Parquet, FileOf, File, S3Artifacts, GraphModes
    <2>2. k \in GraphPlaces(past[This])
      BY <1>2, <1>5 DEF Filed
    <2> QED
      BY <1>1, <1>5, <2>1, <2>2 DEF Rewritten
  <1>6. CASE ~job.overwrite /\ k[1] \notin GraphStages /\ past[This].period = past[j].period
    <2>1. root = <<"parquet", job.period, 0>> /\ Root(k, job) = root /\ root = Parquet
      BY <1>1, <1>6 DEF Root, Parquet
    <2>2. At(root) # j
      <3>1. job.mode \in TriplesModes
        BY <2>1 DEF Own, Parquet, File, FileOf, S3Artifacts
      <3>2. At(Parquet) \notin 1..(This - 1)
        BY <1>6, <3>1 DEF WayIsFree, Busy
      <3> QED
        BY <1>1, <2>1, <3>2
    <2>3. Rewritten(root, j)
      BY <1>2, <2>2 DEF ManifestsHold
    <2>4. ASSUME NEW i, root \in GraphPlaces(i) PROVE FALSE
      <3>1. PICK a \in {"pt"} \cup {ArtifactsInOrder[n] : n \in 1..7} : root = FileOf(i, a)
        BY <2>4 DEF GraphPlaces
      <3>2. a # "parquet"
        BY DEF ArtifactsInOrder
      <3>3. FileOf(i, a)[1] # "parquet"
        BY <3>2 DEF FileOf
      <3> QED
        BY <2>1, <3>1, <3>3
    <2>5. root[2] # 0
      <3>1. job.period # 0
        BY <1>1, <1>6
      <3> QED
        BY <2>1, <3>1
    <2> QED
      BY <2>3, <2>4, <2>5 DEF Rewritten
  <1>7. CASE /\ ~job.overwrite /\ k[1] \in GraphStages
             /\ job.period = past[j].period /\ job.name = past[j].name
    <2>1. root = FileOf(past[j], "pt") /\ Root(k, job) = File("pt") /\ root = File("pt")
      BY <1>7 DEF Root, File, FileOf, S3Artifacts
    <2>2. root = <<"pt", job.period, job.name>>
      BY <2>1 DEF File, FileOf, S3Artifacts
    <2>3. At(root) # j
      <3>1. job.mode \in GraphModes
        BY <2>1, <2>2 DEF Own, Parquet
      <3>2. At(File("pt")) \notin 1..(This - 1)
        BY <1>7, <3>1 DEF WayIsFree, Busy
      <3> QED
        BY <1>1, <2>1, <3>2
    <2>4. Rewritten(root, j)
      BY <1>2, <2>3 DEF ManifestsHold
    <2>5. root[2] # 0
      BY <1>1, <1>7, <2>2
    <2>6. ASSUME NEW i, root \in GraphPlaces(past[i])
          PROVE  <<past[i].period, past[i].name>> = <<past[j].period, past[j].name>>
      BY <2>1, <2>6, OwnGraphFile
    <2> QED
      BY <2>4, <2>5, <2>6 DEF Rewritten
  <1> QED
    BY <1>1, <1>3, <1>4, <1>5, <1>6, <1>7

\* So what a manifest lists stays as it is, or may be replaced.
LEMMA ManifestsStay ==
  ASSUME IInv, Busy, NEW keys, \A k \in keys : Own(k), NEW writer,
         work' = Put(keys, writer), past' = past, manifests' = manifests
  PROVE  \A m \in manifests' :
            /\ m.job \in 1..This' /\ m.job < This'
            /\ \A k \in m.wrote :
                  /\ Filed(k, past'[m.job])
                  /\ Root(k, past'[m.job]) \in m.wrote
                  /\ At(k)' = m.job \/ Rewritten(k, m.job)'
  <1> SUFFICES ASSUME NEW m \in manifests
               PROVE  /\ m.job \in 1..This /\ m.job < This
                      /\ \A k \in m.wrote :
                            /\ Filed(k, past[m.job])
                            /\ Root(k, past[m.job]) \in m.wrote
                            /\ At(k)' = m.job \/ Rewritten(k, m.job)
    BY DEF This, Rewritten
  <1>1. /\ m.job \in 1..This /\ m.job < This
        /\ \A k \in m.wrote : Filed(k, past[m.job]) /\ Root(k, past[m.job]) \in m.wrote
    BY DEF IInv, ManifestsHold, Busy
  <1>2. ASSUME NEW k \in m.wrote PROVE At(k)' = m.job \/ Rewritten(k, m.job)
    <2>1. CASE k \in keys
      BY <2>1, <1>2, Replaces
    <2>2. CASE k \notin keys
      <3>1. At(k)' = At(k)
        BY <2>2, PutAt
      <3> QED
        BY <3>1 DEF IInv, ManifestsHold
    <2> QED
      BY <2>1, <2>2
  <1> QED
    BY <1>1, <1>2

\* The artifacts are the job's own.
LEMMA OwnKeys ==
  ASSUME IInv, Busy
  PROVE  /\ job.mode \in TriplesModes => Own(Parquet) /\ Own(Descriptor)
         /\ job.mode \in TriplesModes => \A t : t \notin GraphStages => Own(Table(t))
         /\ job.mode \in GraphModes =>
               \A a \in GraphStages : (a \in S3Artifacts => job.archive) => Own(File(a))
  <1>1. ASSUME NEW a \in GraphStages, a \in S3Artifacts => job.archive
        PROVE  File(a)[1] \in GraphStages /\ File(a) \in GraphPlaces(job)
    <2>1. File(a)[1] = IF a = "latest" THEN "metadata" ELSE a
      BY DEF File, FileOf
    <2>2. a \in {"pt"} \cup {ArtifactsInOrder[i] : i \in 1..7}
      BY DEF ArtifactsInOrder, GraphStages, GraphFiles
    <2> QED
      BY <1>1, <2>1, <2>2 DEF File, GraphPlaces, GraphStages, GraphFiles
  <1>2. job.mode \in GraphModes =>
           \A a \in GraphStages : (a \in S3Artifacts => job.archive) => Own(File(a))
    BY <1>1 DEF Own, Filed, Root, File
  <1> QED
    BY <1>2 DEF Own, Filed, Root, Parquet, Descriptor, Table, GraphStages, GraphFiles

----------------------------------------------------------------------------
(* The parts of the invariant over the kinds of step.                      *)

\* A step within a job that writes nothing.
LEMMA Untouched ==
  ASSUME IInv, Busy, job' = job, UNCHANGED <<work, manifests, past>>
  PROVE  WayIsFree' /\ ManifestsHold'
  <1> USE DEF IInv
  <1>1. /\ At(Parquet)' = At(Parquet) /\ At(File("pt"))' = At(File("pt"))
        /\ This' = This /\ \A k, j : Rewritten(k, j)' = Rewritten(k, j) /\ At(k)' = At(k)
    BY DEF At, Parquet, File, This, Rewritten
  <1>2. WayIsFree'
    BY <1>1 DEF WayIsFree, Busy
  <1>3. ManifestsHold'
    BY <1>1 DEF ManifestsHold, Busy
  <1> QED
    BY <1>2, <1>3

LEMMA QuietStep ==
  ASSUME IInv, Busy, stage # "describe", job' = job, UNCHANGED directory,
         past' = past, undescribed' = undescribed
  PROVE  WayIsFree' /\ ManifestsHold' /\ TriplesAreDescribed'
  <1>1. WayIsFree' /\ ManifestsHold'
    BY Untouched DEF directory
  <1>2. TriplesAreDescribed'
    BY DEF IInv, directory, TriplesAreDescribed, Describes, At, This
  <1> QED
    BY <1>1, <1>2

LEMMA PutStep ==
  ASSUME IInv, Busy, NEW keys, \A k \in keys : Own(k), NEW writer \in {Half, This},
         work' = Put(keys, writer), job' = job, past' = past, manifests' = manifests
  PROVE  WayIsFree' /\ ManifestsHold'
  <1>1. WayIsFree'
    <2>1. /\ At(Parquet)' \in {At(Parquet), writer}
          /\ At(File("pt"))' \in {At(File("pt")), writer} /\ This' = This /\ This \in Nat
      <3>1. At(Parquet)' \in {At(Parquet), writer}
        <4>1. Parquet' = Parquet
          BY DEF Parquet
        <4> QED
          BY <4>1 DEF At, Put
      <3>2. At(File("pt"))' \in {At(File("pt")), writer}
        <4>1. File("pt")' = File("pt")
          BY DEF File
        <4> QED
          BY <4>1 DEF At, Put
      <3> QED
        BY <3>1, <3>2, Periods DEF This, IInv
    <2>2. writer \notin 1..(This - 1)
      BY <2>1 DEF Half
    <2> QED
      BY <2>1, <2>2 DEF WayIsFree, Busy, IInv
  <1>2. ManifestsHold'
    BY ManifestsStay DEF ManifestsHold
  <1> QED
    BY <1>1, <1>2

\* Artifacts other than the triples and their descriptor.
LEMMA OthersDescribed ==
  ASSUME IInv, stage # "describe", NEW keys,
         \A k \in keys : k[1] \notin {"parquet", "descriptor"}, NEW writer \in {Half, This},
         work' = Put(keys, writer), past' = past,
         undescribed \subseteq undescribed', undescribed' \subseteq 1..This, stage # Idle
  PROVE  TriplesAreDescribed'
  <1> USE DEF IInv
  <1>1. This' = This /\ This \in 1..This
    BY Periods DEF This, StageAndMode
  <1>2. ASSUME NEW k \in DOMAIN work' PROVE work'[k] \in {Half} \cup 1..This
    BY <1>1, <1>2 DEF Put, TriplesAreDescribed
  <1>3. ASSUME NEW k \in DOMAIN work', k[1] = "parquet" PROVE k = <<"parquet", k[2], 0>>
    BY <1>3 DEF Put, TriplesAreDescribed
  <1>4. ASSUME NEW k \in DOMAIN work', k[1] = "parquet", work'[k] # Half PROVE Describes(k)'
    <2> DEFINE d == <<"descriptor", k[2], 0>>
    <2>1. k \in DOMAIN work /\ work'[k] = work[k]
      BY <1>4 DEF Put
    <2>2. At(d)' = At(d)
      BY PutAt
    <2>3. work[k] \in undescribed \/ At(d) = work[k]
      BY <1>4, <2>1 DEF TriplesAreDescribed, Describes
    <2> QED
      BY <2>1, <2>2, <2>3 DEF Describes
  <1> QED
    BY <1>1, <1>2, <1>3, <1>4 DEF TriplesAreDescribed

LEMMA WriteStep ==
  ASSUME IInv, Busy, NEW keys, NEW next, Write(keys, next),
         \A k \in keys : Own(k) /\ Root(k, job) \in wrote \cup keys,
         job' = job, past' = past, manifests' = manifests
  PROVE  /\ \A k \in wrote' : /\ At(k)' = This' /\ Filed(k, job')
                              /\ Root(k, job') \in wrote'
         /\ WayIsFree' /\ ManifestsHold'
  <1> USE DEF Write
  <1>1. WayIsFree' /\ ManifestsHold'
    BY PutStep
  <1>2. ASSUME NEW k \in wrote'
        PROVE  At(k)' = This' /\ Filed(k, job') /\ Root(k, job') \in wrote'
    <2>1. At(k)' = IF k \in keys THEN This ELSE At(k)
      BY PutAt
    <2>2. This' = This
      BY DEF This
    <2> QED
      BY <2>1, <2>2 DEF IInv, WroteSoFar, Own
  <1> QED
    BY <1>1, <1>2

----------------------------------------------------------------------------
(* The steps, one lemma for each kind of action.                           *)

LEMMA EnrichStep ==
  ASSUME IInv, EnrichGraph
  PROVE  IInv'
  <1> USE DEF IInv
  <1>1. /\ stage \in EnrichmentStages
        /\ stage' \in EnrichmentStages \cup {"enriched", "failed"}
        /\ job' = job /\ UNCHANGED <<directory, jobs>>
    <2>1. ASSUME NEW i \in 1..4, \/ EnrichIntraSource(REGISTERED[i])
                                 \/ LinkerRaises(REGISTERED[i])
                                 \/ CountingRaises(REGISTERED[i])
          PROVE  stage \in EnrichmentStages /\ stage' \in EnrichmentStages /\ job' = job
      <3>1. stage = REGISTERED[i] /\ stage' = NextLinker(REGISTERED[i]) /\ job' = job
        BY <2>1 DEF EnrichIntraSource, LinkerRaises, CountingRaises
      <3>2. REGISTERED[i] \in EnrichmentStages
        BY DEF REGISTERED, EnrichmentStages
      <3> QED
        BY <3>1, <3>2, NextStages
    <2>2. ASSUME \/ UnionIntraSource \/ UnifyTemporal \/ LinkCrossSource \/ MapOntology
                 \/ OntologyRefused
          PROVE  /\ stage \in EnrichmentStages
                 /\ stage' \in EnrichmentStages \cup {"enriched", "failed"} /\ job' = job
      BY <2>2 DEF UnionIntraSource, UnifyTemporal, LinkCrossSource, MapOntology, OntologyRefused,
         Settle, EnrichmentStages
    <2>3. ASSUME StoreChanges
          PROVE  stage \in EnrichmentStages /\ stage' = stage /\ job' = job
      <3>1. \A i \in 1..4 : REGISTERED[i] \in EnrichmentStages
        BY DEF REGISTERED, EnrichmentStages
      <3> QED
        BY <2>3, <3>1 DEF StoreChanges, EnrichmentStages
    <2> QED
      BY <2>1, <2>2, <2>3 DEF EnrichGraph, RunEnrichment
  <1>2. Busy /\ stage # "describe"
    BY <1>1 DEF Busy, Idle, EnrichmentStages
  <1>3. WayIsFree' /\ ManifestsHold' /\ TriplesAreDescribed'
    BY <1>1, <1>2, QuietStep DEF jobs
  <1>4. StageAndMode'
    BY <1>1 DEF StageAndMode, jobs, This, Idle, OtherStages, S3Artifacts, EnrichmentStages, TableStages,
       GraphStages, GraphFiles
  <1>5. WroteSoFar'
    <2>1. wrote = {} /\ wrote' = {}
      BY <1>1 DEF WroteSoFar, directory
    <2> QED
      BY <1>1, <2>1 DEF WroteSoFar, Idle, EnrichmentStages, TableStages, GraphFiles
  <1>6. DaysAreSaid'
    BY <1>1 DEF DaysAreSaid, SaysItsDay, directory, jobs, This, EnrichmentStages, GraphStages, GraphFiles
  <1> QED
    BY <1>3, <1>4, <1>5, <1>6

LEMMA StartStep ==
  ASSUME IInv, NEW s \in DOMAIN Settings, ParseArgs(Settings[s])
  PROVE  IInv'
  <1> USE DEF IInv
  <1> DEFINE said == AsTold(JobConfig(Settings[s]))
  <1>1. /\ job'.mode = Settings[s].mode /\ job'.period = Settings[s].period
        /\ job'.overwrite = Settings[s].overwrite /\ job' = JobConfig(Settings[s])
        /\ past' = Append(past, said)
    BY SettingsAssumption DEF ParseArgs, JobConfig
  <1>2. /\ stage = Idle /\ stage' = "occupancy" /\ wrote' = wrote /\ wrote = {}
        /\ UNCHANGED <<work, graphs, manifests, stated, undescribed>>
    BY DEF ParseArgs, directory, WroteSoFar
  <1>3. /\ past' \in Seq({AsTold(JobConfig(Settings[x])) : x \in DOMAIN Settings})
        /\ This \in Nat /\ This' = This + 1 /\ past'[This + 1] = said
        /\ \A j \in 1..This : past'[j] = past[j]
    BY <1>1, Periods DEF StageAndMode, This
  <1>4. StageAndMode'
    BY <1>1, <1>2, <1>3, SettingsAssumption
    DEF StageAndMode, This, Idle, OtherStages, S3Artifacts, EnrichmentStages, TableStages, GraphStages, GraphFiles
  <1>5. WroteSoFar' /\ WayIsFree'
    BY <1>2 DEF WroteSoFar, WayIsFree, Idle, EnrichmentStages, TableStages, GraphFiles
  <1>6. ManifestsHold'
    <2>1. ASSUME NEW m \in manifests
          PROVE  /\ m.job \in 1..This' /\ m.job < This'
                 /\ \A k \in m.wrote :
                       /\ Filed(k, past'[m.job])
                       /\ Root(k, past'[m.job]) \in m.wrote
                       /\ At(k)' = m.job \/ Rewritten(k, m.job)'
      <3>1. m.job \in 1..This /\ past'[m.job] = past[m.job]
        BY <1>3 DEF ManifestsHold
      <3>2. ASSUME NEW k \in m.wrote PROVE At(k)' = m.job \/ Rewritten(k, m.job)'
        <4>1. At(k)' = At(k)
          BY <1>2 DEF At
        <4>2. ASSUME Rewritten(k, m.job) PROVE Rewritten(k, m.job)'
          BY <1>3, <3>1, <4>2 DEF Rewritten
        <4> QED
          BY <4>1, <4>2 DEF ManifestsHold
      <3> QED
        BY <1>3, <3>1, <3>2 DEF ManifestsHold
    <2> QED
      BY <1>2, <2>1 DEF ManifestsHold
  <1>7. TriplesAreDescribed'
    BY <1>2, <1>3 DEF TriplesAreDescribed, Describes, At, Half, Idle
  <1>8. DaysAreSaid'
    BY <1>2, <1>3 DEF DaysAreSaid, SaysItsDay, GraphStages, GraphFiles
  <1> QED
    BY <1>4, <1>5, <1>6, <1>7, <1>8

LEMMA OccupancyStep ==
  ASSUME IInv, check_work_dir_occupancy
  PROVE  IInv'
  <1> USE DEF IInv
  <1>1. /\ stage = "occupancy" /\ stage' \in {"failed", "descriptor", "load"} /\ job' = job
        /\ UNCHANGED <<directory, jobs>> /\ wrote = {}
        /\ stage' = "descriptor" <=> stage' # "failed" /\ job.mode = "pyg_only"
    BY DEF check_work_dir_occupancy, WroteSoFar
  <1>2. /\ At(Parquet)' = At(Parquet) /\ At(File("pt"))' = At(File("pt"))
        /\ This' = This /\ \A k, j : Rewritten(k, j)' = Rewritten(k, j) /\ At(k)' = At(k)
    BY <1>1 DEF At, Parquet, File, This, Rewritten, directory, jobs
  <1>3. StageAndMode'
    BY <1>1 DEF StageAndMode, jobs, This, Idle, OtherStages, S3Artifacts, EnrichmentStages, TableStages,
       GraphStages, GraphFiles
  <1>4. WroteSoFar'
    BY <1>1 DEF WroteSoFar, directory, EnrichmentStages, TableStages, GraphFiles
  <1>5. WayIsFree'
    <2>1. ASSUME stage' # "failed", ~job.overwrite
          PROVE  /\ job.mode \in TriplesModes => ~(At(Parquet) > 0)
                 /\ job.mode \in GraphModes => ~(At(File("pt")) # 0)
      BY <2>1 DEF check_work_dir_occupancy, Occupied, TriplesModes, GraphModes
    <2> QED
      BY <1>1, <1>2, <2>1, Periods DEF WayIsFree
  <1>6. ManifestsHold'
    BY <1>1, <1>2 DEF ManifestsHold, directory, jobs, Idle
  <1>7. TriplesAreDescribed'
    BY <1>1, <1>2 DEF TriplesAreDescribed, Describes, directory, jobs
  <1>8. DaysAreSaid'
    BY <1>1, <1>2 DEF DaysAreSaid, SaysItsDay, directory, jobs, GraphStages, GraphFiles
  <1> QED
    BY <1>3, <1>4, <1>5, <1>6, <1>7, <1>8

LEMMA LoadStep ==
  ASSUME IInv, LoadSourceTriples
  PROVE  IInv'
  <1> USE DEF IInv
  <1>1. /\ stage = "load" /\ job' = job /\ UNCHANGED <<directory, jobs>> /\ wrote = {}
        /\ (stage' \in {"failed", "manifest"} \/ (stage' = FirstLinker(1) /\ job.mode # "parse_only"))
    BY DEF LoadSourceTriples, WroteSoFar
  <1>2. \/ stage' \in {"failed", "manifest"}
        \/ stage' \in EnrichmentStages /\ job.mode # "parse_only"
    <2>1. FirstLinker(1) \in EnrichmentStages
      BY LinkerStages
    <2> QED
      BY <1>1, <2>1
  <1>3. WayIsFree' /\ ManifestsHold' /\ TriplesAreDescribed'
    BY <1>1, QuietStep DEF Busy, Idle, jobs
  <1>4. StageAndMode'
    BY <1>1, <1>2 DEF StageAndMode, jobs, This, Idle, OtherStages, S3Artifacts, EnrichmentStages, TableStages,
       GraphStages, GraphFiles, MODES, TriplesModes
  <1>5. WroteSoFar'
    BY <1>1, <1>2 DEF WroteSoFar, directory, EnrichmentStages, TableStages, GraphFiles
  <1>6. DaysAreSaid'
    BY <1>1, <1>2 DEF DaysAreSaid, SaysItsDay, directory, jobs, This, EnrichmentStages, GraphStages,
       GraphFiles
  <1> QED
    BY <1>3, <1>4, <1>5, <1>6

LEMMA ReadStep ==
  ASSUME IInv, LoadDatasetDescriptor \/ LoadEnrichedParquet
  PROVE  IInv'
  <1> USE DEF IInv
  <1>1. /\ stage \in {"descriptor", "read"} /\ stage' \in {"read", "build", "failed"} /\ job' = job
        /\ job.mode = "pyg_only" /\ wrote = {}
        /\ UNCHANGED <<directory, past, undescribed>>
    BY DEF LoadDatasetDescriptor, LoadEnrichedParquet, StageAndMode, WroteSoFar
  <1>2. WayIsFree' /\ ManifestsHold' /\ TriplesAreDescribed'
    BY <1>1, QuietStep DEF Busy, Idle
  <1>3. StageAndMode'
    BY <1>1 DEF StageAndMode, This, Idle, OtherStages, S3Artifacts, EnrichmentStages, TableStages, GraphStages,
       GraphFiles, GraphModes
  <1>4. WroteSoFar'
    BY <1>1 DEF WroteSoFar, directory, EnrichmentStages, TableStages, GraphFiles
  <1>5. (\A f \in DOMAIN graphs : SaysItsDay(graphs[f]))'
    BY <1>1 DEF DaysAreSaid, SaysItsDay, directory, This
  <1>6. CASE LoadDatasetDescriptor
    <2>1. SaidDay' = SaidDay
      BY <1>1 DEF SaidDay, At, Descriptor, directory
    <2>2. stage' = "read" => stated' = [of |-> 0, day |-> resolve_pyg_only_day(SaidDay, job.given)]
      BY <1>6 DEF LoadDatasetDescriptor
    <2>3. stage' \in {"read", "failed"}
      BY <1>6 DEF LoadDatasetDescriptor
    <2> QED
      BY <1>1, <1>2, <1>3, <1>4, <1>5, <2>1, <2>2, <2>3 DEF DaysAreSaid, GraphStages, GraphFiles
  <1>7. CASE LoadEnrichedParquet
    <2>1. stage = "read" /\ stage' \in {"build", "failed"}
      BY <1>7 DEF LoadEnrichedParquet
    <2>2. ASSUME stage' = "build" PROVE SaysItsDay(stated)'
      <3>1. /\ stated = [of |-> 0, day |-> resolve_pyg_only_day(SaidDay, job.given)]
            /\ job.elsewhere \/ At(Parquet) > 0
            /\ stated' = [stated EXCEPT !.of = IF job.elsewhere THEN 0 ELSE At(Parquet)]
        BY <1>7, <2>1, <2>2 DEF LoadEnrichedParquet, DaysAreSaid
      <3>2. stated'.of = (IF job.elsewhere THEN 0 ELSE At(Parquet)) /\ stated'.day = stated.day
        BY <3>1
      <3>3. CASE job.elsewhere
        BY <3>2, <3>3 DEF SaysItsDay
      <3>4. CASE ~job.elsewhere
        <4> DEFINE j == At(Parquet)
        <4>1. j > 0 /\ stated'.of = j
          BY <3>1, <3>2, <3>4
        <4>2. Parquet \in DOMAIN work /\ work[Parquet] = j /\ j # Half /\ j \in 1..This
          BY <4>1 DEF At, Half, TriplesAreDescribed
        <4>3. j \in undescribed \/ At(Descriptor) = j
          BY <2>1, <4>2 DEF TriplesAreDescribed, Describes, Parquet, Descriptor
        <4>4. ASSUME At(Descriptor) = j PROVE past[j].day \in {0, stated.day}
          BY <3>1, <3>4, <4>1, <4>4 DEF SaidDay, resolve_pyg_only_day
        <4> QED
          BY <1>1, <3>2, <4>1, <4>2, <4>3, <4>4 DEF SaysItsDay, This
      <3> QED
        BY <3>3, <3>4
    <2> QED
      BY <1>1, <1>2, <1>3, <1>4, <1>5, <2>1, <2>2 DEF DaysAreSaid, GraphStages, GraphFiles
  <1> QED
    BY <1>6, <1>7

\* The triples, then what they are of.
LEMMA TriplesStep ==
  ASSUME IInv, SaveEnrichedParquet
  PROVE  IInv'
  <1> USE DEF IInv
  <1>1. /\ stage = "enriched" /\ stage' = "describe" /\ job' = job /\ wrote = {}
        /\ Write({Parquet}, "describe") /\ Busy /\ job.mode \in TriplesModes
        /\ UNCHANGED <<graphs, manifests, past, stated, undescribed>>
    BY DEF SaveEnrichedParquet, WroteSoFar, StageAndMode, Busy, Idle, jobs, Write
  <1>2. Own(Parquet) /\ Root(Parquet, job) = Parquet
    BY <1>1, OwnKeys DEF Root, Parquet, GraphStages, GraphFiles
  <1>3. /\ \A k \in wrote' : At(k)' = This' /\ Filed(k, job') /\ Root(k, job') \in wrote'
        /\ WayIsFree' /\ ManifestsHold'
    BY <1>1, <1>2, WriteStep
  <1>4. StageAndMode'
    BY <1>1 DEF StageAndMode, This, Idle, OtherStages, S3Artifacts, EnrichmentStages, TableStages, GraphStages,
       GraphFiles
  <1>5. WroteSoFar'
    BY <1>1, <1>3 DEF WroteSoFar, Write, Parquet, Idle, EnrichmentStages, TableStages, GraphFiles
  <1>6. TriplesAreDescribed'
    <2>1. This' = This /\ Parquet' = Parquet /\ This \in 1..This
      BY <1>1, Periods DEF This, Parquet, StageAndMode, Idle
    <2>2. ASSUME NEW k \in DOMAIN work' PROVE work'[k] \in {Half} \cup 1..This
      BY <1>1, <2>1, <2>2 DEF Write, Put, TriplesAreDescribed
    <2>3. ASSUME NEW k \in DOMAIN work', k[1] = "parquet"
          PROVE  k = <<"parquet", k[2], 0>> /\ (work'[k] # Half => Describes(k)')
      <3>1. CASE k = Parquet
        BY <1>1, <2>1, <3>1 DEF Write, Put, Describes, Parquet
      <3>2. CASE k # Parquet
        <4> DEFINE d == <<"descriptor", k[2], 0>>
        <4>1. k \in DOMAIN work /\ work'[k] = work[k]
          BY <1>1, <2>3, <3>2 DEF Write, Put
        <4>2. d # Parquet
          BY DEF Parquet
        <4>3. At(d)' = At(d)
          BY <1>1, <4>2 DEF Write, Put, At
        <4>4. /\ k = <<"parquet", k[2], 0>>
              /\ work[k] # Half => work[k] \in undescribed \/ At(d) = work[k]
          BY <1>1, <2>3, <4>1 DEF TriplesAreDescribed, Describes
        <4> QED
          BY <1>1, <4>1, <4>3, <4>4 DEF Describes
      <3> QED
        BY <3>1, <3>2
    <2> QED
      BY <1>1, <2>1, <2>2, <2>3 DEF TriplesAreDescribed
  <1>7. DaysAreSaid'
    BY <1>1 DEF DaysAreSaid, SaysItsDay, This, GraphStages, GraphFiles
  <1> QED
    BY <1>3, <1>4, <1>5, <1>6, <1>7

\* The descriptor, or the word of it lost: the tables, the graph or the
\* manifest come next.
LEMMA DescribeStep ==
  ASSUME IInv, SaveDatasetDescriptor \/ DescriptorLost
  PROVE  IInv'
  <1> USE DEF IInv
  <1>1. /\ stage = "describe" /\ stage' \in {"tables", "build", "manifest"} /\ job' = job
        /\ Busy /\ job.mode \in TriplesModes /\ (stage' = "build" => job.mode = "full")
        /\ wrote = {Parquet} /\ At(Parquet) = This
        /\ UNCHANGED <<graphs, manifests, past, stated>>
    BY DEF SaveDatasetDescriptor, DescriptorLost, TablesOrNot, Write, WroteSoFar, StageAndMode,
       Busy, Idle, jobs
  <1>2. Own(Descriptor) /\ Root(Descriptor, job) = Parquet /\ Descriptor # Parquet
    BY <1>1, OwnKeys DEF Root, Descriptor, Parquet, GraphStages, GraphFiles
  <1>3. This' = This /\ Parquet' = Parquet /\ Descriptor' = Descriptor /\ This \in 1..This
    BY <1>1, Periods DEF This, Parquet, Descriptor, StageAndMode, Idle
  <1>4. /\ \A k \in wrote' : At(k)' = This' /\ Filed(k, job') /\ Root(k, job') \in wrote'
        /\ WayIsFree' /\ ManifestsHold' /\ Parquet \in wrote'
    <2>1. CASE SaveDatasetDescriptor
      BY <1>1, <1>2, <2>1, WriteStep DEF SaveDatasetDescriptor, Write
    <2>2. CASE DescriptorLost
      <3>1. wrote' = wrote /\ (work' = work \/ work' = Put({Descriptor}, Half))
        BY <2>2 DEF DescriptorLost
      <3>2. At(Parquet)' = This
        BY <1>1, <1>2, <1>3, <3>1 DEF At, Put
      <3>3. WayIsFree' /\ ManifestsHold'
        BY <1>1, <1>2, <3>1, Untouched, PutStep
      <3> QED
        BY <1>1, <1>3, <3>1, <3>2, <3>3 DEF WroteSoFar
    <2> QED
      BY <2>1, <2>2
  <1>5. StageAndMode'
    BY <1>1 DEF StageAndMode, This, Idle, OtherStages, S3Artifacts, EnrichmentStages, TableStages, GraphStages,
       GraphFiles, GraphModes
  <1>6. WroteSoFar'
    BY <1>1, <1>3, <1>4 DEF WroteSoFar, Idle, EnrichmentStages, TableStages, GraphFiles
  <1>7. TriplesAreDescribed'
    <2>1. /\ undescribed' \subseteq 1..This /\ undescribed \subseteq undescribed'
          /\ \/ work' = Put({Descriptor}, This)
             \/ (work' = work \/ work' = Put({Descriptor}, Half)) /\ This \in undescribed'
      BY <1>3 DEF SaveDatasetDescriptor, DescriptorLost, Write, jobs, TriplesAreDescribed
    <2>2. ASSUME NEW k \in DOMAIN work' PROVE work'[k] \in {Half} \cup 1..This
      BY <1>3, <2>1, <2>2 DEF Put, TriplesAreDescribed
    <2>3. ASSUME NEW k \in DOMAIN work', k[1] = "parquet"
          PROVE  k = <<"parquet", k[2], 0>> /\ (work'[k] # Half => Describes(k)')
      <3> DEFINE d == <<"descriptor", k[2], 0>>
      <3>1. k \in DOMAIN work /\ work'[k] = work[k]
        BY <2>1, <2>3 DEF Put, Descriptor
      <3>2. k = <<"parquet", k[2], 0>> /\ (work[k] # Half => Describes(k))
        BY <2>3, <3>1 DEF TriplesAreDescribed
      <3>3. CASE k = Parquet
        <4>1. work[k] = This /\ d = Descriptor
          BY <1>1, <3>1, <3>3 DEF At, Parquet, Descriptor
        <4>2. This \in undescribed' \/ At(d)' = This
          BY <2>1, <4>1 DEF Put, At
        <4> QED
          BY <3>1, <3>2, <4>1, <4>2 DEF Describes
      <3>4. CASE k # Parquet
        <4>1. d # Descriptor
          BY <3>2, <3>4 DEF Parquet, Descriptor
        <4>2. At(d)' = At(d)
          BY <2>1, <4>1 DEF Put, At
        <4> QED
          BY <2>1, <3>1, <3>2, <3>4, <4>2 DEF Describes
      <3> QED
        BY <3>3, <3>4
    <2> QED
      BY <1>3, <2>1, <2>2, <2>3 DEF TriplesAreDescribed
  <1>8. DaysAreSaid'
    <2>1. undescribed \subseteq undescribed'
      BY DEF SaveDatasetDescriptor, DescriptorLost, jobs
    <2> QED
      BY <1>1, <2>1 DEF DaysAreSaid, SaysItsDay, This, GraphStages, GraphFiles
  <1> QED
    BY <1>4, <1>5, <1>6, <1>7, <1>8

\* What a refusal leaves: everything but the stage.
LEMMA RefusedStep ==
  ASSUME IInv, Busy, stage # "describe", stage' = "failed", job' = job,
         UNCHANGED <<directory, jobs>>
  PROVE  IInv'
  <1> USE DEF IInv, directory, jobs
  <1>1. WayIsFree' /\ ManifestsHold' /\ TriplesAreDescribed'
    BY QuietStep
  <1>2. StageAndMode'
    BY DEF StageAndMode, This, Busy, OtherStages, Idle, S3Artifacts, EnrichmentStages, TableStages, GraphStages,
       GraphFiles
  <1>3. WroteSoFar'
    BY DEF WroteSoFar, At, This, Idle, EnrichmentStages, TableStages, GraphFiles
  <1>4. DaysAreSaid'
    BY DEF DaysAreSaid, SaysItsDay, This, GraphStages, GraphFiles
  <1> QED
    BY <1>1, <1>2, <1>3, <1>4

\* A table, or several, written under their day.
LEMMA TableStep ==
  ASSUME IInv, stage \in TableStages, NEW tables,
         tables \cap (GraphStages \cup {"parquet", "descriptor"}) = {},
         NEW next \in TableStages \cup {"build", "manifest"}, next = "build" => job.mode = "full",
         Write({Table(t) : t \in tables}, next), job' = job,
         UNCHANGED <<graphs, manifests, jobs>>
  PROVE  IInv'
  <1> USE DEF IInv, jobs
  <1> DEFINE keys == {Table(t) : t \in tables}
  <1>1. /\ Busy /\ stage # "describe" /\ stage # Idle /\ job.mode \in TriplesModes
        /\ Parquet \in wrote /\ stage' = next
    BY DEF Busy, TableStages, Idle, StageAndMode, WroteSoFar, Write
  <1>2. \A k \in keys : /\ Own(k) /\ Root(k, job) = Parquet
                        /\ k[1] \notin {"parquet", "descriptor"}
    BY <1>1, OwnKeys DEF Root, Table, Parquet
  <1>3. /\ \A k \in wrote' : At(k)' = This' /\ Filed(k, job') /\ Root(k, job') \in wrote'
        /\ WayIsFree' /\ ManifestsHold'
    <2>1. \A k \in keys : Own(k) /\ Root(k, job) \in wrote \cup keys
      BY <1>1, <1>2
    <2> QED
      BY <1>1, <2>1, WriteStep
  <1>4. StageAndMode'
    BY <1>1 DEF StageAndMode, This, Idle, OtherStages, S3Artifacts, EnrichmentStages, TableStages, GraphStages,
       GraphFiles, GraphModes
  <1>5. WroteSoFar'
    <2>1. Parquet' = Parquet /\ Parquet \in wrote'
      BY <1>1 DEF Parquet, Write
    <2> QED
      BY <1>1, <1>3, <2>1 DEF WroteSoFar, Idle, EnrichmentStages, TableStages, GraphFiles
  <1>6. TriplesAreDescribed'
    <2>1. work' = Put(keys, This) /\ undescribed' \subseteq 1..This
      BY DEF Write, TriplesAreDescribed
    <2> QED
      BY <1>1, <1>2, <2>1, OthersDescribed
  <1>7. DaysAreSaid'
    BY <1>1 DEF DaysAreSaid, SaysItsDay, This, TableStages, GraphStages, GraphFiles
  <1> QED
    BY <1>3, <1>4, <1>5, <1>6, <1>7

LEMMA TablesStep ==
  ASSUME IInv, WriteNodes \/ WriteEdges \/ WriteLiterals \/ WriteGraphStore \/ WriteFeeds
  PROVE  IInv'
  <1> USE DEF IInv
  <1>1. ASSUME stage \in TableStages, stage' = "failed", job' = job, UNCHANGED <<directory, jobs>>
        PROVE  IInv'
    BY <1>1, RefusedStep DEF Busy, TableStages, Idle
  <1>2. ASSUME stage \in TableStages, NEW tables,
               tables \subseteq {"nodes", "edges", "edge_types", "facts", "entities", "snapshots",
                                 "graph", "splits", "companyfacts", "minute_quotes"},
               NEW next \in TableStages \cup {"build", "manifest"}, next = "build" => job.mode = "full",
               Write({Table(t) : t \in tables}, next), job' = job,
               UNCHANGED <<graphs, manifests, jobs>>
        PROVE  IInv'
    <2>1. tables \cap (GraphStages \cup {"parquet", "descriptor"}) = {}
      BY <1>2 DEF GraphStages, GraphFiles
    <2> QED
      BY <1>2, <2>1, TableStep
  <1>3. CASE WriteNodes
    <2>1. CASE stage' = "failed"
      BY <1>1, <1>3, <2>1 DEF WriteNodes, TableStages, directory, Write
    <2>2. CASE stage' # "failed"
      <3>1. {Table("nodes")} = {Table(t) : t \in {"nodes"}}
        OBVIOUS
      <3>2. Write({Table(t) : t \in {"nodes"}}, "edges")
        BY <1>3, <2>2, <3>1 DEF WriteNodes
      <3> QED
        BY <1>2, <1>3, <3>2 DEF WriteNodes, TableStages
    <2> QED
      BY <2>1, <2>2
  <1>4. CASE WriteEdges
    <2>1. CASE stage' = "failed"
      BY <1>1, <1>4, <2>1 DEF WriteEdges, TableStages, directory, Write
    <2>2. CASE stage' # "failed"
      <3>1. {Table("edges"), Table("edge_types")} = {Table(t) : t \in {"edges", "edge_types"}}
        OBVIOUS
      <3>2. Write({Table(t) : t \in {"edges", "edge_types"}}, "literals")
        BY <1>4, <2>2, <3>1 DEF WriteEdges
      <3> QED
        BY <1>2, <1>4, <3>2 DEF WriteEdges, TableStages
    <2> QED
      BY <2>1, <2>2
  <1>5. CASE WriteLiterals
    <2> DEFINE tables == {"facts", "entities"}
                         \cup (IF SnapshotColumns(literals(graph, Frames.kept), Frames.nodes) = {}
                               THEN {} ELSE {"snapshots"})
    <2>1. {Table(t) : t \in tables}
            = {Table("facts"), Table("entities")}
              \cup (IF SnapshotColumns(literals(graph, Frames.kept), Frames.nodes) = {}
                    THEN {} ELSE {Table("snapshots")})
      OBVIOUS
    <2>2. Write({Table(t) : t \in tables}, "store")
      BY <1>5, <2>1 DEF WriteLiterals
    <2>3. tables \subseteq {"facts", "entities", "snapshots"}
      OBVIOUS
    <2> HIDE DEF tables
    <2> QED
      BY <1>2, <1>5, <2>2, <2>3 DEF WriteLiterals, TableStages
  <1>6. CASE WriteGraphStore
    <2>1. {Table("graph")} = {Table(t) : t \in {"graph"}}
      OBVIOUS
    <2>2. Write({Table(t) : t \in {"graph"}}, "feeds")
      BY <1>6, <2>1 DEF WriteGraphStore
    <2> QED
      BY <1>2, <1>6, <2>2 DEF WriteGraphStore, TableStages
  <1>7. CASE WriteFeeds
    <2> DEFINE split == read_splits(job.splits, job.day) = <<>>
               fact == read_companyfacts(job.companyfacts, job.day) = <<>>
               minute == read_minute_quotes(job.minutes) = <<>>
               tables == (IF split THEN {} ELSE {"splits"})
                         \cup (IF fact THEN {} ELSE {"companyfacts"})
                         \cup (IF minute THEN {} ELSE {"minute_quotes"})
               next == IF job.mode = "full" THEN "build" ELSE "manifest"
    <2>1. Write((IF split THEN {} ELSE {Table("splits")})
                \cup (IF fact THEN {} ELSE {Table("companyfacts")})
                \cup (IF minute THEN {} ELSE {Table("minute_quotes")}), next)
      BY <1>7 DEF WriteFeeds
    <2> HIDE DEF split, fact, minute
    <2>2. {Table(t) : t \in tables}
            = (IF split THEN {} ELSE {Table("splits")})
              \cup (IF fact THEN {} ELSE {Table("companyfacts")})
              \cup (IF minute THEN {} ELSE {Table("minute_quotes")})
      OBVIOUS
    <2>3. Write({Table(t) : t \in tables}, next)
      BY <2>1, <2>2
    <2>4. tables \subseteq {"splits", "companyfacts", "minute_quotes"}
      OBVIOUS
    <2> HIDE DEF tables
    <2> QED
      BY <1>2, <1>7, <2>3, <2>4 DEF WriteFeeds, TableStages
  <1> QED
    BY <1>3, <1>4, <1>5, <1>6, <1>7

LEMMA BuildStep ==
  ASSUME IInv, Build
  PROVE  IInv'
  <1> USE DEF IInv
  <1>1. /\ stage = "build" /\ stage' \in {"pt", "failed"} /\ job' = job /\ Busy
        /\ UNCHANGED <<directory, jobs>>
    BY DEF Build, Busy, Idle
  <1>2. WayIsFree' /\ ManifestsHold' /\ TriplesAreDescribed'
    BY <1>1, QuietStep DEF jobs
  <1>3. StageAndMode'
    BY <1>1 DEF StageAndMode, jobs, This, Idle, OtherStages, S3Artifacts, EnrichmentStages, TableStages,
       GraphStages, GraphFiles
  <1>4. WroteSoFar'
    BY <1>1 DEF WroteSoFar, At, This, directory, jobs, Idle, EnrichmentStages, TableStages, GraphFiles
  <1>5. DaysAreSaid'
    BY <1>1 DEF DaysAreSaid, SaysItsDay, directory, jobs, This, GraphStages, GraphFiles
  <1> QED
    BY <1>2, <1>3, <1>4, <1>5

\* An artifact of the graph: the .pt file first, then what goes with it.
LEMMA ArtifactStep ==
  ASSUME IInv, NEW a \in GraphStages, NEW next \in GraphFiles \cup {"manifest"},
         next \in S3Artifacts => job.archive,
         stage = a, Write({File(a)}, next), job' = job, UNCHANGED <<manifests, jobs>>,
         \A f \in DOMAIN graphs' : SaysItsDay(graphs'[f])
  PROVE  IInv'
  <1> USE DEF IInv, jobs
  <1>1. /\ Busy /\ stage # "describe" /\ stage # Idle /\ job.mode \in GraphModes
        /\ stage' = next /\ (a # "pt" => File("pt") \in wrote) /\ (a \in S3Artifacts => job.archive)
    BY DEF Busy, GraphStages, GraphFiles, Idle, StageAndMode, WroteSoFar, Write
  <1>2. /\ Own(File(a)) /\ Root(File(a), job) = File("pt")
        /\ File(a)[1] \notin {"parquet", "descriptor"} /\ (a = "pt" \/ File("pt") \in wrote)
    <2>1. File(a)[1] = IF a = "latest" THEN "metadata" ELSE a
      BY DEF File, FileOf
    <2> QED
      BY <1>1, <2>1, OwnKeys DEF Root, File, GraphStages, GraphFiles
  <1>3. /\ \A k \in wrote' : At(k)' = This' /\ Filed(k, job') /\ Root(k, job') \in wrote'
        /\ WayIsFree' /\ ManifestsHold'
    BY <1>1, <1>2, WriteStep
  <1>4. StageAndMode'
    BY <1>1 DEF StageAndMode, This, Idle, OtherStages, EnrichmentStages, TableStages, GraphStages,
       GraphFiles
  <1>5. WroteSoFar'
    <2>1. File("pt")' = File("pt") /\ File("pt") \in wrote'
      BY <1>2 DEF File, FileOf, Write
    <2> QED
      BY <1>1, <1>3, <2>1 DEF WroteSoFar, Idle, EnrichmentStages, TableStages, GraphFiles
  <1>6. TriplesAreDescribed'
    <2>1. work' = Put({File(a)}, This) /\ undescribed' \subseteq 1..This
      BY DEF Write, TriplesAreDescribed
    <2> QED
      BY <1>1, <1>2, <2>1, OthersDescribed
  <1>7. DaysAreSaid'
    <2>1. (\A f \in DOMAIN graphs : SaysItsDay(graphs[f]))'
      BY DEF SaysItsDay, This
    <2> QED
      BY <1>1, <2>1 DEF DaysAreSaid, SaysItsDay, This, GraphStages, GraphFiles
  <1> QED
    BY <1>3, <1>4, <1>5, <1>6, <1>7

LEMMA GraphStep ==
  ASSUME IInv, SavePyg \/ \E i \in 1..7 : SaveArtifact(i)
  PROVE  IInv'
  <1> USE DEF IInv
  <1>1. CASE SavePyg
    <2> DEFINE g == IF job.mode = "full" THEN [of |-> This, day |-> job.day] ELSE stated
    <2>1. /\ stage = "pt" /\ Write({File("pt")}, "metadata") /\ job' = job
          /\ UNCHANGED <<manifests, jobs>>
          /\ graphs' = [f \in DOMAIN graphs \cup {File("pt")} |->
                            IF f # File("pt") THEN graphs[f] ELSE g]
      BY <1>1 DEF SavePyg
    <2>2. SaysItsDay(g)
      <3>1. CASE job.mode = "full"
        <4>1. past[This].day = job.day /\ This \in 1..This
          BY <2>1 DEF StageAndMode, This, Idle, AsTold
        <4> QED
          BY <3>1, <4>1 DEF SaysItsDay
      <3>2. CASE job.mode # "full"
        BY <2>1, <3>2 DEF DaysAreSaid, GraphStages
      <3> QED
        BY <3>1, <3>2
    <2> HIDE DEF g
    <2>3. \A f \in DOMAIN graphs' : SaysItsDay(graphs'[f])
      BY <2>1, <2>2 DEF DaysAreSaid
    <2> QED
      BY <2>1, <2>3, ArtifactStep DEF GraphStages, GraphFiles, S3Artifacts
  <1>2. CASE \E i \in 1..7 : SaveArtifact(i)
    <2>1. PICK i \in 1..7 : SaveArtifact(i)
      BY <1>2
    <2>2. ArtifactsInOrder[i] \in GraphFiles /\ AfterArtifact(i) \in GraphFiles \cup {"manifest"}
      BY DEF ArtifactsInOrder, AfterArtifact, GraphFiles
    <2>4. AfterArtifact(i) \in S3Artifacts => job.archive
      <3>1. i >= 5 => stage \in S3Artifacts
        BY <2>1 DEF SaveArtifact, ArtifactsInOrder, S3Artifacts
      <3>2. i < 4 => AfterArtifact(i) \notin S3Artifacts
        BY DEF AfterArtifact, ArtifactsInOrder, S3Artifacts
      <3>3. i = 4 /\ ~job.archive => AfterArtifact(i) \notin S3Artifacts
        BY DEF AfterArtifact, ArtifactsInOrder, S3Artifacts
      <3> QED
        BY <3>1, <3>2, <3>3 DEF StageAndMode
    <2>3. \A f \in DOMAIN graphs' : SaysItsDay(graphs'[f])
      BY <2>1 DEF SaveArtifact, DaysAreSaid
    <2> QED
      BY <2>1, <2>2, <2>3, <2>4, ArtifactStep DEF SaveArtifact, GraphStages
  <1> QED
    BY <1>1, <1>2

\* The end of a job, with its manifest or without: the next one may start.
LEMMA ClearedStep ==
  ASSUME IInv, Cleared
  PROVE  StageAndMode' /\ WroteSoFar' /\ WayIsFree'
  <1>1. StageAndMode'
    BY DEF IInv, Cleared, StageAndMode, Idle, OtherStages, S3Artifacts, EnrichmentStages, TableStages,
       GraphStages, GraphFiles
  <1>2. WroteSoFar' /\ WayIsFree'
    BY DEF Cleared, WroteSoFar, WayIsFree, Idle, TableStages, GraphFiles
  <1> QED
    BY <1>1, <1>2

LEMMA ManifestStep ==
  ASSUME IInv, SaveJobManifest
  PROVE  IInv'
  <1> USE DEF IInv
  <1> DEFINE m == [job |-> This, wrote |-> wrote]
  <1>1. /\ stage = "manifest" /\ stage' = Idle /\ manifests' \subseteq manifests \cup {m}
        /\ UNCHANGED <<work, past, graphs, undescribed>>
        /\ This \in 1..This /\ past[This] = AsTold(job)
    BY DEF SaveJobManifest, Cleared, StageAndMode, Idle, This
  <1>2. StageAndMode' /\ WroteSoFar' /\ WayIsFree'
    BY ClearedStep DEF SaveJobManifest
  <1>3. ManifestsHold'
    <2>1. \A k \in wrote : /\ Filed(k, past[This])
                           /\ Root(k, past[This]) \in wrote /\ At(k) = This
      BY <1>1, ToldPlaces DEF WroteSoFar
    <2>2. /\ \A k, j : Rewritten(k, j)' = Rewritten(k, j) /\ At(k)' = At(k)
          /\ This' = This
      BY <1>1 DEF Rewritten, At, This
    <2>3. ASSUME NEW x \in manifests'
          PROVE  /\ x.job \in 1..This
                 /\ \A k \in x.wrote : /\ Filed(k, past[x.job])
                                       /\ Root(k, past[x.job]) \in x.wrote
                                       /\ At(k) = x.job \/ Rewritten(k, x.job)
      <3>1. CASE x = m
        BY <1>1, <2>1, <3>1
      <3>2. CASE x \in manifests
        BY <3>2 DEF ManifestsHold
      <3> QED
        BY <1>1, <2>3, <3>1, <3>2
    <2> QED
      BY <1>1, <2>2, <2>3 DEF ManifestsHold
  <1>4. TriplesAreDescribed' /\ DaysAreSaid'
    BY <1>1 DEF TriplesAreDescribed, DaysAreSaid, SaysItsDay, Describes, At, This, Idle, GraphStages,
       GraphFiles
  <1> QED
    BY <1>2, <1>3, <1>4

LEMMA EndStep ==
  ASSUME IInv, JobEnds
  PROVE  IInv'
  <1> USE DEF IInv
  <1>1. /\ stage # Idle /\ stage' = Idle /\ (work' = work \/ work' = Put(BeingWritten, Half))
        /\ undescribed \subseteq undescribed' /\ undescribed' \subseteq undescribed \cup {This}
        /\ (stage = "describe" => This \in undescribed') /\ UNCHANGED <<past, graphs, manifests>>
        /\ This \in 1..This /\ This' = This
    BY DEF JobEnds, Cleared, StageAndMode, This
  <1>2. StageAndMode' /\ WroteSoFar' /\ WayIsFree'
    BY ClearedStep DEF JobEnds
  <1>3. /\ BeingWritten # {} => Busy
        /\ \A k \in BeingWritten : /\ Own(k)
                                   /\ k[1] = "parquet" => k = Parquet
                                   /\ k[1] = "descriptor" => k = Descriptor /\ stage = "describe"
    <2>1. {"pt"} \cup {ArtifactsInOrder[i] : i \in 1..7} = GraphStages
      BY DEF ArtifactsInOrder, GraphStages, GraphFiles
    <2> DEFINE table == IF stage = "tables" THEN "nodes" ELSE IF stage = "edges" THEN "edges"
                        ELSE IF stage = "literals" THEN "facts" ELSE "graph"
    <2>2. CASE stage \in {"enriched", "describe"}
      <3>1. Busy /\ job.mode \in TriplesModes
        BY <2>2 DEF Busy, Idle, StageAndMode
      <3>2. BeingWritten = IF stage = "enriched" THEN {Parquet} ELSE {Descriptor}
        BY <2>1, <2>2 DEF BeingWritten, GraphStages, GraphFiles
      <3> QED
        BY <2>2, <3>1, <3>2, OwnKeys DEF Parquet, Descriptor
    <2>3. CASE stage \in {"tables", "edges", "literals", "store"}
      <3>1. job.mode \in TriplesModes /\ Busy
        BY <2>3 DEF StageAndMode, TableStages, Busy, Idle
      <3>2. BeingWritten = {Table(table)}
        <4>1. CASE stage = "tables"
          BY <2>1, <4>1 DEF BeingWritten, GraphStages, GraphFiles
        <4>2. CASE stage = "edges"
          BY <2>1, <4>2 DEF BeingWritten, GraphStages, GraphFiles
        <4>3. CASE stage = "literals"
          BY <2>1, <4>3 DEF BeingWritten, GraphStages, GraphFiles
        <4>4. CASE stage = "store"
          BY <2>1, <4>4 DEF BeingWritten, GraphStages, GraphFiles
        <4> QED
          BY <2>3, <4>1, <4>2, <4>3, <4>4
      <3>3. table \notin GraphStages \cup {"parquet", "descriptor"}
        BY DEF GraphStages, GraphFiles
      <3> HIDE DEF table
      <3>4. Own(Table(table)) /\ Table(table)[1] = table
        BY <3>1, <3>3, OwnKeys DEF Table
      <3> QED
        BY <3>1, <3>2, <3>3, <3>4
    <2>4. CASE stage \in GraphStages
      <3>1. job.mode \in GraphModes /\ Busy
        BY <2>4 DEF StageAndMode, GraphStages, GraphFiles, Busy, Idle
      <3>2. BeingWritten = {File(stage)}
        BY <2>1, <2>4 DEF BeingWritten, GraphStages, GraphFiles
      <3>3. Own(File(stage))
        BY <2>4, <3>1, OwnKeys DEF StageAndMode
      <3>4. File(stage)[1] = IF stage = "latest" THEN "metadata" ELSE stage
        BY DEF File, FileOf
      <3> QED
        BY <2>4, <3>1, <3>2, <3>3, <3>4 DEF GraphStages, GraphFiles
    <2>5. CASE stage \notin {"enriched", "describe", "tables", "edges", "literals", "store"}
                             \cup GraphStages
      <3>1. BeingWritten = {}
        BY <2>1, <2>5 DEF BeingWritten
      <3> QED
        BY <3>1
    <2> QED
      BY <2>2, <2>3, <2>4, <2>5
  <1>4. ManifestsHold'
    <2>1. CASE work' = work \/ BeingWritten = {}
      <3>1. \A k, j : Rewritten(k, j)' = Rewritten(k, j) /\ At(k)' = At(k)
        BY <1>1, <2>1 DEF Rewritten, At, Put
      <3> QED
        BY <1>1, <3>1 DEF ManifestsHold
    <2>2. CASE work' = Put(BeingWritten, Half) /\ BeingWritten # {}
      <3>1. Busy /\ \A k \in BeingWritten : Own(k)
        BY <1>3, <2>2
      <3> DEFINE keys == BeingWritten
      <3>2. \A k \in keys : Own(k)
        BY <3>1
      <3>3. work' = Put(keys, Half)
        BY <2>2
      <3> HIDE DEF keys
      <3> QED
        BY <1>1, <3>1, <3>2, <3>3, ManifestsStay DEF ManifestsHold
    <2> QED
      BY <1>1, <2>1, <2>2
  <1>5. TriplesAreDescribed'
    <2>1. ASSUME NEW k \in DOMAIN work' PROVE work'[k] \in {Half} \cup 1..This
      BY <1>1, <2>1 DEF Put, TriplesAreDescribed
    <2>2. ASSUME NEW k \in DOMAIN work', k[1] = "parquet"
          PROVE  k = <<"parquet", k[2], 0>> /\ (work'[k] # Half => Describes(k)')
      <3> DEFINE d == <<"descriptor", k[2], 0>>
      <3>1. CASE k \in BeingWritten /\ work' = Put(BeingWritten, Half)
        BY <1>3, <2>2, <3>1 DEF Put, Parquet
      <3>2. CASE work' = work \/ k \notin BeingWritten
        <4>1. k \in DOMAIN work /\ work'[k] = work[k]
          BY <1>1, <2>2, <3>2 DEF Put
        <4>2. k = <<"parquet", k[2], 0>> /\ (work[k] # Half => Describes(k))
          BY <2>2, <4>1 DEF TriplesAreDescribed
        <4>3. CASE At(d)' = At(d)
          BY <1>1, <4>1, <4>2, <4>3 DEF Describes
        <4>4. CASE At(d)' # At(d)
          <5>1. d \in BeingWritten
            BY <1>1, <4>4 DEF Put, At
          <5>2. d = Descriptor /\ stage = "describe"
            BY <1>3, <5>1
          <5>3. k = Parquet /\ At(Parquet) = This
            BY <4>2, <5>2 DEF Descriptor, Parquet, WroteSoFar
          <5> QED
            BY <1>1, <4>1, <4>2, <5>2, <5>3 DEF Describes, At
        <4> QED
          BY <4>3, <4>4
      <3> QED
        BY <1>1, <3>1, <3>2
    <2> QED
      BY <1>1, <2>1, <2>2 DEF TriplesAreDescribed
  <1>6. DaysAreSaid'
    BY <1>1 DEF DaysAreSaid, SaysItsDay, Idle, GraphStages, GraphFiles
  <1> QED
    BY <1>2, <1>4, <1>5, <1>6

LEMMA StutterStep ==
  ASSUME IInv, UNCHANGED vars
  PROVE  IInv'
  <1> USE DEF IInv, vars, directory, jobs, enrichment
  <1>1. \A k : At(k)' = At(k)
    BY DEF At
  <1>2. This' = This /\ Parquet' = Parquet /\ File("pt")' = File("pt") /\ Descriptor' = Descriptor
    BY DEF This, Parquet, File, Descriptor
  <1>3. \A k, j : Rewritten(k, j)' = Rewritten(k, j)
    BY <1>2 DEF Rewritten
  <1>4. StageAndMode' /\ WroteSoFar' /\ WayIsFree' /\ ManifestsHold'
    BY <1>1, <1>2, <1>3 DEF StageAndMode, WroteSoFar, WayIsFree, ManifestsHold
  <1>5. TriplesAreDescribed' /\ DaysAreSaid'
    BY <1>1, <1>2 DEF TriplesAreDescribed, Describes, DaysAreSaid, SaysItsDay, SaidDay
  <1> QED
    BY <1>4, <1>5

\* The jobs to come are of the settings.
QueueOfSettings == queue \in Seq(SUBSET DOMAIN Settings)
LEMMA StepQueue == QueueOfSettings /\ [Next]_vars => QueueOfSettings'
  <1> SUFFICES ASSUME QueueOfSettings, [Next]_vars PROVE QueueOfSettings'
    OBVIOUS
  <1> USE DEF QueueOfSettings
  <1>1. CASE \E s \in IF queue = << >> THEN {} ELSE Head(queue) : ParseArgs(Settings[s])
    <2>1. queue # << >> /\ queue' = Tail(queue)
      BY <1>1 DEF ParseArgs
    <2> QED
      BY <2>1
  <1>2. CASE RunJob /\ ~\E s \in IF queue = << >> THEN {} ELSE Head(queue) : ParseArgs(Settings[s])
    <2>1. queue' = queue
      BY <1>2 DEF RunJob, check_work_dir_occupancy, LoadSourceTriples, SaveEnrichedParquet,
         SaveDatasetDescriptor, DescriptorLost, LoadDatasetDescriptor, LoadEnrichedParquet,
         WriteNodes, WriteEdges, WriteLiterals, WriteGraphStore, WriteFeeds, Build, SavePyg,
         SaveArtifact, SaveJobManifest, JobEnds, Cleared, jobs
    <2> QED
      BY <2>1
  <1>3. CASE EnrichGraph \/ UNCHANGED vars
    BY <1>3 DEF EnrichGraph, vars, jobs
  <1> QED
    BY <1>1, <1>2, <1>3 DEF Next, RunJob

LEMMA StepIInv == IInv /\ QueueOfSettings /\ [Next]_vars => IInv'
  <1> SUFFICES ASSUME IInv, QueueOfSettings, [Next]_vars PROVE IInv'
    OBVIOUS
  <1>1. CASE RunJob
    <2>1. ASSUME NEW s \in IF queue = << >> THEN {} ELSE Head(queue), ParseArgs(Settings[s])
          PROVE  IInv'
      <3>1. s \in DOMAIN Settings
        BY <2>1 DEF QueueOfSettings
      <3> QED
        BY <2>1, <3>1, StartStep
    <2> QED
      BY <1>1, <2>1, OccupancyStep, LoadStep, TriplesStep, DescribeStep, ReadStep, TablesStep,
         BuildStep, GraphStep, ManifestStep, EndStep DEF RunJob
  <1>2. CASE EnrichGraph
    BY <1>2, EnrichStep
  <1>3. CASE UNCHANGED vars
    BY <1>3, StutterStep
  <1> QED
    BY <1>1, <1>2, <1>3 DEF Next

----------------------------------------------------------------------------
\* Every job keeps the invariant: one stage after another, no finished run's
\* triples or graph in its way, each artifact of a manifest its job's own or
\* free to be replaced, each set of triples said to be of its job's day.
THEOREM Invariance == Spec => []IInv
  <1>1. Init => IInv /\ QueueOfSettings
    BY InitIInv, SettingsAssumption DEF Init, QueueOfSettings
  <1> QED
    BY <1>1, StepIInv, StepQueue, PTL DEF Spec

\* What a manifest says a job wrote stays, whole, until a job is told to
\* overwrite or files another period under the same day or newest name: the
\* occupancy check (persistence.py) looks at two artifacts for all of them.
THEOREM FinishedRunsKeep == Spec => []FinishedRunsKeepTheirArtifacts
  <1>1. IInv => FinishedRunsKeepTheirArtifacts
    BY DEF IInv, ManifestsHold, FinishedRunsKeepTheirArtifacts
  <1> QED
    BY <1>1, Invariance, PTL

\* A graph states the day of the triples it was built from, whatever ended
\* before it, unless the job that stored the triples lost their descriptor.
THEOREM GraphStatesDay == Spec => []GraphStatesItsDay
  <1>1. IInv => GraphStatesItsDay
    BY DEF IInv, DaysAreSaid, SaysItsDay, GraphStatesItsDay
  <1> QED
    BY <1>1, Invariance, PTL

----------------------------------------------------------------------------
(* The query tables, of any graph whatever the linkers made of it.         *)

\* What the tables take of the triples: a subject is a URI, never a literal; and a
\* source day is no fact of another source day, so that none is dated by one.
SubjectsAreUris == \A t \in graph : KindOf(t[1]) \notin LiteralKinds
DaysDateNoDays ==
    \A t \in Frames.edges :
        ~(Frames.nodes[t[1]] = SOURCE_DAY_TYPE /\ Frames.nodes[t[3]] = SOURCE_DAY_TYPE)

\* The nodes of a graph are subjects of it, and its edges join two of them.
LEMMA NodesAndEdges ==
  ASSUME NEW G
  PROVE  LET N == build_node_id_table(G)
         IN  /\ \A u \in DOMAIN N : \E t \in G : t[1] = u
             /\ \A t \in resolve_edges(G, N) : t \in G /\ t[1] \in DOMAIN N /\ t[3] \in DOMAIN N
  <1>1. \A u \in DOMAIN build_node_id_table(G) : \E t \in G : t[1] = u
    BY DEF build_node_id_table, Rel
  <1> QED
    BY <1>1 DEF resolve_edges

\* The days left out are source days and unified days, so they are of kept types: such
\* a node is left out exactly when it is one of them.
LEMMA LeftOutIsDays ==
  ASSUME NEW N, NEW E, NEW u \in DOMAIN N, N[u] \in {SOURCE_DAY_TYPE, UNIFIED_DAY_TYPE}
  PROVE  LET days == days_only_left_out_nodes_dated(E, N)
         IN  /\ u \in kept_node(N, days) <=> u \notin days
             /\ u \in DOMAIN N \ kept_node(N, days) <=> u \in days
  BY DEF kept_node, NodesOf, LEFT_OUT_NODE_TYPES, SOURCE_DAY_TYPE, UNIFIED_DAY_TYPE

\* The types of the nodes that date a day, and which source days are left out.
Dating(E, N, d) == {N[t[1]] : t \in {e \in E : e[3] = d}} \ {UNIFIED_DAY_TYPE}
SourceDaysLeft(E, N) ==
    {d \in NodesOf(N, {SOURCE_DAY_TYPE}) :
        Dating(E, N, d) # {} /\ Dating(E, N, d) \subseteq LEFT_OUT_NODE_TYPES}
DaysFor(E, N, u) == {t[3] : t \in {e \in E : e[1] = u /\ e[3] \in NodesOf(N, {SOURCE_DAY_TYPE})}}

\* A day left out is a source day left out, or a unified day for no other.
LEMMA DaysLeft ==
  ASSUME NEW N, NEW E
  PROVE  days_only_left_out_nodes_dated(E, N) =
            SourceDaysLeft(E, N)
            \cup {u \in NodesOf(N, {UNIFIED_DAY_TYPE}) :
                     DaysFor(E, N, u) # {} /\ DaysFor(E, N, u) \subseteq SourceDaysLeft(E, N)}
  BY DEF days_only_left_out_nodes_dated, SourceDaysLeft, Dating, DaysFor

\* A source day goes exactly when what dates it, but for unified days, goes.
LEMMA SourceDayGoes ==
  ASSUME NEW N, NEW E, \A t \in E : t[1] \in DOMAIN N /\ t[3] \in DOMAIN N,
         \A t \in E : ~(N[t[1]] = SOURCE_DAY_TYPE /\ N[t[3]] = SOURCE_DAY_TYPE),
         NEW d \in NodesOf(N, {SOURCE_DAY_TYPE}),
         {t[1] : t \in {e \in E : e[3] = d}} \ NodesOf(N, {UNIFIED_DAY_TYPE}) # {}
  PROVE  LET days == days_only_left_out_nodes_dated(E, N)
             By == {t[1] : t \in {e \in E : e[3] = d}} \ NodesOf(N, {UNIFIED_DAY_TYPE})
         IN  d \in days <=> By \cap kept_node(N, days) = {}
  <1> DEFINE days == days_only_left_out_nodes_dated(E, N)
             By == {t[1] : t \in {e \in E : e[3] = d}} \ NodesOf(N, {UNIFIED_DAY_TYPE})
  <1>0. d \in DOMAIN N /\ N[d] = SOURCE_DAY_TYPE /\ SOURCE_DAY_TYPE # UNIFIED_DAY_TYPE
    BY DEF NodesOf, SOURCE_DAY_TYPE, UNIFIED_DAY_TYPE
  <1>1. ASSUME NEW s \in By
        PROVE  /\ s \in DOMAIN N /\ N[s] \in Dating(E, N, d)
               /\ N[s] # SOURCE_DAY_TYPE /\ N[s] # UNIFIED_DAY_TYPE
    <2>1. PICK t \in E : t[3] = d /\ t[1] = s
      OBVIOUS
    <2>2. s \in DOMAIN N /\ N[s] # SOURCE_DAY_TYPE /\ N[s] # UNIFIED_DAY_TYPE
      BY <1>0, <2>1 DEF NodesOf
    <2> QED
      BY <2>1, <2>2 DEF Dating
  <1>2. ASSUME NEW c \in Dating(E, N, d) PROVE \E s \in By : N[s] = c
    <2>1. PICK t \in E : t[3] = d /\ N[t[1]] = c /\ c # UNIFIED_DAY_TYPE
      BY DEF Dating
    <2>2. t[1] \in By
      BY <2>1 DEF NodesOf
    <2> QED
      BY <2>1, <2>2
  <1>3. d \in days <=> Dating(E, N, d) # {} /\ Dating(E, N, d) \subseteq LEFT_OUT_NODE_TYPES
    <2>1. d \notin NodesOf(N, {UNIFIED_DAY_TYPE})
      BY <1>0 DEF NodesOf
    <2> QED
      BY <2>1, DaysLeft DEF SourceDaysLeft
  <1>4. ASSUME NEW s \in By PROVE s \notin kept_node(N, days) <=> N[s] \in LEFT_OUT_NODE_TYPES
    <2>1. s \notin days
      BY <1>1, DaysLeft DEF SourceDaysLeft, NodesOf
    <2> QED
      BY <1>1, <2>1 DEF kept_node, NodesOf
  <1>5. Dating(E, N, d) # {}
    BY <1>1
  <1>6. Dating(E, N, d) \subseteq LEFT_OUT_NODE_TYPES <=> By \cap kept_node(N, days) = {}
    BY <1>1, <1>2, <1>4
  <1> QED
    BY <1>3, <1>5, <1>6

\* A unified day goes exactly when every source day it stands for goes.
LEMMA UnifiedDayGoes ==
  ASSUME NEW N, NEW E, \A t \in E : t[1] \in DOMAIN N /\ t[3] \in DOMAIN N,
         NEW u \in NodesOf(N, {UNIFIED_DAY_TYPE}),
         {t[3] : t \in {e \in E : e[1] = u}} \cap NodesOf(N, {SOURCE_DAY_TYPE}) # {}
  PROVE  LET days == days_only_left_out_nodes_dated(E, N)
             Stands == {t[3] : t \in {e \in E : e[1] = u}} \cap NodesOf(N, {SOURCE_DAY_TYPE})
         IN  u \in days <=> Stands \cap kept_node(N, days) = {}
  <1> DEFINE days == days_only_left_out_nodes_dated(E, N)
             Stands == {t[3] : t \in {e \in E : e[1] = u}} \cap NodesOf(N, {SOURCE_DAY_TYPE})
  <1>0. u \in DOMAIN N /\ N[u] = UNIFIED_DAY_TYPE /\ SOURCE_DAY_TYPE # UNIFIED_DAY_TYPE
    BY DEF NodesOf, SOURCE_DAY_TYPE, UNIFIED_DAY_TYPE
  <1>1. Stands = DaysFor(E, N, u)
    BY DEF DaysFor
  <1>2. ASSUME NEW d \in Stands PROVE d \notin kept_node(N, days) <=> d \in SourceDaysLeft(E, N)
    <2>1. d \in DOMAIN N /\ N[d] = SOURCE_DAY_TYPE
      BY DEF NodesOf
    <2>2. d \in days <=> d \in SourceDaysLeft(E, N)
      BY <1>0, <2>1, DaysLeft DEF NodesOf
    <2>3. d \in kept_node(N, days) <=> d \notin days
      BY <2>1, LeftOutIsDays
    <2> QED
      BY <2>2, <2>3
  <1>3. u \in days <=> DaysFor(E, N, u) # {} /\ DaysFor(E, N, u) \subseteq SourceDaysLeft(E, N)
    <2>1. u \notin SourceDaysLeft(E, N)
      BY <1>0 DEF SourceDaysLeft, NodesOf
    <2> QED
      BY <2>1, DaysLeft
  <1> HIDE DEF days, Stands
  <1>4. u \in days <=> Stands \cap kept_node(N, days) = {}
    <2>1. Stands # {}
      BY DEF Stands
    <2> QED
      BY <1>1, <1>2, <1>3, <2>1
  <1> QED
    BY <1>4 DEF days, Stands

\* The tables keep each other's company (graph/tables.py): for any graph whose
\* subjects are URIs and whose source days date no source day, the store names no
\* node that a table left out, the facts are in the store, and a day is left out
\* exactly when all that is dated by it is.
THEOREM TablesKeepCompany == Spec => [](SubjectsAreUris /\ DaysDateNoDays => TablesAgree)
  <1>1. SubjectsAreUris /\ DaysDateNoDays => TablesAgree
    <2> SUFFICES ASSUME SubjectsAreUris, DaysDateNoDays PROVE TablesAgree
      OBVIOUS
    <2> DEFINE N == build_node_id_table(graph)
               E == resolve_edges(graph, N)
               days == days_only_left_out_nodes_dated(E, N)
               kept == kept_node(N, days)
    <2>1. /\ Frames.nodes = N /\ Frames.edges = E /\ Frames.days = days /\ Frames.kept = kept
      BY DEF Frames
    <2>2. /\ \A u \in DOMAIN N : \E t \in graph : t[1] = u
          /\ \A t \in E : t \in graph /\ t[1] \in DOMAIN N /\ t[3] \in DOMAIN N
      BY NodesAndEdges
    <2>3. \A t \in E : ~(N[t[1]] = SOURCE_DAY_TYPE /\ N[t[3]] = SOURCE_DAY_TYPE)
      BY <2>1 DEF DaysDateNoDays
    <2>4. \A d \in days : d \in DOMAIN N
      BY DaysLeft DEF SourceDaysLeft, NodesOf
    <2>5. \A d \in days : KindOf(d) \notin LiteralKinds
      BY <2>2, <2>4 DEF SubjectsAreUris
    <2>6. kept = DOMAIN N \ (NodesOf(N, LEFT_OUT_NODE_TYPES) \cup days)
      BY DEF kept_node
    <2> HIDE DEF N, E, days, kept
    <2>7. \A t \in store_triples(graph, N, days) : t[1] \notin DOMAIN N \ kept /\ t[3] \notin days
      BY <2>6 DEF store_triples, NodesOf
    <2>8. ASSUME NEW d \in NodesOf(N, {SOURCE_DAY_TYPE}),
                 {t[1] : t \in {e \in E : e[3] = d}} \ NodesOf(N, {UNIFIED_DAY_TYPE}) # {}
          PROVE  d \in DOMAIN N \ kept <=>
                    ({t[1] : t \in {e \in E : e[3] = d}} \ NodesOf(N, {UNIFIED_DAY_TYPE}))
                        \cap kept = {}
      <3>1. d \in DOMAIN N \ kept <=> d \in days
        BY LeftOutIsDays DEF days, kept, NodesOf
      <3> QED
        BY <2>2, <2>3, <2>8, <3>1, SourceDayGoes DEF days, kept
    <2>9. ASSUME NEW u \in NodesOf(N, {UNIFIED_DAY_TYPE}),
                 {t[3] : t \in {e \in E : e[1] = u}} \cap NodesOf(N, {SOURCE_DAY_TYPE}) # {}
          PROVE  u \in DOMAIN N \ kept <=>
                    ({t[3] : t \in {e \in E : e[1] = u}} \cap NodesOf(N, {SOURCE_DAY_TYPE}))
                        \cap kept = {}
      <3>1. u \in DOMAIN N \ kept <=> u \in days
        BY LeftOutIsDays DEF days, kept, NodesOf
      <3> QED
        BY <2>2, <2>9, <3>1, UnifiedDayGoes DEF days, kept
    <2>10. write_facts(literals(graph, kept), N) \subseteq store_triples(graph, N, days)
      BY <2>5, <2>6 DEF write_facts, literals, store_triples, IsSnapshot, NodesOf
    <2> QED
      BY <2>1, <2>7, <2>8, <2>9, <2>10 DEF TablesAgree
  <1> QED
    BY <1>1, PTL
=============================================================================
