------------------------------ MODULE Nightly ------------------------------
(***************************************************************************)
(* bin/daily_run.sh: one night after another of a schedule.  A night makes *)
(* a run directory, builds, publishes, archives, and only then prunes what *)
(* earlier nights left; any step may end it.                               *)
(*                                                                         *)
(* A night works under the schedule's lock, so nights do not overlap.  Run *)
(* ids grow with time; the data day need not, since a day can be given     *)
(* with --data-date.  Publishing is taken as Publish shows it (a run is    *)
(* listed or it is not, and stays listed), the archive as Archive shows it *)
(* (a day's marker stands for a whole copy; it comes and goes at once).    *)
(***************************************************************************)
EXTENDS Naturals, FiniteSets

CONSTANTS
    MaxRun,       \* bound on the nights: run ids are 1..MaxRun, in order
    LastDay,      \* the data days are 1..LastDay, in order
    Retain,       \* PYG_SCHEDULE_RETAIN_RUNS
    ArchiveDays,  \* PYG_SCHEDULE_ARCHIVE_DAYS
    MaxFaults     \* bound on failing listings, failing steps and kills together

Run == 1..MaxRun
Day == 1..LastDay

\* The night refuses to start otherwise.
ASSUME SettingsAssumption ==
    /\ Retain \in Nat \ {0} /\ ArchiveDays \in Nat /\ ArchiveDays > Retain
    /\ MaxRun \in Nat /\ LastDay \in Nat \ {0} /\ MaxFaults \in Nat

VARIABLES
    run,      \* the id of the last night's run, 0 before the first
    dayOf,    \* the data day each run was started for
    dir,      \* the runs that have a run directory
    config,   \* those whose launcher wrote run-config.txt there
    work,     \* the runs that have a work directory
    built,    \* the runs that succeeded and whose work directory is not cut into
    listed,   \* the runs check_published() finds at the destination
    marker,   \* the run each archived day names, 0 when it has no marker
    pc,       \* where the night is
    look,     \* the run the prune looks at
    started,  \* the started runs it has counted
    code,     \* the night's exit code, "none" while it runs
    faults,
    gone,     \* history: the runs whose work directory a prune removed, or began to
    dropped   \* history: the days a trim took out of the archive

runVars     == <<dayOf, dir, config, work, built>>
outsideVars == <<listed, marker, dropped>>
vars == <<run, runVars, outsideVars, pc, look, started, code, faults, gone>>

Step == {"idle", "stage", "launch", "build", "upload", "archive", "put", "trim", "prune", "rmdir"}

TypeOK ==
    /\ run \in 0..MaxRun
    /\ dayOf \in [Run -> Day \cup {0}]
    /\ dir \subseteq Run /\ config \subseteq Run /\ work \subseteq Run
    /\ built \subseteq Run /\ listed \subseteq Run /\ gone \subseteq Run
    /\ marker \in [Day -> Run \cup {0}]
    /\ pc \in Step
    /\ look \in 0..MaxRun /\ started \in 0..MaxRun
    /\ code \in {"none", "ok", "failed"}
    /\ faults \in 0..MaxFaults
    /\ dropped \subseteq Day

Init ==
    /\ run = 0
    /\ dayOf = [r \in Run |-> 0]
    /\ dir = {} /\ config = {} /\ work = {} /\ built = {} /\ listed = {} /\ gone = {}
    /\ marker = [d \in Day |-> 0]
    /\ pc = "idle"
    /\ look = 0 /\ started = 0
    /\ code = "none"
    /\ faults = 0
    /\ dropped = {}

----------------------------------------------------------------------------
Fault   == faults < MaxFaults /\ faults' = faults + 1
NoFault == UNCHANGED faults

Marked   == {d \in Day : marker[d] # 0}
Newer(d) == {e \in Marked : e > d}

\* check_archived(): a marked day stands for a copy, of this run or of another.
check_archived(r) == dayOf[r] \in Marked

\* The prune goes on to the next run id, newest first, over the run directories.
LookBelow == \E q \in dir \cup {0} :
    /\ q < look /\ \A p \in dir : p < look => p <= q
    /\ look' = q

Ends(c) ==
    /\ pc' = "idle" /\ code' = c
    /\ look' = 0 /\ started' = 0

Goto(s) == pc' = s /\ UNCHANGED <<look, started, code>>

\* A night that is not refused or skipped before its run directory is made.
StartNight(d) ==
    /\ pc = "idle" /\ run < MaxRun
    /\ run' = run + 1
    /\ dayOf' = [dayOf EXCEPT ![run + 1] = d]
    /\ dir' = dir \cup {run + 1}
    /\ pc' = "stage" /\ code' = "none"
    /\ UNCHANGED <<config, work, built, outsideVars, look, started, faults, gone>>

\* Staging, and the memory gate: a night that fails here leaves only logs.
Stage ==
    /\ pc = "stage"
    /\ Goto("launch") \/ Ends("failed")
    /\ UNCHANGED <<run, runVars, outsideVars, faults, gone>>

\* The launcher writes run-config.txt, naming a work directory still to be made.
Launch ==
    /\ pc = "launch"
    /\ config' = config \cup {run}
    /\ Goto("build")
    /\ UNCHANGED <<run, dayOf, dir, work, built, outsideVars, faults, gone>>

\* The build: a run that fails may have made its work directory or not.
Build ==
    /\ pc = "build"
    /\ \/ work' = work \cup {run} /\ built' = built \cup {run} /\ Goto("upload")
       \/ work' \in {work, work \cup {run}} /\ UNCHANGED built /\ Ends("failed")
    /\ UNCHANGED <<run, dayOf, dir, config, outsideVars, faults, gone>>

\* publish_run.py --upload: 0 means listed; a failure may come after the listing.
Upload ==
    /\ pc = "upload"
    /\ \/ listed' = listed \cup {run} /\ NoFault /\ Goto("archive")
       \/ listed' \in {listed, listed \cup {run}} /\ Fault /\ Ends("failed")
    /\ UNCHANGED <<run, runVars, marker, dropped, gone>>

\* publish_run.py --archive: another run's copy of the day is taken out first.
ArchiveTakesOut ==
    /\ pc = "archive"
    /\ marker' = [marker EXCEPT ![dayOf[run]] = 0]
    /\ Goto("put")
    /\ UNCHANGED <<run, runVars, listed, dropped, faults, gone>>

ArchivePuts ==
    /\ pc = "put"
    /\ marker' = [marker EXCEPT ![dayOf[run]] = run]
    /\ Goto("trim")
    /\ UNCHANGED <<run, runVars, listed, dropped, faults, gone>>

\* Mutant: --keep-days keeps one day less than it is given.
ArchiveTrimsOneMore ==
    /\ pc = "trim"
    /\ LET old == {d \in Marked : Cardinality(Newer(d)) >= ArchiveDays - 1} IN
       \/ /\ old = {}
          /\ pc' = "prune" /\ look' = run /\ started' = 0
          /\ UNCHANGED <<marker, dropped, code>>
       \/ \E d \in old :
          /\ \A e \in old : e <= d
          /\ marker' = [marker EXCEPT ![d] = 0]
          /\ dropped' = dropped \cup {d}
          /\ UNCHANGED <<pc, look, started, code>>
    /\ UNCHANGED <<run, runVars, listed, faults, gone>>

\* --keep-days: the days past the newest ArchiveDays leave, newest of them first.
ArchiveTrims ==
    /\ pc = "trim"
    /\ LET old == {d \in Marked : Cardinality(Newer(d)) >= ArchiveDays} IN
       \/ /\ old = {}
          /\ pc' = "prune" /\ look' = run /\ started' = 0
          /\ UNCHANGED <<marker, dropped, code>>
       \/ \E d \in old :
          /\ \A e \in old : e <= d
          /\ marker' = [marker EXCEPT ![d] = 0]
          /\ dropped' = dropped \cup {d}
          /\ UNCHANGED <<pc, look, started, code>>
    /\ UNCHANGED <<run, runVars, listed, faults, gone>>

\* The archive step ends with an exit code other than 0, wherever it has got to.
ArchiveFails ==
    /\ pc \in {"archive", "put", "trim"}
    /\ Fault /\ Ends("failed")
    /\ UNCHANGED <<run, runVars, outsideVars, gone>>

(* The prune.                                                              *)

Removable(r) == r \in work /\ r \in listed /\ check_archived(r)

\* Mutant: every run directory counts towards RETAIN, started or not.
PruneLogsCounted ==
    /\ pc = "prune" /\ look # 0 /\ look \notin config
    /\ dir' = IF started >= Retain /\ look # run THEN dir \ {look} ELSE dir
    /\ LookBelow /\ started' = started + 1
    /\ UNCHANGED <<run, dayOf, config, work, built, outsideVars, pc, code, faults, gone>>

\* A run directory without run-config.txt: a night that never started.
PruneLogs ==
    /\ pc = "prune" /\ look # 0 /\ look \notin config
    /\ dir' = IF started >= Retain /\ look # run THEN dir \ {look} ELSE dir
    /\ LookBelow
    /\ UNCHANGED <<run, dayOf, config, work, built, outsideVars, pc, started, code, faults, gone>>

\* A started run that is kept: among the newest, or without a work directory, or
\* not listed, or its day not archived, or the destination could not be asked.
PruneKeeps ==
    /\ pc = "prune" /\ look \in config
    /\ \/ NoFault /\ (started < Retain \/ ~Removable(look))
       \/ Fault /\ started >= Retain /\ look \in work
    /\ LookBelow /\ started' = started + 1
    /\ UNCHANGED <<run, runVars, outsideVars, pc, code, gone>>

\* Mutant: the prune does not ask the archive.
PruneRemovesUnarchived ==
    /\ pc = "prune" /\ look \in config
    /\ started >= Retain
    /\ look \in work /\ look \in listed
    /\ work' = work \ {look} /\ gone' = gone \cup {look}
    /\ pc' = "rmdir" /\ started' = started + 1
    /\ UNCHANGED <<run, dayOf, dir, config, built, outsideVars, look, code, faults>>

PruneRemovesWork ==
    /\ pc = "prune" /\ look \in config
    /\ started >= Retain
    /\ Removable(look)
    /\ work' = work \ {look} /\ gone' = gone \cup {look}
    /\ pc' = "rmdir" /\ started' = started + 1
    /\ UNCHANGED <<run, dayOf, dir, config, built, outsideVars, look, code, faults>>

\* rm -rf fails or is killed partway: what is left of the work directory is no run.
PruneRemovalCut ==
    /\ pc = "prune" /\ look \in config
    /\ started >= Retain
    /\ Removable(look)
    /\ Fault
    /\ built' = built \ {look} /\ gone' = gone \cup {look}
    /\ \/ LookBelow /\ started' = started + 1 /\ UNCHANGED <<pc, code>>
       \/ Ends("none")
    /\ UNCHANGED <<run, dayOf, dir, config, work, outsideVars>>

PruneRemovesDir ==
    /\ pc = "rmdir"
    /\ dir' = dir \ {look} /\ config' = config \ {look}
    /\ pc' = "prune" /\ LookBelow
    /\ UNCHANGED <<run, dayOf, work, built, outsideVars, started, code, faults, gone>>

PruneEnds ==
    /\ pc = "prune" /\ look = 0
    /\ Ends("ok")
    /\ UNCHANGED <<run, runVars, outsideVars, faults, gone>>

\* A night that is killed: no exit code is logged, and the next night may start.
Crash ==
    /\ pc # "idle"
    /\ Fault /\ Ends("none")
    /\ \/ UNCHANGED config
       \/ pc = "rmdir" /\ config' = config \ {look}
    /\ UNCHANGED <<run, dayOf, dir, work, built, outsideVars, gone>>

(* Between nights, what the operator is told to do with a run that stayed. *)

PublishByHand(r) ==
    /\ pc = "idle" /\ r \in (built \cap work) \ listed
    /\ listed' = listed \cup {r}
    /\ UNCHANGED <<run, runVars, marker, dropped, pc, look, started, code, faults, gone>>

\* --archive without --keep-days trims nothing.
ArchiveByHand(r) ==
    /\ pc = "idle" /\ r \in built \cap work /\ ~check_archived(r)
    /\ marker' = [marker EXCEPT ![dayOf[r]] = r]
    /\ UNCHANGED <<run, runVars, listed, dropped, pc, look, started, code, faults, gone>>

----------------------------------------------------------------------------
Continue ==
    \/ Stage \/ Launch \/ Build \/ Upload \/ ArchiveTakesOut \/ ArchivePuts \/ ArchiveTrims
    \/ ArchiveFails \/ PruneLogs \/ PruneKeeps \/ PruneRemovesWork \/ PruneRemovalCut
    \/ PruneRemovesDir \/ PruneEnds \/ Crash

ByHand == \E r \in Run : PublishByHand(r) \/ ArchiveByHand(r)

Next == (\E d \in Day : StartNight(d)) \/ Continue \/ ByHand

Spec == Init /\ [][Next]_vars

----------------------------------------------------------------------------
(* Safety.                                                                 *)

\* The started runs newer than r, whatever became of them.
StartedSince(r) == {q \in config : q > r}

\* The newest Retain runs that started are kept whole, the night's own first of
\* all: a run that loses its work directory has Retain started runs after it that
\* are still there.  (The prune's count, over nights that never started too.)
NewestRunsKept == [][\A r \in (work \ work') \cup (built \ built') :
    r # run /\ Cardinality(StartedSince(r)) >= Retain]_vars

\* A day that was built does not get lost between the work disk and the archive:
\* when a prune has removed a run, its day is archived, by this run or another, or
\* the archive dropped it for newer days, or a run that built that day still has
\* its work directory.  It holds through a rebuild of the day whose archive step
\* stops after it has taken the earlier copy out.
DayNotLost == \A r \in gone :
    \/ check_archived(r)
    \/ dayOf[r] \in dropped
    \/ \E q \in built \cap work : dayOf[q] = dayOf[r]

\* The timer's nights, each of a later day than the last one's.
DaysInOrder == \A r \in 1..run : \A q \in 1..(r - 1) : dayOf[q] < dayOf[r]

WaitingRunsArchived == \A r \in work \cap listed : check_archived(r)

\* The archive keeps a day as long as its run waits: with days in order and nothing
\* but builds failing, a published run that a night of exit code 0 leaves has its day
\* in the archive, so that a later prune can remove it.  (ArchiveDays > Retain, and
\* the trim comes before the prune.)
WaitingRunCanGo ==
    pc = "idle" /\ code = "ok" /\ faults = 0 /\ DaysInOrder => WaitingRunsArchived

(* What the program's documentation says, which the code does not do.      *)

\* "An archive keeping no more days than that would already have dropped the day,
\* and the run would never go": the settings are checked so that this cannot be, and
\* yet it can, for a day older than the archive keeps.
WaitingRunCanGoAnyDay == pc = "idle" /\ code = "ok" /\ faults = 0 => WaitingRunsArchived
============================================================================
