--------------------------- MODULE LauncherProofs ---------------------------
(***************************************************************************)
(* Theorems about Launcher, for any number of attempts and legs, any       *)
(* limits of the watchdog and the guard, and jobs that hang anywhere: the  *)
(* run directory is one run's, only its own and only quiet stages are      *)
(* captured, a live job keeps its checkpoints and a full report is true.   *)
(***************************************************************************)
EXTENDS Launcher, TLAPS

Status == {"ok", "failed", NoLine}
Places == {"none", "waiting", "noticed", "recorded", "exited", "stalled", "killed"}
Jobs == [app : {"none", "starting", "running"}, hang : {"no"} \cup HangsIn, quiet : 0..Stall]
Watches == [changed : BOOLEAN, frozen : 0..Stall, captures : Nat]
Notebooks == [leg : 0..(Legs + 1), ok : BOOLEAN, raised : BOOLEAN, printed : Seq(Status)]

Typed ==
    /\ attempt \in 0..Attempts /\ pc \in Places
    /\ pc = "none" <=> attempt = 0
    /\ job \in [Attempt -> Jobs] /\ watch \in [Attempt -> Watches]
    /\ notebook \in Notebooks
    /\ executed \in [run : 0..Attempts, printed : Seq(Status)] /\ executed.run <= attempt

\* The lock: whoever lives in the directory is of the newest attempt, and a
\* launcher that has seen its runner end has none.
OneRun ==
    /\ RunDirIsOneRuns
    /\ pc = "none" => runners \cup guards \cup samplers = {}
    /\ pc \in {"noticed", "recorded", "exited"} => attempt \notin runners

\* A watchdog that knows the count has seen no completion since the job's
\* last, and each capture was made then, during the newest attempt.
Watched ==
    /\ \A c \in stall_dir : c.during = attempt /\ c.quiet
    /\ \A c \in noted : c.during = attempt
    /\ \A r \in Attempt :
          /\ job[r].app # "running" => watch[r] = NoWatch
          /\ watch[r].changed \/ watch[r].frozen <= job[r].quiet

\* A runner that ended by itself has no job; one that was killed may.
JobsOfRunners ==
    /\ \A r \in Attempt : r > attempt => job[r].app = "none"
    /\ attempt \in runners /\ job[attempt].app # "none" => notebook.leg \in 1..Legs
    /\ pc # "none" /\ attempt \notin runners \cup cut => job[attempt].app = "none"
    /\ SweepSparesLiveJob

\* The saved notebook of a run that came to its end is its last, and has every
\* leg in it unless a cell raised, which the runner's code says.
Reported ==
    /\ notebook.raised \/ Len(notebook.printed) = IF notebook.leg = 0 THEN 0 ELSE notebook.leg - 1
    /\ notebook.leg > 0 => HasSaved
    /\ attempt \in runners /\ notebook.leg = Legs + 1 => executed = Saved
    /\ pc # "none" /\ attempt \notin runners /\ rc \in {0, 1} /\ HasSaved =>
          /\ notebook.leg = Legs + 1 /\ executed = Saved
          /\ rc = 0 => ~notebook.raised
    /\ pc \in {"recorded", "exited"} => outcome = Recorded

IInv == Typed /\ OneRun /\ Watched /\ JobsOfRunners /\ Reported

----------------------------------------------------------------------------
\* The bounds, one by one.
LEMMA Bounds ==
  /\ Attempts \in Nat \ {0} /\ Legs \in Nat \ {0} /\ Stall \in Nat \ {0}
  /\ MaxCaptures \in Nat \ {0} /\ Strikes \in Nat \ {0}
  BY LauncherAssumption DEF LauncherAssumption

\* The inductive invariant holds before anything is launched,
\* and every action below keeps it: one lemma each.
LEMMA InitIInv == Init => IInv
  BY Bounds DEF Init, IInv, Typed, OneRun, Watched, JobsOfRunners, Reported,
     RunDirIsOneRuns, SweepSparesLiveJob, Places, Jobs, Watches, Notebooks, Status, Attempt, NoJob,
     NoWatch, NoCells, NoNotebook, NoFile, HasSaved, Saved

\* What a step of the cells comes to: a later leg, an entry for each leg that is
\* over unless a cell raised, and after the last leg the notebook is saved.
CellsGoOn ==
    /\ notebook' \in Notebooks /\ notebook'.leg \in 2..(Legs + 1)
    /\ notebook'.raised \/ Len(notebook'.printed) = notebook'.leg - 1
    /\ executed' \in [run : 0..Attempts, printed : Seq(Status)]
    /\ executed'.run \in {attempt, executed.run}
    /\ notebook'.leg = Legs + 1 => executed' = [run |-> attempt, printed |-> notebook'.printed]

\* A leg that ends adds one entry; the first and the last leg save the notebook.
LEMMA LegEnds ==
  ASSUME Typed, notebook.leg \in 1..Legs,
         notebook.raised \/ Len(notebook.printed) = notebook.leg - 1,
         NEW status \in Status, EndsLeg(status)
  PROVE  CellsGoOn
  <1> USE Bounds
  <1>1. /\ notebook.printed \in Seq(Status) /\ notebook.leg \in 0..(Legs + 1)
        /\ notebook.ok \in BOOLEAN /\ notebook.raised \in BOOLEAN
    BY DEF Typed, Notebooks
  <1> DEFINE printed == Append(notebook.printed, status)
  <1>2. printed \in Seq(Status) /\ Len(printed) = Len(notebook.printed) + 1
    BY <1>1
  <1>3. notebook' = [leg |-> notebook.leg + 1, ok |-> notebook.ok, raised |-> notebook.raised,
                     printed |-> printed]
    BY <1>1 DEF EndsLeg, Typed, Notebooks
  <1>4. executed' = IF notebook.leg \in {1, Legs}
                    THEN [run |-> attempt, printed |-> printed] ELSE executed
    BY DEF EndsLeg
  <1> HIDE DEF printed
  <1>5. notebook' \in Notebooks /\ notebook'.leg = notebook.leg + 1 /\ notebook'.printed = printed
    BY <1>1, <1>2, <1>3 DEF Notebooks
  <1>6. notebook'.raised = notebook.raised
    BY <1>3
  <1>7. notebook'.raised \/ Len(notebook'.printed) = notebook'.leg - 1
    <2>1. CASE notebook.raised
      BY <1>6, <2>1, Zenon
    <2>2. CASE Len(notebook.printed) = notebook.leg - 1
      BY <1>1, <1>2, <1>5, <2>2
    <2> QED
      BY <2>1, <2>2
  <1>8. executed \in [run : 0..Attempts, printed : Seq(Status)] /\ attempt \in 0..Attempts
    BY DEF Typed
  <1>9. executed' \in [run : 0..Attempts, printed : Seq(Status)] /\ executed'.run \in {attempt, executed.run}
    BY <1>2, <1>4, <1>8
  <1>10. notebook'.leg = Legs + 1 => executed' = [run |-> attempt, printed |-> notebook'.printed]
    BY <1>1, <1>4, <1>5
  <1>11. notebook'.leg \in 2..(Legs + 1)
    BY <1>1, <1>5
  <1> QED
    BY <1>5, <1>7, <1>9, <1>10, <1>11 DEF CellsGoOn

\* A cell that raises is over, with what it printed, and is saved.
LEMMA CellEnds ==
  ASSUME Typed, notebook.leg \in 1..Legs, NEW printed \in Seq(Status), CellRaises(printed)
  PROVE  CellsGoOn
  <1> USE Bounds
  <1> DEFINE next == IF notebook.leg = 1 THEN 2 ELSE Legs + 1
             raised == TRUE
  <1>1. raised \in BOOLEAN /\ raised
    BY Zenon
  <1>2. notebook.ok \in BOOLEAN /\ next \in 2..(Legs + 1) /\ next \in 0..(Legs + 1)
    BY DEF Typed, Notebooks
  <1>3. notebook' = [leg |-> next, ok |-> notebook.ok, raised |-> raised, printed |-> printed]
    BY DEF CellRaises, Typed, Notebooks
  <1>4. executed' = [run |-> attempt, printed |-> printed] /\ attempt \in 0..Attempts
    BY DEF CellRaises, Typed
  <1> HIDE DEF next, raised
  <1>5. notebook' \in Notebooks /\ notebook'.leg = next /\ notebook'.printed = printed
    BY <1>1, <1>2, <1>3 DEF Notebooks
  <1>6. notebook'.raised
    <2>1. notebook'.raised = raised
      BY <1>3
    <2> QED
      BY <1>1, <2>1, Zenon
  <1> QED
    BY <1>2, <1>4, <1>5, <1>6 DEF CellsGoOn

LEMMA LaunchStep ==
  ASSUME IInv, NEW keep \in BOOLEAN, Launch(keep)
  PROVE  IInv'
  <1> USE Bounds DEF IInv, Launch, LockFree, LauncherUp, MovedAside, run, guard, cells, cluster, files
  <1>1. Typed'
    BY DEF Typed, Places, Jobs, Watches, Notebooks, Status, Attempt, Saved, HasSaved, NoJob,
       NoWatch, NoCells, Upto
  <1>2. OneRun'
    BY DEF OneRun, RunDirIsOneRuns, NoFile, Attempt, Typed, Places
  <1>3. Watched'
    BY DEF Watched, Typed, Jobs, Watches, Attempt, NoJob, NoWatch, Upto
  <1>4. JobsOfRunners'
    BY DEF JobsOfRunners, SweepSparesLiveJob, HasSaved, Saved, Typed, OneRun, RunDirIsOneRuns,
       Attempt, Jobs, NoJob, Notebooks
  <1>5. Reported'
    BY DEF Reported, Saved, HasSaved, Recorded, Typed, OneRun, RunDirIsOneRuns, JobsOfRunners,
       Notebooks, Attempt, Running, NoCells
  <1> QED
    BY <1>1, <1>2, <1>3, <1>4, <1>5

LEMMA NoteStep ==
  ASSUME IInv, NoteCaptures
  PROVE  IInv'
  <1> USE Bounds DEF IInv, NoteCaptures, run, guard, cells, cluster, files
  <1>1. Typed'
    BY DEF Typed, Places, Jobs, Watches, Notebooks, Status, Attempt, Saved, HasSaved, NoJob,
       NoWatch, NoCells, Upto
  <1>2. OneRun'
    BY DEF OneRun, RunDirIsOneRuns, NoFile, Attempt, Typed, Places
  <1>3. Watched'
    BY DEF Watched, Typed, Jobs, Watches, Attempt, NoJob, NoWatch, Upto
  <1>4. JobsOfRunners'
    BY DEF JobsOfRunners, SweepSparesLiveJob, HasSaved, Saved, Typed, OneRun, RunDirIsOneRuns,
       Attempt, Jobs, NoJob, Notebooks
  <1>5. Reported'
    BY DEF Reported, Saved, HasSaved, Recorded, Typed, OneRun, RunDirIsOneRuns, JobsOfRunners,
       Notebooks, Attempt, Running, NoCells
  <1> QED
    BY <1>1, <1>2, <1>3, <1>4, <1>5

LEMMA GoneStep ==
  ASSUME IInv, RunnerGone
  PROVE  IInv'
  <1> USE Bounds DEF IInv, RunnerGone, run, guard, cells, cluster, files
  <1>1. Typed'
    BY DEF Typed, Places, Jobs, Watches, Notebooks, Status, Attempt, Saved, HasSaved, NoJob,
       NoWatch, NoCells, Upto
  <1>2. OneRun'
    BY DEF OneRun, RunDirIsOneRuns, NoFile, Attempt, Typed, Places
  <1>3. Watched'
    BY DEF Watched, Typed, Jobs, Watches, Attempt, NoJob, NoWatch, Upto
  <1>4. JobsOfRunners'
    BY DEF JobsOfRunners, SweepSparesLiveJob, HasSaved, Saved, Typed, OneRun, RunDirIsOneRuns,
       Attempt, Jobs, NoJob, Notebooks
  <1>5. Reported'
    BY DEF Reported, Saved, HasSaved, Recorded, Typed, OneRun, RunDirIsOneRuns, JobsOfRunners,
       Notebooks, Attempt, Running, NoCells
  <1> QED
    BY <1>1, <1>2, <1>3, <1>4, <1>5

LEMMA RecordStep ==
  ASSUME IInv, Records
  PROVE  IInv'
  <1> USE Bounds DEF IInv, Records, run, guard, cells, cluster, files
  <1>1. Typed'
    BY DEF Typed, Places, Jobs, Watches, Notebooks, Status, Attempt, Saved, HasSaved, NoJob,
       NoWatch, NoCells, Upto
  <1>2. OneRun'
    BY DEF OneRun, RunDirIsOneRuns, NoFile, Attempt, Typed, Places
  <1>3. Watched'
    BY DEF Watched, Typed, Jobs, Watches, Attempt, NoJob, NoWatch, Upto
  <1>4. JobsOfRunners'
    BY DEF JobsOfRunners, SweepSparesLiveJob, HasSaved, Saved, Typed, OneRun, RunDirIsOneRuns,
       Attempt, Jobs, NoJob, Notebooks
  <1>5. Reported'
    BY DEF Reported, Saved, HasSaved, Recorded, Typed, OneRun, RunDirIsOneRuns, JobsOfRunners,
       Notebooks, Attempt, Running, NoCells
  <1> QED
    BY <1>1, <1>2, <1>3, <1>4, <1>5

LEMMA SweepStep ==
  ASSUME IInv, Sweeps
  PROVE  IInv'
  <1> USE Bounds DEF IInv, Sweeps, run, guard, cells, cluster, files
  <1>1. Typed'
    BY DEF Typed, Places, Jobs, Watches, Notebooks, Status, Attempt, Saved, HasSaved, NoJob,
       NoWatch, NoCells, Upto
  <1>2. OneRun'
    BY DEF OneRun, RunDirIsOneRuns, NoFile, Attempt, Typed, Places
  <1>3. Watched'
    BY DEF Watched, Typed, Jobs, Watches, Attempt, NoJob, NoWatch, Upto
  <1>4. JobsOfRunners'
    BY DEF JobsOfRunners, SweepSparesLiveJob, HasSaved, Saved, Typed, OneRun, RunDirIsOneRuns,
       Attempt, Jobs, NoJob, Notebooks
  <1>5. Reported'
    BY DEF Reported, Saved, HasSaved, Recorded, Typed, OneRun, RunDirIsOneRuns, JobsOfRunners,
       Notebooks, Attempt, Running, NoCells
  <1> QED
    BY <1>1, <1>2, <1>3, <1>4, <1>5

LEMMA LeaveStep ==
  ASSUME IInv, GuardLeaves
  PROVE  IInv'
  <1> USE Bounds DEF IInv, GuardLeaves, run, guard, cells, cluster, files
  <1>1. Typed'
    BY DEF Typed, Places, Jobs, Watches, Notebooks, Status, Attempt, Saved, HasSaved, NoJob,
       NoWatch, NoCells, Upto
  <1>2. OneRun'
    BY DEF OneRun, RunDirIsOneRuns, NoFile, Attempt, Typed, Places
  <1>3. Watched'
    BY DEF Watched, Typed, Jobs, Watches, Attempt, NoJob, NoWatch, Upto
  <1>4. JobsOfRunners'
    BY DEF JobsOfRunners, SweepSparesLiveJob, HasSaved, Saved, Typed, OneRun, RunDirIsOneRuns,
       Attempt, Jobs, NoJob, Notebooks
  <1>5. Reported'
    BY DEF Reported, Saved, HasSaved, Recorded, Typed, OneRun, RunDirIsOneRuns, JobsOfRunners,
       Notebooks, Attempt, Running, NoCells
  <1> QED
    BY <1>1, <1>2, <1>3, <1>4, <1>5

LEMMA LauncherKilledStep ==
  ASSUME IInv, LauncherKilled
  PROVE  IInv'
  <1> USE Bounds DEF IInv, LauncherKilled, LauncherUp, run, guard, cells, cluster, files
  <1>1. Typed'
    BY DEF Typed, Places, Jobs, Watches, Notebooks, Status, Attempt, Saved, HasSaved, NoJob,
       NoWatch, NoCells, Upto
  <1>2. OneRun'
    BY DEF OneRun, RunDirIsOneRuns, NoFile, Attempt, Typed, Places
  <1>3. Watched'
    BY DEF Watched, Typed, Jobs, Watches, Attempt, NoJob, NoWatch, Upto
  <1>4. JobsOfRunners'
    BY DEF JobsOfRunners, SweepSparesLiveJob, HasSaved, Saved, Typed, OneRun, RunDirIsOneRuns,
       Attempt, Jobs, NoJob, Notebooks
  <1>5. Reported'
    BY DEF Reported, Saved, HasSaved, Recorded, Typed, OneRun, RunDirIsOneRuns, JobsOfRunners,
       Notebooks, Attempt, Running, NoCells
  <1> QED
    BY <1>1, <1>2, <1>3, <1>4, <1>5

LEMMA StopStep ==
  ASSUME IInv, OperatorStops
  PROVE  IInv'
  <1> USE Bounds DEF IInv, OperatorStops, RunnerIsKilled, run, guard, cells, cluster, files
  <1>1. Typed'
    <2>1. attempt \in 0..Attempts /\ notebook.printed \in Seq(Status)
      BY DEF Typed, Notebooks
    <2>2. executed' = executed \/ executed' = Saved
      OBVIOUS
    <2>3. Saved \in [run : 0..Attempts, printed : Seq(Status)] /\ Saved.run = attempt
      BY <2>1 DEF Saved
    <2>4. executed' \in [run : 0..Attempts, printed : Seq(Status)] /\ executed'.run <= attempt
      BY <2>1, <2>2, <2>3 DEF Typed
    <2> QED
      BY <2>4 DEF Typed
  <1>2. OneRun'
    BY DEF OneRun, RunDirIsOneRuns, NoFile, Attempt, Typed, Places
  <1>3. Watched'
    BY DEF Watched, Typed, Jobs, Watches, Attempt, NoJob, NoWatch, Upto
  <1>4. JobsOfRunners'
    BY DEF JobsOfRunners, SweepSparesLiveJob, HasSaved, Saved, Typed, OneRun, RunDirIsOneRuns,
       Attempt, Jobs, NoJob, Notebooks
  <1>5. Reported'
    BY DEF Reported, Saved, HasSaved, Recorded, Typed, OneRun, RunDirIsOneRuns, JobsOfRunners,
       Notebooks, Attempt, Running, NoCells
  <1> QED
    BY <1>1, <1>2, <1>3, <1>4, <1>5

LEMMA PingStep ==
  ASSUME IInv, NEW in_time \in BOOLEAN, GuardPings(in_time)
  PROVE  IInv'
  <1> USE Bounds DEF IInv, GuardPings, RunnerIsKilled, run, guard, cells, cluster, files
  <1>1. Typed'
    <2>1. attempt \in 0..Attempts /\ notebook.printed \in Seq(Status)
      BY DEF Typed, Notebooks
    <2>2. executed' = executed \/ executed' = Saved
      OBVIOUS
    <2>3. Saved \in [run : 0..Attempts, printed : Seq(Status)] /\ Saved.run = attempt
      BY <2>1 DEF Saved
    <2>4. executed' \in [run : 0..Attempts, printed : Seq(Status)] /\ executed'.run <= attempt
      BY <2>1, <2>2, <2>3 DEF Typed
    <2> QED
      BY <2>4 DEF Typed
  <1>2. OneRun'
    BY DEF OneRun, RunDirIsOneRuns, NoFile, Attempt, Typed, Places
  <1>3. Watched'
    BY DEF Watched, Typed, Jobs, Watches, Attempt, NoJob, NoWatch, Upto
  <1>4. JobsOfRunners'
    BY DEF JobsOfRunners, SweepSparesLiveJob, HasSaved, Saved, Typed, OneRun, RunDirIsOneRuns,
       Attempt, Jobs, NoJob, Notebooks
  <1>5. Reported'
    BY DEF Reported, Saved, HasSaved, Recorded, Typed, OneRun, RunDirIsOneRuns, JobsOfRunners,
       Notebooks, Attempt, Running, NoCells
  <1> QED
    BY <1>1, <1>2, <1>3, <1>4, <1>5

LEMMA NeverSavesStep ==
  ASSUME IInv, RunnerNeverSaves
  PROVE  IInv'
  <1> USE Bounds DEF IInv, RunnerNeverSaves, RunnerEnds, run, guard, cells, cluster, files
  <1>1. Typed'
    BY DEF Typed, Places, Jobs, Watches, Notebooks, Status, Attempt, Saved, HasSaved, NoJob,
       NoWatch, NoCells, Upto
  <1>2. OneRun'
    BY DEF OneRun, RunDirIsOneRuns, NoFile, Attempt, Typed, Places
  <1>3. Watched'
    BY DEF Watched, Typed, Jobs, Watches, Attempt, NoJob, NoWatch, Upto
  <1>4. JobsOfRunners'
    BY DEF JobsOfRunners, SweepSparesLiveJob, HasSaved, Typed, OneRun, RunDirIsOneRuns, Reported,
       Attempt, Jobs, Notebooks
  <1>5. Reported'
    BY DEF Reported, Saved, HasSaved, Recorded, Typed, OneRun, RunDirIsOneRuns, JobsOfRunners,
       Notebooks, Attempt, Running, NoCells
  <1> QED
    BY <1>1, <1>2, <1>3, <1>4, <1>5

LEMMA StartsStep ==
  ASSUME IInv, RunnerStarts
  PROVE  IInv'
  <1> USE Bounds DEF IInv, RunnerStarts, run, guard, cells, cluster, files
  <1>1. Typed'
    BY DEF Typed, Places, Jobs, Watches, Notebooks, Status, Attempt, Saved, HasSaved, NoJob,
       NoWatch, NoCells, Upto
  <1>2. OneRun'
    BY DEF OneRun, RunDirIsOneRuns, NoFile, Attempt, Typed, Places
  <1>3. Watched'
    BY DEF Watched, Typed, Jobs, Watches, Attempt, NoJob, NoWatch, Upto
  <1>4. JobsOfRunners'
    BY DEF JobsOfRunners, SweepSparesLiveJob, HasSaved, Saved, Typed, OneRun, RunDirIsOneRuns,
       Attempt, Jobs, NoJob, Notebooks
  <1>5. Reported'
    BY DEF Reported, Saved, HasSaved, Recorded, Typed, OneRun, RunDirIsOneRuns, JobsOfRunners,
       Notebooks, Attempt, Running, NoCells
  <1> QED
    BY <1>1, <1>2, <1>3, <1>4, <1>5

LEMMA PreflightStep ==
  ASSUME IInv, NEW fine \in BOOLEAN, NEW listed \in PageAnswers, Preflight(fine, listed)
  PROVE  IInv'
  <1> USE Bounds DEF IInv, Preflight, run, guard, cells, cluster, files
  <1>1. Typed'
    <2> DEFINE ok == fine /\ (listed => \A q \in Attempt : job[q].app # "running")
    <2>1. ok \in BOOLEAN
      BY Zenon
    <2>2. notebook' = [notebook EXCEPT !.leg = 1, !.ok = ok]
      BY Zenon DEF Preflight
    <2> HIDE DEF ok
    <2>3. notebook' = [leg |-> 1, ok |-> ok, raised |-> notebook.raised, printed |-> notebook.printed]
      BY <2>2 DEF Typed, Notebooks
    <2>4. notebook' \in Notebooks
      BY <2>1, <2>3 DEF Typed, Notebooks
    <2> QED
      BY <2>4 DEF Typed
  <1>2. OneRun'
    BY DEF OneRun, RunDirIsOneRuns, NoFile, Attempt, Typed, Places
  <1>3. Watched'
    BY DEF Watched, Typed, Jobs, Watches, Attempt, NoJob, NoWatch, Upto
  <1>4. JobsOfRunners'
    BY DEF JobsOfRunners, SweepSparesLiveJob, HasSaved, Saved, Typed, OneRun, RunDirIsOneRuns,
       Attempt, Jobs, NoJob, Notebooks
  <1>5. Reported'
    BY DEF Reported, Saved, HasSaved, Recorded, Typed, OneRun, RunDirIsOneRuns, JobsOfRunners,
       Notebooks, Attempt, Running, NoCells
  <1> QED
    BY <1>1, <1>2, <1>3, <1>4, <1>5

LEMMA SubmitStep ==
  ASSUME IInv, Submit, notebook.ok
  PROVE  IInv'
  <1> USE Bounds DEF IInv, run, guard, cells, cluster, files
  <1>0. /\ notebook.leg \in 1..Legs /\ attempt \in runners /\ attempt \in Attempt
        /\ job[attempt].app = "none" /\ HasSaved
        /\ UNCHANGED <<run, guard, cells, watch, stall_dir, files>>
        /\ job' = [job EXCEPT ![attempt] = [app |-> "starting", hang |-> "no", quiet |-> 0]]
    BY DEF Submit, NoJob, IInv, Typed, Reported, OneRun, RunDirIsOneRuns, Attempt, Places
  <1>1. Typed'
    <2>1. job' \in [Attempt -> Jobs]
      BY <1>0 DEF Typed, Jobs
    <2> QED
      BY <1>0, <2>1 DEF Typed
  <1>2. OneRun'
    BY <1>0 DEF OneRun, RunDirIsOneRuns, NoFile, Attempt, Typed
  <1>3. Watched'
    BY <1>0 DEF Watched, Typed, Jobs, Watches, NoWatch
  <1>4. JobsOfRunners'
    BY <1>0 DEF JobsOfRunners, SweepSparesLiveJob, HasSaved, Typed
  <1>5. Reported'
    BY <1>0 DEF Reported, Saved, HasSaved, Recorded, Typed, Notebooks
  <1> QED
    BY <1>1, <1>2, <1>3, <1>4, <1>5

LEMMA DryStep ==
  ASSUME IInv, Submit, ~notebook.ok
  PROVE  IInv'
  <1> USE Bounds DEF IInv, Submit, run, guard, cells, cluster, files
  <1>0. /\ notebook.leg \in 1..Legs /\ attempt \in runners
        /\ UNCHANGED <<run, guard, files>> /\ CellsGoOn
    <2>1. attempt \in runners /\ notebook.leg \in 1..Legs
      BY DEF Submit, IInv, OneRun, RunDirIsOneRuns, JobsOfRunners
    <2>2. Typed /\ (notebook.raised \/ Len(notebook.printed) = notebook.leg - 1)
      BY <2>1 DEF IInv, Reported, Typed, Notebooks
    <2>3. EndsLeg(NoLine) /\ NoLine \in Status /\ UNCHANGED <<run, guard, files>>
      BY DEF Submit, Status
    <2> QED
      BY <2>1, <2>2, <2>3, LegEnds
  <1>1. Typed'
    BY <1>0 DEF Typed, CellsGoOn
  <1>2. OneRun'
    BY DEF OneRun, RunDirIsOneRuns, NoFile, Attempt, Typed, Places
  <1>3. Watched'
    BY <1>0 DEF Watched
  <1>4. JobsOfRunners'
    BY <1>0 DEF JobsOfRunners, SweepSparesLiveJob, HasSaved, Attempt, Typed, Notebooks
  <1>5. Reported'
    <2>1. notebook'.leg > 0 /\ notebook'.leg # 0
      BY <1>0 DEF CellsGoOn
    <2>2. notebook'.raised \/ Len(notebook'.printed) = notebook'.leg - 1
      BY <1>0 DEF CellsGoOn
    <2>3. HasSaved'
      BY <1>0 DEF CellsGoOn, Reported, HasSaved, run
    <2>4. notebook'.leg = Legs + 1 => executed' = Saved'
      BY <1>0 DEF CellsGoOn, Saved, run
    <2>5. attempt' \in runners' /\ pc' \notin {"recorded", "exited"}
      BY <1>0 DEF OneRun, run
    <2> QED
      BY <2>1, <2>2, <2>3, <2>4, <2>5 DEF Reported
  <1> QED
    BY <1>1, <1>2, <1>3, <1>4, <1>5

LEMMA RaisesStep ==
  ASSUME IInv, SubmitRaises
  PROVE  IInv'
  <1> USE Bounds DEF IInv, SubmitRaises, run, guard, cells, cluster, files
  <1>0. /\ notebook.leg \in 1..Legs /\ attempt \in runners
        /\ UNCHANGED <<run, guard, files>> /\ CellsGoOn
    <2>1. attempt \in runners /\ notebook.leg \in 1..Legs
      BY DEF SubmitRaises, IInv, OneRun, RunDirIsOneRuns, JobsOfRunners
    <2>2. Typed /\ UNCHANGED <<run, guard, files>>
      BY DEF SubmitRaises, IInv
    <2>3. notebook.printed \in Seq(Status) /\ LeftOpen \in Seq(Status)
      BY DEF IInv, Status, LeftOpen, Typed, Notebooks
    <2>4. CellRaises(notebook.printed) \/ CellRaises(LeftOpen)
      BY DEF SubmitRaises
    <2>5. CellsGoOn
      BY <2>1, <2>2, <2>3, <2>4, CellEnds
    <2> QED
      BY <2>1, <2>2, <2>5
  <1>1. Typed'
    BY <1>0 DEF Typed, CellsGoOn
  <1>2. OneRun'
    BY DEF OneRun, RunDirIsOneRuns, NoFile, Attempt, Typed, Places
  <1>3. Watched'
    BY <1>0 DEF Watched
  <1>4. JobsOfRunners'
    BY <1>0 DEF JobsOfRunners, SweepSparesLiveJob, HasSaved, Attempt, Typed, Notebooks
  <1>5. Reported'
    <2>1. notebook'.leg > 0 /\ notebook'.leg # 0
      BY <1>0 DEF CellsGoOn
    <2>2. notebook'.raised \/ Len(notebook'.printed) = notebook'.leg - 1
      BY <1>0 DEF CellsGoOn
    <2>3. HasSaved'
      BY <1>0 DEF CellsGoOn, Reported, HasSaved, run
    <2>4. notebook'.leg = Legs + 1 => executed' = Saved'
      BY <1>0 DEF CellsGoOn, Saved, run
    <2>5. attempt' \in runners' /\ pc' \notin {"recorded", "exited"}
      BY <1>0 DEF OneRun, run
    <2> QED
      BY <2>1, <2>2, <2>3, <2>4, <2>5 DEF Reported
  <1> QED
    BY <1>1, <1>2, <1>3, <1>4, <1>5

LEMMA EndsStep ==
  ASSUME IInv, NotebookEnds
  PROVE  IInv'
  <1> USE Bounds DEF IInv, NotebookEnds, RunnerEnds, run, guard, cells, cluster, files
  <1>1. Typed'
    BY DEF Typed
  <1>2. OneRun'
    BY DEF OneRun, RunDirIsOneRuns, NoFile, Attempt, Typed, Places
  <1>3. Watched'
    BY DEF Watched, Typed, Jobs, Watches, Attempt, NoJob, NoWatch, Upto
  <1>4. JobsOfRunners'
    BY DEF JobsOfRunners, SweepSparesLiveJob, HasSaved, Saved, Typed, OneRun, RunDirIsOneRuns,
       Attempt, Jobs, NoJob, Notebooks
  <1>5. Reported'
    BY DEF Reported, Saved, HasSaved, Recorded, Typed, OneRun, RunDirIsOneRuns, JobsOfRunners,
       Notebooks, Attempt, Running, NoCells
  <1> QED
    BY <1>1, <1>2, <1>3, <1>4, <1>5

LEMMA AppStep ==
  ASSUME IInv, NEW r \in Attempt, AppStarts(r)
  PROVE  IInv'
  <1> USE Bounds DEF IInv, AppStarts, run, guard, cells, cluster, files
  <1>1. Typed'
    <2>1. job' \in [Attempt -> Jobs]
      <3>1. job \in [Attempt -> Jobs] /\ job[r] \in Jobs
        BY DEF Typed
      <3>2. job'[r] \in Jobs
        BY <3>1 DEF Jobs
      <3>3. job' = [job EXCEPT ![r] = job'[r]]
        BY <3>1
      <3> QED
        BY <3>1, <3>2, <3>3
    <2> QED
      BY <2>1 DEF Typed
  <1>2. OneRun'
    BY DEF OneRun, RunDirIsOneRuns, NoFile, Attempt, Typed, Places
  <1>3. Watched'
    BY DEF Watched, Typed, Jobs, Watches, Attempt, NoJob, NoWatch, Upto
  <1>4. JobsOfRunners'
    BY DEF JobsOfRunners, SweepSparesLiveJob, HasSaved, Saved, Typed, OneRun, RunDirIsOneRuns,
       Attempt, Jobs, NoJob, Notebooks
  <1>5. Reported'
    BY DEF Reported, Saved, HasSaved, Recorded, Typed, OneRun, RunDirIsOneRuns, JobsOfRunners,
       Notebooks, Attempt, Running, NoCells
  <1> QED
    BY <1>1, <1>2, <1>3, <1>4, <1>5

LEMMA CapStep ==
  ASSUME IInv, NEW r \in Attempt, CapReached(r)
  PROVE  IInv'
  <1> USE Bounds DEF IInv, CapReached, JobGone, run, guard, cells, cluster, files
  <1>0. /\ notebook.leg \in 1..Legs /\ attempt \in runners /\ r = attempt
        /\ UNCHANGED <<run, guard, files>> /\ CellsGoOn
    <2>1. attempt \in runners /\ r = attempt /\ notebook.leg \in 1..Legs
      BY DEF CapReached, IInv, OneRun, RunDirIsOneRuns, JobsOfRunners
    <2>2. Typed /\ (notebook.raised \/ Len(notebook.printed) = notebook.leg - 1)
      BY <2>1 DEF IInv, Reported, Typed, Notebooks
    <2>3. NoLine \in Status /\ LeftOpen \in Seq(Status)
      BY DEF Status, LeftOpen, Typed, Notebooks
    <2>4. EndsLeg(NoLine) \/ CellRaises(LeftOpen)
      BY DEF CapReached
    <2>5. CellsGoOn
      BY <2>1, <2>2, <2>3, <2>4, LegEnds, CellEnds
    <2> QED
      BY <2>1, <2>5 DEF CapReached
  <1>1. Typed'
    <2>1. job' \in [Attempt -> Jobs] /\ watch' \in [Attempt -> Watches]
      BY DEF Typed, Jobs, Watches, NoJob, NoWatch
    <2> QED
      BY <1>0, <2>1 DEF Typed, CellsGoOn
  <1>2. OneRun'
    BY DEF OneRun, RunDirIsOneRuns, NoFile, Attempt, Typed, Places
  <1>3. Watched'
    BY DEF Watched, Typed, Jobs, Watches, Attempt, NoJob, NoWatch, Upto
  <1>4. JobsOfRunners'
    <2>1. \A q \in Attempt : job'[q] = IF q = r THEN NoJob ELSE job[q]
      BY DEF Typed
    <2>2. job'[attempt].app = "none"
      BY <1>0, <2>1 DEF NoJob
    <2>3. \A q \in Attempt : q > attempt => job'[q].app = "none"
      BY <2>1 DEF JobsOfRunners, NoJob
    <2>4. SweepSparesLiveJob'
      BY <1>0, <2>1, <2>2 DEF JobsOfRunners, SweepSparesLiveJob, NoJob
    <2> QED
      BY <1>0, <2>2, <2>3, <2>4 DEF JobsOfRunners
  <1>5. Reported'
    <2>1. notebook'.leg > 0 /\ notebook'.leg # 0
      BY <1>0 DEF CellsGoOn
    <2>2. notebook'.raised \/ Len(notebook'.printed) = notebook'.leg - 1
      BY <1>0 DEF CellsGoOn
    <2>3. HasSaved'
      BY <1>0 DEF CellsGoOn, Reported, HasSaved, run
    <2>4. notebook'.leg = Legs + 1 => executed' = Saved'
      BY <1>0 DEF CellsGoOn, Saved, run
    <2>5. attempt' \in runners' /\ pc' \notin {"recorded", "exited"}
      BY <1>0 DEF OneRun, run
    <2> QED
      BY <2>1, <2>2, <2>3, <2>4, <2>5 DEF Reported
  <1> QED
    BY <1>1, <1>2, <1>3, <1>4, <1>5

LEMMA JobStep ==
  ASSUME IInv, NEW r \in Attempt, NEW status \in {"ok", "failed"}, JobEnds(r, status), r \in runners
  PROVE  IInv'
  <1> USE Bounds DEF IInv, run, guard, cells, cluster, files
  <1>0. /\ notebook.leg \in 1..Legs /\ attempt \in runners /\ r = attempt
        /\ UNCHANGED <<run, guard, files>> /\ CellsGoOn
    <2>1. attempt \in runners /\ r = attempt /\ notebook.leg \in 1..Legs
      BY DEF JobEnds, IInv, OneRun, RunDirIsOneRuns, JobsOfRunners
    <2>2. Typed /\ (notebook.raised \/ Len(notebook.printed) = notebook.leg - 1)
      BY <2>1 DEF IInv, Reported, Typed, Notebooks
    <2>3. EndsLeg(status) /\ status \in Status /\ UNCHANGED <<run, guard, files>>
      BY DEF JobEnds, Status
    <2> QED
      BY <2>1, <2>2, <2>3, LegEnds
  <1>1. Typed'
    <2>1. job' \in [Attempt -> Jobs] /\ watch' \in [Attempt -> Watches]
      BY DEF JobEnds, JobGone, Typed, Jobs, Watches, NoJob, NoWatch
    <2> QED
      BY <1>0, <2>1 DEF JobEnds, JobGone, Typed, CellsGoOn
  <1>2. OneRun'
    BY DEF JobEnds, JobGone, OneRun, RunDirIsOneRuns, NoFile, Attempt, Typed, Places
  <1>3. Watched'
    BY DEF JobEnds, JobGone, Watched, Typed, Jobs, Watches, Attempt, NoJob, NoWatch, Upto
  <1>4. JobsOfRunners'
    <2>1. \A q \in Attempt : job'[q] = IF q = r THEN NoJob ELSE job[q]
      BY DEF JobEnds, JobGone, Typed
    <2>2. job'[attempt].app = "none"
      BY <1>0, <2>1 DEF NoJob
    <2>3. \A q \in Attempt : q > attempt => job'[q].app = "none"
      BY <2>1 DEF JobsOfRunners, NoJob
    <2>4. SweepSparesLiveJob'
      BY <1>0, <2>1, <2>2 DEF JobsOfRunners, SweepSparesLiveJob, NoJob
    <2> QED
      BY <1>0, <2>2, <2>3, <2>4 DEF JobsOfRunners
  <1>5. Reported'
    <2>1. notebook'.leg > 0 /\ notebook'.leg # 0
      BY <1>0 DEF CellsGoOn
    <2>2. notebook'.raised \/ Len(notebook'.printed) = notebook'.leg - 1
      BY <1>0 DEF CellsGoOn
    <2>3. HasSaved'
      BY <1>0 DEF CellsGoOn, Reported, HasSaved, run
    <2>4. notebook'.leg = Legs + 1 => executed' = Saved'
      BY <1>0 DEF CellsGoOn, Saved, run
    <2>5. attempt' \in runners' /\ pc' \notin {"recorded", "exited"}
      BY <1>0 DEF OneRun, run
    <2> QED
      BY <2>1, <2>2, <2>3, <2>4, <2>5 DEF Reported
  <1> QED
    BY <1>1, <1>2, <1>3, <1>4, <1>5

LEMMA OrphanStep ==
  ASSUME IInv, NEW r \in Attempt, NEW status \in {"ok", "failed"}, JobEnds(r, status), r \notin runners
  PROVE  IInv'
  <1> USE Bounds DEF IInv, JobEnds, JobGone, run, guard, cells, cluster, files
  <1>1. Typed'
    <2>1. job' \in [Attempt -> Jobs] /\ watch' \in [Attempt -> Watches]
      BY DEF Typed, Jobs, Watches, NoJob, NoWatch
    <2> QED
      BY <2>1 DEF Typed
  <1>2. OneRun'
    BY DEF OneRun, RunDirIsOneRuns, NoFile, Attempt, Typed, Places
  <1>3. Watched'
    BY DEF Watched, Typed, Jobs, Watches, Attempt, NoJob, NoWatch, Upto
  <1>4. JobsOfRunners'
    BY DEF JobsOfRunners, SweepSparesLiveJob, HasSaved, Saved, Typed, OneRun, RunDirIsOneRuns,
       Attempt, Jobs, NoJob, Notebooks
  <1>5. Reported'
    BY DEF Reported, Saved, HasSaved, Recorded, Typed, OneRun, RunDirIsOneRuns, JobsOfRunners,
       Notebooks, Attempt, Running, NoCells
  <1> QED
    BY <1>1, <1>2, <1>3, <1>4, <1>5

LEMMA TaskStep ==
  ASSUME IInv, NEW r \in Attempt, TaskEnds(r)
  PROVE  IInv'
  <1> USE Bounds DEF IInv, TaskEnds, run, guard, cells, cluster, files
  <1>1. Typed'
    <2>1. job[r] \in Jobs /\ watch[r] \in Watches
      BY DEF Typed
    <2>2. job'[r] = [app |-> job[r].app, hang |-> job[r].hang, quiet |-> 0]
      BY <2>1 DEF Typed, Jobs
    <2>3. watch'[r] = [changed |-> TRUE, frozen |-> watch[r].frozen, captures |-> watch[r].captures]
      BY <2>1 DEF Typed, Watches
    <2>4. job'[r] \in Jobs /\ watch'[r] \in Watches
      <3>1. job'[r] \in Jobs
        BY <2>1, <2>2, 0 \in 0..Stall DEF Jobs
      <3>2. watch[r].frozen \in 0..Stall /\ watch[r].captures \in Nat
        BY <2>1 DEF Watches
      <3> DEFINE seen == TRUE
      <3>3. seen \in BOOLEAN
        BY Zenon
      <3>4. watch'[r] = [changed |-> seen, frozen |-> watch[r].frozen, captures |-> watch[r].captures]
        BY <2>3
      <3> HIDE DEF seen
      <3>5. watch'[r] \in Watches
        BY <3>2, <3>3, <3>4 DEF Watches
      <3> QED
        BY <3>1, <3>5
    <2>5. job' \in [Attempt -> Jobs] /\ watch' \in [Attempt -> Watches]
      BY <2>4 DEF Typed
    <2> QED
      BY <2>5 DEF Typed
  <1>2. OneRun'
    BY DEF OneRun, RunDirIsOneRuns, NoFile, Attempt, Typed, Places
  <1>3. Watched'
    <2>1. /\ \A c \in stall_dir' : c.during = attempt' /\ c.quiet
          /\ \A c \in noted' : c.during = attempt'
      BY DEF Watched
    <2>2. ASSUME NEW q \in Attempt
          PROVE  /\ job'[q].app # "running" => watch'[q] = NoWatch
                 /\ watch'[q].changed \/ watch'[q].frozen <= job'[q].quiet
      <3>1. job \in [Attempt -> Jobs] /\ watch \in [Attempt -> Watches]
        BY DEF Typed
      <3>2. CASE q # r
        BY <3>1, <3>2 DEF Watched
      <3>3. CASE q = r
        <4>1. watch'[r].changed
          BY <3>1 DEF Watches
        <4>2. job'[r].app = "running"
          BY <3>1 DEF Jobs
        <4> QED
          BY <3>3, <4>1, <4>2
      <3> QED
        BY <3>2, <3>3
    <2> QED
      BY <2>1, <2>2 DEF Watched
  <1>4. JobsOfRunners'
    BY DEF JobsOfRunners, SweepSparesLiveJob, HasSaved, Saved, Typed, OneRun, RunDirIsOneRuns,
       Attempt, Jobs, NoJob, Notebooks
  <1>5. Reported'
    BY DEF Reported, Saved, HasSaved, Recorded, Typed, OneRun, RunDirIsOneRuns, JobsOfRunners,
       Notebooks, Attempt, Running, NoCells
  <1> QED
    BY <1>1, <1>2, <1>3, <1>4, <1>5

LEMMA HangStep ==
  ASSUME IInv, NEW r \in Attempt, NEW w \in HangsIn, Hangs(r, w)
  PROVE  IInv'
  <1> USE Bounds DEF IInv, Hangs, run, guard, cells, cluster, files
  <1>1. Typed'
    <2>1. job' \in [Attempt -> Jobs]
      <3>1. job \in [Attempt -> Jobs] /\ job[r] \in Jobs
        BY DEF Typed
      <3>2. job'[r] \in Jobs
        BY <3>1 DEF Jobs
      <3>3. job' = [job EXCEPT ![r] = job'[r]]
        BY <3>1
      <3> QED
        BY <3>1, <3>2, <3>3
    <2> QED
      BY <2>1 DEF Typed
  <1>2. OneRun'
    BY DEF OneRun, RunDirIsOneRuns, NoFile, Attempt, Typed, Places
  <1>3. Watched'
    <2>1. job[r] \in Jobs
      BY DEF Typed
    <2>2. job'[r].app = job[r].app /\ job'[r].quiet = job[r].quiet
      BY <2>1 DEF Typed, Jobs
    <2>3. \A q \in Attempt \ {r} : job'[q] = job[q]
      BY DEF Typed
    <2> QED
      BY <2>2, <2>3 DEF Watched
  <1>4. JobsOfRunners'
    BY DEF JobsOfRunners, SweepSparesLiveJob, HasSaved, Saved, Typed, OneRun, RunDirIsOneRuns,
       Attempt, Jobs, NoJob, Notebooks
  <1>5. Reported'
    BY DEF Reported, Saved, HasSaved, Recorded, Typed, OneRun, RunDirIsOneRuns, JobsOfRunners,
       Notebooks, Attempt, Running, NoCells
  <1> QED
    BY <1>1, <1>2, <1>3, <1>4, <1>5

LEMMA RecoverStep ==
  ASSUME IInv, NEW r \in Attempt, Recovers(r)
  PROVE  IInv'
  <1> USE Bounds DEF IInv, Recovers, run, guard, cells, cluster, files
  <1>1. Typed'
    <2>1. job' \in [Attempt -> Jobs]
      <3>1. job \in [Attempt -> Jobs] /\ job[r] \in Jobs
        BY DEF Typed
      <3>2. job'[r] \in Jobs
        BY <3>1 DEF Jobs
      <3>3. job' = [job EXCEPT ![r] = job'[r]]
        BY <3>1
      <3> QED
        BY <3>1, <3>2, <3>3
    <2> QED
      BY <2>1 DEF Typed
  <1>2. OneRun'
    BY DEF OneRun, RunDirIsOneRuns, NoFile, Attempt, Typed, Places
  <1>3. Watched'
    <2>1. job[r] \in Jobs
      BY DEF Typed
    <2>2. job'[r].app = job[r].app /\ job'[r].quiet = job[r].quiet
      BY <2>1 DEF Typed, Jobs
    <2>3. \A q \in Attempt \ {r} : job'[q] = job[q]
      BY DEF Typed
    <2> QED
      BY <2>2, <2>3 DEF Watched
  <1>4. JobsOfRunners'
    BY DEF JobsOfRunners, SweepSparesLiveJob, HasSaved, Saved, Typed, OneRun, RunDirIsOneRuns,
       Attempt, Jobs, NoJob, Notebooks
  <1>5. Reported'
    BY DEF Reported, Saved, HasSaved, Recorded, Typed, OneRun, RunDirIsOneRuns, JobsOfRunners,
       Notebooks, Attempt, Running, NoCells
  <1> QED
    BY <1>1, <1>2, <1>3, <1>4, <1>5

LEMMA TimeStep ==
  ASSUME IInv, NEW r \in Attempt, TimePasses(r)
  PROVE  IInv'
  <1> USE Bounds DEF IInv, TimePasses, run, guard, cells, cluster, files
  <1>1. Typed'
    <2>1. job[r] \in Jobs /\ watch[r] \in Watches
      BY DEF Typed
    <2>2. job'[r] = [app |-> job[r].app, hang |-> job[r].hang, quiet |-> Upto(job[r].quiet)]
      BY <2>1 DEF Typed, Jobs
    <2>3. watch'[r] = [changed |-> watch[r].changed, frozen |-> Upto(watch[r].frozen),
                    captures |-> watch[r].captures]
      BY <2>1 DEF Typed, Watches
    <2>4. job'[r] \in Jobs /\ watch'[r] \in Watches
      BY <2>1, <2>2, <2>3, Bounds DEF Jobs, Watches, Upto
    <2>5. job' \in [Attempt -> Jobs] /\ watch' \in [Attempt -> Watches]
      BY <2>4 DEF Typed
    <2> QED
      BY <2>5 DEF Typed
  <1>2. OneRun'
    BY DEF OneRun, RunDirIsOneRuns, NoFile, Attempt, Typed, Places
  <1>3. Watched'
    <2>1. job[r] \in Jobs /\ watch[r] \in Watches
      BY DEF Typed
    <2>2. job'[r].app = "running" /\ job'[r].quiet = Upto(job[r].quiet)
      BY <2>1 DEF Typed, Jobs
    <2>3. watch'[r].changed = watch[r].changed /\ watch'[r].frozen = Upto(watch[r].frozen)
      BY <2>1 DEF Typed, Watches
    <2>4. watch'[r].changed \/ watch'[r].frozen <= job'[r].quiet
      BY <2>1, <2>2, <2>3 DEF Watched, Jobs, Watches, Upto
    <2>5. \A q \in Attempt \ {r} : job'[q] = job[q] /\ watch'[q] = watch[q]
      BY DEF Typed
    <2> QED
      BY <2>2, <2>4, <2>5 DEF Watched
  <1>4. JobsOfRunners'
    BY DEF JobsOfRunners, SweepSparesLiveJob, HasSaved, Saved, Typed, OneRun, RunDirIsOneRuns,
       Attempt, Jobs, NoJob, Notebooks
  <1>5. Reported'
    BY DEF Reported, Saved, HasSaved, Recorded, Typed, OneRun, RunDirIsOneRuns, JobsOfRunners,
       Notebooks, Attempt, Running, NoCells
  <1> QED
    BY <1>1, <1>2, <1>3, <1>4, <1>5

LEMMA PollStep ==
  ASSUME IInv, NEW r \in Attempt, Poll(r)
  PROVE  IInv'
  <1> USE Bounds DEF IInv, Poll, SeesChange, Captures, run, guard, cells, cluster, files
  <1>1. Typed'
    <2>1. watch[r] \in Watches
      BY DEF Typed
    <2>2. CASE SeesChange(r)
      <3>1. watch'[r] = [changed |-> FALSE, frozen |-> 0, captures |-> watch[r].captures]
        BY <2>1, <2>2 DEF Typed, Watches
      <3>2. watch'[r] \in Watches
        BY <2>1, <3>1 DEF Watches
      <3> QED
        BY <2>2, <3>2 DEF Typed
    <2>3. CASE Captures(r)
      <3>1. watch'[r] = [changed |-> watch[r].changed, frozen |-> watch[r].frozen,
                         captures |-> watch[r].captures + 1]
        BY <2>1, <2>3 DEF Typed, Watches
      <3>2. watch'[r] \in Watches
        BY <2>1, <3>1 DEF Watches
      <3> QED
        BY <2>3, <3>2 DEF Typed
    <2> QED
      BY <2>2, <2>3
  <1>2. OneRun'
    BY DEF OneRun, RunDirIsOneRuns, NoFile, Attempt, Typed, Places
  <1>3. Watched'
    <2>1. job[r] \in Jobs /\ watch[r] \in Watches
      BY DEF Typed
    <2>2. CASE SeesChange(r)
      <3>1. watch'[r].frozen = 0 /\ UNCHANGED stall_dir /\ \A q \in Attempt \ {r} : watch'[q] = watch[q]
        BY <2>1, <2>2 DEF Typed, Watches
      <3>2. watch'[r].frozen <= job[r].quiet /\ \A c \in stall_dir' : c.during = attempt /\ c.quiet
        BY <2>1, <3>1 DEF Jobs, Watched
      <3> QED
        BY <3>1, <3>2 DEF Watched
    <2>3. CASE Captures(r)
      <3>1. ~watch[r].changed /\ watch[r].frozen >= Stall /\ watch[r].frozen <= job[r].quiet
        BY <2>3 DEF Watched
      <3>2. job[r].quiet >= Stall
        BY <2>1, <3>1 DEF Jobs, Watches
      <3>3. stall_dir' = stall_dir \cup {[run |-> r, quiet |-> TRUE, during |-> attempt]}
        BY <2>3, <3>2
      <3>5. \A c \in stall_dir' : c.during = attempt /\ c.quiet
        BY <3>3 DEF Watched
      <3>4. /\ watch'[r].frozen = watch[r].frozen
            /\ \A q \in Attempt \ {r} : watch'[q] = watch[q]
        BY <2>1, <2>3 DEF Typed, Watches
      <3> QED
        BY <2>3, <3>1, <3>4, <3>5 DEF Watched
    <2> QED
      BY <2>2, <2>3
  <1>4. JobsOfRunners'
    BY DEF JobsOfRunners, SweepSparesLiveJob, HasSaved, Saved, Typed, OneRun, RunDirIsOneRuns,
       Attempt, Jobs, NoJob, Notebooks
  <1>5. Reported'
    BY DEF Reported, Saved, HasSaved, Recorded, Typed, OneRun, RunDirIsOneRuns, JobsOfRunners,
       Notebooks, Attempt, Running, NoCells
  <1> QED
    BY <1>1, <1>2, <1>3, <1>4, <1>5

LEMMA StutterStep ==
  ASSUME IInv, UNCHANGED vars
  PROVE  IInv'
  <1> USE Bounds DEF IInv, vars, run, guard, cells, cluster, files
  <1>1. Typed'
    BY DEF Typed, Places, Jobs, Watches, Notebooks, Status, Attempt, Saved, HasSaved, NoJob,
       NoWatch, NoCells, Upto
  <1>2. OneRun'
    BY DEF OneRun, RunDirIsOneRuns, NoFile, Attempt, Typed, Places
  <1>3. Watched'
    BY DEF Watched, Typed, Jobs, Watches, Attempt, NoJob, NoWatch, Upto
  <1>4. JobsOfRunners'
    BY DEF JobsOfRunners, SweepSparesLiveJob, HasSaved, Saved, Typed, OneRun, RunDirIsOneRuns,
       Attempt, Jobs, NoJob, Notebooks
  <1>5. Reported'
    BY DEF Reported, Saved, HasSaved, Recorded, Typed, OneRun, RunDirIsOneRuns, JobsOfRunners,
       Notebooks, Attempt, Running, NoCells
  <1> QED
    BY <1>1, <1>2, <1>3, <1>4, <1>5

\* The groups of actions Next is made of, and Next itself.
LEMMA SuperviseStep == ASSUME IInv, Supervises PROVE IInv'
  BY NoteStep, GoneStep, RecordStep, SweepStep, LeaveStep DEF Supervises

LEMMA RunStep == ASSUME IInv, Runs PROVE IInv'
  BY StartsStep, PreflightStep, SubmitStep, DryStep, RaisesStep, EndsStep DEF Runs

LEMMA SubmissionStep ==
  ASSUME IInv, NEW r \in Attempt, Submission(r) \/ Breaks(r) \/ TimePasses(r) \/ Poll(r)
  PROVE  IInv'
  BY AppStep, CapStep, JobStep, OrphanStep, TaskStep, RecoverStep, HangStep, TimeStep, PollStep
  DEF Submission, Breaks

LEMMA StepIInv == ASSUME IInv, [Next]_vars PROVE IInv'
  <1>1. CASE \E keep \in BOOLEAN : Launch(keep)
    BY <1>1, LaunchStep
  <1>2. CASE Supervises \/ Runs
    BY <1>2, SuperviseStep, RunStep
  <1>3. CASE LauncherKilled \/ OperatorStops \/ RunnerNeverSaves
    BY <1>3, LauncherKilledStep, StopStep, NeverSavesStep
  <1>4. CASE \E in_time \in BOOLEAN : GuardPings(in_time)
    BY <1>4, PingStep
  <1>5. CASE \E r \in Attempt : Submission(r) \/ Breaks(r) \/ TimePasses(r) \/ Poll(r)
    BY <1>5, SubmissionStep
  <1>6. CASE UNCHANGED vars
    BY <1>6, StutterStep
  <1> QED
    BY <1>1, <1>2, <1>3, <1>4, <1>5, <1>6 DEF Next

----------------------------------------------------------------------------
(* Every state is typed, one run's, watched by its own watchdogs, with a   *)
(* live job only under a live or a killed runner, and a notebook that has  *)
(* one entry for each leg that ended, unless a cell raised.                *)
THEOREM Invariance == Spec => []IInv
  <1>1. IInv /\ [Next]_vars => IInv'
    BY StepIInv
  <1> QED
    BY InitIInv, <1>1, PTL DEF Spec

(* The lock keeps the directory one run's: every process alive in it and   *)
(* every run.done and killed-by is the newest attempt's.                   *)
THEOREM DirIsOneRuns == Spec => []RunDirIsOneRuns
  <1>1. IInv => RunDirIsOneRuns
    BY DEF IInv, OneRun
  <1> QED
    BY Invariance, <1>1, PTL

(* A capture the launcher reports was made while its own run was in the    *)
(* directory, an orphan's or an earlier run's never.                       *)
THEOREM ReportedCapturesAreOwn == Spec => []CapturesAreThisRuns
  <1>1. IInv => CapturesAreThisRuns
    BY DEF IInv, Watched, CapturesAreThisRuns
  <1> QED
    BY Invariance, <1>1, PTL

(* A watchdog captures only an application that finished no task for       *)
(* --stall-seconds, however its polls fall between the tasks.              *)
THEOREM OnlyQuietIsCaptured == Spec => []CapturedWasQuiet
  <1>1. IInv => CapturedWasQuiet
    BY DEF IInv, Watched, CapturedWasQuiet
  <1> QED
    BY Invariance, <1>1, PTL

(* The launcher's last sweep never removes the checkpoints of a job that   *)
(* still runs, unless somebody killed the runner from outside.             *)
THEOREM LiveJobsKeepCheckpoints == Spec => []SweepSparesLiveJob
  <1>1. IInv => SweepSparesLiveJob
    BY DEF IInv, JobsOfRunners
  <1> QED
    BY Invariance, <1>1, PTL

(* When a runner that came to its end has been reported with all its legs   *)
(* ok from its own notebook, no leg that has a header failed or ended       *)
(* without a word, and beside the code 0 the legs are all there.            *)
THEOREM FullReportIsTrue == Spec => []OutcomeIsHonest
  <1>1. IInv => OutcomeIsHonest
    <2> SUFFICES ASSUME IInv, outcome.ok, outcome.of = attempt, pc = "exited", rc \in {0, 1}
                 PROVE  /\ \A k \in DOMAIN notebook.printed : notebook.printed[k] = "ok"
                        /\ rc = 0 => Len(notebook.printed) = Legs
      BY DEF OutcomeIsHonest
    <2> DEFINE full == AllOk(executed.printed)
    <2>1. full \in BOOLEAN /\ outcome = [run |-> attempt, of |-> executed.run, ok |-> full]
      <3>1. full \in BOOLEAN
        BY Zenon DEF AllOk
      <3>2. outcome = [run |-> attempt, of |-> executed.run, ok |-> full]
        BY DEF IInv, Reported, Recorded
      <3> QED
        BY <3>1, <3>2
    <2>2. executed.run = attempt /\ full
      <3> HIDE DEF full
      <3>1. outcome.of = executed.run /\ outcome.ok = full
        BY <2>1
      <3> QED
        BY <3>1, Zenon
    <2>3. notebook.leg = Legs + 1 /\ executed = Saved /\ (rc = 0 => ~notebook.raised)
      BY <2>2 DEF IInv, Reported, OneRun, HasSaved
    <2>4. \A k \in DOMAIN notebook.printed : notebook.printed[k] = "ok"
      BY <2>2, <2>3 DEF Saved, AllOk
    <2>5. ASSUME rc = 0 PROVE Len(notebook.printed) = Legs
      <3>1. ~notebook.raised
        BY <2>3, <2>5, Zenon
      <3>2. Len(notebook.printed) = notebook.leg - 1
        BY <2>3, <3>1, Bounds DEF IInv, Reported
      <3> QED
        BY <2>3, <3>2, Bounds
    <2> QED
      BY <2>4, <2>5
  <1> QED
    BY Invariance, <1>1, PTL
=============================================================================
