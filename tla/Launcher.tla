------------------------------ MODULE Launcher ------------------------------
(* One run directory and the attempts made in it: the launcher, the runner *)
(* that executes the notebook, the legs it submits one at a time, the      *)
(* stall watchdog each submission starts, the network guard, the samplers, *)
(* and the files by which the night learns how the run went.               *)
EXTENDS Integers, Sequences, FiniteSets

CONSTANTS
    Attempts,      \* bound: runs launched in the directory
    Legs,          \* submissions of a run: the seed, then the experiments
    Stall,         \* --stall-seconds, in ticks
    MaxCaptures,   \* --max-captures
    Strikes,       \* PYG_GATEWAY_STRIKES
    HangsIn,       \* where a job may hang: in a "stage", in the "driver"
    PageAnswers    \* whether the master's page can be read: {TRUE}, or FALSE too

ASSUME LauncherAssumption ==
    {Attempts, Legs, Stall, MaxCaptures, Strikes} \subseteq Nat \ {0} /\ PageAnswers \subseteq BOOLEAN

VARIABLES
    attempt,       \* the newest attempt
    pc,            \* where its launcher stands
    keep_waiting,  \* its PYG_STALL_KEEP_WAITING
    runners, guards, samplers, \* attempts whose process is alive
    rc,            \* the runner's exit code, or Running
    done,          \* run.done: [run, rc], or NoFile
    killed_by,     \* the attempt that wrote killed-by, or 0
    strikes,       \* the guard's count
    notebook,      \* [leg, ok, raised, printed]: what the newest run's cells have done
    executed,      \* the newest executed notebook: [run, printed], run 0 if none
    job,           \* attempt -> its submission: see NoJob
    watch,         \* attempt -> the watchdog of its submission
    stall_dir,     \* the captures in PYG_STALL_DUMP_DIR
    noted,         \* the captures in stalls-captured
    checkpoints,   \* attempts whose work directory holds checkpoints
    outcome,       \* outcome.txt: [run, of, ok], or NoReport
    cut            \* attempts whose runner was killed from outside

run == <<attempt, pc, keep_waiting, runners, samplers, rc, done>>
guard == <<guards, killed_by, strikes>>
cells == <<notebook, executed>>
cluster == <<job, watch, stall_dir>>
files == <<noted, checkpoints, outcome, cut>>
vars == <<run, guard, cells, cluster, files>>

NoFile == [run |-> 0, rc |-> 0]
NoReport == [run |-> 0, of |-> 0, ok |-> FALSE]
NoNotebook == [run |-> 0, printed |-> << >>]
Running == -1
Attempt == 1..Attempts
\* A duration of Stall ticks is as good as any longer.
Upto(n) == IF n < Stall THEN n + 1 ELSE Stall

\* app: "none", "starting" until the master has it, "running". hang: the job
\* prints nothing more, in a stage with tasks active or outside any.
NoJob == [app |-> "none", hang |-> "no", quiet |-> 0]
NoWatch == [changed |-> TRUE, frozen |-> 0, captures |-> 0]
NoCells == [leg |-> 0, ok |-> FALSE, raised |-> FALSE, printed |-> << >>]

Init ==
    /\ attempt = 0 /\ keep_waiting = FALSE /\ pc = "none" /\ rc = Running
    /\ runners = {} /\ guards = {} /\ samplers = {}
    /\ done = NoFile /\ killed_by = 0 /\ strikes = 0
    /\ notebook = NoCells /\ executed = NoNotebook
    /\ job = [r \in Attempt |-> NoJob] /\ watch = [r \in Attempt |-> NoWatch]
    /\ stall_dir = {} /\ noted = {} /\ checkpoints = {}
    /\ outcome = NoReport /\ cut = {}

(* ------------------------------ the launcher --------------------------- *)

LauncherUp == pc \in {"waiting", "noticed", "recorded"}

\* Mutant: the children are started with descriptor 9 closed.
LockFreeOfLauncher == ~LauncherUp

\* flock on descriptor 9, which every child of the launcher inherits.
LockFree == ~LauncherUp /\ runners \cup guards \cup samplers = {}

\* Mutant: a capture of an earlier attempt is left where it is.
MovedAsideNot(captures) == captures

MovedAside(captures) == {}

\* Everything the launcher does before its wait loop.
Launch(keep) ==
    /\ LockFree /\ attempt < Attempts
    /\ attempt' = attempt + 1 /\ keep_waiting' = keep
    /\ pc' = "waiting" /\ rc' = Running
    /\ runners' = runners \cup {attempt + 1}
    /\ guards' = guards \cup {attempt + 1}
    /\ samplers' = samplers \cup {attempt + 1}
    /\ done' = NoFile /\ killed_by' = 0 /\ noted' = {} /\ strikes' = 0
    /\ stall_dir' = MovedAside(stall_dir)
    /\ notebook' = NoCells
    /\ UNCHANGED <<executed, job, watch, checkpoints, outcome, cut>>

\* Mutant: a leg that printed no status line is not counted against the run.
AllOkUnlessFailed(printed) == \A k \in DOMAIN printed : printed[k] # "failed"

\* What a leg's header is followed by: "ok in N min", "FAILED in N min", or, of
\* one that is HUNG, dry-run or left open, no line that nbdigest takes.
NoLine == "no line"
\* nbdigest state: every leg that has a header has an "ok in N min".
AllOk(printed) ==
    printed # << >> /\ \A k \in DOMAIN printed : printed[k] = "ok"

\* record_run_outcome.sh: the newest executed notebook, whichever run's.
Recorded == [run |-> attempt, of |-> executed.run, ok |-> AllOk(executed.printed)]

\* Mutant: the stalled path goes on to the sweep.
NoteCapturesSweeping ==
    /\ pc = "waiting" /\ attempt \in runners /\ stall_dir \ noted # {}
    /\ noted' = noted \cup stall_dir
    /\ IF keep_waiting THEN UNCHANGED <<pc, done, outcome>>
       ELSE /\ pc' = "recorded" /\ done' = [run |-> attempt, rc |-> 99]
            /\ outcome' = Recorded
    /\ UNCHANGED <<attempt, keep_waiting, runners, samplers, rc, guard, cells,
                   cluster, checkpoints, cut>>

\* Mutant: the wait goes on after every capture.
NoteCapturesGoingOn ==
    /\ pc = "waiting" /\ attempt \in runners /\ stall_dir \ noted # {}
    /\ noted' = noted \cup stall_dir
    /\ UNCHANGED <<attempt, pc, keep_waiting, runners, samplers, rc, done, guard,
                   cells, cluster, checkpoints, outcome, cut>>

\* A look of the wait loop at a live runner.
NoteCaptures ==
    /\ pc = "waiting" /\ attempt \in runners /\ stall_dir \ noted # {}
    /\ noted' = noted \cup stall_dir
    /\ IF keep_waiting THEN UNCHANGED <<pc, done, outcome>>
       ELSE /\ pc' = "stalled" /\ done' = [run |-> attempt, rc |-> 99]
            /\ outcome' = Recorded
    /\ UNCHANGED <<attempt, keep_waiting, runners, samplers, rc, guard, cells,
                   cluster, checkpoints, cut>>

\* The runner has ended: its code to run.done, STOP, and the guard killed.
RunnerGone ==
    /\ pc = "waiting" /\ attempt \notin runners
    /\ noted' = noted \cup stall_dir
    /\ done' = [run |-> attempt, rc |-> rc]
    /\ samplers' = samplers \ {attempt} /\ guards' = guards \ {attempt}
    /\ pc' = "noticed"
    /\ UNCHANGED <<attempt, keep_waiting, runners, rc, killed_by, strikes,
                   cells, cluster, checkpoints, outcome, cut>>

Records ==
    /\ pc = "noticed" /\ outcome' = Recorded
    /\ pc' = IF rc = 126 THEN "exited" ELSE "recorded"
    /\ UNCHANGED <<attempt, keep_waiting, runners, samplers, rc, done, guard,
                   cells, cluster, noted, checkpoints, cut>>

Sweeps ==
    /\ pc = "recorded" /\ pc' = "exited" /\ checkpoints' = checkpoints \ {attempt}
    /\ UNCHANGED <<attempt, keep_waiting, runners, samplers, rc, done, guard,
                   cells, cluster, noted, outcome, cut>>

LauncherKilled ==
    /\ LauncherUp /\ pc' = "killed"
    /\ UNCHANGED <<attempt, keep_waiting, runners, samplers, rc, done, guard,
                   cells, cluster, files>>

(* -------------------- the runner, from start to its end ---------------- *)

Saved == [run |-> attempt, printed |-> notebook.printed]
HasSaved == executed.run = attempt

\* A runner killed from outside may still have saved the running cell.
RunnerIsKilled ==
    /\ runners' = runners \ {attempt} /\ cut' = cut \cup (runners \cap {attempt})
    /\ rc' = IF attempt \in runners THEN 143 ELSE rc
    /\ executed' \in {executed} \cup {e \in {Saved} : attempt \in runners /\ HasSaved}

\* What the launcher's log asks for after a stall, or after its own death.
OperatorStops ==
    /\ pc \in {"stalled", "killed"} /\ attempt \in samplers
    /\ samplers' = samplers \ {attempt} /\ guards' = guards \ {attempt}
    /\ RunnerIsKilled
    /\ UNCHANGED <<attempt, pc, keep_waiting, done, killed_by, strikes,
                   notebook, cluster, noted, checkpoints, outcome>>

RunnerEnds(codes) ==
    /\ attempt \in runners /\ runners' = runners \ {attempt} /\ rc' \in codes
    /\ UNCHANGED <<attempt, pc, keep_waiting, samplers, done, guard, cells,
                   cluster, files>>

\* 126: it could not be executed. 2: no config cell. 1: an import failed.
RunnerNeverSaves == ~HasSaved /\ RunnerEnds({1, 2, 126})

RunnerStarts ==
    /\ attempt \in runners /\ ~HasSaved /\ executed' = Saved
    /\ UNCHANGED <<run, guard, notebook, cluster, files>>

\* preflight: no application RUNNING, which is left out where the master's page
\* cannot be read or the master is local, and the rest of what it checks.
Preflight(fine, listed) ==
    /\ attempt \in runners /\ HasSaved /\ notebook.leg = 0
    /\ notebook' = [notebook EXCEPT !.leg = 1,
                       !.ok = fine /\ (listed => \A q \in Attempt : job[q].app # "running")]
    /\ UNCHANGED <<run, guard, executed, cluster, files>>

\* The runner saves after a cell: the seed is one, the experiments another.
EndsLeg(status) ==
    LET printed == Append(notebook.printed, status)
    IN /\ notebook' = [notebook EXCEPT !.leg = @ + 1, !.printed = printed]
       /\ executed' = IF notebook.leg \in {1, Legs}
                      THEN [run |-> attempt, printed |-> printed] ELSE executed

\* An exception ends its cell: the seed's, or the experiments' with every leg
\* that was to come. The runner goes on to the next cell.
CellRaises(printed) ==
    /\ notebook' = [notebook EXCEPT !.leg = IF @ = 1 THEN 2 ELSE Legs + 1,
                                    !.raised = TRUE, !.printed = printed]
    /\ executed' = [run |-> attempt, printed |-> printed]
LeftOpen == Append(notebook.printed, NoLine)

Submit ==
    /\ attempt \in runners /\ notebook.leg \in 1..Legs
    /\ job[attempt].app = "none"
    /\ IF notebook.ok
       THEN /\ job' = [job EXCEPT ![attempt] = [NoJob EXCEPT !.app = "starting"]]
            /\ UNCHANGED cells
       ELSE EndsLeg(NoLine) /\ UNCHANGED job
    /\ UNCHANGED <<run, guard, watch, stall_dir, files>>

\* submit raises: before it prints the leg's header (no source paths, a
\* profile that cannot be read), or after (no launcher to start).
SubmitRaises ==
    /\ attempt \in runners /\ notebook.leg \in 1..Legs
    /\ job[attempt].app = "none"
    /\ CellRaises(notebook.printed) \/ CellRaises(LeftOpen)
    /\ UNCHANGED <<run, guard, cluster, files>>

\* Every cell was executed. 1 when a cell raised, as the later ones may.
NotebookEnds ==
    /\ notebook.leg = Legs + 1
    /\ RunnerEnds(IF notebook.raised THEN {1} ELSE {0, 1})

(* ------------- a submission, in a session of its own ------------------- *)

AppStarts(r) ==
    /\ job[r].app = "starting" /\ job' = [job EXCEPT ![r].app = "running"]
    /\ checkpoints' = checkpoints \cup {r}
    /\ UNCHANGED <<run, guard, cells, watch, stall_dir, noted, outcome, cut>>

TaskEnds(r) ==
    /\ job[r].app = "running" /\ job[r].hang = "no"
    /\ job' = [job EXCEPT ![r].quiet = 0]
    /\ watch' = [watch EXCEPT ![r].changed = TRUE]
    /\ UNCHANGED <<run, guard, cells, stall_dir, files>>

TimePasses(r) ==
    /\ job[r].app = "running"
    /\ job' = [job EXCEPT ![r].quiet = Upto(@)]
    /\ watch' = [watch EXCEPT ![r].frozen = Upto(@)]
    /\ UNCHANGED <<run, guard, cells, stall_dir, files>>

Hangs(r, where) ==
    /\ job[r].app = "running" /\ job[r].hang = "no"
    /\ job' = [job EXCEPT ![r].hang = where]
    /\ UNCHANGED <<run, guard, cells, watch, stall_dir, files>>

Recovers(r) ==
    /\ job[r].hang # "no" /\ job' = [job EXCEPT ![r].hang = "no"]
    /\ UNCHANGED <<run, guard, cells, watch, stall_dir, files>>

\* The submission and its watchdog, which submit_spark_job.sh kills.
JobGone(r) ==
    /\ job' = [job EXCEPT ![r] = NoJob] /\ watch' = [watch EXCEPT ![r] = NoWatch]

\* The job exits, with the runner there to read its code or not.
JobEnds(r, status) ==
    /\ job[r].app # "none" /\ job[r].hang = "no" /\ JobGone(r)
    /\ IF r \in runners THEN EndsLeg(status) ELSE UNCHANGED cells
    /\ UNCHANGED <<run, guard, stall_dir, files>>

\* submit compares the clock with the deadline when a line of output comes,
\* and raises when what it killed has not ended a minute later.
CapReached(r) ==
    /\ r \in runners /\ job[r].app = "running" /\ job[r].hang = "no"
    /\ JobGone(r) /\ (EndsLeg(NoLine) \/ CellRaises(LeftOpen))
    /\ UNCHANGED <<run, guard, stall_dir, files>>

(* --------------------------- the stall watchdog ------------------------ *)

\* Mutant: the time of the last completion is kept when the count moves.
SeesChangeOnly(r) ==
    /\ watch[r].changed
    /\ watch' = [watch EXCEPT ![r].changed = FALSE]
    /\ UNCHANGED stall_dir

SeesChange(r) ==
    /\ watch[r].changed
    /\ watch' = [watch EXCEPT ![r].changed = FALSE, ![r].frozen = 0]
    /\ UNCHANGED stall_dir

\* classify's verdict on the running tasks is left open: whether one is past
\* the stage's longest depends on the work. With no task active, none is.
Captures(r) ==
    /\ ~watch[r].changed /\ watch[r].frozen >= Stall
    /\ job[r].hang # "driver"
    /\ watch[r].captures < MaxCaptures
    /\ watch' = [watch EXCEPT ![r].captures = @ + 1]
    /\ stall_dir' = stall_dir \cup
           {[run |-> r, quiet |-> job[r].quiet >= Stall, during |-> attempt]}

Poll(r) ==
    /\ job[r].app = "running"
    /\ SeesChange(r) \/ Captures(r)
    /\ UNCHANGED <<run, guard, cells, job, files>>

(* --------------------------- the network guard ------------------------- *)

GuardPings(in_time) ==
    /\ attempt \in guards /\ done = NoFile
    /\ strikes' = IF in_time THEN 0 ELSE strikes + 1
    /\ IF strikes' >= Strikes
       THEN killed_by' = attempt /\ guards' = guards \ {attempt} /\ RunnerIsKilled
       ELSE UNCHANGED <<killed_by, guards, runners, cut, rc, executed>>
    /\ UNCHANGED <<attempt, pc, keep_waiting, samplers, done, notebook,
                   cluster, noted, checkpoints, outcome>>

GuardLeaves ==
    /\ attempt \in guards /\ done # NoFile /\ guards' = guards \ {attempt}
    /\ UNCHANGED <<run, killed_by, strikes, cells, cluster, files>>

Supervises == NoteCaptures \/ RunnerGone \/ Records \/ Sweeps \/ GuardLeaves
Runs ==
    \/ RunnerStarts \/ (\E fine \in BOOLEAN, listed \in PageAnswers : Preflight(fine, listed))
    \/ Submit \/ SubmitRaises \/ NotebookEnds
Submission(r) ==
    AppStarts(r) \/ CapReached(r) \/ \E status \in {"ok", "failed"} : JobEnds(r, status)
Breaks(r) == TaskEnds(r) \/ Recovers(r) \/ \E w \in HangsIn : Hangs(r, w)

Next ==
    \/ \E keep \in BOOLEAN : Launch(keep)
    \/ Supervises \/ Runs \/ LauncherKilled \/ OperatorStops \/ RunnerNeverSaves
    \/ \E in_time \in BOOLEAN : GuardPings(in_time)
    \/ \E r \in Attempt : Submission(r) \/ Breaks(r) \/ TimePasses(r) \/ Poll(r)

Spec == Init /\ [][Next]_vars

\* The processes run, and a job that has not hung ends. Nothing is assumed
\* of hangs, recoveries, the gateway, kills, or of who launches the next run.
FairSpec ==
    /\ Spec /\ WF_vars(Supervises) /\ WF_vars(Runs)
    /\ \A r \in Attempt : WF_vars(Submission(r)) /\ WF_vars(TimePasses(r)) /\ WF_vars(Poll(r))
(* ------------------------------ properties ----------------------------- *)

\* run_cluster_notebook.sh:85-88: no process of an earlier attempt lives on
\* in the directory to write its files, and run.done and killed-by are the
\* newest attempt's own.
RunDirIsOneRuns ==
    /\ runners \cup guards \cup samplers \subseteq {attempt}
    /\ done.run \in {0, attempt} /\ killed_by \in {0, attempt}

\* run_cluster_notebook.sh:177-181: the run is stopped only for a capture
\* made while it was the directory's run.
CapturesAreThisRuns == \A c \in noted : c.during = attempt

\* stall_watchdog.py: a stage is captured only when none of its tasks has
\* ended for --stall-seconds, whenever the polls happen to come.
CapturedWasQuiet == \A c \in stall_dir : c.quiet

\* run_cluster_notebook.sh:342-347: the checkpoints of a job that may still
\* read them are not swept, unless the runner was killed from outside.
SweepSparesLiveJob ==
    \A r \in Attempt :
        job[r].app = "running" /\ r \notin cut => r \in checkpoints

\* record_run_outcome.sh: a run that ran to the end and is reported with
\* every submission ok has no leg that failed, hung, was not submitted or was
\* left open, and where the runner's code beside it is 0 it has every leg.
\* Beside a 1 a leg that raised before its header may be missing.
OutcomeIsHonest ==
    outcome.ok /\ outcome.of = attempt /\ pc = "exited" /\ rc \in {0, 1}
        => /\ \A k \in DOMAIN notebook.printed : notebook.printed[k] = "ok"
           /\ rc = 0 => Len(notebook.printed) = Legs

\* run_cluster_notebook.sh:291-297: a launcher told not to keep waiting does
\* not wait forever on a stage in which nothing moves.
StalledRunEnds ==
    (pc = "waiting" /\ ~keep_waiting /\ job[attempt].hang = "stage")
        ~> (pc # "waiting" \/ job[attempt].hang = "no")

\* record_run_outcome.sh:50-51: what the report says is read from the run
\* it names, not from a file an earlier run left behind.
OutcomeIsThisRuns == outcome.of \in {0, outcome.run}
=============================================================================
