------------------------------ MODULE Archive ------------------------------
(***************************************************************************)
(* bin/publish_run.py --archive: copying finished runs onto a local drive, *)
(* one copy for each data day, the day's marker last.                      *)
(*                                                                         *)
(* The archive has two halves, a folder for each run and a partition of    *)
(* each day in every table, tied together by the day's marker, which names *)
(* the run.  A second run of a day takes the first one's copy out, marker  *)
(* first, before its own goes in; --keep-days takes out the oldest days    *)
(* the same way.  The command may stop between any two files, by an        *)
(* OSError or by a kill, and is run again.                                 *)
(*                                                                         *)
(* A file is copied under a temporary name and renamed, so a name that is  *)
(* there has its full size; the drive may still have written it wrong,     *)
(* which only the reading back of the graph files can tell.                *)
(***************************************************************************)
EXTENDS Naturals, FiniteSets

CONSTANTS
    Run,         \* the runs of one dataset
    LastDay,     \* the days are 1..LastDay, in order
    DayOf,       \* data_day of each run
    Graph,       \* the files of a run's folder that checksums.json lists
    Other,       \* its other files: node index, manifests, checksums.json itself
    Part,        \* the files of one run's tables
    NoRun,       \* "no marker", and "no run named"
    KeepDays,    \* --keep-days
    MaxFaults,   \* bound on refused roots, OSErrors and kills together
    MaxSpoiled   \* bound on the copies the drive writes wrong

Day     == 1..LastDay
RunFile == Graph \cup Other

ASSUME DayAssumption   == LastDay \in Nat /\ DayOf \in [Run -> Day] /\ NoRun \notin Run
ASSUME FileAssumption  == Graph # {} /\ RunFile \cap Part = {}
ASSUME BoundAssumption == KeepDays \in Nat \ {0} /\ MaxFaults \in Nat /\ MaxSpoiled \in Nat

VARIABLES
    flawed,   \* the runs whose graphs do not match their own checksums or day
    folder,   \* the files in each run's archived folder
    parts,    \* the files each run has in its day's table partitions
    marker,   \* the run each day's marker names
    pc,       \* where the command is
    run,      \* the run it was given last
    keeping,  \* whether it was given --keep-days
    day,      \* the day it is taking out
    named,    \* the run that day's marker named
    older,    \* the days left to trim
    code,     \* its exit code, "none" while it runs
    faults,
    spoiled   \* copies written wrong so far

archiveVars == <<folder, parts, marker>>
removalVars == <<day, named, older>>
vars == <<flawed, archiveVars, pc, run, keeping, removalVars, code, faults, spoiled>>

Object == {"absent", "spoiled", "whole"}
Step   == {"idle", "unmark", "untable", "unrun", "copy", "check", "mark", "trim", "next"}
Code   == {"none", "ok", "failed", "refused"}

TypeOK ==
    /\ flawed \subseteq Run
    /\ folder \in [Run -> [RunFile -> Object]]
    /\ parts \in [Run -> [Part -> {"absent", "whole"}]]
    /\ marker \in [Day -> Run \cup {NoRun}]
    /\ pc \in Step
    /\ run \in Run \cup {NoRun}
    /\ keeping \in BOOLEAN
    /\ day \in Day \cup {0}
    /\ named \in Run \cup {NoRun}
    /\ older \subseteq Day
    /\ code \in Code
    /\ faults \in 0..MaxFaults
    /\ spoiled \in 0..MaxSpoiled

Init ==
    /\ flawed \in SUBSET Run
    /\ folder = [r \in Run |-> [f \in RunFile |-> "absent"]]
    /\ parts = [r \in Run |-> [p \in Part |-> "absent"]]
    /\ marker = [d \in Day |-> NoRun]
    /\ pc = "idle"
    /\ run = NoRun
    /\ keeping = FALSE
    /\ day = 0
    /\ named = NoRun
    /\ older = {}
    /\ code = "none"
    /\ faults = 0
    /\ spoiled = 0

----------------------------------------------------------------------------
Fault   == faults < MaxFaults /\ faults' = faults + 1
NoFault == UNCHANGED faults

Marked == {d \in Day : marker[d] # NoRun}

\* The days of trim_archive()'s list before d: those a trim keeps first.
Newer(d) == {e \in Marked : e > d}

FolderThere(r)  == \A f \in RunFile : folder[r][f] # "absent"
PartsThere(r)   == \A p \in Part : parts[r][p] # "absent"
FolderGone(r)   == \A f \in RunFile : folder[r][f] = "absent"
DayTablesGone(d) == \A r \in Run : DayOf[r] = d => \A p \in Part : parts[r][p] = "absent"
GraphsRead(r)   == \A f \in Graph : folder[r][f] = "whole"

\* Mutant: "whole" asks for a marker of the day, not for one that names this run.
WholeAnyRun(r) == marker[DayOf[r]] # NoRun

\* "already names this run and every file is there", by size.
Whole(r) == marker[DayOf[r]] = r /\ FolderThere(r) /\ PartsThere(r)

\* check_archived(): a marker, and a folder of the run it names.
check_archived(r) ==
    \E q \in Run : marker[DayOf[r]] = q /\ ~FolderGone(q)

Goto(s) == pc' = s /\ UNCHANGED code

Ends(c) ==
    /\ pc' = "idle"
    /\ code' = c
    /\ day' = 0 /\ named' = NoRun /\ older' = {}

\* Mutant: a day held by another run loses its tables before its marker.
StartTablesFirst(r) ==
    /\ pc = "idle"
    /\ run' = r
    /\ keeping' \in BOOLEAN
    /\ \/ (r \in flawed /\ ~Whole(r) /\ NoFault) /\ Ends("refused")
       \/ /\ Whole(r) \/ r \notin flawed
          /\ code' = "none"
          /\ day' = IF Whole(r) THEN 0 ELSE DayOf[r]
          /\ pc' = IF Whole(r) THEN "trim" ELSE "untable"
          /\ NoFault
          /\ UNCHANGED <<named, older>>
    /\ UNCHANGED <<flawed, archiveVars, spoiled>>

\* Mutant: a folder of this run is already there, so the run is refused.
StartOnlyOnce(r) ==
    /\ pc = "idle"
    /\ run' = r
    /\ keeping' \in BOOLEAN
    /\ \/ (r \in flawed \/ ~FolderGone(r)) /\ ~Whole(r) /\ NoFault /\ Ends("refused")
       \/ /\ Whole(r) \/ (r \notin flawed /\ FolderGone(r))
          /\ code' = "none"
          /\ day' = IF Whole(r) THEN 0 ELSE DayOf[r]
          /\ pc' = IF Whole(r) THEN "trim" ELSE IF DayOf[r] \in Marked THEN "unmark" ELSE "untable"
          /\ NoFault
          /\ UNCHANGED <<named, older>>
    /\ UNCHANGED <<flawed, archiveVars, spoiled>>

\* The root may be missing; a run's own checks come before anything is removed.
Start(r) ==
    /\ pc = "idle"
    /\ run' = r
    /\ keeping' \in BOOLEAN
    /\ \/ (Fault \/ (r \in flawed /\ ~Whole(r) /\ NoFault)) /\ Ends("refused")
       \/ /\ Whole(r) \/ r \notin flawed
          /\ code' = "none"
          /\ day' = IF Whole(r) THEN 0 ELSE DayOf[r]
          /\ pc' = CASE Whole(r) -> "trim"
                     [] ~Whole(r) /\ DayOf[r] \in Marked -> "unmark"
                     [] ~Whole(r) /\ DayOf[r] \notin Marked -> "untable"
          /\ NoFault
          /\ UNCHANGED <<named, older>>
    /\ UNCHANGED <<flawed, archiveVars, spoiled>>

(* remove_archived_day(): the marker, the tables, then the run it named.   *)

Unmark ==
    /\ pc = "unmark"
    /\ named' = marker[day]
    /\ marker' = [marker EXCEPT ![day] = NoRun]
    /\ Goto("untable")
    /\ UNCHANGED <<flawed, folder, parts, run, keeping, day, older, faults, spoiled>>

RemovePart ==
    /\ pc = "untable"
    /\ \E r \in Run, p \in Part :
          /\ DayOf[r] = day /\ parts[r][p] # "absent"
          /\ parts' = [parts EXCEPT ![r][p] = "absent"]
    /\ UNCHANGED <<flawed, folder, marker, pc, run, keeping, removalVars, code, faults, spoiled>>

TablesRemoved ==
    /\ pc = "untable"
    /\ DayTablesGone(day)
    /\ Goto("unrun")
    /\ UNCHANGED <<flawed, archiveVars, run, keeping, removalVars, faults, spoiled>>

RemoveRunFile ==
    /\ pc = "unrun"
    /\ named # NoRun
    /\ \E f \in RunFile :
          /\ folder[named][f] # "absent"
          /\ folder' = [folder EXCEPT ![named][f] = "absent"]
    /\ UNCHANGED <<flawed, parts, marker, pc, run, keeping, removalVars, code, faults, spoiled>>

RunRemoved ==
    /\ pc = "unrun"
    /\ named # NoRun => FolderGone(named)
    /\ named' = NoRun /\ day' = 0
    /\ IF older = {} THEN Goto("copy") ELSE Goto("next")
    /\ older' = older \ {day}
    /\ UNCHANGED <<flawed, archiveVars, run, keeping, faults, spoiled>>

(* archive(): the copy, the check, the marker.                             *)

CopyFile ==
    /\ pc = "copy"
    /\ \E f \in RunFile :
          /\ folder[run][f] = "absent"
          /\ \/ folder' = [folder EXCEPT ![run][f] = "whole"] /\ UNCHANGED spoiled
             \/ /\ f \in Graph /\ spoiled < MaxSpoiled
                /\ folder' = [folder EXCEPT ![run][f] = "spoiled"]
                /\ spoiled' = spoiled + 1
    /\ UNCHANGED <<flawed, parts, marker, pc, run, keeping, removalVars, code, faults>>

CopyPart ==
    /\ pc = "copy"
    /\ FolderThere(run)
    /\ \E p \in Part :
          /\ parts[run][p] = "absent"
          /\ parts' = [parts EXCEPT ![run][p] = "whole"]
    /\ UNCHANGED <<flawed, folder, marker, pc, run, keeping, removalVars, code, faults, spoiled>>

CopyEnds ==
    /\ pc = "copy"
    /\ FolderThere(run) /\ PartsThere(run)
    /\ Goto("check")
    /\ UNCHANGED <<flawed, archiveVars, run, keeping, removalVars, faults, spoiled>>

\* Mutant: check_archive() by size alone.
CheckBySize ==
    /\ pc = "check"
    /\ Goto("mark") /\ UNCHANGED removalVars
    /\ NoFault
    /\ UNCHANGED <<flawed, archiveVars, run, keeping, spoiled>>

\* check_archive(): every file by size, the graph files read back.
Check ==
    /\ pc = "check"
    /\ \/ GraphsRead(run) /\ Goto("mark") /\ UNCHANGED removalVars
       \/ ~GraphsRead(run) /\ Ends("failed")
    /\ NoFault
    /\ UNCHANGED <<flawed, archiveVars, run, keeping, spoiled>>

\* Mutant: day_marker() with its day and run_id swapped.
PutMarkerSwapped ==
    /\ pc = "mark"
    /\ marker' = [marker EXCEPT ![DayOf[run]] = DayOf[run]]
    /\ Goto("trim")
    /\ UNCHANGED <<flawed, folder, parts, run, keeping, removalVars, faults, spoiled>>

PutMarker ==
    /\ pc = "mark"
    /\ marker' = [marker EXCEPT ![DayOf[run]] = run]
    /\ Goto("trim")
    /\ UNCHANGED <<flawed, folder, parts, run, keeping, removalVars, faults, spoiled>>

(* trim_archive(), when --keep-days is given.                              *)

\* Mutant: the markers sorted oldest first, so the newest days go.
TrimOldestKept ==
    /\ pc = "trim"
    /\ older' = IF keeping THEN {d \in Marked : Cardinality({e \in Marked : e < d}) >= KeepDays}
                           ELSE {}
    /\ Goto("next")
    /\ UNCHANGED <<flawed, archiveVars, run, keeping, day, named, faults, spoiled>>

Trim ==
    /\ pc = "trim"
    /\ older' = IF keeping THEN {d \in Marked : Cardinality(Newer(d)) >= KeepDays} ELSE {}
    /\ Goto("next")
    /\ UNCHANGED <<flawed, archiveVars, run, keeping, day, named, faults, spoiled>>

\* Mutant: the oldest day is left out of the trim, an off-by-one in the slice.
TrimNextShort ==
    /\ pc = "next"
    /\ \/ Cardinality(older) <= 1 /\ Ends("ok")
       \/ /\ Cardinality(older) > 1
          /\ \E d \in older : (\A e \in older : e <= d) /\ day' = d
          /\ Goto("unmark")
          /\ UNCHANGED <<named, older>>
    /\ UNCHANGED <<flawed, archiveVars, run, keeping, faults, spoiled>>

TrimNext ==
    /\ pc = "next"
    /\ \/ older = {} /\ Ends("ok")
       \/ /\ \E d \in older : (\A e \in older : e <= d) /\ day' = d
          /\ Goto("unmark")
          /\ UNCHANGED <<named, older>>
    /\ UNCHANGED <<flawed, archiveVars, run, keeping, faults, spoiled>>

\* An OSError anywhere past the checks becomes Failed.
Fails ==
    /\ pc # "idle"
    /\ Fault /\ Ends("failed")
    /\ UNCHANGED <<flawed, archiveVars, run, keeping, spoiled>>

\* A kill: no exit code.
Crash ==
    /\ pc # "idle"
    /\ Fault /\ Ends("none")
    /\ UNCHANGED <<flawed, archiveVars, run, keeping, spoiled>>

----------------------------------------------------------------------------
Continue ==
    \/ Unmark \/ RemovePart \/ TablesRemoved \/ RemoveRunFile \/ RunRemoved
    \/ CopyFile \/ CopyPart \/ CopyEnds \/ Check \/ PutMarker \/ Trim \/ TrimNext

Next == (\E r \in Run : Start(r)) \/ Continue \/ Fails \/ Crash

Spec == Init /\ [][Next]_vars

\* A started command goes on, and every run is archived again and again: what
\* "running it again finishes it" assumes of the operator.
FairSpec == Spec /\ WF_vars(Continue) /\ \A r \in Run : SF_vars(Start(r))

----------------------------------------------------------------------------
(* Safety.                                                                 *)

\* A marker vouches for a day's copy that is all there and all of one run: the
\* folder of the run it names with graphs that read back right, that run's
\* tables, and no part file another run left in the day's partitions.
\* (archive: clear or remove first, copy, check_archive, marker last.)
MarkedDayIsWhole == \A d \in Day : \A r \in Run : marker[d] = r =>
    /\ DayOf[r] = d
    /\ GraphsRead(r) /\ FolderThere(r) /\ PartsThere(r)
    /\ \A q \in Run \ {r} : DayOf[q] = d => \A p \in Part : parts[q][p] = "absent"

\* A day leaves the archive for one of two reasons: a run of that day, which
\* passed its own checks, is about to take its place, or the archive holds
\* KeepDays newer days.  No failed or refused command costs the archive a day
\* otherwise.  (archive: the checks come before remove_archived_day; trim_archive.)
DayLeavesForAReason == [][\A d \in Day : d \in Marked /\ marker'[d] # marker[d] =>
    /\ marker'[d] = NoRun
    /\ \/ DayOf[run] = d /\ run # marker[d] /\ run \notin flawed
       \/ Cardinality(Newer(d)) >= KeepDays]_vars

\* Exit code 0 means that the day is archived, as this run's copy, unless it was
\* trimmed at once because the archive holds KeepDays newer days.  (archive:
\* "nothing to copy" only for this run's own whole copy.)
OkIsArchived == pc = "idle" /\ code = "ok" =>
    marker[DayOf[run]] = run \/ (keeping /\ Cardinality(Newer(DayOf[run])) >= KeepDays)

\* Exit code 0 with --keep-days means that no more than KeepDays days are marked,
\* however many an earlier command that was cut short had left to trim.
NewestDaysOnly == pc = "idle" /\ code = "ok" /\ keeping => Cardinality(Marked) <= KeepDays

(* What the program's documentation says, which the code does not do.      *)

\* "The archive holds one copy of each data day" and "Nothing of the first run's
\* copy stays beside the second's": after exit code 0, no file of another run of
\* an archived day is left.  A copy or a removal that was cut short has no marker,
\* and only a marker leads remove_archived_day to a run's folder.
OkLeavesOneCopy == pc = "idle" /\ code = "ok" =>
    \A d \in Marked : \A r \in Run : DayOf[r] = d /\ marker[d] # r => FolderGone(r)

(* Liveness.                                                               *)

\* "A copy that stops partway has none, and running it again finishes it": on a
\* drive that spoils nothing, a run that passes its checks, archived again and
\* again, keeps getting its day into the archive, or finds KeepDays newer days.
RunningAgainArchives == \A r \in Run :
    []<>(spoiled > 0 \/ r \in flawed \/ check_archived(r) \/ Cardinality(Newer(DayOf[r])) >= KeepDays)

----------------------------------------------------------------------------
(* What a reader of marked days can see.                                   *)

readableDay == [d \in Day |->
    {t \in Run \X (RunFile \cup Part) \X Object :
        /\ d \in Marked /\ DayOf[t[1]] = d
        /\ \/ t[2] \in Part /\ t[3] = parts[t[1]][t[2]] /\ t[3] # "absent"
           \/ t[2] \in RunFile /\ marker[d] = t[1] /\ t[3] = folder[t[1]][t[2]] /\ t[3] # "absent"}]

Shelf == INSTANCE ArchiveShelf WITH shelf <- readableDay

\* Through the markers, days come whole and leave at once.
ImplementsShelf == Shelf!Spec
============================================================================
