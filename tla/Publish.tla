------------------------------ MODULE Publish ------------------------------
(***************************************************************************)
(* bin/publish_run.py: sending finished runs, and days of query tables, to *)
(* a destination that takes writes and listings but neither reads nor      *)
(* deletes.                                                                *)
(*                                                                         *)
(* A run goes to a folder of its own, named for the run, and index.json    *)
(* goes there last.  A day of tables goes to a folder that every run of    *)
(* that day shares, and _days/<day>.json goes there last.  Part files      *)
(* carry the id of the write that made them, so two runs of one day never  *)
(* overwrite each other's parts: they end up beside each other.            *)
(*                                                                         *)
(* One publisher process per run directory, with a program counter; every  *)
(* call to the destination is a step of its own and may fail, a call that  *)
(* reports failure may still have taken effect, and the process may be     *)
(* killed between any two of them.                                         *)
(***************************************************************************)
EXTENDS Naturals

CONSTANTS
    Run,        \* the runs of one dataset
    Day,        \* the days their sources were cut from
    DayOf,      \* data_day of each run
    RunFile,    \* the files of a run's folder, less index.json
    Part,       \* the part files one run writes for its day's tables
    NoRun,      \* "no marker is listed"
    MaxFaults   \* bound on failed calls, lost answers and kills together

ASSUME RunAssumption   == DayOf \in [Run -> Day] /\ NoRun \notin Run
ASSUME FileAssumption  == RunFile # {} /\ Part # {}
ASSUME FaultAssumption == MaxFaults \in Nat

VARIABLES
    job,     \* what run.done and outcome.txt say of each run
    tables,  \* what the leg that writes the tables has left in each run's work
    flaw,    \* what is wrong with a run's artifacts, if anything
    folder,  \* the objects listed in each run's folder
    index,   \* the runs whose index.json is listed
    parts,   \* the objects each run has below its day's tables
    marker,  \* the run each day's marker names
    pc,      \* where each run's publisher is
    mode,    \* what it was started to do
    done,    \* the exit codes in publish.done and publish-tables.done
    faults   \* faults so far

jobVars  == <<job, tables, flaw>>
destVars == <<folder, index, parts, marker>>
vars     == <<jobVars, destVars, pc, mode, done, faults>>

Object == {"absent", "short", "whole"}
Step   == {"idle", "list", "send", "check", "index", "verify",
           "ask", "guard", "sendTables", "checkTables", "marker"}
Mode   == {"none", "upload", "resume", "tables"}
Code   == {"none", "ok", "failed", "refused"}     \* no file, 0, 1, 2
Done   == {"publish", "tables"}                   \* the two .done files

TypeOK ==
    /\ job \in [Run -> {"running", "ok", "failed"}]
    /\ tables \in [Run -> {"none", "writing", "complete", "recorded"}]
    /\ flaw \in [Run -> {"none", "graph", "labels"}]
    /\ folder \in [Run -> [RunFile -> Object]]
    /\ index \subseteq Run
    /\ parts \in [Run -> [Part -> Object]]
    /\ marker \in [Day -> Run \cup {NoRun}]
    /\ pc \in [Run -> Step]
    /\ mode \in [Run -> Mode]
    /\ done \in [Run -> [Done -> Code]]
    /\ faults \in 0..MaxFaults

Init ==
    /\ job = [r \in Run |-> "running"]
    /\ tables = [r \in Run |-> "none"]
    /\ flaw \in [Run -> {"none", "graph", "labels"}]
    /\ folder = [r \in Run |-> [f \in RunFile |-> "absent"]]
    /\ index = {}
    /\ parts = [r \in Run |-> [p \in Part |-> "absent"]]
    /\ marker = [d \in Day |-> NoRun]
    /\ pc = [r \in Run |-> "idle"]
    /\ mode = [r \in Run |-> "none"]
    /\ done = [r \in Run |-> [k \in Done |-> "none"]]
    /\ faults = 0

----------------------------------------------------------------------------
(* The job whose artifacts are published.  The leg that writes the tables  *)
(* saves its manifest after them, and saving a manifest is best effort.    *)
(* A launcher that gives up on a stalled job writes run.done while the job *)
(* goes on, so tables can follow a failure.                                *)

WriteTables(r) ==
    /\ job[r] # "ok"
    /\ \/ tables[r] = "none" /\ tables' = [tables EXCEPT ![r] = "writing"]
       \/ tables[r] = "writing" /\ tables' = [tables EXCEPT ![r] = "complete"]
       \/ tables[r] = "writing" /\ tables' = [tables EXCEPT ![r] = "recorded"]
    /\ UNCHANGED <<job, flaw, destVars, pc, mode, done, faults>>

EndJob(r) ==
    /\ job[r] = "running"
    /\ \/ job' = [job EXCEPT ![r] = "failed"]
       \/ tables[r] # "writing" /\ job' = [job EXCEPT ![r] = "ok"]
    /\ UNCHANGED <<tables, flaw, destVars, pc, mode, done, faults>>

----------------------------------------------------------------------------
(* Reading the run directory.                                              *)

\* What publish() asks of the run before it lists anything.
Publishable(r) == job[r] = "ok" /\ flaw[r] # "labels"

\* Mutant: any table folder will do, whether or not its writer has finished.
TablesSendableUnrecorded(r) == tables[r] # "none" /\ flaw[r] # "labels"

\* What publish_day_tables() asks of it: the manifest's two times, no run.done.
TablesSendable(r) == tables[r] = "recorded" /\ flaw[r] # "labels"

HasTables(r) == tables[r] # "none"

(* Reading the destination.                                                *)

\* check_upload() of a run's folder: nothing but this run writes there.
FolderMatches(r) == \A f \in RunFile : folder[r][f] = "whole"

\* Mutant: check_upload() looks for its own files and overlooks the extra ones.
DayMatchesExtrasAllowed(r) == \A p \in Part : parts[r][p] = "whole"

\* check_upload() with scope day=<day>/: every part of this run, no other part.
DayMatches(r) ==
    /\ \A p \in Part : parts[r][p] = "whole"
    /\ \A q \in Run \ {r} : DayOf[q] = DayOf[r] => \A p \in Part : parts[q][p] = "absent"

DayPublished(d) == marker[d] # NoRun

\* day_published_by(): the listing is all there is to tell whose tables they are.
PublishedByThisRun(r) == \A p \in Part : parts[r][p] = "whole"

\* check_published(): what a prune asks.
check_published(r) == r \in index /\ (HasTables(r) => DayPublished(DayOf[r]))

----------------------------------------------------------------------------
(* The publisher.                                                          *)

Fault   == faults < MaxFaults /\ faults' = faults + 1
NoFault == UNCHANGED faults

Goto(r, s) == pc' = [pc EXCEPT ![r] = s] /\ UNCHANGED <<mode, done>>

\* main() writes the exit code last; upload and its resumption share publish.done.
DoneFile(r) == IF mode[r] = "tables" THEN "tables" ELSE "publish"

Ends(r, code) ==
    /\ pc' = [pc EXCEPT ![r] = "idle"]
    /\ mode' = [mode EXCEPT ![r] = "none"]
    /\ done' = [done EXCEPT ![r][DoneFile(r)] = code]

\* While it resumes a published run's tables, publish() turns Failed into Refused.
FailedCode(r) == IF mode[r] = "resume" THEN "refused" ELSE "failed"

StartUpload(r) ==
    /\ pc[r] = "idle"
    /\ \/ /\ Publishable(r)
          /\ pc' = [pc EXCEPT ![r] = "list"]
          /\ mode' = [mode EXCEPT ![r] = "upload"]
          /\ UNCHANGED done
       \/ /\ ~Publishable(r)
          /\ done' = [done EXCEPT ![r]["publish"] = "refused"]
          /\ UNCHANGED <<pc, mode>>
    /\ UNCHANGED <<jobVars, destVars, faults>>

StartTables(r) ==
    /\ pc[r] = "idle"
    /\ \/ /\ TablesSendable(r)
          /\ pc' = [pc EXCEPT ![r] = "ask"]
          /\ mode' = [mode EXCEPT ![r] = "tables"]
          /\ UNCHANGED done
       \/ /\ ~TablesSendable(r)
          /\ done' = [done EXCEPT ![r]["tables"] = "refused"]
          /\ UNCHANGED <<pc, mode>>
    /\ UNCHANGED <<jobVars, destVars, faults>>

\* Mutant: a run that has its index.json is refused, tables or no tables.
ListRunNeverResuming(r) ==
    /\ pc[r] = "list"
    /\ \/ Fault /\ Ends(r, "refused")
       \/ r \in index /\ NoFault /\ Ends(r, "refused")
       \/ r \notin index /\ flaw[r] = "graph" /\ NoFault /\ Ends(r, "refused")
       \/ r \notin index /\ flaw[r] # "graph" /\ NoFault /\ Goto(r, "send")
    /\ UNCHANGED <<jobVars, destVars>>

\* The listing before the checksums: a finished run is never sent again, its
\* tables may still be; any other run has its graphs checked before it is sent.
ListRun(r) ==
    /\ pc[r] = "list"
    /\ \/ Fault /\ Ends(r, "refused")
       \/ r \in index /\ ~HasTables(r) /\ NoFault /\ Ends(r, "refused")
       \/ /\ r \in index /\ HasTables(r) /\ NoFault
          /\ pc' = [pc EXCEPT ![r] = "guard"]
          /\ mode' = [mode EXCEPT ![r] = "resume"]
          /\ UNCHANGED done
       \/ r \notin index /\ flaw[r] = "graph" /\ NoFault /\ Ends(r, "refused")
       \/ r \notin index /\ flaw[r] # "graph" /\ NoFault /\ Goto(r, "send")
    /\ UNCHANGED <<jobVars, destVars>>

\* aws s3 sync, one object at a time.
SendFile(r) ==
    /\ pc[r] = "send"
    /\ \E f \in RunFile :
          /\ folder[r][f] # "whole"
          /\ folder' = [folder EXCEPT ![r][f] = "whole"]
    /\ UNCHANGED <<jobVars, index, parts, marker, pc, mode, done, faults>>

\* A sync that stops may leave the object it was sending short.
SendFails(r) ==
    /\ pc[r] = "send"
    /\ Fault
    /\ \/ UNCHANGED folder
       \/ \E f \in RunFile :
             /\ folder[r][f] # "whole"
             /\ folder' = [folder EXCEPT ![r][f] = "short"]
    /\ Ends(r, "failed")
    /\ UNCHANGED <<jobVars, index, parts, marker>>

\* Exit code 0 is not taken for an answer: it may come with files not there.
SendEnds(r) ==
    /\ pc[r] = "send"
    /\ \/ FolderMatches(r) /\ NoFault
       \/ ~FolderMatches(r) /\ Fault
    /\ Goto(r, "check")
    /\ UNCHANGED <<jobVars, destVars>>

\* Mutant: index.json follows a sync that exited 0, without the listing.
CheckRunTrustingSync(r) ==
    /\ pc[r] = "check"
    /\ NoFault /\ Goto(r, "index")
    /\ UNCHANGED <<jobVars, destVars>>

CheckRun(r) ==
    /\ pc[r] = "check"
    /\ \/ Fault /\ Ends(r, "failed")
       \/ ~FolderMatches(r) /\ NoFault /\ Ends(r, "failed")
       \/ FolderMatches(r) /\ NoFault /\ Goto(r, "index")
    /\ UNCHANGED <<jobVars, destVars>>

\* A copy that reports failure may have been made all the same.
PutIndex(r) ==
    /\ pc[r] = "index"
    /\ \/ index' = index \cup {r} /\ NoFault /\ Goto(r, "verify")
       \/ index' \in {index, index \cup {r}} /\ Fault /\ Ends(r, "failed")
    /\ UNCHANGED <<jobVars, folder, parts, marker>>

\* Mutant: publish() returns 0 once the run is up, its tables forgotten.
VerifyIndexForgettingTables(r) ==
    /\ pc[r] = "verify"
    /\ \/ Fault /\ Ends(r, "failed")
       \/ r \in index /\ NoFault /\ Ends(r, "ok")
    /\ UNCHANGED <<jobVars, destVars>>

VerifyIndex(r) ==
    /\ pc[r] = "verify"
    /\ \/ Fault /\ Ends(r, "failed")
       \/ r \in index /\ ~HasTables(r) /\ NoFault /\ Ends(r, "ok")
       \/ r \in index /\ HasTables(r) /\ NoFault /\ Goto(r, "ask")
    /\ UNCHANGED <<jobVars, destVars>>

\* tables_unless_published(): a day already published is skipped with code 0.
AskDay(r) ==
    /\ pc[r] = "ask"
    /\ \/ Fault /\ Ends(r, "failed")
       \/ DayPublished(DayOf[r]) /\ NoFault /\ Ends(r, "ok")
       \/ ~DayPublished(DayOf[r]) /\ NoFault /\ Goto(r, "guard")
    /\ UNCHANGED <<jobVars, destVars>>

\* Mutant: publish_tables() without its guard, its callers having asked.
GuardDayUnguarded(r) ==
    /\ pc[r] = "guard"
    /\ \/ Fault /\ Ends(r, FailedCode(r))
       \/ NoFault /\ Goto(r, "sendTables")
    /\ UNCHANGED <<jobVars, destVars>>

\* publish_tables() lists again, and refuses a day that has its marker.
GuardDay(r) ==
    /\ pc[r] = "guard"
    /\ \/ Fault /\ Ends(r, FailedCode(r))
       \/ DayPublished(DayOf[r]) /\ NoFault /\ Ends(r, "refused")
       \/ ~DayPublished(DayOf[r]) /\ NoFault /\ Goto(r, "sendTables")
    /\ UNCHANGED <<jobVars, destVars>>

SendPart(r) ==
    /\ pc[r] = "sendTables"
    /\ \E p \in Part :
          /\ parts[r][p] # "whole"
          /\ parts' = [parts EXCEPT ![r][p] = "whole"]
    /\ UNCHANGED <<jobVars, folder, index, marker, pc, mode, done, faults>>

SendPartsFails(r) ==
    /\ pc[r] = "sendTables"
    /\ Fault
    /\ \/ UNCHANGED parts
       \/ \E p \in Part :
             /\ parts[r][p] # "whole"
             /\ parts' = [parts EXCEPT ![r][p] = "short"]
    /\ Ends(r, "failed")
    /\ UNCHANGED <<jobVars, folder, index, marker>>

SendPartsEnds(r) ==
    /\ pc[r] = "sendTables"
    /\ \/ PublishedByThisRun(r) /\ NoFault
       \/ ~PublishedByThisRun(r) /\ Fault
    /\ Goto(r, "checkTables")
    /\ UNCHANGED <<jobVars, destVars>>

\* Mutant: the day's marker follows a sync that exited 0, without the listing.
CheckDayTrustingSync(r) ==
    /\ pc[r] = "checkTables"
    /\ NoFault /\ Goto(r, "marker")
    /\ UNCHANGED <<jobVars, destVars>>

CheckDay(r) ==
    /\ pc[r] = "checkTables"
    /\ \/ Fault /\ Ends(r, FailedCode(r))
       \/ ~DayMatches(r) /\ NoFault /\ Ends(r, "failed")
       \/ DayMatches(r) /\ NoFault /\ Goto(r, "marker")
    /\ UNCHANGED <<jobVars, destVars>>

\* Mutant: day_marker() with its day and run_id swapped.
PutMarkerSwapped(r) ==
    LET named == [marker EXCEPT ![DayOf[r]] = DayOf[r]] IN
    /\ pc[r] = "marker"
    /\ \/ marker' = named /\ NoFault /\ Ends(r, "ok")
       \/ marker' \in {marker, named} /\ Fault /\ Ends(r, "failed")
    /\ UNCHANGED <<jobVars, folder, index, parts>>

PutMarker(r) ==
    LET named == [marker EXCEPT ![DayOf[r]] = r] IN
    /\ pc[r] = "marker"
    /\ \/ marker' = named /\ NoFault /\ Ends(r, "ok")
       \/ marker' \in {marker, named} /\ Fault /\ Ends(r, "failed")
    /\ UNCHANGED <<jobVars, folder, index, parts>>

\* A kill: no exit code is written, and the .done files keep what they said.
Crash(r) ==
    /\ pc[r] # "idle"
    /\ Fault
    /\ pc' = [pc EXCEPT ![r] = "idle"]
    /\ mode' = [mode EXCEPT ![r] = "none"]
    /\ UNCHANGED <<jobVars, destVars, done>>

----------------------------------------------------------------------------
Job(r)   == WriteTables(r) \/ EndJob(r)
Start(r) == StartUpload(r) \/ StartTables(r)

Continue(r) ==
    \/ ListRun(r) \/ SendFile(r) \/ SendFails(r) \/ SendEnds(r) \/ CheckRun(r)
    \/ PutIndex(r) \/ VerifyIndex(r) \/ AskDay(r) \/ GuardDay(r) \/ SendPart(r)
    \/ SendPartsFails(r) \/ SendPartsEnds(r) \/ CheckDay(r) \/ PutMarker(r)

\* The nightly run publishes under its lock, one run at a time.
Alone(r) == \A q \in Run \ {r} : pc[q] = "idle"

Next == \E r \in Run :
    Job(r) \/ (Alone(r) /\ Start(r)) \/ Continue(r) \/ Crash(r)

Spec == Init /\ [][Next]_vars

\* A started publisher goes on, and a run's upload is run again forever: what
\* "running again resumes it" assumes of the operator.
FairSpec ==
    /\ Spec
    /\ \A r \in Run : WF_vars(Continue(r)) /\ SF_vars(Alone(r) /\ StartUpload(r))

----------------------------------------------------------------------------
(* Safety.                                                                 *)

\* A listed marker vouches for a day that is whole and that is one run's: every
\* part of the run it names, none of another run of the day that was cut short.
\* (publish_tables: the marker is copied after check_upload, and the guard
\* keeps a later run off the day.)
DayIsOneRuns == \A d \in Day : \A r \in Run : marker[d] = r =>
    /\ DayOf[r] = d
    /\ \A p \in Part : parts[r][p] = "whole"
    /\ \A q \in Run \ {r} : DayOf[q] = d => \A p \in Part : parts[q][p] = "absent"

\* A listed index.json vouches for a whole run folder, whatever attempts failed
\* before it, of a run that succeeded and whose graphs passed their checks.
\* (publish: check_graph before the sync, check_upload after it, index.json last.)
IndexedRunIsWhole == \A r \in index :
    /\ \A f \in RunFile : folder[r][f] = "whole"
    /\ job[r] = "ok" /\ flaw[r] = "none"

\* Tables still being written are never vouched for, though --upload-tables
\* sends them while the job that wrote them still runs.
MarkedTablesWereComplete == \A d \in Day : \A r \in Run :
    marker[d] = r => tables[r] \in {"complete", "recorded"}

\* An exit code of 0 in publish.done means that check_published answers yes, now
\* and after any later failed, refused or killed attempt: what a prune relies on.
OkIsPublished == \A r \in Run : done[r]["publish"] = "ok" => check_published(r)

\* What is published stays as it is: no marker or index.json is taken back or
\* named again, and nothing is added to a folder that is vouched for.
PublishedIsFrozen == [][
    /\ index \subseteq index'
    /\ \A r \in index : folder'[r] = folder[r]
    /\ \A d \in Day : DayPublished(d) =>
          /\ marker'[d] = marker[d]
          /\ \A r \in Run : DayOf[r] = d => parts'[r] = parts[r] ]_vars

(* What the program's documentation says, which the code does not do.      *)

\* "A refusal writes nothing, except when the run went up and its tables were
\* then refused": an attempt that is past its sync of the tables does not end
\* with code 2, which Refused is documented to keep for reasons found before
\* anything was written.  (publish, the resumption of a published run's tables.)
RefusalSentNothing == [][\A r \in Run :
    pc[r] \in {"checkTables", "marker"} /\ done'[r] # done[r]
       => done'[r]["publish"] # "refused"]_vars

(* Liveness.                                                               *)

\* "Running again resumes it": a run that succeeded and has no flaw ends up
\* published, its tables included, when it is published again and again.
RunningAgainPublishes == \A r \in Run :
    (job[r] = "ok" /\ flaw[r] = "none") ~> check_published(r)

----------------------------------------------------------------------------
(* What a reader who waits for the marker can see.                         *)

readableRun == [r \in Run |->
    IF r \in index THEN {<<f, folder[r][f]>> : f \in RunFile} ELSE {}]

readableDay == [d \in Day |->
    IF DayPublished(d)
      THEN {t \in Run \X Part \X Object :
               DayOf[t[1]] = d /\ t[3] = parts[t[1]][t[2]] /\ t[3] # "absent"}
      ELSE {}]

View == INSTANCE PublishedView WITH runs <- readableRun, days <- readableDay

\* Reading through the markers, a run's folder and a day's tables each appear
\* once, at once, whole, and never change.
ImplementsView == View!Spec
============================================================================
