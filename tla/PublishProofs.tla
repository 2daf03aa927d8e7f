--------------------------- MODULE PublishProofs ---------------------------
(***************************************************************************)
(* Publish, for every set of runs, days and files and any number of        *)
(* faults, as long as publishers run one at a time (Alone guards Start).   *)
(*                                                                         *)
(* None of the properties is inductive.  A marker is trusted because of    *)
(* what a listing said some steps earlier, so the invariant says what each *)
(* program counter still knows, and OneAtATime is why it still holds.      *)
(***************************************************************************)
EXTENDS Publish, TLAPS

RunSteps   == {"list", "send", "check", "index", "verify"}
TableSteps == {"ask", "guard", "sendTables", "checkTables", "marker"}

OneAtATime == \A q, r \in Run : pc[q] # "idle" /\ pc[r] # "idle" => q = r

PublisherKnows == \A r \in Run :
    /\ pc[r] = "idle" <=> mode[r] = "none"
    /\ pc[r] \in RunSteps => mode[r] = "upload"
    /\ mode[r] \in {"upload", "resume"} => job[r] = "ok" /\ flaw[r] # "labels"
    /\ mode[r] = "tables" => tables[r] = "recorded"
    /\ mode[r] = "resume" => r \in index /\ pc[r] \in TableSteps

JobKnows == \A r \in Run : job[r] = "ok" => tables[r] # "writing"

RunUploadKnows == \A r \in Run :
    /\ pc[r] \in {"send", "check", "index"} => flaw[r] = "none"
    /\ pc[r] = "index" => FolderMatches(r)
    /\ mode[r] = "upload" /\ pc[r] \in TableSteps => r \in index

TableUploadKnows == \A r \in Run :
    /\ pc[r] \in TableSteps => tables[r] \in {"complete", "recorded"}
    /\ pc[r] \in {"sendTables", "checkTables", "marker"} => marker[DayOf[r]] = NoRun
    /\ pc[r] = "marker" => DayMatches(r)

MarkersAreTrue == \A d \in Day : \A r \in Run : marker[d] = r =>
    DayOf[r] = d /\ DayMatches(r) /\ tables[r] \in {"complete", "recorded"}

IndexIsTrue == \A r \in index : FolderMatches(r) /\ job[r] = "ok" /\ flaw[r] = "none"

DoneIsTrue == \A r \in Run :
    done[r]["publish"] = "ok" => job[r] = "ok" /\ check_published(r)

IInv ==
    /\ TypeOK
    /\ OneAtATime
    /\ PublisherKnows
    /\ JobKnows
    /\ RunUploadKnows
    /\ TableUploadKnows
    /\ MarkersAreTrue
    /\ IndexIsTrue
    /\ DoneIsTrue

----------------------------------------------------------------------------
(* Types.                                                                  *)

\* Changing one entry of a function of functions keeps its type.
LEMMA PutType ==
  ASSUME NEW A, NEW B, NEW C, NEW g \in [A -> [B -> C]],
         NEW a \in A, NEW b \in B, NEW c \in C
  PROVE  [g EXCEPT ![a][b] = c] \in [A -> [B -> C]]
<1>1. [g[a] EXCEPT ![b] = c] \in [B -> C]
  OBVIOUS
<1>2. QED
  BY <1>1

\* What moving a publisher on, and ending it, do to the three variables they set.
LEMMA GotoType ==
  ASSUME TypeOK, NEW r \in Run, NEW s \in Step, Goto(r, s)
  PROVE  pc' \in [Run -> Step] /\ mode' \in [Run -> Mode] /\ done' \in [Run -> [Done -> Code]]
  BY DEF Goto, TypeOK

LEMMA EndsType ==
  ASSUME TypeOK, NEW r \in Run, NEW code \in Code, Ends(r, code)
  PROVE  pc' \in [Run -> Step] /\ mode' \in [Run -> Mode] /\ done' \in [Run -> [Done -> Code]]
<1>1. DoneFile(r) \in Done
  BY DEF DoneFile, Done
<1>2. done' \in [Run -> [Done -> Code]]
  BY <1>1, PutType DEF Ends, TypeOK
<1>3. QED
  BY <1>2 DEF Ends, TypeOK, Step, Mode

\* The variables keep their types in every step: each action assigns what the
\* destination, the .done files and the program counters may hold.
LEMMA TypeStep == TypeOK /\ [Next]_vars => TypeOK'
<1> SUFFICES ASSUME TypeOK, [Next]_vars PROVE TypeOK'
  OBVIOUS
<1> USE RunAssumption, FaultAssumption DEF jobVars, destVars, Fault, NoFault
<1>c. {"ok", "failed", "refused"} \subseteq Code
  BY DEF Code
<1>s. Step \ {"idle"} \subseteq Step /\ {"send", "check", "index", "verify", "ask", "guard",
           "sendTables", "checkTables", "marker"} \subseteq Step
  BY DEF Step
<1>1. ASSUME NEW r \in Run, WriteTables(r) PROVE TypeOK'
  BY <1>1 DEF WriteTables, TypeOK
<1>2. ASSUME NEW r \in Run, EndJob(r) PROVE TypeOK'
  BY <1>2 DEF EndJob, TypeOK
<1>3. ASSUME NEW r \in Run, StartUpload(r) PROVE TypeOK'
  <2>1. [done EXCEPT ![r]["publish"] = "refused"] \in [Run -> [Done -> Code]]
    BY <1>c, PutType DEF TypeOK, Done
  <2>2. QED
    BY <1>3, <2>1 DEF StartUpload, TypeOK, Step, Mode
<1>4. ASSUME NEW r \in Run, StartTables(r) PROVE TypeOK'
  <2>1. [done EXCEPT ![r]["tables"] = "refused"] \in [Run -> [Done -> Code]]
    BY <1>c, PutType DEF TypeOK, Done
  <2>2. QED
    BY <1>4, <2>1 DEF StartTables, TypeOK, Step, Mode
<1>5. ASSUME NEW r \in Run, ListRun(r) PROVE TypeOK'
  <2>1. pc' \in [Run -> Step] /\ mode' \in [Run -> Mode] /\ done' \in [Run -> [Done -> Code]]
    <3>1. CASE Ends(r, "refused")
      BY <3>1, <1>c, EndsType
    <3>2. CASE Goto(r, "send")
      BY <3>2, <1>s, GotoType
    <3>3. CASE /\ pc' = [pc EXCEPT ![r] = "guard"]
               /\ mode' = [mode EXCEPT ![r] = "resume"]
               /\ UNCHANGED done
      BY <3>3 DEF TypeOK, Step, Mode
    <3>4. QED
      BY <1>5, <3>1, <3>2, <3>3 DEF ListRun
  <2>2. QED
    BY <1>5, <2>1 DEF ListRun, TypeOK
<1>6. ASSUME NEW r \in Run, SendFile(r) PROVE TypeOK'
  <2>1. folder' \in [Run -> [RunFile -> Object]]
    BY <1>6, PutType DEF SendFile, TypeOK, Object
  <2>2. QED
    BY <1>6, <2>1 DEF SendFile, TypeOK
<1>7. ASSUME NEW r \in Run, SendFails(r) PROVE TypeOK'
  <2>1. folder' \in [Run -> [RunFile -> Object]]
    <3>1. CASE UNCHANGED folder
      BY <3>1 DEF TypeOK
    <3>2. ASSUME NEW f \in RunFile, folder' = [folder EXCEPT ![r][f] = "short"]
          PROVE  folder' \in [Run -> [RunFile -> Object]]
      BY <3>2, PutType DEF TypeOK, Object
    <3>3. QED
      BY <1>7, <3>1, <3>2 DEF SendFails
  <2>2. QED
    BY <1>7, <1>c, <2>1, EndsType DEF SendFails, TypeOK
<1>8. ASSUME NEW r \in Run, SendEnds(r) PROVE TypeOK'
  BY <1>8, <1>s, GotoType DEF SendEnds, TypeOK
<1>9. ASSUME NEW r \in Run, CheckRun(r) PROVE TypeOK'
  BY <1>9, <1>c, <1>s, GotoType, EndsType DEF CheckRun, TypeOK
<1>10. ASSUME NEW r \in Run, PutIndex(r) PROVE TypeOK'
  BY <1>10, <1>c, <1>s, GotoType, EndsType DEF PutIndex, TypeOK
<1>11. ASSUME NEW r \in Run, VerifyIndex(r) PROVE TypeOK'
  BY <1>11, <1>c, <1>s, GotoType, EndsType DEF VerifyIndex, TypeOK
<1>12. ASSUME NEW r \in Run, AskDay(r) PROVE TypeOK'
  BY <1>12, <1>c, <1>s, GotoType, EndsType DEF AskDay, TypeOK
<1>13. ASSUME NEW r \in Run, GuardDay(r) PROVE TypeOK'
  <2>1. FailedCode(r) \in Code
    BY <1>c DEF FailedCode
  <2>2. QED
    BY <1>13, <2>1, <1>c, <1>s, GotoType, EndsType DEF GuardDay, TypeOK
<1>14. ASSUME NEW r \in Run, SendPart(r) PROVE TypeOK'
  <2>1. parts' \in [Run -> [Part -> Object]]
    BY <1>14, PutType DEF SendPart, TypeOK, Object
  <2>2. QED
    BY <1>14, <2>1 DEF SendPart, TypeOK
<1>15. ASSUME NEW r \in Run, SendPartsFails(r) PROVE TypeOK'
  <2>1. parts' \in [Run -> [Part -> Object]]
    <3>1. CASE UNCHANGED parts
      BY <3>1 DEF TypeOK
    <3>2. ASSUME NEW p \in Part, parts' = [parts EXCEPT ![r][p] = "short"]
          PROVE  parts' \in [Run -> [Part -> Object]]
      BY <3>2, PutType DEF TypeOK, Object
    <3>3. QED
      BY <1>15, <3>1, <3>2 DEF SendPartsFails
  <2>2. QED
    BY <1>15, <1>c, <2>1, EndsType DEF SendPartsFails, TypeOK
<1>16. ASSUME NEW r \in Run, SendPartsEnds(r) PROVE TypeOK'
  BY <1>16, <1>s, GotoType DEF SendPartsEnds, TypeOK
<1>17. ASSUME NEW r \in Run, CheckDay(r) PROVE TypeOK'
  <2>1. FailedCode(r) \in Code
    BY <1>c DEF FailedCode
  <2>2. QED
    BY <1>17, <2>1, <1>c, <1>s, GotoType, EndsType DEF CheckDay, TypeOK
<1>18. ASSUME NEW r \in Run, PutMarker(r) PROVE TypeOK'
  <2>1. marker' \in [Day -> Run \cup {NoRun}]
    BY <1>18 DEF PutMarker, TypeOK
  <2>2. QED
    BY <1>18, <2>1, <1>c, EndsType DEF PutMarker, TypeOK
<1>19. ASSUME NEW r \in Run, Crash(r) PROVE TypeOK'
  BY <1>19 DEF Crash, TypeOK, Step, Mode
<1>20. CASE UNCHANGED vars
  BY <1>20 DEF vars, TypeOK
<1>21. QED
  BY <1>1, <1>2, <1>3, <1>4, <1>5, <1>6, <1>7, <1>8, <1>9, <1>10, <1>11, <1>12, <1>13,
     <1>14, <1>15, <1>16, <1>17, <1>18, <1>19, <1>20 DEF Next, Job, Start, Continue

\* Every value stays of its kind: codes in the .done files, object states in
\* the destination, runs in the markers.
THEOREM TypeCorrect == Spec => []TypeOK
<1>1. Init => TypeOK
  BY RunAssumption, FaultAssumption DEF Init, TypeOK, Object, Step, Mode, Code, Done
<1>2. QED
  BY <1>1, TypeStep, PTL DEF Spec

----------------------------------------------------------------------------
(* The invariant.                                                          *)

\* Moving a publisher on and ending it, entry by entry.
LEMMA GotoEffect ==
  ASSUME TypeOK, NEW r \in Run, NEW s \in Step, Goto(r, s)
  PROVE  /\ \A q \in Run : pc'[q] = IF q = r THEN s ELSE pc[q]
         /\ mode' = mode /\ done' = done
  BY DEF Goto, TypeOK

LEMMA EndsEffect ==
  ASSUME TypeOK, NEW r \in Run, NEW code \in Code, Ends(r, code)
  PROVE  /\ \A q \in Run : pc'[q] = IF q = r THEN "idle" ELSE pc[q]
         /\ \A q \in Run : mode'[q] = IF q = r THEN "none" ELSE mode[q]
         /\ \A q \in Run : done'[q]["publish"] =
               IF q = r /\ mode[r] # "tables" THEN code ELSE done[q]["publish"]
  BY DEF Ends, DoneFile, TypeOK, Done

\* A folder and a day that pass check_upload keep passing it while their objects
\* stay as they are.
LEMMA FolderStays ==
  ASSUME NEW r \in Run, FolderMatches(r), folder'[r] = folder[r]
  PROVE  FolderMatches(r)'
  BY DEF FolderMatches

LEMMA DayStays ==
  ASSUME NEW r \in Run, DayMatches(r),
         \A q \in Run : DayOf[q] = DayOf[r] => parts'[q] = parts[q]
  PROVE  DayMatches(r)'
  BY DEF DayMatches

\* Every part of the invariant but the .done files survives every step.
LEMMA KnowledgeStep ==
  ASSUME IInv, [Next]_vars
  PROVE  /\ OneAtATime' /\ PublisherKnows' /\ JobKnows' /\ RunUploadKnows'
         /\ TableUploadKnows' /\ MarkersAreTrue' /\ IndexIsTrue'
<1>c. {"ok", "failed", "refused"} \subseteq Code
  BY DEF Code
<1>s. {"send", "check", "index", "verify", "ask", "guard",
           "sendTables", "checkTables", "marker"} \subseteq Step
  BY DEF Step
<1>t. TypeOK'
  BY TypeStep DEF IInv
<1>a. ASSUME NEW r \in Run, pc[r] # "idle" PROVE Alone(r)
  BY <1>a DEF IInv, OneAtATime, Alone
<1> USE <1>c, <1>s, <1>t, RunAssumption, GotoEffect, EndsEffect
    DEF jobVars, destVars, IInv, TypeOK, RunSteps, TableSteps
<1>1. ASSUME NEW r \in Run, WriteTables(r)
     PROVE  /\ OneAtATime' /\ PublisherKnows' /\ JobKnows' /\ RunUploadKnows'
            /\ TableUploadKnows' /\ MarkersAreTrue' /\ IndexIsTrue'
  <2>1. OneAtATime' /\ PublisherKnows' /\ JobKnows'
    BY <1>1 DEF WriteTables, OneAtATime, PublisherKnows, JobKnows
  <2>2. RunUploadKnows' /\ IndexIsTrue'
    BY <1>1 DEF WriteTables, PublisherKnows, RunUploadKnows, IndexIsTrue, FolderMatches
  <2>3. TableUploadKnows' /\ MarkersAreTrue'
    <3>1. TableUploadKnows'
      <4>1. pc[r] \in TableSteps => mode[r] \in {"upload", "resume", "tables"}
        BY DEF PublisherKnows, Mode
      <4>2. pc[r] \notin TableSteps
        BY <1>1, <4>1 DEF WriteTables, PublisherKnows
      <4>3. UNCHANGED <<pc, parts, marker>> /\ \A q \in Run \ {r} : tables'[q] = tables[q]
        BY <1>1 DEF WriteTables
      <4>4. QED
        BY <4>2, <4>3, DayStays DEF TableUploadKnows
    <3>2. MarkersAreTrue'
      <4>1. \A q \in Run : tables[q] \in {"complete", "recorded"} => tables'[q] = tables[q]
        BY <1>1 DEF WriteTables
      <4>2. UNCHANGED <<parts, marker>>
        BY <1>1 DEF WriteTables
      <4>3. QED
        BY <4>1, <4>2, DayStays DEF MarkersAreTrue
    <3>3. QED
      BY <3>1, <3>2
  <2>4. QED
    BY <2>1, <2>2, <2>3
<1>2. ASSUME NEW r \in Run, EndJob(r)
     PROVE  /\ OneAtATime' /\ PublisherKnows' /\ JobKnows' /\ RunUploadKnows'
            /\ TableUploadKnows' /\ MarkersAreTrue' /\ IndexIsTrue'
  <2>1. OneAtATime' /\ PublisherKnows' /\ JobKnows'
    BY <1>2 DEF EndJob, OneAtATime, PublisherKnows, JobKnows
  <2>2. RunUploadKnows' /\ IndexIsTrue'
    BY <1>2 DEF EndJob, PublisherKnows, RunUploadKnows, IndexIsTrue, FolderMatches
  <2>3. TableUploadKnows' /\ MarkersAreTrue'
    BY <1>2 DEF EndJob, PublisherKnows, JobKnows, TableUploadKnows, MarkersAreTrue, DayMatches, DayPublished
  <2>4. QED
    BY <2>1, <2>2, <2>3
<1>3. ASSUME NEW r \in Run, StartUpload(r), Alone(r)
     PROVE  /\ OneAtATime' /\ PublisherKnows' /\ JobKnows' /\ RunUploadKnows'
            /\ TableUploadKnows' /\ MarkersAreTrue' /\ IndexIsTrue'
  <2>1. OneAtATime' /\ PublisherKnows' /\ JobKnows'
    <3>1. OneAtATime'
      BY <1>3 DEF StartUpload, Alone, Publishable, OneAtATime
    <3>2. PublisherKnows'
      BY <1>3 DEF StartUpload, Alone, Publishable, PublisherKnows
    <3>3. JobKnows'
      BY <1>3 DEF StartUpload, Alone, Publishable, JobKnows
    <3>4. QED
      BY <3>1, <3>2, <3>3
  <2>2. RunUploadKnows' /\ IndexIsTrue'
    BY <1>3 DEF StartUpload, Alone, Publishable, PublisherKnows, RunUploadKnows, IndexIsTrue, FolderMatches
  <2>3. TableUploadKnows' /\ MarkersAreTrue'
    BY <1>3 DEF StartUpload, Alone, Publishable, PublisherKnows, JobKnows, TableUploadKnows, MarkersAreTrue, DayMatches, DayPublished
  <2>4. QED
    BY <2>1, <2>2, <2>3
<1>4. ASSUME NEW r \in Run, StartTables(r), Alone(r)
     PROVE  /\ OneAtATime' /\ PublisherKnows' /\ JobKnows' /\ RunUploadKnows'
            /\ TableUploadKnows' /\ MarkersAreTrue' /\ IndexIsTrue'
  <2>1. OneAtATime' /\ PublisherKnows' /\ JobKnows'
    BY <1>4 DEF StartTables, Alone, TablesSendable, OneAtATime, PublisherKnows, JobKnows
  <2>2. RunUploadKnows' /\ IndexIsTrue'
    <3>1. RunUploadKnows'
      BY <1>4 DEF StartTables, Alone, TablesSendable, PublisherKnows, RunUploadKnows, IndexIsTrue, FolderMatches
    <3>2. IndexIsTrue'
      BY <1>4 DEF StartTables, Alone, TablesSendable, PublisherKnows, RunUploadKnows, IndexIsTrue, FolderMatches
    <3>3. QED
      BY <3>1, <3>2
  <2>3. TableUploadKnows' /\ MarkersAreTrue'
    BY <1>4 DEF StartTables, Alone, TablesSendable, PublisherKnows, JobKnows, TableUploadKnows, MarkersAreTrue, DayMatches, DayPublished
  <2>4. QED
    BY <2>1, <2>2, <2>3
<1>5. ASSUME NEW r \in Run, ListRun(r)
     PROVE  /\ OneAtATime' /\ PublisherKnows' /\ JobKnows' /\ RunUploadKnows'
            /\ TableUploadKnows' /\ MarkersAreTrue' /\ IndexIsTrue'
  <2>a. Alone(r)
    BY <1>5, <1>a DEF ListRun
  <2>1. OneAtATime' /\ PublisherKnows' /\ JobKnows'
    <3>1. OneAtATime'
      BY <1>5, <2>a DEF ListRun, Alone, HasTables, OneAtATime
    <3>2. PublisherKnows'
      BY <1>5, <2>a DEF ListRun, Alone, HasTables, PublisherKnows
    <3>3. JobKnows'
      BY <1>5, <2>a DEF ListRun, Alone, HasTables, JobKnows
    <3>4. QED
      BY <3>1, <3>2, <3>3
  <2>2. RunUploadKnows' /\ IndexIsTrue'
    BY <1>5, <2>a DEF ListRun, Alone, HasTables, PublisherKnows, RunUploadKnows, IndexIsTrue, FolderMatches
  <2>3. TableUploadKnows' /\ MarkersAreTrue'
    BY <1>5, <2>a DEF ListRun, Alone, HasTables, PublisherKnows, JobKnows, TableUploadKnows, MarkersAreTrue, DayMatches, DayPublished
  <2>4. QED
    BY <2>1, <2>2, <2>3
<1>6. ASSUME NEW r \in Run, SendFile(r)
     PROVE  /\ OneAtATime' /\ PublisherKnows' /\ JobKnows' /\ RunUploadKnows'
            /\ TableUploadKnows' /\ MarkersAreTrue' /\ IndexIsTrue'
  <2>a. Alone(r)
    BY <1>6, <1>a DEF SendFile
  <2>1. OneAtATime' /\ PublisherKnows' /\ JobKnows'
    BY <1>6, <2>a DEF SendFile, Alone, OneAtATime, PublisherKnows, JobKnows
  <2>2. RunUploadKnows' /\ IndexIsTrue'
    BY <1>6, <2>a DEF SendFile, Alone, PublisherKnows, RunUploadKnows, IndexIsTrue, FolderMatches
  <2>3. TableUploadKnows' /\ MarkersAreTrue'
    BY <1>6, <2>a DEF SendFile, Alone, PublisherKnows, JobKnows, TableUploadKnows, MarkersAreTrue, DayMatches, DayPublished
  <2>4. QED
    BY <2>1, <2>2, <2>3
<1>7. ASSUME NEW r \in Run, SendFails(r)
     PROVE  /\ OneAtATime' /\ PublisherKnows' /\ JobKnows' /\ RunUploadKnows'
            /\ TableUploadKnows' /\ MarkersAreTrue' /\ IndexIsTrue'
  <2>a. Alone(r)
    BY <1>7, <1>a DEF SendFails
  <2>1. OneAtATime' /\ PublisherKnows' /\ JobKnows'
    BY <1>7, <2>a DEF SendFails, Alone, OneAtATime, PublisherKnows, JobKnows
  <2>2. RunUploadKnows' /\ IndexIsTrue'
    BY <1>7, <2>a DEF SendFails, Alone, PublisherKnows, RunUploadKnows, IndexIsTrue, FolderMatches
  <2>3. TableUploadKnows' /\ MarkersAreTrue'
    BY <1>7, <2>a DEF SendFails, Alone, PublisherKnows, JobKnows, TableUploadKnows, MarkersAreTrue, DayMatches, DayPublished
  <2>4. QED
    BY <2>1, <2>2, <2>3
<1>8. ASSUME NEW r \in Run, SendEnds(r)
     PROVE  /\ OneAtATime' /\ PublisherKnows' /\ JobKnows' /\ RunUploadKnows'
            /\ TableUploadKnows' /\ MarkersAreTrue' /\ IndexIsTrue'
  <2>a. Alone(r)
    BY <1>8, <1>a DEF SendEnds
  <2>1. OneAtATime' /\ PublisherKnows' /\ JobKnows'
    <3>1. OneAtATime'
      BY <1>8, <2>a DEF SendEnds, Alone, FolderMatches, OneAtATime
    <3>2. PublisherKnows'
      BY <1>8, <2>a DEF SendEnds, Alone, FolderMatches, PublisherKnows
    <3>3. JobKnows'
      BY <1>8, <2>a DEF SendEnds, Alone, FolderMatches, JobKnows
    <3>4. QED
      BY <3>1, <3>2, <3>3
  <2>2. RunUploadKnows' /\ IndexIsTrue'
    BY <1>8, <2>a DEF SendEnds, Alone, FolderMatches, PublisherKnows, RunUploadKnows, IndexIsTrue
  <2>3. TableUploadKnows' /\ MarkersAreTrue'
    BY <1>8, <2>a DEF SendEnds, Alone, FolderMatches, PublisherKnows, JobKnows, TableUploadKnows, MarkersAreTrue, DayMatches, DayPublished
  <2>4. QED
    BY <2>1, <2>2, <2>3
<1>9. ASSUME NEW r \in Run, CheckRun(r)
     PROVE  /\ OneAtATime' /\ PublisherKnows' /\ JobKnows' /\ RunUploadKnows'
            /\ TableUploadKnows' /\ MarkersAreTrue' /\ IndexIsTrue'
  <2>a. Alone(r)
    BY <1>9, <1>a DEF CheckRun
  <2>1. OneAtATime' /\ PublisherKnows' /\ JobKnows'
    BY <1>9, <2>a DEF CheckRun, Alone, OneAtATime, PublisherKnows, JobKnows
  <2>2. RunUploadKnows' /\ IndexIsTrue'
    BY <1>9, <2>a DEF CheckRun, Alone, PublisherKnows, RunUploadKnows, IndexIsTrue, FolderMatches
  <2>3. TableUploadKnows' /\ MarkersAreTrue'
    BY <1>9, <2>a DEF CheckRun, Alone, PublisherKnows, JobKnows, TableUploadKnows, MarkersAreTrue, DayMatches, DayPublished
  <2>4. QED
    BY <2>1, <2>2, <2>3
<1>10. ASSUME NEW r \in Run, PutIndex(r)
     PROVE  /\ OneAtATime' /\ PublisherKnows' /\ JobKnows' /\ RunUploadKnows'
            /\ TableUploadKnows' /\ MarkersAreTrue' /\ IndexIsTrue'
  <2>a. Alone(r)
    BY <1>10, <1>a DEF PutIndex
  <2>1. OneAtATime' /\ PublisherKnows' /\ JobKnows'
    BY <1>10, <2>a DEF PutIndex, Alone, OneAtATime, PublisherKnows, JobKnows
  <2>2. RunUploadKnows' /\ IndexIsTrue'
    BY <1>10, <2>a DEF PutIndex, Alone, PublisherKnows, RunUploadKnows, IndexIsTrue, FolderMatches
  <2>3. TableUploadKnows' /\ MarkersAreTrue'
    BY <1>10, <2>a DEF PutIndex, Alone, PublisherKnows, JobKnows, TableUploadKnows, MarkersAreTrue, DayMatches, DayPublished
  <2>4. QED
    BY <2>1, <2>2, <2>3
<1>11. ASSUME NEW r \in Run, VerifyIndex(r)
     PROVE  /\ OneAtATime' /\ PublisherKnows' /\ JobKnows' /\ RunUploadKnows'
            /\ TableUploadKnows' /\ MarkersAreTrue' /\ IndexIsTrue'
  <2>a. Alone(r)
    BY <1>11, <1>a DEF VerifyIndex
  <2>1. OneAtATime' /\ PublisherKnows' /\ JobKnows'
    BY <1>11, <2>a DEF VerifyIndex, Alone, HasTables, OneAtATime, PublisherKnows, JobKnows
  <2>2. RunUploadKnows' /\ IndexIsTrue'
    BY <1>11, <2>a DEF VerifyIndex, Alone, HasTables, PublisherKnows, RunUploadKnows, IndexIsTrue, FolderMatches
  <2>3. TableUploadKnows' /\ MarkersAreTrue'
    BY <1>11, <2>a DEF VerifyIndex, Alone, HasTables, PublisherKnows, JobKnows, TableUploadKnows, MarkersAreTrue, DayMatches, DayPublished
  <2>4. QED
    BY <2>1, <2>2, <2>3
<1>12. ASSUME NEW r \in Run, AskDay(r)
     PROVE  /\ OneAtATime' /\ PublisherKnows' /\ JobKnows' /\ RunUploadKnows'
            /\ TableUploadKnows' /\ MarkersAreTrue' /\ IndexIsTrue'
  <2>a. Alone(r)
    BY <1>12, <1>a DEF AskDay
  <2>1. OneAtATime' /\ PublisherKnows' /\ JobKnows'
    BY <1>12, <2>a DEF AskDay, Alone, OneAtATime, PublisherKnows, JobKnows
  <2>2. RunUploadKnows' /\ IndexIsTrue'
    BY <1>12, <2>a DEF AskDay, Alone, PublisherKnows, RunUploadKnows, IndexIsTrue, FolderMatches
  <2>3. TableUploadKnows' /\ MarkersAreTrue'
    BY <1>12, <2>a DEF AskDay, Alone, PublisherKnows, JobKnows, TableUploadKnows, MarkersAreTrue, DayMatches, DayPublished
  <2>4. QED
    BY <2>1, <2>2, <2>3
<1>13. ASSUME NEW r \in Run, GuardDay(r)
     PROVE  /\ OneAtATime' /\ PublisherKnows' /\ JobKnows' /\ RunUploadKnows'
            /\ TableUploadKnows' /\ MarkersAreTrue' /\ IndexIsTrue'
  <2>a. Alone(r)
    BY <1>13, <1>a DEF GuardDay
  <2>1. OneAtATime' /\ PublisherKnows' /\ JobKnows'
    BY <1>13, <2>a DEF GuardDay, Alone, FailedCode, OneAtATime, PublisherKnows, JobKnows
  <2>2. RunUploadKnows' /\ IndexIsTrue'
    BY <1>13, <2>a DEF GuardDay, Alone, FailedCode, PublisherKnows, RunUploadKnows, IndexIsTrue, FolderMatches
  <2>3. TableUploadKnows' /\ MarkersAreTrue'
    BY <1>13, <2>a DEF GuardDay, Alone, FailedCode, PublisherKnows, JobKnows, TableUploadKnows, MarkersAreTrue, DayMatches, DayPublished
  <2>4. QED
    BY <2>1, <2>2, <2>3
<1>14. ASSUME NEW r \in Run, SendPart(r)
     PROVE  /\ OneAtATime' /\ PublisherKnows' /\ JobKnows' /\ RunUploadKnows'
            /\ TableUploadKnows' /\ MarkersAreTrue' /\ IndexIsTrue'
  <2>a. Alone(r)
    BY <1>14, <1>a DEF SendPart
  <2>1. OneAtATime' /\ PublisherKnows' /\ JobKnows'
    BY <1>14, <2>a DEF SendPart, Alone, OneAtATime, PublisherKnows, JobKnows
  <2>2. RunUploadKnows' /\ IndexIsTrue'
    BY <1>14, <2>a DEF SendPart, Alone, PublisherKnows, RunUploadKnows, IndexIsTrue, FolderMatches
  <2>3. TableUploadKnows' /\ MarkersAreTrue'
    BY <1>14, <2>a DEF SendPart, Alone, PublisherKnows, JobKnows, TableUploadKnows, MarkersAreTrue, DayMatches, DayPublished
  <2>4. QED
    BY <2>1, <2>2, <2>3
<1>15. ASSUME NEW r \in Run, SendPartsFails(r)
     PROVE  /\ OneAtATime' /\ PublisherKnows' /\ JobKnows' /\ RunUploadKnows'
            /\ TableUploadKnows' /\ MarkersAreTrue' /\ IndexIsTrue'
  <2>a. Alone(r)
    BY <1>15, <1>a DEF SendPartsFails
  <2>1. OneAtATime' /\ PublisherKnows' /\ JobKnows'
    BY <1>15, <2>a DEF SendPartsFails, Alone, OneAtATime, PublisherKnows, JobKnows
  <2>2. RunUploadKnows' /\ IndexIsTrue'
    BY <1>15, <2>a DEF SendPartsFails, Alone, PublisherKnows, RunUploadKnows, IndexIsTrue, FolderMatches
  <2>3. TableUploadKnows' /\ MarkersAreTrue'
    <3>1. TableUploadKnows'
      BY <1>15, <2>a DEF SendPartsFails, Alone, PublisherKnows, JobKnows, TableUploadKnows, DayMatches, DayPublished
    <3>2. MarkersAreTrue'
      <4>1. marker' = marker /\ tables' = tables /\ marker[DayOf[r]] = NoRun
        BY <1>15 DEF SendPartsFails, TableUploadKnows
      <4>2. \A q \in Run \ {r} : parts'[q] = parts[q]
        BY <1>15 DEF SendPartsFails
      <4>3. SUFFICES ASSUME NEW d \in Day, NEW q \in Run, marker[d] = q
                     PROVE  DayOf[q] = d /\ DayMatches(q)' /\ tables[q] \in {"complete", "recorded"}
        BY <4>1 DEF MarkersAreTrue
      <4>4. DayOf[q] = d /\ DayMatches(q) /\ tables[q] \in {"complete", "recorded"}
        BY <4>3 DEF MarkersAreTrue
      <4>5. DayOf[r] # d
        BY <4>1, <4>3
      <4>6. QED
        BY <4>2, <4>4, <4>5, DayStays
    <3>3. QED
      BY <3>1, <3>2
  <2>4. QED
    BY <2>1, <2>2, <2>3
<1>16. ASSUME NEW r \in Run, SendPartsEnds(r)
     PROVE  /\ OneAtATime' /\ PublisherKnows' /\ JobKnows' /\ RunUploadKnows'
            /\ TableUploadKnows' /\ MarkersAreTrue' /\ IndexIsTrue'
  <2>a. Alone(r)
    BY <1>16, <1>a DEF SendPartsEnds
  <2>1. OneAtATime' /\ PublisherKnows' /\ JobKnows'
    <3>1. OneAtATime'
      BY <1>16, <2>a DEF SendPartsEnds, Alone, PublishedByThisRun, OneAtATime
    <3>2. PublisherKnows'
      BY <1>16, <2>a DEF SendPartsEnds, Alone, PublishedByThisRun, PublisherKnows
    <3>3. JobKnows'
      BY <1>16, <2>a DEF SendPartsEnds, Alone, PublishedByThisRun, JobKnows
    <3>4. QED
      BY <3>1, <3>2, <3>3
  <2>2. RunUploadKnows' /\ IndexIsTrue'
    BY <1>16, <2>a DEF SendPartsEnds, Alone, PublishedByThisRun, PublisherKnows, RunUploadKnows, IndexIsTrue, FolderMatches
  <2>3. TableUploadKnows' /\ MarkersAreTrue'
    BY <1>16, <2>a DEF SendPartsEnds, Alone, PublishedByThisRun, PublisherKnows, JobKnows, TableUploadKnows, MarkersAreTrue, DayMatches, DayPublished
  <2>4. QED
    BY <2>1, <2>2, <2>3
<1>17. ASSUME NEW r \in Run, CheckDay(r)
     PROVE  /\ OneAtATime' /\ PublisherKnows' /\ JobKnows' /\ RunUploadKnows'
            /\ TableUploadKnows' /\ MarkersAreTrue' /\ IndexIsTrue'
  <2>a. Alone(r)
    BY <1>17, <1>a DEF CheckDay
  <2>1. OneAtATime' /\ PublisherKnows' /\ JobKnows'
    BY <1>17, <2>a DEF CheckDay, Alone, FailedCode, OneAtATime, PublisherKnows, JobKnows
  <2>2. RunUploadKnows' /\ IndexIsTrue'
    BY <1>17, <2>a DEF CheckDay, Alone, FailedCode, PublisherKnows, RunUploadKnows, IndexIsTrue, FolderMatches
  <2>3. TableUploadKnows' /\ MarkersAreTrue'
    BY <1>17, <2>a DEF CheckDay, Alone, FailedCode, PublisherKnows, JobKnows, TableUploadKnows, MarkersAreTrue, DayMatches, DayPublished
  <2>4. QED
    BY <2>1, <2>2, <2>3
<1>18. ASSUME NEW r \in Run, PutMarker(r)
     PROVE  /\ OneAtATime' /\ PublisherKnows' /\ JobKnows' /\ RunUploadKnows'
            /\ TableUploadKnows' /\ MarkersAreTrue' /\ IndexIsTrue'
  <2>a. Alone(r)
    BY <1>18, <1>a DEF PutMarker
  <2>1. OneAtATime' /\ PublisherKnows' /\ JobKnows'
    BY <1>18, <2>a DEF PutMarker, Alone, OneAtATime, PublisherKnows, JobKnows
  <2>2. RunUploadKnows' /\ IndexIsTrue'
    <3>1. RunUploadKnows'
      <4>1. Ends(r, "ok") \/ Ends(r, "failed")
        BY <1>18 DEF PutMarker
      <4>2. /\ \A q \in Run : pc'[q] = IF q = r THEN "idle" ELSE pc[q]
            /\ \A q \in Run : mode'[q] = IF q = r THEN "none" ELSE mode[q]
        BY <4>1
      <4>3. UNCHANGED <<flaw, folder, index>>
        BY <1>18 DEF PutMarker
      <4>4. QED
        BY <4>2, <4>3, FolderStays DEF RunUploadKnows
    <3>2. IndexIsTrue'
      BY <1>18, <2>a DEF PutMarker, Alone, PublisherKnows, RunUploadKnows, IndexIsTrue, FolderMatches
    <3>3. QED
      BY <3>1, <3>2
  <2>3. TableUploadKnows' /\ MarkersAreTrue'
    <3>1. TableUploadKnows'
      BY <1>18, <2>a DEF PutMarker, Alone, PublisherKnows, JobKnows, TableUploadKnows, DayMatches, DayPublished
    <3>2. MarkersAreTrue'
      <4>1. marker' = marker \/ marker' = [marker EXCEPT ![DayOf[r]] = r]
        BY <1>18 DEF PutMarker
      <4>2. UNCHANGED <<tables, parts>>
        BY <1>18 DEF PutMarker
      <4>3. DayMatches(r) /\ tables[r] \in {"complete", "recorded"}
        BY <1>18 DEF PutMarker, TableUploadKnows
      <4>4. \A d \in Day : marker'[d] = marker[d] \/ (d = DayOf[r] /\ marker'[d] = r)
        BY <4>1
      <4>5. ASSUME NEW d \in Day, NEW q \in Run, marker'[d] = q
            PROVE  DayOf[q] = d /\ DayMatches(q) /\ tables[q] \in {"complete", "recorded"}
        <5>1. CASE marker[d] = q
          <6>1. MarkersAreTrue
            OBVIOUS
          <6>2. QED
            BY <5>1, <6>1 DEF MarkersAreTrue
        <5>2. CASE d = DayOf[r] /\ q = r
          BY <4>3, <5>2
        <5>3. QED
          BY <4>4, <4>5, <5>1, <5>2
      <4>6. QED
        BY <4>2, <4>5, DayStays DEF MarkersAreTrue
    <3>3. QED
      BY <3>1, <3>2
  <2>4. QED
    BY <2>1, <2>2, <2>3
<1>19. ASSUME NEW r \in Run, Crash(r)
     PROVE  /\ OneAtATime' /\ PublisherKnows' /\ JobKnows' /\ RunUploadKnows'
            /\ TableUploadKnows' /\ MarkersAreTrue' /\ IndexIsTrue'
  <2>a. Alone(r)
    BY <1>19, <1>a DEF Crash
  <2>1. OneAtATime' /\ PublisherKnows' /\ JobKnows'
    BY <1>19, <2>a DEF Crash, Alone, OneAtATime, PublisherKnows, JobKnows
  <2>2. RunUploadKnows' /\ IndexIsTrue'
    BY <1>19, <2>a DEF Crash, Alone, PublisherKnows, RunUploadKnows, IndexIsTrue, FolderMatches
  <2>3. TableUploadKnows' /\ MarkersAreTrue'
    BY <1>19, <2>a DEF Crash, Alone, PublisherKnows, JobKnows, TableUploadKnows, MarkersAreTrue, DayMatches, DayPublished
  <2>4. QED
    BY <2>1, <2>2, <2>3
<1>20. CASE UNCHANGED vars
  BY <1>20 DEF vars, OneAtATime, PublisherKnows, JobKnows, RunUploadKnows, TableUploadKnows,
     MarkersAreTrue, IndexIsTrue, FolderMatches, DayMatches
<1>21. QED
  BY <1>1, <1>2, <1>3, <1>4, <1>5, <1>6, <1>7, <1>8, <1>9, <1>10, <1>11, <1>12, <1>13, <1>14, <1>15, <1>16, <1>17, <1>18, <1>19, <1>20 DEF Next, Job, Start, Continue

\* A run that is published stays published: its index.json and its day's marker
\* are not taken back, and its tables do not change once it has succeeded.
LEMMA PublishedStays ==
  ASSUME IInv, [Next]_vars, NEW q \in Run, job[q] = "ok", check_published(q)
  PROVE  job'[q] = "ok" /\ check_published(q)'
<1>1. job'[q] = "ok" /\ tables'[q] = tables[q]
  BY DEF IInv, TypeOK, Next, Job, Start, Continue, WriteTables, EndJob, StartUpload, StartTables,
     ListRun, SendFile, SendFails, SendEnds, CheckRun, PutIndex, VerifyIndex, AskDay, GuardDay,
     SendPart, SendPartsFails, SendPartsEnds, CheckDay, PutMarker, Crash, vars, jobVars
<1>2. index \subseteq index'
  BY DEF Next, Job, Start, Continue, WriteTables, EndJob, StartUpload, StartTables,
     ListRun, SendFile, SendFails, SendEnds, CheckRun, PutIndex, VerifyIndex, AskDay, GuardDay,
     SendPart, SendPartsFails, SendPartsEnds, CheckDay, PutMarker, Crash, vars, destVars
<1>3. \A d \in Day : DayPublished(d) => DayPublished(d)'
  BY RunAssumption
     DEF IInv, TypeOK, DayPublished, Next, Job, Start, Continue, WriteTables, EndJob, StartUpload,
     StartTables, ListRun, SendFile, SendFails, SendEnds, CheckRun, PutIndex, VerifyIndex, AskDay,
     GuardDay, SendPart, SendPartsFails, SendPartsEnds, CheckDay, PutMarker, Crash, vars, destVars
<1>4. QED
  BY <1>1, <1>2, <1>3, RunAssumption DEF check_published, HasTables

\* publish.done is written "ok" only by a step whose listing, or whose copy of
\* the marker, completes what check_published asks for.
LEMMA DoneStep ==
  ASSUME IInv, [Next]_vars
  PROVE  DoneIsTrue'
<1> SUFFICES ASSUME NEW q \in Run, done'[q]["publish"] = "ok"
             PROVE  job'[q] = "ok" /\ check_published(q)'
  BY DEF DoneIsTrue
<1>c. {"ok", "failed", "refused"} \subseteq Code
  BY DEF Code
<1>1. CASE done[q]["publish"] = "ok"
  BY <1>1, PublishedStays DEF IInv, DoneIsTrue
<1>2. CASE done[q]["publish"] # "ok"
  <2>1. ASSUME NEW r \in Run, NEW code \in Code \ {"ok"}, Ends(r, code)
        PROVE  FALSE
    BY <2>1, <1>2, EndsEffect DEF IInv
  <2>2. ASSUME NEW r \in Run, Ends(r, "ok")
        PROVE  r = q /\ mode[r] # "tables"
    BY <2>2, <1>2, <1>c, EndsEffect DEF IInv
  <2>3. ASSUME done' = done
        PROVE  FALSE
    BY <2>3, <1>2
  <2>4. ASSUME NEW r \in Run, Start(r)
        PROVE  FALSE
    BY <2>4, <1>2 DEF Start, StartUpload, StartTables, IInv, TypeOK, Done
  <2>5. ASSUME NEW r \in Run, mode[r] # "tables", pc[r] \in TableSteps
        PROVE  r \in index /\ job[r] = "ok"
    BY <2>5 DEF IInv, TypeOK, Mode, TableSteps, PublisherKnows, RunUploadKnows
  <2>6. ASSUME NEW r \in Run, VerifyIndex(r)
        PROVE  job'[q] = "ok" /\ check_published(q)'
    <3>1. r = q /\ r \in index /\ ~HasTables(r) /\ job[r] = "ok"
      BY <2>1, <2>2, <2>3, <2>6, <1>c
         DEF VerifyIndex, Goto, IInv, TypeOK, PublisherKnows, RunSteps
    <3>2. QED
      BY <2>6, <3>1 DEF VerifyIndex, jobVars, destVars, check_published, HasTables
  <2>7. ASSUME NEW r \in Run, AskDay(r)
        PROVE  job'[q] = "ok" /\ check_published(q)'
    <3>1. r = q /\ DayPublished(DayOf[r]) /\ mode[r] # "tables"
      BY <2>1, <2>2, <2>3, <2>7, <1>c DEF AskDay, Goto
    <3>2. r \in index /\ job[r] = "ok"
      BY <2>5, <2>7, <3>1 DEF AskDay, TableSteps
    <3>3. QED
      BY <2>7, <3>1, <3>2 DEF AskDay, jobVars, destVars, check_published, DayPublished
  <2>8. ASSUME NEW r \in Run, PutMarker(r)
        PROVE  job'[q] = "ok" /\ check_published(q)'
    <3>1. r = q /\ mode[r] # "tables" /\ marker' = [marker EXCEPT ![DayOf[r]] = r]
      BY <2>1, <2>2, <2>8, <1>c DEF PutMarker
    <3>2. r \in index /\ job[r] = "ok"
      BY <2>5, <2>8, <3>1 DEF PutMarker, TableSteps
    <3>3. marker'[DayOf[r]] # NoRun
      BY <3>1, RunAssumption DEF IInv, TypeOK
    <3>4. QED
      BY <2>8, <3>1, <3>2, <3>3 DEF PutMarker, jobVars, check_published, DayPublished
  <2>9. ASSUME NEW r \in Run,
               \/ Job(r) \/ Crash(r) \/ SendFile(r) \/ SendPart(r) \/ SendEnds(r) \/ SendPartsEnds(r)
               \/ ListRun(r) \/ SendFails(r) \/ CheckRun(r) \/ PutIndex(r)
               \/ GuardDay(r) \/ SendPartsFails(r) \/ CheckDay(r)
        PROVE  FALSE
    <3>1. FailedCode(r) \in Code \ {"ok"} /\ {"failed", "refused"} \subseteq Code \ {"ok"}
      BY <1>c DEF FailedCode
    <3>2. CASE Job(r) \/ Crash(r) \/ SendFile(r) \/ SendPart(r) \/ SendEnds(r) \/ SendPartsEnds(r)
      BY <3>2, <2>3 DEF Job, WriteTables, EndJob, Crash, SendFile, SendPart, SendEnds,
         SendPartsEnds, Goto
    <3>3. CASE ListRun(r) \/ SendFails(r) \/ CheckRun(r) \/ PutIndex(r)
      BY <3>1, <3>3, <2>1, <2>3 DEF ListRun, SendFails, CheckRun, PutIndex, Goto
    <3>4. CASE GuardDay(r) \/ SendPartsFails(r) \/ CheckDay(r)
      BY <3>1, <3>4, <2>1, <2>3 DEF GuardDay, SendPartsFails, CheckDay, Goto
    <3>5. QED
      BY <2>9, <3>2, <3>3, <3>4
  <2>10. CASE UNCHANGED vars
    BY <2>10, <2>3 DEF vars
  <2>11. QED
    BY <2>4, <2>6, <2>7, <2>8, <2>9, <2>10 DEF Next, Continue
<1>3. QED
  BY <1>1, <1>2

\* The whole invariant, of every reachable state.
THEOREM Invariance == Spec => []IInv
<1>1. Init => IInv
  <2> SUFFICES ASSUME Init PROVE IInv
    OBVIOUS
  <2>1. TypeOK
    BY RunAssumption, FaultAssumption DEF Init, TypeOK, Object, Step, Mode, Code, Done
  <2>2. MarkersAreTrue
    BY RunAssumption DEF Init, MarkersAreTrue
  <2>3. OneAtATime /\ PublisherKnows /\ JobKnows
    BY DEF Init, OneAtATime, PublisherKnows, JobKnows, RunSteps
  <2>4. RunUploadKnows /\ TableUploadKnows /\ IndexIsTrue
    BY DEF Init, RunUploadKnows, TableUploadKnows, IndexIsTrue, TableSteps
  <2>5. DoneIsTrue
    BY DEF Init, DoneIsTrue, Done
  <2>6. QED
    BY <2>1, <2>2, <2>3, <2>4, <2>5 DEF IInv
<1>2. IInv /\ [Next]_vars => IInv'
  BY TypeStep, KnowledgeStep, DoneStep DEF IInv
<1>3. QED
  BY <1>1, <1>2, PTL DEF Spec

----------------------------------------------------------------------------
(* The properties.                                                         *)

\* A day's marker vouches for every part of the run it names and for no part of
\* any other: check_upload and the guard keep a reader from seeing rows twice.
THEOREM OneRunADay == Spec => []DayIsOneRuns
<1>1. IInv => DayIsOneRuns
  BY DEF IInv, MarkersAreTrue, DayMatches, DayIsOneRuns
<1>2. QED
  BY <1>1, Invariance, PTL

\* index.json vouches for a whole folder of a run that succeeded and whose
\* graphs passed their checks.
THEOREM IndexVouches == Spec => []IndexedRunIsWhole
<1>1. IInv => IndexedRunIsWhole
  BY DEF IInv, TypeOK, IndexIsTrue, FolderMatches, IndexedRunIsWhole
<1>2. QED
  BY <1>1, Invariance, PTL

\* Tables sent early were complete when their marker went up, and still are.
THEOREM EarlyTablesComplete == Spec => []MarkedTablesWereComplete
<1>1. IInv => MarkedTablesWereComplete
  BY DEF IInv, MarkersAreTrue, MarkedTablesWereComplete
<1>2. QED
  BY <1>1, Invariance, PTL

\* Exit code 0 means that check_published answers yes from then on.
THEOREM OkMeansPublished == Spec => []OkIsPublished
<1>1. IInv => OkIsPublished
  BY DEF IInv, DoneIsTrue, OkIsPublished
<1>2. QED
  BY <1>1, Invariance, PTL

\* What the two marker actions change, and that nothing else changes a marker.
LEMMA MarkerStep ==
  ASSUME IInv, [Next]_vars
  PROVE  /\ \/ index' = index
            \/ \E r \in Run : FolderMatches(r) /\ index' = index \cup {r} /\ marker' = marker
         /\ \/ marker' = marker
            \/ \E r \in Run : /\ marker[DayOf[r]] = NoRun
                              /\ marker' = [marker EXCEPT ![DayOf[r]] = r]
                              /\ index' = index
<1>1. ASSUME NEW r \in Run, PutIndex(r)
      PROVE  FolderMatches(r) /\ index' \in {index, index \cup {r}} /\ marker' = marker
  BY <1>1 DEF PutIndex, IInv, RunUploadKnows
<1>2. ASSUME NEW r \in Run, PutMarker(r)
      PROVE  /\ marker[DayOf[r]] = NoRun
             /\ marker' \in {marker, [marker EXCEPT ![DayOf[r]] = r]} /\ index' = index
  BY <1>2 DEF PutMarker, IInv, TableUploadKnows
<1>3. CASE \A r \in Run : ~PutIndex(r) /\ ~PutMarker(r)
  BY <1>3 DEF Next, Job, Start, Continue, WriteTables, EndJob, StartUpload, StartTables,
     ListRun, SendFile, SendFails, SendEnds, CheckRun, VerifyIndex, AskDay, GuardDay,
     SendPart, SendPartsFails, SendPartsEnds, CheckDay, Crash, vars, destVars
<1>4. QED
  BY <1>1, <1>2, <1>3

\* No publisher sends anything below what is vouched for: a whole folder has
\* nothing left to send, and a publisher past its guard has an unmarked day.
LEMMA ObjectStep ==
  ASSUME IInv, [Next]_vars
  PROVE  /\ \A q \in index : folder'[q] = folder[q]
         /\ \A q \in Run : marker[DayOf[q]] # NoRun => parts'[q] = parts[q]
<1>1. ASSUME NEW r \in Run, SendFile(r) \/ SendFails(r)
      PROVE  /\ r \in index => folder'[r] = folder[r]
             /\ parts' = parts /\ \A q \in Run \ {r} : folder'[q] = folder[q]
  <2>1. parts' = parts
    BY <1>1 DEF SendFile, SendFails
  <2>2. \A q \in Run \ {r} : folder'[q] = folder[q]
    BY <1>1 DEF SendFile, SendFails, IInv, TypeOK
  <2>3. CASE r \in index
    <3>1. \A f \in RunFile : folder[r][f] = "whole"
      BY <2>3 DEF IInv, IndexIsTrue, FolderMatches
    <3>2. folder' = folder
      BY <1>1, <3>1 DEF SendFile, SendFails
    <3>3. QED
      BY <2>1, <3>2
  <2>4. QED
    BY <2>1, <2>2, <2>3
<1>2. ASSUME NEW r \in Run, SendPart(r) \/ SendPartsFails(r)
      PROVE  /\ marker[DayOf[r]] = NoRun /\ folder' = folder
             /\ \A q \in Run \ {r} : parts'[q] = parts[q]
  BY <1>2 DEF SendPart, SendPartsFails, IInv, TypeOK, TableUploadKnows
<1>3. CASE \A r \in Run : ~SendFile(r) /\ ~SendFails(r) /\ ~SendPart(r) /\ ~SendPartsFails(r)
  <2>1. folder' = folder /\ parts' = parts
    BY <1>3 DEF Next, Job, Start, Continue, WriteTables, EndJob, StartUpload, StartTables,
       ListRun, SendEnds, CheckRun, PutIndex, VerifyIndex, AskDay, GuardDay,
       SendPartsEnds, CheckDay, PutMarker, Crash, vars, destVars
  <2>2. QED
    BY <2>1
<1>4. QED
  BY <1>1, <1>2, <1>3 DEF IInv, TypeOK

\* Once it is vouched for, nothing in the destination changes again.
THEOREM Frozen == Spec => PublishedIsFrozen
<1>1. IInv /\ [Next]_vars =>
        [ /\ index \subseteq index'
          /\ \A r \in index : folder'[r] = folder[r]
          /\ \A d \in Day : DayPublished(d) =>
                /\ marker'[d] = marker[d]
                /\ \A r \in Run : DayOf[r] = d => parts'[r] = parts[r] ]_vars
  <2> SUFFICES ASSUME IInv, [Next]_vars
               PROVE  /\ index \subseteq index'
                      /\ \A r \in index : folder'[r] = folder[r]
                      /\ \A d \in Day : DayPublished(d) =>
                            /\ marker'[d] = marker[d]
                            /\ \A r \in Run : DayOf[r] = d => parts'[r] = parts[r]
    OBVIOUS
  <2>1. index \subseteq index'
    BY MarkerStep
  <2>2. \A d \in Day : DayPublished(d) => marker'[d] = marker[d]
    BY MarkerStep, RunAssumption DEF DayPublished, IInv, TypeOK
  <2>3. QED
    BY <2>1, <2>2, ObjectStep DEF DayPublished
<1>2. QED
  BY <1>1, Invariance, PTL DEF Spec, PublishedIsFrozen

----------------------------------------------------------------------------
(* Publish implements PublishedView.                                       *)

WholesSeen ==
    /\ readableRun = [r \in Run |-> IF r \in index THEN View!WholeRun ELSE {}]
    /\ readableDay = [d \in Day |-> IF marker[d] # NoRun THEN View!WholeDay(marker[d]) ELSE {}]

\* In a reachable state a reader sees whole runs and whole days, or nothing.
LEMMA ReadersSeeWholes == IInv => WholesSeen
<1> SUFFICES ASSUME IInv PROVE WholesSeen
  OBVIOUS
<1>1. ASSUME NEW r \in Run, r \in index
      PROVE  {<<f, folder[r][f]>> : f \in RunFile} = View!WholeRun
  BY <1>1 DEF IInv, IndexIsTrue, FolderMatches, View!WholeRun
<1>2. ASSUME NEW d \in Day, marker[d] # NoRun
      PROVE  {t \in Run \X Part \X Object :
                 DayOf[t[1]] = d /\ t[3] = parts[t[1]][t[2]] /\ t[3] # "absent"}
               = View!WholeDay(marker[d])
  <2>1. /\ marker[d] \in Run /\ DayOf[marker[d]] = d
        /\ \A p \in Part : parts[marker[d]][p] = "whole"
        /\ \A q \in Run : DayOf[q] = d /\ q # marker[d] => \A p \in Part : parts[q][p] = "absent"
    <3>1. marker[d] \in Run
      BY <1>2 DEF IInv, TypeOK
    <3>2. DayOf[marker[d]] = d /\ DayMatches(marker[d])
      BY <3>1 DEF IInv, MarkersAreTrue
    <3>3. QED
      BY <3>1, <3>2 DEF DayMatches
  <2>2. QED
    BY <2>1 DEF View!WholeDay, Object
<1>3. QED
  BY <1>1, <1>2 DEF WholesSeen, readableRun, readableDay, DayPublished

\* Every step of a publisher is, to a reader, the appearance of one whole run, of
\* one whole day, or no change.
THEOREM Refinement == Spec => ImplementsView
<1>1. Init => View!Init
  BY RunAssumption DEF Init, View!Init, readableRun, readableDay, DayPublished
<1>2. ASSUME IInv, IInv', [Next]_vars
      PROVE  [View!Next]_<<readableRun, readableDay>>
  <2>1. WholesSeen /\ WholesSeen'
    BY <1>2, ReadersSeeWholes, PTL
  <2>2. /\ readableRun' = [r \in Run |-> IF r \in index' THEN View!WholeRun ELSE {}]
        /\ readableDay' = [d \in Day |-> IF marker'[d] # NoRun THEN View!WholeDay(marker'[d]) ELSE {}]
    BY <2>1 DEF WholesSeen
  <2>3. CASE index' = index /\ marker' = marker
    BY <2>1, <2>2, <2>3 DEF WholesSeen
  <2>4. ASSUME NEW r \in Run, index' = index \cup {r}, r \notin index, marker' = marker
        PROVE  View!PublishRun(r)
    BY <2>1, <2>2, <2>4 DEF WholesSeen, View!PublishRun
  <2>5. ASSUME NEW r \in Run, marker[DayOf[r]] = NoRun,
               marker' = [marker EXCEPT ![DayOf[r]] = r], index' = index
        PROVE  View!PublishDay(r)
    <3>1. readableRun' = readableRun
      BY <2>1, <2>2, <2>5 DEF WholesSeen
    <3>2. DayOf[r] \in Day /\ r # NoRun /\ readableDay[DayOf[r]] = {}
      BY <2>1, <2>5, RunAssumption DEF WholesSeen
    <3>3. \A d \in Day : marker'[d] = IF d = DayOf[r] THEN r ELSE marker[d]
      BY <2>5, <1>2 DEF IInv, TypeOK
    <3>4. readableDay' = [readableDay EXCEPT ![DayOf[r]] = View!WholeDay(r)]
      <4>1. readableDay' = [d \in Day |-> IF d = DayOf[r] THEN View!WholeDay(r) ELSE readableDay[d]]
        <5>1. ASSUME NEW d \in Day, d = DayOf[r]
              PROVE  marker'[d] # NoRun /\ marker'[d] = r
          BY <3>2, <3>3, <5>1
        <5>2. ASSUME NEW d \in Day, d # DayOf[r]
              PROVE  marker'[d] = marker[d]
          BY <3>3, <5>2
        <5>3. ASSUME NEW d \in Day
              PROVE  (IF marker'[d] # NoRun THEN View!WholeDay(marker'[d]) ELSE {})
                       = IF d = DayOf[r] THEN View!WholeDay(r) ELSE readableDay[d]
          <6>1. CASE d = DayOf[r]
            BY <5>1, <6>1
          <6>2. CASE d # DayOf[r]
            BY <2>1, <5>2, <6>2 DEF WholesSeen
          <6>3. QED
            BY <6>1, <6>2
        <5>4. QED
          BY <2>2, <5>3
      <4>2. readableDay = [d \in Day |-> readableDay[d]]
        BY <2>1 DEF WholesSeen
      <4>3. QED
        BY <4>1, <4>2, <3>2
    <3>5. QED
      BY <3>1, <3>2, <3>4 DEF View!PublishDay
  <2>6. QED
    BY <1>2, <2>3, <2>4, <2>5, MarkerStep DEF View!Next
<1>3. QED
  BY <1>1, <1>2, Invariance, PTL DEF Spec, ImplementsView, View!Spec

============================================================================
