--------------------------- MODULE ArchiveProofs ---------------------------
(***************************************************************************)
(* Archive, for every set of runs, days and files, any number of days kept *)
(* and any number of faults and spoiled copies.                            *)
(*                                                                         *)
(* The marker is trusted for what the command saw before it wrote it, and  *)
(* a day is taken out because of what it read when it started or when it   *)
(* listed the markers.  The invariant says what each step still knows.     *)
(***************************************************************************)
EXTENDS Archive, FiniteSetTheorems, TLAPS

Removing == {"unmark", "untable", "unrun"}
Copying  == {"copy", "check", "mark"}

RunGiven == pc # "idle" => run \in Run /\ code = "none"

OthersNotRead == \A r \in Run : \A f \in RunFile \ Graph : folder[r][f] # "spoiled"

OnlyItsParts(r) ==
    \A q \in Run \ {r} : DayOf[q] = DayOf[r] => \A p \in Part : parts[q][p] = "absent"

RemovalKnows ==
    /\ pc \in Removing => day \in Day
    /\ pc \in Removing /\ older = {} => day = DayOf[run] /\ run \notin flawed
    /\ pc \in Removing /\ older # {} => day \in older /\ \A e \in older : e <= day
    /\ pc = "unmark" => day \in Marked /\ (older = {} => marker[day] # run)
    /\ pc \in {"untable", "unrun"} => marker[day] = NoRun /\ (named # NoRun => DayOf[named] = day)
    /\ pc = "unrun" => DayTablesGone(day)
    /\ pc \notin {"untable", "unrun"} => named = NoRun

CopyKnows ==
    /\ pc \in Copying => marker[DayOf[run]] = NoRun /\ OnlyItsParts(run)
    /\ pc \in {"check", "mark"} => FolderThere(run) /\ PartsThere(run)
    /\ pc = "mark" => GraphsRead(run)

TrimKnows ==
    /\ pc \in {"idle", "trim"} \cup Copying => older = {}
    /\ pc \in {"unmark", "next"} => older \subseteq Marked
    /\ pc \in {"untable", "unrun"} => older \ {day} \subseteq Marked
    /\ \A e \in older : Cardinality(Newer(e)) >= KeepDays

OkKnows ==
    /\ older # {} => keeping
    /\ pc = "trim" => marker[DayOf[run]] = run
    /\ pc = "next" \/ (pc \in Removing /\ older # {}) =>
          \/ marker[DayOf[run]] = run
          \/ /\ keeping /\ Cardinality(Newer(DayOf[run])) >= KeepDays
             /\ \A e \in older : e <= DayOf[run]

IInv ==
    /\ TypeOK
    /\ RunGiven
    /\ OthersNotRead
    /\ RemovalKnows
    /\ CopyKnows
    /\ TrimKnows
    /\ OkKnows
    /\ OkIsArchived
    /\ MarkedDayIsWhole

----------------------------------------------------------------------------
(* Types.                                                                  *)

\* Changing one entry of a function of functions keeps its type.
LEMMA PutType ==
  ASSUME NEW A, NEW B, NEW C, NEW g \in [A -> [B -> C]],
         NEW a \in A, NEW b \in B, NEW c \in C
  PROVE  [g EXCEPT ![a][b] = c] \in [A -> [B -> C]]
<1>1. [g[a] EXCEPT ![b] = c] \in [B -> C]
  OBVIOUS
<1>2. QED
  BY <1>1

\* The variables keep their types: every step copies, removes or marks what the
\* archive may hold.
LEMMA TypeStep == TypeOK /\ RunGiven /\ RemovalKnows /\ [Next]_vars => TypeOK'
<1> SUFFICES ASSUME TypeOK, RunGiven, RemovalKnows, [Next]_vars PROVE TypeOK'
  OBVIOUS
<1> USE DayAssumption, BoundAssumption
    DEF TypeOK, RunGiven, RemovalKnows, Removing, Step, Code, archiveVars, removalVars,
        Fault, NoFault, Goto, Ends
<1>1. ASSUME NEW r \in Run, Start(r) PROVE TypeOK'
  BY <1>1 DEF Start
<1>2. CASE Unmark
  BY <1>2 DEF Unmark
<1>3. CASE RemovePart
  <2>1. parts' \in [Run -> [Part -> {"absent", "whole"}]]
    BY <1>3, PutType DEF RemovePart
  <2>2. QED
    BY <1>3, <2>1 DEF RemovePart
<1>4. CASE TablesRemoved
  BY <1>4 DEF TablesRemoved
<1>5. CASE RemoveRunFile
  <2>1. folder' \in [Run -> [RunFile -> Object]]
    BY <1>5, PutType DEF RemoveRunFile, Object
  <2>2. QED
    BY <1>5, <2>1 DEF RemoveRunFile
<1>6. CASE RunRemoved
  BY <1>6 DEF RunRemoved
<1>7. CASE CopyFile
  <2>1. folder' \in [Run -> [RunFile -> Object]]
    <3>1. run \in Run
      BY <1>7 DEF CopyFile
    <3>2. PICK f \in RunFile : \E o \in {"whole", "spoiled"} : folder' = [folder EXCEPT ![run][f] = o]
      BY <1>7 DEF CopyFile
    <3>3. PICK o \in {"whole", "spoiled"} : folder' = [folder EXCEPT ![run][f] = o]
      BY <3>2
    <3>4. QED
      BY <3>1, <3>3, PutType DEF Object
  <2>2. spoiled' \in 0..MaxSpoiled
    BY <1>7 DEF CopyFile
  <2>3. QED
    BY <1>7, <2>1, <2>2 DEF CopyFile
<1>8. CASE CopyPart
  <2>1. parts' \in [Run -> [Part -> {"absent", "whole"}]]
    BY <1>8, PutType DEF CopyPart
  <2>2. QED
    BY <1>8, <2>1 DEF CopyPart
<1>9. CASE CopyEnds
  BY <1>9 DEF CopyEnds
<1>10. CASE Check
  BY <1>10 DEF Check
<1>11. CASE PutMarker
  BY <1>11 DEF PutMarker
<1>12. CASE Trim
  BY <1>12 DEF Trim, Marked
<1>13. CASE TrimNext
  BY <1>13 DEF TrimNext
<1>14. CASE Fails \/ Crash
  BY <1>14 DEF Fails, Crash
<1>15. CASE UNCHANGED vars
  BY <1>15 DEF vars
<1>16. QED
  BY <1>1, <1>2, <1>3, <1>4, <1>5, <1>6, <1>7, <1>8, <1>9, <1>10, <1>11, <1>12, <1>13,
     <1>14, <1>15 DEF Next, Continue

----------------------------------------------------------------------------
(* The newer days.                                                         *)

\* The days newer than one day are fewer than those newer than an older day.
LEMMA NewerGrows ==
  ASSUME TypeOK, NEW d \in Day, NEW e \in Day, e <= d
  PROVE  Cardinality(Newer(d)) <= Cardinality(Newer(e))
<1>1. IsFiniteSet(Day)
  BY FS_Interval, DayAssumption DEF Day
<1>2. Newer(e) \subseteq Day /\ Newer(d) \subseteq Newer(e)
  BY DEF Newer, Marked, Day
<1>3. IsFiniteSet(Newer(e))
  BY <1>1, <1>2, FS_Subset
<1>4. QED
  BY <1>2, <1>3, FS_Subset

\* Counting newer days gives a number.
LEMMA NewerCounts ==
  ASSUME NEW d \in Day
  PROVE  Cardinality(Newer(d)) \in Nat
<1>1. IsFiniteSet(Day)
  BY FS_Interval, DayAssumption DEF Day
<1>2. Newer(d) \subseteq Day
  BY DEF Newer, Marked
<1>3. QED
  BY <1>1, <1>2, FS_Subset, FS_CardinalityType

\* Taking the newest day of a trim out leaves the days before it with at least
\* as many newer days as that day had.
LEMMA TrimKeepsCount ==
  ASSUME TypeOK, TypeOK', NEW d \in Day, NEW e \in Day, e <= d,
         marker' = [marker EXCEPT ![d] = NoRun],
         Cardinality(Newer(d)) >= KeepDays
  PROVE  Cardinality(Newer(e)') >= KeepDays
<1>1. IsFiniteSet(Day)
  BY FS_Interval, DayAssumption DEF Day
<1>2. Newer(e)' \subseteq Day /\ Newer(d) \subseteq Newer(e)'
  BY DEF Newer, Marked, Day, TypeOK
<1>3. IsFiniteSet(Newer(e)') /\ IsFiniteSet(Newer(d))
  BY <1>1, <1>2, FS_Subset
<1>4. Cardinality(Newer(d)) <= Cardinality(Newer(e)')
  BY <1>2, <1>3, FS_Subset
<1>5. Cardinality(Newer(d)) \in Nat /\ Cardinality(Newer(e)') \in Nat /\ KeepDays \in Nat
  BY <1>3, FS_CardinalityType, BoundAssumption
<1>6. QED
  BY <1>4, <1>5

----------------------------------------------------------------------------
(* The invariant.                                                          *)

Knows ==
    /\ RunGiven
    /\ OthersNotRead
    /\ RemovalKnows
    /\ CopyKnows
    /\ TrimKnows
    /\ OkKnows
    /\ OkIsArchived
    /\ MarkedDayIsWhole

\* What each step knows survives every step.
LEMMA KnowledgeStep == IInv /\ [Next]_vars => Knows'
<1> SUFFICES ASSUME IInv, [Next]_vars PROVE Knows'
  OBVIOUS
<1>t. TypeOK /\ TypeOK'
  BY TypeStep DEF IInv
<1>k. /\ RunGiven /\ OthersNotRead /\ RemovalKnows /\ CopyKnows
      /\ TrimKnows /\ OkKnows /\ OkIsArchived /\ MarkedDayIsWhole
  BY DEF IInv
<1> USE <1>t, <1>k, DayAssumption, BoundAssumption
    DEF archiveVars, removalVars, Fault, NoFault, Goto, Ends, Removing, Copying, RunGiven, TypeOK
<1>1. ASSUME NEW r \in Run, Start(r) PROVE Knows'
  <2>1. RunGiven' /\ OthersNotRead'
    BY <1>1 DEF Start, OthersNotRead
  <2>2. RemovalKnows'
    <3>1. older = {} /\ named = NoRun
      BY <1>1 DEF Start, TrimKnows, RemovalKnows
    <3>2. ~Whole(r) /\ marker[DayOf[r]] # NoRun => marker[DayOf[r]] # r
      BY DEF MarkedDayIsWhole, Whole
    <3>3. CASE Ends("refused")
      BY <3>3 DEF RemovalKnows
    <3>4. CASE /\ Whole(r) \/ r \notin flawed
               /\ day' = IF Whole(r) THEN 0 ELSE DayOf[r]
               /\ pc' = CASE Whole(r) -> "trim"
                          [] ~Whole(r) /\ DayOf[r] \in Marked -> "unmark"
                          [] ~Whole(r) /\ DayOf[r] \notin Marked -> "untable"
               /\ UNCHANGED <<named, older>>
      <4>1. run' = r /\ UNCHANGED <<flawed, marker, parts>>
        BY <1>1 DEF Start
      <4>2. pc' # "unrun"
        BY <3>4
      <4>3. QED
        BY <3>1, <3>2, <3>4, <4>1, <4>2 DEF RemovalKnows, Marked
    <3>5. QED
      BY <1>1, <3>3, <3>4 DEF Start
  <2>3. CopyKnows'
    BY <1>1 DEF Start, RemovalKnows, CopyKnows, OnlyItsParts, DayTablesGone, FolderThere, PartsThere, GraphsRead
  <2>4. TrimKnows'
    BY <1>1 DEF Start, RemovalKnows, TrimKnows, Marked, Newer
  <2>5. OkKnows' /\ OkIsArchived'
    BY <1>1 DEF Start, Whole, RemovalKnows, TrimKnows, OkKnows, OkIsArchived, Newer, Marked
  <2>6. MarkedDayIsWhole'
    BY <1>1 DEF Start, RemovalKnows, CopyKnows, MarkedDayIsWhole, OnlyItsParts, FolderThere, PartsThere, GraphsRead
  <2>7. QED
    BY <2>1, <2>2, <2>3, <2>4, <2>5, <2>6 DEF Knows
<1>2. ASSUME Unmark PROVE Knows'
  <2>1. RunGiven' /\ OthersNotRead'
    BY <1>2 DEF Unmark, OthersNotRead
  <2>2. RemovalKnows'
    BY <1>2 DEF Unmark, RemovalKnows, TrimKnows, Marked, MarkedDayIsWhole
  <2>3. CopyKnows'
    BY <1>2 DEF Unmark, RemovalKnows, CopyKnows, OnlyItsParts, DayTablesGone, FolderThere, PartsThere, GraphsRead
  <2>4. TrimKnows'
    <3>1. ASSUME NEW e \in older PROVE Cardinality(Newer(e)') >= KeepDays
      <4>1. day \in older /\ e <= day
        BY <1>2, <3>1 DEF Unmark, RemovalKnows
      <4>2. day \in Day /\ e \in Day /\ Cardinality(Newer(day)) >= KeepDays
        BY <4>1 DEF TrimKnows
      <4>3. QED
        BY <1>2, <4>1, <4>2, TrimKeepsCount DEF Unmark
    <3>2. older \ {day} \subseteq Marked'
      BY <1>2 DEF Unmark, TrimKnows, Marked
    <3>3. older' = older /\ pc' = "untable" /\ UNCHANGED day
      BY <1>2 DEF Unmark
    <3>4. ASSUME NEW e \in older' PROVE Cardinality(Newer(e)') >= KeepDays
      BY <3>1, <3>3, <3>4
    <3>5. \A e \in older' : Cardinality(Newer(e))' >= KeepDays
      BY <3>4
    <3>6. QED
      BY <3>2, <3>3, <3>5 DEF TrimKnows
  <2>5. OkKnows' /\ OkIsArchived'
    <3>1. /\ older' = older /\ pc' = "untable" /\ run \in Run
          /\ UNCHANGED <<day, run, keeping>> /\ marker' = [marker EXCEPT ![day] = NoRun]
      BY <1>2 DEF Unmark
    <3>2. CASE older = {}
      BY <3>1, <3>2 DEF OkKnows, OkIsArchived
    <3>3. CASE older # {}
      <4> DEFINE d == DayOf[run]
      <4>1. d \in Day /\ day \in Day /\ day \in older /\ keeping /\ \A e \in older : e <= day
        BY <1>2, <3>1, <3>3 DEF Unmark, RemovalKnows, OkKnows
      <4>2. Cardinality(Newer(day)) >= KeepDays
        BY <4>1 DEF TrimKnows
      <4>3. CASE marker[d] = run /\ d # day
        <5>1. marker'[d] = run
          BY <3>1, <4>1, <4>3
        <5>2. QED
          BY <3>1, <5>1 DEF OkKnows, OkIsArchived
      <4>4. CASE d = day
        <5>1. Cardinality(Newer(d)') >= KeepDays
          BY <3>1, <4>1, <4>2, <4>4, TrimKeepsCount
        <5>2. QED
          BY <3>1, <4>1, <4>4, <5>1 DEF OkKnows, OkIsArchived
      <4>5. CASE /\ Cardinality(Newer(d)) >= KeepDays
                 /\ \A e \in older : e <= d
        <5>1. Newer(d)' = Newer(d)
          BY <3>1, <4>1, <4>5 DEF Newer, Marked, Day
        <5>2. QED
          BY <3>1, <4>1, <4>5, <5>1 DEF OkKnows, OkIsArchived
      <4>6. QED
        BY <1>2, <3>3, <4>3, <4>4, <4>5 DEF Unmark, OkKnows
    <3>4. QED
      BY <3>2, <3>3
  <2>6. MarkedDayIsWhole'
    BY <1>2 DEF Unmark, RemovalKnows, CopyKnows, MarkedDayIsWhole, OnlyItsParts, FolderThere, PartsThere, GraphsRead
  <2>7. QED
    BY <2>1, <2>2, <2>3, <2>4, <2>5, <2>6 DEF Knows
<1>3. ASSUME RemovePart PROVE Knows'
  <2>1. RunGiven' /\ OthersNotRead'
    BY <1>3 DEF RemovePart, OthersNotRead
  <2>2. RemovalKnows'
    BY <1>3 DEF RemovePart, RemovalKnows, CopyKnows, TrimKnows, DayTablesGone, Marked
  <2>3. CopyKnows'
    BY <1>3 DEF RemovePart, RemovalKnows, CopyKnows, OnlyItsParts, DayTablesGone, FolderThere, PartsThere, GraphsRead
  <2>4. TrimKnows'
    BY <1>3 DEF RemovePart, RemovalKnows, TrimKnows, Marked, Newer
  <2>5. OkKnows' /\ OkIsArchived'
    BY <1>3 DEF RemovePart, RemovalKnows, TrimKnows, OkKnows, OkIsArchived, Newer, Marked
  <2>6. MarkedDayIsWhole'
    BY <1>3 DEF RemovePart, RemovalKnows, CopyKnows, MarkedDayIsWhole, OnlyItsParts, FolderThere, PartsThere, GraphsRead
  <2>7. QED
    BY <2>1, <2>2, <2>3, <2>4, <2>5, <2>6 DEF Knows
<1>4. ASSUME TablesRemoved PROVE Knows'
  <2>1. RunGiven' /\ OthersNotRead'
    BY <1>4 DEF TablesRemoved, OthersNotRead
  <2>2. RemovalKnows'
    BY <1>4 DEF TablesRemoved, RemovalKnows, CopyKnows, TrimKnows, DayTablesGone, Marked
  <2>3. CopyKnows'
    BY <1>4 DEF TablesRemoved, RemovalKnows, CopyKnows, OnlyItsParts, DayTablesGone, FolderThere, PartsThere, GraphsRead
  <2>4. TrimKnows'
    BY <1>4 DEF TablesRemoved, RemovalKnows, TrimKnows, Marked, Newer
  <2>5. OkKnows' /\ OkIsArchived'
    BY <1>4 DEF TablesRemoved, RemovalKnows, TrimKnows, OkKnows, OkIsArchived, Newer, Marked
  <2>6. MarkedDayIsWhole'
    BY <1>4 DEF TablesRemoved, RemovalKnows, CopyKnows, MarkedDayIsWhole, OnlyItsParts, FolderThere, PartsThere, GraphsRead
  <2>7. QED
    BY <2>1, <2>2, <2>3, <2>4, <2>5, <2>6 DEF Knows
<1>5. ASSUME RemoveRunFile PROVE Knows'
  <2>1. RunGiven' /\ OthersNotRead'
    BY <1>5 DEF RemoveRunFile, OthersNotRead
  <2>2. RemovalKnows'
    BY <1>5 DEF RemoveRunFile, RemovalKnows, CopyKnows, TrimKnows, DayTablesGone, Marked
  <2>3. CopyKnows'
    BY <1>5 DEF RemoveRunFile, RemovalKnows, CopyKnows, OnlyItsParts, DayTablesGone, FolderThere, PartsThere, GraphsRead
  <2>4. TrimKnows'
    BY <1>5 DEF RemoveRunFile, RemovalKnows, TrimKnows, Marked, Newer
  <2>5. OkKnows' /\ OkIsArchived'
    BY <1>5 DEF RemoveRunFile, RemovalKnows, TrimKnows, OkKnows, OkIsArchived, Newer, Marked
  <2>6. MarkedDayIsWhole'
    BY <1>5 DEF RemoveRunFile, RemovalKnows, CopyKnows, MarkedDayIsWhole, OnlyItsParts, FolderThere, PartsThere, GraphsRead
  <2>7. QED
    BY <2>1, <2>2, <2>3, <2>4, <2>5, <2>6 DEF Knows
<1>6. ASSUME RunRemoved PROVE Knows'
  <2>1. RunGiven' /\ OthersNotRead'
    BY <1>6 DEF RunRemoved, OthersNotRead
  <2>2. RemovalKnows'
    BY <1>6 DEF RunRemoved, RemovalKnows, CopyKnows, TrimKnows, DayTablesGone, Marked
  <2>3. CopyKnows'
    BY <1>6 DEF RunRemoved, RemovalKnows, CopyKnows, OnlyItsParts, DayTablesGone, FolderThere, PartsThere, GraphsRead
  <2>4. TrimKnows'
    BY <1>6 DEF RunRemoved, RemovalKnows, TrimKnows, Marked, Newer
  <2>5. OkKnows' /\ OkIsArchived'
    BY <1>6 DEF RunRemoved, RemovalKnows, TrimKnows, OkKnows, OkIsArchived, Newer, Marked
  <2>6. MarkedDayIsWhole'
    BY <1>6 DEF RunRemoved, RemovalKnows, CopyKnows, MarkedDayIsWhole, OnlyItsParts, FolderThere, PartsThere, GraphsRead
  <2>7. QED
    BY <2>1, <2>2, <2>3, <2>4, <2>5, <2>6 DEF Knows
<1>7. ASSUME CopyFile PROVE Knows'
  <2>1. RunGiven' /\ OthersNotRead'
    <3>1. run \in Run
      BY <1>7 DEF CopyFile
    <3>2. PICK f \in RunFile :
             \/ folder' = [folder EXCEPT ![run][f] = "whole"]
             \/ f \in Graph /\ folder' = [folder EXCEPT ![run][f] = "spoiled"]
      BY <1>7 DEF CopyFile
    <3>3. ASSUME NEW r \in Run, NEW g \in RunFile \ Graph PROVE folder'[r][g] # "spoiled"
      <4>1. folder[r][g] # "spoiled" /\ folder \in [Run -> [RunFile -> Object]]
        BY DEF OthersNotRead
      <4>2. CASE folder' = [folder EXCEPT ![run][f] = "whole"]
        BY <3>1, <4>1, <4>2
      <4>3. CASE f \in Graph /\ folder' = [folder EXCEPT ![run][f] = "spoiled"]
        BY <3>1, <4>1, <4>3
      <4>4. QED
        BY <3>2, <4>2, <4>3
    <3>4. QED
      BY <1>7, <3>3 DEF CopyFile, OthersNotRead
  <2>2. RemovalKnows'
    BY <1>7 DEF CopyFile, RemovalKnows, CopyKnows, TrimKnows, DayTablesGone, Marked
  <2>3. CopyKnows'
    BY <1>7 DEF CopyFile, RemovalKnows, CopyKnows, OnlyItsParts, DayTablesGone, FolderThere, PartsThere, GraphsRead
  <2>4. TrimKnows'
    BY <1>7 DEF CopyFile, RemovalKnows, TrimKnows, Marked, Newer
  <2>5. OkKnows' /\ OkIsArchived'
    BY <1>7 DEF CopyFile, RemovalKnows, TrimKnows, OkKnows, OkIsArchived, Newer, Marked
  <2>6. MarkedDayIsWhole'
    BY <1>7 DEF CopyFile, RemovalKnows, CopyKnows, MarkedDayIsWhole, OnlyItsParts, FolderThere, PartsThere, GraphsRead
  <2>7. QED
    BY <2>1, <2>2, <2>3, <2>4, <2>5, <2>6 DEF Knows
<1>8. ASSUME CopyPart PROVE Knows'
  <2>1. RunGiven' /\ OthersNotRead'
    BY <1>8 DEF CopyPart, OthersNotRead
  <2>2. RemovalKnows'
    BY <1>8 DEF CopyPart, RemovalKnows, CopyKnows, TrimKnows, DayTablesGone, Marked
  <2>3. CopyKnows'
    BY <1>8 DEF CopyPart, RemovalKnows, CopyKnows, OnlyItsParts, DayTablesGone, FolderThere, PartsThere, GraphsRead
  <2>4. TrimKnows'
    BY <1>8 DEF CopyPart, RemovalKnows, TrimKnows, Marked, Newer
  <2>5. OkKnows' /\ OkIsArchived'
    BY <1>8 DEF CopyPart, RemovalKnows, TrimKnows, OkKnows, OkIsArchived, Newer, Marked
  <2>6. MarkedDayIsWhole'
    BY <1>8 DEF CopyPart, RemovalKnows, CopyKnows, MarkedDayIsWhole, OnlyItsParts, FolderThere, PartsThere, GraphsRead
  <2>7. QED
    BY <2>1, <2>2, <2>3, <2>4, <2>5, <2>6 DEF Knows
<1>9. ASSUME CopyEnds PROVE Knows'
  <2>1. RunGiven' /\ OthersNotRead'
    BY <1>9 DEF CopyEnds, OthersNotRead
  <2>2. RemovalKnows'
    BY <1>9 DEF CopyEnds, RemovalKnows, CopyKnows, TrimKnows, DayTablesGone, Marked
  <2>3. CopyKnows'
    BY <1>9 DEF CopyEnds, RemovalKnows, CopyKnows, OnlyItsParts, DayTablesGone, FolderThere, PartsThere, GraphsRead
  <2>4. TrimKnows'
    BY <1>9 DEF CopyEnds, RemovalKnows, TrimKnows, Marked, Newer
  <2>5. OkKnows' /\ OkIsArchived'
    BY <1>9 DEF CopyEnds, RemovalKnows, TrimKnows, OkKnows, OkIsArchived, Newer, Marked
  <2>6. MarkedDayIsWhole'
    BY <1>9 DEF CopyEnds, RemovalKnows, CopyKnows, MarkedDayIsWhole, OnlyItsParts, FolderThere, PartsThere, GraphsRead
  <2>7. QED
    BY <2>1, <2>2, <2>3, <2>4, <2>5, <2>6 DEF Knows
<1>10. ASSUME Check PROVE Knows'
  <2>1. RunGiven' /\ OthersNotRead'
    BY <1>10 DEF Check, OthersNotRead
  <2>2. RemovalKnows'
    BY <1>10 DEF Check, RemovalKnows, CopyKnows, TrimKnows, DayTablesGone, Marked
  <2>3. CopyKnows'
    BY <1>10 DEF Check, RemovalKnows, CopyKnows, OnlyItsParts, DayTablesGone, FolderThere, PartsThere, GraphsRead
  <2>4. TrimKnows'
    BY <1>10 DEF Check, RemovalKnows, TrimKnows, Marked, Newer
  <2>5. OkKnows' /\ OkIsArchived'
    BY <1>10 DEF Check, RemovalKnows, TrimKnows, OkKnows, OkIsArchived, Newer, Marked
  <2>6. MarkedDayIsWhole'
    BY <1>10 DEF Check, RemovalKnows, CopyKnows, MarkedDayIsWhole, OnlyItsParts, FolderThere, PartsThere, GraphsRead
  <2>7. QED
    BY <2>1, <2>2, <2>3, <2>4, <2>5, <2>6 DEF Knows
<1>11. ASSUME PutMarker PROVE Knows'
  <2>1. RunGiven' /\ OthersNotRead'
    BY <1>11 DEF PutMarker, OthersNotRead
  <2>2. RemovalKnows'
    BY <1>11 DEF PutMarker, RemovalKnows, CopyKnows, TrimKnows, DayTablesGone, Marked
  <2>3. CopyKnows'
    BY <1>11 DEF PutMarker, RemovalKnows, CopyKnows, OnlyItsParts, DayTablesGone, FolderThere, PartsThere, GraphsRead
  <2>4. TrimKnows'
    BY <1>11 DEF PutMarker, RemovalKnows, TrimKnows, Marked, Newer
  <2>5. OkKnows' /\ OkIsArchived'
    BY <1>11 DEF PutMarker, RemovalKnows, TrimKnows, OkKnows, OkIsArchived, Newer, Marked
  <2>6. MarkedDayIsWhole'
    BY <1>11 DEF PutMarker, RemovalKnows, CopyKnows, MarkedDayIsWhole, OnlyItsParts, FolderThere, PartsThere, GraphsRead
  <2>7. QED
    BY <2>1, <2>2, <2>3, <2>4, <2>5, <2>6 DEF Knows
<1>12. ASSUME Trim PROVE Knows'
  <2>1. RunGiven' /\ OthersNotRead'
    BY <1>12 DEF Trim, OthersNotRead
  <2>2. RemovalKnows'
    BY <1>12 DEF Trim, RemovalKnows, CopyKnows, TrimKnows, DayTablesGone, Marked
  <2>3. CopyKnows'
    BY <1>12 DEF Trim, RemovalKnows, CopyKnows, OnlyItsParts, DayTablesGone, FolderThere, PartsThere, GraphsRead
  <2>4. TrimKnows'
    BY <1>12 DEF Trim, RemovalKnows, TrimKnows, Marked, Newer
  <2>5. OkKnows' /\ OkIsArchived'
    BY <1>12 DEF Trim, RemovalKnows, TrimKnows, OkKnows, OkIsArchived, Newer, Marked
  <2>6. MarkedDayIsWhole'
    BY <1>12 DEF Trim, RemovalKnows, CopyKnows, MarkedDayIsWhole, OnlyItsParts, FolderThere, PartsThere, GraphsRead
  <2>7. QED
    BY <2>1, <2>2, <2>3, <2>4, <2>5, <2>6 DEF Knows
<1>13. ASSUME TrimNext PROVE Knows'
  <2>1. RunGiven' /\ OthersNotRead'
    BY <1>13 DEF TrimNext, OthersNotRead
  <2>2. RemovalKnows'
    BY <1>13 DEF TrimNext, RemovalKnows, CopyKnows, TrimKnows, DayTablesGone, Marked
  <2>3. CopyKnows'
    BY <1>13 DEF TrimNext, RemovalKnows, CopyKnows, OnlyItsParts, DayTablesGone, FolderThere, PartsThere, GraphsRead
  <2>4. TrimKnows'
    BY <1>13 DEF TrimNext, RemovalKnows, TrimKnows, Marked, Newer
  <2>5. OkKnows' /\ OkIsArchived'
    BY <1>13 DEF TrimNext, RemovalKnows, TrimKnows, OkKnows, OkIsArchived, Newer, Marked
  <2>6. MarkedDayIsWhole'
    BY <1>13 DEF TrimNext, RemovalKnows, CopyKnows, MarkedDayIsWhole, OnlyItsParts, FolderThere, PartsThere, GraphsRead
  <2>7. QED
    BY <2>1, <2>2, <2>3, <2>4, <2>5, <2>6 DEF Knows
<1>14. ASSUME Fails \/ Crash PROVE Knows'
  <2>1. RunGiven' /\ OthersNotRead'
    BY <1>14 DEF Fails, Crash, OthersNotRead
  <2>2. RemovalKnows'
    BY <1>14 DEF Fails, Crash, RemovalKnows, CopyKnows, TrimKnows, DayTablesGone, Marked
  <2>3. CopyKnows'
    BY <1>14 DEF Fails, Crash, RemovalKnows, CopyKnows, OnlyItsParts, DayTablesGone, FolderThere, PartsThere, GraphsRead
  <2>4. TrimKnows'
    BY <1>14 DEF Fails, Crash, RemovalKnows, TrimKnows, Marked, Newer
  <2>5. OkKnows' /\ OkIsArchived'
    BY <1>14 DEF Fails, Crash, RemovalKnows, TrimKnows, OkKnows, OkIsArchived, Newer, Marked
  <2>6. MarkedDayIsWhole'
    BY <1>14 DEF Fails, Crash, RemovalKnows, CopyKnows, MarkedDayIsWhole, OnlyItsParts, FolderThere, PartsThere, GraphsRead
  <2>7. QED
    BY <2>1, <2>2, <2>3, <2>4, <2>5, <2>6 DEF Knows
<1>15. ASSUME UNCHANGED vars PROVE Knows'
  <2>1. RunGiven' /\ OthersNotRead'
    BY <1>15 DEF vars, OthersNotRead
  <2>2. RemovalKnows'
    BY <1>15 DEF vars, RemovalKnows, CopyKnows, TrimKnows, DayTablesGone, Marked
  <2>3. CopyKnows'
    BY <1>15 DEF vars, RemovalKnows, CopyKnows, OnlyItsParts, DayTablesGone, FolderThere, PartsThere, GraphsRead
  <2>4. TrimKnows'
    BY <1>15 DEF vars, RemovalKnows, TrimKnows, Marked, Newer
  <2>5. OkKnows' /\ OkIsArchived'
    BY <1>15 DEF vars, RemovalKnows, TrimKnows, OkKnows, OkIsArchived, Newer, Marked
  <2>6. MarkedDayIsWhole'
    BY <1>15 DEF vars, RemovalKnows, CopyKnows, MarkedDayIsWhole, OnlyItsParts, FolderThere, PartsThere, GraphsRead
  <2>7. QED
    BY <2>1, <2>2, <2>3, <2>4, <2>5, <2>6 DEF Knows
<1>16. QED
  BY <1>1, <1>2, <1>3, <1>4, <1>5, <1>6, <1>7, <1>8, <1>9, <1>10, <1>11, <1>12, <1>13,
     <1>14, <1>15 DEF Next, Continue

\* The types, of every reachable state, and the whole invariant.
THEOREM Invariance == Spec => []IInv
<1>1. Init => IInv
  <2> SUFFICES ASSUME Init PROVE IInv
    OBVIOUS
  <2>1. TypeOK
    <3>1. faults \in 0..MaxFaults /\ spoiled \in 0..MaxSpoiled
      BY BoundAssumption DEF Init
    <3>2. flawed \subseteq Run /\ older \subseteq Day /\ keeping \in BOOLEAN
      BY DEF Init
    <3>3. QED
      BY <3>1, <3>2, DayAssumption DEF Init, TypeOK, Object, Step, Code
  <2>2. RunGiven /\ OthersNotRead /\ OkKnows /\ OkIsArchived
    BY DEF Init, RunGiven, OthersNotRead, OkKnows, OkIsArchived, Removing
  <2>3. RemovalKnows /\ CopyKnows /\ TrimKnows
    BY DEF Init, RemovalKnows, CopyKnows, TrimKnows, Removing, Copying
  <2>4. MarkedDayIsWhole
    BY DayAssumption DEF Init, MarkedDayIsWhole
  <2>5. QED
    BY <2>1, <2>2, <2>3, <2>4 DEF IInv
<1>2. IInv /\ [Next]_vars => IInv'
  BY TypeStep, KnowledgeStep DEF IInv, Knows
<1>3. QED
  BY <1>1, <1>2, PTL DEF Spec

----------------------------------------------------------------------------
(* The properties.                                                         *)

\* Every variable keeps its type.
THEOREM TypeCorrect == Spec => []TypeOK
<1>1. IInv => TypeOK
  BY DEF IInv
<1>2. QED
  BY <1>1, Invariance, PTL

\* A marker vouches for a whole copy of its day by one run, at every moment of a
\* copy, a replacement or a trim, cut short or not.
THEOREM MarkersVouch == Spec => []MarkedDayIsWhole
<1>1. IInv => MarkedDayIsWhole
  BY DEF IInv
<1>2. QED
  BY <1>1, Invariance, PTL

\* Exit code 0 means that the run's day is archived as its copy, or was trimmed.
THEOREM OkMeansArchived == Spec => []OkIsArchived
<1>1. IInv => OkIsArchived
  BY DEF IInv
<1>2. QED
  BY <1>1, Invariance, PTL

\* What each step does to the markers: only Unmark takes one away, and only
\* PutMarker, on a day without one, puts one.
LEMMA MarkerStep ==
  ASSUME IInv, [Next]_vars
  PROVE  \/ marker' = marker
         \/ pc = "unmark" /\ Unmark
         \/ pc = "mark" /\ PutMarker /\ marker[DayOf[run]] = NoRun
<1>1. CASE Unmark \/ PutMarker
  BY <1>1 DEF Unmark, PutMarker, IInv, CopyKnows, Copying
<1>2. CASE ~Unmark /\ ~PutMarker
  BY <1>2 DEF Next, Continue, Start, RemovePart, TablesRemoved, RemoveRunFile, RunRemoved,
     CopyFile, CopyPart, CopyEnds, Check, Trim, TrimNext, Fails, Crash, vars, archiveVars
<1>3. QED
  BY <1>1, <1>2

\* A day is taken out for a run of that day that passed its checks, or because
\* KeepDays newer days are there: no failed, refused or killed command loses one
\* otherwise.
THEOREM DaysLeaveForAReason == Spec => DayLeavesForAReason
<1> DEFINE Leaves(d) ==
      d \in Marked /\ marker'[d] # marker[d] =>
        /\ marker'[d] = NoRun
        /\ \/ DayOf[run] = d /\ run # marker[d] /\ run \notin flawed
           \/ Cardinality(Newer(d)) >= KeepDays
<1>1. ASSUME IInv, [Next]_vars, NEW d \in Day PROVE Leaves(d)
  <2>1. CASE marker' = marker
    BY <2>1
  <2>2. CASE pc = "unmark" /\ Unmark
    <3>1. marker' = [marker EXCEPT ![day] = NoRun] /\ marker \in [Day -> Run \cup {NoRun}]
      BY <1>1, <2>2 DEF Unmark, IInv, TypeOK
    <3>2. CASE older = {}
      BY <1>1, <2>2, <3>1, <3>2 DEF IInv, RemovalKnows, Removing
    <3>3. CASE older # {}
      BY <1>1, <2>2, <3>1, <3>3 DEF IInv, RemovalKnows, TrimKnows, Removing
    <3>4. QED
      BY <3>2, <3>3
  <2>3. CASE PutMarker /\ marker[DayOf[run]] = NoRun
    BY <1>1, <2>3 DEF PutMarker, IInv, TypeOK, Marked
  <2>4. QED
    BY <1>1, <2>1, <2>2, <2>3, MarkerStep
<1>2. ASSUME IInv, [Next]_vars PROVE [\A d \in Day : Leaves(d)]_vars
  BY <1>1, <1>2
<1>3. QED
  BY <1>2, Invariance, PTL DEF Spec, DayLeavesForAReason

----------------------------------------------------------------------------
(* The days a trim leaves.                                                 *)

\* What a trim has listed but not yet removed is all that is too old: every other
\* marked day has fewer than KeepDays newer ones.
Trimmed ==
    keeping /\ (pc = "next" \/ (pc \in Removing /\ older # {})) =>
        \A d \in Marked \ older : Cardinality(Newer(d)) < KeepDays

\* If no marked day has KeepDays newer ones then there are at most KeepDays marked
\* days: their counts of newer days are all different, and below KeepDays.
LEMMA FewNewerFewMarked ==
  ASSUME \A d \in Marked : Cardinality(Newer(d)) < KeepDays
  PROVE  Cardinality(Marked) <= KeepDays
<1> DEFINE T == 0..(KeepDays - 1)
           f == [d \in Marked |-> Cardinality(Newer(d))]
<1>1. \A d \in Marked : d \in Day /\ d \in Nat
  BY DayAssumption DEF Marked, Day
<1>2. \A d \in Marked : Cardinality(Newer(d)) \in T
  BY <1>1, NewerCounts, BoundAssumption
<1>3. ASSUME NEW d \in Marked, NEW e \in Marked, d < e
      PROVE  Cardinality(Newer(d)) # Cardinality(Newer(e))
  <2>1. IsFiniteSet(Newer(d))
    <3>1. IsFiniteSet(Day)
      BY FS_Interval, DayAssumption DEF Day
    <3>2. QED
      BY <3>1, FS_Subset DEF Newer, Marked
  <2>2. Newer(e) \in SUBSET Newer(d) /\ e \in Newer(d) /\ e \notin Newer(e)
    BY <1>1, <1>3 DEF Newer
  <2>3. QED
    BY <2>1, <2>2, FS_Subset
<1>4. \A d, e \in Marked : f[d] = f[e] => d = e
  <2>1. ASSUME NEW d \in Marked, NEW e \in Marked, d # e PROVE f[d] # f[e]
    <3>1. d < e \/ e < d
      BY <1>1, <2>1
    <3>2. Cardinality(Newer(d)) # Cardinality(Newer(e))
      BY <1>3, <3>1
    <3>3. QED
      BY <3>2
  <2>2. QED
    BY <2>1
<1>5. f \in Injection(Marked, T)
  <2>1. f \in [Marked -> T]
    BY <1>2
  <2> HIDE DEF f, T
  <2>2. QED
    BY <2>1, <1>4 DEF Injection, IsInjective
<1>6. IsFiniteSet(T) /\ Cardinality(T) = KeepDays
  BY FS_Interval, BoundAssumption
<1>7. Cardinality(Marked) <= Cardinality(T)
  <2> HIDE DEF f, T
  <2>1. QED
    BY <1>5, <1>6, FS_Injection
<1>8. QED
  BY <1>6, <1>7

\* A day taken out is newer than no day any more, and no day has more newer ones.
LEMMA RemovalLeavesFewer ==
  ASSUME TypeOK, NEW e \in Day, NEW d \in Day, marker' = [marker EXCEPT ![e] = NoRun],
         Cardinality(Newer(d)) < KeepDays
  PROVE  Cardinality(Newer(d)') < KeepDays
<1>1. Newer(d)' \in SUBSET Newer(d)
  BY DEF Newer, Marked, TypeOK
<1>2. IsFiniteSet(Newer(d))
  <2>1. IsFiniteSet(Day)
    BY FS_Interval, DayAssumption DEF Day
  <2>2. QED
    BY <2>1, FS_Subset DEF Newer, Marked
<1>3. Cardinality(Newer(d)') <= Cardinality(Newer(d)) /\ IsFiniteSet(Newer(d)')
  BY <1>1, <1>2, FS_Subset
<1>4. Cardinality(Newer(d)') \in Nat /\ Cardinality(Newer(d)) \in Nat
  BY <1>2, <1>3, FS_CardinalityType
<1>5. QED
  BY <1>3, <1>4, BoundAssumption

\* A trim lists all the days that are too old, and then removes no others.
LEMMA TrimmedStep == IInv /\ Trimmed /\ [Next]_vars => Trimmed'
<1> SUFFICES ASSUME IInv, Trimmed, [Next]_vars PROVE Trimmed'
  OBVIOUS
<1>t. TypeOK
  BY DEF IInv
<1>1. CASE Unmark
  <2>1. day \in Day /\ marker' = [marker EXCEPT ![day] = NoRun]
    BY <1>1 DEF Unmark, IInv, RemovalKnows, Removing
  <2> SUFFICES ASSUME keeping', older' # {}, NEW d \in (Marked \ older)'
               PROVE  Cardinality(Newer(d)') < KeepDays
    BY <1>1 DEF Trimmed, Unmark, Goto
  <2>2. keeping /\ pc \in Removing /\ older # {} /\ older' = older
    BY <1>1 DEF Unmark, Removing
  <2>3. d \in Marked \ older
    BY <1>t, <2>1, <2>2 DEF Marked, TypeOK
  <2>4. d \in Day /\ Cardinality(Newer(d)) < KeepDays
    BY <2>2, <2>3 DEF Trimmed, Marked
  <2>5. QED
    BY <1>t, <2>1, <2>4, RemovalLeavesFewer
<1>2. CASE RunRemoved
  <2>1. UNCHANGED <<marker, keeping>> /\ older' = older \ {day} /\ pc' \in {"copy", "next"}
    BY <1>2 DEF RunRemoved, Goto, archiveVars
  <2>2. day \notin Marked /\ pc \in Removing /\ (pc' = "next" => older # {})
    BY <1>2 DEF RunRemoved, Goto, IInv, RemovalKnows, Marked, Removing
  <2>3. Marked' \ older' = Marked \ older
    BY <2>1, <2>2 DEF Marked
  <2>4. \A d \in Day : Newer(d)' = Newer(d)
    BY <2>1 DEF Newer, Marked
  <2> SUFFICES ASSUME keeping', pc' = "next", NEW d \in (Marked \ older)'
               PROVE  Cardinality(Newer(d)') < KeepDays
    BY <2>1 DEF Trimmed, Removing
  <2>5. QED
    BY <2>1, <2>2, <2>3, <2>4 DEF Trimmed, Marked
<1>3. CASE Trim
  <2>1. UNCHANGED <<marker, keeping>> /\ pc' = "next"
    BY <1>3 DEF Trim, Goto, archiveVars
  <2> SUFFICES ASSUME keeping, NEW d \in (Marked \ older)'
               PROVE  Cardinality(Newer(d)') < KeepDays
    BY <2>1 DEF Trimmed
  <2>2. d \in Marked /\ d \in Day /\ ~(Cardinality(Newer(d)) >= KeepDays)
    BY <1>3, <2>1 DEF Trim, Marked
  <2>3. Newer(d)' = Newer(d) /\ Cardinality(Newer(d)) \in Nat
    BY <2>1, <2>2, NewerCounts DEF Newer, Marked
  <2>4. QED
    BY <2>2, <2>3, BoundAssumption
<1>4. CASE pc' = "idle" \/ PutMarker
  BY <1>4 DEF PutMarker, Goto, Trimmed, Removing
<1>5. ASSUME NEW r \in Run, Start(r) PROVE Trimmed'
  <2>1. older = {} /\ older' = {} /\ pc' # "next"
    BY <1>5 DEF Start, Ends, IInv, TrimKnows, Copying
  <2>2. QED
    BY <2>1 DEF Trimmed
<1>6. CASE /\ UNCHANGED <<marker, keeping, older>>
           /\ pc' = "next" => pc = "next"
           /\ pc' \in Removing => pc = "next" \/ pc \in Removing
  <2>1. Marked' = Marked /\ \A d \in Day : Newer(d)' = Newer(d)
    BY <1>6 DEF Newer, Marked
  <2>2. \A d \in Marked : d \in Day
    BY DEF Marked
  <2>3. QED
    BY <1>6, <2>1, <2>2 DEF Trimmed
<1>7. CASE \/ RemovePart \/ TablesRemoved \/ RemoveRunFile \/ CopyFile \/ CopyPart \/ CopyEnds
           \/ Check \/ TrimNext \/ Fails \/ Crash \/ UNCHANGED vars
  BY <1>4, <1>6, <1>7 DEF RemovePart, TablesRemoved, RemoveRunFile, CopyFile, CopyPart, CopyEnds,
     Check, TrimNext, Fails, Crash, vars, Goto, Ends, archiveVars, removalVars, Removing
<1>8. QED
  BY <1>1, <1>2, <1>3, <1>4, <1>5, <1>7 DEF Next, Continue

\* The days are counted when the command ends with 0, and nothing is marked after.
LEMMA NewestStep == IInv /\ Trimmed /\ NewestDaysOnly /\ [Next]_vars => NewestDaysOnly'
<1> SUFFICES ASSUME IInv, Trimmed, NewestDaysOnly, [Next]_vars,
                    pc' = "idle", code' = "ok", keeping'
             PROVE  Cardinality(Marked') <= KeepDays
  BY DEF NewestDaysOnly
<1>1. CASE TrimNext
  <2>1. UNCHANGED <<marker, keeping>> /\ pc = "next" /\ older = {}
    BY <1>1 DEF TrimNext, Goto, archiveVars
  <2>2. \A d \in Marked : Cardinality(Newer(d)) < KeepDays
    BY <2>1 DEF Trimmed
  <2>3. Cardinality(Marked) <= KeepDays /\ Marked' = Marked
    BY <2>1, <2>2, FewNewerFewMarked DEF Marked
  <2>4. QED
    BY <2>3
<1>2. CASE UNCHANGED vars
  <2>1. Marked' = Marked /\ pc = "idle" /\ code = "ok" /\ keeping
    BY <1>2 DEF vars, archiveVars, Marked
  <2>2. QED
    BY <2>1 DEF NewestDaysOnly
<1>3. QED
  BY <1>1, <1>2 DEF Next, Continue, Start, Unmark, RemovePart, TablesRemoved, RemoveRunFile,
     RunRemoved, CopyFile, CopyPart, CopyEnds, Check, PutMarker, Trim, Fails, Crash, Goto, Ends

\* After exit code 0 with --keep-days no more than KeepDays days are marked, also
\* where an earlier trim was cut short and left more.
THEOREM OnlyTheNewest == Spec => []NewestDaysOnly
<1>1. Init => Trimmed /\ NewestDaysOnly
  BY DEF Init, Trimmed, NewestDaysOnly, Removing
<1>2. IInv /\ Trimmed /\ NewestDaysOnly /\ [Next]_vars => Trimmed' /\ NewestDaysOnly'
  BY TrimmedStep, NewestStep
<1>3. QED
  BY <1>1, <1>2, Invariance, PTL DEF Spec

----------------------------------------------------------------------------
(* Archive implements ArchiveShelf.                                        *)

WholesSeen ==
    readableDay = [d \in Day |-> IF marker[d] # NoRun THEN Shelf!Copy(marker[d]) ELSE {}]

\* In a reachable state a reader of marked days sees whole copies and nothing else.
LEMMA ReadersSeeWholes == IInv => WholesSeen
<1> SUFFICES ASSUME IInv PROVE WholesSeen
  OBVIOUS
<1> DEFINE Seen(d) ==
      {t \in Run \X (RunFile \cup Part) \X Object :
          /\ d \in Marked /\ DayOf[t[1]] = d
          /\ \/ t[2] \in Part /\ t[3] = parts[t[1]][t[2]] /\ t[3] # "absent"
             \/ t[2] \in RunFile /\ marker[d] = t[1] /\ t[3] = folder[t[1]][t[2]] /\ t[3] # "absent"}
<1>1. ASSUME NEW d \in Day, marker[d] = NoRun PROVE Seen(d) = {}
  BY <1>1 DEF Marked
<1>2. ASSUME NEW d \in Day, marker[d] # NoRun PROVE Seen(d) = Shelf!Copy(marker[d])
  <2>1. marker[d] \in Run /\ d \in Marked /\ DayOf[marker[d]] = d
    BY <1>2 DEF IInv, TypeOK, MarkedDayIsWhole, Marked
  <2>2. \A p \in Part : parts[marker[d]][p] = "whole"
    BY <2>1 DEF IInv, TypeOK, MarkedDayIsWhole, PartsThere
  <2>3. \A f \in RunFile : folder[marker[d]][f] = "whole"
    <3>1. \A f \in RunFile : folder[marker[d]][f] \in Object /\ folder[marker[d]][f] # "absent"
      BY <2>1 DEF IInv, TypeOK, MarkedDayIsWhole, FolderThere
    <3>2. \A f \in Graph : folder[marker[d]][f] = "whole"
      BY <2>1 DEF IInv, MarkedDayIsWhole, GraphsRead
    <3>3. QED
      BY <2>1, <3>1, <3>2 DEF IInv, OthersNotRead, Object
  <2>4. \A q \in Run : DayOf[q] = d /\ q # marker[d] => \A p \in Part : parts[q][p] = "absent"
    BY <2>1 DEF IInv, MarkedDayIsWhole
  <2>5. ASSUME NEW t \in Run \X (RunFile \cup Part) \X Object
        PROVE  t \in Seen(d) <=> t[1] = marker[d] /\ t[3] = "whole"
    BY <2>1, <2>2, <2>3, <2>4, <2>5 DEF Object
  <2>6. Shelf!Copy(marker[d]) =
          {t \in Run \X (RunFile \cup Part) \X Object : t[1] = marker[d] /\ t[3] = "whole"}
    BY <2>1 DEF Shelf!Copy, Object
  <2>7. QED
    BY <2>5, <2>6
<1>3. readableDay = [d \in Day |-> Seen(d)]
  BY DEF readableDay
<1>4. QED
  BY <1>1, <1>2, <1>3 DEF WholesSeen

\* Every step of the archive is, to a reader of marked days, the arrival of one
\* whole day, the departure of one, or no change.
THEOREM Refinement == Spec => ImplementsShelf
<1>1. Init => Shelf!Init
  BY DayAssumption DEF Init, Shelf!Init, readableDay, Marked
<1>2. ASSUME IInv, IInv', [Next]_vars
      PROVE  [Shelf!Next]_readableDay
  <2>1. WholesSeen /\ WholesSeen'
    BY <1>2, ReadersSeeWholes, PTL
  <2>2. readableDay' = [d \in Day |-> IF marker'[d] # NoRun THEN Shelf!Copy(marker'[d]) ELSE {}]
    BY <2>1 DEF WholesSeen
  <2>3. marker \in [Day -> Run \cup {NoRun}]
    BY <1>2 DEF IInv, TypeOK
  <2>4. CASE marker' = marker
    BY <2>1, <2>2, <2>4 DEF WholesSeen
  <2>5. CASE pc = "unmark" /\ Unmark
    <3>1. day \in Day /\ marker[day] \in Run /\ marker' = [marker EXCEPT ![day] = NoRun]
      BY <1>2, <2>3, <2>5 DEF IInv, RemovalKnows, Removing, Marked, Unmark
    <3>2. readableDay[day] # {}
      <4>1. readableDay[day] = Shelf!Copy(marker[day])
        BY <2>1, <3>1, DayAssumption DEF WholesSeen
      <4>2. QED
        BY <4>1, FileAssumption DEF Shelf!Copy, RunFile
    <3>3. readableDay' = [readableDay EXCEPT ![day] = {}]
      BY <2>1, <2>2, <2>3, <3>1 DEF WholesSeen
    <3>4. QED
      BY <3>1, <3>2, <3>3 DEF Shelf!Next, Shelf!TakeDay
  <2>6. CASE PutMarker /\ marker[DayOf[run]] = NoRun
    <3>1. run \in Run /\ DayOf[run] \in Day /\ run # NoRun
          /\ marker' = [marker EXCEPT ![DayOf[run]] = run]
      BY <1>2, <2>6, DayAssumption DEF IInv, RunGiven, PutMarker
    <3>2. readableDay[DayOf[run]] = {}
      BY <2>1, <2>6, <3>1 DEF WholesSeen
    <3>3. readableDay' = [readableDay EXCEPT ![DayOf[run]] = Shelf!Copy(run)]
      <4>1. ASSUME NEW d \in Day
            PROVE  (IF marker'[d] # NoRun THEN Shelf!Copy(marker'[d]) ELSE {})
                     = IF d = DayOf[run] THEN Shelf!Copy(run) ELSE readableDay[d]
        <5>1. CASE d = DayOf[run]
          BY <2>3, <3>1, <5>1
        <5>2. CASE d # DayOf[run]
          BY <2>1, <2>3, <3>1, <5>2 DEF WholesSeen
        <5>3. QED
          BY <5>1, <5>2
      <4>2. readableDay' = [d \in Day |-> IF d = DayOf[run] THEN Shelf!Copy(run) ELSE readableDay[d]]
        BY <2>2, <4>1
      <4>3. readableDay = [d \in Day |-> readableDay[d]]
        BY <2>1 DEF WholesSeen
      <4>4. QED
        BY <4>2, <4>3, <3>1
    <3>4. QED
      BY <3>1, <3>2, <3>3 DEF Shelf!Next, Shelf!PutDay
  <2>7. QED
    BY <1>2, <2>4, <2>5, <2>6, MarkerStep
<1>3. QED
  BY <1>1, <1>2, Invariance, PTL DEF Spec, ImplementsShelf, Shelf!Spec
============================================================================
