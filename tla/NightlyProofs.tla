--------------------------- MODULE NightlyProofs ---------------------------
(***************************************************************************)
(* Nightly, for any number of nights, days, faults and any settings the    *)
(* night accepts.                                                          *)
(*                                                                         *)
(* What has to be carried from step to step is what the prune's counter    *)
(* stands for: once it has reached Retain, that many started runs newer    *)
(* than the one looked at are still there.  For nights in order without    *)
(* faults (the last part), the counter also misses none below Retain, and  *)
(* that is what keeps the archive's trim from the day of a run that waits. *)
(***************************************************************************)
EXTENDS Nightly, FiniteSetTheorems, TLAPS

\* Whatever is there was left by a night that began, and has a data day.
Past ==
    /\ dir \subseteq 1..run /\ config \subseteq 1..run /\ work \subseteq 1..run
    /\ built \subseteq 1..run /\ gone \subseteq 1..run
    /\ \A r \in 1..run : dayOf[r] \in Day
    /\ pc # "idle" => run >= 1

\* Until the prune, the night's own run is a success that is still on the work disk.
Working == pc \in {"upload", "archive", "put", "trim"} => run \in built \cap work

\* The prune's counter, and what it stands for.
Enough(n, r) ==
    /\ n < Retain => n <= Cardinality(StartedSince(r))
    /\ n >= Retain => Cardinality(StartedSince(r)) >= Retain

Counted == pc = "prune" =>
    /\ look <= run /\ started + look <= run
    /\ look = run => started = 0
    /\ Enough(started, look)

Removing == pc = "rmdir" =>
    /\ look >= 1 /\ look < run /\ started + look <= run + 1
    /\ started > Retain /\ Cardinality(StartedSince(look)) >= Retain

IInv ==
    /\ TypeOK
    /\ Past
    /\ Working
    /\ Counted
    /\ Removing
    /\ DayNotLost

----------------------------------------------------------------------------
(* The counter.                                                            *)

\* The started runs newer than a run are finitely many.
LEMMA StartedFinite ==
  ASSUME TypeOK, NEW r
  PROVE  /\ IsFiniteSet(StartedSince(r))
         /\ Cardinality(StartedSince(r)) \in Nat
  <1>1. IsFiniteSet(Run)
    BY SettingsAssumption, FS_Interval DEF Run
  <1>2. StartedSince(r) \in SUBSET Run
    BY DEF TypeOK, StartedSince
  <1>3. IsFiniteSet(StartedSince(r))
    BY <1>1, <1>2, FS_Subset
  <1> QED
    BY <1>3, FS_CardinalityType

\* Going back over the runs loses none that were counted.
LEMMA OlderSeesMore ==
  ASSUME TypeOK, NEW r \in Nat, NEW q \in Nat, q <= r
  PROVE  Cardinality(StartedSince(r)) <= Cardinality(StartedSince(q))
  <1>1. \A p \in config : p \in Nat
    BY SettingsAssumption DEF TypeOK, Run
  <1>2. StartedSince(r) \in SUBSET StartedSince(q)
    BY <1>1 DEF StartedSince
  <1> QED
    BY <1>2, StartedFinite, FS_Subset

\* Going past a started run counts it.
LEMMA OneMoreStarted ==
  ASSUME TypeOK, NEW r \in config, NEW q \in Nat, q < r
  PROVE  Cardinality(StartedSince(q)) >= Cardinality(StartedSince(r)) + 1
  <1>0. \A p \in config : p \in Nat
    BY SettingsAssumption DEF TypeOK, Run
  <1>1. StartedSince(r) \cup {r} \in SUBSET StartedSince(q)
    BY <1>0 DEF StartedSince
  <1>2. r \notin StartedSince(r) /\ r \in Nat
    BY SettingsAssumption DEF StartedSince, TypeOK, Run
  <1>3. Cardinality(StartedSince(r) \cup {r}) = Cardinality(StartedSince(r)) + 1
    BY <1>2, StartedFinite, FS_AddElement
  <1>4. Cardinality(StartedSince(r) \cup {r}) <= Cardinality(StartedSince(q))
    BY <1>1, StartedFinite, FS_Subset
  <1> QED
    BY <1>3, <1>4

\* A run that is kept counts once; one that never started does not count.
LEMMA StillEnough ==
  ASSUME IInv, pc = "prune", look \in config, NEW q \in Nat, q < look
  PROVE  Enough(started + 1, q)
  <1>1. /\ Cardinality(StartedSince(look)) \in Nat /\ Cardinality(StartedSince(q)) \in Nat
        /\ Cardinality(StartedSince(q)) >= Cardinality(StartedSince(look)) + 1
    BY StartedFinite, OneMoreStarted DEF IInv
  <1>2. started \in Nat /\ Retain \in Nat /\ Enough(started, look)
    BY SettingsAssumption DEF IInv, TypeOK, Counted
  <1> QED
    BY <1>1, <1>2 DEF Enough

\* A run looked at is a run less to look at, however it was counted.
LEMMA CountFits ==
  ASSUME NEW r \in Nat, NEW l \in Nat, NEW s \in Nat, NEW m \in Nat, NEW t \in Nat,
         m < l, t <= s + 1, s + l <= r
  PROVE  t + m <= r
  OBVIOUS

\* LookBelow goes down, to a run there is or to the end of the list.
LEMMA BelowIsLess ==
  ASSUME TypeOK, LookBelow
  PROVE  look' \in 0..MaxRun /\ look' \in Nat /\ look' < look
  BY SettingsAssumption DEF TypeOK, LookBelow, Run

\* The run looked at by a prune that removes is not the night's own.
LEMMA RemovedIsOlder ==
  ASSUME IInv, pc = "prune", started >= Retain
  PROVE  look # run /\ Cardinality(StartedSince(look)) >= Retain
  BY SettingsAssumption DEF IInv, TypeOK, Counted, Enough

----------------------------------------------------------------------------
(* The invariant.                                                          *)

\* Before the first night nothing is there.
LEMMA InitIInv == Init => IInv
  BY SettingsAssumption
     DEF Init, IInv, TypeOK, Past, Working, Counted, Removing, DayNotLost, Step, Run, Day

\* Between nights the invariant is its types, its past and the archived days.
LEMMA IdleKnows ==
  ASSUME TypeOK', Past', DayNotLost', pc' = "idle"
  PROVE  IInv'
  BY DEF IInv, Working, Counted, Removing

\* Every step of a night, and what is done by hand between nights, keeps the invariant.
LEMMA StepIInv ==
  ASSUME IInv, [Next]_vars
  PROVE  IInv'
  <1> USE SettingsAssumption DEF IInv, Run, Day
  <1> USE DEF runVars, outsideVars
  <1>1. ASSUME NEW d \in Day, StartNight(d) PROVE IInv'
    <2>1. TypeOK'
      BY <1>1 DEF StartNight, TypeOK, Step
    <2>2. Past'
      BY <1>1 DEF StartNight, TypeOK, Past
    <2>3. DayNotLost'
      BY <1>1 DEF StartNight, TypeOK, Past, DayNotLost, check_archived, Marked
    <2> QED
      BY <1>1, <2>1, <2>2, <2>3 DEF StartNight, Working, Counted, Removing
  <1>2. CASE Stage
    <2>1. TypeOK'
      BY <1>2 DEF Stage, Goto, Ends, TypeOK, Step
    <2>2. Past'
      BY <1>2 DEF Stage, Goto, Ends, TypeOK, Past
    <2>3. DayNotLost'
      BY <1>2 DEF Stage, Goto, Ends, DayNotLost, check_archived, Marked
    <2> QED
      BY <1>2, <2>1, <2>2, <2>3 DEF Stage, Goto, Ends, Working, Counted, Removing
  <1>3. CASE Launch
    <2>0. run \in Run
      BY <1>3 DEF Launch, Past, TypeOK
    <2>1. TypeOK'
      <3>1. config' \subseteq Run /\ pc' \in Step
        BY <1>3, <2>0 DEF Launch, Goto, TypeOK, Step
      <3> QED
        BY <1>3, <3>1 DEF Launch, Goto, TypeOK
    <2>2. Past'
      BY <1>3 DEF Launch, Goto, TypeOK, Past
    <2>3. DayNotLost'
      BY <1>3 DEF Launch, Goto, DayNotLost, check_archived, Marked
    <2> QED
      BY <1>3, <2>1, <2>2, <2>3 DEF Launch, Goto, Working, Counted, Removing
  <1>4. CASE Build
    <2>0. run \in Run /\ run \in 1..run
      BY <1>4 DEF Build, TypeOK, Past
    <2>1. TypeOK' /\ Past'
      <3>1. CASE Goto("upload")
        BY <1>4, <2>0, <3>1 DEF Build, Goto, TypeOK, Step, Past
      <3>2. CASE built' = built /\ work' \in {work, work \cup {run}} /\ Ends("failed")
        <4>1. work' \subseteq Run /\ work' \subseteq 1..run
          BY <2>0, <3>2 DEF TypeOK, Past
        <4>2. TypeOK'
          BY <1>4, <3>2, <4>1 DEF Build, Ends, TypeOK, Step
        <4>3. Past'
          BY <1>4, <3>2, <4>1 DEF Build, Ends, Past
        <4> QED
          BY <4>2, <4>3
      <3> QED
        BY <1>4, <3>1, <3>2 DEF Build
    <2>2. DayNotLost'
      BY <1>4 DEF Build, Goto, Ends, DayNotLost, check_archived, Marked
    <2> QED
      BY <1>4, <2>1, <2>2 DEF Build, Goto, Ends, Working, Counted, Removing
  <1>5. CASE Upload
    <2>1. run \in Run /\ run \in built \cap work
      BY <1>5 DEF Upload, TypeOK, Past, Working
    <2>2. TypeOK' /\ Past'
      <3>1. listed' \subseteq Run
        BY <1>5, <2>1 DEF Upload, TypeOK
      <3>2. faults' \in 0..MaxFaults
        BY <1>5 DEF Upload, Fault, NoFault, TypeOK
      <3>3. TypeOK'
        BY <1>5, <3>1, <3>2 DEF Upload, Goto, Ends, TypeOK, Step
      <3>4. Past'
        BY <1>5 DEF Upload, Goto, Ends, Past
      <3> QED
        BY <3>3, <3>4
    <2>3. DayNotLost'
      BY <1>5 DEF Upload, DayNotLost, check_archived, Marked
    <2> QED
      BY <1>5, <2>1, <2>2, <2>3 DEF Upload, Goto, Ends, Working, Counted, Removing
  <1>6. CASE ArchiveTakesOut
    <2>1. TypeOK' /\ Past'
      BY <1>6 DEF ArchiveTakesOut, Goto, TypeOK, Step, Past
    <2>2. run \in built \cap work /\ dayOf[run] \in Day
      BY <1>6 DEF ArchiveTakesOut, Working, Past, TypeOK
    <2>3. DayNotLost'
      BY <1>6, <2>2 DEF ArchiveTakesOut, Goto, TypeOK, Past, DayNotLost, check_archived, Marked
    <2> QED
      BY <1>6, <2>1, <2>2, <2>3 DEF ArchiveTakesOut, Goto, Working, Counted, Removing
  <1>7. CASE ArchivePuts
    <2>1. TypeOK' /\ Past'
      BY <1>7 DEF ArchivePuts, Goto, TypeOK, Step, Past
    <2>2. run \in built \cap work /\ dayOf[run] \in Day /\ run # 0
      BY <1>7 DEF ArchivePuts, Working, Past, TypeOK
    <2>3. DayNotLost'
      BY <1>7, <2>2 DEF ArchivePuts, Goto, TypeOK, Past, DayNotLost, check_archived, Marked
    <2> QED
      BY <1>7, <2>1, <2>2, <2>3 DEF ArchivePuts, Goto, Working, Counted, Removing
  <1>8. CASE ArchiveTrims
    <2>1. TypeOK' /\ Past'
      <3>1. CASE pc' = "prune" /\ look' = run /\ started' = 0 /\ UNCHANGED <<marker, dropped, code>>
        BY <1>8, <3>1 DEF ArchiveTrims, TypeOK, Step, Past
      <3>2. ASSUME NEW d \in Marked,
                   marker' = [marker EXCEPT ![d] = 0], dropped' = dropped \cup {d},
                   UNCHANGED <<pc, look, started, code>>
            PROVE  TypeOK' /\ Past'
        <4>1. d \in Day
          BY DEF Marked
        <4> QED
          BY <1>8, <3>2, <4>1 DEF ArchiveTrims, TypeOK, Past
      <3> QED
        BY <1>8, <3>1, <3>2 DEF ArchiveTrims
    <2>2. DayNotLost'
      BY <1>8 DEF ArchiveTrims, TypeOK, Past, DayNotLost, check_archived, Marked
    <2>3. Working'
      BY <1>8 DEF ArchiveTrims, Working
    <2>4. Counted'
      <3> SUFFICES ASSUME pc' = "prune" PROVE Counted'
        BY DEF Counted
      <3>1. look' = run /\ started' = 0 /\ UNCHANGED <<run, config>>
        BY <1>8 DEF ArchiveTrims
      <3>2. TypeOK /\ run \in Nat
        BY DEF TypeOK
      <3>3. Cardinality(StartedSince(run)) \in Nat
        BY <3>2, StartedFinite
      <3>4. StartedSince(run)' = StartedSince(run)
        BY <3>1 DEF StartedSince
      <3> QED
        BY <3>1, <3>2, <3>3, <3>4 DEF Counted, Enough, StartedSince
    <2>5. Removing'
      BY <1>8 DEF ArchiveTrims, Removing
    <2> QED
      BY <2>1, <2>2, <2>3, <2>4, <2>5
  <1>9. CASE ArchiveFails
    BY <1>9 DEF ArchiveFails, Ends, Fault, TypeOK, Step, Past, Working, Counted, Removing,
                DayNotLost, check_archived, Marked
  <1>10. CASE PruneLogs
    <2>1. look' \in 0..MaxRun /\ look' \in Nat /\ look' < look
      BY <1>10, BelowIsLess DEF PruneLogs
    <2>2. TypeOK' /\ Past'
      BY <1>10, <2>1 DEF PruneLogs, TypeOK, Step, Past
    <2>3. DayNotLost'
      BY <1>10 DEF PruneLogs, DayNotLost, check_archived, Marked
    <2>4. Enough(started, look')
      <3>1. /\ Cardinality(StartedSince(look)) \in Nat /\ Cardinality(StartedSince(look')) \in Nat
            /\ Cardinality(StartedSince(look)) <= Cardinality(StartedSince(look'))
        <4>1. TypeOK /\ look \in Nat /\ look' <= look
          BY <2>1 DEF TypeOK
        <4> QED
          BY <2>1, <4>1, StartedFinite, OlderSeesMore
      <3> QED
        BY <1>10, <3>1 DEF PruneLogs, Counted, Enough, TypeOK
    <2>5. Counted'
      <3>1. StartedSince(look)' = StartedSince(look')
        BY <1>10 DEF PruneLogs, StartedSince
      <3>2. Enough(started, look)'
        BY <1>10, <2>1, <2>4, <3>1 DEF PruneLogs, Enough
      <3>3. /\ run \in Nat /\ look \in Nat /\ started \in Nat /\ run' = run
            /\ look <= run /\ started + look <= run
        BY <1>10 DEF PruneLogs, Counted, TypeOK
      <3>4. started' \in {started, started + 1}
        BY <1>10 DEF PruneLogs
      <3>5. look' < run
        BY <2>1, <3>3
      <3>6. started' + look' <= run
        <4>1. started' \in Nat /\ started' <= started + 1
          BY <3>3, <3>4
        <4> QED
          BY <2>1, <3>3, <4>1, CountFits
      <3> QED
        BY <2>1, <3>2, <3>3, <3>5, <3>6 DEF Counted
    <2> QED
      BY <1>10, <2>2, <2>3, <2>5 DEF PruneLogs, Working, Removing
  <1>11. CASE PruneKeeps
    <2>1. look' \in 0..MaxRun /\ look' \in Nat /\ look' < look
      BY <1>11, BelowIsLess DEF PruneKeeps
    <2>2. started + 1 \in 0..MaxRun
      BY <1>11, <2>1 DEF PruneKeeps, Counted, TypeOK
    <2>3. TypeOK' /\ Past'
      <3>1. TypeOK'
        BY <1>11, <2>1, <2>2 DEF PruneKeeps, Fault, NoFault, TypeOK, Step
      <3>2. Past'
        BY <1>11 DEF PruneKeeps, Past
      <3> QED
        BY <3>1, <3>2
    <2>4. DayNotLost'
      BY <1>11 DEF PruneKeeps, DayNotLost, check_archived, Marked
    <2>5. Enough(started + 1, look')
      BY <1>11, <2>1, StillEnough DEF PruneKeeps
    <2>6. Counted'
      <3>1. StartedSince(look)' = StartedSince(look')
        BY <1>11 DEF PruneKeeps, StartedSince
      <3>2. Enough(started, look)'
        BY <1>11, <2>1, <2>5, <3>1 DEF PruneKeeps, Enough
      <3>3. /\ run \in Nat /\ look \in Nat /\ started \in Nat /\ run' = run
            /\ look <= run /\ started + look <= run
        BY <1>11 DEF PruneKeeps, Counted, TypeOK
      <3>4. started' \in {started, started + 1}
        BY <1>11 DEF PruneKeeps
      <3>5. look' < run
        BY <2>1, <3>3
      <3>6. started' + look' <= run
        <4>1. started' \in Nat /\ started' <= started + 1
          BY <3>3, <3>4
        <4> QED
          BY <2>1, <3>3, <4>1, CountFits
      <3> QED
        BY <2>1, <3>2, <3>3, <3>5, <3>6 DEF Counted
    <2> QED
      BY <1>11, <2>3, <2>4, <2>6 DEF PruneKeeps, Working, Removing
  <1>12. CASE PruneRemovesWork
    <2>1. look \in config /\ look # run /\ Cardinality(StartedSince(look)) >= Retain
      BY <1>12, RemovedIsOlder DEF PruneRemovesWork
    <2>2. look >= 1 /\ look < run /\ started + look <= run
      BY <1>12, <2>1 DEF PruneRemovesWork, Counted, TypeOK, Past
    <2>3. TypeOK' /\ Past'
      BY <1>12, <2>1, <2>2 DEF PruneRemovesWork, TypeOK, Step, Past
    <2>4. DayNotLost'
      BY <1>12 DEF PruneRemovesWork, Removable, DayNotLost, check_archived, Marked
    <2>5. Removing'
      BY <1>12, <2>1, <2>2 DEF PruneRemovesWork, Removing, StartedSince, TypeOK
    <2> QED
      BY <1>12, <2>3, <2>4, <2>5 DEF PruneRemovesWork, Working, Counted
  <1>13. CASE PruneRemovalCut
    <2>1. Past' /\ DayNotLost'
      BY <1>13 DEF PruneRemovalCut, Removable, DayNotLost, check_archived, Marked, Past, Ends,
                   TypeOK, Fault
    <2>2. CASE pc' = "prune" /\ LookBelow /\ started' = started + 1
      <3>1. look' \in 0..MaxRun /\ look' \in Nat /\ look' < look
        BY <2>2, BelowIsLess
      <3>2. started + 1 \in 0..MaxRun
        BY <1>13, <3>1 DEF PruneRemovalCut, Counted, TypeOK
      <3>3. code' \in {"none", "ok", "failed"}
        BY <1>13 DEF PruneRemovalCut, TypeOK, Ends
      <3>4. TypeOK'
        BY <1>13, <2>2, <3>1, <3>2, <3>3 DEF PruneRemovalCut, Fault, TypeOK, Step
      <3>5. Enough(started + 1, look')
        BY <1>13, <3>1, StillEnough DEF PruneRemovalCut
      <3>6. Counted'
        <4>1. StartedSince(look)' = StartedSince(look')
          BY <1>13 DEF PruneRemovalCut, StartedSince
        <4>2. Enough(started, look)'
          BY <2>2, <3>5, <4>1 DEF Enough
        <4>3. /\ run \in Nat /\ look \in Nat /\ started \in Nat /\ run' = run
              /\ look <= run /\ started + look <= run
          BY <1>13 DEF PruneRemovalCut, Counted, TypeOK
        <4>4. look' < run /\ started' \in Nat /\ started' <= started + 1
          BY <2>2, <3>1, <4>3
        <4>5. started' + look' <= run
          BY <3>1, <4>3, <4>4, CountFits
        <4>6. look' <= run' /\ look' # run'
          BY <3>1, <4>3, <4>4
        <4>7. started' + look' <= run'
          BY <4>3, <4>5
        <4> QED
          BY <4>2, <4>6, <4>7 DEF Counted
      <3> QED
        BY <2>1, <2>2, <3>4, <3>6 DEF Working, Removing
    <2>3. CASE Ends("none")
      <3>1. TypeOK'
        BY <1>13, <2>3 DEF PruneRemovalCut, Fault, Ends, TypeOK, Step
      <3> QED
        BY <2>1, <2>3, <3>1, IdleKnows DEF Ends
    <2> QED
      BY <1>13, <2>2, <2>3 DEF PruneRemovalCut
  <1>14. CASE PruneRemovesDir
    <2>1. look' \in 0..MaxRun /\ look' \in Nat /\ look' < look
      BY <1>14, BelowIsLess DEF PruneRemovesDir
    <2>2. TypeOK' /\ Past'
      BY <1>14, <2>1 DEF PruneRemovesDir, TypeOK, Step, Past
    <2>3. DayNotLost'
      BY <1>14 DEF PruneRemovesDir, DayNotLost, check_archived, Marked
    <2>4. Cardinality(StartedSince(look)') >= Retain /\ Cardinality(StartedSince(look)') \in Nat
      <3>1. StartedSince(look) \in SUBSET (StartedSince(look)')
        <4>1. ASSUME NEW q \in StartedSince(look) PROVE q \in StartedSince(look)'
          <5>1. q \in config /\ q \in Nat /\ q > look /\ look \in Nat
            BY DEF StartedSince, TypeOK
          <5>2. q \in config' /\ q > look'
            BY <1>14, <2>1, <5>1 DEF PruneRemovesDir
          <5> QED
            BY <5>2 DEF StartedSince
        <4> QED
          BY <4>1
      <3>2. StartedSince(look)' \in SUBSET Run
        BY <2>2 DEF TypeOK, StartedSince
      <3>3. IsFiniteSet(StartedSince(look)')
        <4>1. IsFiniteSet(Run)
          BY FS_Interval
        <4> QED
          BY <3>2, <4>1, FS_Subset
      <3>4. Cardinality(StartedSince(look)) >= Retain /\ Cardinality(StartedSince(look)) \in Nat
        BY <1>14, StartedFinite DEF PruneRemovesDir, Removing
      <3>5. Cardinality(StartedSince(look)') \in Nat
        BY <3>3, FS_CardinalityType
      <3>6. Cardinality(StartedSince(look)) <= Cardinality(StartedSince(look)')
        BY <3>1, <3>3, FS_Subset
      <3> QED
        BY <3>4, <3>5, <3>6
    <2>5. Counted'
      <3>0. /\ run \in Nat /\ look \in Nat /\ started \in Nat /\ run' = run /\ started' = started
            /\ look < run /\ started + look <= run + 1 /\ started > Retain
        BY <1>14 DEF PruneRemovesDir, Removing, TypeOK
      <3>1. /\ started' > Retain /\ started' \in Nat /\ look' \in Nat /\ look' < run'
            /\ started' <= (started - 1) + 1 /\ started - 1 \in Nat /\ (started - 1) + look <= run
        BY <2>1, <3>0
      <3>3. started' + look' <= run'
        BY <2>1, <3>0, <3>1, CountFits
      <3>2. Enough(started, look)'
        BY <2>4, <3>1 DEF Enough
      <3>4. look' <= run' /\ look' # run'
        BY <3>0, <3>1
      <3> QED
        BY <3>2, <3>3, <3>4 DEF Counted
    <2> QED
      BY <1>14, <2>2, <2>3, <2>5 DEF PruneRemovesDir, Working, Removing
  <1>15. CASE PruneEnds
    BY <1>15, IdleKnows DEF PruneEnds, Ends, TypeOK, Step, Past, DayNotLost, check_archived, Marked
  <1>16. CASE Crash
    <2>1. config' \subseteq Run /\ faults' \in 0..MaxFaults
      <3>1. config' \subseteq config /\ faults < MaxFaults /\ faults' = faults + 1
        BY <1>16 DEF Crash, Fault
      <3> QED
        BY <3>1 DEF TypeOK
    <2>4. TypeOK'
      BY <1>16, <2>1 DEF Crash, Ends, TypeOK, Step
    <2>2. Past'
      BY <1>16 DEF Crash, Fault, Ends, Past
    <2>3. DayNotLost'
      BY <1>16 DEF Crash, DayNotLost, check_archived, Marked
    <2> QED
      BY <1>16, <2>2, <2>3, <2>4, IdleKnows DEF Crash, Ends
  <1>17. ASSUME NEW r \in Run, PublishByHand(r) PROVE IInv'
    <2>1. TypeOK'
      BY <1>17 DEF PublishByHand, TypeOK
    <2>2. Past'
      BY <1>17 DEF PublishByHand, TypeOK, Past
    <2>3. DayNotLost'
      BY <1>17 DEF PublishByHand, TypeOK, Past, DayNotLost, check_archived, Marked
    <2> QED
      BY <1>17, <2>1, <2>2, <2>3, IdleKnows DEF PublishByHand
  <1>18. ASSUME NEW r \in Run, ArchiveByHand(r) PROVE IInv'
    <2>1. TypeOK'
      <3>1. marker' \in [Day -> Run \cup {0}]
        BY <1>18 DEF ArchiveByHand, TypeOK
      <3> QED
        BY <1>18, <3>1 DEF ArchiveByHand, TypeOK
    <2>2. Past'
      BY <1>18 DEF ArchiveByHand, TypeOK, Past
    <2>3. DayNotLost'
      BY <1>18 DEF ArchiveByHand, TypeOK, Past, DayNotLost, check_archived, Marked
    <2> QED
      BY <1>18, <2>1, <2>2, <2>3, IdleKnows DEF ArchiveByHand
  <1>19. CASE UNCHANGED vars
    BY <1>19 DEF vars, TypeOK, Past, Working, Counted, Enough, Removing, StartedSince, DayNotLost,
                 check_archived, Marked
  <1> QED
    BY <1>1, <1>2, <1>3, <1>4, <1>5, <1>6, <1>7, <1>8, <1>9, <1>10, <1>11, <1>12, <1>13, <1>14,
       <1>15, <1>16, <1>17, <1>18, <1>19
    DEF Next, Continue, ByHand

\* The inductive invariant holds: with it, what a night may rely on at each step.
THEOREM Invariance == Spec => []IInv
  BY InitIInv, StepIInv, PTL DEF Spec

----------------------------------------------------------------------------
(* What follows.                                                           *)

\* Every variable stays in its range.
THEOREM TypeCorrect == Spec => []TypeOK
  <1>1. IInv => TypeOK
    BY DEF IInv
  <1> QED
    BY <1>1, Invariance, PTL

\* A day whose run a prune removed is archived, or dropped for newer days, or was
\* built again and is still on the work disk (daily_run.sh, the prune).
THEOREM NoDayIsLost == Spec => []DayNotLost
  <1>1. IInv => DayNotLost
    BY DEF IInv
  <1> QED
    BY <1>1, Invariance, PTL

\* No prune takes a run that is among the newest Retain that started.
THEOREM NewestStay == Spec => NewestRunsKept
  <1> DEFINE A == \A r \in (work \ work') \cup (built \ built') :
                      r # run /\ Cardinality(StartedSince(r)) >= Retain
  <1>1. ASSUME IInv, [Next]_vars PROVE [A]_vars
    <2> SUFFICES ASSUME NEW r \in (work \ work') \cup (built \ built')
                 PROVE  r # run /\ Cardinality(StartedSince(r)) >= Retain
      OBVIOUS
    <2>1. \/ PruneRemovesWork
          \/ PruneRemovalCut
      BY <1>1 DEF Next, Continue, ByHand, StartNight, Stage, Launch, Build, Upload, ArchiveTakesOut,
         ArchivePuts, ArchiveTrims, ArchiveFails, PruneLogs, PruneKeeps, PruneRemovesDir, PruneEnds,
         Crash, PublishByHand, ArchiveByHand, runVars, vars
    <2>2. r = look /\ pc = "prune" /\ started >= Retain
      BY <2>1 DEF PruneRemovesWork, PruneRemovalCut
    <2> QED
      BY <1>1, <2>2, RemovedIsOlder
  <1> QED
    BY <1>1, Invariance, PTL DEF Spec, NewestRunsKept

----------------------------------------------------------------------------
(* Nights in order, when only builds fail.                                 *)

\* What WaitingRunCanGo is about: no fault so far, and each night of a later day.
Calm == faults = 0 /\ DaysInOrder

\* The successful runs that wait on the work disk.
Waiting == built \cap work

\* A waiting run that tonight's prune has still to look at.
LookedAtLater(r) == pc = "trim" \/ (pc \in {"prune", "rmdir"} /\ r <= look)

\* A waiting run started and has its directory; only a success is published.
Recorded ==
    /\ Waiting \subseteq config /\ config \subseteq dir /\ listed \subseteq built
    /\ pc \in {"stage", "launch", "build"} => run \in dir \ built
    /\ pc = "build" => run \in config
    /\ pc = "rmdir" => look \notin work

\* A waiting run is published and archived, tonight's once its steps are done.
Safe ==
    \A r \in Waiting :
        /\ r \in listed \/ (r = run /\ pc = "upload")
        /\ dayOf[r] \in Marked \/ (r = run /\ pc \in {"upload", "archive", "put"})

\* An archived day is the day of the published run that its marker names.
Told == \A e \in Marked : marker[e] \in listed /\ dayOf[marker[e]] = e

\* A waiting run has fewer than Retain newer archived days, and tonight's is one more.
FewNewer ==
    \A r \in Waiting :
        /\ Cardinality(Newer(dayOf[r])) <= Retain
        /\ LookedAtLater(r) \/ Cardinality(Newer(dayOf[r])) < Retain

\* Below Retain, the prune's counter has missed no started run.
NoneMissed == pc = "prune" /\ started < Retain => Cardinality(StartedSince(look)) <= started

\* The published runs whose directory went are older than any run that waits, but
\* for those that the same prune is still to look at.
RemovedAreOldest ==
    \A q \in listed \ config : \A r \in Waiting :
        q < r \/ (pc \in {"prune", "rmdir"} /\ started >= Retain /\ r <= look)

CalmInv ==
    /\ Recorded
    /\ Safe
    /\ Told
    /\ FewNewer
    /\ NoneMissed
    /\ RemovedAreOldest

\* The runs there are, as numbers, with their days.
LEMMA RunsAndDays ==
  ASSUME IInv
  PROVE  /\ run \in Nat /\ look \in Nat /\ started \in Nat
         /\ \A r \in 1..run : r \in Run /\ dayOf[r] \in Day /\ dayOf[r] \in Nat
         /\ \A r \in built \cup config \cup dir : r \in 1..run /\ r \in Nat
         /\ \A d \in Day : d \in Nat /\ marker[d] \in Run \cup {0}
         /\ \A d \in Marked : d \in Day /\ d \in Nat /\ marker[d] \in Run
  BY SettingsAssumption DEF IInv, TypeOK, Past, Run, Day, Marked

\* Of two runs, the one of the later day is the later.
LEMMA OrderTells ==
  ASSUME IInv, DaysInOrder, NEW q \in 1..run, NEW r \in 1..run
  PROVE  /\ dayOf[r] < dayOf[q] => r < q
         /\ r < q => dayOf[r] < dayOf[q]
  <1>1. run \in Nat /\ dayOf[q] \in Nat /\ dayOf[r] \in Nat
    BY RunsAndDays
  <1>2. r < q => dayOf[r] < dayOf[q]
    BY <1>1 DEF DaysInOrder
  <1>3. q < r => dayOf[q] < dayOf[r]
    BY <1>1 DEF DaysInOrder
  <1> QED
    BY <1>1, <1>2, <1>3

\* The archived days newer than one are finitely many.
LEMMA NewerFinite ==
  ASSUME NEW d
  PROVE  IsFiniteSet(Newer(d)) /\ Cardinality(Newer(d)) \in Nat
  <1>1. IsFiniteSet(Day)
    BY SettingsAssumption, FS_Interval DEF Day
  <1>2. Newer(d) \in SUBSET Day
    BY DEF Newer, Marked
  <1> QED
    BY <1>1, <1>2, FS_Subset, FS_CardinalityType

\* Taking a day out of the archive leaves no day with more newer ones.
LEMMA NewerShrinks ==
  ASSUME TypeOK, NEW e \in Day, marker' = [marker EXCEPT ![e] = 0], NEW d
  PROVE  Cardinality({x \in Marked' : x > d}) <= Cardinality(Newer(d))
  <1>1. {x \in Marked' : x > d} \in SUBSET Newer(d)
    BY DEF Newer, Marked, TypeOK
  <1> QED
    BY <1>1, NewerFinite, FS_Subset

\* Putting a day into the archive leaves a day with at most one more newer one.
LEMMA NewerGrows ==
  ASSUME TypeOK, NEW e \in Day, NEW q \in Run, marker' = [marker EXCEPT ![e] = q], NEW d
  PROVE  Cardinality({x \in Marked' : x > d}) <= Cardinality(Newer(d)) + 1
  <1>1. {x \in Marked' : x > d} \in SUBSET (Newer(d) \cup {e})
    BY DEF Newer, Marked, TypeOK
  <1>2. IsFiniteSet(Newer(d) \cup {e}) /\ Cardinality(Newer(d) \cup {e}) <= Cardinality(Newer(d)) + 1
    <2>1. IsFiniteSet(Newer(d)) /\ Cardinality(Newer(d)) \in Nat
      BY NewerFinite
    <2>2. /\ IsFiniteSet(Newer(d) \cup {e})
          /\ Cardinality(Newer(d) \cup {e})
                 = IF e \in Newer(d) THEN Cardinality(Newer(d)) ELSE Cardinality(Newer(d)) + 1
      BY <2>1, FS_AddElement
    <2> QED
      BY <2>1, <2>2
  <1>3. Cardinality({x \in Marked' : x > d}) <= Cardinality(Newer(d) \cup {e})
    BY <1>1, <1>2, FS_Subset
  <1>4. Cardinality({x \in Marked' : x > d}) \in Nat /\ Cardinality(Newer(d) \cup {e}) \in Nat
    BY <1>1, <1>2, FS_Subset, FS_CardinalityType
  <1>5. Cardinality(Newer(d)) \in Nat
    BY NewerFinite
  <1> QED
    BY <1>2, <1>3, <1>4, <1>5

\* Tonight's day is newer than every archived day of another run.
LEMMA TonightIsNewest ==
  ASSUME IInv, DaysInOrder, Told, listed \subseteq built, run >= 1
  PROVE  Newer(dayOf[run]) = {}
  <1> SUFFICES ASSUME NEW e \in Marked, e > dayOf[run] PROVE FALSE
    BY DEF Newer
  <1>1. marker[e] \in 1..run /\ dayOf[marker[e]] = e /\ run \in 1..run /\ run \in Nat
    BY RunsAndDays DEF Told
  <1>2. run < marker[e]
    BY <1>1, OrderTells
  <1> QED
    BY <1>1, <1>2

\* A waiting run that the prune keeps as one of the newest Retain has fewer newer
\* archived days than that: they are days of started runs that it has counted.
LEMMA KeptHasFewNewer ==
  ASSUME IInv, CalmInv, DaysInOrder, pc = "prune", look \in Waiting, started < Retain
  PROVE  Cardinality(Newer(dayOf[look])) < Retain
  <1> DEFINE S == Newer(dayOf[look])
             T == StartedSince(look)
             f == [e \in S |-> marker[e]]
  <1>1. look \in 1..run /\ look \in Nat
    BY RunsAndDays DEF Waiting
  <1>2. ASSUME NEW e \in S PROVE marker[e] \in T
    <2>1. e \in Marked /\ e > dayOf[look]
      BY DEF Newer
    <2>2. marker[e] \in listed /\ dayOf[marker[e]] = e /\ marker[e] \in 1..run
      BY <2>1, RunsAndDays DEF CalmInv, Told, Recorded
    <2>3. look < marker[e] /\ marker[e] \in Nat
      BY <1>1, <2>1, <2>2, OrderTells, RunsAndDays
    <2>4. marker[e] \in config
      <3>1. SUFFICES ASSUME marker[e] \in listed \ config PROVE FALSE
        BY <2>2
      <3>2. marker[e] < look \/ started >= Retain
        BY <3>1 DEF CalmInv, RemovedAreOldest
      <3> QED
        BY <1>1, <2>3, <3>2, SettingsAssumption, RunsAndDays
    <2> QED
      BY <2>3, <2>4 DEF StartedSince
  <1>3. \A e \in S : \A d \in S : f[e] = f[d] => e = d
    <2>1. \A e \in S : dayOf[marker[e]] = e
      BY DEF CalmInv, Told, Newer
    <2> QED
      BY <2>1
  <1>4. f \in Injection(S, T)
    <2>1. f \in [S -> T]
      BY <1>2
    <2> HIDE DEF f, S, T
    <2> QED
      BY <1>3, <2>1 DEF Injection, IsInjective
  <1>5. IsFiniteSet(T) /\ Cardinality(T) \in Nat /\ Cardinality(T) <= started
    BY StartedFinite DEF IInv, CalmInv, NoneMissed
  <1>6. Cardinality(S) <= Cardinality(T)
    <2> HIDE DEF f, S, T
    <2> QED
      BY <1>4, <1>5, FS_Injection
  <1>7. Cardinality(S) \in Nat
    BY NewerFinite
  <1> HIDE DEF f, S, T
  <1>8. Cardinality(S) < Retain
    BY <1>5, <1>6, <1>7, SettingsAssumption, RunsAndDays
  <1> QED
    BY <1>8 DEF S

\* What may have been a calm state has come of a calm one.
LEMMA CalmBefore ==
  ASSUME IInv, [Next]_vars, Calm'
  PROVE  Calm
  <1>1. run \in Nat /\ faults \in Nat
    BY RunsAndDays, SettingsAssumption DEF IInv, TypeOK
  <1>2. CASE \E d \in Day : StartNight(d)
    <2>1. faults' = faults /\ run' = run + 1 /\ \A r \in 1..run : dayOf'[r] = dayOf[r]
      <3>1. dayOf \in [Run -> Day \cup {0}] /\ \A r \in 1..run : r # run + 1 /\ r \in Run
        BY <1>1, RunsAndDays DEF IInv, TypeOK
      <3> QED
        BY <1>2, <3>1 DEF StartNight
    <2>2. ASSUME NEW r \in 1..run, NEW q \in 1..(r - 1) PROVE dayOf[q] < dayOf[r]
      <3>1. r \in 1..run' /\ q \in 1..run
        BY <1>1, <2>1
      <3> QED
        BY <2>1, <2>2, <3>1 DEF Calm, DaysInOrder
    <2> QED
      BY <2>1, <2>2 DEF Calm, DaysInOrder
  <1>3. CASE UNCHANGED <<run, dayOf>> /\ faults' \in {faults, faults + 1}
    BY <1>1, <1>3 DEF Calm, DaysInOrder
  <1> QED
    BY <1>2, <1>3 DEF Next, Continue, ByHand, Stage, Launch, Build, Upload, ArchiveTakesOut,
       ArchivePuts, ArchiveTrims, ArchiveFails, PruneLogs, PruneKeeps, PruneRemovesWork,
       PruneRemovalCut, PruneRemovesDir, PruneEnds, Crash, PublishByHand, ArchiveByHand, Fault,
       NoFault, runVars, outsideVars, vars

\* The next run the prune looks at misses none that has a directory.
LEMMA NoneSkipped ==
  ASSUME IInv, LookBelow, NEW r \in dir, r < look
  PROVE  r <= look'
  BY RunsAndDays DEF LookBelow

\* What keeps the archive, the waiting runs and their days keeps the invariant.
LEMMA Undisturbed ==
  ASSUME IInv, CalmInv, UNCHANGED <<built, listed, marker, Waiting>>,
         \A r \in listed \cup Waiting : dayOf'[r] = dayOf[r],
         config \subseteq config', config' \subseteq dir',
         pc \notin {"upload", "archive", "put", "trim", "prune", "rmdir"},
         pc' \notin {"trim", "prune", "rmdir"},
         pc' \in {"stage", "launch", "build"} => run' \in dir' \ built,
         pc' = "build" => run' \in config'
  PROVE  CalmInv'
  <1>0. Marked' = Marked /\ \A d : Newer(d)' = Newer(d)
    BY DEF Newer, Marked
  <1>1. Recorded'
    BY DEF CalmInv, Recorded
  <1>2. Safe'
    BY <1>0 DEF CalmInv, Safe
  <1>3. Told'
    BY <1>0 DEF CalmInv, Told
  <1>4. FewNewer'
    <2>1. ASSUME NEW r \in Waiting
          PROVE  /\ Newer(dayOf[r])' = Newer(dayOf[r])
                 /\ Cardinality(Newer(dayOf[r])) < Retain
                 /\ Cardinality(Newer(dayOf[r])) <= Retain
      BY DEF CalmInv, FewNewer, LookedAtLater, Newer, Marked
    <2> QED
      BY <2>1 DEF FewNewer
  <1>5. NoneMissed' /\ RemovedAreOldest'
    BY DEF CalmInv, NoneMissed, RemovedAreOldest
  <1> QED
    BY <1>1, <1>2, <1>3, <1>4, <1>5 DEF CalmInv

\* A night that starts changes nothing that is waiting or archived.
LEMMA CalmStart ==
  ASSUME IInv, CalmInv, NEW d \in Day, StartNight(d)
  PROVE  CalmInv'
  <1>1. /\ run \in Nat /\ run + 1 \notin 1..run /\ run' = run + 1
        /\ \A r \in built : r \in 1..run
    BY RunsAndDays DEF StartNight
  <1>2. listed \subseteq built /\ Waiting \subseteq built /\ config \subseteq dir /\ run + 1 \in dir'
    BY DEF CalmInv, Recorded, Waiting, StartNight
  <1>3. ASSUME NEW r \in built PROVE dayOf'[r] = dayOf[r]
    BY <1>1 DEF StartNight, IInv, TypeOK
  <1>4. /\ UNCHANGED <<built, listed, marker, Waiting, config>> /\ dir \subseteq dir'
        /\ pc = "idle" /\ pc' = "stage"
    BY DEF StartNight, Waiting, outsideVars
  <1> QED
    BY <1>1, <1>2, <1>3, <1>4, Undisturbed

\* Nor does the staging, whether it fails or not.
LEMMA CalmStage ==
  ASSUME IInv, CalmInv, Stage
  PROVE  CalmInv'
  <1>1. /\ UNCHANGED <<run, dayOf, built, listed, marker, Waiting, config, dir>>
        /\ pc = "stage" /\ pc' \in {"launch", "idle"}
    BY DEF Stage, Goto, Ends, Waiting, runVars, outsideVars
  <1> QED
    BY <1>1, Undisturbed DEF CalmInv, Recorded

\* The launch makes tonight's run a started one.
LEMMA CalmLaunch ==
  ASSUME IInv, CalmInv, Launch
  PROVE  CalmInv'
  <1>1. /\ UNCHANGED <<run, dayOf, built, listed, marker, Waiting, dir>>
        /\ config' = config \cup {run} /\ pc = "launch" /\ pc' = "build"
    BY DEF Launch, Goto, Waiting, outsideVars
  <1> QED
    BY <1>1, Undisturbed DEF CalmInv, Recorded

\* A successful build waits with no newer archived day; a failed one does not wait.
LEMMA CalmBuild ==
  ASSUME IInv, CalmInv, DaysInOrder, Build
  PROVE  CalmInv'
  <1>0. /\ UNCHANGED <<run, dayOf, listed, marker, config, dir>>
        /\ pc = "build" /\ run \in config /\ run \in dir \ built /\ run >= 1
        /\ listed \subseteq built /\ config \subseteq dir /\ Waiting \subseteq config
    BY DEF Build, CalmInv, Recorded, outsideVars, IInv, Past
  <1>1. CASE UNCHANGED built /\ Ends("failed")
    <2>1. UNCHANGED <<built, Waiting>> /\ pc' = "idle"
      BY <1>0, <1>1 DEF Build, Waiting, Ends
    <2> QED
      BY <1>0, <2>1, Undisturbed
  <1>2. CASE work' = work \cup {run} /\ built' = built \cup {run} /\ Goto("upload")
    <2>1. pc' = "upload" /\ \A r \in Waiting' : r \in Waiting \/ r = run
      BY <1>2 DEF Goto, Waiting
    <2>2. Marked' = Marked /\ \A r : Newer(dayOf[r])' = Newer(dayOf[r])
      BY <1>0 DEF Newer, Marked
    <2>3. Recorded'
      BY <1>0, <1>2, <2>1 DEF Recorded
    <2>4. Safe' /\ Told'
      BY <1>0, <2>1, <2>2 DEF CalmInv, Safe, Told
    <2>5. FewNewer'
      <3>1. Newer(dayOf[run]) = {} /\ Cardinality({}) = 0
        BY <1>0, TonightIsNewest, FS_EmptySet DEF CalmInv
      <3>2. ASSUME NEW r \in Waiting
            PROVE  Cardinality(Newer(dayOf[r])) < Retain /\ Cardinality(Newer(dayOf[r])) <= Retain
        BY <1>0 DEF CalmInv, FewNewer, LookedAtLater
      <3>3. Cardinality(Newer(dayOf[run])) < Retain /\ Cardinality(Newer(dayOf[run])) <= Retain
        BY <3>1, SettingsAssumption
      <3> QED
        BY <2>1, <2>2, <3>2, <3>3 DEF FewNewer
    <2>6. NoneMissed'
      BY <2>1 DEF NoneMissed
    <2>7. RemovedAreOldest'
      <3> SUFFICES ASSUME NEW q \in listed \ config, NEW r \in Waiting' PROVE q < r
        BY <1>0 DEF RemovedAreOldest
      <3>1. CASE r \in Waiting
        BY <1>0, <3>1 DEF CalmInv, RemovedAreOldest
      <3>2. CASE r = run
        BY <1>0, <3>2, RunsAndDays
      <3> QED
        BY <2>1, <3>1, <3>2
    <2> QED
      BY <2>3, <2>4, <2>5, <2>6, <2>7 DEF CalmInv
  <1> QED
    BY <1>1, <1>2 DEF Build

\* Without a fault the upload publishes tonight's run.
LEMMA CalmUpload ==
  ASSUME IInv, CalmInv, Upload, NoFault
  PROVE  CalmInv'
  <1>0. /\ UNCHANGED <<run, dayOf, marker, config, dir, built, work, Waiting>>
        /\ listed' = listed \cup {run} /\ pc = "upload" /\ pc' = "archive"
        /\ run \in Waiting /\ faults' = faults /\ faults \in Nat
    BY SettingsAssumption DEF Upload, NoFault, Fault, Goto, IInv, TypeOK, Working, Waiting, runVars
  <1>1. Marked' = Marked /\ \A r : Newer(dayOf[r])' = Newer(dayOf[r])
    BY <1>0 DEF Newer, Marked
  <1>2. Recorded'
    BY <1>0 DEF CalmInv, Recorded, Waiting
  <1>3. Safe' /\ Told'
    BY <1>0, <1>1 DEF CalmInv, Safe, Told
  <1>4. FewNewer'
    <2>1. ASSUME NEW r \in Waiting
          PROVE  Cardinality(Newer(dayOf[r])) < Retain /\ Cardinality(Newer(dayOf[r])) <= Retain
      BY <1>0 DEF CalmInv, FewNewer, LookedAtLater
    <2> QED
      BY <1>0, <1>1, <2>1 DEF FewNewer
  <1>5. NoneMissed' /\ RemovedAreOldest'
    BY <1>0 DEF CalmInv, Recorded, NoneMissed, RemovedAreOldest
  <1> QED
    BY <1>2, <1>3, <1>4, <1>5 DEF CalmInv

\* Taking out tonight's day takes out no other waiting run's.
LEMMA CalmTakesOut ==
  ASSUME IInv, CalmInv, DaysInOrder, ArchiveTakesOut
  PROVE  CalmInv'
  <1>0. /\ UNCHANGED <<run, dayOf, listed, config, dir, built, work, Waiting>>
        /\ marker' = [marker EXCEPT ![dayOf[run]] = 0] /\ pc = "archive" /\ pc' = "put"
        /\ run \in 1..run /\ dayOf[run] \in Day
    BY RunsAndDays DEF ArchiveTakesOut, Goto, Waiting, runVars, IInv, Past, Working
  <1>1. \A d \in Day : d # dayOf[run] => marker'[d] = marker[d]
    BY <1>0 DEF IInv, TypeOK
  <1>2. Marked' = Marked \ {dayOf[run]}
    BY <1>0 DEF Marked, IInv, TypeOK
  <1>3. ASSUME NEW r \in Waiting, r # run PROVE dayOf[r] # dayOf[run]
    <2>1. r \in 1..run /\ r \in Nat /\ run \in Nat /\ dayOf[r] \in Nat /\ dayOf[run] \in Nat
      BY <1>0, RunsAndDays DEF Waiting
    <2>2. r < run
      BY <1>3, <2>1
    <2> QED
      BY <1>0, <2>1, <2>2, OrderTells
  <1>4. Recorded'
    BY <1>0 DEF CalmInv, Recorded
  <1>5. Safe'
    BY <1>0, <1>2, <1>3 DEF CalmInv, Safe
  <1>6. Told'
    BY <1>0, <1>1, <1>2 DEF CalmInv, Told, Marked
  <1>7. FewNewer'
    <2>1. ASSUME NEW r \in Waiting
          PROVE  /\ Cardinality(Newer(dayOf[r])') <= Retain
                 /\ Cardinality(Newer(dayOf[r])') < Retain
      <3>1. Cardinality(Newer(dayOf[r])) < Retain
        BY <1>0 DEF CalmInv, FewNewer, LookedAtLater
      <3>2. Newer(dayOf[r])' = {x \in Marked' : x > dayOf[r]}
        BY <1>0 DEF Newer
      <3>3. Cardinality(Newer(dayOf[r])') <= Cardinality(Newer(dayOf[r]))
        BY <1>0, <3>2, NewerShrinks DEF IInv
      <3>4. Cardinality(Newer(dayOf[r])) \in Nat /\ Cardinality(Newer(dayOf[r])') \in Nat
        <4>1. IsFiniteSet(Newer(dayOf[r]))
          BY NewerFinite
        <4>2. Newer(dayOf[r])' \in SUBSET Newer(dayOf[r])
          BY <1>2, <3>2 DEF Newer
        <4> QED
          BY <4>1, <4>2, FS_Subset, FS_CardinalityType
      <3> QED
        BY <3>1, <3>3, <3>4, SettingsAssumption
    <2> QED
      BY <1>0, <2>1 DEF FewNewer
  <1>8. NoneMissed' /\ RemovedAreOldest'
    BY <1>0 DEF CalmInv, NoneMissed, RemovedAreOldest
  <1> QED
    BY <1>4, <1>5, <1>6, <1>7, <1>8 DEF CalmInv

\* Tonight's archived day is one newer day more for those that wait.
LEMMA CalmPuts ==
  ASSUME IInv, CalmInv, ArchivePuts
  PROVE  CalmInv'
  <1>0. /\ UNCHANGED <<run, dayOf, listed, config, dir, built, work, Waiting>>
        /\ marker' = [marker EXCEPT ![dayOf[run]] = run] /\ pc = "put" /\ pc' = "trim"
        /\ run \in 1..run /\ run \in Run /\ run # 0 /\ dayOf[run] \in Day /\ run \in Waiting
    BY RunsAndDays DEF ArchivePuts, Goto, Waiting, runVars, IInv, Past, Working
  <1>1. \A d \in Day : marker'[d] = IF d = dayOf[run] THEN run ELSE marker[d]
    BY <1>0 DEF IInv, TypeOK
  <1>2. Marked' = Marked \cup {dayOf[run]}
    BY <1>0, <1>1 DEF Marked
  <1>3. Recorded'
    BY <1>0 DEF CalmInv, Recorded
  <1>4. Safe'
    BY <1>0, <1>2 DEF CalmInv, Safe
  <1>5. Told'
    BY <1>0, <1>1, <1>2 DEF CalmInv, Told, Safe, Marked
  <1>6. FewNewer'
    <2>1. ASSUME NEW r \in Waiting PROVE Cardinality(Newer(dayOf[r])') <= Retain
      <3>1. Cardinality(Newer(dayOf[r])) < Retain
        BY <1>0 DEF CalmInv, FewNewer, LookedAtLater
      <3>2. Newer(dayOf[r])' = {x \in Marked' : x > dayOf[r]}
        BY <1>0 DEF Newer
      <3>3. Cardinality(Newer(dayOf[r])') <= Cardinality(Newer(dayOf[r])) + 1
        BY <1>0, <3>2, NewerGrows DEF IInv
      <3>4. Cardinality(Newer(dayOf[r])) \in Nat
        BY NewerFinite
      <3>5. Cardinality(Newer(dayOf[r])') \in Nat
        <4>1. IsFiniteSet(Newer(dayOf[r]) \cup {dayOf[run]})
          BY NewerFinite, FS_AddElement
        <4>2. Newer(dayOf[r])' \in SUBSET (Newer(dayOf[r]) \cup {dayOf[run]})
          BY <1>2, <3>2 DEF Newer
        <4> QED
          BY <4>1, <4>2, FS_Subset, FS_CardinalityType
      <3> QED
        BY <3>1, <3>3, <3>4, <3>5, SettingsAssumption
    <2> QED
      BY <1>0, <2>1 DEF FewNewer, LookedAtLater
  <1>7. NoneMissed' /\ RemovedAreOldest'
    BY <1>0 DEF CalmInv, NoneMissed, RemovedAreOldest
  <1> QED
    BY <1>3, <1>4, <1>5, <1>6, <1>7 DEF CalmInv

\* The trim takes out no waiting run's day, for that has too few newer ones.
LEMMA CalmTrims ==
  ASSUME IInv, CalmInv, ArchiveTrims
  PROVE  CalmInv'
  <1>0. /\ UNCHANGED <<run, dayOf, listed, config, dir, built, work, Waiting>> /\ pc = "trim"
        /\ run \in Nat /\ \A r \in Waiting : r \in 1..run /\ r <= run
    BY RunsAndDays DEF ArchiveTrims, Waiting, runVars
  <1>1. Recorded'
    BY <1>0 DEF CalmInv, Recorded, ArchiveTrims
  <1>2. CASE pc' = "prune" /\ look' = run /\ started' = 0 /\ UNCHANGED marker
    <2>1. Marked' = Marked /\ \A r : Newer(dayOf[r])' = Newer(dayOf[r])
      BY <1>0, <1>2 DEF Newer, Marked
    <2>2. Safe' /\ Told'
      BY <1>0, <1>2, <2>1 DEF CalmInv, Safe, Told
    <2>3. FewNewer'
      <3>1. \A r \in Waiting : LookedAtLater(r)'
        BY <1>0, <1>2 DEF LookedAtLater
      <3>2. \A r \in Waiting : Cardinality(Newer(dayOf[r])') <= Retain
        BY <2>1 DEF CalmInv, FewNewer
      <3> QED
        BY <1>0, <3>1, <3>2 DEF FewNewer
    <2>4. NoneMissed'
      <3>1. StartedSince(look)' = {}
        <4>1. \A q \in config : ~(q > run)
          BY <1>0, RunsAndDays
        <4> QED
          BY <1>0, <1>2, <4>1 DEF StartedSince
      <3> QED
        BY <1>2, <3>1, FS_EmptySet DEF NoneMissed
    <2>5. RemovedAreOldest'
      BY <1>0 DEF CalmInv, RemovedAreOldest
    <2> QED
      BY <1>1, <2>2, <2>3, <2>4, <2>5 DEF CalmInv
  <1>3. ASSUME NEW d \in Marked, Cardinality(Newer(d)) >= ArchiveDays,
               marker' = [marker EXCEPT ![d] = 0], pc' = pc
        PROVE  CalmInv'
    <2>0. d \in Day /\ Marked' = Marked \ {d} /\ \A e \in Marked' : marker'[e] = marker[e]
      BY <1>3 DEF Marked, IInv, TypeOK
    <2>1. ASSUME NEW r \in Waiting PROVE dayOf[r] # d
      <3>1. Cardinality(Newer(dayOf[r])) <= Retain /\ Cardinality(Newer(dayOf[r])) \in Nat
        BY NewerFinite DEF CalmInv, FewNewer
      <3> QED
        BY <1>3, <3>1, SettingsAssumption
    <2>2. Safe'
      BY <1>0, <1>3, <2>0, <2>1 DEF CalmInv, Safe
    <2>3. Told'
      BY <1>0, <2>0 DEF CalmInv, Told
    <2>4. FewNewer'
      <3>1. ASSUME NEW r \in Waiting PROVE Cardinality(Newer(dayOf[r])') <= Retain
        <4>1. Cardinality(Newer(dayOf[r])) <= Retain
          BY DEF CalmInv, FewNewer
        <4>2. Newer(dayOf[r])' = {x \in Marked' : x > dayOf[r]}
          BY <1>0 DEF Newer
        <4>3. Cardinality(Newer(dayOf[r])') <= Cardinality(Newer(dayOf[r]))
          BY <1>3, <2>0, <4>2, NewerShrinks DEF IInv
        <4>4. Cardinality(Newer(dayOf[r])) \in Nat /\ Cardinality(Newer(dayOf[r])') \in Nat
          <5>1. IsFiniteSet(Newer(dayOf[r]))
            BY NewerFinite
          <5>2. Newer(dayOf[r])' \in SUBSET Newer(dayOf[r])
            BY <2>0, <4>2 DEF Newer
          <5> QED
            BY <5>1, <5>2, FS_Subset, FS_CardinalityType
        <4> QED
          BY <4>1, <4>3, <4>4, SettingsAssumption
      <3> QED
        BY <1>0, <1>3, <3>1 DEF FewNewer, LookedAtLater
    <2>5. NoneMissed' /\ RemovedAreOldest'
      BY <1>0, <1>3 DEF CalmInv, NoneMissed, RemovedAreOldest
    <2> QED
      BY <1>1, <2>2, <2>3, <2>4, <2>5 DEF CalmInv
  <1> QED
    BY <1>2, <1>3 DEF ArchiveTrims

\* What the prune keeps in going past a run it does not remove.
LEMMA CalmPasses ==
  ASSUME IInv, CalmInv, LookBelow, pc = "prune", pc' = "prune",
         UNCHANGED <<run, dayOf, listed, config, built, work, marker>>,
         config \subseteq dir', started' \in Nat,
         started' < Retain => started < Retain,
         started < Retain => Cardinality(StartedSince(look')) <= started',
         look \in Waiting => started < Retain /\ Cardinality(Newer(dayOf[look])) < Retain
  PROVE  CalmInv'
  <1>0. /\ UNCHANGED Waiting /\ run \in Nat /\ look \in Nat /\ started \in Nat /\ Retain \in Nat
        /\ look' \in Nat /\ look' < look
        /\ \A r \in Waiting : r \in dir /\ r \in Nat
    BY RunsAndDays, BelowIsLess, SettingsAssumption DEF Waiting, CalmInv, Recorded, IInv
  <1>1. \A r \in Waiting : r < look => r <= look'
    BY <1>0, NoneSkipped
  <1>2. Marked' = Marked /\ \A r : Newer(dayOf[r])' = Newer(dayOf[r])
    BY DEF Newer, Marked
  <1>3. Recorded'
    BY <1>0 DEF CalmInv, Recorded
  <1>4. Safe' /\ Told'
    BY <1>0, <1>2 DEF CalmInv, Safe, Told
  <1>5. FewNewer'
    <2>1. ASSUME NEW r \in Waiting
          PROVE  /\ Cardinality(Newer(dayOf[r])) <= Retain
                 /\ r <= look' \/ Cardinality(Newer(dayOf[r])) < Retain
      <3>1. CASE r < look
        BY <1>1, <3>1 DEF CalmInv, FewNewer
      <3>2. CASE r = look
        BY <3>2 DEF CalmInv, FewNewer
      <3>3. CASE r > look
        BY <1>0, <3>3 DEF CalmInv, FewNewer, LookedAtLater
      <3> QED
        BY <1>0, <3>1, <3>2, <3>3
    <2> QED
      BY <1>0, <1>2, <2>1 DEF FewNewer, LookedAtLater
  <1>6. NoneMissed'
    <2>1. StartedSince(look)' = StartedSince(look')
      BY DEF StartedSince
    <2> QED
      BY <2>1 DEF NoneMissed
  <1>7. RemovedAreOldest'
    <2> SUFFICES ASSUME NEW q \in listed \ config, NEW r \in Waiting, ~(q < r)
                 PROVE  started' >= Retain /\ r <= look'
      BY <1>0 DEF RemovedAreOldest
    <2>1. started >= Retain /\ r <= look
      BY DEF CalmInv, RemovedAreOldest
    <2>2. r # look
      BY <1>0, <2>1
    <2> QED
      BY <1>0, <1>1, <2>1, <2>2
  <1> QED
    BY <1>3, <1>4, <1>5, <1>6, <1>7 DEF CalmInv

\* Going past a run adds at most that run to the started ones behind.
LEMMA NoMoreBehind ==
  ASSUME IInv, LookBelow, config \subseteq dir
  PROVE  /\ Cardinality(StartedSince(look')) <= Cardinality(StartedSince(look)) + 1
         /\ look \notin config => Cardinality(StartedSince(look')) <= Cardinality(StartedSince(look))
  <1>1. StartedSince(look') \in SUBSET (StartedSince(look) \cup (config \cap {look}))
    <2>1. ASSUME NEW q \in config, q > look' PROVE q >= look
      BY <2>1, NoneSkipped, RunsAndDays, BelowIsLess DEF IInv
    <2> QED
      BY <2>1, RunsAndDays DEF StartedSince
  <1>2. IsFiniteSet(StartedSince(look)) /\ Cardinality(StartedSince(look)) \in Nat
    BY StartedFinite DEF IInv
  <1>3. /\ IsFiniteSet(StartedSince(look) \cup {look})
        /\ Cardinality(StartedSince(look) \cup {look}) <= Cardinality(StartedSince(look)) + 1
    BY <1>2, FS_AddElement
  <1>4. CASE look \in config
    <2>1. StartedSince(look') \in SUBSET (StartedSince(look) \cup {look})
      BY <1>1
    <2>2. /\ Cardinality(StartedSince(look')) <= Cardinality(StartedSince(look) \cup {look})
          /\ Cardinality(StartedSince(look')) \in Nat
          /\ Cardinality(StartedSince(look) \cup {look}) \in Nat
      BY <1>3, <2>1, FS_Subset, FS_CardinalityType
    <2> QED
      BY <1>2, <1>3, <1>4, <2>2
  <1>5. CASE look \notin config
    <2>1. StartedSince(look') \in SUBSET StartedSince(look)
      BY <1>1, <1>5
    <2>2. /\ Cardinality(StartedSince(look')) <= Cardinality(StartedSince(look))
          /\ Cardinality(StartedSince(look')) \in Nat
      BY <1>2, <2>1, FS_Subset, FS_CardinalityType
    <2> QED
      BY <1>2, <2>2
  <1> QED
    BY <1>4, <1>5

\* A directory of logs only is no started run and no waiting one.
LEMMA CalmLogs ==
  ASSUME IInv, CalmInv, PruneLogs
  PROVE  CalmInv'
  <1>0. /\ UNCHANGED <<run, dayOf, listed, config, built, work, marker, started>> /\ LookBelow
        /\ pc = "prune" /\ pc' = "prune" /\ look \notin config
        /\ started \in Nat /\ config \subseteq dir /\ Waiting \subseteq config
    BY RunsAndDays DEF PruneLogs, outsideVars, CalmInv, Recorded
  <1>1. config \subseteq dir'
    BY <1>0 DEF PruneLogs
  <1>2. started < Retain => Cardinality(StartedSince(look')) <= started
    <2>1. Cardinality(StartedSince(look')) <= Cardinality(StartedSince(look))
      BY <1>0, NoMoreBehind
    <2>2. Cardinality(StartedSince(look)) \in Nat /\ Cardinality(StartedSince(look')) \in Nat
      BY StartedFinite DEF IInv
    <2> QED
      BY <1>0, <2>1, <2>2 DEF CalmInv, NoneMissed
  <1> QED
    BY <1>0, <1>1, <1>2, CalmPasses

\* With no fault, the prune keeps a waiting run only among the newest Retain.
LEMMA CalmKeeps ==
  ASSUME IInv, CalmInv, DaysInOrder, PruneKeeps, NoFault
  PROVE  CalmInv'
  <1>0. /\ UNCHANGED <<run, dayOf, dir, listed, config, built, work, marker>> /\ LookBelow
        /\ pc = "prune" /\ pc' = "prune" /\ started' = started + 1
        /\ started \in Nat /\ config \subseteq dir /\ Retain \in Nat
    BY RunsAndDays, SettingsAssumption
       DEF PruneKeeps, outsideVars, runVars, CalmInv, Recorded
  <1>1. started < Retain \/ ~Removable(look)
    BY SettingsAssumption DEF PruneKeeps, Fault, NoFault, IInv, TypeOK
  <1>2. ASSUME look \in Waiting PROVE started < Retain /\ Cardinality(Newer(dayOf[look])) < Retain
    <2>1. Removable(look)
      BY <1>0, <1>2 DEF Removable, check_archived, Waiting, CalmInv, Safe
    <2> QED
      BY <1>0, <1>1, <1>2, <2>1, KeptHasFewNewer
  <1>3. started < Retain => Cardinality(StartedSince(look')) <= started'
    <2>1. Cardinality(StartedSince(look')) <= Cardinality(StartedSince(look)) + 1
      BY <1>0, NoMoreBehind
    <2>2. Cardinality(StartedSince(look)) \in Nat /\ Cardinality(StartedSince(look')) \in Nat
      BY StartedFinite DEF IInv
    <2> QED
      BY <1>0, <2>1, <2>2 DEF CalmInv, NoneMissed
  <1>4. config \subseteq dir' /\ started' \in Nat /\ (started' < Retain => started < Retain)
    BY <1>0
  <1> QED
    BY <1>0, <1>2, <1>3, <1>4, CalmPasses

\* A run whose work directory goes waits no more.
LEMMA CalmRemovesWork ==
  ASSUME IInv, CalmInv, PruneRemovesWork
  PROVE  CalmInv'
  <1>0. /\ UNCHANGED <<run, dayOf, dir, listed, config, built, marker, look>>
        /\ pc = "prune" /\ pc' = "rmdir" /\ started' = started + 1 /\ started \in Nat
        /\ Waiting' \subseteq Waiting /\ Retain \in Nat /\ started >= Retain /\ look \notin work'
    BY RunsAndDays, SettingsAssumption DEF PruneRemovesWork, outsideVars, Waiting
  <1>1. Marked' = Marked /\ \A r : Newer(dayOf[r])' = Newer(dayOf[r])
    BY <1>0 DEF Newer, Marked
  <1>2. Recorded'
    BY <1>0 DEF CalmInv, Recorded
  <1>3. Safe' /\ Told'
    BY <1>0, <1>1 DEF CalmInv, Safe, Told
  <1>4. FewNewer'
    BY <1>0, <1>1 DEF CalmInv, FewNewer, LookedAtLater
  <1>5. NoneMissed' /\ RemovedAreOldest'
    BY <1>0 DEF CalmInv, NoneMissed, RemovedAreOldest
  <1> QED
    BY <1>2, <1>3, <1>4, <1>5 DEF CalmInv

\* A run whose directory goes is older than those kept before it in this prune.
LEMMA CalmRemovesDir ==
  ASSUME IInv, CalmInv, PruneRemovesDir
  PROVE  CalmInv'
  <1>0. /\ UNCHANGED <<run, dayOf, listed, built, work, marker, started, Waiting>> /\ LookBelow
        /\ dir' = dir \ {look} /\ config' = config \ {look}
        /\ pc = "rmdir" /\ pc' = "prune" /\ look \in Nat /\ look' \in Nat /\ look' < look
        /\ started \in Nat /\ Retain \in Nat /\ started >= Retain
        /\ look \notin Waiting /\ \A r \in Waiting : r \in dir /\ r \in Nat
    BY RunsAndDays, BelowIsLess, SettingsAssumption
       DEF PruneRemovesDir, outsideVars, Waiting, IInv, Removing, CalmInv, Recorded
  <1>1. \A r \in Waiting : r <= look => r <= look'
    BY <1>0, NoneSkipped
  <1>2. Marked' = Marked /\ \A r : Newer(dayOf[r])' = Newer(dayOf[r])
    BY <1>0 DEF Newer, Marked
  <1>3. Recorded'
    BY <1>0 DEF CalmInv, Recorded
  <1>4. Safe' /\ Told'
    BY <1>0, <1>2 DEF CalmInv, Safe, Told
  <1>5. FewNewer'
    <2>1. ASSUME NEW r \in Waiting
          PROVE  /\ Cardinality(Newer(dayOf[r])) <= Retain
                 /\ r <= look' \/ Cardinality(Newer(dayOf[r])) < Retain
      BY <1>0, <1>1 DEF CalmInv, FewNewer, LookedAtLater
    <2> QED
      BY <1>0, <1>2, <2>1 DEF FewNewer, LookedAtLater
  <1>6. NoneMissed'
    BY <1>0 DEF NoneMissed
  <1>7. RemovedAreOldest'
    <2> SUFFICES ASSUME NEW q \in listed, q \notin config \/ q = look, NEW r \in Waiting, ~(q < r)
                 PROVE  r <= look'
      BY <1>0 DEF RemovedAreOldest
    <2>1. r <= look
      BY <1>0 DEF CalmInv, RemovedAreOldest
    <2> QED
      BY <1>1, <2>1
  <1> QED
    BY <1>3, <1>4, <1>5, <1>6, <1>7 DEF CalmInv

\* At its end the prune has looked at every waiting run.
LEMMA CalmEnds ==
  ASSUME IInv, CalmInv, PruneEnds
  PROVE  CalmInv'
  <1>0. /\ UNCHANGED <<run, dayOf, dir, listed, config, built, work, marker, Waiting>>
        /\ pc = "prune" /\ pc' = "idle" /\ look = 0
        /\ \A r \in Waiting : r \in Nat /\ ~(r <= look)
    BY RunsAndDays DEF PruneEnds, Ends, outsideVars, runVars, Waiting
  <1>1. Marked' = Marked /\ \A r : Newer(dayOf[r])' = Newer(dayOf[r])
    BY <1>0 DEF Newer, Marked
  <1>2. Recorded' /\ Told'
    BY <1>0, <1>1 DEF CalmInv, Recorded, Told
  <1>3. Safe'
    BY <1>0, <1>1 DEF CalmInv, Safe
  <1>4. FewNewer'
    BY <1>0, <1>1 DEF CalmInv, FewNewer, LookedAtLater
  <1>5. NoneMissed' /\ RemovedAreOldest'
    BY <1>0 DEF CalmInv, NoneMissed, RemovedAreOldest
  <1> QED
    BY <1>2, <1>3, <1>4, <1>5 DEF CalmInv

\* Nothing waits to be published or archived by hand.
LEMMA NothingByHand ==
  ASSUME IInv, CalmInv, NEW r \in Run
  PROVE  ~PublishByHand(r) /\ ~ArchiveByHand(r)
  BY DEF PublishByHand, ArchiveByHand, CalmInv, Safe, Waiting, check_archived

\* Every step of a calm state keeps what calm nights know.
LEMMA CalmStep ==
  ASSUME IInv, Calm => CalmInv, [Next]_vars
  PROVE  Calm' => CalmInv'
  <1> SUFFICES ASSUME Calm' PROVE CalmInv'
    OBVIOUS
  <1>1. Calm /\ CalmInv /\ DaysInOrder /\ faults = 0 /\ faults' = 0
    BY CalmBefore DEF Calm
  <1>2. ~Fault
    BY <1>1 DEF Fault
  <1>3. CASE \E d \in Day : StartNight(d)
    BY <1>1, <1>3, CalmStart
  <1>4. CASE Stage \/ Launch \/ Build
    BY <1>1, <1>4, CalmStage, CalmLaunch, CalmBuild
  <1>5. CASE Upload
    <2>1. NoFault
      BY <1>2, <1>5 DEF Upload
    <2> QED
      BY <1>1, <1>5, <2>1, CalmUpload
  <1>6. CASE ArchiveTakesOut \/ ArchivePuts \/ ArchiveTrims
    BY <1>1, <1>6, CalmTakesOut, CalmPuts, CalmTrims
  <1>7. CASE PruneKeeps
    <2>1. NoFault
      BY <1>2, <1>7 DEF PruneKeeps
    <2> QED
      BY <1>1, <1>7, <2>1, CalmKeeps
  <1>8. CASE PruneLogs \/ PruneRemovesWork \/ PruneRemovesDir \/ PruneEnds
    BY <1>1, <1>8, CalmLogs, CalmRemovesWork, CalmRemovesDir, CalmEnds
  <1>9. ~ArchiveFails /\ ~PruneRemovalCut /\ ~Crash
    BY <1>2 DEF ArchiveFails, PruneRemovalCut, Crash
  <1>10. ~ByHand
    BY <1>1, NothingByHand DEF ByHand
  <1>11. CASE UNCHANGED vars
    BY <1>1, <1>11
       DEF vars, runVars, outsideVars, CalmInv, Recorded, Safe, Told, FewNewer, LookedAtLater,
           NoneMissed, RemovedAreOldest, Waiting, Newer, Marked, StartedSince
  <1> QED
    BY <1>3, <1>4, <1>5, <1>6, <1>7, <1>8, <1>9, <1>10, <1>11 DEF Next, Continue

\* The archive keeps a day as long as its run waits on the work disk: with the nights'
\* days in order and nothing but builds failing, every published run that a night of
\* exit code 0 leaves has its day in the archive (daily_run.sh: ARCHIVE_DAYS more than
\* RETAIN, and the trim before the prune).
THEOREM WaitingRunsCanGo == Spec => []WaitingRunCanGo
  <1>1. Init => (Calm => CalmInv)
    BY FS_EmptySet DEF Init, CalmInv, Recorded, Safe, Told, FewNewer, NoneMissed,
                       RemovedAreOldest, Waiting, Marked
  <1>2. IInv /\ (Calm => CalmInv) /\ [Next]_vars => (Calm' => CalmInv')
    BY CalmStep
  <1>3. IInv /\ (Calm => CalmInv) => WaitingRunCanGo
    <2> SUFFICES ASSUME CalmInv, pc = "idle" PROVE WaitingRunsArchived
      BY DEF WaitingRunCanGo, Calm
    <2> QED
      BY DEF CalmInv, Recorded, Safe, Waiting, WaitingRunsArchived, check_archived
  <1> QED
    BY <1>1, <1>2, <1>3, Invariance, PTL DEF Spec
============================================================================
