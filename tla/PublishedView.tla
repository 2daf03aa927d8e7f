--------------------------- MODULE PublishedView ---------------------------
(***************************************************************************)
(* What publishing promises a reader who waits for index.json or for a     *)
(* day's marker before reading: a run's folder, and a day's tables, appear *)
(* in one step, whole, and stay as they are.  A day's tables are those of  *)
(* one run of the day.                                                     *)
(***************************************************************************)
CONSTANTS Run, Day, DayOf, RunFile, Part

VARIABLES
    runs,  \* what can be read in each run's folder
    days   \* what can be read of each day's tables

Init ==
    /\ runs = [r \in Run |-> {}]
    /\ days = [d \in Day |-> {}]

WholeRun    == {<<f, "whole">> : f \in RunFile}
WholeDay(r) == {<<r, p, "whole">> : p \in Part}

PublishRun(r) ==
    /\ runs[r] = {}
    /\ runs' = [runs EXCEPT ![r] = WholeRun]
    /\ UNCHANGED days

PublishDay(r) ==
    /\ days[DayOf[r]] = {}
    /\ days' = [days EXCEPT ![DayOf[r]] = WholeDay(r)]
    /\ UNCHANGED runs

Next == \E r \in Run : PublishRun(r) \/ PublishDay(r)

Spec == Init /\ [][Next]_<<runs, days>>
============================================================================
