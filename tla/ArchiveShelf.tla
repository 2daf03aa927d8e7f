---------------------------- MODULE ArchiveShelf ---------------------------
(***************************************************************************)
(* What the local archive promises a reader who reads only the days whose  *)
(* marker exists: a day appears in one step, whole, as the copy of one run *)
(* of that day; while it is there it does not change; it leaves in one     *)
(* step, and another run's copy never shows through it.                    *)
(***************************************************************************)
CONSTANTS Run, Day, DayOf, RunFile, Part

VARIABLE shelf  \* what can be read of each day

Copy(r) == {<<r, f, "whole">> : f \in RunFile \cup Part}

Init == shelf = [d \in Day |-> {}]

PutDay(r) ==
    /\ shelf[DayOf[r]] = {}
    /\ shelf' = [shelf EXCEPT ![DayOf[r]] = Copy(r)]

TakeDay(d) ==
    /\ shelf[d] # {}
    /\ shelf' = [shelf EXCEPT ![d] = {}]

Next == (\E r \in Run : PutDay(r)) \/ (\E d \in Day : TakeDay(d))

Spec == Init /\ [][Next]_shelf
============================================================================
