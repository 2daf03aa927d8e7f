----------------------------- MODULE MCArchive -----------------------------
(* Archive on small instances: two runs of day 1, and one of day 2.        *)
EXTENDS Archive, TLC

CONSTANTS r1, r2, r3

ThreeRuns == (r1 :> 1) @@ (r2 :> 1) @@ (r3 :> 2)
============================================================================
