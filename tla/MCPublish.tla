----------------------------- MODULE MCPublish -----------------------------
(* Publish on small instances: two runs of one day, and two runs of two.   *)
EXTENDS Publish, TLC

CONSTANTS r1, r2, d1, d2

SameDay == (r1 :> d1) @@ (r2 :> d1)
TwoDays == (r1 :> d1) @@ (r2 :> d2)

RunSymmetry == Permutations({r1, r2})
============================================================================
