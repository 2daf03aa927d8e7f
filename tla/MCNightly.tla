----------------------------- MODULE MCNightly -----------------------------
(* Nightly on small instances; its constants are all numbers.              *)
EXTENDS Nightly
============================================================================
