---- MODULE MCLauncher ----
(* Launcher as the runs check it: every parameter is given in the cfg. *)
EXTENDS Launcher
====
