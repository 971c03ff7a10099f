----------------------------- MODULE MCStartup ------------------------------
(* Startup for TLC: paths, contents and instances as model values.  No      *)
(* symmetry, because the run checks liveness.                               *)
EXTENDS Startup
=============================================================================
