---------------------------- MODULE MCFileLock ------------------------------
(* FileLock for TLC: processes and inodes as model values.  No symmetry,    *)
(* because the run checks liveness.                                         *)
EXTENDS FileLock
=============================================================================
