--------------------------- MODULE MCAtomicWrite ----------------------------
(* AtomicWrite for TLC: the calls are interchangeable model values. *)
EXTENDS AtomicWrite, TLC

MCSymmetry == Permutations(Writer)

=============================================================================
