---------------------------- MODULE MCAuditLog ------------------------------
(* AuditLog for TLC: the instances are interchangeable model values. *)
EXTENDS AuditLog, TLC

MCSymmetry == Permutations(Proc)

=============================================================================
