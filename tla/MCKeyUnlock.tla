---------------------------- MODULE MCKeyUnlock -----------------------------
(* KeyUnlock for TLC: keys, tokens and tasks are interchangeable. *)
EXTENDS KeyUnlock, TLC

MCSymmetry ==
    Permutations(Key) \cup Permutations(Token) \cup Permutations(Task)

=============================================================================
