----------------------------- MODULE SharedLock -----------------------------
(***************************************************************************)
(* What an advisory reader/writer lock promises to the processes that use  *)
(* it: any number of shared holders or one exclusive holder.  FileLock is  *)
(* shown to implement it.                                                  *)
(***************************************************************************)

CONSTANT Proc

VARIABLE holding    \* holding[p]: how p holds the lock, "none" if it does not

Mode == {"shared", "exclusive"}

Compatible(m, n) == m = "shared" /\ n = "shared"

Init == holding = [p \in Proc |-> "none"]

Acquire(p, m) ==
    /\ holding[p] = "none"
    /\ \A q \in Proc \ {p} : holding[q] = "none" \/ Compatible(m, holding[q])
    /\ holding' = [holding EXCEPT ![p] = m]

\* A release, the death of the holder, or the loss of the lock: any set of
\* holders may cease to hold in one step.
Drop(S) ==
    holding' = [p \in Proc |-> IF p \in S THEN "none" ELSE holding[p]]

Next ==
    \/ \E p \in Proc, m \in Mode : Acquire(p, m)
    \/ \E S \in SUBSET Proc : Drop(S)

Spec == Init /\ [][Next]_holding

=============================================================================
