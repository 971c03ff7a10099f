--------------------------- MODULE DurableRegister --------------------------
(***************************************************************************)
(* What an atomic file write promises: readers see whole values only, and  *)
(* a power loss may take back the newest values, never one that has been   *)
(* confirmed to be on disk.                                                *)
(***************************************************************************)
EXTENDS Naturals, Sequences

CONSTANT Value

VARIABLES
    log,        \* the values the register has had, oldest first
    confirmed   \* log[confirmed] and what is before it are on disk

rvars == <<log, confirmed>>

Init == log \in [1..1 -> Value] /\ confirmed = 1

Write(v) == log' = Append(log, v) /\ UNCHANGED confirmed

Confirm == confirmed' = Len(log) /\ UNCHANGED log

PowerLoss ==
    \E n \in confirmed..Len(log) :
        log' = SubSeq(log, 1, n) /\ confirmed' = n

Next == (\E v \in Value : Write(v)) \/ Confirm \/ PowerLoss

Spec == Init /\ [][Next]_rvars

=============================================================================
