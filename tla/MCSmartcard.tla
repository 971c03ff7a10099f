---------------------------- MODULE MCSmartcard -----------------------------
(* Smartcard for TLC: an empty card and one with a key, one key on disk.    *)
EXTENDS Smartcard

CONSTANTS c1, c2, k1, k2, g1, g2, sig, enc

\* Card c1 holds k1 in one slot (k2 is on disk); card c2 is empty.
MCHeld == [c \in Card |-> [s \in Slot |-> IF c = c1 /\ s = sig THEN k1 ELSE NoKey]]
=============================================================================
