---------------------------- MODULE MCVaultCards ----------------------------
(* The vault file and the cards for TLC.  They share no state, so a         *)
(* behaviour is of one of them and the other stays as it began; `part` says *)
(* which.  Every failure of the file may happen.                            *)
EXTENDS VaultFile, MCSmartcard

MCFaults == Fault

VARIABLE part
partVars == <<vars, cardVars, part>>

PartInit ==
    /\ Init /\ CardInit
    /\ part \in {"file", "card"}
    /\ part = "file" => inserted = c1
    /\ part = "card" => posix

FilePart(A) == part = "file" /\ A /\ UNCHANGED <<cardVars, part>>
CardPart(A) == part = "card" /\ A /\ UNCHANGED <<vars, part>>

\* The fairness of FairSpec and of CardFairSpec.
PartFairSpec ==
    /\ PartInit /\ [][FilePart(Next) \/ CardPart(CardNext)]_partVars
    /\ \A t \in Task : WF_partVars(FilePart(Continue(t)))
    /\ \A j \in Job : WF_partVars(CardPart(Worker(j)))
    /\ WF_partVars(CardPart(UnwrapSlot \/ GiveUp))
=============================================================================
