---------------------------- MODULE MCMessageRun ----------------------------
(* The message pages, and one run of gpg below them, for TLC.  A page sees  *)
(* of a run only its result, so a behaviour is of the pages or of the run   *)
(* and the other stays as it began; `part` says which.                      *)
EXTENDS MCMessages, GpgRun

VARIABLE part
partVars == <<vars, runVars, part>>

PartInit ==
    /\ Init /\ RunInit
    /\ part \in {"pages", "gpg"}
    /\ part = "pages" => call = [op |-> "encrypt", msg |-> <<>>, pass |-> FALSE]
    /\ part = "gpg" => tab = "encrypt" /\ seconds = 0

PagesPart(A) == part = "pages" /\ A /\ UNCHANGED <<runVars, part>>
RunPart(A) == part = "gpg" /\ A /\ UNCHANGED <<vars, part>>

\* The fairness of FairSpec and of RunFairSpec.
PartFairSpec ==
    /\ PartInit /\ [][PagesPart(Next) \/ RunPart(RunNext)]_partVars
    /\ WF_partVars(PagesPart(OutputTimeout))
    /\ WF_partVars(PagesPart(\E i \in DOMAIN pending : ClearTimeout(i)))
    /\ \A w \in Worker : WF_partVars(PagesPart(Operation(w)))
    /\ WF_partVars(RunPart(MainStep)) /\ WF_partVars(RunPart(Reader))
    /\ WF_partVars(RunPart(Writer))
=============================================================================
