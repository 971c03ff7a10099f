---------------------------- MODULE MCVaultPages ----------------------------
(* The two vault pages for TLC.  They share no state, so a behaviour is of  *)
(* one of them and the other stays as it began; `part` says which.  Damaged *)
(* and undamaged vaults are model values.  No symmetry, because of the      *)
(* liveness property.                                                       *)
EXTENDS MCVaultExport, VaultImport

VARIABLE part
pagesVars == <<vars, wizardVars, part>>

PagesInit ==
    /\ Init /\ WizardInit
    /\ part \in {"export", "import"}
    /\ part = "import" => bound = CHOOSE b \in Bounds : TRUE

ExportPage == part = "export" /\ Next /\ UNCHANGED <<wizardVars, part>>
ImportPage == part = "import" /\ WizardNext /\ UNCHANGED <<vars, part>>
Deliveries ==
    /\ part = "import"
    /\ \E j \in previews \cup imports : Deliver(j)
    /\ UNCHANGED <<vars, part>>

\* The fairness of WizardFairSpec.
PagesFairSpec ==
    /\ PagesInit /\ [][ExportPage \/ ImportPage]_pagesVars
    /\ WF_pagesVars(Deliveries)
=============================================================================
