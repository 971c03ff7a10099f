---------------------------- MODULE VaultImport -----------------------------
(***************************************************************************)
(* ui/vault/vault_import_view.py: the wizard that previews a vault, lets   *)
(* the user select keys and imports them.  Previews and imports run on     *)
(* worker threads; their results are delivered to the GUI thread one at a  *)
(* time, on whatever page the wizard is by then.                           *)
(*                                                                         *)
(* The vault files do not change here (VaultFile is about that), and all   *)
(* of them have the passphrase "right".  QWizard is modelled by what it    *)
(* does for this view: next() validates the current page and initialises   *)
(* the following one, back() does neither, a warning box blocks the user   *)
(* but not the delivery of results.                                        *)
(*                                                                         *)
(* The names of the specification begin with Wizard, so that one module    *)
(* can extend this one and VaultExport.                                    *)
(***************************************************************************)
EXTENDS Naturals, Sequences

CONSTANTS
    Vault,      \* the vault files the user may choose
    Damaged,    \* the ones whose sidecar does not match
    None,       \* no vault
    MaxJobs     \* bound on the previews and imports the user starts

ASSUME DamagedAssumption == Damaged \subseteq Vault
ASSUME NoneAssumption == None \notin Vault
ASSUME BoundAssumption == MaxJobs \in Nat

VARIABLES
    page,       \* the wizard's current page
    path,       \* its field vault_path
    passphrase, \* the text of _pp_field: empty, right or wrong
    preview,    \* _PassphrasePage._preview: the vault it was made of
    validated,  \* _PassphrasePage._validated
    working,    \* _PassphrasePage._working
    shown,      \* _SelectPage._keys: the vault whose keys are listed
    previews,   \* previews whose result has not been delivered
    asking,     \* the open "checksum mismatch" boxes, each for its vault
    imports,    \* imports whose result has not been delivered
    done,       \* imports whose result has been delivered
    started,    \* how many jobs have been started
    anyway,     \* history: vaults the user has said to open anyway
    hasty       \* history: the user has pressed Back while a preview was running

unlockVars == <<preview, validated, working>>
importVars == <<imports, done>>
histVars == <<anyway, hasty>>

wizardVars == <<page, path, passphrase, unlockVars, shown, previews, asking,
                importVars, started, histVars>>

Page == {"file", "unlock", "select", "result"}
Preview == [id: 1..MaxJobs, vault: Vault, skip: BOOLEAN, right: BOOLEAN]
Import == [id: 1..2 * MaxJobs, vault: Vault, keysOf: Vault, right: BOOLEAN,
           byUser: BOOLEAN]
Outcome == {"ok", "checksum", "passphrase"}

\* Types, and: the page is validated exactly when it has a preview.
WizardTypeOK ==
    /\ page \in Page
    /\ path \in Vault \cup {None}
    /\ passphrase \in {"", "right", "wrong"}
    /\ preview \in Vault \cup {None}
    /\ validated = (preview # None)
    /\ working \in BOOLEAN
    /\ shown \in Vault \cup {None}
    /\ previews \subseteq Preview
    /\ asking \in Seq(Vault)
    /\ imports \subseteq Import
    /\ done \subseteq Import \X Outcome
    /\ started \in 0..2 * MaxJobs
    /\ anyway \subseteq Vault
    /\ hasty \in BOOLEAN

WizardInit ==
    /\ page = "file"
    /\ path = None
    /\ passphrase = ""
    /\ preview = None
    /\ validated = FALSE
    /\ working = FALSE
    /\ shown = None
    /\ previews = {}
    /\ asking = <<>>
    /\ imports = {}
    /\ done = {}
    /\ started = 0
    /\ anyway = {}
    /\ hasty = FALSE

-----------------------------------------------------------------------------
\* What VaultService answers, from the passphrase and the sidecar.
Answer_Unverified(vault, right, skip) == IF ~ right THEN "passphrase" ELSE "ok"
Answer(vault, right, skip) ==
    IF ~ right THEN "passphrase"
    ELSE IF vault \in Damaged /\ ~ skip THEN "checksum"
    ELSE "ok"

\* Bound: the user starts no more jobs than this.
Room == started < MaxJobs

\* A worker runs VaultService.preview() on the chosen file.
StartPreview(skip) ==
    /\ Room
    /\ started' = started + 1
    /\ previews' = previews \cup {[id |-> started + 1, vault |-> path,
                                   skip |-> skip,
                                   right |-> passphrase = "right"]}
    /\ working' = TRUE

\* _PassphrasePage.initializePage().
EnterUnlock_KeepsPreview ==
    /\ page' = "unlock"
    /\ working' = FALSE
    /\ UNCHANGED <<validated, preview, shown, passphrase, imports, started>>
EnterUnlock_StaysValidated ==
    /\ page' = "unlock"
    /\ working' = FALSE
    /\ preview' = None
    /\ UNCHANGED <<validated, shown, passphrase, imports, started>>
EnterUnlock ==
    /\ page' = "unlock"
    /\ validated' = FALSE
    /\ working' = FALSE
    /\ preview' = None
    /\ UNCHANGED <<shown, passphrase, imports, started>>

\* _SelectPage.initializePage(): list the keys of the preview, all selected.
EnterSelect(made) ==
    /\ page' = "select"
    /\ shown' = made
    /\ UNCHANGED <<passphrase, imports, started>>

\* _ResultPage.initializePage(): import the selected keys from the chosen file
\* and clear the passphrase field.
EnterResult(byUser) ==
    /\ page' = "result"
    /\ started' = started + 1
    /\ imports' = imports \cup {[id |-> started + 1, vault |-> path,
                                 keysOf |-> shown, byUser |-> byUser,
                                 right |-> passphrase = "right"]}
    /\ passphrase' = ""
    /\ UNCHANGED shown

-----------------------------------------------------------------------------
\* The user can use the wizard: no warning box is open.
Free == asking = <<>>

\* _FilePage: browse for a file that is a vault.
Choose ==
    /\ Free
    /\ page = "file"
    /\ path' \in Vault
    /\ UNCHANGED <<page, passphrase, unlockVars, shown, previews, asking,
                   importVars, started, histVars>>

Type ==
    /\ Free
    /\ page = "unlock"
    /\ passphrase' \in {"", "right", "wrong"}
    /\ UNCHANGED <<page, path, unlockVars, shown, previews, asking, importVars,
                   started, histVars>>

\* Next on the file page.
NextFile ==
    /\ Free
    /\ page = "file"
    /\ path # None
    /\ EnterUnlock
    /\ UNCHANGED <<path, previews, asking, done, histVars>>

\* Next on the unlock page, validatePage(): go on if the vault has been
\* decrypted, else start the preview.  With an empty field, or a preview
\* running, nothing happens.
NextUnlock ==
    /\ Free
    /\ page = "unlock"
    /\ \/ validated /\ EnterSelect(preview) /\ UNCHANGED <<unlockVars, previews>>
       \/ /\ ~ validated
          /\ ~ working
          /\ passphrase # ""
          /\ StartPreview(FALSE)
          /\ UNCHANGED <<page, passphrase, preview, validated, shown, imports>>
    /\ UNCHANGED <<path, asking, done, histVars>>

\* Next on the select page.
NextSelect ==
    /\ Free
    /\ page = "select"
    /\ Room
    /\ EnterResult(TRUE)
    /\ UNCHANGED <<path, unlockVars, previews, asking, done, histVars>>

Back ==
    /\ Free
    /\ page # "file"
    /\ hasty' = (hasty \/ working)
    /\ page' = CASE page = "unlock" -> "file"
                 [] page = "select" -> "unlock"
                 [] page = "result" -> "select"
    /\ UNCHANGED <<path, passphrase, unlockVars, shown, previews, asking,
                   importVars, started, anyway>>

-----------------------------------------------------------------------------
\* _on_preview_result(): keep the preview and call QWizard.next(), which acts
\* on the page the wizard is on NOW.
PreviewDone(j) ==
    /\ j \in previews
    /\ Answer(j.vault, j.right, j.skip) = "ok"
    /\ previews' = previews \ {j}
    /\ \/ page = "file" /\ EnterUnlock
       \/ /\ page # "file"
          /\ preview' = j.vault
          /\ validated' = TRUE
          /\ working' = FALSE
          /\ \/ page = "unlock" /\ EnterSelect(j.vault)
             \/ page = "select" /\ EnterResult(FALSE)
             \/ page = "result"
                /\ UNCHANGED <<page, shown, passphrase, imports, started>>
    /\ UNCHANGED <<path, asking, done, histVars>>

\* _on_preview_error() and _on_skip_checksum_error(): show the message.
PreviewFailed_StaysBusy(j) ==
    /\ j \in previews
    /\ Answer(j.vault, j.right, j.skip) = "passphrase"
    /\ previews' = previews \ {j}
    /\ UNCHANGED <<page, path, passphrase, unlockVars, shown, asking,
                   importVars, started, histVars>>
PreviewFailed(j) ==
    /\ j \in previews
    /\ Answer(j.vault, j.right, j.skip) = "passphrase"
    /\ previews' = previews \ {j}
    /\ working' = FALSE
    /\ UNCHANGED <<page, path, passphrase, preview, validated, shown, asking,
                   importVars, started, histVars>>

\* _on_preview_error() of a checksum mismatch: ask the user.
PreviewMismatch(j) ==
    /\ j \in previews
    /\ Answer(j.vault, j.right, j.skip) = "checksum"
    /\ previews' = previews \ {j}
    /\ working' = FALSE
    /\ asking' = Append(asking, j.vault)
    /\ UNCHANGED <<page, path, passphrase, preview, validated, shown,
                   importVars, started, histVars>>

\* The newest box is answered.
Close == asking' = SubSeq(asking, 1, Len(asking) - 1)

\* "Open it anyway?" - Yes: _run_preview_skip_checksum(), of the file that is
\* chosen now.
OpenAnyway ==
    /\ ~ Free
    /\ Close
    /\ anyway' = anyway \cup {asking[Len(asking)]}
    /\ StartPreview(TRUE)
    /\ UNCHANGED <<page, path, passphrase, preview, validated, shown,
                   importVars, hasty>>

\* "Open it anyway?" - No.
Cancel ==
    /\ ~ Free
    /\ Close
    /\ UNCHANGED <<page, path, passphrase, unlockVars, shown, previews,
                   importVars, started, histVars>>

\* VaultService.import_keys(), called without skip_checksum, has ended.
ImportDone(j) ==
    /\ j \in imports
    /\ imports' = imports \ {j}
    /\ done' = done \cup {<<j, Answer(j.vault, j.right, FALSE)>>}
    /\ UNCHANGED <<page, path, passphrase, unlockVars, shown, previews, asking,
                   started, histVars>>

Deliver(j) ==
    PreviewDone(j) \/ PreviewFailed(j) \/ PreviewMismatch(j) \/ ImportDone(j)

WizardNext ==
    \/ Choose \/ Type \/ NextFile \/ NextUnlock \/ NextSelect \/ Back
    \/ \E j \in previews \cup imports : Deliver(j)
    \/ OpenAnyway \/ Cancel

WizardSpec == WizardInit /\ [][WizardNext]_wizardVars

\* Worker threads end, and Qt delivers what they signal.  The user has to do
\* nothing.
WizardFairSpec == WizardSpec /\ WF_wizardVars(\E j \in previews \cup imports : Deliver(j))

-----------------------------------------------------------------------------
Imported == imports \cup {d[1] : d \in done}

\* A user who never presses Back while a preview is running (only then can a result
\* find another page, or another file chosen) imports from the vault whose keys were
\* shown ("use `import_keys` to commit a subset of the preview"), and only after
\* leaving the select page with Next.  A mismatch box that is answered Yes opens the
\* vault it was about: this user sees keys of a damaged vault only after accepting
\* that very vault.
PatientUserGetsPreview ==
    ~ hasty => /\ \A j \in Imported : j.vault = j.keysOf /\ j.byUser
               /\ shown \in Damaged => shown \in anyway

\* Whatever is delivered when, the wizard shows the select page and goes
\* beyond it only with the keys of some preview listed.
SelectHasKeys ==
    /\ WizardTypeOK
    /\ page \in {"select", "result"} => shown # None /\ preview # None

\* The unlock page does not stay busy: a preview always gives it back, also
\* when the answer comes to another page.
UnlockPageRecovers == working ~> ~ working

=============================================================================
