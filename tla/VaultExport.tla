----------------------------- MODULE VaultExport ----------------------------
(***************************************************************************)
(* The page that makes a vault: ui/vault/vault_export_view.py, its view    *)
(* model vault_export_viewmodel.py, the dialog that fetches a key's        *)
(* passphrase from a security key (ui/widgets/token_unlock_dialog.py) and  *)
(* VaultService.create as far as it decides what the vault holds and what  *)
(* opens it.  How the file is written is the matter of VaultFile.          *)
(*                                                                         *)
(* The page lives on the UI thread; exports, the listing of keys and the   *)
(* dialog's derivation run on workers whose results arrive as events.  The *)
(* dialog is modal: while it is open the user has only the dialog, but the *)
(* events of the workers still reach the page below it.                    *)
(*                                                                         *)
(* A typed text is named by the key whose passphrase it is, so that a      *)
(* passphrase stored for the wrong key can be told from the right one; a   *)
(* user who mistypes is a user whose export fails.  Left out are the path  *)
(* and the description of the vault and the repetition of the master       *)
(* passphrase, which only have to be entered, and offline primaries, which *)
(* are stubs on no card.                                                   *)
(***************************************************************************)
EXTENDS Naturals, FiniteSets

CONSTANTS
    Key, NoKey,
    OnCard,         \* keys with an encryption subkey on a card
    TokenBacked,    \* keys enrolled with a security key (methods_for(fp).has_token)
    Stubs,          \* keys whose primary is on a card in the beginning
    Worker,         \* 1..n; an export takes the first that is free
    Blank, Phrase,  \* master passphrases: white space only, and a real one
    Bounds          \* bounds to choose from: exports at a time; exports and dialogs
                    \* together; listings and moves together

ASSUME ExportAssumption ==
    /\ NoKey \notin Key /\ Stubs \subseteq OnCard /\ OnCard \subseteq Key
    /\ TokenBacked \subseteq Key /\ Worker \subseteq Nat \ {0} /\ IsFiniteSet(Worker)
    /\ Bounds \subseteq [exports : Worker, ops : Nat, changes : Nat]

Empty == "empty"                    \* the empty text
Absent == "absent"                  \* no entry in _key_passphrases
Master == {Empty, Blank, Phrase}
Text == Key \cup {Empty}
PassSlot == "passphrase"

VARIABLES
    stub,       \* keys whose primary is on a card: what gpg would report now
    vm,         \* VaultExportViewModel
    active,     \* the view's _active_fp
    field,      \* the text of _unlock_pp
    button,     \* _btn_export is enabled
    dlg,        \* the key of the open TokenUnlockDialog
    reload,     \* a listing of the keys that has not been delivered
    work,       \* work[w]: a running export
    open,       \* open[k]: token-derived buffers of k that are not closed
    stray,      \* stray[k]: those that stay in a dialog that is gone
    consent,    \* history: Token only was ticked, and a token has been ticked ever since
    bound,      \* the bounds of this behaviour, one of Bounds
    ops, changes    \* what they count

pageVars == <<active, field, button>>
buffers == <<open, stray>>
bounds == <<bound, ops, changes>>
vars == <<stub, vm, pageVars, dlg, reload, work, buffers, consent, bounds>>

NoReload == [on |-> FALSE, stub |-> {}]
Idle == [at |-> "idle", keys |-> {}, pps |-> [k \in Key |-> Absent], owned |-> {},
         master |-> FALSE, tokens |-> {}, consent |-> FALSE, blank |-> FALSE,
         private |-> {}, local |-> {}, slots |-> {}]

TypeOK ==
    /\ stub \subseteq Key
    /\ vm \in [selected : SUBSET Key, typed : [Key -> Text \cup {Absent}],
               secret : SUBSET Key, unlocked : SUBSET Key, stub : SUBSET Key,
               tokens : SUBSET Key, tokenOnly : BOOLEAN,
               master : Master]
    /\ vm.tokens \subseteq OnCard \cup vm.stub
    /\ active \in Key \cup {NoKey} /\ field \in Text
    /\ button \in BOOLEAN /\ consent \in BOOLEAN
    /\ dlg \in Key \cup {NoKey}
    /\ reload \in [on : BOOLEAN, stub : SUBSET Key]
    /\ \A w \in Worker :
          /\ work[w].at \in {"idle", "start", "written", "failed"}
          /\ work[w].at # "start" => work[w].owned = {}
    /\ {open, stray} \subseteq [Key -> Nat]
    /\ bound \in Bounds /\ ops \in 0..bound.ops /\ changes \in 0..bound.changes

----------------------------------------------------------------------------
(* The view model.                                                         *)

\* The property token_only: the flag counts only while a token is ticked.
TokenOnly(v) == v.tokenOnly /\ v.tokens # {}

IsKeyUnlocked(v, k) == k \in v.stub \/ k \in v.unlocked

CanSubmit(v) ==
    /\ v.selected # {}
    /\ TokenOnly(v) \/ v.master # Empty
    /\ \A k \in v.selected : IsKeyUnlocked(v, k)

Drop(f, ks) == [k \in DOMAIN f |-> IF k \in ks THEN Absent ELSE f[k]]

\* SecureBytes.close for one buffer of each of the keys ks.
CloseBuffers(f, ks) == [k \in DOMAIN f |-> IF k \in ks THEN f[k] - 1 ELSE f[k]]

SetSelected(v, sel) ==
    LET removed == v.selected \ sel
    IN  [v EXCEPT !.selected = sel, !.typed = Drop(@, removed), !.secret = @ \ removed,
                  !.unlocked = (@ \ removed) \cup (sel \cap v.stub)]

\* A text that Unlock would take: unlock_key refuses an empty one.
UnlockKey(v, k) ==
    IF v.typed[k] \in {Empty, Absent} THEN v ELSE [v EXCEPT !.unlocked = @ \cup {k}]

ResetSecrets(v) ==
    [v EXCEPT !.master = Empty, !.typed = Drop(@, Key),
              !.secret = {}, !.unlocked = {}]

----------------------------------------------------------------------------
(* The list of keys and the tokens.                                        *)

PageFree == dlg = NoKey
Begin == ops < bound.ops /\ ops' = ops + 1 /\ UNCHANGED <<bound, changes>>
Change == changes < bound.changes /\ changes' = changes + 1 /\ UNCHANGED <<bound, ops>>
Update == button' = CanSubmit(vm')

Toggled(k) == (vm.selected \cup {k}) \ (vm.selected \cap {k})
Deselected(sel) == (vm.secret \cap vm.selected) \ sel

\* _on_key_selection alone: the space bar changes the selection and clicks nothing.
SelectByKeyboard(k) ==
    /\ PageFree
    /\ vm' = SetSelected(vm, Toggled(k))
    /\ open' = CloseBuffers(open, Deselected(Toggled(k)))
    /\ Update
    /\ UNCHANGED <<stub, active, field, dlg, reload, work, stray,
                   consent, bounds>>

\* _on_item_clicked after the click has toggled the selection.  The key becomes active
\* before the field is cleared, and clearing a field with text stores an empty passphrase.
\* A stub disables the field and the buttons, which is what no active key amounts to.
ClickItem(k) ==
    /\ PageFree
    /\ LET v == SetSelected(vm, Toggled(k))
           wiped == k \notin vm.stub /\ field # Empty
       IN  /\ vm' = IF wiped THEN [v EXCEPT !.typed[k] = Empty] ELSE v
           /\ open' = CloseBuffers(open, Deselected(Toggled(k)))
           /\ field' = IF k \in vm.stub THEN field ELSE Empty
    /\ active' = IF k \in vm.stub THEN NoKey ELSE k
    /\ Update
    /\ UNCHANGED <<stub, dlg, reload, work, stray, consent, bounds>>

\* _on_unlock_pp_changed.
TypePassphrase(t) ==
    /\ PageFree /\ active # NoKey /\ active \notin vm.stub /\ t \in {active, Empty} \ {field}
    /\ field' = t
    /\ vm' = [vm EXCEPT !.typed[active] = t]
    /\ UNCHANGED <<stub, active, button, dlg, reload, work, buffers, consent,
                   bounds>>

\* Mutant: the field is cleared while the key is still active.
UnlockClicked_ClearsFirst ==
    /\ PageFree /\ active # NoKey /\ active \notin vm.stub /\ field # Empty
    /\ vm' = [UnlockKey([vm EXCEPT !.typed[active] = field], active)
                 EXCEPT !.typed[active] = Empty]
    /\ active' = NoKey /\ field' = Empty
    /\ Update
    /\ UNCHANGED <<stub, dlg, reload, work, buffers, consent, bounds>>

\* _on_unlock_clicked: the key is no longer active when the field is cleared.
UnlockClicked ==
    /\ PageFree /\ active # NoKey /\ active \notin vm.stub /\ field # Empty
    /\ vm' = UnlockKey([vm EXCEPT !.typed[active] = field], active)
    /\ active' = NoKey /\ field' = Empty
    /\ Update
    /\ UNCHANGED <<stub, dlg, reload, work, buffers, consent, bounds>>

\* Mutant: un-ticking the last token leaves Token only ticked.
TokensChanged_KeepsTick(v, ts) == [v EXCEPT !.tokens = ts]

\* _on_token_selection_changed: without a token there is no Token only.
TokensChanged(v, ts) ==
    [v EXCEPT !.tokens = ts, !.tokenOnly = @ /\ ts # {}]

TickToken(k) ==
    /\ PageFree /\ k \in OnCard \cup vm.stub
    /\ LET ts == IF k \in vm.tokens THEN vm.tokens \ {k} ELSE vm.tokens \cup {k}
       IN  /\ vm' = TokensChanged(vm, ts)
           /\ consent' = (consent /\ ts # {})
    /\ Update
    /\ UNCHANGED <<stub, active, field, dlg, reload, work, buffers, bounds>>

\* _on_token_only_toggled, offered while a token is ticked; ticking it empties the
\* passphrase fields.
ToggleTokenOnly ==
    /\ PageFree /\ vm.tokens # {}
    /\ vm' = IF vm.tokenOnly THEN [vm EXCEPT !.tokenOnly = FALSE]
             ELSE [vm EXCEPT !.tokenOnly = TRUE, !.master = Empty]
    /\ consent' = vm'.tokenOnly
    /\ Update
    /\ UNCHANGED <<stub, active, field, dlg, reload, work, buffers, bounds>>

\* _on_master_changed and _on_confirm_changed, for the passphrase and its repetition; the
\* box is disabled under Token only.
EnterMaster(p) ==
    /\ PageFree /\ ~vm.tokenOnly /\ p # vm.master
    /\ vm' = [vm EXCEPT !.master = p]
    /\ Update
    /\ UNCHANGED <<stub, active, field, dlg, reload, work, buffers, consent,
                   bounds>>

----------------------------------------------------------------------------
(* The keyring changes, and the page lists it anew.                        *)

\* Outside the page: the primary of a local key is moved onto a card.
MoveToCard(k) ==
    /\ k \notin stub /\ Change
    /\ stub' = stub \cup {k}
    /\ UNCHANGED <<vm, pageVars, dlg, reload, work, buffers, consent>>

\* keys_changed reaches load_keys, and its worker lists the keys.
ListKeys ==
    /\ ~reload.on /\ Change
    /\ reload' = [on |-> TRUE, stub |-> stub]
    /\ UNCHANGED <<stub, vm, pageVars, dlg, work, buffers, consent>>

\* _on_keys and _on_keys_loaded: the list is emptied, which deselects every key, and the
\* tokens come back un-ticked.
KeysLoaded ==
    /\ reload.on
    /\ LET v == SetSelected([vm EXCEPT !.stub = reload.stub], {})
       IN  vm' = TokensChanged(v, {})
    /\ open' = CloseBuffers(open, Deselected({}))
    /\ consent' = FALSE
    /\ reload' = NoReload
    /\ Update
    /\ UNCHANGED <<stub, active, field, dlg, work, stray, bounds>>

----------------------------------------------------------------------------
(* The passphrase from a security key.                                     *)

\* _on_token_unlock_clicked up to exec.
OpenDialog ==
    /\ PageFree /\ Begin
    /\ active \in TokenBacked \ vm.stub
    /\ dlg' = active
    /\ UNCHANGED <<stub, vm, pageVars, reload, work, buffers, consent>>

\* A result that comes when the dialog is gone stays in it: _on_result stores it, accept
\* changes nothing any more, and closeEvent does not come.  It replaces one that came
\* before, which is wiped when Python drops it.
LateResult(k, late) == stray' = [stray EXCEPT ![k] = @ + late]

\* Mutant: the secret that is replaced is not closed.
SetKeySecret_KeepsOld(k, late) ==
    /\ vm' = [vm EXCEPT !.secret = @ \cup {k}, !.typed = Drop(@, {k}),
                        !.unlocked = @ \cup {k}]
    /\ open' = [open EXCEPT ![k] = @ + 1 + late]

\* set_key_secret: the page owns the new buffer and closes the one it replaces.
SetKeySecret(k, late) ==
    /\ vm' = [vm EXCEPT !.secret = @ \cup {k}, !.typed = Drop(@, {k}),
                        !.unlocked = @ \cup {k}]
    /\ open' = [CloseBuffers(open, vm.secret \cap {k}) EXCEPT ![k] = @ + 1 + late]

\* _start and, perhaps after some failures, _on_result, accept, take_secret and the rest of
\* _on_token_unlock_clicked.  The key is the one the dialog was opened for, whatever has
\* happened to the list since.  The PIN field can be edited while a worker runs, which
\* enables Unlock for another one (_update_ok): its result comes late.
DerivationSucceeds ==
    /\ dlg # NoKey
    /\ \E late \in {0, 1} : SetKeySecret(dlg, late) /\ LateResult(dlg, late)
    /\ dlg' = NoKey
    /\ active' = NoKey /\ field' = Empty
    /\ Update
    /\ UNCHANGED <<stub, reload, work, consent, bounds>>

\* reject: Cancel, or Escape, which also works while a worker runs.
DismissDialog ==
    /\ dlg # NoKey
    /\ \E late \in {0, 1} : /\ open' = [open EXCEPT ![dlg] = @ + late]
                            /\ LateResult(dlg, late)
    /\ dlg' = NoKey
    /\ UNCHANGED <<stub, vm, pageVars, reload, work, consent, bounds>>

----------------------------------------------------------------------------
(* The export.                                                             *)

\* The buffer made from the master passphrase: white space is stripped, and a buffer of
\* length 0 is false, so the worker passes None for it.
MasterGiven(v) == ~TokenOnly(v) /\ v.master = Phrase

\* submit.  Typed passphrases are taken for the selected keys, then the secrets of the
\* tokens over them; the marks are dropped without a signal, and the fields are cleared.
Submit(w) ==
    /\ PageFree /\ button /\ CanSubmit(vm)
    /\ Begin /\ w <= bound.exports /\ work[w].at = "idle" /\ \A v \in 1..(w - 1) : work[v].at # "idle"
    /\ work' = [work EXCEPT ![w] =
         [Idle EXCEPT !.at = "start", !.keys = vm.selected,
                      !.pps = [k \in Key |-> CASE k \notin vm.selected -> Absent
                                               [] k \in vm.secret -> k
                                               [] OTHER -> vm.typed[k]],
                      !.owned = vm.secret \cap vm.selected,
                      !.master = MasterGiven(vm), !.tokens = vm.tokens,
                      !.consent = consent,
                      !.blank = ~TokenOnly(vm) /\ vm.master = Blank]]
    /\ vm' = [vm EXCEPT !.master = Empty,
                        !.typed = Drop(@, vm.selected), !.secret = @ \ vm.selected,
                        !.unlocked = @ \ vm.selected]
    /\ button' = FALSE
    /\ UNCHANGED <<stub, active, field, dlg, reload, buffers, consent>>

\* Leaving the ExitStack closes what the worker owns.
CloseOwned(w) == open' = CloseBuffers(open, work[w].owned)

\* What a worker leaves alone.
workerOnly == <<stub, vm, pageVars, dlg, reload, stray, consent, bounds>>

\* _export_private_for_vault: of a stub there is only the public half, and any other key
\* needs a passphrase, which has to be the right one for the private half.  If gpg fails
\* over it with 67108875 in what it says, the key goes in without; gpg is external, and
\* may say so whatever the key and the passphrase are.
Exportable(w, k, private) ==
    IF k \in stub THEN k \notin private
    ELSE work[w].pps[k] # Absent /\ (k \in private => work[w].pps[k] = k)

\* The slots of the vault: _encrypt_payload for the passphrase alone,
\* _encrypt_payload_with_slots when there are tokens.
Slots(w) == (IF work[w].master THEN {PassSlot} ELSE {}) \cup work[w].tokens

\* create, with something to open the vault: _collect_entries, the encryption,
\* _write_vault_files and the audit event.
Create(w) ==
    /\ work[w].at = "start"
    /\ work[w].master \/ work[w].tokens # {}
    /\ \E private \in SUBSET work[w].keys :
          /\ \A k \in work[w].keys : Exportable(w, k, private)
          /\ work' = [work EXCEPT ![w] =
               [Idle EXCEPT !.at = "written", !.slots = Slots(w), !.private = private,
                            !.local = work[w].keys \ (stub \cup OnCard),
                            !.consent = work[w].consent, !.blank = work[w].blank]]
    /\ CloseOwned(w)
    /\ UNCHANGED workerOnly

\* Any other way out of create: no way to open the vault, the lock, a symbolic link, a
\* missing or wrong passphrase, a revoked or expired token key, too many slots, the disk.
Fail(w) ==
    /\ work[w].at = "start"
    /\ work' = [work EXCEPT ![w] = [Idle EXCEPT !.at = "failed"]]
    /\ CloseOwned(w)
    /\ UNCHANGED workerOnly

\* VaultExportViewModel._emit_success, which also wipes what was entered meanwhile,
\* _on_success, and the signal finished that the worker has sent right behind.
Succeeded(w) ==
    /\ work[w].at = "written"
    /\ work' = [work EXCEPT ![w] = Idle]
    /\ vm' = ResetSecrets(vm)
    /\ open' = CloseBuffers(open, vm.secret)
    /\ active' = NoKey
    /\ Update
    /\ UNCHANGED <<stub, field, dlg, reload, stray, consent, bounds>>

\* _on_error shows the message; what was entered stays.
Failed(w) ==
    /\ work[w].at = "failed"
    /\ work' = [work EXCEPT ![w] = Idle]
    /\ button' = CanSubmit(vm)
    /\ UNCHANGED <<stub, vm, active, field, dlg, reload, buffers, consent, bounds>>

----------------------------------------------------------------------------
Init ==
    /\ stub = Stubs
    /\ vm = [selected |-> {}, typed |-> [k \in Key |-> Absent], secret |-> {},
             unlocked |-> {}, stub |-> Stubs, tokens |-> {}, tokenOnly |-> FALSE,
             master |-> Empty]
    /\ active = NoKey /\ field = Empty /\ button = FALSE
    /\ dlg = NoKey /\ reload = NoReload
    /\ work = [w \in Worker |-> Idle]
    /\ open = [k \in Key |-> 0] /\ stray = open
    /\ consent = FALSE
    /\ bound \in Bounds /\ ops = 0 /\ changes = 0

User ==
    \/ \E k \in Key : SelectByKeyboard(k) \/ ClickItem(k) \/ TickToken(k) \/ MoveToCard(k)
    \/ \E t \in Text : TypePassphrase(t)
    \/ UnlockClicked \/ ToggleTokenOnly
    \/ \E p \in Master : EnterMaster(p)
    \/ ListKeys \/ OpenDialog \/ DismissDialog
    \/ \E w \in Worker : Submit(w)

Background == KeysLoaded \/ DerivationSucceeds

Export(w) == Create(w) \/ Fail(w) \/ Succeeded(w) \/ Failed(w)

Next == User \/ Background \/ \E w \in Worker : Export(w)

Spec == Init /\ [][Next]_vars

----------------------------------------------------------------------------
(* Properties                                                              *)

\* create and submit: a vault that no passphrase opens was made with Token only ticked,
\* and ticked since the last time there was no token, or from a passphrase of white space,
\* which submit strips to nothing (vault_export_viewmodel.py:244, 268).
TokenOnlyIsAsked ==
    \A w \in Worker : work[w].at = "written" =>
       PassSlot \in work[w].slots \/ work[w].consent \/ work[w].blank

\* vault_export_view.py:158 says of a vault with a token: "The passphrase always keeps
\* working, so losing the token never locks you out of your backup."  A vault has a
\* passphrase slot unless Token only was ticked.
PassphraseKeepsWorking ==
    \A w \in Worker : work[w].at = "written" => PassSlot \in work[w].slots \/ work[w].consent

\* Who owns the buffers that set_key_secret, submit and the dialog pass on: every buffer
\* that is not closed is held by the page for one key, by one running export, or by a
\* dialog that was left, dismissed or accepted, while a worker of it ran, and none is
\* closed twice.
SecretsAccounted ==
    /\ TypeOK
    /\ \A k \in Key : open[k] = (IF k \in vm.secret THEN 1 ELSE 0)
                                + Cardinality({w \in Worker : k \in work[w].owned}) + stray[k]

\* token_unlock_dialog.py:180, closeEvent: "A secret nobody collected must not outlive the
\* dialog."
NoSecretOutlivesDialog == \A k \in Key : stray[k] = 0

\* vault_service.py:818-820: "Smartcard stubs cannot have their private parts exported and
\* are skipped up front; GPG error 67108875 at export time means the same".  A key with all
\* its parts on this computer, when it was collected, has its private half in the vault.
PublicOnlyOnlyForCards ==
    \A w \in Worker : work[w].at = "written" => work[w].local \subseteq work[w].private

\* _on_unlock_clicked and _on_token_unlock_clicked: a step that marks a key unlocked leaves
\* something to unlock it with ("so the passphrase_changed signal that clear() fires does
\* not ... wipe the passphrase we just stored").
UnlockedWithSomething ==
    [][\A k \in vm'.unlocked \ (vm.unlocked \cup vm'.stub) :
          vm'.typed[k] \in Key \/ k \in vm'.secret]_vars
=============================================================================
