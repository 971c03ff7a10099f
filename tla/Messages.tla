------------------------------ MODULE Messages ------------------------------
(***************************************************************************)
(* Messages: the Encrypt and Decrypt pages (ui/messages/encrypt_view.py,   *)
(* decrypt_view.py and their view models), MessageService behind them, the *)
(* worker that runs an operation (ui/operation_viewmodel.py, ui/worker.py) *)
(* and the clipboard to which both pages copy (ui/clipboard.py).           *)
(*                                                                         *)
(* The pages live on the UI thread; an operation runs on a worker, and its *)
(* result arrives as an event, whatever the user has done to the page      *)
(* meanwhile.  The buttons that start an operation are disabled while it   *)
(* runs and enabled again by the next edit, so operations can overlap.     *)
(* The clipboard belongs to the desktop: other programs write to it too.   *)
(*                                                                         *)
(* A message and its plaintext are one name.  Signing along with an        *)
(* encryption, passphrases and the card hint of the Decrypt page are left  *)
(* out; the token dialog is modelled in VaultExport.                       *)
(***************************************************************************)
EXTENDS Naturals, Sequences, SequencesExt

CONSTANTS
    Key,            \* keys that can be recipients
    Msg, NoMsg,     \* encrypted messages
    Worker,         \* 1..n; an operation takes the first that is free
    Armor,          \* the text of a ciphertext that was made
    Foreign,        \* any text of another program
    Nothing,        \* an empty clipboard
    MaxEncryptOps,  \* bound: encryptions, copies and changes of the keyring together
    MaxDecryptOps   \* bound: decryptions and copies together

ASSUME MessagesAssumption ==
    /\ NoMsg \notin Msg /\ Worker \subseteq Nat \ {0} /\ {MaxEncryptOps, MaxDecryptOps} \subseteq Nat
    /\ {Armor, Foreign, Nothing} \cap Msg = {}
    /\ Armor # Foreign /\ Armor # Nothing /\ Foreign # Nothing

VARIABLES
    revoked,    \* keys that find_key reports as revoked, expired or too weak now
    listed,     \* those it reported when the Encrypt page was filled
    enc,        \* the Encrypt page and its view model
    dec,        \* the Decrypt page and its view model
    tab,        \* the page that is used: the two share only the workers and the clipboard
    seconds,    \* clipboard_clear_seconds, as read at the start
    clip,       \* the clipboard: a text, and who put it there
    pending,    \* clipboard._PENDING: the snapshots, oldest first
    work,       \* work[w]: an operation on a worker thread
    life,       \* the program runs, has been quit or was killed
    ops

vars == <<revoked, listed, enc, dec, tab, seconds, clip, pending, work, life, ops>>
keyring == <<revoked, listed>>
board == <<clip, pending>>
chosen == <<tab, seconds>>

Idle == [kind |-> "-", at |-> "idle", rec |-> {}, trust |-> FALSE, msg |-> NoMsg,
         ticked |-> {}, fresh |-> TRUE, refused |-> {}]

NoEnc == [rec |-> {}, blocked |-> {}, text |-> FALSE, box |-> FALSE, confirmed |-> FALSE,
          button |-> FALSE, out |-> FALSE, ticked |-> {}, fresh |-> FALSE]
NoDec == [cipher |-> NoMsg, shown |-> NoMsg, label |-> NoMsg, timer |-> FALSE,
          visible |-> TRUE, late |-> FALSE, button |-> FALSE]

TypeOK ==
    /\ revoked \subseteq Key /\ listed \subseteq revoked
    /\ enc \in [rec : SUBSET Key, blocked : SUBSET Key, text : BOOLEAN, box : BOOLEAN,
                confirmed : BOOLEAN, button : BOOLEAN, out : BOOLEAN,
                ticked : SUBSET Key, fresh : BOOLEAN]
    /\ enc.blocked \subseteq enc.rec
    /\ enc.confirmed => enc.box
    /\ dec \in [cipher : Msg \cup {NoMsg}, shown : Msg \cup {NoMsg}, label : Msg \cup {NoMsg},
                timer : BOOLEAN, visible : BOOLEAN, late : BOOLEAN, button : BOOLEAN]
    /\ tab \in {"encrypt", "decrypt"} /\ seconds \in {0, 1}
    /\ clip \in [text : Msg \cup {Armor, Foreign, Nothing}, by : {"app", "user"}]
    /\ pending \in Seq(Msg \cup {Armor}) /\ (seconds = 0 => pending = <<>>)
    /\ \A w \in Worker : /\ work[w].kind \in {"-", "encrypt", "decrypt"}
                         /\ work[w].at \in {"idle", "start", "checked", "done", "failed"}
    /\ life \in {"running", "quit", "killed"}
    /\ ops \in Nat

Running == life = "running"
OnEncrypt == Running /\ tab = "encrypt"
OnDecrypt == Running /\ tab = "decrypt"
MaxOps == IF tab = "encrypt" THEN MaxEncryptOps ELSE MaxDecryptOps
Begin == ops < MaxOps /\ ops' = ops + 1

----------------------------------------------------------------------------
(* The Encrypt page.                                                       *)

EncryptCanSubmit(e) == e.text /\ e.rec # {} /\ e.confirmed

\* _update_encrypt_button, which also looks for recipients shown as revoked or expired.
UpdateEncrypt(e) == [e EXCEPT !.button = EncryptCanSubmit(e) /\ e.blocked = {}]

\* What an edit of the Encrypt page leaves alone.
editsEncrypt == <<keyring, dec, chosen, board, work, life, ops>>

TypePlaintext ==
    /\ OnEncrypt /\ ~enc.text
    /\ enc' = UpdateEncrypt([enc EXCEPT !.text = TRUE])
    /\ UNCHANGED editsEncrypt

\* _add_recipient: the entry is the one that was listed.  A tick in the box stays.
AddRecipient(k) ==
    /\ OnEncrypt /\ k \notin enc.rec
    /\ enc' = UpdateEncrypt([enc EXCEPT !.rec = @ \cup {k},
                                        !.blocked = @ \cup (listed \cap {k})])
    /\ UNCHANGED editsEncrypt

\* setChecked(FALSE), which tells the view model when the box was ticked.
Untick(e) ==
    [e EXCEPT !.box = FALSE, !.confirmed = FALSE, !.fresh = FALSE, !.ticked = {}]

\* _remove_recipient with _rebuild_confirm_panel: the box is un-ticked.
RemoveRecipient(k) ==
    /\ OnEncrypt /\ k \in enc.rec
    /\ enc' = UpdateEncrypt(Untick([enc EXCEPT !.rec = @ \ {k}, !.blocked = @ \ {k}]))
    /\ UNCHANGED editsEncrypt

\* _on_verify_toggled; the box is enabled for a list without a blocked recipient.
ToggleBox ==
    /\ OnEncrypt /\ enc.rec # {} /\ enc.blocked = {}
    /\ enc' = UpdateEncrypt(
                IF enc.box THEN Untick(enc)
                ELSE [enc EXCEPT !.box = TRUE, !.confirmed = TRUE, !.fresh = TRUE,
                                 !.ticked = enc.rec])
    /\ UNCHANGED editsEncrypt

\* _clear of the Encrypt page.
ClearEncrypt ==
    /\ OnEncrypt
    /\ enc' = NoEnc
    /\ UNCHANGED editsEncrypt

FirstFree(w) == work[w].at = "idle" /\ \A v \in 1..(w - 1) : work[v].at # "idle"

Submitted(w) ==
    work' = [work EXCEPT ![w] = [Idle EXCEPT !.kind = "encrypt", !.at = "start",
                 !.rec = enc.rec, !.trust = enc.confirmed, !.ticked = enc.ticked,
                 !.fresh = enc.fresh, !.refused = revoked \cap enc.rec]]

\* Mutant: the confirmation lasts for the next message.
SubmitEncrypt_KeepsConfirmation(w) ==
    /\ Running /\ FirstFree(w) /\ enc.button /\ EncryptCanSubmit(enc) /\ Begin
    /\ Submitted(w)
    /\ enc' = [enc EXCEPT !.button = FALSE, !.fresh = FALSE]
    /\ UNCHANGED <<keyring, dec, chosen, board, life>>

\* EncryptViewModel.submit: the confirmation is used up, though the box stays ticked.
SubmitEncrypt(w) ==
    /\ Running /\ FirstFree(w) /\ enc.button /\ EncryptCanSubmit(enc) /\ Begin
    /\ Submitted(w)
    /\ enc' = [enc EXCEPT !.button = FALSE, !.confirmed = FALSE, !.fresh = FALSE]
    /\ UNCHANGED <<keyring, dec, chosen, board, life>>

----------------------------------------------------------------------------
(* The keyring.                                                            *)

Revoke(k) ==
    /\ OnEncrypt /\ k \notin revoked /\ Begin
    /\ revoked' = revoked \cup {k}
    /\ UNCHANGED <<listed, enc, dec, chosen, board, work, life>>

\* _load_keys and _on_keys_loaded: the choice is filled anew, recipients stay as they are.
ListKeys ==
    /\ Running /\ listed # revoked
    /\ listed' = revoked
    /\ UNCHANGED <<revoked, enc, dec, chosen, board, work, life, ops>>

----------------------------------------------------------------------------
(* The Decrypt page.                                                       *)

editsDecrypt == <<keyring, enc, chosen, board, work, life, ops>>

\* _on_input_changed.
Paste(m) ==
    /\ OnDecrypt /\ dec.visible /\ m # dec.cipher
    /\ dec' = [dec EXCEPT !.cipher = m, !.button = TRUE]
    /\ UNCHANGED editsDecrypt

\* DecryptViewModel.submit or submit_with_secret.  A passphrase that was typed is
\* cleared after submit(), which enables the button again while the operation runs.
SubmitDecrypt(w) ==
    /\ Running /\ FirstFree(w) /\ dec.visible /\ dec.button /\ dec.cipher # NoMsg /\ Begin
    /\ work' = [work EXCEPT ![w] = [Idle EXCEPT !.kind = "decrypt", !.at = "start",
                                                !.msg = dec.cipher]]
    /\ \E typed \in BOOLEAN : dec' = [dec EXCEPT !.button = typed]
    /\ UNCHANGED <<keyring, enc, chosen, board, life>>

\* Mutant: the line about key and signature stays.
ClearOutput_KeepsLabel(d) == [d EXCEPT !.shown = NoMsg, !.timer = FALSE, !.late = FALSE]

ClearOutput(d) ==
    [d EXCEPT !.shown = NoMsg, !.label = NoMsg, !.timer = FALSE, !.late = FALSE]

\* _clear of the Decrypt page.
ClearDecrypt ==
    /\ OnDecrypt /\ dec.visible
    /\ dec' = [ClearOutput(dec) EXCEPT !.cipher = NoMsg, !.button = FALSE]
    /\ UNCHANGED editsDecrypt

\* The timer that _on_success started.
OutputTimeout ==
    /\ Running /\ dec.timer
    /\ dec' = ClearOutput(dec)
    /\ UNCHANGED editsDecrypt

\* Mutant: hiding the page leaves its output to the timer.
HideEvent_LeavesOutput ==
    /\ OnDecrypt /\ dec.visible
    /\ dec' = [dec EXCEPT !.visible = FALSE]
    /\ UNCHANGED editsDecrypt

\* hideEvent: another tab, or the window minimised.
HideEvent ==
    /\ OnDecrypt /\ dec.visible
    /\ dec' = [ClearOutput(dec) EXCEPT !.visible = FALSE]
    /\ UNCHANGED editsDecrypt

\* showEvent; its look for a card is modelled in Smartcard.
ShowEvent ==
    /\ OnDecrypt /\ ~dec.visible
    /\ dec' = [dec EXCEPT !.visible = TRUE, !.late = FALSE]
    /\ UNCHANGED editsDecrypt

----------------------------------------------------------------------------
(* The operations, on a worker.                                            *)

onWorker == <<keyring, enc, dec, chosen, board, life, ops>>

\* Mutant: the keys of a confirmed encryption are not looked up again.
PolicyAllows_Confirmed(w) == work[w].trust \/ work[w].rec \cap revoked = {}

\* enforce_recipient_policy.  Trust is always confirmed when the page asks.
PolicyAllows(w) == work[w].rec # {} /\ work[w].rec \cap revoked = {} /\ work[w].trust

\* MessageService.encrypt up to its gpg call; a decryption has nothing to check.
Check(w) ==
    /\ Running /\ work[w].at = "start"
    /\ work' = [work EXCEPT ![w].at =
                  IF work[w].kind = "decrypt" \/ PolicyAllows(w) THEN "checked" ELSE "failed"]
    /\ UNCHANGED onWorker

\* gpg's answer, and the result or the error of the service.
RunGpg(w) ==
    /\ Running /\ work[w].at = "checked"
    /\ \E at \in {"done", "failed"} : work' = [work EXCEPT ![w].at = at]
    /\ UNCHANGED onWorker

\* EncryptView._on_success and then _on_loading(False), which does not look for blocked
\* recipients.
EncryptReturns(w) ==
    /\ Running /\ work[w].kind = "encrypt" /\ work[w].at \in {"done", "failed"}
    /\ enc' = [enc EXCEPT !.out = @ \/ work[w].at = "done", !.button = EncryptCanSubmit(enc)]
    /\ work' = [work EXCEPT ![w] = Idle]
    /\ UNCHANGED <<keyring, dec, chosen, board, life, ops>>

\* Mutant: a page that is hidden does not start its timer.
Shown_TimerWhenVisible(m) ==
    [dec EXCEPT !.shown = m, !.label = m, !.timer = dec.timer \/ (seconds > 0 /\ dec.visible),
                !.late = ~dec.visible]

\* DecryptView._on_success: output, timer and the line about key and signature.
Shown(m) ==
    [dec EXCEPT !.shown = m, !.label = m, !.timer = dec.timer \/ seconds > 0,
                !.late = ~dec.visible]

\* _emit_success with take_result, or _on_error; then _on_loading(False).
DecryptReturns(w) ==
    /\ Running /\ work[w].kind = "decrypt" /\ work[w].at \in {"done", "failed"}
    /\ LET d == IF work[w].at = "done" THEN Shown(work[w].msg) ELSE dec
       IN  dec' = [d EXCEPT !.button = dec.cipher # NoMsg]
    /\ work' = [work EXCEPT ![w] = Idle]
    /\ UNCHANGED <<keyring, enc, chosen, board, life, ops>>

----------------------------------------------------------------------------
(* The clipboard.                                                          *)

pages == <<keyring, enc, dec, chosen, work>>

\* Mutant: a timer that runs already serves for the new text as well.
Schedule_Once(text) == IF pending = <<>> THEN <<text>> ELSE pending

\* The timer of a copy, with its snapshot.
Schedule(text) == Append(pending, text)

\* copy_text, from the Decrypt page or from the Encrypt page.
CopyText(text) ==
    /\ Running /\ Begin
    /\ clip' = [text |-> text, by |-> "app"]
    /\ pending' = IF seconds > 0 THEN Schedule(text) ELSE pending
    /\ UNCHANGED <<pages, life>>

CopyPlaintext == dec.visible /\ dec.shown # NoMsg /\ CopyText(dec.shown)
CopyCiphertext == enc.out /\ CopyText(Armor)

\* Ctrl+C in the output field does not pass through copy_text.
CopyByHand ==
    /\ Running /\ dec.visible /\ dec.shown # NoMsg
    /\ clip' = [text |-> dec.shown, by |-> "user"]
    /\ UNCHANGED <<pages, pending, life, ops>>

\* Another program takes the clipboard.
CopyElsewhere ==
    /\ clip.text # Foreign
    /\ clip' = [text |-> Foreign, by |-> "user"]
    /\ UNCHANGED <<pages, pending, life, ops>>

\* Mutant: the timer empties the clipboard whatever it holds.
ClearIfMatches_Always(snapshots) == [text |-> Nothing, by |-> "user"]

\* _clear_if_matches, for one snapshot or one after the other.
ClearIfMatches(snapshots) ==
    IF clip.text \in snapshots THEN [text |-> Nothing, by |-> "user"] ELSE clip

\* _clear: timers of one length may fire in any order.
ClearTimeout(i) ==
    /\ Running
    /\ clip' = ClearIfMatches({pending[i]})
    /\ pending' = RemoveAt(pending, i)
    /\ UNCHANGED <<pages, life, ops>>

\* The process is gone, and with it the pages, the operations and the timers.
Ends(how) ==
    /\ Running /\ life' = how
    /\ enc' = NoEnc /\ dec' = NoDec /\ work' = [w \in Worker |-> Idle] /\ pending' = <<>>
    /\ UNCHANGED <<keyring, chosen, ops>>

\* aboutToQuit runs flush_pending_clears.
Quit == Ends("quit") /\ clip' = ClearIfMatches(ToSet(pending))

\* The program is killed, or the session ends without aboutToQuit.
Kill == Ends("killed") /\ UNCHANGED clip

----------------------------------------------------------------------------
Init ==
    /\ revoked = {} /\ listed = {}
    /\ enc = NoEnc /\ dec = NoDec
    /\ tab \in {"encrypt", "decrypt"} /\ seconds \in {0, 1}
    /\ clip = [text |-> Nothing, by |-> "user"] /\ pending = <<>>
    /\ work = [w \in Worker |-> Idle]
    /\ life = "running" /\ ops = 0

User ==
    \/ TypePlaintext \/ ToggleBox \/ ClearEncrypt \/ ListKeys
    \/ \E k \in Key : AddRecipient(k) \/ RemoveRecipient(k) \/ Revoke(k)
    \/ \E m \in Msg : Paste(m)
    \/ ClearDecrypt \/ HideEvent \/ ShowEvent
    \/ CopyPlaintext \/ CopyCiphertext \/ CopyByHand \/ CopyElsewhere
    \/ \E w \in Worker : SubmitEncrypt(w) \/ SubmitDecrypt(w)
    \/ Quit \/ Kill

Operation(w) == Check(w) \/ RunGpg(w) \/ EncryptReturns(w) \/ DecryptReturns(w)
Timeouts == OutputTimeout \/ \E i \in DOMAIN pending : ClearTimeout(i)

Next == User \/ Timeouts \/ \E w \in Worker : Operation(w)

Spec == Init /\ [][Next]_vars

\* Timers that run fire, while the event loop does; workers come to an end.
FairSpec ==
    /\ Spec
    /\ WF_vars(OutputTimeout)
    /\ WF_vars(\E i \in DOMAIN pending : ClearTimeout(i))
    /\ \A w \in Worker : WF_vars(Operation(w))

----------------------------------------------------------------------------
(* Properties                                                              *)

\* EncryptViewModel.submit and _on_verify_toggled: each encryption had a tick of its own.
\* enforce_recipient_policy: whatever old entries the page offers and whenever its button
\* was enabled, there is no ciphertext for a key that was revoked when Encrypt was pressed.
RecipientsAreApproved ==
    \A w \in Worker : work[w].kind = "encrypt" =>
       /\ work[w].fresh
       /\ work[w].at = "done" => work[w].rec \cap work[w].refused = {}

\* help_view.py:128, the box confirms that "you checked each recipient's fingerprint before
\* encrypting", and its label, "I have verified the recipients listed above": everyone an
\* encryption is for was listed when the box was ticked.  False: _add_recipient leaves the
\* tick, and the confirmation behind it, as they are.
TickCoversAll ==
    \A w \in Worker : work[w].kind = "encrypt" => work[w].rec \subseteq work[w].ticked

\* DecryptView: the line that names key, signer and signature is about the plaintext shown.
\* hideEvent: "Scrub the decrypted plaintext when the tab/window is hidden or closed."  A
\* hidden page shows a plaintext only if its operation ended after the hiding, and then the
\* timer runs for it, unless it is turned off.
HiddenIsScrubbed ==
    /\ TypeOK
    /\ dec.label = dec.shown
    /\ dec.shown # NoMsg => /\ dec.visible \/ dec.late
                            /\ seconds > 0 => dec.timer

\* copy_text: while the program runs, a text that it put on the clipboard has a timer with
\* its snapshot; when it has been quit there is none left.
CopyHasTimer ==
    clip.by = "app" /\ seconds > 0 =>
       CASE life = "running" -> clip.text \in ToSet(pending)
         [] life = "quit" -> FALSE
         [] OTHER -> TRUE

\* _clear_if_matches: "we never wipe whatever the user copied afterwards".
ForeignIsLeft == [][clip.text = Foreign => clip'.text # Nothing]_vars

\* DecryptView._output_clear_timer and copy_text: with a delay set, a plaintext on the page
\* and a text on the clipboard are gone after a while, unless the program is killed.
SecretsAreWiped ==
    /\ seconds > 0 /\ dec.shown # NoMsg ~> dec.shown = NoMsg
    /\ seconds > 0 /\ clip.by = "app" ~> clip.by # "app" \/ life = "killed"
=============================================================================
