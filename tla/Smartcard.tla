------------------------------ MODULE Smartcard -----------------------------
(***************************************************************************)
(* The OpenPGP card: the smartcard panel and its dialogs                   *)
(* (ui/keys/smartcard_view.py, card_admin_view.py), the service behind     *)
(* them (services/smartcard_service.py), the answer scripts                *)
(* (services/card_scripts.py) with the thread that gives the answers       *)
(* (gpg_service.run_prompt_script), and a vault that is opened with the    *)
(* card (vault_service._unwrap_openpgp_slot).                              *)
(*                                                                         *)
(* The card and gpg's editors are external.  An editor asks its questions  *)
(* one by one; which secrets it asks for, and in which order, is not       *)
(* settled by the code ("which of them a given version asks with is        *)
(* exactly what we cannot pin down"): no passphrase for a key that has     *)
(* none, the PINs of a generation in either order, and at any time a       *)
(* question nobody expected.  A card is filled slot by slot, and may fail  *)
(* between two of them.  Menu answers, which have a queue of their own     *)
(* each, are left out.                                                     *)
(*                                                                         *)
(* The names of the specification begin with Card, so that one module can  *)
(* extend this one and VaultFile.                                          *)
(***************************************************************************)
EXTENDS Naturals, Sequences

CONSTANTS
    Card, NoCard,
    Slot,                           \* the slots of a card
    Key, NoKey,
    Job,                            \* workers of the dialogs
    Sync,                           \* workers of the panel
    UserPin, AdminPin, NewPin,      \* what people type
    Passphrase,                     \* of the keys on disk
    Local,                          \* the keys on disk in the beginning
    Held,                           \* Held[c]: the keys on card c in the beginning
    MaxTries,                       \* attempts before a PIN blocks
    MaxSlots,                       \* MAX_VAULT_KEY_SLOTS
    MaxSubmits, MaxSwaps            \* bounds

ASSUME CardAssumption ==
    /\ NoCard \notin Card /\ NoKey \notin Key /\ Slot # {} /\ Local \subseteq Key
    /\ Held \in [Card -> [Slot -> Key \cup {NoKey}]] /\ MaxTries \in Nat \ {0}
    /\ MaxSlots \in Nat /\ MaxSubmits \in Nat /\ MaxSwaps \in Nat

Text == {UserPin, AdminPin, NewPin, Passphrase}
Kind == {"user", "admin", "unblock", "move", "generate"}
Secret == {"user", "admin", "new", "phrase"}

\* parse_card_status: what the status of a card tells, or that there is none.
Keys == [Slot -> Key \cup {NoKey}]
Bare == [s \in Slot |-> NoKey]
CardInfo == [card : Card, slots : Keys]
NoInfo == [card |-> NoCard, slots |-> Bare]

\* One queued answer, with the field of the dialog it comes from.
Answer == [field : Secret, text : Text]

VARIABLES
    card,       \* card[c]: PINs, attempts left, keys
    inserted,   \* the card in the reader
    home,       \* home[k]: what the keyring has of key k
    panel,      \* SmartcardDialog._last_result.card
    sync,       \* sync[s]: a running SmartcardService.sync
    dlg,        \* the open dialog, with the card it was given
    job,        \* job[j]: an operation started by a dialog
    vault,      \* the opening of a vault with a PIN
    told,       \* told[j]: what the user was told of j's last operation
    event,      \* event[j]: the audit event of j's last operation
    lost,       \* history: keys overwritten on a card, whether REPLACE was typed, and
                \* whether the card has got the key since gpg looked at it
    changed,    \* history: the jobs whose last operation has changed a card
    whole,      \* history: those among them that have made the whole change
    submits, swaps

cardVars == <<card, inserted, home, panel, sync, dlg, job, vault, told, event, lost, changed,
              whole, submits, swaps>>
token == <<card, inserted, home>>
view == <<panel, sync, dlg>>
hist == <<told, event, lost, changed, whole>>
bounds == <<submits, swaps>>

NoEvent == [what |-> "-", unused |-> 0]
NoAnswer == [field |-> "-", text |-> "-"]
NoJob == [at |-> "idle", kind |-> "user", key |-> NoKey, overwrite |-> FALSE,
          into |-> {}, queue |-> <<>>, replace |-> "-", card |-> NoCard, found |-> Bare,
          todo |-> <<>>, fill |-> {},
          ask |-> "-", ans |-> NoAnswer, failed |-> FALSE, unanswered |-> FALSE]
NoDlg == [kind |-> "-", card |-> NoInfo, keys |-> {}, busy |-> {}]
Closed == [at |-> "idle", pin |-> UserPin, todo |-> <<>>]

Prompt == Secret \cup {"replace", "save", "other"}

\* A worker: what its dialog gave it, the card and the keys gpg found on it, the
\* questions to come, the slots to be written before the next, and the question that
\* has been answered.
JobState ==
    [at : {"idle", "check", "talk", "answered", "ended"}, kind : Kind, key : Key \cup {NoKey},
     overwrite : BOOLEAN, into : SUBSET Slot, queue : Seq(Answer), replace : {"-", "y", "n"},
     card : Card \cup {NoCard}, found : Keys, todo : Seq(Prompt), fill : SUBSET Slot,
     ask : Prompt \cup {"-"},
     ans : [field : Prompt \cup {"-"}, text : Text \cup {"-", "y", "n"}],
     failed : BOOLEAN, unanswered : BOOLEAN]

CardTypeOK ==
    /\ card \in [Card -> [user : Text, admin : Text, userTries : 0..MaxTries,
                          adminTries : 0..MaxTries, slots : Keys]]
    /\ inserted \in Card \cup {NoCard}
    /\ home \in [Key -> {"secret", "stub", "public", "none"}]
    /\ panel \in CardInfo \cup {NoInfo}
    /\ sync \in [Sync -> [at : {"idle", "probe", "deliver"}, card : CardInfo \cup {NoInfo}]]
    /\ dlg \in [kind : {"-", "pin", "move", "generate"}, card : CardInfo \cup {NoInfo},
                keys : SUBSET Key, busy : SUBSET Job]
    /\ job \in [Job -> JobState]
    /\ \A j \in Job : job[j].at = "idle" => job[j] = NoJob            \* wipe()
    /\ vault \in [at : {"idle", "open"}, pin : Text, todo : Seq(Key)]
    /\ told \in [Job -> {"-", "ok", "failed", "unexpected_prompt", "refused", "timeout"}]
    /\ event \in [Job -> [what : {"-", "ok", "failed", "unexpected_prompt"}, unused : Nat]]
    /\ changed \subseteq Job /\ whole \subseteq Job
    /\ submits \in 0..MaxSubmits /\ swaps \in 0..MaxSwaps

-----------------------------------------------------------------------------
\* gpg --card-status: the card, if there is one ...
Status == IF inserted = NoCard THEN NoInfo ELSE [card |-> inserted, slots |-> card[inserted].slots]

\* ... and a stub for each of its keys of which the keyring has the public key.
OnIt(c, k) == \E s \in Slot : card[c].slots[s] = k
Learned ==
    IF inserted = NoCard THEN home
    ELSE [k \in Key |-> IF OnIt(inserted, k) /\ home[k] = "public" THEN "stub" ELSE home[k]]

\* The card compares a PIN: the record after it, and whether it was right.
PinOk(c, which, text) ==
    IF which = "user" THEN card[c].userTries > 0 /\ card[c].user = text
                      ELSE card[c].adminTries > 0 /\ card[c].admin = text
Tried(c, which, text) ==
    LET left(n) == IF PinOk(c, which, text) THEN MaxTries ELSE IF n > 0 THEN n - 1 ELSE 0
    IN  IF which = "user" THEN [card[c] EXCEPT !.userTries = left(@)]
                          ELSE [card[c] EXCEPT !.adminTries = left(@)]

\* The questions an editor may ask, in order.
Questions(kind, occupied) ==
    CASE kind = "user"                 -> {<<"user", "new", "new">>}
      [] kind \in {"admin", "unblock"} -> {<<"admin", "new", "new">>}
      [] kind = "move" /\ occupied     -> {<<"replace", "phrase", "admin", "save">>,
                                           <<"replace", "admin", "save">>}
      [] kind = "move" /\ ~ occupied   -> {<<"phrase", "admin", "save">>, <<"admin", "save">>}
      [] kind = "generate" /\ occupied -> {<<"replace", "admin", "user">>,
                                           <<"replace", "user", "admin">>}
      [] kind = "generate" /\ ~ occupied -> {<<"admin", "user">>, <<"user", "admin">>}

\* Keys that never existed so far.
Fresh == {k \in Key : /\ home[k] = "none" /\ \A c \in Card : ~ OnIt(c, k)
                      /\ \A l \in lost : l.key # k}

-----------------------------------------------------------------------------
\* card_scripts: the queue shared by all prompts for a secret.
ChangePinScript(which, cur, new) ==
    <<[field |-> which, text |-> cur], [field |-> "new", text |-> new],
      [field |-> "new", text |-> new]>>
UnblockPinScript(admin, new) == ChangePinScript("admin", admin, new)
KeytocardScript(phrase, admin) ==
    <<[field |-> "phrase", text |-> phrase], [field |-> "admin", text |-> admin]>>
GenerateScript(admin, user) ==
    <<[field |-> "admin", text |-> admin], [field |-> "user", text |-> user]>>

\* The answer to "Replace existing keys?"; a move has none.
ReplaceAnswer_Yes(kind, overwrite) == IF kind # "generate" THEN "-" ELSE "y"
ReplaceAnswer(kind, overwrite) ==
    IF kind # "generate" THEN "-" ELSE IF overwrite THEN "y" ELSE "n"

NewJob(kind, key, into, overwrite, queue) ==
    [NoJob EXCEPT !.at = "check", !.kind = kind, !.key = key, !.into = into,
                  !.overwrite = overwrite, !.queue = queue, !.replace = ReplaceAnswer(kind, overwrite)]

CardInit ==
    /\ card = [c \in Card |-> [user |-> UserPin, admin |-> AdminPin, userTries |-> MaxTries,
                               adminTries |-> MaxTries, slots |-> Held[c]]]
    /\ inserted \in Card
    /\ home = [k \in Key |-> IF k \in Local THEN "secret"
                             ELSE IF \E c \in Card, s \in Slot : Held[c][s] = k THEN "public"
                             ELSE "none"]
    /\ panel = NoInfo
    /\ sync = [s \in Sync |-> [at |-> "idle", card |-> NoInfo]]
    /\ dlg = NoDlg
    /\ job = [j \in Job |-> NoJob]
    /\ vault = Closed
    /\ told = [j \in Job |-> "-"] /\ event = [j \in Job |-> NoEvent]
    /\ lost = {} /\ changed = {} /\ whole = {}
    /\ submits = 0 /\ swaps = 0

\* A token is plugged in, or pulled out.
Swap ==
    /\ swaps < MaxSwaps
    /\ \E c \in Card \cup {NoCard} : c # inserted /\ inserted' = c
    /\ swaps' = swaps + 1
    /\ UNCHANGED <<card, home, view, job, vault, hist, submits>>

-----------------------------------------------------------------------------
\* SmartcardDialog._start: one more worker runs sync().
StartSync ==
    \E s \in Sync : sync[s].at = "idle" /\ sync' = [sync EXCEPT ![s].at = "probe"]

\* "Refresh" and "Link card keys", enabled again by the first sync that finishes.
Refresh ==
    /\ dlg = NoDlg
    /\ StartSync
    /\ UNCHANGED <<token, panel, dlg, job, vault, hist, bounds>>

\* sync(): probe() ...
Probe(s) ==
    /\ sync[s].at = "probe"
    /\ sync' = [sync EXCEPT ![s] = [at |-> "deliver", card |-> Status]]
    /\ home' = Learned
    /\ UNCHANGED <<card, inserted, panel, dlg, job, vault, hist, bounds>>

\* ... then the listing of the card keys, which changes nothing, and _on_result
\* in the window: whichever result comes last stays.
Deliver(s) ==
    /\ sync[s].at = "deliver"
    /\ panel' = sync[s].card
    /\ sync' = [sync EXCEPT ![s] = [at |-> "idle", card |-> NoInfo]]
    /\ UNCHANGED <<token, dlg, job, vault, hist, bounds>>

\* The dialogs get the card the panel shows; the one for moving lists the keys
\* whose private half is on disk.
OpenDialog(kind) ==
    /\ dlg = NoDlg /\ panel # NoInfo
    /\ dlg' = [NoDlg EXCEPT !.kind = kind, !.card = panel,
                            !.keys = IF kind = "move" THEN {k \in Key : home[k] = "secret"} ELSE {}]
    /\ UNCHANGED <<token, panel, sync, job, vault, hist, bounds>>

\* Closing one leaves its worker alone, and reads the card again.
CloseDialog ==
    /\ dlg # NoDlg
    /\ dlg' = NoDlg
    /\ StartSync
    /\ UNCHANGED <<token, panel, job, vault, hist, bounds>>

\* _run: the worker starts, the button is disabled.
Submit(j, new) ==
    /\ dlg.busy = {} /\ submits < MaxSubmits
    /\ job[j] = NoJob
    /\ job' = [job EXCEPT ![j] = new]
    /\ dlg' = [dlg EXCEPT !.busy = {j}]
    /\ submits' = submits + 1
    /\ told' = [told EXCEPT ![j] = "-"] /\ event' = [event EXCEPT ![j] = NoEvent]
    /\ changed' = changed \ {j} /\ whole' = whole \ {j}
    /\ UNCHANGED <<token, panel, sync, vault, lost, swaps>>

\* ChangePinDialog._submit
SubmitPin(j) ==
    /\ dlg.kind = "pin"
    /\ \E mode \in {"user", "admin", "unblock"}, cur \in {UserPin, AdminPin} :
        Submit(j, NewJob(mode, NoKey, {}, FALSE,
            IF mode = "unblock" THEN UnblockPinScript(cur, NewPin)
                                ELSE ChangePinScript(mode, cur, NewPin)))

\* MoveKeyToCardDialog._submit, after MOVE and, if its card shows a key in the
\* slot, REPLACE.
SubmitMove(j) ==
    /\ dlg.kind = "move"
    /\ \E k \in dlg.keys, s \in Slot, admin \in {AdminPin, NewPin} :
        Submit(j, NewJob("move", k, {s}, dlg.card.slots[s] # NoKey,
                         KeytocardScript(Passphrase, admin)))

\* GenerateOnCardDialog._submit, after REPLACE if its card shows keys.
SubmitGenerate(j) ==
    /\ dlg.kind = "generate"
    /\ \E admin \in {AdminPin, NewPin}, user \in {UserPin, NewPin} :
        Submit(j, NewJob("generate", NoKey, Slot, dlg.card.slots # Bare,
                         GenerateScript(admin, user)))

-----------------------------------------------------------------------------
Set(j, r) == job' = [job EXCEPT ![j] = r]

\* The worker's signals reach its dialog, open or closed: the user is told, the
\* button comes back, and a changed PIN refreshes the panel.  The script is wiped.
Finish(j, what) ==
    /\ job' = [job EXCEPT ![j] = NoJob]
    /\ told' = [told EXCEPT ![j] = what]
    /\ dlg' = [dlg EXCEPT !.busy = @ \ {j}]
    /\ IF what = "ok" /\ job[j].kind \in {"user", "admin", "unblock"} /\ \E s \in Sync : sync[s].at = "idle"
       THEN StartSync ELSE UNCHANGED sync

\* move_key_to_card and generate_key_on_card look at the card first, unless
\* told to overwrite: a move needs a free slot, a generation no key.
LooksFirst(j) == job[j].kind \in {"move", "generate"} /\ ~ job[j].overwrite
Refused(j) ==
    /\ LooksFirst(j)
    /\ \/ \E s \in job[j].into : Status.slots[s] # NoKey
       \/ job[j].kind = "move" /\ Status = NoInfo

Check(j) ==
    /\ job[j].at = "check"
    /\ home' = IF LooksFirst(j) THEN Learned ELSE home
    /\ IF Refused(j) THEN Finish(j, "refused")
       ELSE Set(j, [job[j] EXCEPT !.at = "talk"]) /\ UNCHANGED <<dlg, sync, told>>
    /\ UNCHANGED <<card, inserted, panel, vault, event, lost, changed, whole, bounds>>

\* gpg starts and looks at the card, and at the key it is to move.
StartEditor(j) ==
    /\ job[j].at = "talk" /\ job[j].card = NoCard
    /\ IF inserted = NoCard \/ (job[j].kind = "move" /\ home[job[j].key] # "secret")
       THEN Set(j, [job[j] EXCEPT !.at = "ended", !.failed = TRUE])
       ELSE \E q \in Questions(job[j].kind, \E s \in job[j].into : card[inserted].slots[s] # NoKey) :
                Set(j, [job[j] EXCEPT !.card = inserted, !.found = card[inserted].slots, !.todo = q])
    /\ UNCHANGED <<token, view, vault, hist, bounds>>

\* PromptScript.take: the next answer for the keyword, if one is left.
Take(j, q) ==
    CASE q \in Secret /\ job[j].queue # <<>>    -> Head(job[j].queue)
      [] q = "replace" /\ job[j].replace # "-"  -> [field |-> q, text |-> job[j].replace]
      [] q = "save"                             -> [field |-> q, text |-> "y"]
      [] OTHER                                  -> NoAnswer

\* gpg asks the next question, or one that nobody scripted an answer for, and
\* waits; _answer_prompts answers, or closes the pipe, and gpg gives up.
AnswerPrompt(j) ==
    /\ job[j].at = "talk" /\ job[j].card # NoCard
    /\ \E q \in {"other"} \cup (IF job[j].todo = <<>> \/ job[j].fill # {} THEN {}
                              ELSE {Head(job[j].todo)}) :
        IF Take(j, q) = NoAnswer
        THEN Set(j, [job[j] EXCEPT !.at = "ended", !.unanswered = TRUE])
        ELSE Set(j, [job[j] EXCEPT !.at = "answered", !.ask = q, !.ans = Take(j, q),
                        !.queue = IF q \in Secret THEN Tail(@) ELSE @])
    /\ UNCHANGED <<token, view, vault, hist, bounds>>

-----------------------------------------------------------------------------
\* gpg goes on to the next question, or has failed and says so.
Goes(j, ok) ==
    IF ok THEN [job[j] EXCEPT !.at = "talk", !.todo = Tail(@), !.ask = "-", !.ans = NoAnswer]
          ELSE [job[j] EXCEPT !.at = "ended", !.failed = TRUE]

Answered(j, asks) == job[j].at = "answered" /\ job[j].ask \in asks
Present(j) == inserted = job[j].card
LastQuestion(j) == Len(job[j].todo) = 1

\* gpg passes a PIN on to the card.  After the last one it writes to the card.
WritesKey(j) == job[j].kind = "move" \/ (job[j].kind = "generate" /\ LastQuestion(j))

UsePin(j) ==
    /\ Answered(j, {"user", "admin"})
    /\ LET c  == job[j].card
           ok == Present(j) /\ PinOk(c, job[j].ask, job[j].ans.text)
       IN  /\ card' = IF Present(j)
                      THEN [card EXCEPT ![c] = Tried(c, job[j].ask, job[j].ans.text)] ELSE card
           /\ Set(j, IF ok /\ WritesKey(j) THEN [Goes(j, TRUE) EXCEPT !.fill = job[j].into]
                     ELSE Goes(j, ok))
    /\ UNCHANGED <<inserted, home, view, vault, hist, bounds>>

\* A key goes into slot s, over the one that is there.  The keyring gets the keys
\* of a generation when the last one is on the card.
WriteKey(j, c, s, k) ==
    /\ card' = [card EXCEPT ![c].slots[s] = k]
    /\ home' = IF job[j].kind = "generate" /\ job[j].fill = {s}
               THEN [i \in Key |-> IF home[i] = "none" /\ (i = k \/ \E t \in Slot \ {s} : card[c].slots[t] = i)
                                   THEN "stub" ELSE home[i]]
               ELSE home
    /\ lost' = IF card[c].slots[s] = NoKey THEN lost
               ELSE lost \cup {[key |-> card[c].slots[s], consent |-> job[j].overwrite,
                                raced |-> job[j].found[s] # card[c].slots[s]]}
    /\ changed' = changed \cup {j}
    /\ whole' = IF job[j].fill = {s} THEN whole \cup {j} ELSE whole
    /\ Set(j, [job[j] EXCEPT !.fill = @ \ {s}])

\* The next slot is written; or that fails, and what was written stays.
WriteSlot(j) ==
    /\ job[j].at = "talk" /\ job[j].fill # {}
    /\ \/ /\ Present(j)
          /\ \E s \in job[j].fill, k \in IF job[j].kind = "move" THEN {job[j].key} ELSE Fresh :
                WriteKey(j, job[j].card, s, k)
       \/ /\ Set(j, [job[j] EXCEPT !.at = "ended", !.failed = TRUE])
          /\ UNCHANGED <<card, home, lost, changed, whole>>
    /\ UNCHANGED <<inserted, view, vault, told, event, bounds>>

\* The new PIN, and its repetition.
UseNewPin(j) ==
    /\ Answered(j, {"new"})
    /\ IF Present(j) /\ LastQuestion(j)
       THEN /\ card' = [card EXCEPT ![inserted] =
                    CASE job[j].kind = "admin"   -> [@ EXCEPT !.admin = job[j].ans.text]
                      [] job[j].kind = "user"    -> [@ EXCEPT !.user = job[j].ans.text]
                      [] job[j].kind = "unblock" -> [@ EXCEPT !.user = job[j].ans.text,
                                                              !.userTries = MaxTries]]
            /\ changed' = changed \cup {j} /\ whole' = whole \cup {j}
       ELSE UNCHANGED <<card, changed, whole>>
    /\ Set(j, Goes(j, Present(j)))
    /\ UNCHANGED <<inserted, home, view, vault, told, event, lost, bounds>>

\* The passphrase of the key; a yes or no; "save", which makes the key on disk a
\* stub.  After a no gpg is back in its menu, without an error.
UseOther(j) ==
    /\ Answered(j, {"phrase", "replace", "save"})
    /\ home' = IF job[j].ask = "save" THEN [home EXCEPT ![job[j].key] = "stub"] ELSE home
    /\ Set(j, IF job[j].ask = "replace" /\ job[j].ans.text = "n"
              THEN [job[j] EXCEPT !.at = "ended"]
              ELSE Goes(j, job[j].ask = "phrase" => job[j].ans.text = Passphrase))
    /\ UNCHANGED <<card, inserted, view, vault, hist, bounds>>

\* The editor is through.
QuitEditor(j) ==
    /\ job[j].at = "talk" /\ job[j].card # NoCard /\ job[j].todo = <<>> /\ job[j].fill = {}
    /\ Set(j, [job[j] EXCEPT !.at = "ended"])
    /\ UNCHANGED <<token, view, vault, hist, bounds>>

\* _communicate: the timeout kills gpg and raises past everything else.
Timeout_Waits(j) ==
    /\ job[j].at = "ended" /\ job[j].unanswered /\ job[j].failed
    /\ Finish(j, "timeout")
    /\ UNCHANGED <<token, panel, vault, event, lost, changed, whole, bounds>>
Timeout(j) ==
    /\ job[j].at \in {"talk", "answered"}
    /\ Finish(j, "timeout")
    /\ UNCHANGED <<token, panel, vault, event, lost, changed, whole, bounds>>

\* _run_card_script: an unexpected prompt, a failure by status record, or a
\* success; leftover answers are recorded and are no failure.
Outcome_ReturnCode(j) == IF job[j].unanswered THEN "unexpected_prompt" ELSE "ok"
Outcome(j) ==
    CASE job[j].unanswered                       -> "unexpected_prompt"
      [] ~ job[j].unanswered /\ job[j].failed    -> "failed"
      [] OTHER                                   -> "ok"

\* ... and the audit event for it, if it can be written (emit_best_effort).
Emit(j, what) ==
    \/ event' = [event EXCEPT ![j] = [what |-> what, unused |-> Len(job[j].queue)]]
    \/ UNCHANGED event

Conclude(j) ==
    /\ job[j].at = "ended"
    /\ Emit(j, Outcome(j))
    /\ Finish(j, Outcome(j))
    /\ UNCHANGED <<token, panel, vault, lost, changed, whole, bounds>>

-----------------------------------------------------------------------------
\* VaultHeader.key_slots: a list for any keys there are, one of them twice or not.
SlotLists == UNION {[1..n -> Key \ Fresh] : n \in 1..MaxSlots}

\* A vault with such slots is opened with a PIN.
OpenVault ==
    /\ vault = Closed /\ submits < MaxSubmits /\ dlg = NoDlg
    /\ \E pin \in {UserPin, NewPin}, slots \in SlotLists :
        vault' = [at |-> "open", pin |-> pin, todo |-> slots]
    /\ submits' = submits + 1
    /\ UNCHANGED <<token, view, job, hist, swaps>>

\* gpg asks a card for its PIN if it is there and holds the key.
Asked(k) == home[k] = "stub" /\ inserted # NoCard /\ OnIt(inserted, k)

\* _unwrap_openpgp_slot: the next slot; any failure leads on to the one after it,
\* a rejected PIN too.
UnwrapSlot ==
    /\ vault.at = "open" /\ vault.todo # <<>>
    /\ \/ /\ ~ Asked(Head(vault.todo))
          /\ vault' = [vault EXCEPT !.todo = Tail(@)]
          /\ UNCHANGED card
       \/ /\ Asked(Head(vault.todo))
          /\ card' = [card EXCEPT ![inserted] = Tried(inserted, "user", vault.pin)]
          /\ vault' = IF PinOk(inserted, "user", vault.pin) THEN Closed
                      ELSE [vault EXCEPT !.todo = Tail(@)]
    /\ UNCHANGED <<inserted, home, view, job, hist, bounds>>

\* No slot could be opened: the last error is raised.
GiveUp ==
    /\ vault.at = "open" /\ vault.todo = <<>>
    /\ vault' = Closed
    /\ UNCHANGED <<token, view, job, hist, bounds>>

Panel == Refresh \/ CloseDialog
         \/ \E kind \in {"pin", "move", "generate"} : OpenDialog(kind)
Syncs == \E s \in Sync : Probe(s) \/ Deliver(s)
User(j) == SubmitPin(j) \/ SubmitMove(j) \/ SubmitGenerate(j)
Worker(j) == Check(j) \/ Timeout(j) \/ Conclude(j)
Editor(j) == StartEditor(j) \/ AnswerPrompt(j) \/ UsePin(j) \/ WriteSlot(j) \/ UseNewPin(j)
             \/ UseOther(j) \/ QuitEditor(j)
Vault == OpenVault \/ UnwrapSlot \/ GiveUp

CardNext == Swap \/ Panel \/ Syncs \/ Vault \/ \E j \in Job : User(j) \/ Worker(j) \/ Editor(j)

CardSpec == CardInit /\ [][CardNext]_cardVars

\* The workers are scheduled, and every run of gpg has its timeout; gpg may hang,
\* the user may leave things as they are.
CardFairSpec ==
    /\ CardSpec
    /\ \A j \in Job : WF_cardVars(Worker(j))
    /\ WF_cardVars(UnwrapSlot \/ GiveUp)

-----------------------------------------------------------------------------
\* The private half of a key is always on disk or on a card, unless it was
\* overwritten on a card by an operation for which REPLACE had been typed, or by
\* one that ran while another put the key there: a dialog that is closed leaves
\* its worker running.  Neither a panel that shows an older state or another card,
\* nor a card that is exchanged or filled between the look at it and the run,
\* makes a difference.
NoKeyVanishes ==
    /\ CardTypeOK
    /\ \A l \in lost : l.consent \/ l.raced
    /\ \A k \in Key \ Fresh :
        \/ home[k] = "secret" \/ (\E c \in Card : OnIt(c, k))
        \/ \E l \in lost : l.key = k

\* What the audit log and the user learn.  An "ok" in the log without answers left
\* over means that the whole change was made.  A failure is never shown for an
\* operation that made the whole change (a generation may have filled some slots),
\* and "refused" for none that changed anything.  The log may lack the event: of
\* what timed out, and of what could not be written.
ReportIsHonest ==
    \A j \in Job :
        /\ event[j].what = "ok" /\ event[j].unused = 0 => j \in whole
        /\ told[j] = "failed" => j \notin whole
        /\ told[j] = "refused" => j \notin changed

\* An operation of a dialog comes to its end, also if gpg waits forever, and so
\* does the opening of a vault, whatever slots it has and whatever PIN is wrong.
JobEnds ==
    /\ \A j \in Job : job[j] # NoJob ~> job[j] = NoJob
    /\ vault # Closed ~> vault = Closed

-----------------------------------------------------------------------------
\* What the repository says and the code does not do.

\* The success message means that the operation has happened: "GnuPG exits 0 for
\* several card errors, so the status records - not the return code - decide
\* whether an operation actually happened" (card_scripts.py, card_operation_failed).
\* A "no" to a question for keys that were not there when the service looked ends
\* the editor without a failure record: "The card generated its keys."
OkMeansDone == \A j \in Job : told[j] = "ok" => j \in whole

\* An answer is for the question it is given to: "Answers are therefore keyed by
\* that keyword rather than supplied as a flat list of lines" (card_scripts.py).
\* All secrets share one queue: the passphrase of a key that has none is given as
\* the admin PIN.
AnswerIsForQuestion ==
    \A j \in Job : job[j].at = "answered" => job[j].ans.field = job[j].ask

=============================================================================
