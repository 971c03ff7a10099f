--------------------------- MODULE MessagesProofs ---------------------------
(***************************************************************************)
(* Proofs about Messages for any keys, messages, workers and bounds, and   *)
(* about GpgRun, the run of gpg below it, for any number of signatures.    *)
(***************************************************************************)
EXTENDS Messages, GpgRun, WellFoundedInduction, NaturalsInduction, TLAPS

\* The Encrypt page.  A confirmation that still counts was given for this message.
EncPage ==
    [rec : SUBSET Key, blocked : SUBSET Key, text : BOOLEAN, box : BOOLEAN,
     confirmed : BOOLEAN, button : BOOLEAN, out : BOOLEAN,
     ticked : SUBSET Key, fresh : BOOLEAN]
EncOK ==
    /\ enc \in EncPage
    /\ enc.blocked \subseteq enc.rec
    /\ enc.confirmed => enc.box /\ enc.fresh

\* The Decrypt page.
DecPage ==
    [cipher : Msg \cup {NoMsg}, shown : Msg \cup {NoMsg}, label : Msg \cup {NoMsg},
     timer : BOOLEAN, visible : BOOLEAN, late : BOOLEAN, button : BOOLEAN]
DecOK ==
    /\ dec \in DecPage
    /\ dec.label = dec.shown
    /\ dec.shown # NoMsg => /\ dec.visible \/ dec.late
                            /\ seconds > 0 => dec.timer

\* An operation.  From enforce_recipient_policy on, none of its recipients is one
\* that was revoked when it was asked for; a revocation is not taken back.
Work ==
    [kind : {"-", "encrypt", "decrypt"}, at : {"idle", "start", "checked", "done", "failed"},
     rec : SUBSET Key, trust : BOOLEAN, msg : Msg \cup {NoMsg},
     ticked : SUBSET Key, fresh : BOOLEAN, refused : SUBSET Key]
WorkOK ==
    /\ work \in [Worker -> Work]
    /\ \A w \in Worker : work[w].kind = "encrypt" =>
          /\ work[w].fresh
          /\ work[w].refused \subseteq revoked
          /\ work[w].at \in {"checked", "done"} => work[w].rec \cap work[w].refused = {}

\* The clipboard and the timers.
ClipOK ==
    /\ clip \in [text : Msg \cup {Armor, Foreign, Nothing}, by : {"app", "user"}]
    /\ pending \in Seq(Msg \cup {Armor})
    /\ seconds = 0 => pending = <<>>
    /\ CopyHasTimer

\* The rest.
RestOK ==
    /\ revoked \subseteq Key /\ listed \subseteq revoked
    /\ tab \in {"encrypt", "decrypt"} /\ seconds \in {0, 1}
    /\ life \in {"running", "quit", "killed"}
    /\ ops \in Nat

\* The inductive invariant.
IInv == EncOK /\ DecOK /\ WorkOK /\ ClipOK /\ RestOK

-----------------------------------------------------------------------------
\* A copy adds its own snapshot to the timers.
LEMMA TimerAdded ==
  ASSUME NEW S, NEW s \in Seq(S), NEW x \in S
  PROVE  Append(s, x) \in Seq(S) /\ ToSet(Append(s, x)) = ToSet(s) \cup {x}
<1>1. /\ Append(s, x) \in Seq(S) /\ Len(Append(s, x)) = Len(s) + 1
      /\ \A i \in 1..Len(s) : Append(s, x)[i] = s[i]
      /\ Append(s, x)[Len(s) + 1] = x
  OBVIOUS
<1>2. DOMAIN s = 1..Len(s) /\ DOMAIN Append(s, x) = 1..Len(s) + 1 /\ Len(s) \in Nat
  BY <1>1
<1>3. 1..Len(s) + 1 = 1..Len(s) \cup {Len(s) + 1}
  BY <1>2
<1>4. QED
  BY <1>1, <1>2, <1>3 DEF ToSet

\* A timer that fires takes its own snapshot with it and no other.
LEMMA TimerRemoved ==
  ASSUME NEW S, NEW s \in Seq(S), NEW i \in DOMAIN s
  PROVE  /\ RemoveAt(s, i) \in Seq(S)
         /\ \A x \in ToSet(s) : x # s[i] => x \in ToSet(RemoveAt(s, i))
<1>1. i \in 1..Len(s) /\ Len(s) \in Nat
  OBVIOUS
<1> DEFINE a == SubSeq(s, 1, i - 1)
           b == SubSeq(s, i + 1, Len(s))
<1>2. a \in Seq(S) /\ Len(a) = i - 1 /\ \A j \in 1..i - 1 : a[j] = s[j]
  BY <1>1
<1>3. b \in Seq(S) /\ Len(b) = Len(s) - i /\ \A j \in 1..Len(s) - i : b[j] = s[i + j]
  BY <1>1
<1>4. RemoveAt(s, i) = a \o b
  BY DEF RemoveAt
<1> HIDE DEF a, b
<1>5. /\ a \o b \in Seq(S) /\ Len(a \o b) = Len(s) - 1
      /\ \A j \in 1..Len(s) - 1 :
            (a \o b)[j] = IF j <= i - 1 THEN a[j] ELSE b[j - (i - 1)]
  BY <1>1, <1>2, <1>3
<1>6. ASSUME NEW j \in 1..Len(s), j # i
      PROVE  \E m \in 1..Len(s) - 1 : (a \o b)[m] = s[j]
  <2>1. CASE j < i
    <3>1. j \in 1..Len(s) - 1 /\ j \in 1..i - 1 /\ j <= i - 1
      BY <1>1, <2>1
    <3>2. (a \o b)[j] = s[j]
      BY <1>2, <1>5, <3>1
    <3>3. QED
      BY <3>1, <3>2
  <2>2. CASE j > i
    <3>1. /\ j - 1 \in 1..Len(s) - 1 /\ j - i \in 1..Len(s) - i
          /\ ~ (j - 1 <= i - 1) /\ (j - 1) - (i - 1) = j - i /\ i + (j - i) = j
      BY <1>1, <2>2
    <3>2. (a \o b)[j - 1] = b[j - i]
      BY <1>5, <3>1
    <3>3. b[j - i] = s[j]
      BY <1>3, <3>1
    <3>4. QED
      BY <3>1, <3>2, <3>3
  <2>3. j < i \/ j > i
    BY <1>1, <1>6
  <2>4. QED
    BY <2>1, <2>2, <2>3
<1>7. DOMAIN (a \o b) = 1..Len(s) - 1 /\ DOMAIN s = 1..Len(s)
  BY <1>1, <1>5
<1>8. ASSUME NEW x \in ToSet(s), x # s[i] PROVE x \in ToSet(a \o b)
  <2>1. PICK j \in 1..Len(s) : x = s[j] /\ j # i
    BY <1>7, <1>8 DEF ToSet
  <2>2. PICK m \in 1..Len(s) - 1 : (a \o b)[m] = s[j]
    BY <1>6, <2>1
  <2>3. QED
    BY <1>7, <2>1, <2>2 DEF ToSet
<1>9. QED
  BY <1>4, <1>5, <1>8

-----------------------------------------------------------------------------
\* What _update_encrypt_button leaves alone.
LEMMA UpdateFacts ==
  ASSUME NEW e \in EncPage
  PROVE  LET u == UpdateEncrypt(e)
         IN  /\ u \in EncPage /\ u.rec = e.rec /\ u.blocked = e.blocked
             /\ u.box = e.box /\ u.confirmed = e.confirmed
             /\ u.ticked = e.ticked /\ u.fresh = e.fresh
<1>1. (EncryptCanSubmit(e) /\ e.blocked = {}) \in BOOLEAN
  BY DEF EncryptCanSubmit, EncPage
<1>2. PICK b \in BOOLEAN : b = (EncryptCanSubmit(e) /\ e.blocked = {})
  BY <1>1
<1>3. UpdateEncrypt(e) = [e EXCEPT !.button = b]
  BY <1>2 DEF UpdateEncrypt
<1>4. QED
  BY <1>3 DEF EncPage

\* A step of the Encrypt page that concerns nothing else.
LEMMA EncryptEdit ==
  ASSUME IInv, UNCHANGED editsEncrypt, EncOK' PROVE IInv'
  BY DEF IInv, editsEncrypt, keyring, chosen, board, DecOK, WorkOK, ClipOK,
     RestOK, CopyHasTimer

\* The same for the Decrypt page.
LEMMA DecryptEdit ==
  ASSUME IInv, UNCHANGED editsDecrypt, DecOK' PROVE IInv'
  BY DEF IInv, editsDecrypt, keyring, chosen, board, EncOK, WorkOK, ClipOK,
     RestOK, CopyHasTimer

\* The edits of the Encrypt page.
LEMMA StepEncryptPage ==
  ASSUME IInv,
         \/ TypePlaintext \/ ToggleBox \/ ClearEncrypt
         \/ \E k \in Key : AddRecipient(k) \/ RemoveRecipient(k)
  PROVE  IInv'
<1>0. enc \in EncPage /\ EncOK /\ RestOK
  BY DEF IInv, EncOK
<1>1. CASE TypePlaintext
  <2> DEFINE e == [enc EXCEPT !.text = TRUE]
  <2>1. /\ e \in EncPage /\ e.rec = enc.rec /\ e.blocked = enc.blocked
        /\ e.box = enc.box /\ e.confirmed = enc.confirmed
        /\ e.ticked = enc.ticked /\ e.fresh = enc.fresh
    BY <1>0 DEF EncPage
  <2> HIDE DEF e
  <2>2. EncOK'
    BY <1>0, <1>1, <2>1, UpdateFacts DEF TypePlaintext, EncOK, e
  <2>3. QED
    BY <1>1, <2>2, EncryptEdit DEF TypePlaintext
<1>2. ASSUME NEW k \in Key, AddRecipient(k) PROVE IInv'
  <2> DEFINE e == [enc EXCEPT !.rec = @ \cup {k}, !.blocked = @ \cup (listed \cap {k})]
  <2>1. /\ e \in EncPage /\ e.rec = enc.rec \cup {k} /\ e.blocked \subseteq enc.blocked \cup {k}
        /\ e.box = enc.box /\ e.confirmed = enc.confirmed
        /\ e.ticked = enc.ticked /\ e.fresh = enc.fresh
    BY <1>0 DEF EncPage
  <2>2. enc' = UpdateEncrypt(e)
    BY <1>2 DEF AddRecipient
  <2> HIDE DEF e
  <2>3. EncOK'
    BY <1>0, <2>1, <2>2, UpdateFacts DEF EncOK
  <2>4. QED
    BY <1>2, <2>3, EncryptEdit DEF AddRecipient
<1>3. ASSUME NEW k \in Key, RemoveRecipient(k) PROVE IInv'
  <2> DEFINE e == Untick([enc EXCEPT !.rec = @ \ {k}, !.blocked = @ \ {k}])
  <2>1. /\ e \in EncPage /\ e.rec = enc.rec \ {k} /\ e.blocked = enc.blocked \ {k}
        /\ ~ e.confirmed
    BY <1>0 DEF EncPage, Untick
  <2>2. enc' = UpdateEncrypt(e)
    BY <1>3 DEF RemoveRecipient
  <2> HIDE DEF e
  <2>3. EncOK'
    BY <1>0, <2>1, <2>2, UpdateFacts DEF EncOK
  <2>4. QED
    BY <1>3, <2>3, EncryptEdit DEF RemoveRecipient
<1>4. CASE ToggleBox
  <2> DEFINE e == IF enc.box THEN Untick(enc)
                  ELSE [enc EXCEPT !.box = TRUE, !.confirmed = TRUE, !.fresh = TRUE,
                                   !.ticked = enc.rec]
  <2>1. /\ e \in EncPage /\ e.rec = enc.rec /\ e.blocked = enc.blocked
        /\ e.confirmed => e.box /\ e.fresh /\ e.ticked \subseteq e.rec
    BY <1>0 DEF EncPage, Untick
  <2>2. enc' = UpdateEncrypt(e)
    BY <1>4 DEF ToggleBox
  <2> HIDE DEF e
  <2>3. EncOK'
    BY <1>0, <2>1, <2>2, UpdateFacts DEF EncOK
  <2>4. QED
    BY <1>4, <2>3, EncryptEdit DEF ToggleBox
<1>5. CASE ClearEncrypt
  <2>1. EncOK'
    BY <1>5 DEF ClearEncrypt, NoEnc, EncOK, EncPage
  <2>2. QED
    BY <1>5, <2>1, EncryptEdit DEF ClearEncrypt
<1>6. QED
  BY <1>1, <1>2, <1>3, <1>4, <1>5

\* The edits of the Decrypt page, its hiding and showing, and its timer.
LEMMA StepDecryptPage ==
  ASSUME IInv,
         \/ \E m \in Msg : Paste(m)
         \/ ClearDecrypt \/ HideEvent \/ ShowEvent \/ OutputTimeout
  PROVE  IInv'
<1>0. DecOK
  BY DEF IInv
<1>1. ASSUME NEW m \in Msg, Paste(m) PROVE IInv'
  <2>1. DecOK'
    BY <1>0, <1>1 DEF Paste, DecOK, DecPage, editsDecrypt, chosen
  <2>2. QED
    BY <1>1, <2>1, DecryptEdit DEF Paste
<1>2. CASE ClearDecrypt
  <2>1. DecOK'
    BY <1>0, <1>2 DEF ClearDecrypt, ClearOutput, DecOK, DecPage
  <2>2. QED
    BY <1>2, <2>1, DecryptEdit DEF ClearDecrypt
<1>3. CASE HideEvent
  <2>1. DecOK'
    BY <1>0, <1>3 DEF HideEvent, ClearOutput, DecOK, DecPage
  <2>2. QED
    BY <1>3, <2>1, DecryptEdit DEF HideEvent
<1>4. CASE ShowEvent
  <2>1. DecOK'
    BY <1>0, <1>4 DEF ShowEvent, DecOK, DecPage, editsDecrypt, chosen
  <2>2. QED
    BY <1>4, <2>1, DecryptEdit DEF ShowEvent
<1>5. CASE OutputTimeout
  <2>1. DecOK'
    BY <1>0, <1>5 DEF OutputTimeout, ClearOutput, DecOK, DecPage
  <2>2. QED
    BY <1>5, <2>1, DecryptEdit DEF OutputTimeout
<1>6. QED
  BY <1>1, <1>2, <1>3, <1>4, <1>5

-----------------------------------------------------------------------------
\* A worker that is idle.
LEMMA IdleFacts == Idle \in Work /\ Idle.kind = "-"
  BY DEF Idle, Work

\* A worker goes over to a state that is in order.
LEMMA WorkStep ==
  ASSUME WorkOK, NEW w \in Worker, NEW j \in Work, work' = [work EXCEPT ![w] = j],
         revoked \subseteq revoked',
         j.kind = "encrypt" =>
            /\ j.fresh /\ j.refused \subseteq revoked
            /\ j.at \in {"checked", "done"} => j.rec \cap j.refused = {}
  PROVE  WorkOK'
<1>1. work' \in [Worker -> Work] /\ work'[w] = j
      /\ \A v \in Worker \ {w} : work'[v] = work[v]
  BY DEF WorkOK
<1>2. ASSUME NEW v \in Worker, work'[v].kind = "encrypt"
      PROVE  /\ work'[v].fresh
             /\ work'[v].refused \subseteq revoked'
             /\ work'[v].at \in {"checked", "done"}
                    => work'[v].rec \cap work'[v].refused = {}
  <2>1. CASE v = w
    BY <1>1, <1>2, <2>1
  <2>2. CASE v # w
    BY <1>1, <1>2, <2>2 DEF WorkOK
  <2>3. QED
    BY <2>1, <2>2
<1>3. QED
  BY <1>1, <1>2 DEF WorkOK

\* EncryptViewModel.submit takes the confirmation along and uses it up.
LEMMA StepSubmitEncrypt ==
  ASSUME IInv, NEW w \in Worker, SubmitEncrypt(w) PROVE IInv'
<1> DEFINE j == [Idle EXCEPT !.kind = "encrypt", !.at = "start",
                    !.rec = enc.rec, !.trust = enc.confirmed, !.ticked = enc.ticked,
                    !.fresh = enc.fresh, !.refused = revoked \cap enc.rec]
<1>1. EncOK /\ WorkOK /\ RestOK /\ enc.confirmed
  BY DEF IInv, SubmitEncrypt, EncryptCanSubmit
<1>2. /\ j \in Work /\ j.at = "start" /\ j.fresh = enc.fresh
      /\ j.ticked = enc.ticked /\ j.rec = enc.rec /\ j.refused \subseteq revoked
  BY <1>1, IdleFacts DEF Idle, Work, EncOK, EncPage, RestOK
<1>3. work' = [work EXCEPT ![w] = j] /\ UNCHANGED <<keyring, dec, chosen, board, life>>
  BY DEF SubmitEncrypt, Submitted
<1> HIDE DEF j
<1>4. WorkOK'
  BY <1>1, <1>2, <1>3, WorkStep DEF EncOK, keyring
<1>5. EncOK'
  BY <1>1 DEF SubmitEncrypt, EncOK, EncPage
<1>6. RestOK'
  BY <1>1, <1>3 DEF SubmitEncrypt, Begin, RestOK, keyring, chosen
<1>7. DecOK' /\ ClipOK'
  BY <1>3 DEF IInv, DecOK, ClipOK, CopyHasTimer, keyring, chosen, board
<1>8. QED
  BY <1>4, <1>5, <1>6, <1>7 DEF IInv

\* DecryptViewModel.submit.
LEMMA StepSubmitDecrypt ==
  ASSUME IInv, NEW w \in Worker, SubmitDecrypt(w) PROVE IInv'
<1> DEFINE j == [Idle EXCEPT !.kind = "decrypt", !.at = "start", !.msg = dec.cipher]
<1>1. DecOK /\ WorkOK /\ RestOK
  BY DEF IInv
<1>2. j \in Work /\ j.kind = "decrypt"
  BY <1>1, IdleFacts DEF Idle, Work, DecOK, DecPage
<1>3. work' = [work EXCEPT ![w] = j] /\ UNCHANGED <<keyring, enc, chosen, board, life>>
  BY DEF SubmitDecrypt
<1> HIDE DEF j
<1>4. WorkOK'
  BY <1>1, <1>2, <1>3, WorkStep DEF keyring
<1>5. DecOK'
  BY <1>1, <1>3 DEF SubmitDecrypt, DecOK, DecPage, chosen
<1>6. RestOK'
  BY <1>1, <1>3 DEF SubmitDecrypt, Begin, RestOK, keyring, chosen
<1>7. EncOK' /\ ClipOK'
  BY <1>3 DEF IInv, EncOK, ClipOK, CopyHasTimer, keyring, chosen, board
<1>8. QED
  BY <1>4, <1>5, <1>6, <1>7 DEF IInv

\* The keyring: a revocation, and a look at it.
LEMMA StepKeyring ==
  ASSUME IInv, ListKeys \/ \E k \in Key : Revoke(k) PROVE IInv'
<1>1. revoked \subseteq revoked' /\ RestOK'
  BY DEF IInv, RestOK, ListKeys, Revoke, Begin, chosen
<1>2. UNCHANGED <<enc, dec, tab, seconds, clip, pending, work, life>>
  BY DEF ListKeys, Revoke, chosen, board
<1>3. WorkOK'
  BY <1>1, <1>2 DEF IInv, WorkOK
<1>4. EncOK' /\ DecOK' /\ ClipOK'
  BY <1>2 DEF IInv, EncOK, DecOK, ClipOK, CopyHasTimer
<1>5. QED
  BY <1>1, <1>3, <1>4 DEF IInv

\* A step of an operation that the pages do not see yet.
LEMMA StepOperation ==
  ASSUME IInv, NEW w \in Worker, Check(w) \/ RunGpg(w) PROVE IInv'
<1>1. WorkOK /\ work[w] \in Work /\ UNCHANGED onWorker
  BY DEF IInv, WorkOK, Check, RunGpg
<1>2. PICK at \in {"checked", "done", "failed"} :
         /\ work' = [work EXCEPT ![w].at = at]
         /\ work[w].kind = "encrypt" /\ at \in {"checked", "done"} =>
               \/ work[w].at = "checked"
               \/ work[w].rec \cap revoked = {}
  BY DEF Check, RunGpg, PolicyAllows
<1> DEFINE j == [work[w] EXCEPT !.at = at]
<1>3. /\ j \in Work /\ j.at = at /\ j.kind = work[w].kind /\ j.fresh = work[w].fresh
      /\ j.ticked = work[w].ticked /\ j.rec = work[w].rec
      /\ j.refused = work[w].refused
  BY <1>1 DEF Work
<1>4. work' = [work EXCEPT ![w] = j]
  BY <1>2
<1> HIDE DEF j
<1>5. j.kind = "encrypt" =>
         /\ j.fresh /\ j.refused \subseteq revoked
         /\ j.at \in {"checked", "done"} => j.rec \cap j.refused = {}
  BY <1>1, <1>2, <1>3 DEF WorkOK
<1>6. WorkOK'
  BY <1>1, <1>3, <1>4, <1>5, WorkStep DEF onWorker, keyring
<1>7. EncOK' /\ DecOK' /\ ClipOK' /\ RestOK'
  BY <1>1 DEF IInv, EncOK, DecOK, ClipOK, RestOK, CopyHasTimer, onWorker, keyring,
     chosen, board
<1>8. QED
  BY <1>6, <1>7 DEF IInv

\* The result of an encryption arrives.
LEMMA StepEncryptReturns ==
  ASSUME IInv, NEW w \in Worker, EncryptReturns(w) PROVE IInv'
<1>1. EncOK /\ WorkOK /\ UNCHANGED <<keyring, dec, chosen, board, life, ops>>
  BY DEF IInv, EncryptReturns
<1>2. WorkOK'
  BY <1>1, IdleFacts, WorkStep DEF EncryptReturns, keyring
<1>3. EncOK'
  <2>1. PICK b \in BOOLEAN, o \in BOOLEAN :
           enc' = [enc EXCEPT !.out = o, !.button = b]
    <3>1. (enc.out \/ work[w].at = "done") \in BOOLEAN /\ EncryptCanSubmit(enc) \in BOOLEAN
      BY <1>1 DEF EncOK, EncPage, EncryptCanSubmit
    <3>2. QED
      BY <3>1 DEF EncryptReturns
  <2>2. QED
    BY <1>1, <2>1 DEF EncOK, EncPage
<1>4. DecOK' /\ ClipOK' /\ RestOK'
  BY <1>1 DEF IInv, DecOK, ClipOK, RestOK, CopyHasTimer, keyring, chosen, board
<1>5. QED
  BY <1>2, <1>3, <1>4 DEF IInv

\* The result of a decryption arrives, on a page that may be hidden by now.
LEMMA StepDecryptReturns ==
  ASSUME IInv, NEW w \in Worker, DecryptReturns(w) PROVE IInv'
<1>1. DecOK /\ WorkOK /\ RestOK /\ UNCHANGED <<keyring, enc, chosen, board, life, ops>>
  BY DEF IInv, DecryptReturns
<1>2. WorkOK'
  BY <1>1, IdleFacts, WorkStep DEF DecryptReturns, keyring
<1>3. DecOK'
  <2>1. PICK m : m = work[w].msg
    OBVIOUS
  <2>2. m \in Msg \cup {NoMsg}
    BY <1>1, <2>1 DEF WorkOK, Work
  <2>3. PICK b \in BOOLEAN : b = (dec.cipher # NoMsg)
    OBVIOUS
  <2>4. PICK c \in BOOLEAN : c = (dec.timer \/ seconds > 0)
    OBVIOUS
  <2>5. PICK l \in BOOLEAN : l = ~ dec.visible
    OBVIOUS
  <2>6. \/ dec' = [dec EXCEPT !.button = b]
        \/ dec' = [dec EXCEPT !.shown = m, !.label = m, !.timer = c, !.late = l, !.button = b]
    BY <1>1, <2>1, <2>3, <2>4, <2>5 DEF DecryptReturns, Shown, DecOK, DecPage
  <2>7. seconds' = seconds
    BY <1>1 DEF chosen
  <2>8. CASE dec' = [dec EXCEPT !.button = b]
    BY <1>1, <2>7, <2>8 DEF DecOK, DecPage
  <2>9. CASE dec' = [dec EXCEPT !.shown = m, !.label = m, !.timer = c, !.late = l, !.button = b]
    BY <1>1, <2>2, <2>4, <2>5, <2>7, <2>9 DEF DecOK, DecPage
  <2>10. QED
    BY <2>6, <2>8, <2>9
<1>4. EncOK' /\ ClipOK' /\ RestOK'
  BY <1>1 DEF IInv, EncOK, ClipOK, RestOK, CopyHasTimer, keyring, chosen, board
<1>5. QED
  BY <1>2, <1>3, <1>4 DEF IInv

-----------------------------------------------------------------------------
\* A step that concerns the clipboard only.
LEMMA ClipStep ==
  ASSUME IInv, UNCHANGED <<pages, life>>, ops' \in Nat, ClipOK' PROVE IInv'
  BY DEF IInv, pages, keyring, chosen, EncOK, DecOK, WorkOK, RestOK

\* copy_text puts the text on the clipboard and starts a timer for it.
LEMMA StepCopy ==
  ASSUME IInv, CopyPlaintext \/ CopyCiphertext PROVE IInv'
<1>1. ClipOK /\ DecOK /\ RestOK
  BY DEF IInv
<1>2. PICK x \in Msg \cup {Armor} : CopyText(x)
  BY <1>1 DEF CopyPlaintext, CopyCiphertext, DecOK, DecPage
<1>3. /\ clip' = [text |-> x, by |-> "app"] /\ UNCHANGED <<pages, life>>
      /\ pending' = IF seconds > 0 THEN Append(pending, x) ELSE pending
  BY <1>2 DEF CopyText, Schedule
<1>4. ops' \in Nat /\ seconds' = seconds /\ life' = life /\ life = "running"
  BY <1>1, <1>2, <1>3 DEF CopyText, Begin, RestOK, pages, chosen, Running
<1>5. /\ Append(pending, x) \in Seq(Msg \cup {Armor})
      /\ x \in ToSet(Append(pending, x))
  BY <1>1, TimerAdded DEF ClipOK
<1>6. pending' \in Seq(Msg \cup {Armor}) /\ (seconds > 0 => x \in ToSet(pending'))
  BY <1>1, <1>3, <1>5 DEF ClipOK
<1>7. clip' \in [text : Msg \cup {Armor, Foreign, Nothing}, by : {"app", "user"}]
      /\ clip'.text = x
  BY <1>3
<1>8. CopyHasTimer'
  BY <1>4, <1>6, <1>7 DEF CopyHasTimer
<1>9. seconds' = 0 => pending' = <<>>
  BY <1>1, <1>3, <1>4 DEF ClipOK
<1>10. QED
  BY <1>3, <1>4, <1>6, <1>7, <1>8, <1>9, ClipStep DEF ClipOK

\* The user or another program copies something.
LEMMA StepCopyOther ==
  ASSUME IInv, CopyByHand \/ CopyElsewhere PROVE IInv'
<1>1. ClipOK /\ DecOK /\ RestOK
  BY DEF IInv
<1>2. UNCHANGED <<pages, life, pending, ops>>
  BY DEF CopyByHand, CopyElsewhere
<1>3. PICK x \in Msg \cup {Foreign} : clip' = [text |-> x, by |-> "user"]
  BY <1>1 DEF CopyByHand, CopyElsewhere, DecOK, DecPage
<1>4. ClipOK'
  BY <1>1, <1>2, <1>3 DEF ClipOK, CopyHasTimer, pages, chosen
<1>5. QED
  BY <1>1, <1>2, <1>4, ClipStep DEF RestOK

\* One timer fires; the snapshots of the others stay.
LEMMA StepClearTimeout ==
  ASSUME IInv, NEW i \in DOMAIN pending, ClearTimeout(i) PROVE IInv'
<1>1. ClipOK /\ RestOK
  BY DEF IInv
<1>2. /\ clip' = ClearIfMatches({pending[i]}) /\ pending' = RemoveAt(pending, i)
      /\ UNCHANGED <<pages, life, ops>> /\ life = "running"
  BY DEF ClearTimeout, Running
<1>3. seconds' = seconds /\ life' = life /\ seconds # 0
  BY <1>1, <1>2 DEF pages, chosen, ClipOK
<1>4. /\ pending' \in Seq(Msg \cup {Armor})
      /\ \A x \in ToSet(pending) : x # pending[i] => x \in ToSet(pending')
  BY <1>1, <1>2, TimerRemoved DEF ClipOK
<1>5. CASE clip.text = pending[i]
  <2>1. clip' = [text |-> Nothing, by |-> "user"]
    BY <1>2, <1>5 DEF ClearIfMatches
  <2>2. ClipOK'
    BY <1>3, <1>4, <2>1 DEF ClipOK, CopyHasTimer
  <2>3. QED
    BY <1>1, <1>2, <2>2, ClipStep DEF RestOK
<1>6. CASE clip.text # pending[i]
  <2>1. clip' = clip
    BY <1>2, <1>6 DEF ClearIfMatches
  <2>2. CopyHasTimer'
    BY <1>1, <1>2, <1>3, <1>4, <1>6, <2>1 DEF ClipOK, CopyHasTimer
  <2>3. ClipOK'
    BY <1>1, <1>3, <1>4, <2>1, <2>2 DEF ClipOK
  <2>4. QED
    BY <1>1, <1>2, <2>3, ClipStep DEF RestOK
<1>7. QED
  BY <1>5, <1>6

\* flush_pending_clears at the end, or no time for it.
LEMMA StepEnd ==
  ASSUME IInv, Quit \/ Kill PROVE IInv'
<1>1. ClipOK /\ RestOK /\ WorkOK
  BY DEF IInv
<1>2. /\ enc' = NoEnc /\ dec' = NoDec /\ work' = [w \in Worker |-> Idle]
      /\ pending' = <<>> /\ UNCHANGED <<keyring, chosen, ops>>
      /\ life = "running" /\ life' \in {"quit", "killed"}
  BY DEF Quit, Kill, Ends, Running
<1>3. EncOK' /\ DecOK'
  BY <1>2 DEF EncOK, EncPage, NoEnc, DecOK, DecPage, NoDec
<1>4. WorkOK' /\ RestOK'
  <2>1. RestOK'
    BY <1>1, <1>2 DEF RestOK, keyring, chosen
  <2>2. WorkOK'
    BY <1>2, IdleFacts DEF WorkOK
  <2>3. QED
    BY <2>1, <2>2
<1>5. ClipOK'
  <2>1. CASE Quit
    <3>1. CASE clip.text \in ToSet(pending)
      <4>1. clip' = [text |-> Nothing, by |-> "user"]
        BY <2>1, <3>1 DEF Quit, ClearIfMatches
      <4>2. QED
        BY <1>2, <4>1 DEF ClipOK, CopyHasTimer
    <3>2. CASE clip.text \notin ToSet(pending)
      <4>1. clip' = clip /\ seconds' = seconds
        BY <1>2, <2>1, <3>2 DEF Quit, ClearIfMatches, chosen
      <4>2. ~ (clip.by = "app" /\ seconds > 0)
        BY <1>1, <1>2, <3>2 DEF ClipOK, CopyHasTimer
      <4>3. QED
        BY <1>1, <1>2, <4>1, <4>2 DEF ClipOK, CopyHasTimer
    <3>3. QED
      BY <3>1, <3>2
  <2>2. CASE Kill
    <3>1. clip' = clip /\ life' = "killed"
      BY <2>2 DEF Kill, Ends
    <3>2. QED
      BY <1>1, <1>2, <3>1 DEF ClipOK, CopyHasTimer
  <2>3. QED
    BY <2>1, <2>2
<1>6. QED
  BY <1>3, <1>4, <1>5 DEF IInv

-----------------------------------------------------------------------------
\* The program starts with empty pages.
LEMMA InitIInv == Init => IInv
<1> SUFFICES ASSUME Init PROVE IInv
  OBVIOUS
<1>1. EncOK /\ DecOK
  BY DEF Init, EncOK, EncPage, NoEnc, DecOK, DecPage, NoDec
<1>2. WorkOK
  BY IdleFacts DEF Init, WorkOK
<1>3. ClipOK /\ RestOK
  BY DEF Init, ClipOK, CopyHasTimer, RestOK
<1>4. QED
  BY <1>1, <1>2, <1>3 DEF IInv

\* Every step of the user, of an operation and of a timer keeps it.
LEMMA StepIInv == IInv /\ [Next]_vars => IInv'
<1> SUFFICES ASSUME IInv, [Next]_vars PROVE IInv'
  OBVIOUS
<1>1. CASE User
  BY <1>1, StepEncryptPage, StepKeyring, StepDecryptPage, StepCopy, StepCopyOther,
     StepSubmitEncrypt, StepSubmitDecrypt, StepEnd DEF User
<1>2. CASE Timeouts
  BY <1>2, StepDecryptPage, StepClearTimeout DEF Timeouts
<1>3. ASSUME NEW w \in Worker, Operation(w) PROVE IInv'
  BY <1>3, StepOperation, StepEncryptReturns, StepDecryptReturns DEF Operation
<1>4. CASE UNCHANGED vars
  BY <1>4, EncryptEdit DEF vars, editsEncrypt, keyring, chosen, board, IInv, EncOK
<1>5. QED
  BY <1>1, <1>2, <1>3, <1>4 DEF Next

\* IInv always holds.
LEMMA Invariance == Spec => []IInv
  BY InitIInv, StepIInv, PTL DEF Spec

-----------------------------------------------------------------------------
\* No operation of EncryptViewModel runs on a confirmation given for another
\* message, and MessageService.encrypt makes
\* no ciphertext for a key that was revoked when Encrypt was pressed.
THEOREM RecipientsApproved == Spec => []RecipientsAreApproved
<1>1. IInv => RecipientsAreApproved
  BY DEF IInv, WorkOK, RecipientsAreApproved
<1>2. QED
  BY <1>1, Invariance, PTL

\* DecryptView shows one message at a time, with its own signature line, and a
\* hidden page shows none but one that arrived late and has its timer running.
THEOREM HiddenScrubbed == Spec => []HiddenIsScrubbed
<1>1. IInv => TypeOK
  <2>1. ASSUME IInv, NEW w \in Worker
        PROVE  /\ work[w].kind \in {"-", "encrypt", "decrypt"}
               /\ work[w].at \in {"idle", "start", "checked", "done", "failed"}
    BY <2>1 DEF IInv, WorkOK, Work
  <2>2. QED
    BY <2>1 DEF IInv, EncOK, EncPage, DecOK, DecPage, ClipOK, RestOK, TypeOK
<1>2. IInv => HiddenIsScrubbed
  BY <1>1 DEF IInv, DecOK, HiddenIsScrubbed
<1>3. QED
  BY <1>2, Invariance, PTL

\* A text that copy_text put on the clipboard has a timer of its own, whichever
\* timers of earlier copies fire first, and none outlives a regular end.
THEOREM CopiesHaveTimers == Spec => []CopyHasTimer
<1>1. IInv => CopyHasTimer
  BY DEF IInv, ClipOK
<1>2. QED
  BY <1>1, Invariance, PTL

\* No timer and no end of the program empties a clipboard that another program
\* has filled.
THEOREM ForeignTextIsLeft == Spec => ForeignIsLeft
<1> DEFINE Left == clip.text = Foreign => clip'.text # Nothing
<1>1. ASSUME IInv, Next PROVE Left
  <2>0. ClipOK /\ DecOK
    BY <1>1 DEF IInv
  <2>1. Foreign \notin Msg \cup {Armor, Nothing} /\ Nothing \notin Msg \cup {Armor}
    BY MessagesAssumption
  <2>2. Foreign \notin ToSet(pending)
    BY <2>0, <2>1 DEF ClipOK, ToSet
  <2>3. CASE clip' = clip
    BY <2>1, <2>3
  <2>4. CASE CopyPlaintext \/ CopyCiphertext \/ CopyByHand \/ CopyElsewhere
    <3>1. PICK x \in Msg \cup {Armor, Foreign} : clip'.text = x
      BY <2>0, <2>4 DEF CopyPlaintext, CopyCiphertext, CopyText, CopyByHand,
         CopyElsewhere, DecOK, DecPage
    <3>2. QED
      BY <2>1, <3>1
  <2>5. ASSUME NEW i \in DOMAIN pending, ClearTimeout(i) PROVE Left
    <3>1. pending[i] \in ToSet(pending)
      BY DEF ToSet
    <3>2. QED
      BY <2>1, <2>2, <2>5, <3>1 DEF ClearTimeout, ClearIfMatches
  <2>6. CASE Quit
    BY <2>1, <2>2, <2>6 DEF Quit, ClearIfMatches
  <2>7. CASE Kill \/ OutputTimeout \/ \E w \in Worker : Operation(w)
    <3>1. clip' = clip
      BY <2>7 DEF Kill, OutputTimeout, Operation, Check, RunGpg, EncryptReturns,
         DecryptReturns, onWorker, board, editsDecrypt
    <3>2. QED
      BY <2>3, <3>1
  <2>8. CASE \/ TypePlaintext \/ ToggleBox \/ ClearEncrypt \/ ListKeys
             \/ \E k \in Key : AddRecipient(k) \/ RemoveRecipient(k) \/ Revoke(k)
             \/ \E m \in Msg : Paste(m)
             \/ ClearDecrypt \/ HideEvent \/ ShowEvent
             \/ \E w \in Worker : SubmitEncrypt(w) \/ SubmitDecrypt(w)
    <3>1. clip' = clip
      BY <2>8 DEF TypePlaintext, ToggleBox, ClearEncrypt, ListKeys, AddRecipient,
         RemoveRecipient, Revoke, Paste, ClearDecrypt, HideEvent, ShowEvent,
         SubmitEncrypt, SubmitDecrypt, editsEncrypt, editsDecrypt, board
    <3>2. QED
      BY <2>3, <3>1
  <2>9. QED
    BY <1>1, <2>4, <2>5, <2>6, <2>7, <2>8 DEF Next, User, Timeouts
<1>2. IInv /\ [Next]_vars => [Left]_vars
  BY <1>1
<1>3. Spec => [][Left]_vars
  BY <1>2, Invariance, PTL DEF Spec
<1>4. QED
  BY <1>3 DEF ForeignIsLeft


-----------------------------------------------------------------------------
(***************************************************************************)
(* One run of gpg below these pages: GpgRun for any number of signatures   *)
(* and any limit of the status buffer.                                     *)
(*                                                                         *)
(* Three threads close the ends of two pipes.  An end is handed over       *)
(* before the thread that gets it starts, and EndOwners says that the two  *)
(* ends the threads own are theirs exactly as long as they run; Stage says *)
(* what the calling thread still owns, and what it knows, at each of its   *)
(* stations.                                                               *)
(***************************************************************************)
EndOwners ==
    /\ fd["status_read"] = "reader" <=> reader = "reading"
    /\ fd["pass_write"] = "writer" <=> writer \in {"writing", "wrote"}
    /\ \A f \in Fd : /\ fd[f] = "reader" => f = "status_read"
                     /\ fd[f] = "writer" => f = "pass_write"

\* What there is before gpg is started.
Before ==
    /\ pc = "call" => tmp = {} /\ secret = "none" /\ \A f \in Fd : fd[f] = "absent"
    /\ pc \in {"call", "spawn"} => gpg.is = "none"
    /\ pc \in {"call", "spawn", "threads"} => reader = "none" /\ writer = "none"
    /\ pc = "spawn" => \A f \in Fd : fd[f] \in {"absent", "main"}
    /\ pc \in {"spawn", "threads"} /\ ~ call.pass => fd["pass_write"] = "absent"
    /\ pc = "threads" => fd["status_write"] # "main" /\ fd["pass_read"] # "main"

\* What the calling thread has left to close.
After ==
    /\ pc \in {"communicate", "join"} => \A f \in Fd : fd[f] # "main"
    /\ pc = "done" => \/ tmp = {} /\ \A f \in Fd : fd[f] # "main"
                      \/ Early /\ gpg.is = "none"

\* The outcome is open until the end, and gpg has ended by then, unless a thread
\* could not be started.
Open ==
    /\ pc # "done" => result.sig = "none" /\ result.is \in Raised \cup {"pending"}
    /\ result.is = "no thread" => result.sig = "none" /\ pc \in {"finally", "done"}
    /\ pc \in {"join", "finally", "done"} => gpg.is # "running" \/ result.is = "no thread"

\* At most one end is lost, with the thread that did not start.
Lost ==
    /\ \A f, g \in Fd : fd[f] = "lost" /\ fd[g] = "lost" => f = g
    /\ \A f \in Fd : fd[f] = "lost" => pc \in {"finally", "done"} /\ result.is = "no thread"

Stage == Before /\ After /\ Open /\ Lost

RunInv == EndOwners /\ Stage /\ NothingLeft /\ VerdictIsEarned

-----------------------------------------------------------------------------
\* The lines of a message are a sequence.
LEMMA MessageIsSeq ==
  ASSUME NEW m \in Message
  PROVE  m \in Seq(Tag)
<1>1. PICK n \in 0..2 * MaxSigs : m \in [1..n -> Tag]
  BY DEF Message
<1>2. n \in Nat
  BY <1>1
<1> QED
  BY <1>1, <1>2

\* Among the lines with one of these tags there is a last one.
LEMMA LastOfExists ==
  ASSUME NEW ls \in Seq(Tag), NEW tags, Has(ls, tags)
  PROVE  LastOf(ls, tags) \in DOMAIN ls /\ ls[LastOf(ls, tags)] \in tags
<1> DEFINE R == OpToRel(<, Nat)
           T == {Len(ls) - n : n \in {k \in 1..Len(ls) : ls[k] \in tags}}
<1>1. \A n \in 1..Len(ls) : Len(ls) - n \in Nat
  OBVIOUS
<1>2. T \subseteq Nat
  BY <1>1
<1>3. T # {}
  <2>1. PICK n \in 1..Len(ls) : ls[n] \in tags
    BY DEF Has
  <2>2. Len(ls) - n \in T
    BY <2>1
  <2> QED
    BY <2>2
<1>4. IsWellFoundedOn(R, Nat) /\ \A x, y \in Nat : <<y, x>> \in R <=> y < x
  BY NatLessThanWellFounded DEF OpToRel
<1>5. PICK x \in T : \A y \in T : ~ (<<y, x>> \in R)
  <2> HIDE DEF R, T
  <2> QED
    BY <1>2, <1>3, <1>4, WFMin
<1> HIDE DEF R
<1>6. PICK i \in 1..Len(ls) : ls[i] \in tags /\ x = Len(ls) - i
  BY <1>5
<1>7. ASSUME NEW k \in 1..Len(ls), ls[k] \in tags PROVE k <= i
  <2>1. Len(ls) - k \in T /\ Len(ls) - k \in Nat /\ x \in Nat
    BY <1>1, <1>2, <1>7
  <2>2. ~ (Len(ls) - k < x)
    BY <1>4, <1>5, <2>1
  <2> HIDE DEF T
  <2> QED
    BY <1>6, <2>2
<1>8. \E n \in DOMAIN ls : ls[n] \in tags /\ \A k \in DOMAIN ls : ls[k] \in tags => k <= n
  BY <1>6, <1>7
<1> QED
  BY <1>8 DEF LastOf

\* The words of the verdicts.
Downgraded == {"revoked key", "expired key", "expired signature", "invalid", "error"}

LEMMA DowngradeFacts ==
  /\ DOMAIN Downgrade = {"REVKEYSIG", "EXPKEYSIG", "EXPSIG", "BADSIG", "ERRSIG"}
  /\ \A t \in DOMAIN Downgrade : Downgrade[t] \in Downgraded
  /\ {Downgrade[t] : t \in DOMAIN Downgrade} = Downgraded
<1>1. DOMAIN Downgrade = {"REVKEYSIG", "EXPKEYSIG", "EXPSIG", "BADSIG", "ERRSIG"}
  BY DEF Downgrade
<1>2. /\ Downgrade["REVKEYSIG"] = "revoked key"
      /\ Downgrade["EXPKEYSIG"] = "expired key"
      /\ Downgrade["EXPSIG"] = "expired signature"
      /\ Downgrade["BADSIG"] = "invalid"
      /\ Downgrade["ERRSIG"] = "error"
  BY DEF Downgrade
<1>3. \A t \in DOMAIN Downgrade : Downgrade[t] \in Downgraded
  BY <1>1, <1>2 DEF Downgraded
<1>4. Downgraded \subseteq {Downgrade[t] : t \in DOMAIN Downgrade}
  BY <1>1, <1>2 DEF Downgraded
<1> QED
  BY <1>1, <1>3, <1>4

\* _evaluate_signature: what its answers stand for, for any lines.
LEMMA EvaluateFacts ==
  ASSUME NEW ls \in Seq(Tag)
  PROVE  /\ Evaluate(ls) \in Downgraded \cup {"valid", "none"}
         /\ Evaluate(ls) = "valid" => ls # <<>> /\ ~ Bad(ls)
         /\ Evaluate(ls) = "none" => ls = <<>>
<1> DEFINE D == DOMAIN Downgrade
<1>1. CASE Has(ls, D)
  <2>1. Evaluate(ls) = Downgrade[ls[LastOf(ls, D)]]
    BY <1>1 DEF Evaluate
  <2>2. Evaluate(ls) \in Downgraded
    BY <1>1, <2>1, LastOfExists, DowngradeFacts
  <2> QED
    BY <2>2 DEF Downgraded
<1>2. CASE ~ Has(ls, D)
  <2>1. ~ Bad(ls)
    BY <1>2 DEF Bad
  <2>2. CASE Has(ls, {"GOODSIG"}) /\ Has(ls, {"VALIDSIG"})
    <3>1. Evaluate(ls) = "valid"
      BY <1>2, <2>2 DEF Evaluate
    <3>2. ls # <<>>
      BY <2>2 DEF Has
    <3> QED
      BY <2>1, <3>1, <3>2
  <2>3. CASE \/ Has(ls, {"GOODSIG"}) /\ ~ Has(ls, {"VALIDSIG"})
             \/ ~ Has(ls, {"GOODSIG"}) /\ Has(ls, {"VALIDSIG"})
    <3>1. Evaluate(ls) = "error"
      BY <1>2, <2>3 DEF Evaluate, Has
    <3> QED
      BY <3>1 DEF Downgraded
  <2>4. CASE ~ Has(ls, {"GOODSIG"}) /\ ~ Has(ls, {"VALIDSIG"})
    <3>1. Evaluate(ls) = "none"
      BY <1>2, <2>4 DEF Evaluate, Has
    <3>2. ASSUME ls # <<>> PROVE FALSE
      <4>1. 1 \in DOMAIN ls /\ ls[1] \in Tag
        BY <3>2
      <4>2. ls[1] \in D \cup {"GOODSIG", "VALIDSIG"}
        BY <4>1 DEF Tag
      <4> HIDE DEF D
      <4> QED
        BY <1>2, <2>4, <4>1, <4>2 DEF Has
    <3> QED
      BY <3>1, <3>2
  <2> QED
    BY <2>2, <2>3, <2>4 DEF Has
<1> QED
  BY <1>1, <1>2

\* What _parse_status gets is a part of what gpg had to say.
LEMMA RecordsFacts ==
  ASSUME RunTypeOK
  PROVE  /\ call.msg \in Seq(Tag) /\ Records \in Seq(Tag)
         /\ Records # <<>> => call.msg # <<>>
         /\ ~ Cut => Records = call.msg
<1>1. call.msg \in Seq(Tag)
  BY MessageIsSeq DEF RunTypeOK
<1>2. PICK m \in Seq(Tag) : m = call.msg
  BY <1>1
<1>3. snap \in Nat /\ snap <= Len(m)
  BY <1>2 DEF RunTypeOK
<1>4. SubSeq(m, 1, snap) \in Seq(Tag) /\ (m = <<>> => SubSeq(m, 1, snap) = <<>>)
  BY <1>3
<1>5. snap >= Len(m) => SubSeq(m, 1, snap) = m
  BY <1>3
<1> QED
  BY <1>1, <1>2, <1>3, <1>4, <1>5 DEF Records, Cut

\* The results of the operations have their types, and their verdicts what the property
\* says of them.
LEMMA OutcomeFacts ==
  ASSUME RunTypeOK
  PROVE  /\ Outcome(call.op) \in [is : Returned \cup Raised, sig : Returned]
         /\ Outcome(call.op).sig = "valid" =>
                call.msg # <<>> /\ (~ Bad(call.msg) \/ Cut)
         /\ Outcome(call.op).is = "none" =>
                call.msg = <<>> \/ (Cut /\ gpg.rc \in {0, 1})
         /\ Outcome(call.op).is = "no thread" => Outcome(call.op).sig = "none"
<1>1. PICK s : s = Evaluate(Records)
  OBVIOUS
<1>2. s \in Downgraded \cup {"valid", "none"}
  BY <1>1, RecordsFacts, EvaluateFacts
<1>3. Returned = {"plaintext", "ciphertext", "signature", "valid", "none"} \cup Downgraded
  BY DowngradeFacts DEF Returned
<1>4. s = "valid" => call.msg # <<>> /\ (~ Bad(call.msg) \/ Cut)
  BY <1>1, RecordsFacts, EvaluateFacts
<1>5. s = "none" => call.msg = <<>> \/ Cut
  BY <1>1, RecordsFacts, EvaluateFacts
<1>6. CASE call.op \in {"verify", "verify detached"}
  <2>1. PICK v : v = IF s = "none" /\ gpg.rc \notin {0, 1} THEN "error" ELSE s
    OBVIOUS
  <2>2. Outcome(call.op) = [is |-> v, sig |-> v]
    BY <1>1, <1>6, <2>1, Zenon DEF Outcome, Verify
  <2>3. v \in Downgraded \cup {"valid", "none"} /\ (v = "valid" => s = "valid")
        /\ (v = "none" => s = "none" /\ gpg.rc \in {0, 1}) /\ v # "no thread"
    BY <1>2, <2>1 DEF Downgraded
  <2>4. Outcome(call.op).is = v /\ Outcome(call.op).sig = v
    BY <2>2
  <2>5. Outcome(call.op) \in [is : Returned \cup Raised, sig : Returned]
    <3>1. v \in Returned
      BY <1>3, <2>3
    <3> QED
      BY <2>2, <3>1
  <2> QED
    BY <1>4, <1>5, <2>3, <2>4, <2>5
<1>7. CASE call.op = "decrypt"
  <2>1. Outcome(call.op) = Decrypt
    BY <1>7 DEF Outcome
  <2>2. CASE gpg.rc = 0
    <3>1. Decrypt = [is |-> "plaintext", sig |-> s]
      BY <1>1, <2>2 DEF Decrypt
    <3> QED
      BY <1>2, <1>3, <1>4, <2>1, <3>1
  <2>3. CASE gpg.rc # 0
    <3>1. RequireDecryptOk(gpg.why) \in Raised
      BY DEF RequireDecryptOk, CardDiagnosis, Raised
    <3>2. PICK e \in Raised : Decrypt = [is |-> e, sig |-> "none"]
      BY <2>3, <3>1 DEF Decrypt
    <3>3. Outcome(call.op) = [is |-> e, sig |-> "none"]
      BY <2>1, <3>2
    <3>4. e # "none" /\ e \in Raised /\ "none" \in Returned
      BY <1>3, <3>2 DEF Raised
    <3> QED
      BY <3>3, <3>4
  <2> QED
    BY <2>2, <2>3
<1>8. CASE call.op = "sign"
  <2>1. PICK e \in {"signature", "GPGCardPinError", "GPGCardError", "GPGProcessError"} :
            Sign = [is |-> e, sig |-> "none"]
    BY DEF Sign, CardDiagnosis
  <2> QED
    BY <1>3, <1>8, <2>1 DEF Outcome, Raised
<1>9. CASE call.op = "encrypt"
  <2>1. PICK e \in {"ciphertext", "GPGProcessError"} : Encrypt = [is |-> e, sig |-> "none"]
    BY DEF Encrypt
  <2> QED
    BY <1>3, <1>9, <2>1 DEF Outcome, Raised
<1> QED
  BY <1>6, <1>7, <1>8, <1>9 DEF RunTypeOK, Op

-----------------------------------------------------------------------------
\* The states before "done" need no more than their types, their owners and their stage.
LEMMA NotDone ==
  ASSUME RunTypeOK', ~ twice', EndOwners', Stage', pc' # "done"
  PROVE  RunInv'
  BY DEF RunInv, NothingLeft, VerdictIsEarned, Over

\* What is left at the end follows from the owners and the stage, but for the secret.
LEMMA LeftOver ==
  ASSUME RunTypeOK', ~ twice', EndOwners', Stage',
         pc' = "done" => secret' # "plain" \/ (Early' /\ fd'["status_read"] = "main")
  PROVE  NothingLeft'
<1>1. ASSUME Over', ~ (Early' /\ gpg'.is = "none")
      PROVE  /\ tmp' = {}
             /\ \/ Unclosed' = {}
                \/ /\ result'.is = "no thread"
                   /\ \E f \in Fd : Unclosed' = {f} /\ fd'[f] = "lost"
  <2>1. tmp' = {} /\ \A f \in Fd : fd'[f] # "main"
    BY <1>1 DEF Stage, After, Over
  <2>2. \A f \in Fd : fd'[f] \in {"absent", "closed", "lost"}
    BY <1>1, <2>1 DEF EndOwners, Over, RunTypeOK
  <2>3. CASE \E f \in Fd : fd'[f] = "lost"
    <3>1. PICK f \in Fd : fd'[f] = "lost"
      BY <2>3
    <3>2. Unclosed' = {f}
      BY <2>2, <3>1 DEF Unclosed, Stage, Lost
    <3> QED
      BY <2>1, <3>1, <3>2 DEF Stage, Lost
  <2>4. CASE \A f \in Fd : fd'[f] # "lost"
    BY <2>1, <2>2, <2>4 DEF Unclosed
  <2> QED
    BY <2>3, <2>4
<1> QED
  BY <1>1 DEF NothingLeft

LEMMA RunInitially ==
  ASSUME RunInit
  PROVE  RunInv
<1>1. call \in [op : Op, msg : Message, pass : BOOLEAN]
  BY DEF RunInit
<1>2. call.msg \in Seq(Tag)
  BY <1>1, MessageIsSeq
<1>3. "none" \in Returned
  BY DEF Returned
<1>4. result \in [is : Returned \cup Raised \cup {"pending"}, sig : Returned]
  BY <1>3 DEF RunInit
<1>5. RunTypeOK
  <2>1. PICK m \in Seq(Tag) : m = call.msg
    BY <1>2
  <2>2. 0 \in 0..Len(call.msg) /\ 0 \in 0..Limit
    BY <2>1, LimitAssumption
  <2>3. gpg \in [is : {"none", "running", "exited", "killed"}, rc : {0, 1, 2},
                why : Complaint]
    BY DEF RunInit, Complaint
  <2>4. fd \in [Fd -> {"absent", "main", "reader", "writer", "lost", "closed"}]
    BY DEF RunInit
  <2>5. /\ pc = "call" /\ twice = FALSE /\ secret = "none" /\ writer = "none"
        /\ reader = "none" /\ sent = 0 /\ buf = 0 /\ snap = 0 /\ tmp = {}
    BY DEF RunInit
  <2>6. buf \in 0..Limit /\ snap \in 0..Limit /\ sent \in 0..Len(call.msg)
        /\ buf <= sent /\ snap <= buf
    BY <2>2, <2>5
  <2> QED
    BY <1>1, <1>4, <2>3, <2>4, <2>5, <2>6, Zenon DEF RunTypeOK
<1>6. EndOwners /\ Stage
  BY DEF RunInit, EndOwners, Stage, Before, After, Open, Lost, Fd
<1> QED
  BY <1>5, <1>6 DEF RunInit, RunInv, NothingLeft, VerdictIsEarned, Over

\* A call that ends with an exception has a result of the right type.
LEMMA RaiseType ==
  ASSUME NEW e \in Raised
  PROVE  [is |-> e, sig |-> "none"] \in
             [is : Returned \cup Raised \cup {"pending"}, sig : Returned]
<1>1. "none" \in Returned
  BY DEF Returned
<1> QED
  BY <1>1

\* os.close() by w of ends that are w's or absent.
LEMMA CloseFacts ==
  ASSUME RunTypeOK, ~ twice, NEW w, NEW fs \in SUBSET Fd, Close(w, fs),
         \A f \in fs : fd[f] \in {"absent", w}
  PROVE  /\ fd' \in [Fd -> {"absent", "main", "reader", "writer", "lost", "closed"}]
         /\ twice' = FALSE
         /\ \A f \in fs : fd'[f] \in {"absent", "closed"}
         /\ \A f \in Fd \ fs : fd'[f] = fd[f]
  BY DEF Close, RunTypeOK

LEMMA RunCall ==
  ASSUME RunInv, Call
  PROVE  RunInv'
<1>0. RunTypeOK /\ ~ twice /\ EndOwners /\ Before /\ Open /\ Lost /\ pc = "call"
  BY DEF RunInv, NothingLeft, Stage, Call
<1>1. UNCHANGED <<call, twice, writer, reader, gpg, sent, buf, snap>>
  BY DEF Call
<1>2. /\ reader = "none" /\ writer = "none" /\ gpg.is = "none" /\ tmp = {} /\ secret = "none"
      /\ \A f \in Fd : fd[f] = "absent"
  BY <1>0 DEF Before
<1>3. CASE /\ TempFiles(FALSE) /\ secret' = PassBytes(FALSE)
           /\ fd' = Pipes(TRUE) /\ pc' = "spawn" /\ UNCHANGED result
  <2>1. /\ fd' \in [Fd -> {"absent", "main", "reader", "writer", "lost", "closed"}]
        /\ \A f \in Fd : fd'[f] \in {"absent", "main"}
        /\ ~ call.pass => fd'["pass_write"] = "absent"
    BY <1>3 DEF Pipes, Fd
  <2>2. secret' \in {"none", "plain", "zero"} /\ tmp' \subseteq {"sig", "data"}
    BY <1>3 DEF PassBytes, TempFiles
  <2>3. RunTypeOK'
    BY <1>0, <1>1, <1>3, <2>1, <2>2 DEF RunTypeOK
  <2>4. (EndOwners /\ Stage)'
    BY <1>0, <1>1, <1>2, <1>3, <2>1 DEF EndOwners, Stage, Before, After, Open, Lost, Fd
  <2> QED
    BY <1>0, <1>1, <1>3, <2>3, <2>4, NotDone
<1>4. CASE ~ (/\ TempFiles(FALSE) /\ secret' = PassBytes(FALSE)
              /\ fd' = Pipes(TRUE) /\ pc' = "spawn" /\ UNCHANGED result)
  <2>1. PICK e \in {"os error", "swapped", "validation"} :
            /\ pc' = "done" /\ result' = [is |-> e, sig |-> "none"]
            /\ \/ fd' = fd
               \/ e = "os error" /\ fd' = Pipes(FALSE)
               \/ e = "validation" /\ fd' = Pipes(TRUE)
            /\ tmp' = {} \/ (e = "os error" /\ tmp' \subseteq {"sig", "data"})
            /\ \/ secret' \in {"none", "zero"}
               \/ e = "os error" /\ fd' = Pipes(FALSE) /\ secret' \in {"none", "plain", "zero"}
               \/ e = "validation" /\ fd' = Pipes(TRUE) /\ secret' \in {"none", "plain", "zero"}
    BY <1>2, <1>4 DEF Call, Raise, TempFiles, PassBytes
  <2>2. result'.is = e /\ result'.sig = "none"
    BY <2>1
  <2>3. ASSUME NEW c
        PROVE  /\ Pipes(c) \in [Fd -> {"absent", "main", "reader", "writer", "lost", "closed"}]
               /\ \A f \in Fd : Pipes(c)[f] \in {"absent", "main"}
               /\ Pipes(c)["status_read"] = "main"
    BY DEF Pipes, Fd
  <2>4. /\ fd' \in [Fd -> {"absent", "main", "reader", "writer", "lost", "closed"}]
        /\ \A f \in Fd : fd'[f] \in {"absent", "main"}
    <3>1. \A f \in Fd : fd[f] \in {"absent", "main"}
      BY <1>2
    <3>2. fd' \in {fd, Pipes(TRUE), Pipes(FALSE)}
      BY <2>1
    <3>3. CASE fd' = fd
      BY <1>0, <3>1, <3>3 DEF RunTypeOK
    <3>4. CASE fd' = Pipes(TRUE)
      BY <2>3, <3>4
    <3>5. CASE fd' = Pipes(FALSE)
      BY <2>3, <3>5
    <3> QED
      BY <3>2, <3>3, <3>4, <3>5
  <2>5. result' \in [is : Returned \cup Raised \cup {"pending"}, sig : Returned]
    BY <2>1, RaiseType DEF Raised
  <2>6. RunTypeOK'
    BY <1>0, <1>1, <2>1, <2>4, <2>5 DEF RunTypeOK
  <2>7. (EndOwners /\ Stage)'
    BY <1>0, <1>1, <1>2, <2>1, <2>2, <2>4 DEF EndOwners, Stage, Before, After, Open, Lost, Fd, Early
  <2>8. NothingLeft'
    BY <1>0, <1>1, <1>2, <2>1, <2>2, <2>3, <2>4, <2>6 DEF NothingLeft, Fd, Over, Unclosed, Early
  <2>9. VerdictIsEarned'
    BY <2>1, <2>2 DEF VerdictIsEarned
  <2> QED
    BY <2>7, <2>8, <2>9 DEF RunInv
<1> QED
  BY <1>3, <1>4

LEMMA RunSpawn ==
  ASSUME RunInv, Spawn
  PROVE  RunInv'
<1>0. RunTypeOK /\ ~ twice /\ EndOwners /\ Before /\ Open /\ Lost /\ pc = "spawn"
  BY DEF RunInv, NothingLeft, Stage, Spawn
<1>1. UNCHANGED <<call, secret, writer, reader, sent, buf, snap, tmp>>
  BY DEF Spawn
<1>2. /\ reader = "none" /\ writer = "none" /\ gpg.is = "none"
      /\ \A f \in Fd : fd[f] \in {"absent", "main"}
      /\ ~ call.pass => fd["pass_write"] = "absent"
  BY <1>0 DEF Before
<1>3. CASE /\ gpg' = [gpg EXCEPT !.is = "running"]
           /\ Close("main", {"pass_read", "status_write"})
           /\ pc' = "threads" /\ UNCHANGED result
  <2>1. /\ fd' \in [Fd -> {"absent", "main", "reader", "writer", "lost", "closed"}]
        /\ twice' = FALSE
        /\ \A f \in {"pass_read", "status_write"} : fd'[f] \in {"absent", "closed"}
        /\ \A f \in Fd \ {"pass_read", "status_write"} : fd'[f] = fd[f]
    BY <1>0, <1>2, <1>3, CloseFacts DEF Fd
  <2>2. /\ gpg' \in [is : {"none", "running", "exited", "killed"}, rc : {0, 1, 2},
                     why : Complaint]
    BY <1>0, <1>3 DEF RunTypeOK
  <2>3. RunTypeOK'
    BY <1>0, <1>1, <1>3, <2>1, <2>2 DEF RunTypeOK
  <2>4. (EndOwners /\ Stage)'
    BY <1>0, <1>1, <1>2, <1>3, <2>1 DEF EndOwners, Stage, Before, After, Open, Lost, Fd
  <2> QED
    BY <1>0, <1>1, <1>3, <2>1, <2>3, <2>4, NotDone
<1>4. CASE Raise("no process") /\ pc' = "finally" /\ UNCHANGED <<gpg, fd, twice>>
  <2>1. /\ result' = [is |-> "no process", sig |-> "none"] /\ result'.is = "no process"
        /\ result'.sig = "none"
    BY <1>4 DEF Raise
  <2>2. result' \in [is : Returned \cup Raised \cup {"pending"}, sig : Returned]
    BY <2>1, RaiseType DEF Raised
  <2>3. RunTypeOK'
    BY <1>0, <1>1, <1>4, <2>2 DEF RunTypeOK
  <2>4. (EndOwners /\ Stage)'
    BY <1>0, <1>1, <1>2, <1>4, <2>1 DEF EndOwners, Stage, Before, After, Open, Lost, Fd, Raised
  <2> QED
    BY <1>0, <1>1, <1>4, <2>3, <2>4, NotDone
<1> QED
  BY <1>3, <1>4 DEF Spawn

LEMMA RunStartThreads ==
  ASSUME RunInv, StartThreads
  PROVE  RunInv'
<1>0. RunTypeOK /\ ~ twice /\ EndOwners /\ Before /\ Open /\ Lost /\ pc = "threads"
  BY DEF RunInv, NothingLeft, Stage, StartThreads
<1>1. /\ reader = "none" /\ writer = "none"
      /\ ~ call.pass => fd["pass_write"] = "absent"
      /\ fd["status_write"] # "main" /\ fd["pass_read"] # "main"
  BY <1>0 DEF Before
<1>2. call.pass \in BOOLEAN /\ \A f \in Fd : fd[f] # "lost"
  BY <1>0 DEF RunTypeOK, Lost
<1>3. UNCHANGED <<call, twice, secret, gpg, sent, buf, snap, tmp>>
  BY DEF StartThreads
<1>4. CASE pc' = "communicate"
  <2>1. /\ fd' = [fd EXCEPT !["status_read"] = "reader",
                            !["pass_write"] = IF call.pass THEN "writer" ELSE @]
        /\ reader' = "reading" /\ writer' = (IF call.pass THEN "writing" ELSE "none")
        /\ result' = result
    BY <1>4 DEF StartThreads
  <2>2. /\ fd' \in [Fd -> {"absent", "main", "reader", "writer", "lost", "closed"}]
        /\ fd'["status_read"] = "reader"
        /\ fd'["pass_write"] = IF call.pass THEN "writer" ELSE fd["pass_write"]
        /\ fd'["status_write"] = fd["status_write"] /\ fd'["pass_read"] = fd["pass_read"]
    BY <1>0, <2>1 DEF RunTypeOK, Fd
  <2>3. RunTypeOK'
    BY <1>0, <1>3, <1>4, <2>1, <2>2 DEF RunTypeOK
  <2>4. (EndOwners /\ Stage)'
    BY <1>0, <1>1, <1>2, <1>3, <1>4, <2>1, <2>2
       DEF EndOwners, Stage, Before, After, Open, Lost, Fd
  <2> QED
    BY <1>0, <1>3, <1>4, <2>3, <2>4, NotDone
<1>5. CASE pc' # "communicate"
  <2>1. /\ pc' = "finally" /\ result' = [is |-> "no thread", sig |-> "none"] /\ writer' = writer
        /\ \/ reader' = reader /\ fd' = [fd EXCEPT !["status_read"] = "lost"]
           \/ /\ reader' = "reading"
              /\ fd' = [fd EXCEPT !["status_read"] = "reader", !["pass_write"] = "lost"]
    BY <1>5 DEF StartThreads, Raise
  <2>2. /\ fd' \in [Fd -> {"absent", "main", "reader", "writer", "lost", "closed"}]
        /\ fd'["status_write"] = fd["status_write"] /\ fd'["pass_read"] = fd["pass_read"]
        /\ \/ /\ reader' = reader /\ fd'["status_read"] = "lost"
              /\ fd'["pass_write"] = fd["pass_write"]
           \/ /\ reader' = "reading" /\ fd'["status_read"] = "reader"
              /\ fd'["pass_write"] = "lost"
    BY <1>0, <2>1 DEF RunTypeOK, Fd
  <2>3. /\ result' \in [is : Returned \cup Raised \cup {"pending"}, sig : Returned]
        /\ result'.is = "no thread" /\ result'.sig = "none"
    BY <2>1, RaiseType DEF Raised
  <2>4. RunTypeOK'
    BY <1>0, <1>1, <1>3, <2>1, <2>2, <2>3 DEF RunTypeOK
  <2>5. (EndOwners /\ Stage)'
    BY <1>0, <1>1, <1>2, <1>3, <2>1, <2>2, <2>3
       DEF EndOwners, Stage, Before, After, Open, Lost, Fd, Raised
  <2> QED
    BY <1>0, <1>3, <2>1, <2>4, <2>5, NotDone
<1> QED
  BY <1>4, <1>5

\* The threads: what a step of the reader or of the writer leaves alone, and that it
\* closes its own end, if any.
OwnStep ==
    /\ UNCHANGED <<fd, twice, secret, reader>>
    /\ writer' = writer \/ (writer = "writing" /\ writer' = "wrote")
ReaderEnds ==
    /\ reader = "reading" /\ reader' = "done" /\ UNCHANGED <<writer, secret>>
    /\ Close("reader", {"status_read"})
WriterEnds ==
    /\ writer = "wrote" /\ writer' = "done" /\ reader' = reader /\ secret' = "zero"
    /\ Close("writer", {"pass_write"})
ThreadStep ==
    /\ UNCHANGED <<pc, call, gpg, sent, snap, tmp, result>>
    /\ buf' \in 0..Limit /\ buf' <= sent /\ snap <= buf'
    /\ OwnStep \/ ReaderEnds \/ WriterEnds

LEMMA ThreadsStep ==
  ASSUME RunTypeOK, Reader \/ Writer
  PROVE  ThreadStep
<1>1. /\ buf \in 0..Limit /\ buf <= sent /\ snap <= buf /\ snap \in Nat /\ Limit \in Nat
      /\ secret \in {"none", "plain", "zero"} /\ sent \in Nat
  <2>1. PICK m \in Seq(Tag) : m = call.msg
    BY MessageIsSeq DEF RunTypeOK
  <2> QED
    BY <2>1, LimitAssumption DEF RunTypeOK
<1>2. CASE ReaderRead
  <2>1. buf + 1 <= sent
    BY <1>1, <1>2 DEF ReaderRead
  <2>2. CASE buf < Limit
    BY <1>1, <1>2, <2>1, <2>2 DEF ReaderRead, ThreadStep, OwnStep, ReaderEnds, WriterEnds, RunTypeOK
  <2>3. CASE ~ (buf < Limit)
    BY <1>1, <1>2, <2>3 DEF ReaderRead, ThreadStep, OwnStep, ReaderEnds, WriterEnds
  <2> QED
    BY <2>2, <2>3
<1>3. CASE ReaderEof
  BY <1>1, <1>3 DEF ReaderEof, ThreadStep, OwnStep, ReaderEnds, WriterEnds
<1>4. CASE WriterWrite
  BY <1>1, <1>4 DEF WriterWrite, ThreadStep, OwnStep, ReaderEnds, WriterEnds
<1>5. CASE WriterClose
  BY <1>1, <1>5 DEF WriterClose, ThreadStep, OwnStep, ReaderEnds, WriterEnds
<1> QED
  BY <1>2, <1>3, <1>4, <1>5 DEF Reader, Writer

LEMMA RunThreads ==
  ASSUME RunInv, ThreadStep
  PROVE  RunInv'
<1>0. RunTypeOK /\ ~ twice /\ EndOwners /\ Stage
  BY DEF RunInv, NothingLeft
<1>1. /\ UNCHANGED <<pc, call, gpg, sent, snap, tmp, result>>
      /\ buf' \in 0..Limit /\ buf' <= sent /\ snap <= buf'
  BY DEF ThreadStep
<1> DEFINE FdOK ==
             /\ fd' \in [Fd -> {"absent", "main", "reader", "writer", "lost", "closed"}]
             /\ twice' = FALSE
             /\ \A f \in Fd :
                    fd'[f] = fd[f] \/ (fd[f] \in {"reader", "writer"} /\ fd'[f] = "closed")
             /\ EndOwners'
           ThreadOK ==
             /\ reader' \in {"none", "reading", "done"}
             /\ writer' \in {"none", "writing", "wrote", "done"}
             /\ secret' \in {"none", "plain", "zero"} /\ (secret' = "plain" => secret = "plain")
<1>2. FdOK /\ ThreadOK
  <2>1. CASE OwnStep
    <3>1. ThreadOK
      BY <1>0, <2>1 DEF RunTypeOK, OwnStep
    <3>2. FdOK
      BY <1>0, <2>1 DEF RunTypeOK, OwnStep, EndOwners
    <3> QED
      BY <3>1, <3>2
  <2>2. CASE ReaderEnds
    <3>0. ThreadOK
      BY <1>0, <2>2 DEF RunTypeOK, ReaderEnds
    <3>1. fd["status_read"] = "reader"
      BY <1>0, <2>2 DEF EndOwners, ReaderEnds
    <3>2. /\ fd' \in [Fd -> {"absent", "main", "reader", "writer", "lost", "closed"}]
          /\ twice' = FALSE
          /\ fd' = [f \in Fd |-> IF f = "status_read" THEN "closed" ELSE fd[f]]
      BY <1>0, <2>2, <3>1 DEF Close, RunTypeOK, Fd, ReaderEnds
    <3>3. FdOK
      BY <1>0, <2>2, <3>1, <3>2 DEF RunTypeOK, EndOwners, Fd, ReaderEnds
    <3> QED
      BY <3>0, <3>3
  <2>3. CASE WriterEnds
    <3>0. ThreadOK
      BY <1>0, <2>3 DEF RunTypeOK, WriterEnds
    <3>1. fd["pass_write"] = "writer"
      BY <1>0, <2>3 DEF EndOwners, WriterEnds
    <3>2. /\ fd' \in [Fd -> {"absent", "main", "reader", "writer", "lost", "closed"}]
          /\ twice' = FALSE
          /\ fd' = [f \in Fd |-> IF f = "pass_write" THEN "closed" ELSE fd[f]]
      BY <1>0, <2>3, <3>1 DEF Close, RunTypeOK, Fd, WriterEnds
    <3>3. FdOK
      BY <1>0, <2>3, <3>1, <3>2 DEF RunTypeOK, EndOwners, Fd, WriterEnds
    <3> QED
      BY <3>0, <3>3
  <2> HIDE DEF FdOK, ThreadOK
  <2> QED
    BY <2>1, <2>2, <2>3 DEF ThreadStep
<1>3. RunTypeOK'
  BY <1>0, <1>1, <1>2 DEF RunTypeOK
<1>4. pc \in {"call", "spawn", "threads"} => UNCHANGED <<fd, reader, writer, secret>>
  <2>1. pc \in {"call", "spawn", "threads"} => reader = "none" /\ writer = "none"
    BY <1>0 DEF Stage, Before
  <2>2. pc \in {"call", "spawn", "threads"} => OwnStep
    BY <2>1 DEF ThreadStep, ReaderEnds, WriterEnds
  <2> QED
    BY <2>1, <2>2 DEF OwnStep
<1>5. Stage'
  BY <1>0, <1>1, <1>2, <1>4 DEF Stage, Before, After, Open, Lost, Fd, Early
<1>6. pc = "done" => secret' # "plain" \/ (Early /\ fd'["status_read"] = "main")
  BY <1>2 DEF RunInv, NothingLeft, Fd
<1>7. Early' <=> Early
  BY <1>1 DEF Early
<1>8. NothingLeft'
  <2>1. RunTypeOK' /\ ~ twice' /\ (EndOwners /\ Stage)'
    BY <1>2, <1>3, <1>5
  <2>2. pc' = "done" => secret' # "plain" \/ (Early' /\ fd'["status_read"] = "main")
    BY <1>1, <1>6, <1>7
  <2> QED
    BY <2>1, <2>2, LeftOver
<1>9. VerdictIsEarned'
  BY <1>1 DEF RunInv, VerdictIsEarned, Cut
<1> QED
  BY <1>2, <1>5, <1>8, <1>9 DEF RunInv

\* A line of gpg, or its end: nothing the calling thread owns or has concluded changes.
LEMMA RunGpgItself ==
  ASSUME RunInv, Gpg
  PROVE  RunInv'
<1>0. RunTypeOK /\ ~ twice /\ EndOwners /\ Stage
  BY DEF RunInv, NothingLeft
<1>1. /\ gpg.is = "running" /\ gpg'.is \in {"running", "exited"}
      /\ UNCHANGED <<pc, call, fd, twice, secret, writer, reader, buf, snap, tmp, result>>
      /\ gpg' \in [is : {"none", "running", "exited", "killed"}, rc : {0, 1, 2},
                   why : Complaint]
      /\ sent' \in {sent, sent + 1} /\ (sent' # sent => sent < Len(call.msg))
  <2>1. gpg \in [is : {"none", "running", "exited", "killed"}, rc : {0, 1, 2},
                 why : Complaint]
    BY <1>0 DEF RunTypeOK
  <2>2. CASE GpgEmit
    BY <2>1, <2>2 DEF GpgEmit
  <2>3. CASE GpgExit
    <3>1. /\ gpg.is = "running" /\ sent' = sent
          /\ UNCHANGED <<pc, call, fd, twice, secret, writer, reader, buf, snap, tmp, result>>
      BY <2>3 DEF GpgExit
    <3>2. \/ \E r \in {0, 1} : gpg' = [gpg EXCEPT !.is = "exited", !.rc = r]
          \/ \E w \in Complaint : gpg' = [is |-> "exited", rc |-> 2, why |-> w]
      BY <2>3 DEF GpgExit, Complaint
    <3>3. /\ gpg' \in [is : {"none", "running", "exited", "killed"}, rc : {0, 1, 2},
                       why : Complaint]
          /\ gpg'.is = "exited"
      <4>1. CASE \E r \in {0, 1} : gpg' = [gpg EXCEPT !.is = "exited", !.rc = r]
        BY <2>1, <4>1
      <4>2. CASE \E w \in Complaint : gpg' = [is |-> "exited", rc |-> 2, why |-> w]
        BY <4>2
      <4> QED
        BY <3>2, <4>1, <4>2
    <3> QED
      BY <3>1, <3>3
  <2> QED
    BY <2>2, <2>3 DEF Gpg
<1>2. RunTypeOK'
  <2>1. PICK m \in Seq(Tag) : m = call.msg
    BY <1>0, MessageIsSeq DEF RunTypeOK
  <2>2. sent \in 0..Len(m) /\ buf \in Nat /\ buf <= sent
    BY <1>0, <2>1 DEF RunTypeOK
  <2>3. sent' \in 0..Len(m) /\ buf <= sent'
    BY <1>1, <2>1, <2>2
  <2> QED
    BY <1>0, <1>1, <2>1, <2>3 DEF RunTypeOK
<1>3. pc \in {"threads", "communicate"} \/ (pc \in {"finally", "done"} /\ result.is = "no thread")
  BY <1>0, <1>1 DEF RunTypeOK, Stage, Before, Open
<1>4. Early' <=> Early
  BY <1>1 DEF Early
<1>5. (EndOwners /\ Stage)'
  BY <1>0, <1>1, <1>3 DEF EndOwners, Stage, Before, After, Open, Lost, Fd, Early
<1>6. NothingLeft'
  BY <1>0, <1>1, <1>2, <1>4, <1>5, LeftOver DEF RunInv, NothingLeft
<1>7. VerdictIsEarned'
  BY <1>0, <1>1, <1>3 DEF VerdictIsEarned, Stage, Open
<1> QED
  BY <1>5, <1>6, <1>7 DEF RunInv

LEMMA RunCommunicate ==
  ASSUME RunInv, Communicate \/ JoinReader
  PROVE  RunInv'
<1>0. RunTypeOK /\ ~ twice /\ EndOwners /\ Stage
  BY DEF RunInv, NothingLeft
<1>1. CASE Communicate /\ gpg.is = "exited"
  <2>1. pc = "communicate" /\ pc' = "join"
        /\ UNCHANGED <<call, fd, twice, secret, writer, reader, gpg, sent, buf, snap, tmp, result>>
    BY <1>1 DEF Communicate
  <2>2. RunTypeOK' /\ (EndOwners /\ Stage)'
    BY <1>0, <1>1, <2>1 DEF RunTypeOK, EndOwners, Stage, Before, After, Open, Lost
  <2> QED
    BY <1>0, <2>1, <2>2, NotDone
<1>2. CASE Communicate /\ gpg.is # "exited"
  <2>1. /\ pc = "communicate" /\ pc' = "finally" /\ gpg' = [gpg EXCEPT !.is = "killed"]
        /\ result' = [is |-> "timeout", sig |-> "none"]
        /\ UNCHANGED <<call, fd, twice, secret, writer, reader, sent, buf, snap, tmp>>
    BY <1>2 DEF Communicate, Raise
  <2>2. /\ gpg' \in [is : {"none", "running", "exited", "killed"}, rc : {0, 1, 2},
                     why : Complaint]
        /\ gpg'.is = "killed"
    BY <1>0, <2>1 DEF RunTypeOK
  <2>3. result' \in [is : Returned \cup Raised \cup {"pending"}, sig : Returned]
    BY <2>1, RaiseType DEF Raised
  <2>4. result'.is = "timeout" /\ result'.sig = "none"
    BY <2>1
  <2>5. RunTypeOK'
    BY <1>0, <2>1, <2>2, <2>3 DEF RunTypeOK
  <2>6. (EndOwners /\ Stage)'
    BY <1>0, <2>1, <2>2, <2>4 DEF EndOwners, Stage, Before, After, Open, Lost, Raised
  <2> QED
    BY <1>0, <2>1, <2>5, <2>6, NotDone
<1>3. CASE JoinReader
  <2>1. /\ pc = "join" /\ pc' = "finally" /\ snap' = buf
        /\ UNCHANGED <<call, fd, twice, secret, writer, reader, gpg, sent, buf, tmp, result>>
    BY <1>3 DEF JoinReader
  <2>2. RunTypeOK'
    <3>1. buf \in 0..Limit /\ buf <= buf
      BY <1>0 DEF RunTypeOK
    <3> QED
      BY <1>0, <2>1, <3>1 DEF RunTypeOK
  <2>3. (EndOwners /\ Stage)'
    BY <1>0, <2>1 DEF EndOwners, Stage, Before, After, Open, Lost
  <2> QED
    BY <1>0, <2>1, <2>2, <2>3, NotDone
<1> QED
  BY <1>1, <1>2, <1>3

\* finally: what the calling thread still owns is closed, the passphrase is wiped, and the
\* operation draws its conclusion from what was stored.
LEMMA RunFinally ==
  ASSUME RunInv, Finally
  PROVE  RunInv'
<1>0. RunTypeOK /\ ~ twice /\ EndOwners /\ Open /\ Lost /\ pc = "finally" /\ pc' = "done"
  BY DEF RunInv, NothingLeft, Stage, Finally
<1>1. /\ UNCHANGED <<call, writer, reader, gpg, sent, buf, snap>> /\ tmp' = {}
      /\ secret' \in {"none", "zero"}
  BY <1>0 DEF Finally, Unlink, RunTypeOK
<1>2. /\ fd' \in [Fd -> {"absent", "main", "reader", "writer", "lost", "closed"}]
      /\ twice' = FALSE
      /\ \A f \in Fd : fd'[f] = IF fd[f] = "main" THEN "closed" ELSE fd[f]
  BY <1>0 DEF Finally, Close, RunTypeOK
<1>3. \/ result' = Outcome(call.op)
      \/ result' = result /\ result.is \in Raised /\ result.sig = "none"
  BY <1>0 DEF Finally, Open
<1>4. result' \in [is : Returned \cup Raised \cup {"pending"}, sig : Returned]
  BY <1>0, <1>3, OutcomeFacts DEF RunTypeOK
<1>5. RunTypeOK'
  BY <1>0, <1>1, <1>2, <1>4 DEF RunTypeOK
<1>6. EndOwners' /\ \A f \in Fd : fd'[f] # "main"
  BY <1>0, <1>1, <1>2 DEF EndOwners, Fd
<1>7. Stage'
  <2>1. result'.is = "no thread" => result'.sig = "none"
    BY <1>0, <1>3, OutcomeFacts DEF Raised, Returned
  <2>2. result.is = "no thread" => result' = result
    BY <1>0 DEF Finally
  <2> QED
    BY <1>0, <1>1, <1>2, <1>6, <2>1, <2>2 DEF Stage, Before, After, Open, Lost
<1>8. NothingLeft'
  <2>1. RunTypeOK' /\ ~ twice' /\ secret' # "plain"
    BY <1>1, <1>2, <1>5
  <2> QED
    BY <1>6, <1>7, <2>1, LeftOver
<1>9. VerdictIsEarned'
  <2>1. Cut' <=> Cut
    BY <1>1 DEF Cut
  <2>2. CASE result' = Outcome(call.op)
    BY <1>0, <1>1, <2>1, <2>2, OutcomeFacts DEF VerdictIsEarned
  <2>3. CASE result' = result /\ result.is \in Raised /\ result.sig = "none"
    BY <2>3 DEF VerdictIsEarned, Raised
  <2> QED
    BY <1>3, <2>2, <2>3
<1> QED
  BY <1>6, <1>7, <1>8, <1>9 DEF RunInv

LEMMA RunStep ==
  ASSUME RunInv, [RunNext]_runVars
  PROVE  RunInv'
<1>1. CASE MainStep
  BY <1>1, RunCall, RunSpawn, RunStartThreads, RunCommunicate, RunFinally DEF MainStep
<1>2. CASE Reader \/ Writer
  BY <1>2, ThreadsStep, RunThreads DEF RunInv, NothingLeft
<1>3. CASE Gpg
  BY <1>3, RunGpgItself
<1>4. CASE UNCHANGED runVars
  <2>1. UNCHANGED <<pc, call, fd, twice, secret, writer, reader, gpg, sent, buf, snap, tmp, result>>
    BY <1>4 DEF runVars
  <2>2. (EndOwners /\ Stage)'
    BY <2>1 DEF RunInv, EndOwners, Stage, Before, After, Open, Lost, Early
  <2>3. (NothingLeft /\ VerdictIsEarned)'
    <3>1. RunTypeOK'
      <4>1. RunTypeOK
        BY DEF RunInv, NothingLeft
      <4> QED
        BY <2>1, <4>1 DEF RunTypeOK
    <3>2. VerdictIsEarned'
      BY <2>1 DEF RunInv, VerdictIsEarned, Cut
    <3> QED
      BY <2>1, <3>1, <3>2 DEF RunInv, NothingLeft, Over, Unclosed, Early
  <2> QED
    BY <2>2, <2>3 DEF RunInv
<1> QED
  BY <1>1, <1>2, <1>3, <1>4 DEF RunNext

\* The invariant of one run of gpg with its two threads.
THEOREM RunInvariance ==
  RunSpec => []RunInv
<1>1. RunInit => RunInv
  BY RunInitially
<1>2. RunInv /\ [RunNext]_runVars => RunInv'
  BY RunStep
<1> QED
  BY <1>1, <1>2, PTL DEF RunSpec

\* _GPGPipes and the finally of _run_gpg: no end is closed twice, and when the call has
\* returned and its threads have ended nothing is left but what there was when a call
\* failed before the try, and the end of a thread that could not be started.
THEOREM EveryEndIsClosedOnce ==
  RunSpec => []NothingLeft
<1>1. RunInv => NothingLeft
  BY DEF RunInv
<1> QED
  BY <1>1, RunInvariance, PTL

\* _evaluate_signature, verify and decrypt: for any number of signatures, in any order of
\* their lines, "valid" and "not signed" are what gpg said, unless its lines were lost.
THEOREM VerdictsAreEarned ==
  RunSpec => []VerdictIsEarned
<1>1. RunInv => VerdictIsEarned
  BY DEF RunInv
<1> QED
  BY <1>1, RunInvariance, PTL

=============================================================================
