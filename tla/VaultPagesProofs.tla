-------------------------- MODULE VaultPagesProofs --------------------------
(***************************************************************************)
(* The safety properties of the two vault pages: of VaultExport for any    *)
(* keys, any number of exports at a time and any bounds, and of            *)
(* VaultImport for any vault files and any number of previews and imports. *)
(*                                                                         *)
(* Three facts hold the export page and its workers together.  A ticked    *)
(* Token only is a consent (Ticks); a running export without a passphrase  *)
(* has that consent, or was made from white space (Jobs); and the count of *)
(* the open buffers of a key is the count of their owners (Accounts),      *)
(* which every transfer between page, worker and dialog leaves even.       *)
(***************************************************************************)
EXTENDS VaultExport, VaultImport, FiniteSetTheorems, TLAPS

Job == [at : {"idle", "start", "written", "failed"}, keys : SUBSET Key,
        pps : [Key -> Text \cup {Absent}], owned : SUBSET Key, master : BOOLEAN,
        tokens : SUBSET Key, consent : BOOLEAN, blank : BOOLEAN,
        private : SUBSET Key, local : SUBSET Key, slots : SUBSET (Key \cup {PassSlot})]

\* What one export has, at each of its stages.
JobOK(j) ==
    /\ j \in Job
    /\ j.at # "start" => j.owned = {}
    /\ j.at = "start" => j.master \/ j.consent \/ j.blank
    /\ j.at = "written" => PassSlot \in j.slots \/ j.consent \/ j.blank

Jobs ==
    /\ work \in [Worker -> Job]
    /\ \A w \in Worker : JobOK(work[w])

Ticks == vm.tokenOnly => consent

Owners(k) == {w \in Worker : k \in work[w].owned}

Accounts ==
    \A k \in Key : open[k] = (IF k \in vm.secret THEN 1 ELSE 0)
                             + Cardinality(Owners(k)) + stray[k]

ViewModel ==
    [selected : SUBSET Key, typed : [Key -> Text \cup {Absent}],
     secret : SUBSET Key, unlocked : SUBSET Key, stub : SUBSET Key,
     tokens : SUBSET Key, tokenOnly : BOOLEAN, master : Master]

Buffers == open \in [Key -> Nat] /\ stray \in [Key -> Nat]

\* TypeOK without the exports, which Jobs describes.
PageOK ==
    /\ stub \subseteq Key
    /\ vm \in ViewModel /\ vm.tokens \subseteq OnCard \cup vm.stub
    /\ active \in Key \cup {NoKey} /\ field \in Text
    /\ button \in BOOLEAN /\ consent \in BOOLEAN
    /\ dlg \in Key \cup {NoKey}
    /\ reload \in [on : BOOLEAN, stub : SUBSET Key]
    /\ Buffers
    /\ bound \in Bounds /\ ops \in 0..bound.ops /\ changes \in 0..bound.changes

IInv == PageOK /\ Jobs /\ Ticks /\ Accounts

----------------------------------------------------------------------------
\* An idle export is one.
LEMMA IdleOK == JobOK(Idle)
  BY DEF JobOK, Job, Idle, Text

\* The number of exports that own a buffer of a key is a number.
LEMMA OwnersFinite ==
    ASSUME NEW k \in Key
    PROVE  IsFiniteSet(Owners(k)) /\ Cardinality(Owners(k)) \in Nat
<1>1. IsFiniteSet(Worker) /\ Owners(k) \subseteq Worker
  BY ExportAssumption DEF Owners
<1>2. IsFiniteSet(Owners(k))
  BY <1>1, FS_Subset
<1> QED
  BY <1>2, FS_CardinalityType

\* An export that ends gives up the buffers it owned, and nobody else's.
LEMMA Released ==
    ASSUME work \in [Worker -> Job], NEW w \in Worker, NEW j, j.owned = {},
           work' = [work EXCEPT ![w] = j], NEW k \in Key
    PROVE  /\ Cardinality(Owners(k))
                 = Cardinality(Owners(k)') + (IF k \in work[w].owned THEN 1 ELSE 0)
           /\ Cardinality(Owners(k)') \in Nat
<1>1. Owners(k)' = Owners(k) \ {w}
  <2>1. \A v \in Worker : v # w => work'[v] = work[v]
    OBVIOUS
  <2>2. work'[w] = j
    OBVIOUS
  <2> QED
    BY <2>1, <2>2 DEF Owners
<1>2. IsFiniteSet(Owners(k)) /\ Cardinality(Owners(k)) \in Nat
  BY OwnersFinite
<1>3. w \in Owners(k) <=> k \in work[w].owned
  BY DEF Owners
<1>4. CASE w \in Owners(k)
  <2>1. Cardinality(Owners(k) \ {w}) = Cardinality(Owners(k)) - 1
    BY <1>2, <1>4, FS_RemoveElement
  <2>2. IsFiniteSet(Owners(k) \ {w})
    BY <1>2, FS_RemoveElement
  <2>3. Cardinality(Owners(k) \ {w}) \in Nat
    BY <2>2, FS_CardinalityType
  <2> QED
    BY <1>1, <1>2, <1>3, <1>4, <2>1, <2>3
<1>5. CASE w \notin Owners(k)
  <2>1. Owners(k) \ {w} = Owners(k)
    BY <1>5
  <2> QED
    BY <1>1, <1>2, <1>3, <1>5, <2>1
<1> QED
  BY <1>4, <1>5

\* An export that starts takes over the buffers it is given.
LEMMA TakenOver ==
    ASSUME work \in [Worker -> Job], NEW w \in Worker, NEW j, work[w].owned = {},
           work' = [work EXCEPT ![w] = j], NEW k \in Key
    PROVE  /\ Cardinality(Owners(k)')
                 = Cardinality(Owners(k)) + (IF k \in j.owned THEN 1 ELSE 0)
           /\ Cardinality(Owners(k)) \in Nat
<1>1. \A v \in Worker : work'[v] = IF v = w THEN j ELSE work[v]
  OBVIOUS
<1>2. IsFiniteSet(Owners(k)) /\ Cardinality(Owners(k)) \in Nat /\ w \notin Owners(k)
  BY OwnersFinite DEF Owners
<1>3. CASE k \in j.owned
  <2>1. Owners(k)' = Owners(k) \cup {w}
    BY <1>1, <1>3 DEF Owners
  <2>2. Cardinality(Owners(k) \cup {w}) = Cardinality(Owners(k)) + 1
    BY <1>2, FS_AddElement
  <2> QED
    BY <1>2, <1>3, <2>1, <2>2
<1>4. CASE k \notin j.owned
  <2>1. Owners(k)' = Owners(k)
    BY <1>1, <1>2, <1>4 DEF Owners
  <2> QED
    BY <1>2, <1>4, <2>1
<1> QED
  BY <1>3, <1>4

\* A step of the page that touches no export: the owners among the exports stay.
LEMMA SameOwners ==
    ASSUME work' = work, NEW k \in Key
    PROVE  Owners(k)' = Owners(k) /\ Cardinality(Owners(k)) \in Nat
BY OwnersFinite DEF Owners

\* The page gives up the buffers of the keys ks, and closes them.
LEMMA PageCloses ==
    ASSUME Buffers, Accounts, NEW ks, ks \subseteq vm.secret,
           vm'.secret = vm.secret \ ks, open' = CloseBuffers(open, ks),
           UNCHANGED <<work, stray>>
    PROVE  Buffers' /\ Accounts'
<1>1. ASSUME NEW k \in Key
      PROVE  /\ open'[k] = (IF k \in vm'.secret THEN 1 ELSE 0)
                           + Cardinality(Owners(k)') + stray'[k]
             /\ open'[k] \in Nat
  <2>1. Owners(k)' = Owners(k) /\ Cardinality(Owners(k)) \in Nat
    BY SameOwners
  <2>2. open'[k] = IF k \in ks THEN open[k] - 1 ELSE open[k]
    BY DEF CloseBuffers, Buffers
  <2>3. open[k] = (IF k \in vm.secret THEN 1 ELSE 0) + Cardinality(Owners(k)) + stray[k]
    BY DEF Accounts
  <2>4. stray[k] \in Nat /\ open[k] \in Nat /\ stray' = stray
    BY DEF Buffers
  <2>5. k \in vm'.secret <=> k \in vm.secret /\ k \notin ks
    OBVIOUS
  <2>6. PICK c \in Nat : c = Cardinality(Owners(k))
    BY <2>1
  <2> HIDE DEF Owners
  <2>7. CASE k \in ks
    <3>1. open'[k] = c + stray[k] /\ c + stray[k] \in Nat
      BY <2>2, <2>3, <2>4, <2>6, <2>7
    <3> QED
      BY <3>1, <2>1, <2>4, <2>5, <2>6, <2>7
  <2>8. CASE k \notin ks
    BY <2>1, <2>2, <2>3, <2>4, <2>5, <2>6, <2>8
  <2> QED
    BY <2>7, <2>8
<1>2. open' \in [Key -> Nat]
  BY <1>1 DEF CloseBuffers, Buffers
<1> QED
  BY <1>1, <1>2 DEF Buffers, Accounts

\* A step that moves no buffer.
LEMMA NoneMoves ==
    ASSUME Buffers, Accounts, vm'.secret = vm.secret, UNCHANGED <<work, open, stray>>
    PROVE  Buffers' /\ Accounts'
BY DEF Buffers, Accounts, Owners

\* Exports are left alone, or one of them is replaced.
LEMMA JobsAlone ==
    ASSUME Jobs, work' = work
    PROVE  Jobs'
BY DEF Jobs

LEMMA JobReplaced ==
    ASSUME Jobs, NEW w \in Worker, NEW j, JobOK(j), work' = [work EXCEPT ![w] = j]
    PROVE  Jobs'
<1>1. j \in Job
  BY DEF JobOK
<1>2. \A v \in Worker : work'[v] = IF v = w THEN j ELSE work[v]
  BY DEF Jobs
<1>3. work' \in [Worker -> Job]
  BY <1>1 DEF Jobs
<1> QED
  BY <1>2, <1>3 DEF Jobs

----------------------------------------------------------------------------
(* The operators on the view model.                                        *)

\* The button is enabled or not.
LEMMA Submittable == ASSUME NEW v PROVE CanSubmit(v) \in BOOLEAN
BY DEF CanSubmit

LEMMA Dropped ==
    ASSUME NEW f \in [Key -> Text \cup {Absent}], NEW ks
    PROVE  Drop(f, ks) \in [Key -> Text \cup {Absent}]
BY DEF Drop

\* set_selected: the deselected keys lose what was stored for them, and only stubs are
\* unlocked by being selected.
LEMMA Selection ==
    ASSUME NEW v \in ViewModel, NEW sel \in SUBSET Key
    PROVE  /\ SetSelected(v, sel) \in ViewModel
           /\ SetSelected(v, sel).secret = v.secret \ (v.selected \ sel)
           /\ SetSelected(v, sel).stub = v.stub
           /\ SetSelected(v, sel).tokens = v.tokens
           /\ SetSelected(v, sel).tokenOnly = v.tokenOnly
           /\ SetSelected(v, sel).unlocked \subseteq v.unlocked \cup v.stub
<1>1. Drop(v.typed, v.selected \ sel) \in [Key -> Text \cup {Absent}]
  BY Dropped DEF ViewModel
<1> HIDE DEF Text, Absent
<1> QED
  BY <1>1 DEF SetSelected, ViewModel

\* unlock_key marks the key, or does nothing.
LEMMA Unlocking ==
    ASSUME NEW v \in ViewModel, NEW k \in Key, v.typed[k] \in Key \cup {Empty}
    PROVE  /\ UnlockKey(v, k) \in ViewModel
           /\ UnlockKey(v, k).secret = v.secret /\ UnlockKey(v, k).stub = v.stub
           /\ UnlockKey(v, k).tokens = v.tokens /\ UnlockKey(v, k).tokenOnly = v.tokenOnly
           /\ UnlockKey(v, k).typed = v.typed
           /\ UnlockKey(v, k).unlocked \subseteq v.unlocked \cup {k}
           /\ k \in UnlockKey(v, k).unlocked \ v.unlocked => v.typed[k] \in Key
BY DEF UnlockKey, ViewModel

----------------------------------------------------------------------------
LEMMA InitIInv == Init => IInv
<1> SUFFICES ASSUME Init PROVE IInv
  OBVIOUS
<1>1. Jobs
  BY IdleOK DEF Init, Jobs, JobOK
<1>2. PageOK
  <2>1. vm \in ViewModel
    BY ExportAssumption DEF Init, ViewModel, Text, Master
  <2>2. bound \in Bounds /\ ops \in 0..bound.ops /\ changes \in 0..bound.changes
    BY ExportAssumption DEF Init
  <2>3. Buffers
    BY DEF Init, Buffers
  <2> QED
    BY <2>1, <2>2, <2>3, ExportAssumption DEF Init, PageOK, NoReload, Text
<1>3. Ticks
  BY DEF Init, Ticks
<1>4. Accounts
  <2>1. ASSUME NEW k \in Key PROVE Cardinality(Owners(k)) = 0
    <3>1. Owners(k) = {}
      BY DEF Init, Owners, Idle
    <3> QED
      BY <3>1, FS_EmptySet
  <2> QED
    BY <2>1 DEF Init, Accounts
<1> QED
  BY <1>1, <1>2, <1>3, <1>4 DEF IInv

----------------------------------------------------------------------------
(* The page.                                                               *)

\* A step of the page that changes the view model and keeps its secrets, tokens and tick.
LEMMA PlainEdit ==
    ASSUME IInv, vm' \in ViewModel,
           vm'.secret = vm.secret, vm'.stub = vm.stub, vm'.tokens = vm.tokens,
           vm'.tokenOnly => vm.tokenOnly, Update,
           active' \in Key \cup {NoKey}, field' \in Text,
           UNCHANGED <<stub, dlg, reload, work, buffers, consent, bounds>>
    PROVE  IInv'
<1>1. Jobs'
  BY JobsAlone DEF IInv
<1>2. Buffers' /\ Accounts'
  BY NoneMoves DEF IInv, PageOK, buffers
<1>3. button' \in BOOLEAN
  BY Submittable DEF Update
<1>4. PageOK'
  BY <1>2, <1>3 DEF IInv, PageOK, bounds
<1>5. Ticks'
  BY DEF IInv, Ticks
<1> QED
  BY <1>1, <1>2, <1>4, <1>5 DEF IInv

\* _on_key_selection: the secrets of the keys that are deselected are closed and gone.
LEMMA Reselect ==
    ASSUME IInv, NEW k \in Key, vm' \in ViewModel,
           vm'.secret = SetSelected(vm, Toggled(k)).secret, vm'.stub = vm.stub,
           vm'.tokens = vm.tokens, vm'.tokenOnly = vm.tokenOnly, Update,
           open' = CloseBuffers(open, Deselected(Toggled(k))),
           active' \in Key \cup {NoKey}, field' \in Text,
           UNCHANGED <<stub, dlg, reload, work, stray, consent, bounds>>
    PROVE  IInv'
<1>1. Jobs'
  BY JobsAlone DEF IInv
<1>2. Toggled(k) \in SUBSET Key /\ vm \in ViewModel
  BY DEF IInv, PageOK, Toggled, ViewModel
<1>3. vm'.secret = vm.secret \ (vm.selected \ Toggled(k))
  BY <1>2, Selection
<1>4. /\ vm'.secret = vm.secret \ Deselected(Toggled(k))
      /\ Deselected(Toggled(k)) \subseteq vm.secret
  BY <1>3 DEF Deselected
<1>5. Buffers' /\ Accounts'
  BY <1>4, PageCloses DEF IInv, PageOK
<1>6. button' \in BOOLEAN
  BY Submittable DEF Update
<1>7. PageOK'
  BY <1>5, <1>6 DEF IInv, PageOK, bounds
<1>8. Ticks'
  BY DEF IInv, Ticks
<1> QED
  BY <1>1, <1>5, <1>7, <1>8 DEF IInv

LEMMA SelectByKeyboardStep ==
    ASSUME IInv, NEW k \in Key, SelectByKeyboard(k)
    PROVE  IInv'
<1>1. Toggled(k) \in SUBSET Key /\ vm \in ViewModel
  BY DEF IInv, PageOK, Toggled, ViewModel
<1>2. /\ vm' \in ViewModel /\ vm'.stub = vm.stub
      /\ vm'.tokens = vm.tokens /\ vm'.tokenOnly = vm.tokenOnly
  BY <1>1, Selection DEF SelectByKeyboard
<1> QED
  BY <1>2, Reselect DEF SelectByKeyboard, IInv, PageOK

LEMMA ClickItemStep ==
    ASSUME IInv, NEW k \in Key, ClickItem(k)
    PROVE  IInv'
<1> DEFINE v == SetSelected(vm, Toggled(k))
<1>1. Toggled(k) \in SUBSET Key /\ vm \in ViewModel
  BY DEF IInv, PageOK, Toggled, ViewModel
<1>2. /\ v \in ViewModel /\ v.stub = vm.stub
      /\ v.tokens = vm.tokens /\ v.tokenOnly = vm.tokenOnly
  BY <1>1, Selection
<1>3. vm' = v \/ vm' = [v EXCEPT !.typed[k] = Empty]
  BY DEF ClickItem
<1>4. v.secret = SetSelected(vm, Toggled(k)).secret
  OBVIOUS
<1> HIDE DEF v
<1>5. /\ vm' \in ViewModel /\ vm'.secret = v.secret /\ vm'.stub = vm.stub
      /\ vm'.tokens = vm.tokens /\ vm'.tokenOnly = vm.tokenOnly
  BY <1>2, <1>3 DEF ViewModel, Text
<1>6. active' \in Key \cup {NoKey} /\ field' \in Text
  BY DEF ClickItem, IInv, PageOK, Text
<1> QED
  BY <1>4, <1>5, <1>6, Reselect DEF ClickItem

LEMMA TypePassphraseStep ==
    ASSUME IInv, NEW t \in Text, TypePassphrase(t)
    PROVE  IInv'
<1>1. active \in Key /\ vm \in ViewModel
  BY DEF TypePassphrase, IInv, PageOK
<1>2. /\ vm' \in ViewModel /\ vm'.secret = vm.secret /\ vm'.stub = vm.stub
      /\ vm'.tokens = vm.tokens /\ vm'.tokenOnly = vm.tokenOnly
  BY <1>1 DEF TypePassphrase, ViewModel
<1>3. Jobs'
  BY JobsAlone DEF IInv, TypePassphrase
<1>4. Buffers' /\ Accounts'
  BY <1>2, NoneMoves DEF IInv, PageOK, buffers, TypePassphrase
<1>5. PageOK'
  BY <1>2, <1>4 DEF IInv, PageOK, bounds, TypePassphrase
<1>6. Ticks'
  BY <1>2 DEF IInv, Ticks, TypePassphrase
<1> QED
  BY <1>3, <1>4, <1>5, <1>6 DEF IInv

\* The two facts about Unlock that the invariant and UnlockedWithSomething both need.
LEMMA UnlockClickedFacts ==
    ASSUME IInv, UnlockClicked
    PROVE  /\ vm' \in ViewModel /\ vm'.secret = vm.secret /\ vm'.stub = vm.stub
           /\ vm'.tokens = vm.tokens /\ vm'.tokenOnly = vm.tokenOnly
           /\ \A k \in vm'.unlocked \ vm.unlocked : vm'.typed[k] \in Key
<1> DEFINE v == [vm EXCEPT !.typed[active] = field]
<1>1. active \in Key /\ vm \in ViewModel /\ field \in Key
  BY DEF UnlockClicked, IInv, PageOK, Text
<1>2. /\ v \in ViewModel /\ v.typed[active] = field
      /\ v.secret = vm.secret /\ v.stub = vm.stub /\ v.tokens = vm.tokens
      /\ v.tokenOnly = vm.tokenOnly /\ v.unlocked = vm.unlocked
  BY <1>1 DEF ViewModel, Text
<1>3. vm' = UnlockKey(v, active)
  BY DEF UnlockClicked
<1> HIDE DEF v
<1>4. /\ UnlockKey(v, active) \in ViewModel
      /\ UnlockKey(v, active).secret = v.secret /\ UnlockKey(v, active).stub = v.stub
      /\ UnlockKey(v, active).tokens = v.tokens
      /\ UnlockKey(v, active).tokenOnly = v.tokenOnly
      /\ UnlockKey(v, active).typed = v.typed
      /\ UnlockKey(v, active).unlocked \subseteq v.unlocked \cup {active}
  BY <1>1, <1>2, Unlocking
<1> QED
  BY <1>1, <1>2, <1>3, <1>4

LEMMA UnlockClickedStep ==
    ASSUME IInv, UnlockClicked
    PROVE  IInv'
BY UnlockClickedFacts, PlainEdit DEF UnlockClicked, Text

LEMMA EnterMasterStep ==
    ASSUME IInv, NEW p \in Master, EnterMaster(p)
    PROVE  IInv'
<1>1. /\ vm' \in ViewModel /\ vm'.secret = vm.secret /\ vm'.stub = vm.stub
      /\ vm'.tokens = vm.tokens /\ vm'.tokenOnly = vm.tokenOnly
  BY DEF EnterMaster, IInv, PageOK, ViewModel
<1> QED
  BY <1>1, PlainEdit DEF EnterMaster, IInv, PageOK

\* Un-ticking the last token takes the tick and the consent away together.
LEMMA TickTokenStep ==
    ASSUME IInv, NEW k \in Key, TickToken(k)
    PROVE  IInv'
<1>1. PICK ts : /\ vm' = TokensChanged(vm, ts) /\ consent' = (consent /\ ts # {})
                /\ ts \subseteq vm.tokens \cup {k}
  BY DEF TickToken
<1>2. ts \subseteq OnCard \cup vm.stub /\ ts \in SUBSET Key
  BY <1>1 DEF IInv, PageOK, TickToken, ViewModel
<1>3. PICK b \in BOOLEAN : b = (vm.tokenOnly /\ ts # {})
  OBVIOUS
<1>4. vm' = [vm EXCEPT !.tokens = ts, !.tokenOnly = b]
  BY <1>1, <1>3 DEF TokensChanged
<1>5. /\ vm' \in ViewModel /\ vm'.secret = vm.secret /\ vm'.stub = vm.stub
      /\ vm'.tokens = ts /\ vm'.tokenOnly = b
  BY <1>2, <1>4 DEF IInv, PageOK, ViewModel
<1>6. Jobs'
  BY JobsAlone DEF IInv, TickToken
<1>7. Buffers' /\ Accounts'
  BY <1>5, NoneMoves DEF IInv, PageOK, buffers, TickToken
<1>8. button' \in BOOLEAN
  BY Submittable DEF Update, TickToken
<1>9. consent' \in BOOLEAN /\ Ticks'
  BY <1>1, <1>3, <1>5 DEF IInv, Ticks
<1>10. PageOK'
  BY <1>2, <1>5, <1>7, <1>8, <1>9 DEF IInv, PageOK, bounds, TickToken
<1> QED
  BY <1>6, <1>7, <1>9, <1>10 DEF IInv

LEMMA ToggleTokenOnlyStep ==
    ASSUME IInv, ToggleTokenOnly
    PROVE  IInv'
<1>1. /\ vm' \in ViewModel /\ vm'.secret = vm.secret /\ vm'.stub = vm.stub
      /\ vm'.tokens = vm.tokens
  BY DEF ToggleTokenOnly, IInv, PageOK, ViewModel, Master
<1>2. consent' = vm'.tokenOnly
  BY DEF ToggleTokenOnly
<1>3. vm'.tokenOnly \in BOOLEAN
  BY <1>1 DEF ViewModel
<1>4. consent' \in BOOLEAN /\ Ticks'
  BY <1>2, <1>3 DEF Ticks
<1>5. Jobs'
  BY JobsAlone DEF IInv, ToggleTokenOnly
<1>6. Buffers' /\ Accounts'
  BY <1>1, NoneMoves DEF IInv, PageOK, buffers, ToggleTokenOnly
<1>7. button' \in BOOLEAN
  BY Submittable DEF Update, ToggleTokenOnly
<1>8. PageOK'
  BY <1>1, <1>4, <1>6, <1>7 DEF IInv, PageOK, bounds, ToggleTokenOnly
<1> QED
  BY <1>4, <1>5, <1>6, <1>8 DEF IInv

----------------------------------------------------------------------------
(* The keyring and the dialog.                                             *)

\* The counters stay within the bounds of the behaviour.
LEMMA Counting ==
    ASSUME PageOK, Begin \/ Change
    PROVE  bound' \in Bounds /\ ops' \in 0..bound'.ops /\ changes' \in 0..bound'.changes
<1>1. bound.ops \in Nat /\ bound.changes \in Nat
  BY ExportAssumption DEF PageOK
<1> QED
  BY <1>1 DEF PageOK, Begin, Change

\* A step that only counts, and changes the keyring, the listing or the dialog.
LEMMA CountedStep ==
    ASSUME IInv, Begin \/ Change, stub' \subseteq Key,
           reload' \in [on : BOOLEAN, stub : SUBSET Key], dlg' \in Key \cup {NoKey},
           UNCHANGED <<vm, pageVars, work, buffers, consent>>
    PROVE  IInv'
<1>1. Jobs'
  BY JobsAlone DEF IInv
<1>2. Buffers' /\ Accounts'
  BY NoneMoves DEF IInv, PageOK, buffers
<1>3. bound' \in Bounds /\ ops' \in 0..bound'.ops /\ changes' \in 0..bound'.changes
  BY Counting DEF IInv
<1>4. PageOK'
  BY <1>2, <1>3 DEF IInv, PageOK, pageVars
<1>5. Ticks'
  BY DEF IInv, Ticks
<1> QED
  BY <1>1, <1>2, <1>4, <1>5 DEF IInv

LEMMA MoveToCardStep ==
    ASSUME IInv, NEW k \in Key, MoveToCard(k)
    PROVE  IInv'
BY CountedStep DEF MoveToCard, IInv, PageOK

LEMMA ListKeysStep ==
    ASSUME IInv, ListKeys
    PROVE  IInv'
BY CountedStep DEF ListKeys, IInv, PageOK

LEMMA OpenDialogStep ==
    ASSUME IInv, OpenDialog
    PROVE  IInv'
BY CountedStep DEF OpenDialog, IInv, PageOK

\* Emptying the list closes the secrets of the keys that were selected, and no token, no
\* tick and no consent is left.
LEMMA KeysLoadedFacts ==
    ASSUME IInv, KeysLoaded
    PROVE  /\ vm' \in ViewModel /\ vm'.stub = reload.stub /\ vm'.tokens = {}
           /\ vm'.tokenOnly = FALSE /\ vm'.secret = vm.secret \ vm.selected
           /\ vm'.unlocked \subseteq vm.unlocked \cup vm'.stub
<1> DEFINE v == [vm EXCEPT !.stub = reload.stub]
           u == SetSelected(v, {})
<1>1. /\ v \in ViewModel /\ v.stub = reload.stub /\ v.selected = vm.selected
      /\ v.secret = vm.secret /\ v.unlocked = vm.unlocked
  BY DEF IInv, PageOK, ViewModel
<1> HIDE DEF v
<1>2. /\ u \in ViewModel /\ u.secret = v.secret \ (v.selected \ {})
      /\ u.stub = v.stub /\ u.unlocked \subseteq v.unlocked \cup v.stub
  BY <1>1, Selection
<1>3. vm' = TokensChanged(u, {})
  BY DEF KeysLoaded, v
<1> HIDE DEF u
<1>4. vm' = [u EXCEPT !.tokens = {}, !.tokenOnly = FALSE]
  <2>1. (u.tokenOnly /\ {} # {}) = FALSE
    OBVIOUS
  <2> QED
    BY <1>3, <2>1 DEF TokensChanged
<1>5. /\ vm' \in ViewModel /\ vm'.tokens = {} /\ vm'.tokenOnly = FALSE
      /\ vm'.stub = u.stub /\ vm'.secret = u.secret /\ vm'.unlocked = u.unlocked
  BY <1>2, <1>4 DEF ViewModel
<1> QED
  BY <1>1, <1>2, <1>5

LEMMA KeysLoadedStep ==
    ASSUME IInv, KeysLoaded
    PROVE  IInv'
<1>1. /\ vm' \in ViewModel /\ vm'.stub = reload.stub /\ vm'.tokens = {}
      /\ vm'.tokenOnly = FALSE /\ vm'.secret = vm.secret \ vm.selected
  BY KeysLoadedFacts
<1>2. /\ vm'.secret = vm.secret \ Deselected({})
      /\ Deselected({}) \subseteq vm.secret
  BY <1>1 DEF Deselected
<1>3. Buffers' /\ Accounts'
  BY <1>2, PageCloses DEF IInv, PageOK, KeysLoaded
<1>4. Jobs'
  BY JobsAlone DEF IInv, KeysLoaded
<1>5. button' \in BOOLEAN
  BY Submittable DEF Update, KeysLoaded
<1>6. PageOK'
  BY <1>1, <1>3, <1>5 DEF IInv, PageOK, bounds, NoReload, KeysLoaded
<1>7. Ticks'
  BY <1>1 DEF Ticks
<1> QED
  BY <1>3, <1>4, <1>6, <1>7 DEF IInv

\* The new secret takes the place of the one it replaces, if there is one.
LEMMA SetKeySecretFacts ==
    ASSUME IInv, NEW d \in Key, NEW late \in {0, 1}, SetKeySecret(d, late),
           LateResult(d, late), UNCHANGED work
    PROVE  /\ vm' \in ViewModel /\ vm'.stub = vm.stub /\ vm'.tokens = vm.tokens
           /\ vm'.tokenOnly = vm.tokenOnly
           /\ vm'.secret = vm.secret \cup {d} /\ vm'.unlocked = vm.unlocked \cup {d}
           /\ Buffers' /\ Accounts'
<1>1. Drop(vm.typed, {d}) \in [Key -> Text \cup {Absent}]
  BY Dropped DEF IInv, PageOK, ViewModel
<1>2. /\ vm' \in ViewModel /\ vm'.stub = vm.stub /\ vm'.tokens = vm.tokens
      /\ vm'.tokenOnly = vm.tokenOnly
      /\ vm'.secret = vm.secret \cup {d} /\ vm'.unlocked = vm.unlocked \cup {d}
  BY <1>1 DEF SetKeySecret, IInv, PageOK, ViewModel
<1>3. ASSUME NEW k \in Key
      PROVE  /\ open'[k] = (IF k \in vm'.secret THEN 1 ELSE 0)
                           + Cardinality(Owners(k)') + stray'[k]
             /\ open'[k] \in Nat
  <2>1. Owners(k)' = Owners(k) /\ Cardinality(Owners(k)) \in Nat
    BY SameOwners
  <2>2. PICK c \in Nat : c = Cardinality(Owners(k))
    BY <2>1
  <2>3. /\ stray[k] \in Nat /\ open[k] \in Nat
        /\ stray'[k] = IF k = d THEN stray[k] + late ELSE stray[k]
    BY DEF IInv, PageOK, Buffers, LateResult
  <2>4. open[k] = (IF k \in vm.secret THEN 1 ELSE 0) + c + stray[k]
    BY <2>2 DEF IInv, Accounts
  <2>5. open'[k] = IF k = d THEN (IF k \in vm.secret THEN open[k] - 1 ELSE open[k]) + 1 + late
                            ELSE open[k]
    BY DEF SetKeySecret, CloseBuffers, IInv, PageOK, Buffers
  <2>6. open'[k] = (IF k \in vm'.secret THEN 1 ELSE 0) + c + stray'[k]
    BY <1>2, <2>3, <2>4, <2>5
  <2> QED
    BY <2>1, <2>2, <2>3, <2>6
<1>4. open' \in [Key -> Nat]
  <2>1. DOMAIN open' = Key /\ open' = [k \in Key |-> open'[k]]
    BY DEF SetKeySecret, CloseBuffers, IInv, PageOK, Buffers
  <2> QED
    BY <2>1, <1>3
<1>5. stray' \in [Key -> Nat]
  BY DEF LateResult, IInv, PageOK, Buffers
<1>6. Buffers' /\ Accounts'
  BY <1>3, <1>4, <1>5 DEF Buffers, Accounts
<1> QED
  BY <1>2, <1>6

LEMMA DerivationSucceedsStep ==
    ASSUME IInv, DerivationSucceeds
    PROVE  IInv'
<1>1. dlg \in Key
  BY DEF IInv, PageOK, DerivationSucceeds
<1>2. /\ vm' \in ViewModel /\ vm'.stub = vm.stub /\ vm'.tokens = vm.tokens
      /\ vm'.tokenOnly = vm.tokenOnly /\ Buffers' /\ Accounts'
  <2>1. PICK late \in {0, 1} : SetKeySecret(dlg, late) /\ LateResult(dlg, late)
    BY DEF DerivationSucceeds
  <2>2. UNCHANGED work
    BY DEF DerivationSucceeds
  <2> QED
    BY <1>1, <2>1, <2>2, SetKeySecretFacts
<1>3. Jobs'
  BY JobsAlone DEF IInv, DerivationSucceeds
<1>4. button' \in BOOLEAN
  BY Submittable DEF Update, DerivationSucceeds
<1>5. PageOK'
  BY <1>2, <1>4 DEF IInv, PageOK, bounds, Text, DerivationSucceeds
<1>6. Ticks'
  BY <1>2 DEF IInv, Ticks, DerivationSucceeds
<1> QED
  BY <1>2, <1>3, <1>5, <1>6 DEF IInv

\* A buffer that comes when the dialog is gone is a stray one.
LEMMA DismissDialogStep ==
    ASSUME IInv, DismissDialog
    PROVE  IInv'
<1>1. dlg \in Key
  BY DEF IInv, PageOK, DismissDialog
<1>2. PICK late \in {0, 1} : /\ open' = [open EXCEPT ![dlg] = @ + late]
                             /\ stray' = [stray EXCEPT ![dlg] = @ + late]
  BY DEF DismissDialog, LateResult
<1>3. Buffers'
  BY <1>1, <1>2 DEF IInv, PageOK, Buffers
<1>4. ASSUME NEW k \in Key
      PROVE  open'[k] = (IF k \in vm'.secret THEN 1 ELSE 0)
                        + Cardinality(Owners(k)') + stray'[k]
  <2>1. Owners(k)' = Owners(k) /\ Cardinality(Owners(k)) \in Nat
    BY SameOwners DEF DismissDialog
  <2>2. PICK c \in Nat : c = Cardinality(Owners(k))
    BY <2>1
  <2>3. open[k] = (IF k \in vm.secret THEN 1 ELSE 0) + c + stray[k]
    BY <2>2 DEF IInv, Accounts
  <2>4. stray[k] \in Nat /\ open[k] \in Nat
    BY DEF IInv, PageOK, Buffers
  <2>5. /\ open'[k] = (IF k = dlg THEN open[k] + late ELSE open[k])
        /\ stray'[k] = (IF k = dlg THEN stray[k] + late ELSE stray[k])
    BY <1>1, <1>2 DEF IInv, PageOK, Buffers
  <2>6. vm' = vm
    BY DEF DismissDialog
  <2> QED
    BY <2>1, <2>2, <2>3, <2>4, <2>5, <2>6
<1>5. Jobs'
  BY JobsAlone DEF IInv, DismissDialog
<1>6. PageOK'
  BY <1>3 DEF IInv, PageOK, bounds, pageVars, DismissDialog
<1>7. Ticks'
  BY DEF IInv, Ticks, DismissDialog
<1> QED
  BY <1>3, <1>4, <1>5, <1>6, <1>7 DEF IInv, Accounts

----------------------------------------------------------------------------
(* The exports.                                                            *)

\* submit: the buffers of the selected keys change from the page to the export, and what
\* it is sent off with opens the vault, or has the consent, or was white space.
LEMMA SubmitStep ==
    ASSUME IInv, NEW w \in Worker, Submit(w)
    PROVE  IInv'
<1>1. vm \in ViewModel /\ work \in [Worker -> Job] /\ consent \in BOOLEAN
  BY DEF IInv, PageOK, Jobs
<1>2. PICK m \in BOOLEAN : m = MasterGiven(vm)
  BY DEF MasterGiven
<1>3. PICK b \in BOOLEAN : b = (~TokenOnly(vm) /\ vm.master = Blank)
  OBVIOUS
<1>4. PICK pps \in [Key -> Text \cup {Absent}] :
         pps = [k \in Key |-> CASE k \notin vm.selected -> Absent
                                [] k \in vm.secret -> k
                                [] OTHER -> vm.typed[k]]
  <2>1. \A k \in Key : vm.typed[k] \in Text \cup {Absent}
    BY <1>1 DEF ViewModel
  <2> QED
    BY <2>1 DEF Text
<1> DEFINE j == [Idle EXCEPT !.at = "start", !.keys = vm.selected, !.pps = pps,
                             !.owned = vm.secret \cap vm.selected, !.master = m,
                             !.tokens = vm.tokens, !.consent = consent, !.blank = b]
<1>5. work' = [work EXCEPT ![w] = j]
  BY <1>2, <1>3, <1>4 DEF Submit
<1>6. /\ j \in Job /\ j.at = "start" /\ j.owned = vm.secret \cap vm.selected
      /\ j.master = m /\ j.consent = consent /\ j.blank = b
  <2>1. vm.selected \in SUBSET Key /\ vm.tokens \in SUBSET Key /\ vm.secret \in SUBSET Key
    BY <1>1 DEF ViewModel
  <2> QED
    BY <1>1, <2>1 DEF Job, Idle
<1> HIDE DEF j
<1>7. m \/ consent \/ b
  <2>1. TokenOnly(vm) \/ vm.master # Empty
    BY DEF Submit, CanSubmit
  <2>2. vm.master \in {Empty, Blank, Phrase}
    BY <1>1 DEF ViewModel, Master
  <2>3. TokenOnly(vm) => consent
    BY DEF TokenOnly, IInv, Ticks
  <2> QED
    BY <1>2, <1>3, <2>1, <2>2, <2>3 DEF MasterGiven
<1>8. JobOK(j)
  BY <1>6, <1>7 DEF JobOK
<1>9. Jobs'
  BY <1>5, <1>8, JobReplaced DEF IInv
<1>10. /\ vm' \in ViewModel /\ vm'.secret = vm.secret \ vm.selected
       /\ vm'.stub = vm.stub /\ vm'.tokens = vm.tokens /\ vm'.tokenOnly = vm.tokenOnly
  <2>1. Drop(vm.typed, vm.selected) \in [Key -> Text \cup {Absent}]
    BY <1>1, Dropped DEF ViewModel
  <2> QED
    BY <1>1, <2>1 DEF Submit, ViewModel, Master
<1>11. work[w].owned = {}
  BY DEF IInv, Jobs, JobOK, Submit
<1>12. UNCHANGED <<stub, active, field, dlg, reload, open, stray, consent>> /\ button' = FALSE
  BY DEF Submit, buffers
<1>13. Buffers'
  BY <1>12 DEF IInv, PageOK, Buffers
<1>14. Accounts'
  <2>1. ASSUME NEW k \in Key
        PROVE  open'[k] = (IF k \in vm'.secret THEN 1 ELSE 0)
                          + Cardinality(Owners(k)') + stray'[k]
    <3>1. /\ Cardinality(Owners(k)') = Cardinality(Owners(k)) + (IF k \in j.owned THEN 1 ELSE 0)
          /\ Cardinality(Owners(k)) \in Nat
      BY <1>1, <1>5, <1>11, TakenOver
    <3>2. PICK c \in Nat : c = Cardinality(Owners(k))
      BY <3>1
    <3>3. open[k] = (IF k \in vm.secret THEN 1 ELSE 0) + c + stray[k]
      BY <3>2 DEF IInv, Accounts
    <3>4. stray[k] \in Nat /\ open[k] \in Nat
      BY DEF IInv, PageOK, Buffers
    <3>5. PICK d : d = Cardinality(Owners(k)')
      OBVIOUS
    <3>6. d = c + (IF k \in vm.secret /\ k \in vm.selected THEN 1 ELSE 0)
      BY <3>1, <3>2, <3>5, <1>6
    <3>7. k \in vm'.secret <=> k \in vm.secret /\ k \notin vm.selected
      BY <1>10
    <3>8. open[k] = (IF k \in vm'.secret THEN 1 ELSE 0) + d + stray[k]
      BY <3>3, <3>4, <3>6, <3>7
    <3> QED
      BY <3>5, <3>8, <1>12
  <2> QED
    BY <2>1 DEF Accounts
<1>15. bound' \in Bounds /\ ops' \in 0..bound'.ops /\ changes' \in 0..bound'.changes
  BY Counting DEF IInv, Submit
<1>16. PageOK'
  BY <1>10, <1>12, <1>13, <1>15 DEF IInv, PageOK
<1>17. Ticks'
  BY <1>10, <1>12 DEF IInv, Ticks
<1> QED
  BY <1>9, <1>14, <1>16, <1>17 DEF IInv

\* An export that ends closes the buffers it owns.
LEMMA WorkerEnds ==
    ASSUME IInv, NEW w \in Worker, NEW j, JobOK(j), j.owned = {},
           work' = [work EXCEPT ![w] = j], CloseOwned(w), UNCHANGED workerOnly
    PROVE  IInv'
<1>1. Jobs'
  BY JobReplaced DEF IInv
<1>2. ASSUME NEW k \in Key
      PROVE  /\ open'[k] = (IF k \in vm'.secret THEN 1 ELSE 0)
                           + Cardinality(Owners(k)') + stray'[k]
             /\ open'[k] \in Nat
  <2>1. /\ Cardinality(Owners(k))
              = Cardinality(Owners(k)') + (IF k \in work[w].owned THEN 1 ELSE 0)
        /\ Cardinality(Owners(k)') \in Nat
    BY Released DEF IInv, Jobs
  <2>2. PICK d \in Nat : d = Cardinality(Owners(k)')
    BY <2>1
  <2>3. open[k] = (IF k \in vm.secret THEN 1 ELSE 0) + Cardinality(Owners(k)) + stray[k]
    BY DEF IInv, Accounts
  <2>4. stray[k] \in Nat /\ open[k] \in Nat
    BY DEF IInv, PageOK, Buffers
  <2>5. open'[k] = IF k \in work[w].owned THEN open[k] - 1 ELSE open[k]
    BY DEF CloseOwned, CloseBuffers, IInv, PageOK, Buffers
  <2>6. open'[k] = (IF k \in vm.secret THEN 1 ELSE 0) + d + stray[k]
    BY <2>1, <2>2, <2>3, <2>4, <2>5
  <2>7. vm' = vm /\ stray' = stray
    BY DEF workerOnly
  <2> QED
    BY <2>2, <2>4, <2>6, <2>7
<1>3. open' \in [Key -> Nat]
  BY <1>2 DEF CloseOwned, CloseBuffers, IInv, PageOK, Buffers
<1>4. Buffers' /\ Accounts'
  BY <1>2, <1>3 DEF IInv, PageOK, Buffers, Accounts, workerOnly
<1>5. PageOK'
  BY <1>4 DEF IInv, PageOK, workerOnly, pageVars, bounds
<1>6. Ticks'
  BY DEF IInv, Ticks, workerOnly
<1> QED
  BY <1>1, <1>4, <1>5, <1>6 DEF IInv

LEMMA CreateStep ==
    ASSUME IInv, NEW w \in Worker, Create(w)
    PROVE  IInv'
<1>1. PICK private \in SUBSET work[w].keys :
         /\ \A k \in work[w].keys : Exportable(w, k, private)
         /\ work' = [work EXCEPT ![w] =
              [Idle EXCEPT !.at = "written", !.slots = Slots(w), !.private = private,
                           !.local = work[w].keys \ (stub \cup OnCard),
                           !.consent = work[w].consent, !.blank = work[w].blank]]
  BY DEF Create
<1>2. JobOK(work[w]) /\ work[w].at = "start"
  BY DEF IInv, Jobs, Create
<1>3. PICK local : local = work[w].keys \ (stub \cup OnCard)
  OBVIOUS
<1>4. PICK slots : slots = Slots(w)
  OBVIOUS
<1>6. /\ work[w] \in Job /\ (work[w].master => PassSlot \in slots)
      /\ slots \in SUBSET (Key \cup {PassSlot})
  BY <1>2, <1>4 DEF Slots, JobOK, Job
<1>7. /\ private \in SUBSET Key /\ local \in SUBSET Key
      /\ work[w].consent \in BOOLEAN /\ work[w].blank \in BOOLEAN
  BY <1>1, <1>3, <1>6 DEF Job
<1> DEFINE j == [Idle EXCEPT !.at = "written", !.slots = slots, !.private = private,
                             !.local = local, !.consent = work[w].consent,
                             !.blank = work[w].blank]
<1>8. /\ j \in Job /\ j.at = "written" /\ j.owned = {} /\ j.slots = slots
      /\ j.private = private /\ j.local = local
      /\ j.consent = work[w].consent /\ j.blank = work[w].blank
  BY <1>6, <1>7, IdleOK DEF JobOK, Job, Idle
<1>9. work' = [work EXCEPT ![w] = j]
  BY <1>1, <1>3, <1>4
<1> HIDE DEF j
<1>10. work[w].master \/ work[w].consent \/ work[w].blank
  BY <1>2 DEF JobOK
<1>11. JobOK(j)
  BY <1>6, <1>8, <1>10 DEF JobOK
<1> QED
  BY <1>8, <1>9, <1>11, WorkerEnds DEF Create

LEMMA FailStep ==
    ASSUME IInv, NEW w \in Worker, Fail(w)
    PROVE  IInv'
<1> DEFINE j == [Idle EXCEPT !.at = "failed"]
<1>1. JobOK(j) /\ j.owned = {}
  BY IdleOK DEF JobOK, Job, Idle
<1>2. work' = [work EXCEPT ![w] = j]
  BY DEF Fail
<1> HIDE DEF j
<1> QED
  BY <1>1, <1>2, WorkerEnds DEF Fail

\* An export whose result is delivered owns nothing any more.
LEMMA Delivered ==
    ASSUME IInv, NEW w \in Worker, work[w].at # "start", work' = [work EXCEPT ![w] = Idle]
    PROVE  Jobs' /\ \A k \in Key : Owners(k)' = Owners(k)
<1>1. JobOK(Idle) /\ Idle.owned = {}
  BY IdleOK DEF Idle
<1>2. work[w].owned = {}
  BY DEF IInv, Jobs, JobOK
<1>3. \A v \in Worker : work'[v].owned = work[v].owned
  BY <1>1, <1>2 DEF IInv, Jobs
<1>4. Jobs'
  BY <1>1, JobReplaced DEF IInv
<1> QED
  BY <1>3, <1>4 DEF Owners

\* Success wipes the page: every secret it holds is closed.
LEMMA SucceededStep ==
    ASSUME IInv, NEW w \in Worker, Succeeded(w)
    PROVE  IInv'
<1>1. Jobs' /\ \A k \in Key : Owners(k)' = Owners(k)
  BY Delivered DEF Succeeded
<1>2. vm \in ViewModel
  BY DEF IInv, PageOK
<1>3. Drop(vm.typed, Key) \in [Key -> Text \cup {Absent}]
  BY <1>2, Dropped DEF ViewModel
<1>4. /\ vm' \in ViewModel /\ vm'.secret = {} /\ vm'.stub = vm.stub
      /\ vm'.tokens = vm.tokens /\ vm'.tokenOnly = vm.tokenOnly
  BY <1>2, <1>3 DEF Succeeded, ResetSecrets, ViewModel, Master
<1>5. ASSUME NEW k \in Key
      PROVE  /\ open'[k] = (IF k \in vm'.secret THEN 1 ELSE 0)
                           + Cardinality(Owners(k)') + stray'[k]
             /\ open'[k] \in Nat
  <2>1. Owners(k)' = Owners(k) /\ Cardinality(Owners(k)) \in Nat
    BY <1>1, OwnersFinite
  <2>2. PICK c \in Nat : c = Cardinality(Owners(k))
    BY <2>1
  <2>3. open[k] = (IF k \in vm.secret THEN 1 ELSE 0) + c + stray[k]
    BY <2>2 DEF IInv, Accounts
  <2>4. stray[k] \in Nat /\ open[k] \in Nat /\ stray' = stray
    BY DEF IInv, PageOK, Buffers, Succeeded
  <2>5. open'[k] = IF k \in vm.secret THEN open[k] - 1 ELSE open[k]
    BY DEF Succeeded, CloseBuffers, IInv, PageOK, Buffers
  <2>6. open'[k] = c + stray[k]
    BY <2>3, <2>4, <2>5
  <2> QED
    BY <1>4, <2>1, <2>2, <2>4, <2>6
<1>6. open' \in [Key -> Nat]
  BY <1>5 DEF Succeeded, CloseBuffers, IInv, PageOK, Buffers
<1>7. Buffers' /\ Accounts'
  BY <1>5, <1>6 DEF IInv, PageOK, Buffers, Accounts, Succeeded
<1>8. button' \in BOOLEAN
  BY Submittable DEF Update, Succeeded
<1>9. PageOK'
  BY <1>4, <1>7, <1>8 DEF IInv, PageOK, Succeeded, bounds
<1>10. Ticks'
  BY <1>4 DEF IInv, Ticks, Succeeded
<1> QED
  BY <1>1, <1>7, <1>9, <1>10 DEF IInv

LEMMA FailedStep ==
    ASSUME IInv, NEW w \in Worker, Failed(w)
    PROVE  IInv'
<1>1. Jobs' /\ \A k \in Key : Owners(k)' = Owners(k)
  BY Delivered DEF Failed
<1>2. UNCHANGED <<stub, vm, active, field, dlg, reload, open, stray, consent, bounds>>
  BY DEF Failed, buffers
<1>3. Buffers' /\ Accounts'
  BY <1>1, <1>2 DEF IInv, PageOK, Buffers, Accounts
<1>4. button' \in BOOLEAN
  BY Submittable DEF Failed
<1>5. PageOK'
  BY <1>2, <1>3, <1>4 DEF IInv, PageOK, bounds
<1>6. Ticks'
  BY <1>2 DEF IInv, Ticks
<1> QED
  BY <1>1, <1>3, <1>5, <1>6 DEF IInv

----------------------------------------------------------------------------
LEMMA NextIInv == IInv /\ [Next]_vars => IInv'
<1> SUFFICES ASSUME IInv, [Next]_vars PROVE IInv'
  OBVIOUS
<1>1. ASSUME NEW k \in Key,
             SelectByKeyboard(k) \/ ClickItem(k) \/ TickToken(k) \/ MoveToCard(k)
      PROVE  IInv'
  BY <1>1, SelectByKeyboardStep, ClickItemStep, TickTokenStep, MoveToCardStep
<1>2. ASSUME NEW t \in Text, TypePassphrase(t) PROVE IInv'
  BY <1>2, TypePassphraseStep
<1>3. CASE UnlockClicked
  BY <1>3, UnlockClickedStep
<1>4. CASE ToggleTokenOnly
  BY <1>4, ToggleTokenOnlyStep
<1>5. ASSUME NEW p \in Master, EnterMaster(p) PROVE IInv'
  BY <1>5, EnterMasterStep
<1>6. CASE ListKeys
  BY <1>6, ListKeysStep
<1>7. CASE OpenDialog
  BY <1>7, OpenDialogStep
<1>8. CASE DismissDialog
  BY <1>8, DismissDialogStep
<1>9. ASSUME NEW w \in Worker, Submit(w) PROVE IInv'
  BY <1>9, SubmitStep
<1>10. CASE KeysLoaded
  BY <1>10, KeysLoadedStep
<1>11. CASE DerivationSucceeds
  BY <1>11, DerivationSucceedsStep
<1>12. ASSUME NEW w \in Worker, Export(w) PROVE IInv'
  BY <1>12, CreateStep, FailStep, SucceededStep, FailedStep DEF Export
<1>13. CASE UNCHANGED vars
  <2>1. UNCHANGED <<stub, vm, active, field, button, dlg, reload, work, open, stray,
                    consent, bound, ops, changes>>
    BY <1>13 DEF vars, pageVars, buffers, bounds
  <2>2. Jobs'
    BY <2>1, JobsAlone DEF IInv
  <2>3. Buffers' /\ Accounts'
    BY <2>1, NoneMoves DEF IInv, PageOK
  <2> QED
    BY <2>1, <2>2, <2>3 DEF IInv, PageOK, Ticks
<1> QED
  BY <1>1, <1>2, <1>3, <1>4, <1>5, <1>6, <1>7, <1>8, <1>9, <1>10, <1>11, <1>12, <1>13
     DEF Next, User, Background

LEMMA Invariance == Spec => []IInv
BY InitIInv, NextIInv, PTL DEF Spec

----------------------------------------------------------------------------
(* The theorems.                                                           *)

\* submit and create: a vault without a passphrase slot was made with Token only ticked
\* since the last time there was no token, or from a passphrase of white space.
THEOREM TokenOnlyNeedsConsent == Spec => []TokenOnlyIsAsked
<1>1. IInv => TokenOnlyIsAsked
  BY DEF IInv, Jobs, JobOK, TokenOnlyIsAsked
<1> QED
  BY <1>1, Invariance, PTL

\* set_key_secret, submit, reset_secrets and the dialog: an open buffer is held by the page,
\* by one running export or by a dialog that was left while a worker of it ran, and none
\* is closed twice.
THEOREM BuffersHaveOwners == Spec => []SecretsAccounted
<1>1. IInv => SecretsAccounted
  <2> SUFFICES ASSUME IInv PROVE SecretsAccounted
    OBVIOUS
  <2>1. TypeOK
    <3>1. \A w \in Worker :
             /\ work[w].at \in {"idle", "start", "written", "failed"}
             /\ work[w].at # "start" => work[w].owned = {}
      BY DEF IInv, Jobs, JobOK, Job
    <3> QED
      BY <3>1 DEF IInv, PageOK, Buffers, ViewModel, TypeOK
  <2> QED
    BY <2>1 DEF IInv, Accounts, Owners, SecretsAccounted
<1> QED
  BY <1>1, Invariance, PTL

\* _on_unlock_clicked and _on_token_unlock_clicked: whichever step marks a key unlocked
\* leaves a passphrase or a secret for it; every other step unlocks only stubs.
THEOREM UnlockingStores == Spec => UnlockedWithSomething
<1> DEFINE Stored == \A k \in vm'.unlocked \ (vm.unlocked \cup vm'.stub) :
                        vm'.typed[k] \in Key \/ k \in vm'.secret
<1>1. IInv /\ [Next]_vars => Stored
  <2> SUFFICES ASSUME IInv, [Next]_vars PROVE Stored
    OBVIOUS
  <2>1. vm \in ViewModel
    BY DEF IInv, PageOK
  <2>2. CASE vm'.unlocked \subseteq vm.unlocked
    BY <2>2
  <2>3. ASSUME NEW k \in Key, SelectByKeyboard(k) \/ ClickItem(k)
        PROVE  Stored
    <3> DEFINE v == SetSelected(vm, Toggled(k))
    <3>1. v \in ViewModel /\ v.stub = vm.stub /\ v.unlocked \subseteq vm.unlocked \cup vm.stub
      BY <2>1, Selection DEF Toggled, ViewModel
    <3>2. vm' = v \/ vm' = [v EXCEPT !.typed[k] = Empty]
      BY <2>3 DEF SelectByKeyboard, ClickItem
    <3> HIDE DEF v
    <3>3. vm'.stub = vm.stub /\ vm'.unlocked \subseteq vm.unlocked \cup vm.stub
      BY <3>1, <3>2 DEF ViewModel
    <3> QED
      BY <3>3
  <2>4. CASE UnlockClicked
    BY <2>4, UnlockClickedFacts
  <2>5. CASE KeysLoaded
    BY <2>5, KeysLoadedFacts
  <2>6. CASE DerivationSucceeds
    <3>1. dlg \in Key
      BY <2>6 DEF IInv, PageOK, DerivationSucceeds
    <3>2. vm'.secret = vm.secret \cup {dlg} /\ vm'.unlocked = vm.unlocked \cup {dlg}
      BY <2>6, <3>1, SetKeySecretFacts DEF DerivationSucceeds
    <3> QED
      BY <3>2
  <2>7. ASSUME NEW k \in Key, TickToken(k)
        PROVE  vm'.unlocked = vm.unlocked
    BY <2>1, <2>7 DEF TickToken, TokensChanged, ViewModel
  <2>8. ASSUME NEW t \in Text, TypePassphrase(t)
        PROVE  vm'.unlocked = vm.unlocked
    BY <2>1, <2>8 DEF TypePassphrase, ViewModel
  <2>9. CASE ToggleTokenOnly
    <3>1. vm'.unlocked = vm.unlocked
      BY <2>1, <2>9 DEF ToggleTokenOnly, ViewModel
    <3> QED
      BY <3>1
  <2>10. ASSUME NEW p \in Master, EnterMaster(p)
         PROVE  vm'.unlocked = vm.unlocked
    BY <2>1, <2>10 DEF EnterMaster, ViewModel
  <2>11. ASSUME NEW w \in Worker, Submit(w)
         PROVE  vm'.unlocked \subseteq vm.unlocked
    BY <2>1, <2>11 DEF Submit, ViewModel
  <2>12. ASSUME NEW w \in Worker, Succeeded(w)
         PROVE  vm'.unlocked \subseteq vm.unlocked
    BY <2>1, <2>12 DEF Succeeded, ResetSecrets, ViewModel
  <2>13. ASSUME \/ \E k \in Key : MoveToCard(k)
                \/ ListKeys \/ OpenDialog \/ DismissDialog
                \/ \E w \in Worker : Create(w) \/ Fail(w) \/ Failed(w)
                \/ UNCHANGED vars
         PROVE  vm'.unlocked = vm.unlocked
    <3>1. vm' = vm
      BY <2>13 DEF MoveToCard, ListKeys, OpenDialog, DismissDialog, Create, Fail, Failed,
                   workerOnly, vars
    <3> QED
      BY <3>1
  <2> HIDE DEF Stored
  <2> QED
    BY <2>2, <2>3, <2>4, <2>5, <2>6, <2>7, <2>8, <2>9, <2>10, <2>11, <2>12, <2>13
       DEF Next, User, Background, Export
<1>2. IInv /\ [Next]_vars => [Stored]_vars
  BY <1>1
<1>3. Spec => [][Stored]_vars
  BY <1>2, Invariance, PTL DEF Spec
<1> QED
  BY <1>3 DEF UnlockedWithSomething

-----------------------------------------------------------------------------
(***************************************************************************)
(* The import wizard, for any vault files and any number of previews and   *)
(* imports.                                                                *)
(*                                                                         *)
(* Results find the wizard on a page it was not on when they were asked    *)
(* for.  So the invariant has two halves: what survives whatever arrives   *)
(* when (Wizard, Budget), and what a user who waits for the previews can   *)
(* rely on (Patient): there is at most one thing pending, a preview of the *)
(* chosen file or a box about it, and only on the unlock page.             *)
(***************************************************************************)
\* Every preview was started once and can start one import of its own, so that the
\* jobs stay within twice what the user may start.
Budget ==
    /\ IsFiniteSet(previews)
    /\ started \in Nat
    /\ Cardinality(previews) <= started
    /\ started + Cardinality(previews) <= 2 * MaxJobs

\* Nothing is asked of a wizard whose file has not been chosen.
Chosen == path = None => page = "file" /\ previews = {} /\ asking = <<>>

Wizard == SelectHasKeys /\ Chosen

\* One preview is pending, of the chosen file, and the unlock page waits for it.
Awaited ==
    \A j \in previews :
        /\ previews = {j}
        /\ page = "unlock" /\ working /\ preview = None /\ asking = <<>>
        /\ j.vault = path
        /\ j.skip => path \in anyway

\* One box is open, about the chosen file, on the unlock page.
Boxed ==
    asking # <<>> => /\ asking = <<path>>
                     /\ page = "unlock" /\ preview = None /\ previews = {}

\* The keys on the select page are those of the chosen file, and so is the preview
\* the unlock page would go on with.
Fresh ==
    /\ page \in {"select", "result"} => shown = path
    /\ page # "file" /\ preview # None => preview = path
    /\ preview \in Damaged => preview \in anyway

Patient == ~ hasty => Awaited /\ Boxed /\ Fresh

WizardInv == Wizard /\ Budget /\ Patient /\ PatientUserGetsPreview

LEMMA WizardInitially ==
  ASSUME WizardInit
  PROVE  WizardInv
<1>0. MaxJobs \in Nat /\ 0 \in 0..2 * MaxJobs /\ 0 + 0 <= 2 * MaxJobs
  BY BoundAssumption
<1>1. Wizard
  <2>1. <<>> \in Seq(Vault)
    OBVIOUS
  <2> QED
    BY <1>0, <2>1 DEF WizardInit, Wizard, Chosen, SelectHasKeys, WizardTypeOK,
                      Page
<1>2. Budget
  <2>1. IsFiniteSet(previews) /\ Cardinality(previews) = 0 /\ started = 0
    BY FS_EmptySet, Zenon DEF WizardInit
  <2> QED
    BY <1>0, <2>1 DEF Budget
<1>3. Patient /\ PatientUserGetsPreview
  BY DamagedAssumption, NoneAssumption
     DEF WizardInit, Patient, Awaited, Boxed, Fresh, PatientUserGetsPreview, Imported
<1> QED
  BY <1>1, <1>2, <1>3 DEF WizardInv

\* A step that starts no job, answers none and keeps the bound.
LEMMA BudgetKept ==
  ASSUME Budget, UNCHANGED <<previews, started>>
  PROVE  Budget'
  BY DEF Budget

\* StartPreview and EnterResult(TRUE) spend one job of the user's share.
LEMMA BudgetSpent ==
  ASSUME Budget, Room, started' = started + 1,
         NEW j, previews' = previews \/ previews' = previews \cup {j}
  PROVE  Budget' /\ started' \in 1..MaxJobs
<1>1. /\ IsFiniteSet(previews) /\ IsFiniteSet(previews \cup {j})
      /\ Cardinality(previews \cup {j}) \in {Cardinality(previews), Cardinality(previews) + 1}
      /\ Cardinality(previews) \in Nat
  BY FS_AddElement, FS_CardinalityType DEF Budget
<1>2. started \in Nat /\ started < MaxJobs /\ MaxJobs \in Nat
  BY BoundAssumption DEF Budget, Room
<1>3. Cardinality(previews) <= started
  BY DEF Budget
<1>4. /\ IsFiniteSet(previews')
      /\ Cardinality(previews') \in {Cardinality(previews), Cardinality(previews) + 1}
  BY <1>1
<1>5. started' \in 1..MaxJobs
  BY <1>2
<1>6. /\ started' \in Nat /\ Cardinality(previews') <= started'
      /\ started' + Cardinality(previews') <= 2 * MaxJobs
  BY <1>1, <1>2, <1>3, <1>4
<1> QED
  BY <1>4, <1>5, <1>6 DEF Budget

\* A delivered preview gives back what the import it may start needs.
LEMMA BudgetDelivered ==
  ASSUME Budget, NEW j \in previews, previews' = previews \ {j},
         started' \in {started, started + 1}
  PROVE  Budget' /\ started' \in 0..2 * MaxJobs /\ started + 1 \in 1..2 * MaxJobs
<1>1. /\ IsFiniteSet(previews \ {j})
      /\ Cardinality(previews \ {j}) = Cardinality(previews) - 1
      /\ Cardinality(previews) \in Nat
      /\ Cardinality(previews \ {j}) \in Nat
  BY FS_RemoveElement, FS_CardinalityType DEF Budget
<1> QED
  BY <1>1, BoundAssumption DEF Budget

\* The steps of the user that start no job: Choose, Type, NextFile, Back, Cancel and the
\* Next of an unlock page that has its preview.
LEMMA WizardUser ==
  ASSUME WizardInv,
         \/ Choose \/ Type \/ NextFile \/ Back \/ Cancel
         \/ NextUnlock /\ validated
  PROVE  WizardInv'
<1> USE DEF unlockVars, importVars, histVars, Free
<1>0. UNCHANGED <<previews, started, imports, done, anyway>>
  BY DEF Choose, Type, NextFile, EnterUnlock, Back,
         Cancel, NextUnlock, EnterSelect
<1>1. Budget'
  BY <1>0, BudgetKept DEF WizardInv
<1>2. CASE Choose
  <2>1. Wizard'
    BY <1>2, NoneAssumption DEF WizardInv, Wizard, Chosen, SelectHasKeys, WizardTypeOK, Choose
  <2>2. (Patient /\ PatientUserGetsPreview)'
    BY <1>0, <1>2 DEF WizardInv, Patient, Awaited, Boxed, Fresh,
                PatientUserGetsPreview, Imported, Choose
  <2> QED
    BY <1>1, <2>1, <2>2 DEF WizardInv
<1>3. CASE Type
  <2>1. Wizard'
    BY <1>3 DEF WizardInv, Wizard, Chosen, SelectHasKeys, WizardTypeOK, Type
  <2>2. (Patient /\ PatientUserGetsPreview)'
    BY <1>0, <1>3 DEF WizardInv, Patient, Awaited, Boxed, Fresh,
                PatientUserGetsPreview, Imported, Type
  <2> QED
    BY <1>1, <2>1, <2>2 DEF WizardInv
<1>4. CASE NextFile
  <2>1. Wizard'
    BY <1>4 DEF WizardInv, Wizard, Chosen, SelectHasKeys, WizardTypeOK, Page,
                NextFile, EnterUnlock
  <2>2. (Patient /\ PatientUserGetsPreview)'
    BY <1>0, <1>4, DamagedAssumption, NoneAssumption
       DEF WizardInv, Patient, Awaited, Boxed, Fresh, PatientUserGetsPreview, Imported,
           NextFile, EnterUnlock
  <2> QED
    BY <1>1, <2>1, <2>2 DEF WizardInv
<1>5. CASE Back
  <2>1. Wizard'
    BY <1>5 DEF WizardInv, Wizard, Chosen, SelectHasKeys, WizardTypeOK, Page,
                Back
  <2>2. (Patient /\ PatientUserGetsPreview)'
    BY <1>0, <1>5 DEF WizardInv, Wizard, SelectHasKeys, WizardTypeOK, Page,
                Patient, Awaited, Boxed, Fresh,
                PatientUserGetsPreview, Imported, Back
  <2> QED
    BY <1>1, <2>1, <2>2 DEF WizardInv
<1>6. CASE Cancel
  <2>0. asking \in Seq(Vault) /\ asking # <<>> /\ asking' = SubSeq(asking, 1, Len(asking) - 1)
    BY <1>6 DEF WizardInv, Wizard, SelectHasKeys, WizardTypeOK, Cancel,
                Close
  <2>1. asking' \in Seq(Vault) /\ (Len(asking) = 1 => asking' = <<>>)
    BY <2>0
  <2>2. Wizard'
    BY <1>6, <2>0, <2>1 DEF WizardInv, Wizard, Chosen, SelectHasKeys, WizardTypeOK,
                Cancel
  <2>3. ~ hasty => asking' = <<>>
    BY <2>0, <2>1 DEF WizardInv, Patient, Boxed
  <2>4. (Patient /\ PatientUserGetsPreview)'
    BY <1>0, <1>6, <2>0, <2>3 DEF WizardInv, Patient, Awaited, Boxed, Fresh,
                PatientUserGetsPreview, Imported, Cancel
  <2> QED
    BY <1>1, <2>2, <2>4 DEF WizardInv
<1>7. CASE NextUnlock /\ validated
  <2>1. Wizard'
    BY <1>7 DEF WizardInv, Wizard, Chosen, SelectHasKeys, WizardTypeOK, Page,
                NextUnlock, EnterSelect
  <2>2. (Patient /\ PatientUserGetsPreview)'
    BY <1>0, <1>7 DEF WizardInv, Wizard, SelectHasKeys, WizardTypeOK,
                Patient, Awaited, Boxed, Fresh,
                PatientUserGetsPreview, Imported, NextUnlock,
                EnterSelect
  <2> QED
    BY <1>1, <2>1, <2>2 DEF WizardInv
<1> QED
  BY <1>2, <1>3, <1>4, <1>5, <1>6, <1>7

\* What a preview that is started is.
LEMMA WizardStarts ==
  ASSUME WizardInv, NEW skip \in BOOLEAN, StartPreview(skip),
         path # None,
         UNCHANGED <<page, path, passphrase, preview, validated, shown, imports, done, hasty>>,
         asking' \in Seq(Vault),
         \/ skip = FALSE /\ page = "unlock" /\ ~ working /\ asking = <<>> /\ asking' = <<>>
            /\ preview = None /\ anyway' = anyway
         \/ skip = TRUE /\ asking # <<>> /\ (Len(asking) = 1 => asking' = <<>>)
            /\ anyway' = anyway \cup {asking[Len(asking)]}
  PROVE  WizardInv'
<1>0. PICK j : j = [id |-> started + 1, vault |-> path, skip |-> skip,
                    right |-> passphrase = "right"]
  OBVIOUS
<1>1. Room /\ started' = started + 1 /\ previews' = previews \cup {j} /\ working' = TRUE
  BY <1>0 DEF StartPreview
<1>2. Budget' /\ started' \in 1..MaxJobs
  <2>1. Budget /\ Room /\ started' = started + 1
    BY <1>1 DEF WizardInv
  <2> QED
    BY <1>1, <2>1, BudgetSpent
<1>3. path \in Vault
  BY DEF WizardInv, Wizard, SelectHasKeys, WizardTypeOK
<1>4. j \in Preview /\ j.vault = path /\ j.skip = skip
  BY <1>0, <1>1, <1>2, <1>3 DEF Preview
<1>5. asking[Len(asking)] \in Vault \/ skip = FALSE
  <2>1. asking \in Seq(Vault) /\ (asking # <<>> \/ skip = FALSE)
    BY DEF WizardInv, Wizard, SelectHasKeys, WizardTypeOK
  <2> QED
    BY <2>1
<1>6. Wizard'
  <2>1. started' \in 0..2 * MaxJobs
    BY <1>2, BoundAssumption
  <2> QED
    BY <1>1, <1>4, <1>5, <2>1 DEF WizardInv, Wizard, Chosen, SelectHasKeys, WizardTypeOK
<1>7. (Patient /\ PatientUserGetsPreview)'
  <2>1. ASSUME ~ hasty
        PROVE  /\ previews = {} /\ asking' = <<>> /\ page = "unlock" /\ preview = None
               /\ skip => path \in anyway'
    BY <2>1 DEF WizardInv, Patient, Awaited, Boxed
  <2>2. ASSUME ~ hasty
        PROVE  previews' = {j} /\ anyway \subseteq anyway'
    BY <1>1, <2>1, <2>2
  <2> QED
    BY <1>1, <1>4, <2>1, <2>2 DEF WizardInv, Patient, Awaited, Boxed, Fresh,
                PatientUserGetsPreview, Imported
<1> QED
  BY <1>2, <1>6, <1>7 DEF WizardInv

LEMMA WizardAsks ==
  ASSUME WizardInv,
         (NextUnlock /\ ~ validated) \/ OpenAnyway
  PROVE  WizardInv'
<1> USE DEF unlockVars, importVars, histVars, Free
<1>0. asking \in Seq(Vault) /\ (validated <=> preview # None) /\ Chosen
  BY DEF WizardInv, Wizard, SelectHasKeys, WizardTypeOK
<1>1. CASE NextUnlock /\ ~ validated
  BY <1>0, <1>1, WizardStarts DEF NextUnlock, Chosen
<1>2. CASE OpenAnyway
  <2>1. asking' \in Seq(Vault) /\ (Len(asking) = 1 => asking' = <<>>)
    BY <1>0, <1>2 DEF OpenAnyway, Close
  <2> QED
    BY <1>0, <1>2, <2>1, WizardStarts DEF OpenAnyway, Chosen
<1> QED
  BY <1>1, <1>2

\* Next on the select page: the import of the shown keys from the chosen file.
LEMMA WizardImports ==
  ASSUME WizardInv, NextSelect
  PROVE  WizardInv'
<1> USE DEF unlockVars, importVars, histVars, Free
<1> DEFINE j == [id |-> started + 1, vault |-> path, keysOf |-> shown, byUser |-> TRUE,
                 right |-> passphrase = "right"]
<1>1. /\ page = "select" /\ page' = "result" /\ Room /\ started' = started + 1
      /\ imports' = imports \cup {j} /\ passphrase' = ""
      /\ UNCHANGED <<path, preview, validated, working, shown, previews, asking, done,
                     anyway, hasty>>
  BY DEF NextSelect, EnterResult
<1>2. Budget' /\ started' \in 1..MaxJobs
  BY <1>1, BudgetSpent DEF WizardInv
<1>3. path \in Vault /\ shown \in Vault
  BY <1>1 DEF WizardInv, Wizard, Chosen, SelectHasKeys, WizardTypeOK
<1>4. started' \in 1..2 * MaxJobs /\ started' \in 0..2 * MaxJobs
  BY <1>2, BoundAssumption
<1>5. j \in Import /\ j.vault = path /\ j.keysOf = shown /\ j.byUser
  BY <1>1, <1>3, <1>4 DEF Import
<1> HIDE DEF j
<1>6. Wizard'
  BY <1>1, <1>4, <1>5 DEF WizardInv, Wizard, Chosen, SelectHasKeys, WizardTypeOK,
                Page
<1>7. (Patient /\ PatientUserGetsPreview)'
  BY <1>1, <1>5 DEF WizardInv, Patient, Awaited, Boxed, Fresh,
                PatientUserGetsPreview, Imported
<1> QED
  BY <1>2, <1>6, <1>7 DEF WizardInv

\* The result of a preview, whatever page it finds.
LEMMA WizardPreviewed ==
  ASSUME WizardInv, NEW j, PreviewDone(j)
  PROVE  WizardInv'
<1> USE DEF unlockVars, importVars, histVars
<1>0. /\ j \in previews /\ previews' = previews \ {j}
      /\ UNCHANGED <<path, asking, done, anyway, hasty>>
      /\ j.vault \in Damaged => j.skip
  BY DEF PreviewDone, Answer
<1>1. started' \in {started, started + 1}
  BY DEF PreviewDone, EnterUnlock, EnterSelect, EnterResult
<1>2. Budget' /\ started' \in 0..2 * MaxJobs /\ started + 1 \in 1..2 * MaxJobs
  BY <1>0, <1>1, BudgetDelivered DEF WizardInv
<1>3. j.vault \in Vault /\ path \in Vault /\ path # None /\ j.vault # None
  BY <1>0, NoneAssumption DEF WizardInv, Wizard, Chosen, SelectHasKeys, WizardTypeOK, Preview
<1>4. CASE page = "select"
  <2> DEFINE k == [id |-> started + 1, vault |-> path, keysOf |-> shown, byUser |-> FALSE,
                   right |-> passphrase = "right"]
  <2>1. /\ preview' = j.vault /\ validated' = TRUE /\ working' = FALSE
        /\ page' = "result" /\ imports' = imports \cup {k} /\ passphrase' = "" /\ shown' = shown
    BY <1>4 DEF PreviewDone, EnterResult
  <2>2. shown \in Vault
    BY <1>4 DEF WizardInv, Wizard, SelectHasKeys, WizardTypeOK
  <2>3. k \in Import
    BY <1>2, <1>3, <2>2 DEF Import
  <2> HIDE DEF k
  <2>4. Wizard'
    BY <1>0, <1>2, <1>3, <1>4, <2>1, <2>3 DEF WizardInv, Wizard, Chosen, SelectHasKeys,
                WizardTypeOK, Page
  <2>5. hasty
    BY <1>0, <1>4 DEF WizardInv, Patient, Awaited
  <2> QED
    BY <1>0, <1>2, <2>4, <2>5 DEF WizardInv, Patient, PatientUserGetsPreview
<1>5. CASE page \in {"file", "result"}
  <2>1. /\ UNCHANGED <<shown, passphrase, imports>>
        /\ \/ page' = "unlock" /\ validated' = FALSE /\ working' = FALSE /\ preview' = None
           \/ page' = page /\ validated' = TRUE /\ working' = FALSE /\ preview' = j.vault
              /\ page = "result"
    BY <1>5 DEF PreviewDone, EnterUnlock
  <2>2. Wizard'
    BY <1>0, <1>2, <1>3, <2>1 DEF WizardInv, Wizard, Chosen, SelectHasKeys,
                WizardTypeOK, Page
  <2>3. hasty
    BY <1>0, <1>5 DEF WizardInv, Patient, Awaited
  <2> QED
    BY <1>0, <1>2, <2>2, <2>3 DEF WizardInv, Patient, PatientUserGetsPreview
<1>6. CASE page = "unlock"
  <2>1. /\ preview' = j.vault /\ validated' = TRUE /\ working' = FALSE
        /\ page' = "select" /\ shown' = j.vault /\ UNCHANGED <<passphrase, imports>>
    BY <1>6 DEF PreviewDone, EnterSelect
  <2>2. Wizard'
    BY <1>0, <1>2, <1>3, <2>1 DEF WizardInv, Wizard, Chosen, SelectHasKeys,
                WizardTypeOK, Page
  <2>3. ASSUME ~ hasty
        PROVE  /\ previews' = {} /\ asking' = <<>> /\ j.vault = path
               /\ path \in Damaged => path \in anyway
    BY <1>0, <2>3 DEF WizardInv, Patient, Awaited
  <2>4. (Patient /\ PatientUserGetsPreview)'
    BY <1>0, <2>1, <2>3 DEF WizardInv, Patient, Awaited, Boxed, Fresh,
                PatientUserGetsPreview, Imported
  <2> QED
    BY <1>2, <2>2, <2>4 DEF WizardInv
<1> QED
  BY <1>4, <1>5, <1>6 DEF PreviewDone

\* A preview that fails shows a message or opens a box; an import ends.
LEMMA WizardFails ==
  ASSUME WizardInv, NEW j,
         PreviewFailed(j) \/ PreviewMismatch(j) \/ ImportDone(j)
  PROVE  WizardInv'
<1> USE DEF unlockVars, importVars, histVars
<1>1. CASE PreviewFailed(j)
  <2>1. Budget' /\ started' \in 0..2 * MaxJobs
    BY <1>1, BudgetDelivered DEF WizardInv, PreviewFailed
  <2>2. Wizard'
    BY <1>1, <2>1 DEF WizardInv, Wizard, Chosen, SelectHasKeys, WizardTypeOK,
                PreviewFailed
  <2>3. ~ hasty => previews' = {}
    BY <1>1 DEF WizardInv, Patient, Awaited, PreviewFailed
  <2>4. (Patient /\ PatientUserGetsPreview)'
    BY <1>1, <2>3 DEF WizardInv, Patient, Awaited, Boxed, Fresh,
                PatientUserGetsPreview, Imported, PreviewFailed
  <2> QED
    BY <2>1, <2>2, <2>4 DEF WizardInv
<1>2. CASE PreviewMismatch(j)
  <2>1. Budget' /\ started' \in 0..2 * MaxJobs
    BY <1>2, BudgetDelivered DEF WizardInv, PreviewMismatch
  <2>2. /\ j \in previews /\ j.vault \in Vault /\ asking' = Append(asking, j.vault)
        /\ asking \in Seq(Vault) /\ path # None
    BY <1>2 DEF WizardInv, Wizard, Chosen, SelectHasKeys, WizardTypeOK,
                Preview, PreviewMismatch
  <2>3. asking' \in Seq(Vault) /\ (asking = <<>> => asking' = <<j.vault>>)
    <3>1. PICK v \in Vault : v = j.vault
      BY <2>2
    <3>2. Append(asking, v) \in Seq(Vault) /\ Append(<<>>, v) = <<v>>
      BY <2>2, <3>1
    <3> QED
      BY <2>2, <3>1, <3>2
  <2>4. Wizard'
    BY <1>2, <2>1, <2>2, <2>3 DEF WizardInv, Wizard, Chosen, SelectHasKeys,
                WizardTypeOK, PreviewMismatch
  <2>5. ASSUME ~ hasty
        PROVE  previews' = {} /\ asking' = <<path>> /\ page = "unlock" /\ preview = None
    BY <1>2, <2>2, <2>3, <2>5 DEF WizardInv, Patient, Awaited, PreviewMismatch
  <2>6. (Patient /\ PatientUserGetsPreview)'
    BY <1>2, <2>5 DEF WizardInv, Patient, Awaited, Boxed, Fresh,
                PatientUserGetsPreview, Imported, PreviewMismatch
  <2> QED
    BY <2>1, <2>4, <2>6 DEF WizardInv
<1>3. CASE ImportDone(j)
  <2> DEFINE answer == Answer(j.vault, j.right, FALSE)
  <2>1. /\ j \in imports /\ imports' = imports \ {j} /\ done' = done \cup {<<j, answer>>}
        /\ UNCHANGED <<page, path, passphrase, preview, validated, working, shown, previews,
                       asking, started, anyway, hasty>>
    BY <1>3 DEF ImportDone
  <2>2. answer \in Outcome
    BY DEF Answer, Outcome
  <2> HIDE DEF answer
  <2>3. Budget'
    BY <2>1, BudgetKept DEF WizardInv
  <2>4. Wizard'
    <3>1. imports \subseteq Import /\ done \subseteq Import \X Outcome
      BY DEF WizardInv, Wizard, SelectHasKeys, WizardTypeOK
    <3>2. imports' \subseteq Import /\ done' \subseteq Import \X Outcome
      BY <2>1, <2>2, <3>1
    <3> QED
      BY <2>1, <3>2 DEF WizardInv, Wizard, Chosen, SelectHasKeys, WizardTypeOK
  <2>5. Imported' = Imported
    <3>1. <<j, answer>>[1] = j
      OBVIOUS
    <3>2. {d[1] : d \in done'} = {d[1] : d \in done} \cup {j}
      BY <2>1, <3>1
    <3> QED
      BY <2>1, <3>2 DEF Imported
  <2>6. (Patient /\ PatientUserGetsPreview)'
    BY <2>1, <2>5 DEF WizardInv, Patient, Awaited, Boxed, Fresh,
                PatientUserGetsPreview
  <2> QED
    BY <2>3, <2>4, <2>6 DEF WizardInv
<1> QED
  BY <1>1, <1>2, <1>3

LEMMA WizardStep ==
  ASSUME WizardInv, [WizardNext]_wizardVars
  PROVE  WizardInv'
<1>1. CASE WizardNext
  BY <1>1, WizardUser, WizardAsks, WizardImports, WizardPreviewed, WizardFails
     DEF WizardNext, Deliver
<1>2. CASE UNCHANGED wizardVars
  <2>1. UNCHANGED <<page, path, passphrase, preview, validated, working, shown, previews,
                    asking, imports, done, started, anyway, hasty>>
    BY <1>2 DEF wizardVars, unlockVars, importVars, histVars
  <2>2. Wizard'
    BY <2>1 DEF WizardInv, Wizard, Chosen, SelectHasKeys, WizardTypeOK
  <2>3. (Patient /\ PatientUserGetsPreview)'
    BY <2>1 DEF WizardInv, Patient, Awaited, Boxed, Fresh,
                PatientUserGetsPreview, Imported
  <2> QED
    BY <2>1, <2>2, <2>3, BudgetKept DEF WizardInv
<1> QED
  BY <1>1, <1>2

\* The invariant of the import wizard, whatever is delivered when.
THEOREM WizardInvariance ==
  WizardSpec => []WizardInv
<1>1. WizardInit => WizardInv
  BY WizardInitially
<1>2. WizardInv /\ [WizardNext]_wizardVars => WizardInv'
  BY WizardStep
<1> QED
  BY <1>1, <1>2, PTL DEF WizardSpec

\* initializePage and _on_preview_result: for any number of previews delivered in any order
\* and on any page, the select page and the result page have the keys of a preview.
THEOREM SelectPageIsFilled ==
  WizardSpec => []SelectHasKeys
<1>1. WizardInv => SelectHasKeys
  BY DEF WizardInv, Wizard
<1> QED
  BY <1>1, WizardInvariance, PTL

\* validatePage, _on_preview_error and _run_import: a user who never presses Back while a
\* preview runs imports what was shown, by Next, and sees a damaged vault only after
\* accepting it.
THEOREM PatienceIsRewarded ==
  WizardSpec => []PatientUserGetsPreview
<1>1. WizardInv => PatientUserGetsPreview
  BY DEF WizardInv
<1> QED
  BY <1>1, WizardInvariance, PTL

=============================================================================
