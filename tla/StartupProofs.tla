--------------------------- MODULE StartupProofs ----------------------------
(***************************************************************************)
(* Proofs about Startup for any instances, gpg paths and contents and any  *)
(* number of changes from outside.                                         *)
(***************************************************************************)
EXTENDS Startup, TLAPS

\* A pin of a path outside the whitelist is one a user agreed to.
AgreedTo(pin) == pin # NoPin /\ pin.path # NoPath => pin \in hist.accepted

\* ... wherever the program keeps one.
Pins ==
    /\ file # NoFile => AgreedTo(file.pin)
    /\ \A i \in Inst :
          AgreedTo(cur[i].pin) /\ AgreedTo(base[i].pin) /\ AgreedTo(session[i])

\* The settings page has one pin, in what it has saved and in what it shows.
Pages == \A i \in Inst : pc[i] = "run" => cur[i].pin = base[i].pin

\* Who holds an old configuration is known to be older than the last reset.
Ages == \A i \in Inst :
           base[i].age = "old" \/ cur[i].age = "old" => i \in hist.older

OldFile == file # NoFile /\ file.age = "old"

\* A reset that began after the last request still has all that is old on its
\* list, and the marker goes before config.toml only if the latter goes as well.
Resets ==
    \A i \in Inst : pc[i] = "reset" /\ i \notin hist.older =>
       /\ stale \subseteq rm[i] \/ hist.survivor
       /\ "marker" \in rm[i] /\ OldFile =>
             "file" \in rm[i] \/ hist.survivor \/ hist.cut

\* Whose binary has not changed since the last look would find the session's.
Looks == \A i \in Inst : session[i] # NoPin /\ i \notin gap =>
            Identity(session[i].path) = session[i]

USE DEF uses

\* The inductive invariant, to which Looks is added below.
IInv == TypeOK /\ Pins /\ Pages /\ Ages /\ Resets /\ MarkerOutlivesData

-----------------------------------------------------------------------------
\* What a factory reset removes before the config directory.
LEMMA DirFacts == Dir = {"state", "data"} /\ DOMAIN Dirs = {1, 2}
                  /\ Dirs[1] = "state" /\ Dirs[2] = "data"
  BY DEF Dir, Dirs

\* A fresh instance knows the defaults.
LEMMA DefaultFacts ==
  /\ AppConfig \in Config /\ AppConfig.pin = NoPin /\ AppConfig.age = "new"
  /\ AppConfig.path = NoPath
  BY DEF AppConfig, Config

\* The binary at a path, as a pin.
LEMMA IdentityFacts ==
  ASSUME TypeOK, NEW p \in Path \cup {NoPath}
  PROVE  /\ Identity(p) \in Pin /\ Identity(p) # NoPin
         /\ Identity(p).path = p /\ Identity(p).hash = bin[p].hash
         /\ Identity(p).ino = bin[p].ino
<1>1. bin[p] \in Binary
  BY DEF TypeOK
<1>2. Identity(p) \in Pin /\ Identity(p).path = p /\ Identity(p).hash = bin[p].hash
      /\ Identity(p).ino = bin[p].ino
  BY <1>1 DEF Identity, Pin, Binary
<1>3. QED
  BY <1>2, NothingAssumption

\* Two pins are the same if they have the same path, contents and identity.
LEMMA SamePin ==
  ASSUME NEW x \in Pin, NEW y \in Pin, x.path = y.path, x.hash = y.hash, x.ino = y.ino
  PROVE  x = y
  BY DEF Pin

\* detect() trusts a binary outside the whitelist only by the pin it is given.
LEMMA TrustedByPin ==
  ASSUME TypeOK, NEW p \in Path, NEW pin, NEW id \in BOOLEAN,
         Detect(p, pin, id) = "trusted"
  PROVE  /\ pin # NoPin /\ pin.path = p /\ pin.hash = bin[p].hash
         /\ id => pin.ino = bin[p].ino
<1>1. p # NoPath
  BY PathAssumption
<1>2. PinVerdict(p, pin, id) = "trusted"
  BY <1>1 DEF Detect
<1>3. QED
  BY <1>2 DEF PinVerdict

\* Hence with an identity it is the pinned one.
LEMMA TrustedIsPinned ==
  ASSUME TypeOK, NEW p \in Path, NEW pin \in Pin \cup {NoPin},
         Detect(p, pin, TRUE) = "trusted"
  PROVE  Identity(p) = pin
<1>1. pin \in Pin /\ pin.path = p /\ pin.hash = bin[p].hash /\ pin.ino = bin[p].ino
  BY TrustedByPin
<1>2. QED
  BY <1>1, IdentityFacts, SamePin

\* The fields of the history.
LEMMA HistoryFacts ==
  ASSUME TypeOK
  PROVE  /\ hist \in History /\ hist.older \subseteq Inst /\ hist.accepted \subseteq Pin
         /\ hist.survivor \in BOOLEAN /\ hist.cut \in BOOLEAN
  BY DEF TypeOK, History

\* What is on record after instance i has stored something.
LEMMA StoredFacts ==
  ASSUME NEW h \in History, NEW i \in Inst
  PROVE  /\ Stored(i, h) \in History
         /\ Stored(i, h).accepted = h.accepted /\ Stored(i, h).cut = h.cut
         /\ Stored(i, h).older = h.older
         /\ h.survivor => Stored(i, h).survivor
         /\ i \in h.older => Stored(i, h).survivor
<1>1. PICK b \in BOOLEAN : b = (h.survivor \/ i \in h.older)
  OBVIOUS
<1>2. Stored(i, h) = [h EXCEPT !.survivor = b]
  BY <1>1 DEF Stored, History
<1>3. QED
  BY <1>1, <1>2 DEF History

-----------------------------------------------------------------------------
\* An instance ends, wherever it is.
LEMMA GoneStep ==
  ASSUME IInv, NEW i \in Inst, Gone(i) PROVE IInv'
<1> USE DefaultFacts DEF disk
<1>1. TypeOK /\ UNCHANGED <<file, marker, stale, bin, changes>>
      /\ due' = due \ {i} /\ gap' = gap \ {i}
  BY DEF IInv, Gone
<1>2. /\ pc' \in [Inst -> Step] /\ pc'[i] = "off"
      /\ base' \in [Inst -> Config] /\ base'[i] = AppConfig
      /\ cur' \in [Inst -> Config] /\ cur'[i] = AppConfig
      /\ seen' \in [Inst -> Pin \cup {NoPin}] /\ session' \in [Inst -> Pin \cup {NoPin}]
      /\ session'[i] = NoPin
      /\ rm' \in [Inst -> SUBSET (Dir \cup {"marker", "file"})] /\ rm'[i] = {}
      /\ \A j \in Inst \ {i} :
            /\ pc'[j] = pc[j] /\ base'[j] = base[j] /\ cur'[j] = cur[j]
            /\ seen'[j] = seen[j] /\ session'[j] = session[j] /\ rm'[j] = rm[j]
  BY <1>1 DEF Gone, Goto, TypeOK, Step
<1>3. /\ hist' \in History /\ hist'.older = hist.older \ {i}
      /\ hist'.accepted = hist.accepted /\ hist'.survivor = hist.survivor
      /\ hist.cut => hist'.cut
      /\ "file" \in rm[i] /\ ~ marker => hist'.cut
  <2>1. PICK b \in BOOLEAN : b = (hist.cut \/ ("file" \in rm[i] /\ ~ marker))
    OBVIOUS
  <2>2. hist' = [hist EXCEPT !.older = @ \ {i}, !.cut = b]
    BY <1>1, <2>1, HistoryFacts DEF Gone, History
  <2>3. QED
    BY <1>1, <2>1, <2>2, HistoryFacts DEF History
<1>4. TypeOK'
  BY <1>1, <1>2, <1>3 DEF TypeOK
<1>5. Pins'
  BY <1>1, <1>2, <1>3 DEF IInv, Pins, AgreedTo
<1>6. Pages' /\ Ages'
  BY <1>2, <1>3 DEF IInv, Pages, Ages
<1>7. Resets'
  BY <1>1, <1>2, <1>3 DEF IInv, Resets, OldFile
<1>8. MarkerOutlivesData'
  BY <1>1, <1>2, <1>3 DEF IInv, MarkerOutlivesData
<1>9. QED
  BY <1>4, <1>5, <1>6, <1>7, <1>8 DEF IInv

\* main() begins: with all of the list to remove if there is a marker.
LEMMA StepLaunch ==
  ASSUME IInv, NEW i \in Inst, Launch(i) PROVE IInv'
<1>1. TypeOK /\ pc[i] = "off"
      /\ UNCHANGED <<file, marker, stale, bin, base, cur, seen, session, changes, due, gap, hist>>
  BY DEF IInv, Launch, disk
<1>2. \/ /\ pc' = [pc EXCEPT ![i] = "reset"]
         /\ rm' = [rm EXCEPT ![i] = Dir \cup {"marker", "file"}]
      \/ pc' = [pc EXCEPT ![i] = "load"] /\ rm' = rm
  BY DEF Launch, Goto
<1>3. /\ pc' \in [Inst -> Step] /\ pc'[i] \in {"reset", "load"}
      /\ rm' \in [Inst -> SUBSET (Dir \cup {"marker", "file"})]
      /\ \A j \in Inst \ {i} : pc'[j] = pc[j] /\ rm'[j] = rm[j]
      /\ pc'[i] = "reset" => rm'[i] = Dir \cup {"marker", "file"}
      /\ pc'[i] = "load" => rm'[i] = {}
  BY <1>1, <1>2 DEF TypeOK, Step
<1>4. TypeOK'
  BY <1>1, <1>3 DEF TypeOK
<1>5. Pins' /\ Pages' /\ Ages'
  BY <1>1, <1>3 DEF IInv, Pins, AgreedTo, Pages, Ages
<1>6. Resets'
  BY <1>1, <1>3 DEF IInv, Resets, OldFile, TypeOK
<1>7. MarkerOutlivesData'
  <2>1. \A j \in Inst : "file" \in rm[j] => "file" \in rm'[j]
    BY <1>1, <1>3 DEF TypeOK
  <2>2. QED
    BY <1>1, <2>1 DEF IInv, MarkerOutlivesData
<1>8. QED
  BY <1>4, <1>5, <1>6, <1>7 DEF IInv

\* A directory is removed.
LEMMA StepRemoveDir ==
  ASSUME IInv, NEW i \in Inst, RemoveDir(i) PROVE IInv'
<1>1. /\ TypeOK /\ pc[i] = "reset"
      /\ UNCHANGED <<file, marker, bin, pc, base, cur, seen, session, changes, due, gap, hist>>
  BY DEF IInv, RemoveDir
<1>2. PICK d \in Dir : stale' = stale \ {d} /\ rm' = [rm EXCEPT ![i] = @ \ {d}]
  BY DEF RemoveDir, Dir
<1>3. /\ rm' \in [Inst -> SUBSET (Dir \cup {"marker", "file"})]
      /\ rm'[i] = rm[i] \ {d} /\ \A j \in Inst \ {i} : rm'[j] = rm[j]
  BY <1>1, <1>2 DEF TypeOK
<1>4. d \notin {"marker", "file"}
  BY DirFacts
<1>5. TypeOK'
  BY <1>1, <1>2, <1>3 DEF TypeOK
<1>6. Pins' /\ Pages' /\ Ages'
  BY <1>1 DEF IInv, Pins, AgreedTo, Pages, Ages
<1>7. Resets'
  BY <1>1, <1>2, <1>3, <1>4 DEF IInv, Resets, OldFile
<1>8. MarkerOutlivesData'
  BY <1>1, <1>2, <1>3, <1>4 DEF IInv, MarkerOutlivesData
<1>9. QED
  BY <1>5, <1>6, <1>7, <1>8 DEF IInv

\* An entry of the config directory is removed, when the directories are gone.
LEMMA StepRemoveEntry ==
  ASSUME IInv, NEW i \in Inst, RemoveEntry(i) PROVE IInv'
<1>1. /\ TypeOK /\ pc[i] = "reset" /\ rm[i] \cap Dir = {} /\ hist' = Stored(i, hist)
      /\ UNCHANGED <<stale, bin, pc, base, cur, seen, session, changes, due, gap>>
  BY DEF IInv, RemoveEntry
<1>2. PICK e \in rm[i] :
         /\ file' = IF e = "file" THEN NoFile ELSE file
         /\ marker' = (marker /\ e # "marker")
         /\ rm' = [rm EXCEPT ![i] = @ \ {e}]
  BY DEF RemoveEntry
<1>3. /\ rm' \in [Inst -> SUBSET (Dir \cup {"marker", "file"})]
      /\ rm'[i] = rm[i] \ {e} /\ \A j \in Inst \ {i} : rm'[j] = rm[j]
  BY <1>1, <1>2 DEF TypeOK
<1>4. /\ hist' \in History /\ hist'.accepted = hist.accepted
      /\ hist'.cut = hist.cut /\ hist'.older = hist.older
      /\ hist.survivor => hist'.survivor
      /\ i \in hist.older => hist'.survivor
  BY <1>1, HistoryFacts, StoredFacts
<1>5. e \in {"marker", "file"} /\ stale \subseteq Dir
  BY <1>1 DEF TypeOK
<1>6. marker' \in BOOLEAN /\ (e = "file" => marker' = marker)
  BY <1>1, <1>2 DEF TypeOK
<1>7. TypeOK'
  BY <1>1, <1>2, <1>3, <1>4, <1>6 DEF TypeOK
<1>8. Pins'
  BY <1>1, <1>2, <1>4 DEF IInv, Pins, AgreedTo
<1>9. Pages' /\ Ages'
  BY <1>1, <1>4 DEF IInv, Pages, Ages
<1>10. Resets'
  BY <1>1, <1>2, <1>3, <1>4, <1>5 DEF IInv, Resets, OldFile
<1>11. stale = {} \/ hist'.survivor \/ marker'
  <2>1. CASE e = "file"
    BY <1>4, <1>6, <2>1 DEF IInv, MarkerOutlivesData
  <2>2. CASE e = "marker" /\ i \notin hist.older
    BY <1>1, <1>4, <1>5, <2>2 DEF IInv, Resets
  <2>3. QED
    BY <1>4, <1>5, <2>1, <2>2
<1>12. OldFile' => \/ marker' \/ hist'.cut \/ hist'.survivor
                   \/ \E j \in Inst : "file" \in rm'[j]
  <2>1. CASE e = "file"
    BY <1>2, <2>1 DEF OldFile
  <2>2. CASE e = "marker" /\ i \notin hist.older
    BY <1>1, <1>2, <1>3, <1>4, <2>2 DEF IInv, Resets, OldFile
  <2>3. QED
    BY <1>4, <1>5, <2>1, <2>2
<1>13. MarkerOutlivesData'
  BY <1>1, <1>11, <1>12 DEF MarkerOutlivesData, OldFile
<1>14. QED
  BY <1>7, <1>8, <1>9, <1>10, <1>13 DEF IInv

\* The reset is over: the start goes on, or ends because the directory is not empty.
LEMMA StepFinishReset ==
  ASSUME IInv, NEW i \in Inst, FinishReset(i) PROVE IInv'
<1>1. CASE ~ Gone(i)
  <2>1. /\ TypeOK /\ pc[i] = "reset" /\ pc' = [pc EXCEPT ![i] = "load"] /\ rm[i] = {}
        /\ UNCHANGED <<file, marker, stale, bin, base, cur, seen, session, rm,
                       changes, due, gap, hist>>
    BY <1>1 DEF IInv, FinishReset, Goto, disk, mine
  <2>2. /\ pc' \in [Inst -> Step] /\ pc'[i] = "load"
        /\ \A j \in Inst \ {i} : pc'[j] = pc[j]
    BY <2>1 DEF TypeOK, Step
  <2>3. TypeOK'
    BY <2>1, <2>2 DEF TypeOK
  <2>4. Pins' /\ Pages' /\ Ages'
    BY <2>1, <2>2 DEF IInv, Pins, AgreedTo, Pages, Ages
  <2>5. Resets' /\ MarkerOutlivesData'
    BY <2>1, <2>2 DEF IInv, Resets, OldFile, MarkerOutlivesData
  <2>6. QED
    BY <2>3, <2>4, <2>5 DEF IInv
<1>2. QED
  BY <1>1, GoneStep

\* _load_config: a configuration from before a reset makes the instance an old one.
LEMMA StepLoad ==
  ASSUME IInv, NEW i \in Inst, Load(i) PROVE IInv'
<1>1. CASE ~ Gone(i)
  <2>1. /\ TypeOK /\ pc[i] = "load"
        /\ base' = [base EXCEPT ![i] = IF file = NoFile THEN AppConfig ELSE file]
        /\ cur' = [cur EXCEPT ![i] = base'[i]]
        /\ hist' = [hist EXCEPT !.older = IF base'[i].age = "old" THEN @ \cup {i} ELSE @]
        /\ pc' = [pc EXCEPT ![i] = "detect"]
        /\ UNCHANGED <<file, marker, stale, bin, seen, session, rm, changes, due, gap>>
    BY <1>1 DEF IInv, Load, Goto, disk
  <2>2. PICK c \in Config : /\ c = IF file = NoFile THEN AppConfig ELSE file
                            /\ base' = [base EXCEPT ![i] = c]
    BY <2>1, DefaultFacts DEF TypeOK
  <2>3. /\ base' \in [Inst -> Config] /\ base'[i] = c
        /\ cur' \in [Inst -> Config] /\ cur'[i] = c
        /\ pc' \in [Inst -> Step] /\ pc'[i] = "detect"
        /\ \A j \in Inst \ {i} : pc'[j] = pc[j] /\ base'[j] = base[j] /\ cur'[j] = cur[j]
    BY <2>1, <2>2 DEF TypeOK, Step
  <2>4. /\ hist' \in History /\ hist'.accepted = hist.accepted
        /\ hist'.survivor = hist.survivor /\ hist'.cut = hist.cut
        /\ hist.older \subseteq hist'.older
        /\ c.age = "old" => i \in hist'.older
    BY <2>1, <2>3, HistoryFacts DEF History
  <2>5. rm[i] = {}
    BY <2>1 DEF TypeOK
  <2>6. TypeOK'
    BY <2>1, <2>3, <2>4, <2>5 DEF TypeOK
  <2>7. Pins'
    BY <2>1, <2>2, <2>3, <2>4, DefaultFacts DEF IInv, Pins, AgreedTo
  <2>8. Pages' /\ Ages'
    BY <2>3, <2>4 DEF IInv, Pages, Ages
  <2>9. Resets' /\ MarkerOutlivesData'
    BY <2>1, <2>3, <2>4 DEF IInv, Resets, OldFile, MarkerOutlivesData
  <2>10. QED
    BY <2>6, <2>7, <2>8, <2>9 DEF IInv
<1>2. QED
  BY <1>1, GoneStep

-----------------------------------------------------------------------------
\* A binary is trusted for the session, or shown to the user.
LEMMA StepResolveGpg ==
  ASSUME IInv, NEW i \in Inst, ResolveGpg(i) PROVE IInv'
<1>1. TypeOK /\ pc[i] = "detect" /\ cur[i] \in Config
  BY DEF IInv, ResolveGpg, TypeOK
<1>2. PICK p \in Path \cup {NoPath} : p = cur[i].path
  BY <1>1 DEF Config
<1>3. /\ Identity(p) \in Pin /\ Identity(p) # NoPin /\ Identity(p).path = p
  BY <1>1, IdentityFacts
<1>4. cur[i].pin \in Pin \cup {NoPin} /\ rm[i] = {}
  <2>1. cur[i].pin \in Pin \cup {NoPin}
    BY <1>1 DEF Config
  <2>2. QED
    BY <1>1, <2>1 DEF TypeOK
<1>5. CASE /\ Detect(p, cur[i].pin, TRUE) = "trusted"
           /\ session' = [session EXCEPT ![i] = Identity(p)]
           /\ Goto(i, "check")
           /\ UNCHANGED <<disk, bin, base, cur, seen, rm, changes, due, gap, hist>>
  <2>1. UNCHANGED <<file, marker, stale, bin, base, cur, seen, rm, changes, due, gap, hist>>
    BY <1>5 DEF disk
  <2>2. /\ session' \in [Inst -> Pin \cup {NoPin}] /\ session'[i] = Identity(p)
        /\ pc' \in [Inst -> Step] /\ pc'[i] = "check"
        /\ \A j \in Inst \ {i} : pc'[j] = pc[j] /\ session'[j] = session[j]
    BY <1>1, <1>3, <1>5 DEF TypeOK, Step, Goto
  <2>3. p # NoPath => Identity(p) = cur[i].pin
    BY <1>1, <1>4, <1>5, TrustedIsPinned
  <2>4. TypeOK'
    BY <1>1, <1>3, <1>4, <2>1, <2>2 DEF TypeOK
  <2>5. Pins'
    BY <1>3, <2>1, <2>2, <2>3 DEF IInv, Pins, AgreedTo
  <2>6. Pages' /\ Ages'
    BY <2>1, <2>2 DEF IInv, Pages, Ages
  <2>7. Resets' /\ MarkerOutlivesData'
    BY <2>1, <2>2 DEF IInv, Resets, OldFile, MarkerOutlivesData
  <2>8. QED
    BY <2>4, <2>5, <2>6, <2>7 DEF IInv
<1>6. CASE /\ seen' = [seen EXCEPT ![i] = Identity(p)]
           /\ Goto(i, "dialog")
           /\ UNCHANGED <<disk, bin, base, cur, session, rm, changes, due, gap, hist>>
  <2>1. UNCHANGED <<file, marker, stale, bin, base, cur, session, rm, changes, due, gap, hist>>
    BY <1>6 DEF disk
  <2>2. /\ seen' \in [Inst -> Pin \cup {NoPin}] /\ seen'[i] = Identity(p)
        /\ pc' \in [Inst -> Step] /\ pc'[i] = "dialog"
        /\ \A j \in Inst \ {i} : pc'[j] = pc[j] /\ seen'[j] = seen[j]
    BY <1>1, <1>3, <1>6 DEF TypeOK, Step, Goto
  <2>3. TypeOK'
    BY <1>1, <1>3, <1>4, <2>1, <2>2 DEF TypeOK
  <2>4. Pins' /\ Pages' /\ Ages'
    BY <2>1, <2>2 DEF IInv, Pins, AgreedTo, Pages, Ages
  <2>5. Resets' /\ MarkerOutlivesData'
    BY <2>1, <2>2 DEF IInv, Resets, OldFile, MarkerOutlivesData
  <2>6. QED
    BY <2>3, <2>4, <2>5 DEF IInv
<1>7. QED
  BY <1>2, <1>5, <1>6, GoneStep DEF ResolveGpg

\* The user has agreed to the contents seen; what detect() finds next has them.
LEMMA StepAccept ==
  ASSUME IInv, NEW i \in Inst, Accept(i) PROVE IInv'
<1>1. TypeOK /\ pc[i] = "dialog" /\ cur[i] \in Config /\ seen[i] \in Pin
  BY DEF IInv, Accept, TypeOK
<1>2. PICK p \in Path \cup {NoPath} : p = seen[i].path
  BY <1>1 DEF Pin
<1>3. /\ Identity(p) \in Pin /\ Identity(p).path = p
      /\ Identity(p).hash = bin[p].hash /\ Identity(p).ino = bin[p].ino
  BY <1>1, IdentityFacts
<1>4. CASE ~ Gone(i)
  <2> DEFINE new == [cur[i] EXCEPT !.pin = Identity(p)]
             shown == {[seen[i] EXCEPT !.ino = n] : n \in Ino}
             h == [hist EXCEPT !.accepted = @ \cup shown]
  <2>1. /\ Detect(p, seen[i], FALSE) = "trusted"
        /\ cur' = [cur EXCEPT ![i] = new] /\ file' = new
        /\ hist' = Agreed(i) /\ seen' = [seen EXCEPT ![i] = NoPin]
        /\ pc' = [pc EXCEPT ![i] = "detect"]
        /\ UNCHANGED <<marker, stale, bin, base, session, rm, changes, due, gap>>
    BY <1>2, <1>4 DEF Accept, Goto
  <2>2. new \in Config /\ new.pin = Identity(p) /\ new.age = cur[i].age
    BY <1>1, <1>3 DEF Config
  <2>3. shown \subseteq Pin
    BY <1>1 DEF Pin
  <2>4. p # NoPath => Identity(p) \in shown
    <3>1. SUFFICES ASSUME p # NoPath PROVE Identity(p) \in shown
      OBVIOUS
    <3>2. seen[i].hash = bin[p].hash
      BY <1>1, <2>1, <3>1, TrustedByPin
    <3>3. PICK n \in Ino : n = bin[p].ino
      BY <1>1 DEF TypeOK, Binary
    <3>4. [seen[i] EXCEPT !.ino = n] \in Pin
      BY <1>1 DEF Pin
    <3>5. /\ [seen[i] EXCEPT !.ino = n].path = p /\ [seen[i] EXCEPT !.ino = n].ino = n
          /\ [seen[i] EXCEPT !.ino = n].hash = bin[p].hash
      BY <1>1, <1>2, <3>2 DEF Pin
    <3>6. [seen[i] EXCEPT !.ino = n] = Identity(p)
      BY <1>3, <3>3, <3>4, <3>5, SamePin
    <3>7. QED
      BY <3>6
  <2> HIDE DEF new, shown
  <2>5. h \in History /\ h.accepted = hist.accepted \cup shown /\ h.cut = hist.cut
        /\ h.older = hist.older /\ h.survivor = hist.survivor
    BY <1>1, <2>3, HistoryFacts DEF History
  <2>6. hist' = Stored(i, h)
    BY <2>1 DEF Agreed, shown
  <2> HIDE DEF h
  <2>7. /\ hist' \in History /\ hist'.accepted = hist.accepted \cup shown
        /\ hist'.cut = hist.cut /\ hist'.older = hist.older
        /\ hist.survivor => hist'.survivor
        /\ i \in hist.older => hist'.survivor
    BY <2>5, <2>6, StoredFacts
  <2>8. /\ cur' \in [Inst -> Config] /\ cur'[i] = new
        /\ seen' \in [Inst -> Pin \cup {NoPin}]
        /\ pc' \in [Inst -> Step] /\ pc'[i] = "detect"
        /\ \A j \in Inst \ {i} : pc'[j] = pc[j] /\ cur'[j] = cur[j] /\ seen'[j] = seen[j]
    BY <1>1, <2>1, <2>2 DEF TypeOK, Step
  <2>9. rm[i] = {}
    BY <1>1 DEF TypeOK
  <2>10. TypeOK'
    BY <1>1, <2>1, <2>2, <2>7, <2>8, <2>9 DEF TypeOK
  <2>11. Pins'
    BY <1>3, <2>1, <2>2, <2>4, <2>7, <2>8 DEF IInv, Pins, AgreedTo
  <2>12. Pages' /\ Ages'
    BY <2>1, <2>2, <2>7, <2>8 DEF IInv, Pages, Ages
  <2>13. OldFile' => hist'.survivor
    BY <2>1, <2>2, <2>7 DEF IInv, Ages, OldFile
  <2>14. Resets' /\ MarkerOutlivesData'
    BY <2>1, <2>7, <2>8, <2>13 DEF IInv, Resets, OldFile, MarkerOutlivesData
  <2>15. QED
    BY <2>10, <2>11, <2>12, <2>14 DEF IInv
<1>5. QED
  BY <1>4, GoneStep

\* The version is asked for.
LEMMA StepCheckVersion ==
  ASSUME IInv, NEW i \in Inst, CheckVersion(i) PROVE IInv'
<1>1. /\ TypeOK /\ pc[i] = "check" /\ pc' = [pc EXCEPT ![i] = "build"]
      /\ UNCHANGED <<file, marker, stale, bin, base, cur, seen, session, rm, changes,
                     due, gap, hist>>
  BY DEF IInv, CheckVersion, Goto, disk, mine
<1>2. pc' \in [Inst -> Step] /\ pc'[i] = "build" /\ \A j \in Inst \ {i} : pc'[j] = pc[j]
  BY <1>1 DEF TypeOK, Step
<1>3. TypeOK'
  BY <1>1, <1>2 DEF TypeOK
<1>4. Pins' /\ Pages' /\ Ages'
  BY <1>1, <1>2 DEF IInv, Pins, AgreedTo, Pages, Ages
<1>5. Resets' /\ MarkerOutlivesData'
  BY <1>1, <1>2 DEF IInv, Resets, OldFile, MarkerOutlivesData
<1>6. QED
  BY <1>3, <1>4, <1>5 DEF IInv

\* The window opens with the configuration main() loaded.
LEMMA StepBuildWindow ==
  ASSUME IInv, NEW i \in Inst, BuildWindow(i) PROVE IInv'
<1>1. TypeOK /\ pc[i] = "build" /\ session[i] \in Pin
  BY DEF IInv, BuildWindow, TypeOK
<1>2. PICK p \in Path \cup {NoPath} : p = session[i].path
  BY <1>1 DEF Pin
<1>3. Identity(p) \in Pin /\ Identity(p) # NoPin /\ Identity(p).path = p
  BY <1>1, IdentityFacts
<1>4. CASE ~ Gone(i)
  <2>1. /\ Revalidates(i)
        /\ session' = [session EXCEPT ![i] = Identity(@.path)]
        /\ cur' = [cur EXCEPT ![i] = base[i]]
        /\ stale' = Written(i, {"state"})
        /\ hist' = Stored(i, hist)
        /\ pc' = [pc EXCEPT ![i] = "run"]
        /\ gap' = gap \ {i}
        /\ UNCHANGED <<file, marker, bin, base, seen, rm, changes, due>>
    BY <1>4 DEF BuildWindow, Goto
  <2>2. /\ session' \in [Inst -> Pin \cup {NoPin}] /\ session'[i] = Identity(p)
        /\ cur' \in [Inst -> Config] /\ cur'[i] = base[i]
        /\ pc' \in [Inst -> Step] /\ pc'[i] = "run"
        /\ \A j \in Inst \ {i} :
              pc'[j] = pc[j] /\ cur'[j] = cur[j] /\ session'[j] = session[j]
    BY <1>1, <1>2, <1>3, <2>1 DEF TypeOK, Step
  <2>3. p # NoPath => Identity(p) = session[i]
    BY <1>1, <1>2, <2>1, TrustedIsPinned DEF Revalidates
  <2>4. /\ hist' \in History /\ hist'.accepted = hist.accepted
        /\ hist'.cut = hist.cut /\ hist'.older = hist.older
        /\ hist.survivor => hist'.survivor
        /\ i \in hist.older => hist'.survivor
    BY <1>1, <2>1, HistoryFacts, StoredFacts
  <2>5. stale' \subseteq Dir /\ (stale' = stale \/ hist'.survivor)
    BY <1>1, <2>1, <2>4, DirFacts DEF Written, TypeOK
  <2>6. rm[i] = {}
    BY <1>1 DEF TypeOK
  <2>7. TypeOK'
    BY <1>1, <1>3, <2>1, <2>2, <2>4, <2>5, <2>6 DEF TypeOK
  <2>8. Pins'
    BY <1>3, <2>1, <2>2, <2>3, <2>4 DEF IInv, Pins, AgreedTo
  <2>9. Pages' /\ Ages'
    BY <2>1, <2>2, <2>4 DEF IInv, Pages, Ages
  <2>10. Resets' /\ MarkerOutlivesData'
    BY <2>1, <2>2, <2>4, <2>5 DEF IInv, Resets, OldFile, MarkerOutlivesData
  <2>11. QED
    BY <2>7, <2>8, <2>9, <2>10 DEF IInv
<1>5. QED
  BY <1>4, GoneStep DEF BuildWindow

-----------------------------------------------------------------------------
\* The binary is looked at before a gpg call.
LEMMA StepCheckSwap ==
  ASSUME IInv, NEW i \in Inst, CheckSwap(i) PROVE IInv'
<1>1. /\ TypeOK /\ pc[i] = "run" /\ due' = due \cup {i} /\ gap' = gap \ {i}
      /\ UNCHANGED <<file, marker, stale, bin, pc, base, cur, seen, session, rm, changes,
                     hist>>
  BY DEF IInv, CheckSwap, disk, mine
<1>2. TypeOK'
  BY <1>1 DEF TypeOK
<1>3. Pins' /\ Pages' /\ Ages'
  BY <1>1 DEF IInv, Pins, AgreedTo, Pages, Ages
<1>4. Resets' /\ MarkerOutlivesData'
  BY <1>1 DEF IInv, Resets, OldFile, MarkerOutlivesData
<1>5. QED
  BY <1>2, <1>3, <1>4 DEF IInv

\* A gpg call stores something in the data directories.
LEMMA StepRunGpg ==
  ASSUME IInv, NEW i \in Inst, RunGpg(i) PROVE IInv'
<1>1. /\ TypeOK /\ stale' = Written(i, Dir) /\ hist' = Stored(i, hist)
      /\ due' = due \ {i}
      /\ UNCHANGED <<file, marker, bin, pc, base, cur, seen, session, rm, changes, gap>>
  BY DEF IInv, RunGpg, mine
<1>2. /\ hist' \in History /\ hist'.accepted = hist.accepted
      /\ hist'.cut = hist.cut /\ hist'.older = hist.older
      /\ hist.survivor => hist'.survivor
      /\ i \in hist.older => hist'.survivor
  BY <1>1, HistoryFacts, StoredFacts
<1>3. stale' \subseteq Dir /\ (stale' = stale \/ hist'.survivor)
  BY <1>1, <1>2 DEF Written, TypeOK
<1>4. TypeOK'
  BY <1>1, <1>2, <1>3 DEF TypeOK
<1>5. Pins' /\ Pages' /\ Ages'
  BY <1>1, <1>2 DEF IInv, Pins, AgreedTo, Pages, Ages
<1>6. Resets' /\ MarkerOutlivesData'
  BY <1>1, <1>2, <1>3 DEF IInv, Resets, OldFile, MarkerOutlivesData
<1>7. QED
  BY <1>4, <1>5, <1>6 DEF IInv

\* The settings page stores what it has saved before or what it shows now.
LEMMA StepSave ==
  ASSUME IInv, NEW i \in Inst, SaveSettings(i) \/ PersistPage(i) PROVE IInv'
<1>1. TypeOK /\ base[i] \in Config /\ cur[i] \in Config
  BY DEF IInv, TypeOK
<1>2. PICK c \in {base[i], cur[i]} : Save(i, c)
  BY DEF SaveSettings, PersistPage
<1>3. /\ pc[i] = "run" /\ file' = c /\ base' = [base EXCEPT ![i] = c]
      /\ hist' = Stored(i, hist)
      /\ UNCHANGED <<marker, stale, bin, pc, cur, seen, session, rm, changes, due, gap>>
  BY <1>2 DEF Save
<1>4. base' \in [Inst -> Config] /\ base'[i] = c
      /\ \A j \in Inst \ {i} : base'[j] = base[j]
  BY <1>1, <1>2, <1>3 DEF TypeOK
<1>5. /\ hist' \in History /\ hist'.accepted = hist.accepted
      /\ hist'.cut = hist.cut /\ hist'.older = hist.older
      /\ hist.survivor => hist'.survivor
      /\ i \in hist.older => hist'.survivor
  BY <1>1, <1>3, HistoryFacts, StoredFacts
<1>6. /\ c \in Config /\ c.pin = cur[i].pin /\ AgreedTo(c.pin)
      /\ c.age = "old" => i \in hist.older
  BY <1>1, <1>2, <1>3 DEF IInv, Pages, Pins, Ages
<1>7. TypeOK'
  BY <1>1, <1>3, <1>4, <1>5, <1>6 DEF TypeOK
<1>8. Pins'
  BY <1>3, <1>4, <1>5, <1>6 DEF IInv, Pins, AgreedTo
<1>9. Pages' /\ Ages'
  BY <1>3, <1>4, <1>5, <1>6 DEF IInv, Pages, Ages
<1>10. OldFile' => hist'.survivor
  BY <1>3, <1>5, <1>6 DEF OldFile
<1>11. Resets' /\ MarkerOutlivesData'
  BY <1>3, <1>5, <1>10 DEF IInv, Resets, OldFile, MarkerOutlivesData
<1>12. QED
  BY <1>7, <1>8, <1>9, <1>11 DEF IInv

\* What is made old keeps its pin.
LEMMA AgedFacts ==
  ASSUME NEW c \in Config
  PROVE  Aged(c) \in Config /\ Aged(c).pin = c.pin /\ Aged(c).age = "old"
  BY DEF Aged, Config

\* A reset is asked for: the marker is set before anything counts as old, and
\* every other instance that is up is older than the request.
LEMMA StepRequestReset ==
  ASSUME IInv, NEW i \in Inst, RequestReset(i) PROVE IInv'
<1> DEFINE up == {j \in Inst \ {i} : pc[j] # "off"}
<1>1. /\ TypeOK /\ pc[i] = "run" /\ marker' = TRUE /\ stale' = Dir
      /\ file' = IF file = NoFile THEN file ELSE Aged(file)
      /\ base' = [j \in Inst |-> IF j \in up THEN Aged(base[j]) ELSE AppConfig]
      /\ cur' = [j \in Inst |-> IF j \in up THEN Aged(cur[j]) ELSE AppConfig]
      /\ hist' = [hist EXCEPT !.older = up, !.cut = FALSE, !.survivor = FALSE]
      /\ session' = [session EXCEPT ![i] = NoPin]
      /\ pc' = [pc EXCEPT ![i] = "off"]
      /\ due' = due \ {i} /\ gap' = gap \ {i}
      /\ UNCHANGED <<bin, seen, rm, changes>>
  BY DEF IInv, RequestReset, Goto
<1>2. /\ hist' \in History /\ hist'.accepted = hist.accepted /\ hist'.older = up
  BY <1>1, HistoryFacts DEF History
<1>3. \A j \in Inst : base[j] \in Config /\ cur[j] \in Config
  BY <1>1 DEF TypeOK
<1>4. \A j \in Inst :
         /\ base'[j] \in Config /\ cur'[j] \in Config
         /\ base'[j].age = "old" \/ cur'[j].age = "old" => j \in up
         /\ \/ base'[j].pin = base[j].pin /\ cur'[j].pin = cur[j].pin
            \/ base'[j].pin = NoPin /\ cur'[j].pin = NoPin
  BY <1>1, <1>3, AgedFacts, DefaultFacts
<1>5. base' \in [Inst -> Config] /\ cur' \in [Inst -> Config]
  BY <1>1, <1>3, AgedFacts, DefaultFacts
<1>6. /\ session' \in [Inst -> Pin \cup {NoPin}] /\ session'[i] = NoPin
      /\ pc' \in [Inst -> Step] /\ pc'[i] = "off"
      /\ \A j \in Inst \ {i} : pc'[j] = pc[j] /\ session'[j] = session[j]
  BY <1>1 DEF TypeOK, Step
<1>7. file' \in Config \cup {NoFile} /\ (file' # NoFile => file # NoFile /\ file'.pin = file.pin)
  BY <1>1, AgedFacts DEF TypeOK
<1> HIDE DEF up
<1>8. TypeOK'
  BY <1>1, <1>2, <1>5, <1>6, <1>7 DEF TypeOK
<1>9. Pins'
  BY <1>2, <1>4, <1>6, <1>7 DEF IInv, Pins, AgreedTo
<1>10. Pages' /\ Ages'
  BY <1>2, <1>4, <1>6 DEF IInv, Pages, Ages
<1>11. Resets' /\ MarkerOutlivesData'
  BY <1>1, <1>2, <1>6 DEF Resets, MarkerOutlivesData, up
<1>12. QED
  BY <1>8, <1>9, <1>10, <1>11 DEF IInv

\* From outside: a binary changes, or the path in config.toml.
LEMMA StepOutside ==
  ASSUME IInv, ReplaceBinary \/ EditPath PROVE IInv'
<1>1. TypeOK /\ changes' \in 0..MaxChanges
  <2>1. changes \in 0..MaxChanges /\ changes < MaxChanges /\ changes' = changes + 1
    BY DEF IInv, TypeOK, ReplaceBinary, EditPath
  <2>2. changes' \in 0..MaxChanges
    BY <2>1, BoundAssumption
  <2>3. QED
    BY <2>2 DEF IInv
<1>2. CASE ReplaceBinary
  <2>1. /\ gap \subseteq gap' /\ gap' \subseteq gap \cup Inst
        /\ UNCHANGED <<file, marker, stale, pc, base, cur, seen, session, rm, due, hist>>
    BY <1>2 DEF ReplaceBinary, disk, mine
  <2>2. bin' \in [Path \cup {NoPath} -> Binary]
    <3>1. PICK p \in Path \cup {NoPath} :
             \/ \E h \in Hash : bin' = [bin EXCEPT ![p].hash = h]
             \/ bin' = [bin EXCEPT ![p].ino = 1 - @]
             \/ \E x \in {"root", "user", "refused"} : bin' = [bin EXCEPT ![p].is = x]
      BY <1>2 DEF ReplaceBinary
    <3>2. bin \in [Path \cup {NoPath} -> Binary] /\ bin[p] \in Binary
      BY <1>1 DEF TypeOK
    <3>3. 1 - bin[p].ino \in Ino
      BY <3>2 DEF Binary, Ino
    <3>4. QED
      BY <3>1, <3>2, <3>3 DEF Binary
  <2>3. TypeOK'
    BY <1>1, <2>1, <2>2 DEF TypeOK
  <2>4. Pins' /\ Pages' /\ Ages'
    BY <2>1 DEF IInv, Pins, AgreedTo, Pages, Ages
  <2>5. Resets' /\ MarkerOutlivesData'
    BY <2>1 DEF IInv, Resets, OldFile, MarkerOutlivesData
  <2>6. QED
    BY <2>3, <2>4, <2>5 DEF IInv
<1>3. CASE EditPath
  <2>1. UNCHANGED <<marker, stale, bin, pc, base, cur, seen, session, rm, due, gap, hist>>
    BY <1>3 DEF EditPath, mine
  <2>2. PICK p \in Path \cup {NoPath} : file' = [file EXCEPT !.path = p]
    BY <1>3 DEF EditPath
  <2>3. file \in Config /\ file # NoFile
    BY <1>1, <1>3 DEF EditPath, TypeOK
  <2>4. file' \in Config /\ file'.pin = file.pin /\ file'.age = file.age
    BY <2>2, <2>3 DEF Config
  <2>5. TypeOK'
    BY <1>1, <2>1, <2>4 DEF TypeOK
  <2>6. Pins' /\ Pages' /\ Ages'
    BY <2>1, <2>3, <2>4 DEF IInv, Pins, AgreedTo, Pages, Ages
  <2>7. Resets' /\ MarkerOutlivesData'
    BY <2>1, <2>3, <2>4 DEF IInv, Resets, OldFile, MarkerOutlivesData
  <2>8. QED
    BY <2>5, <2>6, <2>7 DEF IInv
<1>4. QED
  BY <1>2, <1>3

-----------------------------------------------------------------------------
\* Nothing runs, and the configuration has no pin of a path outside the whitelist.
LEMMA InitIInv == Init => IInv
<1> SUFFICES ASSUME Init PROVE IInv
  OBVIOUS
<1> USE DefaultFacts
<1>1. bin \in [Path \cup {NoPath} -> Binary]
  <2>1. (CHOOSE h \in Hash : TRUE) \in Hash
    BY HashAssumption
  <2>2. [hash |-> CHOOSE h \in Hash : TRUE, ino |-> 0, is |-> "root"] \in Binary
    BY <2>1 DEF Binary, Ino
  <2>3. QED
    BY <2>2 DEF Init
<1>2. Identity(NoPath) \in Pin /\ Identity(NoPath).path = NoPath
  BY <1>1 DEF Identity, Pin, Binary
<1>3. /\ file \in Config \cup {NoFile}
      /\ file # NoFile => file.pin \in {NoPin, Identity(NoPath)} /\ file.age = "new"
  <2>1. PICK p \in Path :
           file \in {NoFile, [AppConfig EXCEPT !.path = p],
                     [AppConfig EXCEPT !.path = p, !.pin = Identity(NoPath)]}
    BY DEF Init
  <2>2. QED
    BY <1>2, <2>1 DEF AppConfig, Config
<1>4. hist \in History
  BY <1>2 DEF Init, History
<1>5. TypeOK
  <2>1. changes \in 0..MaxChanges
    BY BoundAssumption DEF Init
  <2>2. /\ pc \in [Inst -> Step] /\ base \in [Inst -> Config] /\ cur \in [Inst -> Config]
        /\ seen \in [Inst -> Pin \cup {NoPin}] /\ session \in [Inst -> Pin \cup {NoPin}]
        /\ rm \in [Inst -> SUBSET (Dir \cup {"marker", "file"})]
    BY DEF Init, Step
  <2>3. QED
    BY <1>1, <1>3, <1>4, <2>1, <2>2 DEF Init, TypeOK
<1>6. Pins
  BY <1>2, <1>3 DEF Init, Pins, AgreedTo
<1>7. Pages /\ Ages /\ Resets
  BY DEF Init, Pages, Ages, Resets
<1>8. MarkerOutlivesData
  BY <1>3 DEF Init, MarkerOutlivesData
<1>9. QED
  BY <1>5, <1>6, <1>7, <1>8 DEF IInv

\* Every step of every instance, and every change from outside, keeps it.
LEMMA StepIInv == IInv /\ [Next]_vars => IInv'
<1> SUFFICES ASSUME IInv, [Next]_vars PROVE IInv'
  OBVIOUS
<1>1. ASSUME NEW i \in Inst, Launch(i) \/ Starting(i) PROVE IInv'
  BY <1>1, StepLaunch, StepRemoveDir, StepRemoveEntry, StepFinishReset, StepLoad,
     StepResolveGpg, StepAccept, StepCheckVersion, StepBuildWindow, GoneStep DEF Starting, Decline
<1>2. ASSUME NEW i \in Inst, Using(i) \/ Die(i) PROVE IInv'
  BY <1>2, StepCheckSwap, StepRunGpg, StepSave, StepRequestReset, GoneStep DEF Using, Close, Die
<1>3. CASE UNCHANGED vars
  BY <1>3 DEF vars, IInv, TypeOK, Pins, AgreedTo, Pages, Ages, Resets, OldFile,
     MarkerOutlivesData
<1>4. QED
  BY <1>1, <1>2, <1>3, StepOutside DEF Next

\* A session's binary is the one seen at the last look, until it is replaced.
LEMMA StepLooks == IInv /\ Looks /\ [Next]_vars => Looks'
<1> SUFFICES ASSUME IInv, Looks, [Next]_vars PROVE Looks'
  OBVIOUS
<1>1. TypeOK
  BY DEF IInv
<1>2. CASE UNCHANGED <<bin, session, gap>>
  BY <1>2 DEF Looks, Identity
<1>3. ASSUME NEW i \in Inst, Gone(i) \/ RequestReset(i) PROVE Looks'
  <2>1. bin' = bin /\ session' = [session EXCEPT ![i] = NoPin] /\ gap' = gap \ {i}
    BY <1>3 DEF Gone, RequestReset
  <2>2. session'[i] = NoPin /\ \A j \in Inst \ {i} : session'[j] = session[j]
    BY <1>1, <2>1 DEF TypeOK
  <2>3. QED
    BY <2>1, <2>2 DEF Looks, Identity
<1>4. ASSUME NEW i \in Inst, NEW p \in Path \cup {NoPath}, bin' = bin, gap' \in {gap, gap \ {i}},
             session' = [session EXCEPT ![i] = Identity(p)]
      PROVE  Looks'
  <2>1. session'[i] = Identity(p) /\ \A j \in Inst \ {i} : session'[j] = session[j]
    BY <1>1, <1>4 DEF TypeOK
  <2>2. Identity(p).path = p /\ \A q : Identity(q)' = Identity(q)
    BY <1>4 DEF Identity
  <2>3. QED
    BY <1>4, <2>1, <2>2 DEF Looks, Identity
<1>5. ASSUME NEW i \in Inst, ResolveGpg(i) PROVE Looks'
  <2>1. cur[i].path \in Path \cup {NoPath}
    BY <1>1 DEF TypeOK, Config
  <2>2. \/ UNCHANGED <<bin, session, gap>> \/ Gone(i)
        \/ bin' = bin /\ gap' = gap /\ session' = [session EXCEPT ![i] = Identity(cur[i].path)]
    BY <1>5 DEF ResolveGpg
  <2>3. QED
    BY <1>2, <1>3, <1>4, <2>1, <2>2
<1>6. ASSUME NEW i \in Inst, BuildWindow(i) PROVE Looks'
  <2>1. session[i] \in Pin
    BY <1>1, <1>6 DEF TypeOK, BuildWindow
  <2>2. session[i].path \in Path \cup {NoPath}
    BY <2>1 DEF Pin
  <2>3. \/ Gone(i)
        \/ /\ bin' = bin /\ gap' = gap \ {i}
           /\ session' = [session EXCEPT ![i] = Identity(session[i].path)]
    BY <1>1, <1>6 DEF BuildWindow, TypeOK
  <2>4. QED
    BY <1>3, <1>4, <2>2, <2>3
<1>7. ASSUME NEW i \in Inst, CheckSwap(i) PROVE Looks'
  BY <1>7 DEF CheckSwap, NotSwapped, Looks, Identity, mine
<1>8. CASE ReplaceBinary
  <2>1. PICK p \in Path \cup {NoPath} :
           /\ \/ \E h \in Hash : bin' = [bin EXCEPT ![p].hash = h]
              \/ bin' = [bin EXCEPT ![p].ino = 1 - @]
              \/ \E x \in {"root", "user", "refused"} : bin' = [bin EXCEPT ![p].is = x]
           /\ gap' = gap \cup {i \in Inst : session[i] # NoPin /\ session[i].path = p}
    BY <1>8 DEF ReplaceBinary
  <2>2. session' = session
    BY <1>8 DEF ReplaceBinary, mine
  <2>3. \A q \in (Path \cup {NoPath}) \ {p} : bin'[q] = bin[q]
    BY <1>1, <2>1 DEF TypeOK
  <2>4. ASSUME NEW i \in Inst, session'[i] # NoPin, i \notin gap'
        PROVE  Identity(session[i].path)' = session'[i]
    <3>1. session[i] \in Pin /\ session[i].path # p /\ i \notin gap
      BY <1>1, <2>1, <2>2, <2>4 DEF TypeOK
    <3>2. session[i].path \in (Path \cup {NoPath}) \ {p}
      BY <3>1 DEF Pin
    <3>3. QED
      BY <2>2, <2>3, <2>4, <3>1, <3>2 DEF Looks, Identity
  <2>5. QED
    BY <2>4 DEF Looks
<1>9. ASSUME NEW i \in Inst,
             \/ Launch(i) \/ RemoveDir(i) \/ RemoveEntry(i) \/ FinishReset(i) \/ Load(i)
             \/ Accept(i) \/ Decline(i) \/ CheckVersion(i) \/ RunGpg(i)
             \/ SaveSettings(i) \/ PersistPage(i) \/ Close(i) \/ Die(i)
      PROVE  Looks'
  <2>1. UNCHANGED <<bin, session, gap>> \/ Gone(i)
    BY <1>9 DEF Launch, RemoveDir, RemoveEntry, FinishReset, Load, Accept, Decline,
       CheckVersion, RunGpg, SaveSettings, PersistPage, Save, Close, Die, mine
  <2>2. QED
    BY <1>2, <1>3, <2>1
<1>10. CASE EditPath \/ UNCHANGED vars
  BY <1>2, <1>10 DEF EditPath, mine, vars
<1>11. QED
  BY <1>3, <1>5, <1>6, <1>7, <1>8, <1>9, <1>10 DEF Next, Starting, Using

\* IInv and Looks always hold.
LEMMA Invariance == Spec => [](IInv /\ Looks)
<1>1. Init => Looks
  BY DEF Init, Looks
<1>2. QED
  BY <1>1, InitIInv, StepIInv, StepLooks, PTL DEF Spec

-----------------------------------------------------------------------------
\* detect(), _trust_and_pin_gpg and GPGService: a session uses a binary outside
\* the whitelist, and any file or instance holds a pin for one, only with contents
\* that a user was shown and accepted, however often files and paths change.
THEOREM TrustNeedsConsent == Spec => []OnlyAcceptedIsTrusted
<1>1. IInv => OnlyAcceptedIsTrusted
  BY DEF IInv, Pins, AgreedTo, OnlyAcceptedIsTrusted
<1>2. QED
  BY <1>1, Invariance, PTL

\* perform_pending_factory_reset: however many resets run, die and meet running
\* instances, the marker is there for as long as data from before the request is.
THEOREM ResetIsTakenUp == Spec => []MarkerOutlivesData
<1>1. IInv => MarkerOutlivesData
  BY DEF IInv
<1>2. QED
  BY <1>1, Invariance, PTL

\* check_gpg_version and _run_gpg: what runs outside the whitelist has contents a
\* user accepted, unless the file changed since the last look at it.
THEOREM RunNeedsConsent == Spec => OnlyAcceptedRuns
<1> DEFINE Consent == \A i \in Inst : Executes(i) /\ session[i].path # NoPath =>
                         Identity(session[i].path) \in hist.accepted \/ i \in gap
<1>1. ASSUME IInv, Looks PROVE Consent
  <2>1. SUFFICES ASSUME NEW i \in Inst, Executes(i), session[i].path # NoPath, i \notin gap
                 PROVE  Identity(session[i].path) \in hist.accepted
    OBVIOUS
  <2>2. session[i] # NoPin
    BY <1>1, <2>1 DEF IInv, TypeOK, Executes
  <2>3. QED
    BY <1>1, <2>1, <2>2 DEF IInv, Looks, Pins, AgreedTo
<1>2. IInv /\ Looks /\ [Next]_vars => [Consent]_vars
  BY <1>1
<1>3. Spec => [][Consent]_vars
  BY <1>2, Invariance, PTL DEF Spec
<1>4. QED
  BY <1>3 DEF OnlyAcceptedRuns

=============================================================================
