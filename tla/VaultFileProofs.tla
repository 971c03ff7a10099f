--------------------------- MODULE VaultFileProofs --------------------------
(***************************************************************************)
(* Proofs about VaultFile for any number of tasks, frames and faults, and  *)
(* about Smartcard, with which a vault may be opened.                      *)
(***************************************************************************)
EXTENDS VaultFile, Smartcard, TLAPS

\* An exclusive holder of the vault's lock is alone.
OneWriter ==
    \A t, u \in Task : t # u /\ holding[t] = "exclusive" => holding[u] = "none"

\* What the writer knows about the files between its steps.
WriterKnows ==
    \A t \in Task :
        /\ pc[t] \in {"write", "checksum", "report", "record"}
               => data[t] \in built
        /\ pc[t] = "checksum" => frame = data[t]
        /\ pc[t] = "report" => frame = data[t] /\ sidecar = data[t]
        /\ pc[t] = "record" => data[t] \in ok

\* The two files differ only between the two writes of a create(), or after
\* one that was cut off there.
PairOrReason ==
    \/ sidecar = frame
    \/ frame \in cutOff
    \/ \E t \in Task : pc[t] = "checksum"

\* The inductive invariant.
IInv == TypeOK /\ OneWriter /\ WriterKnows /\ PairOrReason

-----------------------------------------------------------------------------
\* The invariant holds before the first call.
LEMMA InitIInv == Init => IInv
  BY DEF Init, IInv, TypeOK, OneWriter, WriterKnows, PairOrReason, Step,
         Creating, Reading, Waiting, Emitting

\* A call that ends without the lock and without touching a file preserves it.
LEMMA QuietEnd ==
    ASSUME IInv, NEW t \in Task, pc[t] \notin Creating \cup Reading, End(t),
           posix' = posix, stale' \subseteq stale, t \notin stale',
           UNCHANGED <<fileVars, logVars, holding, cutOff>>
    PROVE  IInv'
<1> USE DEF IInv, TypeOK, End, Goto, fileVars, logVars, Step, Creating, Reading,
            Waiting, Emitting
<1>1. TypeOK'
  OBVIOUS
<1>2. OneWriter'
  BY DEF OneWriter
<1>3. WriterKnows'
  BY DEF WriterKnows
<1>4. PairOrReason'
  BY DEF PairOrReason
<1>5. QED
  BY <1>1, <1>2, <1>3, <1>4

\* Every step of every call preserves it.
LEMMA StepIInv == IInv /\ [Next]_vars => IInv'
<1> SUFFICES ASSUME IInv, [Next]_vars PROVE IInv'
  OBVIOUS
<1> USE NoneAssumption
    DEF IInv, TypeOK, OneWriter, WriterKnows, PairOrReason, Step, Creating,
        Reading, Waiting, Emitting, Goto, End, fileVars, logVars, waitVars
<1>1. ASSUME NEW t \in Task, CreateStart(t) PROVE IInv'
  BY <1>1 DEF CreateStart
<1>2. ASSUME NEW t \in Task, CreateLock(t) PROVE IInv'
  <2>1. CASE LockTaken(t, "exclusive", "collect")
    <3>1. \A u \in Task \ {t} : holding[u] = "none"
      BY <2>1 DEF LockTaken, Lock!Acquire, Lock!Compatible
    <3>2. TypeOK' /\ OneWriter'
      BY <1>2, <2>1, <3>1 DEF CreateLock, LockTaken, Lock!Acquire
    <3>3. WriterKnows' /\ PairOrReason'
      BY <1>2, <2>1 DEF CreateLock, LockTaken
    <3>4. QED
      BY <3>2, <3>3
  <2>2. CASE LockTimeout(t, "exclusive")
    BY <1>2, <2>2, QuietEnd DEF CreateLock, LockTimeout
  <2>3. QED
    BY <1>2, <2>1, <2>2 DEF CreateLock
<1>3. ASSUME NEW t \in Task, Collect(t) PROVE IInv'
  <2>1. CASE Fails(t, "collect")
    BY <1>3, <2>1 DEF Collect, Fails
  <2>2. CASE /\ \E f \in Frame \ built :
                   data' = [data EXCEPT ![t] = f] /\ built' = built \cup {f}
             /\ Goto(t, "write")
             /\ UNCHANGED <<fileVars, ok, records>>
    <3>1. PICK f \in Frame \ built :
              data' = [data EXCEPT ![t] = f] /\ built' = built \cup {f}
      BY <2>2
    <3>2. TypeOK'
      BY <1>3, <2>2, <3>1 DEF Collect
    <3>3. OneWriter' /\ PairOrReason'
      BY <1>3, <2>2, <3>1 DEF Collect
    <3>4. WriterKnows'
      BY <1>3, <2>2, <3>1 DEF Collect
    <3>5. QED
      BY <3>2, <3>3, <3>4
  <2>3. QED
    BY <1>3, <2>1, <2>2 DEF Collect
<1>4. ASSUME NEW t \in Task, WriteFrame(t) PROVE IInv'
  <2>1. CASE Fails(t, "frame")
    BY <1>4, <2>1 DEF WriteFrame, Fails
  <2>2. CASE /\ frame' = data[t] /\ Goto(t, "checksum")
             /\ UNCHANGED <<sidecar, logVars, data>>
    <3>1. TypeOK'
      BY <1>4, <2>2 DEF WriteFrame
    <3>2. OneWriter' /\ PairOrReason'
      BY <1>4, <2>2 DEF WriteFrame
    <3>3. WriterKnows'
      BY <1>4, <2>2 DEF WriteFrame
    <3>4. QED
      BY <3>1, <3>2, <3>3
  <2>3. QED
    BY <1>4, <2>1, <2>2 DEF WriteFrame
<1>5. ASSUME NEW t \in Task, WriteSidecar(t) PROVE IInv'
  <2>1. CASE Fails(t, "sidecar")
    <3>1. /\ pc[t] = "checksum" /\ frame = data[t] /\ data[t] \in built
          /\ pc' = [pc EXCEPT ![t] = "fail"]
          /\ cutOff' = cutOff \cup {data[t]}
          /\ UNCHANGED <<frame, sidecar, holding, data, built, ok, records,
                         posix, stale>>
      BY <1>5, <2>1 DEF WriteSidecar, Fails, Abandoned
    <3>2. TypeOK'
      BY <3>1
    <3>3. OneWriter' /\ WriterKnows' /\ PairOrReason'
      BY <3>1
    <3>4. QED
      BY <3>2, <3>3
  <2>2. CASE /\ sidecar' = data[t] /\ Goto(t, "report")
             /\ UNCHANGED <<frame, logVars, data, cutOff>>
    <3>1. TypeOK'
      BY <1>5, <2>2 DEF WriteSidecar
    <3>2. OneWriter' /\ PairOrReason'
      BY <1>5, <2>2 DEF WriteSidecar
    <3>3. WriterKnows'
      BY <1>5, <2>2 DEF WriteSidecar
    <3>4. QED
      BY <3>1, <3>2, <3>3
  <2>3. QED
    BY <1>5, <2>1, <2>2 DEF WriteSidecar
<1>6. ASSUME NEW t \in Task, Report(t) PROVE IInv'
  <2>1. CASE Fails(t, "audit")
    BY <1>6, <2>1 DEF Report, Fails
  <2>2. CASE /\ ok' = ok \cup {data[t]} /\ Goto(t, "record")
             /\ UNCHANGED <<fileVars, built, records, data>>
    <3>1. TypeOK'
      BY <1>6, <2>2 DEF Report
    <3>2. OneWriter' /\ PairOrReason'
      BY <1>6, <2>2 DEF Report
    <3>3. WriterKnows'
      BY <1>6, <2>2 DEF Report
    <3>4. QED
      BY <3>1, <3>2, <3>3
  <2>3. QED
    BY <1>6, <2>1, <2>2 DEF Report
<1>7. ASSUME NEW t \in Task, Record(t) PROVE IInv'
  <2>1. CASE Fails(t, "record")
    BY <1>7, <2>1 DEF Record, Fails
  <2>2. CASE /\ records' = records \cup {data[t]} /\ Goto(t, "release")
             /\ UNCHANGED <<fileVars, built, ok, data>>
    <3>1. TypeOK'
      BY <1>7, <2>2 DEF Record
    <3>2. OneWriter' /\ PairOrReason'
      BY <1>7, <2>2 DEF Record
    <3>3. WriterKnows'
      BY <1>7, <2>2 DEF Record
    <3>4. QED
      BY <3>1, <3>2, <3>3
  <2>3. QED
    BY <1>7, <2>1, <2>2 DEF Record
<1>8. ASSUME NEW t \in Task, Fail(t) PROVE IInv'
  BY <1>8 DEF Fail
<1>9. ASSUME NEW t \in Task, Release(t) PROVE IInv'
  BY <1>9 DEF Release, LockDropped, Lock!Drop
<1>10. ASSUME NEW t \in Task, OpenStart(t) PROVE IInv'
  BY <1>10 DEF OpenStart
<1>11. ASSUME NEW t \in Task, OpenLock(t) PROVE IInv'
  <2>1. CASE LockTaken(t, "shared", "read")
    <3>1. \A u \in Task \ {t} : holding[u] # "exclusive"
      BY <2>1 DEF LockTaken, Lock!Acquire, Lock!Compatible
    <3>2. QED
      BY <1>11, <2>1, <3>1 DEF OpenLock, LockTaken, Lock!Acquire
  <2>2. CASE LockTimeout(t, "shared")
    BY <1>11, <2>2, QuietEnd DEF OpenLock, LockTimeout
  <2>3. QED
    BY <1>11, <2>1, <2>2 DEF OpenLock
<1>12. ASSUME NEW t \in Task, Read(t) PROVE IInv'
  BY <1>12 DEF Read
<1>13. ASSUME NEW t \in Task, ReadDone(t) PROVE IInv'
  <2>1. CASE Goto(t, "decrypt") /\ UNCHANGED data
    BY <1>13, <2>1 DEF ReadDone, LockDropped, Lock!Drop
  <2>2. CASE End(t)
    BY <1>13, <2>2 DEF ReadDone, LockDropped, Lock!Drop
  <2>3. QED
    BY <1>13, <2>1, <2>2 DEF ReadDone
<1>14. ASSUME NEW t \in Task, Decrypt(t) PROVE IInv'
  <2>1. CASE Goto(t, "verify") /\ UNCHANGED data
    BY <1>14, <2>1 DEF Decrypt
  <2>2. CASE End(t)
    BY <1>14, <2>2, QuietEnd DEF Decrypt
  <2>3. QED
    BY <1>14, <2>1, <2>2 DEF Decrypt
<1>15. ASSUME NEW t \in Task, Verify(t) PROVE IInv'
  <2>1. CASE Goto(t, "mismatch") /\ UNCHANGED data
    BY <1>15, <2>1 DEF Verify
  <2>2. CASE End(t)
    BY <1>15, <2>2, QuietEnd DEF Verify
  <2>3. QED
    BY <1>15, <2>1, <2>2 DEF Verify
<1>16. ASSUME NEW t \in Task, Mismatch(t) PROVE IInv'
  BY <1>16 DEF Mismatch
<1>17. ASSUME NEW t \in Task, Die(t) PROVE IInv'
  <2>1. /\ pc' = [pc EXCEPT ![t] = "idle"]
        /\ data' = [data EXCEPT ![t] = None]
        /\ holding' = [u \in Task |->
                         IF u \in {t} THEN "none" ELSE holding[u]]
        /\ stale' = stale \ {t}
        /\ UNCHANGED <<frame, sidecar, built, ok, records, posix>>
    BY <1>17 DEF Die, Lock!Drop
  <2>2. CASE pc[t] = "checksum"
    <3>1. frame \in built /\ cutOff' = cutOff \cup {frame}
      <4>1. frame = data[t] /\ data[t] \in built
        BY <2>2
      <4>2. QED
        BY <1>17, <2>2, <4>1 DEF Die, Abandoned
    <3>2. TypeOK'
      BY <2>1, <3>1
    <3>3. OneWriter' /\ WriterKnows' /\ PairOrReason'
      BY <2>1, <3>1
    <3>4. QED
      BY <3>2, <3>3
  <2>3. CASE pc[t] # "checksum"
    <3>1. cutOff' = cutOff
      BY <1>17, <2>3 DEF Die, Abandoned
    <3>2. TypeOK'
      BY <2>1, <3>1
    <3>3. OneWriter' /\ WriterKnows' /\ PairOrReason'
      BY <2>1, <2>3, <3>1
    <3>4. QED
      BY <3>2, <3>3
  <2>4. QED
    BY <2>2, <2>3
<1>18. ASSUME NEW t \in Task, Retry(t) PROVE IInv'
  <2>1. CASE UNCHANGED <<pc, data>>
    BY <1>18, <2>1 DEF Retry
  <2>2. CASE pc[t] \in Waiting /\ End(t)
    BY <1>18, <2>2, QuietEnd DEF Retry
  <2>3. QED
    BY <1>18, <2>1, <2>2 DEF Retry
<1>19. ASSUME NEW t \in Task, AuditReplaced(t) PROVE IInv'
  BY <1>19 DEF AuditReplaced
<1>20. CASE UNCHANGED vars
  BY <1>20 DEF vars
<1>21. QED
  BY <1>1, <1>2, <1>3, <1>4, <1>5, <1>6, <1>7, <1>8, <1>9, <1>10, <1>11,
     <1>12, <1>13, <1>14, <1>15, <1>16, <1>17, <1>18, <1>19, <1>20
  DEF Next, Continue

\* The inductive invariant holds in every behaviour of the vault service.
LEMMA Invariance == Spec => []IInv
  BY InitIInv, StepIInv, PTL DEF Spec

-----------------------------------------------------------------------------
\* The lock of a vault is held exactly through create() and the read of the
\* file, and all other types are right.
THEOREM TypeCorrect == Spec => []TypeOK
<1>1. IInv => TypeOK
  BY DEF IInv
<1>2. QED
  BY <1>1, Invariance, PTL

\* create() under the exclusive lock keeps frame and sidecar together, however
\* many creates run and wherever they fail.
THEOREM PairTheorem == Spec => []PairBelongsTogether
<1>1. IInv => PairBelongsTogether
  BY DEF IInv, PairOrReason, PairBelongsTogether, Creating
<1>2. QED
  BY <1>1, Invariance, PTL

\* A vault the audit log reports as created is at its path with its sidecar.
THEOREM ReportTheorem == Spec => ReportedVaultIsThere
<1>1. IInv /\ [Next]_vars
          => [\A f \in ok' \ ok : frame = f /\ sidecar = f]_vars
  <2> SUFFICES ASSUME IInv, [Next]_vars, ok' # ok
               PROVE  \A f \in ok' \ ok : frame = f /\ sidecar = f
    BY DEF vars
  <2>1. PICK t \in Task : Report(t)
    BY DEF Next, Continue, vars, fileVars, logVars, Fails,
           CreateStart, CreateLock, Collect, WriteFrame, WriteSidecar, Record,
           Fail, Release, OpenStart, OpenLock, Read, ReadDone, Decrypt,
           Verify, Mismatch, Die, Retry, AuditReplaced
  <2>2. QED
    BY <2>1 DEF Report, Fails, IInv, WriterKnows, logVars
<1>2. QED
  BY <1>1, Invariance, PTL DEF Spec, ReportedVaultIsThere

\* _verify_sidecar() raises only if the vault was replaced since it was read,
\* is being replaced, or was left without its sidecar.
THEOREM MismatchTheorem == Spec => MismatchIsExplained
<1> DEFINE Raises(t) == pc[t] # "mismatch" /\ pc'[t] = "mismatch"
           Reason(t) == \/ data[t] # frame
                        \/ frame \in cutOff
                        \/ \E u \in Task : pc[u] = "checksum"
<1>1. IInv /\ [Next]_vars => [\A t \in Task : Raises(t) => Reason(t)]_vars
  <2> SUFFICES ASSUME IInv, [Next]_vars, NEW t \in Task, Raises(t)
               PROVE  Reason(t)
    OBVIOUS
  <2>a. ASSUME NEW u \in Task,
               CreateStart(u) \/ Collect(u) \/ WriteFrame(u)
                 \/ WriteSidecar(u) \/ Report(u) \/ Record(u)
        PROVE  FALSE
    BY <2>a DEF IInv, TypeOK, Goto, End, Fails, CreateStart, Collect,
                WriteFrame, WriteSidecar, Report, Record
  <2>b. ASSUME NEW u \in Task,
               Fail(u) \/ Release(u) \/ OpenStart(u) \/ Read(u)
                 \/ ReadDone(u) \/ Decrypt(u) \/ Mismatch(u) \/ Die(u)
        PROVE  FALSE
    BY <2>b DEF IInv, TypeOK, Goto, End, Fail, Release,
                OpenStart, Read, ReadDone, Decrypt, Mismatch, Die
  <2>e. ASSUME NEW u \in Task,
               CreateLock(u) \/ OpenLock(u) \/ Retry(u) \/ AuditReplaced(u)
        PROVE  FALSE
    BY <2>e DEF IInv, TypeOK, Goto, End, LockTimeout, LockTaken, CreateLock, OpenLock,
                Retry, AuditReplaced
  <2>c. ASSUME NEW u \in Task, Verify(u) PROVE u = t
    BY <2>c DEF IInv, TypeOK, Goto, End, Verify
  <2>d. ~ UNCHANGED vars
    BY DEF vars
  <2>1. Verify(t)
    BY <2>a, <2>b, <2>c, <2>d, <2>e DEF Next, Continue
  <2>2. ~ SidecarAccepts(t)
    BY <2>1 DEF Verify, End, Goto, IInv, TypeOK
  <2>3. QED
    BY <2>2 DEF SidecarAccepts, IInv, PairOrReason
<1>2. QED
  BY <1>1, Invariance, PTL DEF Spec, MismatchIsExplained

-----------------------------------------------------------------------------
(***************************************************************************)
(* A vault may be opened with an OpenPGP card.  The card, its dialogs and  *)
(* that opening: Smartcard for any number of cards, keys, workers of       *)
(* dialogs and syncs.                                                      *)
(*                                                                         *)
(* What gpg has left to ask and to write tells how far an operation has    *)
(* come: before the last PIN nothing has changed, with nothing left to     *)
(* write everything has (Stage).  It gets past the question for the keys   *)
(* on the card only with REPLACE typed, or without a key having been there *)
(* when gpg looked (Asks).                                                 *)
(***************************************************************************)
\* The key is somewhere: on a card, or it was overwritten there.
OnCard(k) == (\E c \in Card, s \in Slot : card[c].slots[s] = k) \/ (\E l \in lost : l.key = k)

\* What an editor can have left to ask, before and after it has changed the card.
PinToDo == {<<"user", "new", "new">>, <<"admin", "new", "new">>, <<"new", "new">>, <<"new">>}
MoveToDo == {<<"replace", "phrase", "admin", "save">>, <<"replace", "admin", "save">>,
             <<"phrase", "admin", "save">>, <<"admin", "save">>}
GenerateToDo == {<<"replace", "admin", "user">>, <<"replace", "user", "admin">>,
                 <<"admin", "user">>, <<"user", "admin">>, <<"admin">>, <<"user">>}
ToDo(kind) == CASE kind = "move"     -> MoveToDo
                [] kind = "generate" -> GenerateToDo
                [] OTHER             -> PinToDo
Done(kind) == IF kind = "move" THEN {<<"save">>, <<>>} ELSE {<<>>}

\* r: a job; did: it has changed a card; all: it has made the whole change.
Unasked(r) == r.todo # <<>> /\ Head(r.todo) = "replace"
Talking(r) == r.at \in {"talk", "answered"} /\ r.card # NoCard
Starting(r) == r.at = "check" \/ (r.at = "talk" /\ r.card = NoCard)

Stage(r, did, all) ==
    \/ r.fill = {} /\ all /\ r.todo \in Done(r.kind)
    \/ r.fill = {} /\ ~ did /\ ~ all /\ r.todo \in ToDo(r.kind)
    \/ r.fill # {} /\ ~ all /\ r.todo \in Done(r.kind) /\ r.kind \in {"move", "generate"}

Progress(r, did, all) ==
    /\ all => did
    /\ r.fill \subseteq r.into
    /\ Starting(r) => ~ did /\ r.card = NoCard /\ r.fill = {}
    /\ Starting(r) \/ (Talking(r) /\ Unasked(r)) => r.queue # <<>>
    /\ Talking(r) => Stage(r, did, all)
    /\ r.at = "answered" => r.fill = {} /\ r.card # NoCard /\ r.todo # <<>> /\ r.ask = Head(r.todo)
    /\ r.at = "answered" /\ r.ask = "replace" => r.ans.text = r.replace /\ r.kind = "generate"
    /\ r.at = "answered" /\ r.ask \in Secret => r.ans.text \in Text
    /\ r.at # "ended" => ~ r.failed /\ ~ r.unanswered
    /\ r.at = "ended" => /\ r.failed => ~ all
                         /\ ~ r.failed /\ ~ r.unanswered => all \/ r.queue # <<>>

\* REPLACE was typed for a key that gpg has found, or gpg will not get so far.
Asks(r) ==
    /\ r.at # "idle" => r.replace = ReplaceAnswer(r.kind, r.overwrite)
    /\ r.kind \in {"move", "generate"} /\ Talking(r) /\ ~ Unasked(r) =>
         \A s \in r.into : r.found[s] = NoKey \/ r.overwrite
    /\ r.at # "idle" /\ r.kind = "move" => r.key \in Key
    /\ r.at # "idle" /\ r.kind \in {"move", "generate"} => r.into # {}

JobInv(j) ==
    /\ Progress(job[j], j \in changed, j \in whole) /\ Asks(job[j])
    /\ job[j].kind = "move" /\ Talking(job[j]) /\ j \in changed => OnCard(job[j].key)

KeysInv ==
    /\ \A l \in lost : l.consent \/ l.raced
    /\ \A k \in Key : home[k] \in {"stub", "public"} => OnCard(k)

\* An operation that goes on has not been reported.
Silent == \A j \in Job : job[j].at # "idle" => told[j] = "-" /\ event[j] = NoEvent

CardInv ==
    /\ CardTypeOK /\ KeysInv /\ ReportIsHonest /\ Silent
    /\ \A j \in Job : JobInv(j)

-----------------------------------------------------------------------------
\* What is left of a script after its first question.
LEMMA Tails ==
    ASSUME NEW a, NEW b, NEW c, NEW d
    PROVE  /\ Tail(<<a>>) = <<>> /\ Tail(<<a, b>>) = <<b>> /\ Tail(<<a, b, c>>) = <<b, c>>
           /\ Tail(<<a, b, c, d>>) = <<b, c, d>>
           /\ Head(<<a>>) = a /\ Head(<<a, b>>) = a /\ Head(<<a, b, c>>) = a
           /\ Head(<<a, b, c, d>>) = a
           /\ Len(<<a>>) = 1 /\ Len(<<a, b>>) = 2 /\ Len(<<a, b, c>>) = 3
           /\ Len(<<a, b, c, d>>) = 4
           /\ <<a>> # <<>> /\ <<a, b>> # <<>> /\ <<a, b, c>> # <<>> /\ <<a, b, c, d>> # <<>>
OBVIOUS

\* Scripts are sequences of prompts.
LEMMA ScriptIsSeq ==
    /\ <<"user", "new", "new">> \in Seq(Prompt)
    /\ <<"admin", "new", "new">> \in Seq(Prompt)
    /\ <<"replace", "phrase", "admin", "save">> \in Seq(Prompt)
    /\ <<"replace", "admin", "save">> \in Seq(Prompt)
    /\ <<"phrase", "admin", "save">> \in Seq(Prompt)
    /\ <<"admin", "save">> \in Seq(Prompt)
    /\ <<"replace", "admin", "user">> \in Seq(Prompt)
    /\ <<"replace", "user", "admin">> \in Seq(Prompt)
    /\ <<"admin", "user">> \in Seq(Prompt)
    /\ <<"user", "admin">> \in Seq(Prompt)
BY DEF Prompt, Secret

\* gpg's questions are a script of which nothing has been asked.
LEMMA QuestionsAreToDo ==
    ASSUME NEW kind \in Kind, NEW occupied \in BOOLEAN, NEW q \in Questions(kind, occupied)
    PROVE  /\ q \in Seq(Prompt) /\ q \in ToDo(kind) /\ q # <<>>
           /\ kind \in {"move", "generate"} => (Head(q) = "replace" <=> occupied)
<1>2. CASE kind = "move"
  <2>1. q \in MoveToDo
    BY <1>2 DEF Questions, MoveToDo
  <2>2. Head(q) = "replace" <=> occupied
    BY <1>2, Tails DEF Questions
  <2>3. q \in Seq(Prompt)
    BY <2>1, ScriptIsSeq DEF MoveToDo
  <2>4. q # <<>>
    BY <2>1 DEF MoveToDo
  <2> QED
    BY <1>2, <2>1, <2>2, <2>3, <2>4 DEF ToDo
<1>3. CASE kind = "generate"
  <2>1. q \in GenerateToDo
    BY <1>3 DEF Questions, GenerateToDo
  <2>2. Head(q) = "replace" <=> occupied
    BY <1>3, Tails DEF Questions
  <2>3. q \in {<<"replace", "admin", "user">>, <<"replace", "user", "admin">>,
                 <<"admin", "user">>, <<"user", "admin">>}
    BY <1>3 DEF Questions
  <2>4. q \in Seq(Prompt)
    BY <2>3, ScriptIsSeq
  <2>5. q # <<>>
    BY <2>3
  <2> QED
    BY <1>3, <2>1, <2>2, <2>4, <2>5 DEF ToDo
<1>4. CASE kind \in {"user", "admin", "unblock"}
  <2>1. q \in {<<"user", "new", "new">>, <<"admin", "new", "new">>}
    BY <1>4 DEF Questions
  <2>4. q \in Seq(Prompt)
    BY <2>1, ScriptIsSeq
  <2>2. q \in Seq(Prompt) /\ q # <<>>
    BY <2>1, <2>4
  <2>3. q \in PinToDo
    BY <2>1 DEF PinToDo
  <2> QED
    BY <1>4, <2>2, <2>3 DEF ToDo
<1> QED
  BY <1>2, <1>3, <1>4 DEF Kind

\* The first question left, and what is left behind it.
LEMMA NextQuestion ==
    ASSUME NEW kind \in Kind, NEW todo \in ToDo(kind),
           NEW a, a = Head(todo), NEW rest, rest = Tail(todo)
    PROVE  /\ a # "save"
           /\ a \in {"user", "admin"} =>
                IF kind = "move" \/ (kind = "generate" /\ Len(todo) = 1)
                THEN rest \in Done(kind) ELSE rest \in ToDo(kind)
           /\ a = "new" =>
                /\ kind \in {"user", "admin", "unblock"}
                /\ IF Len(todo) = 1 THEN rest \in Done(kind) ELSE rest \in ToDo(kind)
           /\ a \in {"phrase", "replace"} => rest \in ToDo(kind)
           /\ rest # <<>> => Head(rest) # "replace"
<1>1. CASE kind = "move"
  <2>1. CASE todo = <<"replace", "phrase", "admin", "save">>
    <3>1. a = "replace" /\ rest = <<"phrase", "admin", "save">> /\ Len(todo) = 4 /\ todo # <<>>
      BY <2>1, Tails
    <3>2. Head(rest) = "phrase"
      <4>1. Head(<<"phrase", "admin", "save">>) = "phrase"
        OBVIOUS
      <4> QED
        BY <3>1, <4>1
    <3>3. rest \in ToDo(kind)
      <4>1. rest \in MoveToDo
        BY <3>1 DEF MoveToDo
      <4> QED
        BY <1>1, <4>1 DEF ToDo
    <3> QED
      BY <1>1, <3>1, <3>2, <3>3
  <2>2. CASE todo = <<"replace", "admin", "save">>
    <3>1. a = "replace" /\ rest = <<"admin", "save">> /\ Len(todo) = 3 /\ todo # <<>>
      BY <2>2, Tails
    <3>2. Head(rest) = "admin"
      <4>1. Head(<<"admin", "save">>) = "admin"
        OBVIOUS
      <4> QED
        BY <3>1, <4>1
    <3>3. rest \in ToDo(kind)
      <4>1. rest \in MoveToDo
        BY <3>1 DEF MoveToDo
      <4> QED
        BY <1>1, <4>1 DEF ToDo
    <3> QED
      BY <1>1, <3>1, <3>2, <3>3
  <2>3. CASE todo = <<"phrase", "admin", "save">>
    <3>1. a = "phrase" /\ rest = <<"admin", "save">> /\ Len(todo) = 3 /\ todo # <<>>
      BY <2>3, Tails
    <3>2. Head(rest) = "admin"
      <4>1. Head(<<"admin", "save">>) = "admin"
        OBVIOUS
      <4> QED
        BY <3>1, <4>1
    <3>3. rest \in ToDo(kind)
      <4>1. rest \in MoveToDo
        BY <3>1 DEF MoveToDo
      <4> QED
        BY <1>1, <4>1 DEF ToDo
    <3> QED
      BY <1>1, <3>1, <3>2, <3>3
  <2>4. CASE todo = <<"admin", "save">>
    <3>1. a = "admin" /\ rest = <<"save">> /\ Len(todo) = 2 /\ todo # <<>>
      BY <2>4, Tails
    <3>2. Head(rest) = "save"
      <4>1. Head(<<"save">>) = "save"
        OBVIOUS
      <4> QED
        BY <3>1, <4>1
    <3>3. rest \in Done(kind)
      BY <1>1, <3>1 DEF Done
    <3> QED
      BY <1>1, <3>1, <3>2, <3>3
  <2> QED
    BY <1>1, <2>1, <2>2, <2>3, <2>4 DEF ToDo, MoveToDo
<1>2. CASE kind = "generate"
  <2>1. CASE todo = <<"replace", "admin", "user">>
    <3>1. a = "replace" /\ rest = <<"admin", "user">> /\ Len(todo) = 3 /\ todo # <<>>
      BY <2>1, Tails
    <3>2. Head(rest) = "admin"
      <4>1. Head(<<"admin", "user">>) = "admin"
        OBVIOUS
      <4> QED
        BY <3>1, <4>1
    <3>3. rest \in ToDo(kind)
      <4>1. rest \in GenerateToDo
        BY <3>1 DEF GenerateToDo
      <4> QED
        BY <1>2, <4>1 DEF ToDo
    <3> QED
      BY <1>2, <3>1, <3>2, <3>3
  <2>2. CASE todo = <<"replace", "user", "admin">>
    <3>1. a = "replace" /\ rest = <<"user", "admin">> /\ Len(todo) = 3 /\ todo # <<>>
      BY <2>2, Tails
    <3>2. Head(rest) = "user"
      <4>1. Head(<<"user", "admin">>) = "user"
        OBVIOUS
      <4> QED
        BY <3>1, <4>1
    <3>3. rest \in ToDo(kind)
      <4>1. rest \in GenerateToDo
        BY <3>1 DEF GenerateToDo
      <4> QED
        BY <1>2, <4>1 DEF ToDo
    <3> QED
      BY <1>2, <3>1, <3>2, <3>3
  <2>3. CASE todo = <<"admin", "user">>
    <3>1. a = "admin" /\ rest = <<"user">> /\ Len(todo) = 2 /\ todo # <<>>
      BY <2>3, Tails
    <3>2. Head(rest) = "user"
      <4>1. Head(<<"user">>) = "user"
        OBVIOUS
      <4> QED
        BY <3>1, <4>1
    <3>3. rest \in ToDo(kind)
      <4>1. rest \in GenerateToDo
        BY <3>1 DEF GenerateToDo
      <4> QED
        BY <1>2, <4>1 DEF ToDo
    <3> QED
      BY <1>2, <3>1, <3>2, <3>3
  <2>4. CASE todo = <<"user", "admin">>
    <3>1. a = "user" /\ rest = <<"admin">> /\ Len(todo) = 2 /\ todo # <<>>
      BY <2>4, Tails
    <3>2. Head(rest) = "admin"
      <4>1. Head(<<"admin">>) = "admin"
        OBVIOUS
      <4> QED
        BY <3>1, <4>1
    <3>3. rest \in ToDo(kind)
      <4>1. rest \in GenerateToDo
        BY <3>1 DEF GenerateToDo
      <4> QED
        BY <1>2, <4>1 DEF ToDo
    <3> QED
      BY <1>2, <3>1, <3>2, <3>3
  <2>5. CASE todo = <<"admin">>
    <3>1. a = "admin" /\ rest = <<>> /\ Len(todo) = 1 /\ todo # <<>>
      BY <2>5, Tails
    <3>3. rest \in Done(kind)
      BY <1>2, <3>1 DEF Done
    <3> QED
      BY <1>2, <3>1, <3>3
  <2>6. CASE todo = <<"user">>
    <3>1. a = "user" /\ rest = <<>> /\ Len(todo) = 1 /\ todo # <<>>
      BY <2>6, Tails
    <3>3. rest \in Done(kind)
      BY <1>2, <3>1 DEF Done
    <3> QED
      BY <1>2, <3>1, <3>3
  <2> QED
    BY <1>2, <2>1, <2>2, <2>3, <2>4, <2>5, <2>6 DEF ToDo, GenerateToDo
<1>3. CASE kind \in {"user", "admin", "unblock"}
  <2>1. CASE todo = <<"user", "new", "new">>
    <3>1. a = "user" /\ rest = <<"new", "new">> /\ Len(todo) = 3 /\ todo # <<>>
      BY <2>1, Tails
    <3>2. Head(rest) = "new"
      <4>1. Head(<<"new", "new">>) = "new"
        OBVIOUS
      <4> QED
        BY <3>1, <4>1
    <3>3. rest \in ToDo(kind)
      <4>1. rest \in PinToDo
        BY <3>1 DEF PinToDo
      <4> QED
        BY <1>3, <4>1 DEF ToDo
    <3> QED
      BY <1>3, <3>1, <3>2, <3>3
  <2>2. CASE todo = <<"admin", "new", "new">>
    <3>1. a = "admin" /\ rest = <<"new", "new">> /\ Len(todo) = 3 /\ todo # <<>>
      BY <2>2, Tails
    <3>2. Head(rest) = "new"
      <4>1. Head(<<"new", "new">>) = "new"
        OBVIOUS
      <4> QED
        BY <3>1, <4>1
    <3>3. rest \in ToDo(kind)
      <4>1. rest \in PinToDo
        BY <3>1 DEF PinToDo
      <4> QED
        BY <1>3, <4>1 DEF ToDo
    <3> QED
      BY <1>3, <3>1, <3>2, <3>3
  <2>3. CASE todo = <<"new", "new">>
    <3>1. a = "new" /\ rest = <<"new">> /\ Len(todo) = 2 /\ todo # <<>>
      BY <2>3, Tails
    <3>2. Head(rest) = "new"
      <4>1. Head(<<"new">>) = "new"
        OBVIOUS
      <4> QED
        BY <3>1, <4>1
    <3>3. rest \in ToDo(kind)
      <4>1. rest \in PinToDo
        BY <3>1 DEF PinToDo
      <4> QED
        BY <1>3, <4>1 DEF ToDo
    <3> QED
      BY <1>3, <3>1, <3>2, <3>3
  <2>4. CASE todo = <<"new">>
    <3>1. a = "new" /\ rest = <<>> /\ Len(todo) = 1 /\ todo # <<>>
      BY <2>4, Tails
    <3>3. rest \in Done(kind)
      BY <1>3, <3>1 DEF Done
    <3> QED
      BY <1>3, <3>1, <3>3
  <2> QED
    BY <1>3, <2>1, <2>2, <2>3, <2>4 DEF ToDo, PinToDo
<1> QED
  BY <1>1, <1>2, <1>3 DEF Kind

-----------------------------------------------------------------------------
\* What a step leaves alone.
KeysStay == \A k \in Key : OnCard(k) => OnCard(k)'

LEMMA CardsKeepKeys ==
    ASSUME \A c \in Card : card'[c].slots = card[c].slots, lost' = lost
    PROVE  KeysStay
BY DEF KeysStay, OnCard

LEMMA JobsKept ==
    ASSUME \A j \in Job : JobInv(j), job' = job, changed' = changed, whole' = whole, KeysStay
    PROVE  \A j \in Job : JobInv(j)'
<1> SUFFICES ASSUME NEW j \in Job PROVE JobInv(j)'
  OBVIOUS
<1>1. JobInv(j)
  OBVIOUS
<1>2. Progress(job[j], j \in changed, j \in whole)' /\ Asks(job[j])'
  BY <1>1 DEF JobInv
<1>3. (job[j].kind = "move" /\ Talking(job[j]) /\ j \in changed => OnCard(job[j].key))'
  <2> SUFFICES ASSUME job[j].kind = "move", Talking(job[j]), j \in changed
               PROVE  OnCard(job[j].key)'
    BY DEF Talking
  <2>1. OnCard(job[j].key) /\ job[j].key \in Key
    BY <1>1 DEF JobInv, Asks, Talking
  <2>2. PICK k \in Key : k = job[j].key
    BY <2>1
  <2> QED
    BY <2>1, <2>2 DEF KeysStay, OnCard
<1> QED
  BY <1>2, <1>3 DEF JobInv

\* A step of job j.
LEMMA JobTyped ==
    ASSUME CardTypeOK, NEW j \in Job, NEW r \in JobState, r.at = "idle" => r = NoJob,
           job' = [job EXCEPT ![j] = r]
    PROVE  /\ job' \in [Job -> JobState]
           /\ \A i \in Job : job'[i].at = "idle" => job'[i] = NoJob
           /\ job'[j] = r /\ \A i \in Job \ {j} : job'[i] = job[i]
BY DEF CardTypeOK

LEMMA JobStep ==
    ASSUME CardTypeOK, \A i \in Job : JobInv(i), NEW j \in Job, NEW r \in JobState,
           r.at = "idle" => r = NoJob, job' = [job EXCEPT ![j] = r],
           \A i \in Job \ {j} : (i \in changed' <=> i \in changed) /\ (i \in whole' <=> i \in whole),
           KeysStay, Progress(r, j \in changed', j \in whole'), Asks(r),
           r.kind = "move" /\ Talking(r) /\ j \in changed' => OnCard(r.key)'
    PROVE  \A i \in Job : JobInv(i)'
<1>1. job'[j] = r /\ \A i \in Job \ {j} : job'[i] = job[i]
  BY JobTyped
<1>2. JobInv(j)'
  <2>1. Progress(job[j], j \in changed, j \in whole)' /\ Asks(job[j])'
    BY <1>1
  <2>2. (job[j].kind = "move" /\ Talking(job[j]) /\ j \in changed => OnCard(job[j].key))'
    BY <1>1 DEF Talking, OnCard
  <2> QED
    BY <2>1, <2>2 DEF JobInv
<1>3. ASSUME NEW i \in Job \ {j} PROVE JobInv(i)'
  <2>1. /\ JobInv(i) /\ job'[i] = job[i]
        /\ (i \in changed' <=> i \in changed) /\ (i \in whole' <=> i \in whole)
    BY <1>1, <1>3
  <2>2. Progress(job[i], i \in changed, i \in whole)' /\ Asks(job[i])'
    BY <2>1 DEF JobInv, Progress, Asks, Stage, Starting, Talking, Unasked
  <2>3. (job[i].kind = "move" /\ Talking(job[i]) /\ i \in changed => OnCard(job[i].key))'
    <3> SUFFICES ASSUME job'[i].kind = "move", Talking(job[i])', i \in changed'
                 PROVE  OnCard(job[i].key)'
      OBVIOUS
    <3>1. Talking(job[i])
      BY <2>1 DEF Talking
    <3>2. OnCard(job[i].key) /\ job[i].key \in Key
      BY <2>1, <3>1 DEF JobInv, Asks, Talking
    <3>3. PICK k \in Key : k = job[i].key
      BY <3>2
    <3> QED
      BY <2>1, <3>2, <3>3 DEF KeysStay, OnCard
  <2> QED
    BY <2>2, <2>3 DEF JobInv
<1> QED
  BY <1>2, <1>3

LEMMA KeysKept ==
    ASSUME KeysInv, KeysStay, lost' = lost,
           \A k \in Key : home'[k] \in {"stub", "public"} =>
                              home[k] \in {"stub", "public"} \/ OnCard(k)
    PROVE  KeysInv'
<1>1. \A k \in Key : home'[k] \in {"stub", "public"} => OnCard(k)'
  BY DEF KeysInv, KeysStay
<1> QED
  BY <1>1 DEF KeysInv, OnCard

LEMMA ReportsKept ==
    ASSUME ReportIsHonest, UNCHANGED <<told, event, changed, whole>>
    PROVE  ReportIsHonest'
BY DEF ReportIsHonest

-----------------------------------------------------------------------------
\* The card compares a PIN and keeps its key.
LEMMA TriedKeeps ==
    ASSUME CardTypeOK, NEW c \in Card, NEW which, NEW text
    PROVE  /\ Tried(c, which, text) \in
                [user : Text, admin : Text, userTries : 0..MaxTries,
                 adminTries : 0..MaxTries, slots : Keys]
           /\ Tried(c, which, text).slots = card[c].slots
<1> DEFINE left(n) == IF PinOk(c, which, text) THEN MaxTries ELSE IF n > 0 THEN n - 1 ELSE 0
<1>1. card[c] \in [user : Text, admin : Text, userTries : 0..MaxTries,
                   adminTries : 0..MaxTries, slots : Keys]
  BY DEF CardTypeOK
<1>2. \A n \in 0..MaxTries : left(n) \in 0..MaxTries
  BY CardAssumption
<1>3. Tried(c, which, text) =
        IF which = "user" THEN [card[c] EXCEPT !.userTries = left(card[c].userTries)]
                          ELSE [card[c] EXCEPT !.adminTries = left(card[c].adminTries)]
  BY DEF Tried
<1> HIDE DEF left
<1> QED
  BY <1>1, <1>2, <1>3

-----------------------------------------------------------------------------
\* Steps that only look.
LEMMA ViewStep ==
    ASSUME CardInv, CardTypeOK',
           UNCHANGED <<card, job, vault, told, event, lost, changed, whole>>,
           \A k \in Key : home'[k] \in {"stub", "public"} => home[k] \in {"stub", "public"}
    PROVE  CardInv'
<1>1. /\ CardTypeOK /\ KeysInv /\ ReportIsHonest /\ Silent
      /\ \A j \in Job : JobInv(j)
  BY DEF CardInv
<1>2. KeysStay
  BY CardsKeepKeys
<1>3. KeysInv'
  BY <1>1, <1>2, KeysKept
<1>4. ReportIsHonest'
  BY <1>1, ReportsKept
<1>5. \A j \in Job : JobInv(j)'
  BY <1>1, <1>2, JobsKept
<1> QED
  BY <1>1, <1>3, <1>4, <1>5 DEF CardInv, Silent

\* --card-status: types, and what becomes of the keyring.
LEMMA StatusTypes ==
    ASSUME CardTypeOK
    PROVE  /\ Status \in CardInfo \cup {NoInfo}
           /\ Learned \in [Key -> {"secret", "stub", "public", "none"}]
           /\ \A k \in Key : Learned[k] \in {"stub", "public"} => home[k] \in {"stub", "public"}
<1>1. Status \in CardInfo \cup {NoInfo}
  BY DEF Status, CardInfo, NoInfo, CardTypeOK
<1>2. CASE inserted = NoCard
  BY <1>1, <1>2 DEF Learned, CardTypeOK
<1>3. CASE inserted # NoCard
  <2>1. Learned = [k \in Key |-> IF OnIt(inserted, k) /\ home[k] = "public" THEN "stub"
                                 ELSE home[k]]
    BY <1>3 DEF Learned
  <2> QED
    BY <1>1, <2>1 DEF CardTypeOK
<1> QED
  BY <1>2, <1>3

LEMMA SyncTypes ==
    ASSUME CardTypeOK, StartSync
    PROVE  sync' \in [Sync -> [at : {"idle", "probe", "deliver"},
                               card : CardInfo \cup {NoInfo}]]
BY DEF StartSync, CardTypeOK

LEMMA LookingKeeps ==
    ASSUME CardInv, Swap \/ Panel \/ Syncs
    PROVE  CardInv'
<1>1. CardTypeOK
  BY DEF CardInv
<1>2. CASE Swap
  <2>1. CardTypeOK'
    BY <1>1, <1>2, CardAssumption DEF Swap, CardTypeOK, view, hist
  <2> QED
    BY <1>2, <2>1, ViewStep DEF Swap, view, hist
<1>3. CASE Refresh
  <2>1. CardTypeOK'
    BY <1>1, <1>3, SyncTypes DEF Refresh, CardTypeOK, token, hist, bounds
  <2> QED
    BY <1>3, <2>1, ViewStep DEF Refresh, token, hist
<1>4. CASE CloseDialog
  <2>1. NoDlg \in [kind : {"-", "pin", "move", "generate"},
                   card : CardInfo \cup {NoInfo}, keys : SUBSET Key, busy : SUBSET Job]
    BY DEF NoDlg
  <2>2. CardTypeOK'
    BY <1>1, <1>4, <2>1, SyncTypes DEF CloseDialog, CardTypeOK, token, hist, bounds
  <2> QED
    BY <1>4, <2>2, ViewStep DEF CloseDialog, token, hist
<1>5. ASSUME NEW kind \in {"pin", "move", "generate"}, OpenDialog(kind) PROVE CardInv'
  <2>1. dlg' \in [kind : {"-", "pin", "move", "generate"},
                  card : CardInfo \cup {NoInfo}, keys : SUBSET Key, busy : SUBSET Job]
    BY <1>1, <1>5 DEF NoDlg, OpenDialog, CardTypeOK
  <2>2. CardTypeOK'
    BY <1>1, <1>5, <2>1 DEF OpenDialog, CardTypeOK, token, hist, bounds
  <2> QED
    BY <1>5, <2>2, ViewStep DEF OpenDialog, token, hist
<1>6. ASSUME NEW s \in Sync, Probe(s) PROVE CardInv'
  <2>1. CardTypeOK'
    BY <1>1, <1>6, StatusTypes DEF Probe, CardTypeOK, hist, bounds
  <2> QED
    BY <1>1, <1>6, <2>1, StatusTypes, ViewStep DEF Probe, hist
<1>7. ASSUME NEW s \in Sync, Deliver(s) PROVE CardInv'
  <2>1. CardTypeOK'
    BY <1>1, <1>7 DEF Deliver, CardTypeOK, token, hist, bounds
  <2> QED
    BY <1>7, <2>1, ViewStep DEF Deliver, token, hist
<1> QED
  BY <1>2, <1>3, <1>4, <1>5, <1>6, <1>7 DEF Panel, Syncs

-----------------------------------------------------------------------------
\* The opening of a vault.
LEMMA OpeningKeeps ==
    ASSUME CardInv, Vault
    PROVE  CardInv'
<1>1. /\ CardTypeOK /\ KeysInv /\ ReportIsHonest /\ Silent
      /\ \A j \in Job : JobInv(j)
  BY DEF CardInv
<1> DEFINE VaultState == [at : {"idle", "open"}, pin : Text, todo : Seq(Key)]
<1>2. Closed \in VaultState
  BY DEF Closed, Text
<1>3. /\ UNCHANGED <<inserted, home, panel, sync, dlg, job, told, event, lost, changed, whole, swaps>>
      /\ submits' \in 0..MaxSubmits
  <2>1. CASE OpenVault
    BY <1>1, <2>1, CardAssumption DEF OpenVault, CardTypeOK, token, view, hist
  <2>2. CASE UnwrapSlot
    BY <1>1, <2>2 DEF UnwrapSlot, CardTypeOK, view, hist, bounds
  <2>3. CASE GiveUp
    BY <1>1, <2>3 DEF GiveUp, CardTypeOK, token, view, hist, bounds
  <2> QED
    BY <2>1, <2>2, <2>3 DEF Vault
<1>4. /\ vault' \in VaultState
      /\ \A c \in Card : card'[c].slots = card[c].slots
      /\ card' \in [Card -> [user : Text, admin : Text, userTries : 0..MaxTries,
                             adminTries : 0..MaxTries, slots : Keys]]
  <2>1. CASE OpenVault
    <3>1. PICK p \in {UserPin, NewPin}, slots \in SlotLists :
            vault' = [at |-> "open", pin |-> p, todo |-> slots]
      BY <2>1 DEF OpenVault
    <3>2. PICK n \in 1..MaxSlots : slots \in [1..n -> Key \ Fresh]
      BY <3>1 DEF SlotLists
    <3>3. slots \in Seq(Key)
      <4>1. n \in Nat /\ slots \in [1..n -> Key]
        BY <3>2, CardAssumption
      <4> QED
        BY <4>1
    <3>4. vault' \in VaultState
      BY <3>1, <3>3 DEF Text
    <3>5. card' = card
      BY <2>1 DEF OpenVault, token
    <3> QED
      BY <1>1, <3>4, <3>5 DEF CardTypeOK
  <2>2. CASE GiveUp
    BY <1>1, <1>2, <2>2 DEF GiveUp, token, CardTypeOK
  <2>3. CASE UnwrapSlot
    <3>1. PICK k : k = Head(vault.todo)
      OBVIOUS
    <3>2. vault \in VaultState /\ vault.todo # <<>>
      BY <1>1, <2>3 DEF CardTypeOK, UnwrapSlot
    <3>3. PICK rest \in Seq(Key) : rest = Tail(vault.todo)
      <4>1. vault.todo \in Seq(Key) /\ vault.todo # <<>>
        BY <3>2
      <4>2. Tail(vault.todo) \in Seq(Key)
        BY <4>1
      <4> QED
        BY <4>2
    <3>4. [vault EXCEPT !.todo = rest] \in VaultState
      BY <3>2, <3>3
    <3>5. CASE ~ Asked(k)
      <4>1. vault' = [vault EXCEPT !.todo = rest] /\ card' = card
        BY <2>3, <3>1, <3>3, <3>5 DEF UnwrapSlot
      <4> QED
        BY <1>1, <3>4, <4>1 DEF CardTypeOK
    <3>6. CASE Asked(k)
      <4>1. inserted \in Card
        BY <1>1, <3>6 DEF Asked, CardTypeOK
      <4>2. PICK t : t = Tried(inserted, "user", vault.pin)
        OBVIOUS
      <4>3. /\ t.slots = card[inserted].slots
            /\ t \in [user : Text, admin : Text, userTries : 0..MaxTries,
                      adminTries : 0..MaxTries, slots : Keys]
        BY <1>1, <4>1, <4>2, TriedKeeps
      <4>4. /\ card' = [card EXCEPT ![inserted] = t]
            /\ vault' = Closed \/ vault' = [vault EXCEPT !.todo = rest]
        BY <2>3, <3>1, <3>3, <3>6, <4>2 DEF UnwrapSlot
      <4> QED
        BY <1>1, <1>2, <3>4, <4>1, <4>3, <4>4 DEF CardTypeOK
    <3> QED
      BY <3>5, <3>6
  <2> QED
    BY <2>1, <2>2, <2>3 DEF Vault
<1>5. CardTypeOK'
  BY <1>1, <1>3, <1>4 DEF CardTypeOK
<1>6. KeysStay
  BY <1>3, <1>4, CardsKeepKeys
<1>7. KeysInv'
  BY <1>1, <1>3, <1>6, KeysKept
<1>8. ReportIsHonest'
  BY <1>1, <1>3, ReportsKept
<1>9. \A j \in Job : JobInv(j)'
  BY <1>1, <1>3, <1>6, JobsKept
<1> QED
  BY <1>1, <1>3, <1>5, <1>7, <1>8, <1>9 DEF CardInv, Silent

-----------------------------------------------------------------------------
\* A step of job j that does not write a key.
LEMMA WorkStep ==
    ASSUME CardInv, CardTypeOK', NEW j \in Job, NEW r \in JobState, r.at # "idle",
           job' = [job EXCEPT ![j] = r],
           \A i \in Job \ {j} : (i \in changed' <=> i \in changed) /\ (i \in whole' <=> i \in whole),
           lost' = lost, told'[j] = "-", event'[j] = NoEvent,
           \A i \in Job \ {j} : told'[i] = told[i] /\ event'[i] = event[i],
           \A c \in Card : card'[c].slots = card[c].slots,
           Progress(r, j \in changed', j \in whole'), Asks(r),
           r.kind = "move" /\ Talking(r) /\ j \in changed' => r.key \in Key /\ OnCard(r.key),
           \A k \in Key : home'[k] \in {"stub", "public"} =>
                              home[k] \in {"stub", "public"} \/ OnCard(k),
           ReportIsHonest'
    PROVE  CardInv'
<1>1. /\ CardTypeOK /\ KeysInv /\ ReportIsHonest /\ Silent
      /\ \A i \in Job : JobInv(i)
  BY DEF CardInv
<1>2. KeysStay
  BY CardsKeepKeys
<1>3. KeysInv'
  BY <1>1, <1>2, KeysKept
<1>4. r.kind = "move" /\ Talking(r) /\ j \in changed' => OnCard(r.key)'
  BY <1>2 DEF KeysStay
<1>5. \A i \in Job : JobInv(i)'
  BY <1>1, <1>2, <1>4, JobStep
<1>6. Silent'
  BY <1>1, JobTyped DEF Silent
<1> QED
  BY <1>3, <1>5, <1>6 DEF CardInv

\* The operation of j ends.
LEMMA NoJobTyped ==
    /\ NoJob \in JobState /\ NoJob.at = "idle" /\ NoJob.kind = "user"
    /\ ~ NoJob.failed /\ ~ NoJob.unanswered
    /\ NoJob.card = NoCard /\ NoJob.key = NoKey /\ NoJob.overwrite = FALSE
    /\ NoJob.into = {} /\ NoJob.fill = {}
    /\ NoJob.ask = "-" /\ NoJob.todo = <<>>
<1>1. <<>> \in Seq(Answer) /\ <<>> \in Seq(Prompt)
  OBVIOUS
<1>2. NoAnswer \in [field : Prompt \cup {"-"}, text : Text \cup {"-", "y", "n"}]
  BY DEF NoAnswer
<1>3. Bare \in Keys
  BY DEF Bare, Keys
<1> QED
  BY <1>1, <1>2, <1>3 DEF NoJob, JobState, Kind

LEMMA FinishStep ==
    ASSUME CardInv, CardTypeOK', NEW j \in Job, job' = [job EXCEPT ![j] = NoJob],
           UNCHANGED <<card, lost, changed, whole>>, job[j].at # "idle",
           \A i \in Job \ {j} : told'[i] = told[i] /\ event'[i] = event[i],
           \A k \in Key : home'[k] \in {"stub", "public"} => home[k] \in {"stub", "public"},
           ReportIsHonest'
    PROVE  CardInv'
<1>1. /\ CardTypeOK /\ KeysInv /\ ReportIsHonest /\ Silent
      /\ \A i \in Job : JobInv(i)
  BY DEF CardInv
<1>2. KeysStay
  BY CardsKeepKeys
<1>3. KeysInv'
  BY <1>1, <1>2, KeysKept
<1>5. Progress(NoJob, j \in changed', j \in whole') /\ Asks(NoJob)
  <2>1. j \in whole => j \in changed
    BY <1>1 DEF JobInv, Progress
  <2> QED
    BY <2>1, NoJobTyped DEF Progress, Asks, Starting, Talking
<1>6. \A i \in Job : JobInv(i)'
  BY <1>1, <1>2, <1>5, NoJobTyped, JobStep
<1>7. Silent'
  <2>1. job'[j] = NoJob /\ \A i \in Job \ {j} : job'[i] = job[i]
    BY <1>1 DEF CardTypeOK
  <2> QED
    BY <1>1, <2>1, NoJobTyped DEF Silent
<1> QED
  BY <1>3, <1>6, <1>7 DEF CardInv

LEMMA FinishTypes ==
    ASSUME CardTypeOK, NEW j \in Job, NEW what, Finish(j, what)
    PROVE  /\ job' = [job EXCEPT ![j] = NoJob]
           /\ job' \in [Job -> JobState]
           /\ \A i \in Job : job'[i].at = "idle" => job'[i] = NoJob
           /\ job'[j] = NoJob /\ \A i \in Job \ {j} : job'[i] = job[i]
           /\ dlg' \in [kind : {"-", "pin", "move", "generate"}, card : CardInfo \cup {NoInfo},
                        keys : SUBSET Key, busy : SUBSET Job]
           /\ sync' \in [Sync -> [at : {"idle", "probe", "deliver"},
                                  card : CardInfo \cup {NoInfo}]]
           /\ told'[j] = what /\ \A i \in Job \ {j} : told'[i] = told[i]
           /\ what \in {"ok", "failed", "unexpected_prompt", "refused", "timeout"} =>
                told' \in [Job -> {"-", "ok", "failed", "unexpected_prompt", "refused", "timeout"}]
<1>1. job' = [job EXCEPT ![j] = NoJob] /\ (StartSync \/ UNCHANGED sync)
  BY DEF Finish
<1>2. dlg' = [dlg EXCEPT !.busy = @ \ {j}]
  BY DEF Finish
<1>3. dlg' \in [kind : {"-", "pin", "move", "generate"}, card : CardInfo \cup {NoInfo},
                keys : SUBSET Key, busy : SUBSET Job]
  BY <1>2 DEF CardTypeOK
<1>4. sync' \in [Sync -> [at : {"idle", "probe", "deliver"},
                          card : CardInfo \cup {NoInfo}]]
  <2>1. CASE StartSync
    BY <2>1, SyncTypes
  <2>2. CASE UNCHANGED sync
    BY <2>2 DEF CardTypeOK
  <2> QED
    BY <1>1, <2>1, <2>2
<1>5. /\ told'[j] = what /\ \A i \in Job \ {j} : told'[i] = told[i]
      /\ what \in {"ok", "failed", "unexpected_prompt", "refused", "timeout"} =>
           told' \in [Job -> {"-", "ok", "failed", "unexpected_prompt", "refused", "timeout"}]
  BY DEF Finish, CardTypeOK
<1> QED
  BY <1>1, <1>3, <1>4, <1>5, NoJobTyped, JobTyped

\* _communicate: the timeout.
LEMMA TimeoutKeeps ==
    ASSUME CardInv, NEW j \in Job, Timeout(j)
    PROVE  CardInv'
<1>1. CardTypeOK /\ ReportIsHonest
  BY DEF CardInv
<1>2. /\ Finish(j, "timeout") /\ job[j].at # "idle"
      /\ UNCHANGED <<card, inserted, home, panel, vault, event, lost, changed, whole, submits, swaps>>
  BY DEF Timeout, token, bounds
<1>3. CardTypeOK'
  BY <1>1, <1>2, FinishTypes DEF CardTypeOK
<1>4. ReportIsHonest'
  <2>1. told'[j] = "timeout" /\ \A i \in Job \ {j} : told'[i] = told[i]
    BY <1>1, <1>2, FinishTypes
  <2> QED
    BY <1>1, <1>2, <2>1 DEF ReportIsHonest
<1> QED
  BY <1>1, <1>2, <1>3, <1>4, FinishTypes, FinishStep

\* _run_card_script reports.
LEMMA ConcludeKeeps ==
    ASSUME CardInv, NEW j \in Job, Conclude(j)
    PROVE  CardInv'
<1>1. CardTypeOK /\ ReportIsHonest /\ JobInv(j)
  BY DEF CardInv
<1>2. PICK what : what = Outcome(j)
  OBVIOUS
<1>3. /\ Finish(j, what)
      /\ \/ event' = [event EXCEPT ![j] = [what |-> what, unused |-> Len(job[j].queue)]]
         \/ event' = event
      /\ UNCHANGED <<card, inserted, home, panel, vault, lost, changed, whole, submits, swaps>>
  BY <1>2 DEF Conclude, Emit, token, bounds
<1>4. /\ job[j].at = "ended" /\ job[j].queue \in Seq(Answer)
      /\ job[j].failed \in BOOLEAN /\ job[j].unanswered \in BOOLEAN
  BY <1>1 DEF Conclude, CardTypeOK, JobState
<1>5. /\ what \in {"ok", "failed", "unexpected_prompt"}
      /\ what = "ok" => ~ job[j].unanswered /\ ~ job[j].failed
      /\ what = "failed" => job[j].failed
  BY <1>2, <1>4 DEF Outcome
<1>6. PICK n \in Nat : n = Len(job[j].queue) /\ (job[j].queue # <<>> => n > 0)
  BY <1>4
<1>7. /\ what = "ok" => j \in whole \/ n > 0
      /\ what = "failed" => j \notin whole
  BY <1>1, <1>4, <1>5, <1>6 DEF JobInv, Progress
<1>8. /\ event'[j] \in {NoEvent, [what |-> what, unused |-> n]}
      /\ \A i \in Job \ {j} : event'[i] = event[i]
      /\ event' \in [Job -> [what : {"-", "ok", "failed", "unexpected_prompt"}, unused : Nat]]
  <2>1. event[j] = NoEvent
    BY <1>4 DEF CardInv, Silent
  <2>2. PICK e : e = [what |-> what, unused |-> n]
    OBVIOUS
  <2>3. e \in [what : {"-", "ok", "failed", "unexpected_prompt"}, unused : Nat]
    BY <1>5, <1>6, <2>2
  <2>4. event \in [Job -> [what : {"-", "ok", "failed", "unexpected_prompt"}, unused : Nat]]
    BY <1>1 DEF CardTypeOK
  <2>5. event' = [event EXCEPT ![j] = e] \/ event' = event
    BY <1>3, <1>6, <2>2
  <2> QED
    BY <2>1, <2>2, <2>3, <2>4, <2>5
<1>9. event'[j].what = "ok" /\ event'[j].unused = 0 => j \in whole
  <2>1. CASE event'[j] = NoEvent
    BY <2>1 DEF NoEvent
  <2>2. CASE event'[j] = [what |-> what, unused |-> n]
    BY <1>7, <2>2
  <2> QED
    BY <1>8, <2>1, <2>2
<1>10. /\ told'[j] = what /\ \A i \in Job \ {j} : told'[i] = told[i]
       /\ job' = [job EXCEPT ![j] = NoJob]
  BY <1>1, <1>3, FinishTypes
<1>11. CardTypeOK'
  BY <1>1, <1>3, <1>5, <1>8, FinishTypes DEF CardTypeOK
<1>12. ReportIsHonest'
  BY <1>1, <1>3, <1>5, <1>7, <1>8, <1>9, <1>10 DEF ReportIsHonest
<1> QED
  BY <1>3, <1>4, <1>8, <1>10, <1>11, <1>12, FinishStep

-----------------------------------------------------------------------------
\* A dialog starts an operation.
LEMMA NewJobFields ==
    ASSUME NEW kind \in Kind, NEW key \in Key \cup {NoKey}, NEW into \in SUBSET Slot,
           NEW ow \in BOOLEAN, NEW queue \in Seq(Answer), queue # <<>>,
           kind = "move" => key \in Key, kind \in {"move", "generate"} => into # {},
           NEW r, r = NewJob(kind, key, into, ow, queue)
    PROVE  r \in JobState /\ r.at = "check" /\ Progress(r, FALSE, FALSE) /\ Asks(r)
<1>1. ReplaceAnswer(kind, ow) \in {"-", "y", "n"}
  BY DEF ReplaceAnswer
<1>2. /\ r \in JobState /\ r.at = "check" /\ r.kind = kind /\ r.key = key /\ r.queue = queue
      /\ r.overwrite = ow /\ r.replace = ReplaceAnswer(kind, ow) /\ r.card = NoCard
      /\ r.into = into /\ r.fill = {}
      /\ r.failed = FALSE /\ r.unanswered = FALSE
  BY <1>1, NoJobTyped DEF NewJob, JobState
<1> QED
  BY <1>2 DEF Progress, Asks, Starting, Talking

LEMMA SubmitKeeps ==
    ASSUME CardInv, NEW j \in Job, NEW kind \in Kind, NEW key \in Key \cup {NoKey},
           NEW into \in SUBSET Slot, NEW ow \in BOOLEAN, NEW queue \in Seq(Answer), queue # <<>>,
           kind = "move" => key \in Key, kind \in {"move", "generate"} => into # {},
           Submit(j, NewJob(kind, key, into, ow, queue))
    PROVE  CardInv'
<1>1. CardTypeOK /\ ReportIsHonest
  BY DEF CardInv
<1>2. PICK r : r = NewJob(kind, key, into, ow, queue)
  OBVIOUS
<1>3. r \in JobState /\ r.at = "check" /\ Progress(r, FALSE, FALSE) /\ Asks(r)
  BY <1>2, NewJobFields
<1>4. /\ job' = [job EXCEPT ![j] = r] /\ dlg' = [dlg EXCEPT !.busy = {j}]
      /\ submits < MaxSubmits /\ submits' = submits + 1
      /\ told' = [told EXCEPT ![j] = "-"] /\ event' = [event EXCEPT ![j] = NoEvent]
      /\ changed' = changed \ {j} /\ whole' = whole \ {j}
      /\ UNCHANGED <<card, inserted, home, panel, sync, vault, lost, swaps>>
  BY <1>2 DEF Submit, token
<1>5. /\ event' \in [Job -> [what : {"-", "ok", "failed", "unexpected_prompt"}, unused : Nat]]
      /\ event'[j] = NoEvent /\ \A i \in Job \ {j} : event'[i] = event[i]
      /\ told'[j] = "-" /\ \A i \in Job \ {j} : told'[i] = told[i]
      /\ told' \in [Job -> {"-", "ok", "failed", "unexpected_prompt", "refused", "timeout"}]
  BY <1>1, <1>4 DEF CardTypeOK, NoEvent
<1>6. dlg' \in [kind : {"-", "pin", "move", "generate"}, card : CardInfo \cup {NoInfo},
                keys : SUBSET Key, busy : SUBSET Job]
  BY <1>1, <1>4 DEF CardTypeOK
<1>7. /\ job' \in [Job -> JobState]
      /\ \A i \in Job : job'[i].at = "idle" => job'[i] = NoJob
      /\ \A i \in Job \ {j} : job'[i] = job[i]
  BY <1>1, <1>3, <1>4, JobTyped
<1>8. CardTypeOK'
  <2>1. submits' \in 0..MaxSubmits
    BY <1>1, <1>4, CardAssumption DEF CardTypeOK
  <2>2. changed' \subseteq Job /\ whole' \subseteq Job
    BY <1>1, <1>4 DEF CardTypeOK
  <2> QED
    BY <1>1, <1>4, <1>5, <1>6, <1>7, <2>1, <2>2 DEF CardTypeOK
<1>9. ReportIsHonest'
  <2>1. event'[j].what = "-"
    BY <1>5 DEF NoEvent
  <2> QED
    BY <1>1, <1>4, <1>5, <2>1 DEF ReportIsHonest
<1>10. Progress(r, j \in changed', j \in whole') /\ ~ Talking(r)
  <2>1. (j \in changed' <=> FALSE) /\ (j \in whole' <=> FALSE)
    BY <1>4
  <2>2. ~ Talking(r)
    BY <1>3 DEF Talking
  <2> QED
    BY <1>3, <2>1, <2>2 DEF Progress
<1>11. \A i \in Job \ {j} : (i \in changed' <=> i \in changed) /\ (i \in whole' <=> i \in whole)
  BY <1>4
<1> QED
  BY <1>1, <1>3, <1>4, <1>5, <1>8, <1>9, <1>10, <1>11, WorkStep

LEMMA ScriptsAreQueues ==
    ASSUME NEW a \in Text, NEW b \in Text, NEW which \in {"user", "admin"}
    PROVE  /\ ChangePinScript(which, a, b) \in Seq(Answer) \ {<<>>}
           /\ KeytocardScript(a, b) \in Seq(Answer) \ {<<>>}
           /\ GenerateScript(a, b) \in Seq(Answer) \ {<<>>}
<1>1. \A f \in Secret, t \in Text : [field |-> f, text |-> t] \in Answer
  BY DEF Answer
<1>2. which \in Secret /\ "new" \in Secret /\ "phrase" \in Secret
      /\ "admin" \in Secret /\ "user" \in Secret
  BY DEF Secret
<1>3. /\ [field |-> which, text |-> a] \in Answer /\ [field |-> "new", text |-> b] \in Answer
      /\ [field |-> "phrase", text |-> a] \in Answer /\ [field |-> "admin", text |-> b] \in Answer
      /\ [field |-> "admin", text |-> a] \in Answer /\ [field |-> "user", text |-> b] \in Answer
  BY <1>1, <1>2
<1>4. \A x, y, z \in Answer : /\ <<x, y, z>> \in Seq(Answer) /\ <<x, y, z>> # <<>>
                              /\ <<x, y>> \in Seq(Answer) /\ <<x, y>> # <<>>
  OBVIOUS
<1>5. ChangePinScript(which, a, b) \in Seq(Answer) \ {<<>>}
  BY <1>3, <1>4 DEF ChangePinScript
<1>6. KeytocardScript(a, b) \in Seq(Answer) \ {<<>>}
  BY <1>3, <1>4 DEF KeytocardScript
<1>7. GenerateScript(a, b) \in Seq(Answer) \ {<<>>}
  BY <1>3, <1>4 DEF GenerateScript
<1> QED
  BY <1>5, <1>6, <1>7

LEMMA UserKeeps ==
    ASSUME CardInv, NEW j \in Job, User(j)
    PROVE  CardInv'
<1>1. CardTypeOK
  BY DEF CardInv
<1>2. /\ UserPin \in Text /\ AdminPin \in Text /\ NewPin \in Text
      /\ Passphrase \in Text
  BY DEF Text
<1>3. CASE SubmitPin(j)
  <2>1. PICK mode \in {"user", "admin", "unblock"}, cur \in {UserPin, AdminPin} :
          Submit(j, NewJob(mode, NoKey, {}, FALSE,
              IF mode = "unblock" THEN UnblockPinScript(cur, NewPin)
                                  ELSE ChangePinScript(mode, cur, NewPin)))
    BY <1>3 DEF SubmitPin
  <2>2. PICK queue : queue = IF mode = "unblock" THEN UnblockPinScript(cur, NewPin)
                                                 ELSE ChangePinScript(mode, cur, NewPin)
    OBVIOUS
  <2>3. queue \in Seq(Answer) /\ queue # <<>>
    BY <1>2, <2>2, ScriptsAreQueues DEF UnblockPinScript
  <2>4. mode \in Kind /\ mode \notin {"move", "generate"}
    BY DEF Kind
  <2>5. Submit(j, NewJob(mode, NoKey, {}, FALSE, queue))
    BY <2>1, <2>2
  <2> QED
    BY <2>3, <2>4, <2>5, SubmitKeeps
<1>4. CASE SubmitMove(j)
  <2>1. PICK k \in dlg.keys, s \in Slot, admin \in {AdminPin, NewPin} :
          Submit(j, NewJob("move", k, {s}, dlg.card.slots[s] # NoKey,
                           KeytocardScript(Passphrase, admin)))
    BY <1>4 DEF SubmitMove
  <2>2. PICK queue : queue = KeytocardScript(Passphrase, admin)
    OBVIOUS
  <2>3. queue \in Seq(Answer) /\ queue # <<>>
    BY <1>2, <2>2, ScriptsAreQueues
  <2>4. "move" \in Kind /\ k \in Key
    BY <1>1 DEF Kind, CardTypeOK
  <2>5. PICK ow \in BOOLEAN : ow = (dlg.card.slots[s] # NoKey)
    OBVIOUS
  <2>6. Submit(j, NewJob("move", k, {s}, ow, queue))
    BY <2>1, <2>2, <2>5
  <2>7. {s} \in SUBSET Slot /\ {s} # {}
    OBVIOUS
  <2> QED
    BY <2>3, <2>4, <2>6, <2>7, SubmitKeeps
<1>5. CASE SubmitGenerate(j)
  <2>1. PICK admin \in {AdminPin, NewPin}, user \in {UserPin, NewPin} :
          Submit(j, NewJob("generate", NoKey, Slot, dlg.card.slots # Bare,
                           GenerateScript(admin, user)))
    BY <1>5 DEF SubmitGenerate
  <2>2. PICK queue : queue = GenerateScript(admin, user)
    OBVIOUS
  <2>3. queue \in Seq(Answer) /\ queue # <<>>
    BY <1>2, <2>2, ScriptsAreQueues
  <2>4. "generate" \in Kind
    BY DEF Kind
  <2>5. PICK ow \in BOOLEAN : ow = (dlg.card.slots # Bare)
    OBVIOUS
  <2>6. Submit(j, NewJob("generate", NoKey, Slot, ow, queue))
    BY <2>1, <2>2, <2>5
  <2>7. Slot \in SUBSET Slot /\ Slot # {}
    BY CardAssumption
  <2> QED
    BY <2>3, <2>4, <2>6, <2>7, SubmitKeeps
<1> QED
  BY <1>3, <1>4, <1>5 DEF User

-----------------------------------------------------------------------------
\* A step of job j in which only the job, and perhaps the keyring and the PINs of a card,
\* change.
LEMMA QuietStep ==
    ASSUME CardInv, NEW j \in Job, NEW r \in JobState, r.at # "idle", job[j].at # "idle",
           job' = [job EXCEPT ![j] = r],
           UNCHANGED <<inserted, panel, sync, dlg, vault, told, event, lost, changed, whole,
                       submits, swaps>>,
           \A c \in Card : card'[c].slots = card[c].slots,
           card' \in [Card -> [user : Text, admin : Text, userTries : 0..MaxTries,
                               adminTries : 0..MaxTries, slots : Keys]],
           home' \in [Key -> {"secret", "stub", "public", "none"}],
           \A k \in Key : home'[k] \in {"stub", "public"} =>
                              home[k] \in {"stub", "public"} \/ OnCard(k),
           Progress(r, j \in changed, j \in whole), Asks(r),
           r.kind = "move" /\ Talking(r) /\ j \in changed => r.key \in Key /\ OnCard(r.key)
    PROVE  CardInv'
<1>1. CardTypeOK /\ ReportIsHonest
  BY DEF CardInv
<1>2. CardTypeOK'
  BY <1>1, JobTyped DEF CardTypeOK
<1>3. ReportIsHonest'
  BY <1>1, ReportsKept
<1>4. Progress(r, j \in changed', j \in whole')
  OBVIOUS
<1>5. event'[j] = NoEvent /\ told'[j] = "-"
  BY DEF CardInv, Silent
<1> QED
  BY <1>2, <1>3, <1>4, <1>5, WorkStep

\* move_key_to_card and generate_key_on_card look at the card.
LEMMA CheckKeeps ==
    ASSUME CardInv, NEW j \in Job, Check(j)
    PROVE  CardInv'
<1>1. CardTypeOK /\ ReportIsHonest /\ JobInv(j)
  BY DEF CardInv
<1>2. /\ job[j].at = "check"
      /\ home' \in [Key -> {"secret", "stub", "public", "none"}]
      /\ \A k \in Key : home'[k] \in {"stub", "public"} => home[k] \in {"stub", "public"}
      /\ UNCHANGED <<card, inserted, panel, vault, event, lost, changed, whole, submits, swaps>>
  <2>1. home' = home \/ home' = Learned
    BY DEF Check
  <2>2. home \in [Key -> {"secret", "stub", "public", "none"}]
    BY <1>1 DEF CardTypeOK
  <2> QED
    BY <1>1, <2>1, <2>2, StatusTypes DEF Check, bounds
<1>3. j \notin changed /\ job[j].card = NoCard
  BY <1>1, <1>2 DEF JobInv, Progress, Starting
<1>4. CASE Finish(j, "refused")
  <2>1. CardTypeOK'
    BY <1>1, <1>2, <1>4, FinishTypes DEF CardTypeOK
  <2>2. told'[j] = "refused" /\ \A i \in Job \ {j} : told'[i] = told[i]
    BY <1>1, <1>4, FinishTypes
  <2>3. ReportIsHonest'
    BY <1>1, <1>2, <1>3, <2>2 DEF ReportIsHonest
  <2>4. job' = [job EXCEPT ![j] = NoJob]
    BY <1>4 DEF Finish
  <2> QED
    BY <1>2, <2>1, <2>2, <2>3, <2>4, FinishStep
<1>5. CASE Set(j, [job[j] EXCEPT !.at = "talk"]) /\ UNCHANGED <<dlg, sync, told>>
  <2>1. PICK r : r = [job[j] EXCEPT !.at = "talk"]
    OBVIOUS
  <2>2. job[j] \in JobState
    BY <1>1 DEF CardTypeOK
  <2>3. /\ r \in JobState /\ r.at = "talk" /\ r.card = NoCard /\ r.queue = job[j].queue
        /\ r.replace = job[j].replace /\ r.kind = job[j].kind /\ r.overwrite = job[j].overwrite
        /\ r.key = job[j].key /\ r.failed = job[j].failed /\ r.unanswered = job[j].unanswered
        /\ r.into = job[j].into /\ r.fill = job[j].fill
    BY <1>3, <2>1, <2>2 DEF JobState
  <2>4. Progress(r, j \in changed, j \in whole)
    BY <1>1, <1>2, <1>3, <2>3 DEF JobInv, Progress, Starting, Talking
  <2>5. Asks(r) /\ ~ Talking(r)
    BY <1>1, <1>2, <2>3 DEF JobInv, Asks, Talking
  <2>6. job' = [job EXCEPT ![j] = r]
    BY <1>5, <2>1 DEF Set
  <2>7. card \in [Card -> [user : Text, admin : Text, userTries : 0..MaxTries,
                           adminTries : 0..MaxTries, slots : Keys]]
    BY <1>1 DEF CardTypeOK
  <2> QED
    BY <1>2, <1>5, <2>3, <2>4, <2>5, <2>6, <2>7, QuietStep
<1> QED
  BY <1>4, <1>5 DEF Check

\* What all steps of the editor have in common.
LEMMA EditorTypes ==
    ASSUME CardTypeOK, NEW j \in Job
    PROVE  /\ job[j] \in JobState /\ job[j].kind \in Kind /\ job[j].key \in Key \cup {NoKey}
           /\ job[j].queue \in Seq(Answer) /\ job[j].todo \in Seq(Prompt)
           /\ job[j].failed \in BOOLEAN /\ job[j].unanswered \in BOOLEAN
           /\ job[j].replace \in {"-", "y", "n"} /\ job[j].card \in Card \cup {NoCard}
           /\ card \in [Card -> [user : Text, admin : Text, userTries : 0..MaxTries,
                                 adminTries : 0..MaxTries, slots : Keys]]
           /\ home \in [Key -> {"secret", "stub", "public", "none"}]
<1>1. job[j] \in JobState
  BY DEF CardTypeOK
<1> QED
  BY <1>1 DEF CardTypeOK, JobState

\* A record that differs from job[j] in where the job is, its questions and its answer.
SameOrder(r, s) ==
    /\ r.kind = s.kind /\ r.key = s.key /\ r.into = s.into /\ r.overwrite = s.overwrite
    /\ r.replace = s.replace

\* The job ends: in good order, after a failure, or at a question without an answer.
LEMMA EndedFields ==
    ASSUME NEW s \in JobState, NEW r,
           r \in {[s EXCEPT !.at = "ended"], [s EXCEPT !.at = "ended", !.failed = TRUE],
                  [s EXCEPT !.at = "ended", !.unanswered = TRUE]}
    PROVE  /\ r \in JobState /\ r.at = "ended" /\ r.queue = s.queue /\ SameOrder(r, s)
           /\ r.fill = s.fill
           /\ r = [s EXCEPT !.at = "ended"] =>
                r.failed = s.failed /\ r.unanswered = s.unanswered
           /\ r = [s EXCEPT !.at = "ended", !.failed = TRUE] => r.failed
           /\ r = [s EXCEPT !.at = "ended", !.unanswered = TRUE] =>
                r.failed = s.failed /\ r.unanswered
<1>1. CASE r = [s EXCEPT !.at = "ended"]
  BY <1>1 DEF JobState, SameOrder
<1>2. CASE r = [s EXCEPT !.at = "ended", !.failed = TRUE]
  BY <1>2 DEF JobState, SameOrder
<1>3. CASE r = [s EXCEPT !.at = "ended", !.unanswered = TRUE]
  BY <1>3 DEF JobState, SameOrder
<1> QED
  BY <1>1, <1>2, <1>3

LEMMA EndStep ==
    ASSUME CardInv, NEW j \in Job, NEW r \in JobState, job[j].at # "idle",
           r.at = "ended", r.queue = job[j].queue, SameOrder(r, job[j]), r.fill = job[j].fill,
           job' = [job EXCEPT ![j] = r],
           r.failed => j \notin whole,
           ~ r.failed /\ ~ r.unanswered => j \in whole \/ r.queue # <<>>,
           UNCHANGED <<inserted, home, panel, sync, dlg, vault, told, event, lost, changed,
                       whole, submits, swaps>>,
           \A c \in Card : card'[c].slots = card[c].slots,
           card' \in [Card -> [user : Text, admin : Text, userTries : 0..MaxTries,
                               adminTries : 0..MaxTries, slots : Keys]]
    PROVE  CardInv'
<1>1. CardTypeOK /\ JobInv(j)
  BY DEF CardInv
<1>2. Progress(r, j \in changed, j \in whole) /\ ~ Talking(r)
  BY <1>1 DEF JobInv, Progress, Starting, Talking, SameOrder
<1>3. Asks(r)
  BY <1>1, <1>2 DEF JobInv, Asks, SameOrder
<1>4. home \in [Key -> {"secret", "stub", "public", "none"}]
  BY <1>1 DEF CardTypeOK
<1> QED
  BY <1>2, <1>3, <1>4, QuietStep

\* gpg starts.
LEMMA StartEditorKeeps ==
    ASSUME CardInv, NEW j \in Job, StartEditor(j)
    PROVE  CardInv'
<1>1. CardTypeOK /\ JobInv(j)
  BY DEF CardInv
<1>2. /\ job[j].at = "talk" /\ job[j].card = NoCard
      /\ UNCHANGED <<card, inserted, home, panel, sync, dlg, vault, told, event, lost, changed,
                     whole, submits, swaps>>
  BY DEF StartEditor, token, view, hist, bounds
<1>3. /\ j \notin changed /\ j \notin whole /\ job[j].fill = {} /\ job[j].queue # <<>>
      /\ ~ job[j].failed /\ ~ job[j].unanswered
  BY <1>1, <1>2 DEF JobInv, Progress, Starting
<1>4. CASE Set(j, [job[j] EXCEPT !.at = "ended", !.failed = TRUE])
  <2>1. PICK r : r = [job[j] EXCEPT !.at = "ended", !.failed = TRUE]
    OBVIOUS
  <2>2. /\ r \in JobState /\ r.at = "ended" /\ r.failed /\ r.queue = job[j].queue
        /\ SameOrder(r, job[j]) /\ r.fill = job[j].fill
    BY <1>1, <2>1, EditorTypes, EndedFields
  <2>3. job' = [job EXCEPT ![j] = r]
    BY <1>4, <2>1 DEF Set
  <2> QED
    BY <1>1, <1>2, <1>3, <2>2, <2>3, EditorTypes, EndStep
<1>5. ASSUME inserted # NoCard,
             NEW q \in Questions(job[j].kind, \E s \in job[j].into : card[inserted].slots[s] # NoKey),
             Set(j, [job[j] EXCEPT !.card = inserted, !.found = card[inserted].slots, !.todo = q])
      PROVE  CardInv'
  <2>1. inserted \in Card /\ card[inserted].slots \in Keys
    BY <1>1, <1>5 DEF CardTypeOK
  <2>2. PICK occ \in BOOLEAN : occ = (\E s \in job[j].into : card[inserted].slots[s] # NoKey)
    OBVIOUS
  <2>3. /\ q \in Seq(Prompt) /\ q \in ToDo(job[j].kind) /\ q # <<>>
        /\ job[j].kind \in {"move", "generate"} => (Head(q) = "replace" <=> occ)
    BY <1>1, <1>5, <2>2, QuestionsAreToDo, EditorTypes
  <2>4. PICK r : r = [job[j] EXCEPT !.card = inserted, !.found = card[inserted].slots, !.todo = q]
    OBVIOUS
  <2>5. /\ r \in JobState /\ r.at = "talk" /\ r.card = inserted /\ r.found = card[inserted].slots
        /\ r.todo = q /\ r.fill = job[j].fill /\ r.queue = job[j].queue /\ r.failed = job[j].failed
        /\ r.unanswered = job[j].unanswered /\ SameOrder(r, job[j])
    <3>1. PICK k \in Keys : k = card[inserted].slots
      BY <2>1
    <3>2. job[j] \in JobState /\ r = [job[j] EXCEPT !.card = inserted, !.found = k, !.todo = q]
      BY <1>1, <2>4, <3>1, EditorTypes
    <3>3. q \in Seq(Prompt)
      BY <2>3
    <3> QED
      <4>1. PICK s \in JobState : s = job[j]
        BY <3>2
      <4>2. PICK c \in Card : c = inserted
        BY <2>1
      <4>3. r = [s EXCEPT !.card = c, !.found = k, !.todo = q]
        BY <3>2, <4>1, <4>2
      <4>4. /\ r \in JobState /\ r.at = s.at /\ r.card = c /\ r.found = k
            /\ r.todo = q /\ r.fill = s.fill /\ r.queue = s.queue /\ r.failed = s.failed
            /\ r.unanswered = s.unanswered /\ SameOrder(r, s)
        BY <3>3, <4>3 DEF JobState, SameOrder
      <4> QED
        BY <1>2, <3>1, <4>1, <4>2, <4>4
  <2>6. Progress(r, j \in changed, j \in whole)
    BY <1>3, <1>5, <2>3, <2>5 DEF Progress, Stage, Starting, Talking, Unasked, SameOrder
  <2>7. Asks(r)
    BY <1>1, <1>2, <2>2, <2>3, <2>5 DEF JobInv, Asks, Talking, Unasked, SameOrder
  <2>8. job' = [job EXCEPT ![j] = r]
    BY <1>5, <2>4 DEF Set
  <2> QED
    BY <1>1, <1>2, <1>3, <2>5, <2>6, <2>7, <2>8, EditorTypes, QuietStep
<1> QED
  BY <1>4, <1>5 DEF StartEditor

\* gpg asks, and is answered or left alone.
LEMMA TakeTyped ==
    ASSUME CardTypeOK, NEW j \in Job, NEW q, q \in Prompt, NEW u, u = Take(j, q),
           u # NoAnswer
    PROVE  /\ u \in [field : Prompt \cup {"-"}, text : Text \cup {"-", "y", "n"}]
           /\ q # "other"
           /\ q \in Secret => job[j].queue # <<>> /\ u.text \in Text
           /\ q = "replace" => u.text = job[j].replace /\ job[j].replace # "-"
<1>1. job[j].queue \in Seq(Answer) /\ job[j].replace \in {"-", "y", "n"}
  BY EditorTypes
<1>2. CASE q \in Secret
  <2>1. job[j].queue # <<>> /\ u = Head(job[j].queue)
    BY <1>2 DEF Take, Secret
  <2>2. u \in Answer
    BY <1>1, <2>1
  <2>3. u \in [field : Prompt \cup {"-"}, text : Text \cup {"-", "y", "n"}]
    BY <2>2 DEF Answer, Prompt
  <2>4. u.text \in Text
    BY <2>2 DEF Answer
  <2> QED
    BY <1>2, <2>1, <2>3, <2>4 DEF Secret
<1>3. CASE q = "replace"
  <2>1. job[j].replace # "-" /\ u = [field |-> "replace", text |-> job[j].replace]
    BY <1>3 DEF Take, Secret
  <2> QED
    BY <1>1, <1>3, <2>1 DEF Prompt, Secret
<1>4. CASE q = "save"
  <2>1. u = [field |-> "save", text |-> "y"]
    BY <1>4 DEF Take, Secret
  <2> QED
    BY <1>4, <2>1 DEF Prompt, Secret
<1>5. CASE q = "other"
  BY <1>5 DEF Take, Secret
<1> QED
  BY <1>2, <1>3, <1>4, <1>5 DEF Prompt

LEMMA AnswerKeeps ==
    ASSUME CardInv, NEW j \in Job, AnswerPrompt(j)
    PROVE  CardInv'
<1>1. CardTypeOK /\ JobInv(j)
  BY DEF CardInv
<1>2. /\ job[j].at = "talk" /\ job[j].card # NoCard
      /\ UNCHANGED <<card, inserted, home, panel, sync, dlg, vault, told, event, lost, changed,
                     whole, submits, swaps>>
  BY DEF AnswerPrompt, token, view, hist, bounds
<1>3. /\ Talking(job[j]) /\ ~ job[j].failed /\ ~ job[j].unanswered
  BY <1>1, <1>2 DEF JobInv, Progress, Talking
<1>4. PICK q \in {"other"} \cup (IF job[j].todo = <<>> \/ job[j].fill # {} THEN {}
                                ELSE {Head(job[j].todo)}) :
        IF Take(j, q) = NoAnswer
        THEN Set(j, [job[j] EXCEPT !.at = "ended", !.unanswered = TRUE])
        ELSE Set(j, [job[j] EXCEPT !.at = "answered", !.ask = q, !.ans = Take(j, q),
                     !.queue = IF q \in Secret THEN Tail(@) ELSE @])
  BY DEF AnswerPrompt
<1>5. CASE Take(j, q) = NoAnswer
  <2>1. PICK r : r = [job[j] EXCEPT !.at = "ended", !.unanswered = TRUE]
    OBVIOUS
  <2>2. /\ r \in JobState /\ r.at = "ended" /\ ~ r.failed /\ r.unanswered
        /\ r.queue = job[j].queue /\ SameOrder(r, job[j]) /\ r.fill = job[j].fill
    BY <1>1, <1>3, <2>1, EditorTypes, EndedFields
  <2>3. job' = [job EXCEPT ![j] = r]
    BY <1>4, <1>5, <2>1 DEF Set
  <2> QED
    BY <1>1, <1>2, <2>2, <2>3, EditorTypes, EndStep
<1>6. CASE Take(j, q) # NoAnswer
  <2>1. PICK u : u = Take(j, q)
    OBVIOUS
  <2>2. q \in Prompt
    <3>1. job[j].todo \in Seq(Prompt) /\ "other" \in Prompt
      BY <1>1, EditorTypes DEF Prompt
    <3> QED
      BY <1>4, <3>1
  <2>3. /\ u \in [field : Prompt \cup {"-"}, text : Text \cup {"-", "y", "n"}]
        /\ q # "other" /\ (q \in Secret => job[j].queue # <<>> /\ u.text \in Text)
        /\ q = "replace" => u.text = job[j].replace /\ job[j].replace # "-"
    BY <1>1, <1>6, <2>1, <2>2, TakeTyped
  <2>4. job[j].todo # <<>> /\ job[j].fill = {} /\ q = Head(job[j].todo)
    BY <1>4, <2>3
  <2>5. PICK queue : queue = IF q \in Secret THEN Tail(job[j].queue) ELSE job[j].queue
    OBVIOUS
  <2>6. queue \in Seq(Answer)
    <3>1. job[j].queue \in Seq(Answer)
      BY <1>1, EditorTypes
    <3> QED
      BY <2>3, <2>5, <3>1
  <2>7. PICK r : r = [job[j] EXCEPT !.at = "answered", !.ask = q, !.ans = u, !.queue = queue]
    OBVIOUS
  <2>8. /\ r \in JobState /\ r.at = "answered" /\ r.ask = q /\ r.ans = u /\ r.queue = queue
        /\ r.card = job[j].card /\ r.found = job[j].found /\ r.todo = job[j].todo
        /\ r.fill = job[j].fill
        /\ r.failed = job[j].failed /\ r.unanswered = job[j].unanswered /\ SameOrder(r, job[j])
    <3>1. PICK s \in JobState : s = job[j]
      BY <1>1, EditorTypes
    <3>2. r = [s EXCEPT !.at = "answered", !.ask = q, !.ans = u, !.queue = queue]
      BY <2>7, <3>1
    <3>3. /\ r \in JobState /\ r.at = "answered" /\ r.ask = q /\ r.ans = u /\ r.queue = queue
          /\ r.card = s.card /\ r.found = s.found /\ r.todo = s.todo /\ r.fill = s.fill
          /\ r.failed = s.failed /\ r.unanswered = s.unanswered /\ SameOrder(r, s)
      BY <2>2, <2>3, <2>6, <3>2 DEF JobState, SameOrder
    <3> QED
      BY <3>1, <3>3
  <2>9. job' = [job EXCEPT ![j] = r]
    BY <1>4, <1>6, <2>1, <2>5, <2>7 DEF Set
  <2>10. /\ Talking(r) /\ (Unasked(r) <=> Unasked(job[j]))
         /\ Unasked(r) => queue = job[j].queue
    BY <1>2, <2>4, <2>5, <2>8 DEF Talking, Unasked, Secret
  <2>11. q = "replace" => job[j].kind = "generate"
    BY <1>1, <1>2, <2>3 DEF JobInv, Asks, ReplaceAnswer
  <2>12. Progress(r, j \in changed, j \in whole)
    <3>1. ~ Starting(r)
      BY <2>8 DEF Starting
    <3>2. Unasked(r) => r.queue # <<>>
      BY <1>1, <1>3, <2>8, <2>10 DEF JobInv, Progress
    <3>3. Stage(r, j \in changed, j \in whole) /\ (j \in whole => j \in changed)
      BY <1>1, <1>3, <2>8 DEF JobInv, Progress, Stage, SameOrder
    <3>4. r.ask = "replace" => r.ans.text = r.replace /\ r.kind = "generate"
      BY <2>3, <2>8, <2>11 DEF SameOrder
    <3>5. r.ask \in Secret => r.ans.text \in Text
      BY <2>3, <2>8
    <3> QED
      BY <1>2, <1>3, <2>4, <2>8, <3>1, <3>2, <3>3, <3>4, <3>5 DEF Progress
  <2>13. Asks(r)
    BY <1>1, <1>2, <1>3, <2>8, <2>10 DEF JobInv, Asks, SameOrder
  <2>14. r.kind = "move" /\ j \in changed => r.key \in Key /\ OnCard(r.key)
    BY <1>1, <1>2, <1>3, <2>8 DEF JobInv, Asks, SameOrder
  <2> QED
    BY <1>1, <1>2, <2>8, <2>9, <2>12, <2>13, <2>14, EditorTypes, QuietStep
<1> QED
  BY <1>5, <1>6

\* The editor is through.
LEMMA QuitKeeps ==
    ASSUME CardInv, NEW j \in Job, QuitEditor(j)
    PROVE  CardInv'
<1>1. CardTypeOK /\ JobInv(j)
  BY DEF CardInv
<1>2. /\ job[j].at = "talk" /\ job[j].card # NoCard /\ job[j].todo = <<>> /\ job[j].fill = {}
      /\ UNCHANGED <<card, inserted, home, panel, sync, dlg, vault, told, event, lost, changed,
                     whole, submits, swaps>>
  BY DEF QuitEditor, token, view, hist, bounds
<1>3. /\ ~ job[j].failed /\ ~ job[j].unanswered
      /\ j \in whole \/ job[j].todo \in ToDo(job[j].kind)
  BY <1>1, <1>2 DEF JobInv, Progress, Stage, Talking
<1>4. j \in whole
  <2>1. <<>> \notin ToDo(job[j].kind)
    BY Tails DEF ToDo, MoveToDo, GenerateToDo, PinToDo
  <2> QED
    BY <1>2, <1>3, <2>1
<1>5. PICK r : r = [job[j] EXCEPT !.at = "ended"]
  OBVIOUS
<1>6. /\ r \in JobState /\ r.at = "ended" /\ ~ r.failed /\ ~ r.unanswered
      /\ r.queue = job[j].queue /\ SameOrder(r, job[j]) /\ r.fill = job[j].fill
  BY <1>1, <1>3, <1>5, EditorTypes, EndedFields
<1>7. job' = [job EXCEPT ![j] = r]
  BY <1>5 DEF QuitEditor, Set
<1> QED
  BY <1>1, <1>2, <1>4, <1>6, <1>7, EditorTypes, EndStep

-----------------------------------------------------------------------------
\* gpg has an answer: where the job is, and what comes after it.
LEMMA JobQuestion ==
    ASSUME CardTypeOK, NEW j \in Job, JobInv(j), job[j].at = "answered",
           NEW a, a = job[j].ask, NEW rest, rest = Tail(job[j].todo)
    PROVE  /\ job[j].card \in Card /\ Talking(job[j]) /\ ~ job[j].failed /\ ~ job[j].unanswered
           /\ job[j].todo # <<>> /\ a = Head(job[j].todo) /\ rest \in Seq(Prompt)
           /\ job[j].fill = {} /\ (j \in whole <=> j \in changed)
           /\ j \in changed => job[j].kind = "move" /\ a = "save" /\ rest = <<>>
           /\ a = "save" => j \in changed
           /\ a \in {"user", "admin"} =>
                IF WritesKey(j) THEN rest \in Done(job[j].kind) ELSE rest \in ToDo(job[j].kind)
           /\ a = "new" =>
                /\ job[j].kind \in {"user", "admin", "unblock"}
                /\ IF LastQuestion(j) THEN rest \in Done(job[j].kind)
                                      ELSE rest \in ToDo(job[j].kind)
           /\ a \in {"phrase", "replace"} => rest \in ToDo(job[j].kind)
           /\ rest # <<>> => Head(rest) # "replace"
<1>1. /\ job[j].card # NoCard /\ job[j].todo # <<>> /\ a = Head(job[j].todo)
      /\ ~ job[j].failed /\ ~ job[j].unanswered /\ Talking(job[j])
      /\ job[j].fill = {} /\ (j \in whole <=> j \in changed)
      /\ job[j].todo \in IF j \in changed THEN Done(job[j].kind) ELSE ToDo(job[j].kind)
  BY DEF JobInv, Progress, Stage, Talking
<1>2. job[j].card \in Card /\ job[j].kind \in Kind /\ job[j].todo \in Seq(Prompt)
  BY <1>1, EditorTypes
<1>3. rest \in Seq(Prompt)
  BY <1>1, <1>2
<1>4. PICK kind \in Kind : kind = job[j].kind
  BY <1>2
<1>5. PICK todo : todo = job[j].todo
  OBVIOUS
<1>6. CASE j \in changed
  <2>1. todo \in Done(kind)
    BY <1>1, <1>4, <1>5, <1>6
  <2>2. kind = "move" /\ a = "save" /\ rest = <<>>
    BY <1>1, <1>5, <2>1, Tails DEF Done
  <2> QED
    BY <1>1, <1>2, <1>3, <1>4, <1>6, <2>2
<1>7. CASE j \notin changed
  <2>1. todo \in ToDo(kind) /\ todo # <<>> /\ a = Head(todo) /\ rest = Tail(todo)
    BY <1>1, <1>4, <1>5, <1>7
  <2>2. /\ a # "save"
        /\ a \in {"user", "admin"} =>
             IF kind = "move" \/ (kind = "generate" /\ Len(todo) = 1)
             THEN rest \in Done(kind) ELSE rest \in ToDo(kind)
        /\ a = "new" =>
             /\ kind \in {"user", "admin", "unblock"}
             /\ IF Len(todo) = 1 THEN rest \in Done(kind) ELSE rest \in ToDo(kind)
        /\ a \in {"phrase", "replace"} => rest \in ToDo(kind)
        /\ rest # <<>> => Head(rest) # "replace"
    BY <2>1, NextQuestion
  <2>3. WritesKey(j) <=> kind = "move" \/ (kind = "generate" /\ Len(todo) = 1)
    BY <1>4, <1>5 DEF WritesKey, LastQuestion
  <2>4. LastQuestion(j) <=> Len(todo) = 1
    BY <1>5 DEF LastQuestion
  <2> QED
    BY <1>1, <1>2, <1>3, <1>4, <1>7, <2>2, <2>3, <2>4
<1> QED
  BY <1>6, <1>7

\* gpg goes on to the next question: r is the job then, rest what is left to ask.
GoesOn(j, r, rest) ==
    /\ r \in JobState /\ r.at = "talk" /\ r.todo = rest /\ SameOrder(r, job[j])
    /\ r.fill = {} /\ r.card # NoCard /\ r.found = job[j].found
    /\ Talking(r) /\ ~ Unasked(r) /\ Asks(r) /\ ~ r.failed /\ ~ r.unanswered
    /\ \A did \in BOOLEAN : rest \in (IF did THEN Done(r.kind) ELSE ToDo(r.kind))
                               => Progress(r, did, did)

LEMMA GoOn ==
    ASSUME CardTypeOK, NEW j \in Job, JobInv(j), job[j].at = "answered",
           job[j].ask = "replace" => job[j].overwrite,
           NEW rest, rest = Tail(job[j].todo), NEW r, r = Goes(j, TRUE)
    PROVE  GoesOn(j, r, rest)
<1>1. PICK a : a = job[j].ask
  OBVIOUS
<1>2. /\ job[j].card \in Card /\ Talking(job[j]) /\ ~ job[j].failed /\ ~ job[j].unanswered
      /\ job[j].todo # <<>> /\ a = Head(job[j].todo) /\ rest \in Seq(Prompt)
      /\ rest # <<>> => Head(rest) # "replace"
      /\ job[j].fill = {}
  BY <1>1, JobQuestion
<1>3. PICK s \in JobState : s = job[j]
  BY EditorTypes
<1>4. r = [s EXCEPT !.at = "talk", !.todo = rest, !.ask = "-", !.ans = NoAnswer]
  BY <1>3 DEF Goes
<1>5. NoAnswer \in [field : Prompt \cup {"-"}, text : Text \cup {"-", "y", "n"}]
  BY DEF NoAnswer
<1>6. /\ r \in JobState /\ r.at = "talk" /\ r.todo = rest /\ SameOrder(r, s)
      /\ r.card = s.card /\ r.found = s.found /\ r.queue = s.queue /\ r.fill = s.fill
      /\ r.failed = s.failed /\ r.unanswered = s.unanswered
  BY <1>2, <1>4, <1>5 DEF JobState, SameOrder
<1>7. job[j].card # NoCard
  BY <1>2 DEF Talking
<1>8. Talking(r) /\ ~ Unasked(r) /\ ~ Starting(r)
  BY <1>2, <1>3, <1>6, <1>7 DEF Talking, Unasked, Starting
<1>9. Asks(r)
  <2>1. /\ job[j].replace = ReplaceAnswer(job[j].kind, job[j].overwrite)
        /\ job[j].kind = "move" => job[j].key \in Key
        /\ job[j].kind \in {"move", "generate"} /\ ~ Unasked(job[j]) =>
             \A t \in job[j].into : job[j].found[t] = NoKey \/ job[j].overwrite
        /\ job[j].kind \in {"move", "generate"} => job[j].into # {}
    BY <1>2 DEF JobInv, Asks
  <2>2. Unasked(job[j]) => job[j].overwrite
    BY <1>1, <1>2 DEF Unasked
  <2> QED
    BY <1>3, <1>6, <2>1, <2>2 DEF Asks, SameOrder
<1>10. ASSUME NEW did \in BOOLEAN, rest \in (IF did THEN Done(r.kind) ELSE ToDo(r.kind))
       PROVE  Progress(r, did, did)
  BY <1>2, <1>3, <1>6, <1>8, <1>10 DEF Progress, Stage
<1> QED
  BY <1>2, <1>3, <1>6, <1>7, <1>8, <1>9, <1>10 DEF GoesOn

\* gpg has failed.
LEMMA GiveUpStep ==
    ASSUME CardInv, NEW j \in Job, job[j].at # "idle", j \notin whole,
           job' = [job EXCEPT ![j] = [job[j] EXCEPT !.at = "ended", !.failed = TRUE]],
           UNCHANGED <<inserted, home, panel, sync, dlg, vault, told, event, lost, changed,
                       whole, submits, swaps>>,
           \A c \in Card : card'[c].slots = card[c].slots,
           card' \in [Card -> [user : Text, admin : Text, userTries : 0..MaxTries,
                               adminTries : 0..MaxTries, slots : Keys]]
    PROVE  CardInv'
<1>1. CardTypeOK
  BY DEF CardInv
<1>2. PICK r : r = [job[j] EXCEPT !.at = "ended", !.failed = TRUE]
  OBVIOUS
<1>3. /\ r \in JobState /\ r.at = "ended" /\ r.failed /\ r.queue = job[j].queue
      /\ SameOrder(r, job[j]) /\ r.fill = job[j].fill
  BY <1>1, <1>2, EditorTypes, EndedFields
<1>4. job' = [job EXCEPT ![j] = r]
  BY <1>2
<1> QED
  BY <1>3, <1>4, EndStep

-----------------------------------------------------------------------------
\* A key is written into a slot.
LEMMA WriteKeeps ==
    ASSUME CardInv, NEW j \in Job, job[j].at = "talk", NEW s \in job[j].fill,
           NEW k \in (IF job[j].kind = "move" THEN {job[j].key} ELSE Fresh),
           WriteKey(j, job[j].card, s, k), Present(j),
           UNCHANGED <<inserted, panel, sync, dlg, vault, told, event, submits, swaps>>
    PROVE  CardInv'
<1>1. /\ CardTypeOK /\ KeysInv /\ ReportIsHonest /\ Silent /\ JobInv(j)
      /\ \A i \in Job : JobInv(i)
  BY DEF CardInv
<1>2. /\ job[j] \in JobState /\ job[j].fill \in SUBSET Slot /\ s \in Slot
      /\ job[j].card \in Card \cup {NoCard} /\ inserted \in Card \cup {NoCard}
  BY <1>1 DEF CardTypeOK, JobState
<1>3. /\ job[j].card \in Card /\ Talking(job[j]) /\ j \notin whole
      /\ job[j].todo \in Done(job[j].kind) /\ job[j].kind \in {"move", "generate"}
      /\ job[j].fill \subseteq job[j].into /\ ~ job[j].failed /\ ~ job[j].unanswered
  <2>1. ~ Starting(job[j])
    BY <1>1 DEF JobInv, Progress
  <2>2. Talking(job[j])
    BY <2>1 DEF Talking, Starting
  <2> QED
    BY <1>1, <1>2, <2>2 DEF JobInv, Progress, Stage, Talking
<1>4. /\ k \in Key /\ job[j].into # {}
      /\ job[j].found[s] = NoKey \/ job[j].overwrite
      /\ ~ Unasked(job[j])
  <2>1. ~ Unasked(job[j])
    BY <1>3, Tails DEF Unasked, Done
  <2> QED
    BY <1>1, <1>3, <2>1 DEF JobInv, Asks, Fresh
<1>5. PICK c \in Card : c = job[j].card
  BY <1>3
<1>6. PICK old : old = card[c].slots[s]
  OBVIOUS
<1>7. /\ card' = [card EXCEPT ![c].slots[s] = k]
      /\ lost' = IF old = NoKey THEN lost
                 ELSE lost \cup {[key |-> old, consent |-> job[j].overwrite,
                                  raced |-> job[j].found[s] # old]}
      /\ changed' = changed \cup {j}
      /\ whole' = IF job[j].fill = {s} THEN whole \cup {j} ELSE whole
      /\ job' = [job EXCEPT ![j] = [job[j] EXCEPT !.fill = job[j].fill \ {s}]]
      /\ \/ home' = home
         \/ home' = [i \in Key |->
                       IF home[i] = "none" /\ (i = k \/ \E t \in Slot \ {s} : card[c].slots[t] = i)
                       THEN "stub" ELSE home[i]]
  BY <1>5, <1>6 DEF WriteKey, Set
<1>8. /\ card' \in [Card -> [user : Text, admin : Text, userTries : 0..MaxTries,
                             adminTries : 0..MaxTries, slots : Keys]]
      /\ card'[c].slots[s] = k /\ \A t \in Slot \ {s} : card'[c].slots[t] = card[c].slots[t]
      /\ \A d \in Card \ {c} : card'[d].slots = card[d].slots
  <2>1. card[c].slots \in Keys
    BY <1>1 DEF CardTypeOK
  <2>2. PICK u : u = [card[c].slots EXCEPT ![s] = k]
    OBVIOUS
  <2>3. u \in Keys /\ u[s] = k /\ \A t \in Slot \ {s} : u[t] = card[c].slots[t]
    BY <1>2, <1>4, <2>1, <2>2 DEF Keys
  <2>4. PICK v : v = [card[c] EXCEPT !.slots = u]
    OBVIOUS
  <2>5. /\ v \in [user : Text, admin : Text, userTries : 0..MaxTries,
                  adminTries : 0..MaxTries, slots : Keys]
        /\ v.slots = u
    <3>1. card[c] \in [user : Text, admin : Text, userTries : 0..MaxTries,
                       adminTries : 0..MaxTries, slots : Keys]
      BY <1>1 DEF CardTypeOK
    <3> QED
      BY <2>3, <2>4, <3>1
  <2>6. card' = [card EXCEPT ![c] = v]
    BY <1>7, <2>2, <2>4
  <2> QED
    BY <1>1, <2>3, <2>5, <2>6 DEF CardTypeOK
<1>9. lost \subseteq lost' /\ (old \in Key => \E l \in lost' : l.key = old)
  <2>1. NoKey \notin Key
    BY CardAssumption
  <2>2. CASE old = NoKey
    BY <1>7, <2>1, <2>2
  <2>3. CASE old # NoKey
    <3>1. PICK l : l = [key |-> old, consent |-> job[j].overwrite,
                        raced |-> job[j].found[s] # old]
      OBVIOUS
    <3>2. l.key = old
      BY <3>1
    <3>3. lost' = lost \cup {l}
      BY <1>7, <2>3, <3>1
    <3> QED
      BY <3>2, <3>3
  <2> QED
    BY <2>2, <2>3
<1>10. KeysStay
  <2> SUFFICES ASSUME NEW i \in Key, OnCard(i) PROVE OnCard(i)'
    BY DEF KeysStay
  <2>1. CASE \E l \in lost : l.key = i
    BY <1>9, <2>1 DEF OnCard
  <2>2. ASSUME NEW d \in Card, NEW t \in Slot, card[d].slots[t] = i PROVE OnCard(i)'
    <3>1. CASE d = c /\ t = s
      BY <1>6, <1>9, <2>2, <3>1 DEF OnCard
    <3>2. CASE d # c \/ t # s
      <4>1. card'[d].slots[t] = i
        BY <1>8, <2>2, <3>2
      <4> QED
        BY <4>1 DEF OnCard
    <3> QED
      BY <3>1, <3>2
  <2> QED
    BY <2>1, <2>2 DEF OnCard
<1>11. OnCard(k)'
  BY <1>2, <1>8 DEF OnCard
<1>12. /\ home' \in [Key -> {"secret", "stub", "public", "none"}]
       /\ \A i \in Key : home'[i] \in {"stub", "public"} =>
             home[i] \in {"stub", "public"} \/ i = k \/ OnCard(i)
  <2>1. home \in [Key -> {"secret", "stub", "public", "none"}]
    BY <1>1 DEF CardTypeOK
  <2>2. CASE home' = home
    BY <2>1, <2>2
  <2>3. CASE home' = [i \in Key |->
                       IF home[i] = "none" /\ (i = k \/ \E t \in Slot \ {s} : card[c].slots[t] = i)
                       THEN "stub" ELSE home[i]]
    <3>1. \A i \in Key : home'[i] = home[i] \/ i = k \/ OnCard(i)
      BY <2>3 DEF OnCard
    <3>2. home' \in [Key -> {"secret", "stub", "public", "none"}]
      BY <2>1, <2>3
    <3> QED
      BY <3>1, <3>2
  <2> QED
    BY <1>7, <2>2, <2>3
<1>13. KeysInv'
  <2>1. \A l \in lost' : l.consent \/ l.raced
    <3>1. \A l \in lost : l.consent \/ l.raced
      BY <1>1 DEF KeysInv
    <3>2. CASE old = NoKey
      BY <1>7, <3>1, <3>2
    <3>3. CASE old # NoKey
      <4>1. PICK l : l = [key |-> old, consent |-> job[j].overwrite,
                          raced |-> job[j].found[s] # old]
        OBVIOUS
      <4>2. l.consent = job[j].overwrite /\ l.raced = (job[j].found[s] # old)
        BY <4>1
      <4>3. job[j].overwrite \/ job[j].found[s] # old
        BY <1>4, <3>3
      <4>4. lost' = lost \cup {l}
        BY <1>7, <3>3, <4>1
      <4>5. l.consent \/ l.raced
        BY <4>2, <4>3
      <4> QED
        BY <3>1, <4>4, <4>5
    <3> QED
      BY <3>2, <3>3
  <2>2. ASSUME NEW i \in Key, home'[i] \in {"stub", "public"} PROVE OnCard(i)'
    BY <1>1, <1>10, <1>11, <1>12, <2>2 DEF KeysInv, KeysStay
  <2> QED
    BY <2>1, <2>2 DEF KeysInv
<1>14. PICK r : r = [job[j] EXCEPT !.fill = job[j].fill \ {s}]
  OBVIOUS
<1>15. /\ r \in JobState /\ r.at = "talk" /\ r.fill = job[j].fill \ {s} /\ r.todo = job[j].todo
       /\ r.card = job[j].card /\ r.found = job[j].found /\ r.queue = job[j].queue
       /\ r.failed = job[j].failed /\ r.unanswered = job[j].unanswered /\ SameOrder(r, job[j])
  <2>1. PICK f \in SUBSET Slot : f = job[j].fill \ {s}
    BY <1>2
  <2>2. PICK q \in JobState : q = job[j]
    BY <1>2
  <2>3. r = [q EXCEPT !.fill = f]
    BY <1>14, <2>1, <2>2
  <2>4. /\ r \in JobState /\ r.at = q.at /\ r.fill = f /\ r.todo = q.todo
        /\ r.card = q.card /\ r.found = q.found /\ r.queue = q.queue
        /\ r.failed = q.failed /\ r.unanswered = q.unanswered /\ SameOrder(r, q)
    BY <2>3 DEF JobState, SameOrder
  <2> QED
    BY <2>1, <2>2, <2>4
<1>16. /\ job' = [job EXCEPT ![j] = r] /\ job' \in [Job -> JobState]
       /\ \A i \in Job : job'[i].at = "idle" => job'[i] = NoJob
       /\ job'[j] = r /\ \A i \in Job \ {j} : job'[i] = job[i]
  <2>1. job' = [job EXCEPT ![j] = r] /\ r.at # "idle"
    BY <1>7, <1>14, <1>15
  <2> QED
    BY <1>1, <1>15, <2>1, JobTyped
<1>17. CardTypeOK'
  <2>1. changed' \subseteq Job /\ whole' \subseteq Job
    BY <1>1, <1>7 DEF CardTypeOK
  <2> QED
    BY <1>1, <1>8, <1>12, <1>16, <2>1 DEF CardTypeOK
<1>18. told[j] = "-" /\ event[j] = NoEvent
  BY <1>1 DEF Silent
<1>19. ReportIsHonest'
  <2>1. event[j].what = "-"
    BY <1>18 DEF NoEvent
  <2> QED
    BY <1>1, <1>7, <1>18, <2>1 DEF ReportIsHonest
<1>20. Silent'
  BY <1>1, <1>16, <1>18 DEF Silent
<1>21. Progress(r, j \in changed', j \in whole')
  <2>1. j \in changed' /\ (j \in whole' <=> r.fill = {})
    BY <1>3, <1>7, <1>15
  <2>2. Talking(r) /\ ~ Unasked(r) /\ ~ Starting(r)
    BY <1>3, <1>4, <1>15 DEF Talking, Unasked, Starting
  <2>3. Stage(r, j \in changed', j \in whole')
    BY <1>3, <1>15, <2>1 DEF Stage, SameOrder
  <2>4. r.fill \subseteq r.into
    BY <1>3, <1>15 DEF SameOrder
  <2> QED
    BY <1>3, <1>15, <2>1, <2>2, <2>3, <2>4 DEF Progress
<1>22. Asks(r)
  BY <1>1, <1>3, <1>4, <1>15 DEF JobInv, Asks, Talking, Unasked, SameOrder
<1>23. \A i \in Job : JobInv(i)'
  <2>1. \A i \in Job \ {j} : (i \in changed' <=> i \in changed) /\ (i \in whole' <=> i \in whole)
    BY <1>7
  <2>2. r.kind = "move" => OnCard(r.key)'
    BY <1>11, <1>15 DEF SameOrder
  <2> QED
    BY <1>1, <1>10, <1>15, <1>16, <1>21, <1>22, <2>1, <2>2, JobStep
<1> QED
  BY <1>13, <1>17, <1>19, <1>20, <1>23 DEF CardInv

\* A step after which gpg asks the next question, and j has changed nothing new.
LEMMA GoOnStep ==
    ASSUME CardInv, NEW j \in Job, job[j].at = "answered",
           job[j].ask = "replace" => job[j].overwrite,
           Tail(job[j].todo) \in (IF j \in changed THEN Done(job[j].kind) ELSE ToDo(job[j].kind)),
           job' = [job EXCEPT ![j] = Goes(j, TRUE)],
           UNCHANGED <<inserted, panel, sync, dlg, vault, told, event, lost, changed, whole,
                       submits, swaps>>,
           \A c \in Card : card'[c].slots = card[c].slots,
           card' \in [Card -> [user : Text, admin : Text, userTries : 0..MaxTries,
                               adminTries : 0..MaxTries, slots : Keys]],
           home' \in [Key -> {"secret", "stub", "public", "none"}],
           \A k \in Key : home'[k] \in {"stub", "public"} =>
                              home[k] \in {"stub", "public"} \/ OnCard(k)
    PROVE  CardInv'
<1>1. CardTypeOK /\ JobInv(j)
  BY DEF CardInv
<1>2. PICK rest : rest = Tail(job[j].todo)
  OBVIOUS
<1>3. PICK r : r = Goes(j, TRUE)
  OBVIOUS
<1>4. /\ r \in JobState /\ r.at = "talk" /\ SameOrder(r, job[j]) /\ Asks(r)
      /\ \A did \in BOOLEAN : rest \in (IF did THEN Done(r.kind) ELSE ToDo(r.kind))
                                 => Progress(r, did, did)
  <2>1. GoesOn(j, r, rest)
    BY <1>1, <1>2, <1>3, GoOn
  <2> QED
    BY <2>1 DEF GoesOn
<1>5. Progress(r, j \in changed, j \in whole)
  <2>0. j \in whole <=> j \in changed
    BY <1>1, JobQuestion
  <2>1. CASE j \in changed
    <3>1. Progress(r, TRUE, TRUE)
      <4>1. rest \in (IF TRUE THEN Done(r.kind) ELSE ToDo(r.kind))
        BY <1>2, <1>4, <2>1 DEF SameOrder
      <4> QED
        BY <1>4, <4>1
    <3>2. (j \in changed <=> TRUE) /\ (j \in whole <=> TRUE)
      BY <2>0, <2>1
    <3> QED
      BY <3>1, <3>2 DEF Progress, Stage
  <2>2. CASE j \notin changed
    <3>1. Progress(r, FALSE, FALSE)
      <4>1. rest \in (IF FALSE THEN Done(r.kind) ELSE ToDo(r.kind))
        BY <1>2, <1>4, <2>2 DEF SameOrder
      <4> QED
        BY <1>4, <4>1
    <3>2. (j \in changed <=> FALSE) /\ (j \in whole <=> FALSE)
      BY <2>0, <2>2
    <3> QED
      BY <3>1, <3>2 DEF Progress, Stage
  <2> QED
    BY <2>1, <2>2
<1>6. r.kind = "move" /\ j \in changed => r.key \in Key /\ OnCard(r.key)
  <2>1. Talking(job[j])
    BY <1>1, JobQuestion
  <2> QED
    BY <1>1, <1>4, <2>1 DEF JobInv, Asks, SameOrder
<1>7. job' = [job EXCEPT ![j] = r]
  BY <1>3
<1> QED
  BY <1>4, <1>5, <1>6, <1>7, QuietStep

-----------------------------------------------------------------------------
\* gpg passes a PIN on to the card.
LEMMA UsePinKeeps ==
    ASSUME CardInv, NEW j \in Job, UsePin(j)
    PROVE  CardInv'
<1>1. CardTypeOK /\ JobInv(j)
  BY DEF CardInv
<1>2. /\ job[j].at = "answered" /\ job[j].ask \in {"user", "admin"}
      /\ UNCHANGED <<inserted, home, panel, sync, dlg, vault, told, event, lost, changed,
                     whole, submits, swaps>>
  BY DEF UsePin, Answered, view, hist, bounds
<1>3. PICK c : c = job[j].card
  OBVIOUS
<1>4. PICK a : a = job[j].ask
  OBVIOUS
<1>5. PICK rest : rest = Tail(job[j].todo)
  OBVIOUS
<1>6. /\ c \in Card /\ j \notin changed /\ j \notin whole
      /\ IF WritesKey(j) THEN rest \in Done(job[j].kind) ELSE rest \in ToDo(job[j].kind)
  BY <1>1, <1>2, <1>3, <1>4, <1>5, JobQuestion
<1>7. PICK t : t = Tried(c, job[j].ask, job[j].ans.text)
  OBVIOUS
<1>8. /\ t \in [user : Text, admin : Text, userTries : 0..MaxTries,
                adminTries : 0..MaxTries, slots : Keys]
      /\ t.slots = card[c].slots
  BY <1>1, <1>6, <1>7, TriedKeeps
<1>9. card' = IF Present(j) THEN [card EXCEPT ![c] = t] ELSE card
  BY <1>3, <1>7 DEF UsePin
<1>10. /\ card' \in [Card -> [user : Text, admin : Text, userTries : 0..MaxTries,
                              adminTries : 0..MaxTries, slots : Keys]]
       /\ \A d \in Card : card'[d].slots = card[d].slots
       /\ home' \in [Key -> {"secret", "stub", "public", "none"}]
  BY <1>1, <1>2, <1>6, <1>8, <1>9 DEF CardTypeOK
<1>11. CASE Present(j) /\ PinOk(c, job[j].ask, job[j].ans.text) /\ WritesKey(j)
  <2>1. PICK g : g = Goes(j, TRUE)
    OBVIOUS
  <2>2. PICK into \in SUBSET Slot : into = job[j].into
    BY <1>1, EditorTypes DEF JobState
  <2>3. PICK r : r = [g EXCEPT !.fill = into]
    OBVIOUS
  <2>4. job' = [job EXCEPT ![j] = r]
    BY <1>3, <1>11, <2>1, <2>2, <2>3 DEF UsePin, Set
  <2>5. GoesOn(j, g, rest)
    BY <1>1, <1>2, <1>5, <2>1, GoOn
  <2>6. /\ g \in JobState /\ g.at = "talk" /\ g.todo = rest /\ SameOrder(g, job[j])
        /\ g.card # NoCard /\ ~ g.failed /\ ~ g.unanswered /\ Talking(g) /\ ~ Unasked(g) /\ Asks(g)
    BY <2>5 DEF GoesOn
  <2>7. /\ r \in JobState /\ r.at = g.at /\ r.todo = g.todo /\ r.fill = into /\ r.card = g.card
        /\ r.found = g.found /\ r.queue = g.queue /\ r.failed = g.failed
        /\ r.unanswered = g.unanswered /\ SameOrder(r, g)
    BY <2>3, <2>6 DEF JobState, SameOrder
  <2>8. Talking(r) /\ ~ Unasked(r) /\ ~ Starting(r)
    BY <2>6, <2>7 DEF Talking, Unasked, Starting
  <2>9. Asks(r)
    BY <2>6, <2>7, <2>8 DEF Asks, SameOrder
  <2>10. /\ r.kind \in {"move", "generate"} /\ r.into # {} /\ r.fill = r.into
         /\ r.todo \in Done(r.kind)
    <3>1. r.kind = job[j].kind /\ r.into = into
      BY <2>2, <2>6, <2>7 DEF SameOrder
    <3>2. r.kind \in {"move", "generate"}
      BY <1>11, <3>1 DEF WritesKey
    <3> QED
      BY <1>6, <1>11, <2>6, <2>7, <2>9, <3>1, <3>2 DEF Asks
  <2>11. Progress(r, j \in changed, j \in whole)
    <3>1. Stage(r, j \in changed, j \in whole)
      BY <1>6, <2>7, <2>8, <2>10 DEF Stage
    <3> QED
      BY <1>6, <2>6, <2>7, <2>8, <2>10, <3>1 DEF Progress
  <2>12. r.at # "idle"
    BY <2>6, <2>7
  <2> QED
    BY <1>2, <1>6, <1>10, <2>4, <2>7, <2>9, <2>11, <2>12, QuietStep
<1>12. CASE Present(j) /\ PinOk(c, job[j].ask, job[j].ans.text) /\ ~ WritesKey(j)
  <2>1. job' = [job EXCEPT ![j] = Goes(j, TRUE)]
    BY <1>3, <1>12 DEF UsePin, Set, Goes
  <2>2. Tail(job[j].todo) \in (IF j \in changed THEN Done(job[j].kind) ELSE ToDo(job[j].kind))
    BY <1>5, <1>6, <1>12
  <2> QED
    BY <1>2, <1>10, <2>1, <2>2, GoOnStep
<1>13. CASE ~ (Present(j) /\ PinOk(c, job[j].ask, job[j].ans.text))
  <2>1. job' = [job EXCEPT ![j] = [job[j] EXCEPT !.at = "ended", !.failed = TRUE]]
    BY <1>3, <1>13 DEF UsePin, Set, Goes
  <2> QED
    BY <1>2, <1>6, <1>10, <2>1, GiveUpStep
<1> QED
  BY <1>11, <1>12, <1>13

\* The slots are filled, one after the other.
LEMMA WriteSlotKeeps ==
    ASSUME CardInv, NEW j \in Job, WriteSlot(j)
    PROVE  CardInv'
<1>1. /\ job[j].at = "talk" /\ job[j].fill # {}
      /\ UNCHANGED <<inserted, panel, sync, dlg, vault, told, event, submits, swaps>>
  BY DEF WriteSlot, view, bounds
<1>2. ASSUME Present(j), NEW s \in job[j].fill,
             NEW k \in (IF job[j].kind = "move" THEN {job[j].key} ELSE Fresh),
             WriteKey(j, job[j].card, s, k)
      PROVE  CardInv'
  BY <1>1, <1>2, WriteKeeps
<1>3. CASE /\ Set(j, [job[j] EXCEPT !.at = "ended", !.failed = TRUE])
           /\ UNCHANGED <<card, home, lost, changed, whole>>
  <2>1. CardTypeOK /\ JobInv(j)
    BY DEF CardInv
  <2>2. j \notin whole
    <3>1. ~ Starting(job[j])
      BY <1>1, <2>1 DEF JobInv, Progress
    <3>2. Talking(job[j])
      BY <1>1, <3>1 DEF Talking, Starting
    <3> QED
      BY <1>1, <2>1, <3>2 DEF JobInv, Progress, Stage
  <2>3. job' = [job EXCEPT ![j] = [job[j] EXCEPT !.at = "ended", !.failed = TRUE]]
    BY <1>3 DEF Set
  <2>4. card \in [Card -> [user : Text, admin : Text, userTries : 0..MaxTries,
                          adminTries : 0..MaxTries, slots : Keys]]
    BY <2>1 DEF CardTypeOK
  <2> QED
    BY <1>1, <1>3, <2>2, <2>3, <2>4, GiveUpStep
<1> QED
  BY <1>2, <1>3 DEF WriteSlot

\* The new PIN, and its repetition.
LEMMA UseNewPinKeeps ==
    ASSUME CardInv, NEW j \in Job, UseNewPin(j)
    PROVE  CardInv'
<1>1. CardTypeOK /\ JobInv(j) /\ ReportIsHonest /\ Silent
  BY DEF CardInv
<1>2. /\ job[j].at = "answered" /\ job[j].ask = "new"
      /\ UNCHANGED <<inserted, home, panel, sync, dlg, vault, told, event, lost, submits, swaps>>
  BY DEF UseNewPin, Answered, view, bounds
<1>3. PICK a : a = job[j].ask
  OBVIOUS
<1>4. PICK rest : rest = Tail(job[j].todo)
  OBVIOUS
<1>5. /\ job[j].card \in Card /\ j \notin changed /\ j \notin whole
      /\ job[j].kind \in {"user", "admin", "unblock"}
      /\ IF LastQuestion(j) THEN rest \in Done(job[j].kind) ELSE rest \in ToDo(job[j].kind)
  BY <1>1, <1>2, <1>3, <1>4, JobQuestion
<1>6. /\ card \in [Card -> [user : Text, admin : Text, userTries : 0..MaxTries,
                            adminTries : 0..MaxTries, slots : Keys]]
      /\ home \in [Key -> {"secret", "stub", "public", "none"}]
  BY <1>1, EditorTypes
<1>7. CASE ~ Present(j)
  <2>1. /\ job' = [job EXCEPT ![j] = [job[j] EXCEPT !.at = "ended", !.failed = TRUE]]
        /\ UNCHANGED <<card, changed, whole>>
    BY <1>7 DEF UseNewPin, Set, Goes
  <2> QED
    BY <1>2, <1>5, <1>6, <2>1, GiveUpStep
<1>8. CASE Present(j) /\ ~ LastQuestion(j)
  <2>1. job' = [job EXCEPT ![j] = Goes(j, TRUE)] /\ UNCHANGED <<card, changed, whole>>
    BY <1>8 DEF UseNewPin, Set, Goes
  <2>2. Tail(job[j].todo) \in (IF j \in changed THEN Done(job[j].kind) ELSE ToDo(job[j].kind))
    BY <1>4, <1>5, <1>8
  <2> QED
    BY <1>2, <1>6, <2>1, <2>2, GoOnStep
<1>9. CASE Present(j) /\ LastQuestion(j)
  <2>1. PICK c \in Card : c = inserted
    BY <1>5, <1>9 DEF Present
  <2>2. PICK new : new = job[j].ans.text
    OBVIOUS
  <2>3. PICK r : r = Goes(j, TRUE)
    OBVIOUS
  <2>4. /\ job' = [job EXCEPT ![j] = r]
        /\ changed' = changed \cup {j} /\ whole' = whole \cup {j}
        /\ card' = [card EXCEPT ![c] =
                      CASE job[j].kind = "admin"   -> [@ EXCEPT !.admin = new]
                        [] job[j].kind = "user"    -> [@ EXCEPT !.user = new]
                        [] job[j].kind = "unblock" -> [@ EXCEPT !.user = new, !.userTries = MaxTries]]
    BY <1>9, <2>1, <2>2, <2>3 DEF UseNewPin, Set, Goes
  <2>5. /\ r \in JobState /\ r.at = "talk" /\ SameOrder(r, job[j]) /\ Asks(r)
        /\ \A did \in BOOLEAN : rest \in (IF did THEN Done(r.kind) ELSE ToDo(r.kind))
                                   => Progress(r, did, did)
    <3>1. GoesOn(j, r, rest)
      BY <1>1, <1>2, <1>4, <2>3, GoOn
    <3> QED
      BY <3>1 DEF GoesOn
  <2>6. new \in Text
    BY <1>1, <1>2, <2>2 DEF JobInv, Progress, Secret
  <2>7. /\ card' \in [Card -> [user : Text, admin : Text, userTries : 0..MaxTries,
                               adminTries : 0..MaxTries, slots : Keys]]
        /\ \A d \in Card : card'[d].slots = card[d].slots
    <3>1. MaxTries \in 0..MaxTries
      BY CardAssumption
    <3>2. CASE job[j].kind = "admin"
      BY <1>6, <2>4, <2>6, <3>2
    <3>3. CASE job[j].kind = "user"
      BY <1>6, <2>4, <2>6, <3>3
    <3>4. CASE job[j].kind = "unblock"
      BY <1>6, <2>4, <2>6, <3>1, <3>4
    <3> QED
      BY <1>5, <3>2, <3>3, <3>4
  <2>8. /\ job' \in [Job -> JobState]
        /\ \A i \in Job : job'[i].at = "idle" => job'[i] = NoJob
        /\ job'[j] = r /\ \A i \in Job \ {j} : job'[i] = job[i]
    BY <1>1, <2>4, <2>5, JobTyped
  <2>9. CardTypeOK'
    <3>1. changed' \subseteq Job /\ whole' \subseteq Job
      BY <1>1, <2>4 DEF CardTypeOK
    <3> QED
      BY <1>1, <1>2, <2>7, <2>8, <3>1 DEF CardTypeOK
  <2>10. ReportIsHonest'
    <3>1. event[j].what = "-" /\ told[j] = "-"
      BY <1>1, <1>2 DEF Silent, NoEvent
    <3> QED
      BY <1>1, <1>2, <2>4, <3>1 DEF ReportIsHonest
  <2>11. Progress(r, j \in changed', j \in whole')
    <3>1. Progress(r, TRUE, TRUE)
      <4>1. rest \in (IF TRUE THEN Done(r.kind) ELSE ToDo(r.kind))
        BY <1>5, <1>9, <2>5 DEF SameOrder
      <4> QED
        BY <2>5, <4>1
    <3>2. (j \in changed' <=> TRUE) /\ (j \in whole' <=> TRUE)
      BY <2>4
    <3> QED
      BY <3>1, <3>2 DEF Progress, Stage
  <2>12. /\ r.kind # "move" /\ event'[j] = NoEvent /\ event' = event
         /\ told'[j] = "-" /\ told' = told
         /\ \A i \in Job \ {j} : (i \in changed' <=> i \in changed) /\ (i \in whole' <=> i \in whole)
    BY <1>1, <1>2, <1>5, <2>4, <2>5 DEF SameOrder, Silent
  <2> QED
    BY <1>2, <2>4, <2>5, <2>7, <2>9, <2>10, <2>11, <2>12, WorkStep
<1> QED
  BY <1>7, <1>8, <1>9

\* The passphrase, a yes or no, and the saving of a moved key.
LEMMA UseOtherKeeps ==
    ASSUME CardInv, NEW j \in Job, UseOther(j)
    PROVE  CardInv'
<1>1. CardTypeOK /\ JobInv(j)
  BY DEF CardInv
<1>2. /\ job[j].at = "answered" /\ job[j].ask \in {"phrase", "replace", "save"}
      /\ home' = IF job[j].ask = "save" THEN [home EXCEPT ![job[j].key] = "stub"] ELSE home
      /\ UNCHANGED <<card, inserted, panel, sync, dlg, vault, told, event, lost, changed,
                     whole, submits, swaps>>
  BY DEF UseOther, Answered, view, hist, bounds
<1>3. PICK a : a = job[j].ask
  OBVIOUS
<1>4. PICK rest : rest = Tail(job[j].todo)
  OBVIOUS
<1>5. /\ Talking(job[j]) /\ job[j].todo # <<>> /\ a = Head(job[j].todo)
      /\ ~ job[j].failed /\ ~ job[j].unanswered /\ (j \in whole <=> j \in changed)
      /\ j \in changed => job[j].kind = "move" /\ a = "save" /\ rest = <<>>
      /\ a = "save" => j \in changed
      /\ a \in {"phrase", "replace"} => rest \in ToDo(job[j].kind)
  BY <1>1, <1>2, <1>3, <1>4, JobQuestion
<1>6. /\ card \in [Card -> [user : Text, admin : Text, userTries : 0..MaxTries,
                            adminTries : 0..MaxTries, slots : Keys]]
      /\ home \in [Key -> {"secret", "stub", "public", "none"}]
      /\ job[j] \in JobState
  BY <1>1, EditorTypes
<1>7. CASE job[j].ask = "save"
  <2>1. job' = [job EXCEPT ![j] = Goes(j, TRUE)]
    BY <1>7 DEF UseOther, Set, Goes
  <2>2. Tail(job[j].todo) \in (IF j \in changed THEN Done(job[j].kind) ELSE ToDo(job[j].kind))
    BY <1>3, <1>4, <1>5, <1>7 DEF Done
  <2>3. job[j].key \in Key /\ OnCard(job[j].key)
    BY <1>1, <1>2, <1>3, <1>5, <1>7 DEF JobInv, Asks
  <2>4. PICK k \in Key : k = job[j].key /\ OnCard(k)
    BY <2>3
  <2>5. home' = [home EXCEPT ![k] = "stub"]
    BY <1>2, <1>7, <2>4
  <2>6. /\ home' \in [Key -> {"secret", "stub", "public", "none"}]
        /\ \A i \in Key : home'[i] \in {"stub", "public"} =>
                              home[i] \in {"stub", "public"} \/ OnCard(i)
    BY <1>6, <2>4, <2>5
  <2> QED
    BY <1>2, <1>6, <1>7, <2>1, <2>2, <2>6, GoOnStep
<1>8. CASE job[j].ask = "phrase" /\ job[j].ans.text = Passphrase
  <2>1. job' = [job EXCEPT ![j] = Goes(j, TRUE)] /\ home' = home
    BY <1>2, <1>8 DEF UseOther, Set, Goes
  <2>2. Tail(job[j].todo) \in (IF j \in changed THEN Done(job[j].kind) ELSE ToDo(job[j].kind))
    BY <1>3, <1>4, <1>5, <1>8
  <2> QED
    BY <1>2, <1>6, <1>8, <2>1, <2>2, GoOnStep
<1>9. CASE job[j].ask = "phrase" /\ job[j].ans.text # Passphrase
  <2>1. /\ job' = [job EXCEPT ![j] = [job[j] EXCEPT !.at = "ended", !.failed = TRUE]]
        /\ home' = home
    BY <1>2, <1>9 DEF UseOther, Set, Goes
  <2>2. j \notin whole
    BY <1>3, <1>5, <1>9
  <2> QED
    BY <1>2, <1>6, <2>1, <2>2, GiveUpStep
<1>10. CASE job[j].ask = "replace" /\ job[j].ans.text = "n"
  <2>1. PICK r : r = [job[j] EXCEPT !.at = "ended"]
    OBVIOUS
  <2>2. /\ r \in JobState /\ r.at = "ended" /\ ~ r.failed /\ ~ r.unanswered
        /\ r.queue = job[j].queue /\ SameOrder(r, job[j]) /\ r.fill = job[j].fill
    BY <1>5, <1>6, <2>1, EndedFields
  <2>3. job' = [job EXCEPT ![j] = r] /\ home' = home
    BY <1>2, <1>10, <2>1 DEF UseOther, Set
  <2>4. r.queue # <<>>
    <3>1. Unasked(job[j])
      BY <1>3, <1>5, <1>10 DEF Unasked
    <3> QED
      BY <1>1, <1>5, <2>2, <3>1 DEF JobInv, Progress
  <2> QED
    BY <1>2, <1>6, <2>2, <2>3, <2>4, EndStep
<1>11. CASE job[j].ask = "replace" /\ job[j].ans.text # "n"
  <2>1. job' = [job EXCEPT ![j] = Goes(j, TRUE)] /\ home' = home
    BY <1>2, <1>11 DEF UseOther, Set, Goes
  <2>2. Tail(job[j].todo) \in (IF j \in changed THEN Done(job[j].kind) ELSE ToDo(job[j].kind))
    BY <1>3, <1>4, <1>5, <1>11
  <2>3. job[j].overwrite
    <3>1. job[j].ans.text = job[j].replace /\ job[j].kind = "generate"
      BY <1>1, <1>2, <1>11 DEF JobInv, Progress
    <3>2. job[j].replace = ReplaceAnswer(job[j].kind, job[j].overwrite)
      BY <1>1, <1>2 DEF JobInv, Asks
    <3> QED
      BY <1>11, <3>1, <3>2 DEF ReplaceAnswer
  <2> QED
    BY <1>2, <1>6, <2>1, <2>2, <2>3, GoOnStep
<1> QED
  BY <1>2, <1>7, <1>8, <1>9, <1>10, <1>11

-----------------------------------------------------------------------------
\* Before anything happens every key is on disk, on a card, or does not exist.
LEMMA CardInitially ==
    ASSUME CardInit
    PROVE  CardInv
<1>1. /\ card = [c \in Card |-> [user |-> UserPin, admin |-> AdminPin, userTries |-> MaxTries,
                                 adminTries |-> MaxTries, slots |-> Held[c]]]
      /\ inserted \in Card
      /\ home = [k \in Key |-> IF k \in Local THEN "secret"
                               ELSE IF \E c \in Card, s \in Slot : Held[c][s] = k THEN "public"
                               ELSE "none"]
      /\ panel = NoInfo /\ sync = [s \in Sync |-> [at |-> "idle", card |-> NoInfo]]
      /\ dlg = NoDlg /\ job = [j \in Job |-> NoJob] /\ vault = Closed
      /\ told = [j \in Job |-> "-"] /\ event = [j \in Job |-> NoEvent]
      /\ lost = {} /\ changed = {} /\ whole = {} /\ submits = 0 /\ swaps = 0
  BY DEF CardInit
<1>2. /\ MaxTries \in 0..MaxTries /\ Held \in [Card -> Keys]
      /\ 0 \in 0..MaxSubmits /\ 0 \in 0..MaxSwaps
  BY CardAssumption DEF Keys
<1>3. card \in [Card -> [user : Text, admin : Text, userTries : 0..MaxTries,
                         adminTries : 0..MaxTries, slots : Keys]]
  BY <1>1, <1>2 DEF Text
<1>4. home \in [Key -> {"secret", "stub", "public", "none"}]
  BY <1>1
<1>5. sync \in [Sync -> [at : {"idle", "probe", "deliver"}, card : CardInfo \cup {NoInfo}]]
  BY <1>1
<1>6. dlg \in [kind : {"-", "pin", "move", "generate"}, card : CardInfo \cup {NoInfo},
               keys : SUBSET Key, busy : SUBSET Job]
  BY <1>1 DEF NoDlg
<1>7. job \in [Job -> JobState] /\ \A j \in Job : job[j] = NoJob
  BY <1>1, NoJobTyped
<1>8. vault \in [at : {"idle", "open"}, pin : Text, todo : Seq(Key)]
  BY <1>1 DEF Closed, Text
<1>9. /\ told \in [Job -> {"-", "ok", "failed", "unexpected_prompt", "refused", "timeout"}]
      /\ \A j \in Job : told[j] = "-"
      /\ event \in [Job -> [what : {"-", "ok", "failed", "unexpected_prompt"}, unused : Nat]]
      /\ \A j \in Job : event[j].what = "-" /\ event[j] = NoEvent
  BY <1>1 DEF NoEvent
<1>10. CardTypeOK
  BY <1>1, <1>2, <1>3, <1>4, <1>5, <1>6, <1>7, <1>8, <1>9 DEF CardTypeOK
<1>11. KeysInv
  BY <1>1 DEF KeysInv, OnCard
<1>13. ReportIsHonest /\ Silent
  BY <1>1, <1>9 DEF ReportIsHonest, Silent
<1>14. ASSUME NEW j \in Job PROVE JobInv(j)
  <2>1. PICK r : r = job[j]
    OBVIOUS
  <2>2. r = NoJob
    BY <1>7, <2>1
  <2>3. /\ r.at = "idle" /\ r.kind = "user" /\ ~ r.failed /\ ~ r.unanswered
    BY <2>2, NoJobTyped
  <2>4. Progress(r, j \in changed, j \in whole) /\ Asks(r)
    BY <1>1, <2>2, NoJobTyped DEF Progress, Asks, Starting, Talking
  <2> QED
    BY <2>1, <2>3, <2>4 DEF JobInv
<1> QED
  BY <1>10, <1>11, <1>13, <1>14 DEF CardInv

\* No step breaks the invariant.
LEMMA CardStep ==
    ASSUME CardInv, [CardNext]_cardVars
    PROVE  CardInv'
<1>1. CASE Swap \/ Panel \/ Syncs
  BY <1>1, LookingKeeps
<1>2. CASE Vault
  BY <1>2, OpeningKeeps
<1>3. ASSUME NEW j \in Job, User(j) PROVE CardInv'
  BY <1>3, UserKeeps
<1>4. ASSUME NEW j \in Job, Worker(j) PROVE CardInv'
  BY <1>4, CheckKeeps, TimeoutKeeps, ConcludeKeeps DEF Worker
<1>5. ASSUME NEW j \in Job, Editor(j) PROVE CardInv'
  BY <1>5, StartEditorKeeps, AnswerKeeps, UsePinKeeps, WriteSlotKeeps, UseNewPinKeeps,
     UseOtherKeeps, QuitKeeps DEF Editor
<1>6. CASE UNCHANGED cardVars
  <2>1. UNCHANGED <<card, inserted, home, panel, sync, dlg, job, vault, told, event, lost, changed, whole, submits, swaps>>
    BY <1>6 DEF cardVars
  <2>2. CardTypeOK /\ CardTypeOK'
    BY <2>1 DEF CardInv, CardTypeOK
  <2> QED
    BY <2>1, <2>2, ViewStep
<1> QED
  BY <1>1, <1>2, <1>3, <1>4, <1>5, <1>6 DEF CardNext

\* The invariant holds all along.
THEOREM CardInvariance == CardSpec => []CardInv
<1>1. CardInit => CardInv
  BY CardInitially
<1>2. CardInv /\ [CardNext]_cardVars => CardInv'
  BY CardStep
<1> QED
  BY <1>1, <1>2, PTL DEF CardSpec

\* The private half of a key is on disk or on a card, unless it was overwritten
\* by an operation for which REPLACE had been typed, or by one that ran while
\* another put the key there: of whatever card the panel showed, and whenever a
\* card was exchanged.
THEOREM NoKeyIsLostUnasked == CardSpec => []NoKeyVanishes
<1>1. CardInv => NoKeyVanishes
  <2> SUFFICES ASSUME CardInv PROVE NoKeyVanishes
    OBVIOUS
  <2>1. CardTypeOK /\ KeysInv
    BY DEF CardInv
  <2>2. ASSUME NEW k \in Key \ Fresh, home[k] # "secret" PROVE OnCard(k)
    <3>1. home[k] \in {"secret", "stub", "public", "none"}
      BY <2>1 DEF CardTypeOK
    <3>2. CASE home[k] = "none"
      BY <2>2, <3>2 DEF Fresh, OnCard, OnIt
    <3>3. CASE home[k] \in {"stub", "public"}
      BY <2>1, <3>3 DEF KeysInv
    <3> QED
      BY <2>2, <3>1, <3>2, <3>3
  <2> QED
    BY <2>1, <2>2 DEF NoKeyVanishes, KeysInv, OnCard, OnIt
<1> QED
  BY <1>1, CardInvariance, PTL

\* An "ok" in the audit log with no answer left over stands for the whole change,
\* every slot of a generation included; a failure is shown only for a change that
\* is not whole, and "refused" only for a card that was left alone: of whatever
\* cards are exchanged, whatever order gpg asks in and whichever slot fails.
THEOREM ReportsAreHonest == CardSpec => []ReportIsHonest
<1>1. CardInv => ReportIsHonest
  BY DEF CardInv
<1> QED
  BY <1>1, CardInvariance, PTL

=============================================================================
