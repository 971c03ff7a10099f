------------------------- MODULE AtomicWriteProofs --------------------------
(***************************************************************************)
(* Proofs about AtomicWrite for any number of writers, on both platforms.  *)
(***************************************************************************)
EXTENDS AtomicWrite, TLAPS

\* The target's name has referred to the file.
Entered(f) == \E i \in 1..Len(entries) : entries[i] = f

\* Only a call that has come through os.replace() has entered its file, and one
\* that is about to fsync the directory has.
EnteredByReplace ==
    \A w \in Writer :
        /\ Entered(w) => pc[w] \in {"dirsync", "ok", "dead"}
        /\ pc[w] = "dirsync" => Entered(w)

\* What the name has referred to is complete and was fsynced before.
WholeAndSynced ==
    \A i \in 1..Len(entries) :
        content[entries[i]] = "full" /\ entries[i] \in synced

\* The order of flush(), fsync() and os.replace() in __exit__.
SyncedBeforeReplace ==
    \A w \in Writer :
        /\ pc[w] \in {"sync", "replace"} => content[w] = "full"
        /\ pc[w] = "replace" => w \in synced

\* A temporary file that was not left behind belongs to a call that still runs.
TempLife == \A w \in tmp \ cutOff : pc[w] \in Running \ {"dirsync"}

\* The inductive invariant.
IInv == /\ TypeOK
        /\ EnteredByReplace
        /\ WholeAndSynced
        /\ SyncedBeforeReplace
        /\ TempLife
        /\ ConfirmedSurvives

-----------------------------------------------------------------------------
\* The invariant holds before the first call.
LEMMA InitIInv == Init => IInv
<1> SUFFICES ASSUME Init PROVE IInv
  OBVIOUS
<1> USE OldAssumption DEF Init, File, Content, Running, Ended
<1>1. entries \in Seq(File) /\ Len(entries) = 1 /\ entries[1] = Old
  OBVIOUS
<1>2. TypeOK
  BY <1>1 DEF TypeOK
<1>3. EnteredByReplace /\ WholeAndSynced
  <2>1. \A i \in 1..Len(entries) : entries[i] = Old
    BY <1>1
  <2>2. QED
    BY <2>1 DEF EnteredByReplace, Entered, WholeAndSynced
<1>4. QED
  BY <1>2, <1>3 DEF IInv, SyncedBeforeReplace, TempLife, ConfirmedSurvives

\* Every system call, the death of a process and a power loss preserve it.
LEMMA StepIInv == IInv /\ [Next]_vars => IInv'
<1> SUFFICES ASSUME IInv, [Next]_vars PROVE IInv'
  OBVIOUS
<1> USE OldAssumption
    DEF IInv, TypeOK, EnteredByReplace, Entered, WholeAndSynced,
        SyncedBeforeReplace, TempLife, ConfirmedSurvives, File, Content,
        Running, Ended, Goto
<1>1. ASSUME NEW w \in Writer, Enter(w) PROVE IInv'
  BY <1>1 DEF Enter
<1>2. ASSUME NEW w \in Writer, Write(w) PROVE IInv'
  BY <1>2 DEF Write
<1>3. ASSUME NEW w \in Writer, Flush(w) PROVE IInv'
  BY <1>3 DEF Flush
<1>4. ASSUME NEW w \in Writer, Sync(w) PROVE IInv'
  BY <1>4 DEF Sync
<1>5. ASSUME NEW w \in Writer, Replace(w) PROVE IInv'
  BY <1>5 DEF Replace
<1>6. ASSUME NEW w \in Writer, Raise(w) PROVE IInv'
  BY <1>6 DEF Raise
<1>7. ASSUME NEW w \in Writer, DirSync(w) PROVE IInv'
  BY <1>7 DEF DirSync
<1>8. ASSUME NEW w \in Writer, Cleanup(w) PROVE IInv'
  BY <1>8 DEF Cleanup
<1>9. ASSUME NEW w \in Writer, Die(w) PROVE IInv'
  BY <1>9 DEF Die
<1>10. ASSUME PowerLoss PROVE IInv'
  <2>1. PICK n \in onDisk..Len(entries) :
           entries' = SubSeq(entries, 1, n) /\ onDisk' = n
    BY <1>10 DEF PowerLoss
  <2>2. /\ entries' \in Seq(File)
        /\ Len(entries') = n
        /\ \A i \in 1..n : entries'[i] = entries[i]
    BY <2>1
  <2>3. PICK T \in SUBSET {w \in Writer : pc[w] # "start"} :
           tmp' = T /\ cutOff' = cutOff \cup T
    BY <1>10 DEF PowerLoss
  <2>4. TypeOK'
    <3>1. entries' # <<>> /\ onDisk' \in 1..Len(entries')
      BY <2>1, <2>2
    <3>2. pc' \in [Writer -> {"start"} \cup Running \cup Ended]
      BY <1>10 DEF PowerLoss
    <3>3. \A w \in Writer : pc'[w] \notin {"write", "sync", "replace"}
      BY <1>10 DEF PowerLoss
    <3>4. QED
      BY <1>10, <2>2, <2>3, <3>1, <3>2, <3>3 DEF PowerLoss
  <2>5. EnteredByReplace'
    BY <1>10, <2>1, <2>2 DEF PowerLoss
  <2>6. WholeAndSynced'
    BY <1>10, <2>1, <2>2 DEF PowerLoss
  <2>7. SyncedBeforeReplace' /\ TempLife'
    BY <1>10, <2>3 DEF PowerLoss
  <2>8. ConfirmedSurvives'
    BY <1>10, <2>1, <2>2 DEF PowerLoss
  <2>9. QED
    BY <2>4, <2>5, <2>6, <2>7, <2>8
<1>11. CASE UNCHANGED vars
  BY <1>11 DEF vars
<1>12. QED
  BY <1>1, <1>2, <1>3, <1>4, <1>5, <1>6, <1>7, <1>8, <1>9, <1>10, <1>11
  DEF Next

\* The inductive invariant holds in every behaviour.
LEMMA Invariance == Spec => []IInv
  BY InitIInv, StepIInv, PTL DEF Spec

-----------------------------------------------------------------------------
\* "On any failure, the tmp file is removed and nothing replaces `path'", for
\* any number of concurrent calls, deaths and power losses.
THEOREM NothingReplacedOnFailure == Spec => []FailureLeavesNothing
<1>1. IInv => FailureLeavesNothing
  BY DEF IInv, TypeOK, EnteredByReplace, Entered, TempLife,
         FailureLeavesNothing
<1>2. QED
  BY <1>1, Invariance, PTL

\* A write whose directory fsync went through is never lost to a power loss.
THEOREM SyncedWriteSurvives == Spec => []ConfirmedSurvives
<1>1. IInv => ConfirmedSurvives
  BY DEF IInv
<1>2. QED
  BY <1>1, Invariance, PTL

-----------------------------------------------------------------------------
\* What readers of the target have seen: the abstract register's log.
Log == [i \in 1..Len(entries) |-> <<entries[i], content[entries[i]]>>]

\* Every step is a step of the durable register or changes neither what readers
\* see nor what is confirmed.
LEMMA StepSimulation ==
  IInv /\ IInv' /\ [Next]_vars => [Abstract!Next]_(Abstract!rvars)
<1> SUFFICES ASSUME IInv, IInv', [Next]_vars
             PROVE  Abstract!Next \/ UNCHANGED <<Log, onDisk>>
  BY DEF Abstract!rvars, Log
<1> USE OldAssumption
    DEF IInv, TypeOK, EnteredByReplace, Entered, WholeAndSynced, File,
        Running, Goto
<1>1. Len(entries) \in Nat /\ Len(entries') \in Nat
  OBVIOUS
<1>2. ASSUME NEW w \in Writer, Enter(w) \/ Write(w) \/ Flush(w)
      PROVE  UNCHANGED <<Log, onDisk>>
  <2>1. \A i \in 1..Len(entries) : content'[entries[i]] = content[entries[i]]
    BY <1>2 DEF Enter, Write, Flush, Content
  <2>2. entries' = entries /\ onDisk' = onDisk
    BY <1>2 DEF Enter, Write, Flush
  <2>3. QED
    BY <2>1, <2>2 DEF Log
<1>3. ASSUME NEW w \in Writer, Sync(w) \/ Raise(w) \/ Cleanup(w) \/ Die(w)
      PROVE  UNCHANGED <<Log, onDisk>>
  BY <1>3 DEF Sync, Raise, Cleanup, Die, Log
<1>4. ASSUME NEW w \in Writer, Replace(w) PROVE Abstract!Next
  <2>1. /\ Len(entries') = Len(entries) + 1
        /\ \A i \in 1..Len(entries) : entries'[i] = entries[i]
        /\ entries'[Len(entries) + 1] = w
    BY <1>4 DEF Replace
  <2>2. content' = content /\ onDisk' = onDisk
    BY <1>4 DEF Replace
  <2>3. content[w] = "full"
    BY <1>4 DEF Replace, SyncedBeforeReplace
  <2>4. Log' = Append(Log, <<w, "full">>)
    BY <1>1, <2>1, <2>2, <2>3 DEF Log
  <2>5. <<w, "full">> \in {<<f, "full">> : f \in File}
    OBVIOUS
  <2>6. QED
    BY <2>2, <2>4, <2>5 DEF Abstract!Next, Abstract!Write, Log
<1>5. ASSUME NEW w \in Writer, DirSync(w)
      PROVE  Abstract!Next \/ UNCHANGED <<Log, onDisk>>
  <2>1. Log' = Log /\ Len(Log) = Len(entries)
    BY <1>1, <1>5 DEF DirSync, Log
  <2>2. onDisk' = Len(entries) \/ onDisk' = onDisk
    BY <1>5 DEF DirSync
  <2>3. QED
    BY <2>1, <2>2 DEF Abstract!Next, Abstract!Confirm, Log
<1>6. ASSUME PowerLoss PROVE Abstract!Next
  <2>1. PICK n \in onDisk..Len(entries) :
           entries' = SubSeq(entries, 1, n) /\ onDisk' = n
    BY <1>6 DEF PowerLoss
  <2>2. /\ n \in Nat /\ Len(entries') = n /\ n <= Len(entries)
        /\ \A i \in 1..n : entries'[i] = entries[i]
    BY <1>1, <2>1
  <2>3. \A i \in 1..n : content'[entries[i]] = content[entries[i]]
    BY <1>6, <2>2 DEF PowerLoss
  <2>4. Len(Log) = Len(entries)
    BY <1>1 DEF Log
  <2>5. Log' = SubSeq(Log, 1, n)
    BY <1>1, <2>2, <2>3, <2>4 DEF Log
  <2>6. n \in onDisk..Len(Log)
    BY <2>1, <2>4
  <2>7. QED
    BY <2>1, <2>5, <2>6 DEF Abstract!Next, Abstract!PowerLoss, Log
<1>7. CASE UNCHANGED vars
  BY <1>7 DEF vars, Log
<1>8. QED
  BY <1>2, <1>3, <1>4, <1>5, <1>6, <1>7 DEF Next

\* The sequence of system calls implements the durable register, for any number
\* of concurrent writers: readers only ever see whole files, also after a power
\* loss at any moment.
THEOREM Refinement == Spec => ImplementsRegister
<1>1. Init => Abstract!Init
  <2> SUFFICES ASSUME Init PROVE Abstract!Init
    OBVIOUS
  <2>1. Len(entries) = 1 /\ entries[1] = Old /\ content[Old] = "full"
    BY DEF Init, File
  <2>2. Log \in [1..1 -> {<<f, "full">> : f \in File}]
    BY <2>1 DEF Log, File
  <2>3. QED
    BY <2>2 DEF Init, Abstract!Init, Log
<1>2. QED
  BY <1>1, StepSimulation, Invariance, PTL
  DEF Spec, ImplementsRegister, Abstract!Spec

=============================================================================
