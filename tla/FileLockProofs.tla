--------------------------- MODULE FileLockProofs ---------------------------
(***************************************************************************)
(* Proofs about FileLock for any number of processes and inodes, on both   *)
(* platforms.                                                              *)
(***************************************************************************)
EXTENDS FileLock, TLAPS

\* What flock() and msvcrt.locking guarantee: two locks granted on one inode
\* are both shared.
KernelExclusion ==
    \A p, q \in Proc :
        p # q /\ granted[p] /\ granted[q] /\ fd[p] = fd[q]
            => KernelMode(p) = "shared" /\ KernelMode(q) = "shared"

\* Where in the protocol a lock is granted, and who can be orphaned.
LockLife ==
    /\ \A p \in Proc : granted[p] <=> pc[p] \in {"check", "held"}
    /\ \A p \in orphaned : pc[p] = "held"

\* A holder keeps the name of its file until an unlink takes it away.
NameKept ==
    \A p \in Proc : Holder(p) /\ p \notin orphaned => path = fd[p]

\* Windows neither compares inodes nor unlinks the lock file.
WindowsKeepsFile ==
    ~ posix =>
        /\ \A p \in Proc : pc[p] \notin {"check", "reopen", "unlink"}
        /\ \A p \in Proc : fd[p] # NoInode => fd[p] = path
        /\ orphaned = {}

\* The inductive invariant.
IInv == TypeOK /\ KernelExclusion /\ LockLife /\ NameKept /\ WindowsKeepsFile

-----------------------------------------------------------------------------
\* The invariant holds before anyone has called acquire().
LEMMA InitIInv == Init => IInv
  BY InodeAssumption
  DEF Init, IInv, TypeOK, KernelExclusion, LockLife, NameKept,
      WindowsKeepsFile, Holder, Mode, Step, HasDescriptor

\* Every system call of every process preserves it.
LEMMA StepIInv == IInv /\ [Next]_vars => IInv'
<1> SUFFICES ASSUME IInv, [Next]_vars PROVE IInv'
  OBVIOUS
<1> USE InodeAssumption
    DEF IInv, TypeOK, KernelExclusion, LockLife, NameKept, WindowsKeepsFile,
        Holder, Mode, Step, HasDescriptor, KernelMode, Goto
<1>1. ASSUME NEW p \in Proc, Acquire(p) PROVE IInv'
  BY <1>1 DEF Acquire, OpenLockFile, Free
<1>2. ASSUME NEW p \in Proc, Lock(p) PROVE IInv'
  <2>1. KernelExclusion'
    BY <1>2 DEF Lock, Blocked
  <2>2. QED
    BY <1>2, <2>1 DEF Lock
<1>3. ASSUME NEW p \in Proc, Timeout(p) PROVE IInv'
  BY <1>3 DEF Timeout
<1>4. ASSUME NEW p \in Proc, LockError(p) PROVE IInv'
  BY <1>4 DEF LockError
<1>5. ASSUME NEW p \in Proc, Confirm(p) PROVE IInv'
  BY <1>5 DEF Confirm, NamesMyFile
<1>6. ASSUME NEW p \in Proc, Abandon(p) PROVE IInv'
  BY <1>6 DEF Abandon
<1>7. ASSUME NEW p \in Proc, Reopen(p) PROVE IInv'
  BY <1>7 DEF Reopen, OpenLockFile, Free
<1>8. ASSUME NEW p \in Proc, Unlock(p) PROVE IInv'
  BY <1>8 DEF Unlock
<1>9. ASSUME NEW p \in Proc, Close(p) PROVE IInv'
  BY <1>9 DEF Close
<1>10. ASSUME NEW p \in Proc, Unlink(p) PROVE IInv'
  BY <1>10 DEF Unlink
<1>11. ASSUME NEW p \in Proc, Die(p) PROVE IInv'
  BY <1>11 DEF Die
<1>12. CASE UNCHANGED vars
  BY <1>12 DEF vars
<1>13. QED
  BY <1>1, <1>2, <1>3, <1>4, <1>5, <1>6, <1>7, <1>8, <1>9, <1>10, <1>11,
     <1>12
  DEF Next, Continue

\* The inductive invariant holds in every behaviour of the protocol.
LEMMA Invariance == Spec => []IInv
  BY InitIInv, StepIInv, PTL DEF Spec

-----------------------------------------------------------------------------
\* Types, and no path through acquire() or release() leaves _fd open but a lock
\* call that fails for another reason than a conflict.
THEOREM TypeCorrect == Spec => []TypeOK
<1>1. IInv => TypeOK
  BY DEF IInv
<1>2. QED
  BY <1>1, Invariance, PTL

\* Exclusion can only be lost by an unlink that takes away a holder's file.
THEOREM ExclusionUntilUnlink == Spec => []ConflictNeedsUnlink
<1>1. IInv => ConflictNeedsUnlink
  BY DEF IInv, TypeOK, KernelExclusion, LockLife, NameKept, WindowsKeepsFile, Holder,
      ConflictNeedsUnlink, Conflict, KernelMode
<1>2. QED
  BY <1>1, Invariance, PTL

\* A holder that was not orphaned has the lock of the file that has the name.
THEOREM HolderKeepsName == Spec => []HolderOwnsTheName
<1>1. IInv => HolderOwnsTheName
  BY DEF IInv, TypeOK, HasDescriptor, LockLife, NameKept, Holder,
         HolderOwnsTheName
<1>2. QED
  BY <1>1, Invariance, PTL

-----------------------------------------------------------------------------
\* An acquisition is a step of the reader/writer lock.
LEMMA AcquireIsNext ==
  ASSUME NEW p \in Proc, NEW m \in Abstract!Mode, Abstract!Acquire(p, m)
  PROVE  Abstract!Next
  BY DEF Abstract!Next

\* So is the loss of the lock by any set of holders.
LEMMA DropIsNext ==
  ASSUME NEW S \in SUBSET Proc,
         holding' = [p \in Proc |-> IF p \in S THEN "none" ELSE holding[p]]
  PROVE  Abstract!Next
  BY DEF Abstract!Next, Abstract!Drop

\* Every step of the protocol is a step of the reader/writer lock or leaves
\* the holders as they are.
LEMMA StepSimulation == IInv /\ [Next]_vars => [Abstract!Next]_holding
<1> SUFFICES ASSUME IInv, [Next]_vars,
                    holding' # holding
             PROVE  Abstract!Next
  OBVIOUS
<1> USE InodeAssumption
    DEF IInv, TypeOK, LockLife, Holder, Step, Goto
<1>1. ASSUME NEW p \in Proc, Acquire(p) \/ Timeout(p) \/ LockError(p)
                             \/ Abandon(p) \/ Reopen(p) \/ Close(p)
      PROVE  FALSE
  BY <1>1 DEF holding, Acquire, Timeout, LockError, Abandon, Reopen, Close
<1>2. ASSUME NEW p \in Proc, Lock(p), posix PROVE FALSE
  BY <1>2 DEF holding, Lock
<1>3. ASSUME NEW p \in Proc, Lock(p), ~ posix PROVE Abstract!Next
  <2>1. holding[p] = "none" /\ mode[p] \in Abstract!Mode
    BY <1>3 DEF holding, Lock, Abstract!Mode, Mode
  <2>2. \A q \in Proc \ {p} : holding[q] = "none"
    BY <1>3 DEF holding, Lock, Blocked, WindowsKeepsFile, HasDescriptor,
                KernelMode
  <2>3. holding' = [holding EXCEPT ![p] = mode[p]]
    BY <1>3 DEF holding, Lock, WindowsKeepsFile
  <2>4. Abstract!Acquire(p, mode[p])
    BY <2>1, <2>2, <2>3 DEF Abstract!Acquire
  <2>5. QED
    BY <2>1, <2>4, AcquireIsNext
<1>4. ASSUME NEW p \in Proc, Confirm(p) PROVE Abstract!Next
  <2>1. holding[p] = "none" /\ mode[p] \in Abstract!Mode
    BY <1>4 DEF holding, Confirm, Abstract!Mode, Mode
  <2>2. posix
    BY <1>4 DEF holding, Confirm, WindowsKeepsFile
  <2>3. ASSUME NEW q \in Proc \ {p}, holding[q] # "none"
        PROVE  Abstract!Compatible(mode[p], holding[q])
    <3>1. granted[p] /\ granted[q] /\ fd[p] = fd[q]
      BY <1>4, <2>3 DEF holding, Confirm, NamesMyFile, NameKept
    <3>2. mode[p] = "shared" /\ mode[q] = "shared"
      BY <2>2, <3>1 DEF KernelExclusion, KernelMode
    <3>3. QED
      BY <2>3, <3>2 DEF holding, Abstract!Compatible
  <2>4. holding' = [holding EXCEPT ![p] = mode[p]]
    BY <1>4 DEF holding, Confirm
  <2>5. Abstract!Acquire(p, mode[p])
    BY <2>1, <2>3, <2>4 DEF Abstract!Acquire
  <2>6. QED
    BY <2>1, <2>5, AcquireIsNext
<1>5. ASSUME NEW p \in Proc, Unlock(p) \/ Die(p) PROVE Abstract!Next
  <2>1. holding' = [q \in Proc |-> IF q \in {p} THEN "none" ELSE holding[q]]
    BY <1>5 DEF holding, Unlock, Die
  <2>2. {p} \in SUBSET Proc
    OBVIOUS
  <2>3. QED
    BY <2>1, <2>2, DropIsNext
<1>6. ASSUME NEW p \in Proc, Unlink(p) PROVE Abstract!Next
  <2>1. holding' = [q \in Proc |->
                      IF q \in orphaned' THEN "none" ELSE holding[q]]
    BY <1>6 DEF holding, Unlink
  <2>2. orphaned' \in SUBSET Proc
    BY <1>6 DEF Unlink
  <2>3. QED
    BY <2>1, <2>2, DropIsNext
<1>7. CASE UNCHANGED vars
  BY <1>7 DEF holding, vars
<1>8. QED
  BY <1>1, <1>2, <1>3, <1>4, <1>5, <1>6, <1>7 DEF Next, Continue

\* The file lock implements the reader/writer lock, on both platforms, as far
\* as holders are counted whose lock file has not been unlinked.
THEOREM Refinement == Spec => ImplementsSharedLock
<1>1. Init => Abstract!Init
  BY DEF Init, Abstract!Init, holding, Holder
<1>2. QED
  BY <1>1, StepSimulation, Invariance, PTL
  DEF Spec, ImplementsSharedLock, Abstract!Spec

=============================================================================
