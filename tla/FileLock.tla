------------------------------ MODULE FileLock ------------------------------
(***************************************************************************)
(* storage/file_lock.py: the advisory lock on `<target>.lock' that the     *)
(* vault service and the audit log take around a file.  One action per     *)
(* system call, because every hazard of this protocol lies between two of  *)
(* them.  A process here is one FileLock object; flock() conflicts between *)
(* open file descriptions, so two threads of one program count as two.     *)
(*                                                                         *)
(* An inode is reused only when no name and no descriptor refers to it.    *)
(***************************************************************************)
CONSTANTS
    Proc,       \* the FileLock objects on one target
    Inode,      \* what a lock file can be
    NoInode     \* no file: the name is absent, or the object has no descriptor

ASSUME InodeAssumption == NoInode \notin Inode

VARIABLES
    posix,      \* sys.platform # "win32"; never changes
    path,       \* the inode the lock file's name refers to
    fd,         \* fd[p]: the inode p's _fd is open on
    granted,    \* granted[p]: the kernel lock is granted on p's descriptor
    mode,       \* mode[p]: p was made for shared or exclusive use
    pc,         \* pc[p]: the system call p is about to make
    orphaned    \* history: the holders whose lock file was unlinked under them

vars == <<posix, path, fd, granted, mode, pc, orphaned>>

Mode == {"shared", "exclusive"}
Step == {"idle", "lock", "failed", "check", "reopen", "held", "close",
         "unlink"}

\* The steps in which _fd is not None.
HasDescriptor == {"lock", "failed", "check", "held", "close"}

\* Types, and the life of the descriptor: _fd is open exactly while the object
\* is acquiring, holding or closing, and after a lock call that failed for
\* another reason than a conflict; every other way out has closed it.
TypeOK ==
    /\ posix \in BOOLEAN
    /\ path \in Inode \cup {NoInode}
    /\ fd \in [Proc -> Inode \cup {NoInode}]
    /\ granted \in [Proc -> BOOLEAN]
    /\ mode \in [Proc -> Mode]
    /\ pc \in [Proc -> Step]
    /\ orphaned \in SUBSET Proc
    /\ \A p \in Proc : fd[p] # NoInode <=> pc[p] \in HasDescriptor

-----------------------------------------------------------------------------
\* msvcrt.locking knows exclusive locks only, whatever the object asked for.
KernelMode(p) == IF posix THEN mode[p] ELSE "exclusive"

\* The kernel refuses p: an incompatible lock is granted on the same inode.
Blocked(p) ==
    \E q \in Proc \ {p} :
        /\ granted[q]
        /\ fd[q] = fd[p]
        /\ ~ (KernelMode(p) = "shared" /\ KernelMode(q) = "shared")

\* Inodes that a new file can get.
Free == Inode \ ({path} \cup {fd[p] : p \in Proc})

\* open(O_RDWR | O_CREAT): the named file, or a new one that takes the name.
OpenLockFile(p) ==
    \/ /\ path # NoInode
       /\ fd' = [fd EXCEPT ![p] = path]
       /\ UNCHANGED path
    \/ /\ path = NoInode
       /\ \E i \in Free : path' = i /\ fd' = [fd EXCEPT ![p] = i]

\* os.fstat(fd) against os.stat(lock path), after the lock is granted.
NamesMyFile_Unchecked(p) == TRUE
NamesMyFile(p) == path = fd[p]

-----------------------------------------------------------------------------
Init ==
    /\ posix \in BOOLEAN
    /\ path \in Inode \cup {NoInode}       \* a stale lock file may be there
    /\ fd = [p \in Proc |-> NoInode]
    /\ granted = [p \in Proc |-> FALSE]
    /\ mode \in [Proc -> Mode]
    /\ pc = [p \in Proc |-> "idle"]
    /\ orphaned = {}

Goto(p, s) == pc' = [pc EXCEPT ![p] = s]

\* acquire(): a fresh FileLock in either mode.  A failing open() raises and
\* changes nothing.
Acquire(p) ==
    /\ pc[p] = "idle"
    /\ OpenLockFile(p)
    /\ \E m \in Mode : mode' = [mode EXCEPT ![p] = m]
    /\ Goto(p, "lock")
    /\ UNCHANGED <<posix, granted, orphaned>>

\* The non-blocking lock call is granted.  Windows returns at once, POSIX
\* still has to compare the inodes.
Lock_IgnoringConflict(p) ==
    /\ pc[p] = "lock"
    /\ granted' = [granted EXCEPT ![p] = TRUE]
    /\ Goto(p, IF posix THEN "check" ELSE "held")
    /\ UNCHANGED <<posix, path, fd, mode, orphaned>>
Lock(p) ==
    /\ pc[p] = "lock"
    /\ ~ Blocked(p)
    /\ granted' = [granted EXCEPT ![p] = TRUE]
    /\ Goto(p, IF posix THEN "check" ELSE "held")
    /\ UNCHANGED <<posix, path, fd, mode, orphaned>>

\* The lock call is refused and the deadline has passed: FileLockTimeoutError.
\* (Refused before the deadline, the loop sleeps and stays where it is.)
Timeout_Never(p) == FALSE /\ UNCHANGED vars
Timeout(p) ==
    /\ pc[p] = "lock"
    /\ Blocked(p)
    /\ fd' = [fd EXCEPT ![p] = NoInode]
    /\ Goto(p, "idle")
    /\ UNCHANGED <<posix, path, granted, mode, orphaned>>

\* flock() fails for another reason (POSIX catches BlockingIOError only): the
\* error leaves acquire() with _fd open.  The object is not used again, its
\* caller never having got it, and keeps its inode in use until the process ends.
LockError(p) ==
    /\ posix
    /\ pc[p] = "lock"
    /\ Goto(p, "failed")
    /\ UNCHANGED <<posix, path, fd, granted, mode, orphaned>>

\* The comparison holds: acquire() returns.
Confirm(p) ==
    /\ pc[p] = "check"
    /\ NamesMyFile(p)
    /\ Goto(p, "held")
    /\ UNCHANGED <<posix, path, fd, granted, mode, orphaned>>

\* The name is gone or names another file: _close_fd(), which drops the lock.
Abandon(p) ==
    /\ pc[p] = "check"
    /\ ~ NamesMyFile(p)
    /\ fd' = [fd EXCEPT ![p] = NoInode]
    /\ granted' = [granted EXCEPT ![p] = FALSE]
    /\ Goto(p, "reopen")
    /\ UNCHANGED <<posix, path, mode, orphaned>>

\* ... and open() again.  If it fails, the OSError leaves acquire().
Reopen(p) ==
    /\ pc[p] = "reopen"
    /\ \/ OpenLockFile(p) /\ Goto(p, "lock")
       \/ Goto(p, "idle") /\ UNCHANGED <<path, fd>>
    /\ UNCHANGED <<posix, granted, mode, orphaned>>

\* release(), first call: LOCK_UN.
Unlock(p) ==
    /\ pc[p] = "held"
    /\ granted' = [granted EXCEPT ![p] = FALSE]
    /\ orphaned' = orphaned \ {p}
    /\ Goto(p, "close")
    /\ UNCHANGED <<posix, path, fd, mode>>

\* release(), second call: close().
Close(p) ==
    /\ pc[p] = "close"
    /\ fd' = [fd EXCEPT ![p] = NoInode]
    /\ Goto(p, IF posix THEN "unlink" ELSE "idle")
    /\ UNCHANGED <<posix, path, granted, mode, orphaned>>

\* release(), third call, POSIX only: unlink the lock file BY NAME.  Whatever
\* file has the name by now loses it, also if its lock is held.  An unlink
\* that fails is ignored.
Unlink(p) ==
    /\ pc[p] = "unlink"
    /\ Goto(p, "idle")
    /\ \/ /\ path' = NoInode
          /\ orphaned' = orphaned \cup
                 {q \in Proc : pc[q] = "held" /\ fd[q] = path}
       \/ UNCHANGED <<path, orphaned>>
    /\ UNCHANGED <<posix, fd, granted, mode>>

\* The process dies: the kernel closes its descriptors, the name stays.
Die(p) ==
    /\ pc[p] # "idle"
    /\ fd' = [fd EXCEPT ![p] = NoInode]
    /\ granted' = [granted EXCEPT ![p] = FALSE]
    /\ orphaned' = orphaned \ {p}
    /\ Goto(p, "idle")
    /\ UNCHANGED <<posix, path, mode>>

\* What the process has to do once it is in acquire() or release().
Continue(p) ==
    \/ Lock(p) \/ Timeout(p) \/ Confirm(p) \/ Abandon(p) \/ Reopen(p)
    \/ Close(p) \/ Unlink(p)

Next ==
    \E p \in Proc :
        Acquire(p) \/ Continue(p) \/ LockError(p) \/ Unlock(p) \/ Die(p)

Spec == Init /\ [][Next]_vars

\* A process in the middle of acquire() or release() keeps running: the poll
\* loop never waits for another process, and time passes its deadline.  Nobody
\* has to call acquire(), to leave the protected section, or to die.
FairSpec == Spec /\ \A p \in Proc : WF_vars(Continue(p))

-----------------------------------------------------------------------------
Holder(p) == pc[p] = "held"

Conflict(p, q) == ~ (mode[p] = "shared" /\ mode[q] = "shared")

\* file_lock.py and docs/storage.md promise that cooperating processes are
\* serialised: no two holders whose modes conflict.  On Windows, where release()
\* leaves the lock file alone, that holds.  On POSIX the inode comparison in
\* _acquire_posix buys this: of two conflicting holders at least one has had its
\* lock file unlinked under it by somebody else's release().  So unlinking by name
\* is the ONLY way to lose exclusion.
ConflictNeedsUnlink ==
    \A p, q \in Proc :
        p # q /\ Holder(p) /\ Holder(q) /\ Conflict(p, q)
            => posix /\ (p \in orphaned \/ q \in orphaned)

\* A holder whose lock file was not unlinked holds the kernel lock of the very
\* file a newcomer's open() will find, and everyone who is not a holder or
\* about to compare the inodes has no kernel lock.
HolderOwnsTheName ==
    /\ \A p \in Proc : Holder(p) /\ p \notin orphaned
                           => granted[p] /\ path = fd[p] /\ path # NoInode
    /\ \A p \in Proc : granted[p] => pc[p] \in {"check", "held"}

\* The lock a holder has while its lock file keeps its name.
holding ==
    [p \in Proc |-> IF Holder(p) /\ p \notin orphaned THEN mode[p] ELSE "none"]

Abstract == INSTANCE SharedLock

\* The file lock implements the reader/writer lock, as far as holders are
\* counted whose lock file has not been unlinked.
ImplementsSharedLock == Abstract!Spec

\* acquire(): "Block until the lock is acquired or `timeout` expires."  So it is
\* on Windows, where the file is never opened again; on POSIX it is once the others
\* are at rest, each holding the lock or not using it: the retry loop of one
\* process by itself always ends.
AcquireReturns ==
    \A p \in Proc :
        ~ posix \/ <>[](\A q \in Proc \ {p} : pc[q] \in {"held", "idle", "failed"})
            => (pc[p] = "lock" ~> pc[p] \in {"held", "idle", "failed"})

\* The same docstring without the condition: acquire() ends although others keep
\* taking and releasing the lock.  On POSIX it may go round for ever, each time on
\* a lock file that has just lost its name.
AcquireEnds ==
    \A p \in Proc : pc[p] = "lock" ~> pc[p] \in {"held", "idle", "failed"}

=============================================================================
