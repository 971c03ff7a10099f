----------------------------- MODULE VaultFile ------------------------------
(***************************************************************************)
(* services/vault_service.py: one vault path, that is a frame and its      *)
(* .sha256 sidecar, under create() and the read half of preview(),         *)
(* import_keys() and unlock_info().  A task is a worker thread of one of   *)
(* the running instances; they meet at the file lock of the vault, which   *)
(* is the lock SharedLock describes.  What FileLock shows of waiting for   *)
(* it is here too: on POSIX a lock file may be replaced under a waiter,    *)
(* which then opens the new one without a look at its deadline.            *)
(*                                                                         *)
(* A frame is encrypted under fresh random values, so two frames differ;   *)
(* a frame stands for its digest too.  atomic_write_bytes() replaces a     *)
(* file in one step (AtomicWrite).                                         *)
(***************************************************************************)
EXTENDS Naturals, FiniteSets

CONSTANTS
    Task,       \* worker threads
    Frame,      \* the frames that are ever built
    None,       \* no file, no frame
    Faults      \* what may go wrong, a subset of Fault

Fault == {"collect", "frame", "sidecar", "audit", "record", "decrypt", "die"}

ASSUME NoneAssumption == None \notin Frame
ASSUME FaultAssumption == Faults \subseteq Fault

VARIABLES
    frame,      \* the vault file
    sidecar,    \* the frame whose digest the sidecar file has
    holding,    \* the vault's file lock
    posix,      \* sys.platform # "win32"; never changes
    stale,      \* the tasks that wait for a lock file that has lost its name
    pc,         \* pc[t]: the next step of the call t runs
    data,       \* data[t]: the frame the call has built or read
    built,      \* the frames that have been built
    ok,         \* frames with an audit event vault_created, outcome ok
    records,    \* frames with a row in vault_record
    cutOff      \* history: frames whose create() ended before their sidecar

vars == <<frame, sidecar, holding, posix, stale, pc, data, built, ok, records,
          cutOff>>
fileVars == <<frame, sidecar>>
waitVars == <<posix, stale>>
logVars == <<built, ok, records>>

Lock == INSTANCE SharedLock WITH Proc <- Task

Creating == {"collect", "write", "checksum", "report", "record", "fail",
             "release"}
Reading == {"read", "read done"}
Step == {"idle", "create", "open", "decrypt", "verify", "mismatch"}
            \cup Creating \cup Reading

\* The steps that wait for the vault's lock, and for that of the audit log.
Waiting == {"create", "open"}
Emitting == {"report", "fail", "mismatch"}

\* Types, and the life of the lock: create() has it exclusively from its first
\* step to the last, a reader shares it while the file is open.
TypeOK ==
    /\ frame \in Frame \cup {None}
    /\ sidecar \in Frame \cup {None}
    /\ holding \in [Task -> {"none", "shared", "exclusive"}]
    /\ posix \in BOOLEAN
    /\ stale \subseteq {t \in Task : pc[t] \in Waiting \cup Emitting}
    /\ pc \in [Task -> Step]
    /\ data \in [Task -> Frame \cup {None}]
    /\ built \subseteq Frame
    /\ ok \subseteq built
    /\ records \subseteq ok
    /\ cutOff \subseteq built
    /\ \A t \in Task : holding[t] = IF pc[t] \in Creating THEN "exclusive"
                                    ELSE IF pc[t] \in Reading THEN "shared"
                                    ELSE "none"

-----------------------------------------------------------------------------
Init ==
    /\ frame = None
    /\ sidecar = None
    /\ holding = [t \in Task |-> "none"]
    /\ posix \in BOOLEAN
    /\ stale = {}
    /\ pc = [t \in Task |-> "idle"]
    /\ data = [t \in Task |-> None]
    /\ built = {}
    /\ ok = {}
    /\ records = {}
    /\ cutOff = {}

Goto(t, s) == pc' = [pc EXCEPT ![t] = s]

\* The call is over, whether it returns or raises.
End(t) ==
    /\ Goto(t, "idle")
    /\ data' = [data EXCEPT ![t] = None]

\* FileLockTimeoutError: the file this task has open is locked by somebody else
\* when the deadline has passed; a file without a name only by another waiter.
LockTimeout_Never(t, m) == FALSE /\ UNCHANGED <<pc, data, holding, stale>>
LockTimeout(t, m) ==
    /\ IF t \in stale
       THEN \E u \in stale \ {t} : pc[u] \in Waiting
       ELSE \E u \in Task \ {t} :
               holding[u] # "none" /\ ~ Lock!Compatible(m, holding[u])
    /\ stale' = stale \ {t}
    /\ End(t)
    /\ UNCHANGED holding

\* acquire() succeeds, on the file that has the name.
LockTaken(t, m, s) ==
    /\ t \notin stale
    /\ Lock!Acquire(t, m)
    /\ Goto(t, s)
    /\ UNCHANGED <<data, stale>>

\* release(): on POSIX the lock file is unlinked, unless that fails, and whoever
\* waits for it is left with a file that has no name.
LockDropped(t) ==
    /\ Lock!Drop({t})
    /\ \/ posix /\ stale' = stale \cup {u \in Task : pc[u] \in Waiting}
       \/ UNCHANGED stale

\* The comparison of _acquire_posix() fails: the file is closed and opened again,
\* whatever the time, and an open() that fails leaves acquire().
Retry(t) ==
    /\ t \in stale
    /\ stale' = stale \ {t}
    /\ \/ UNCHANGED <<pc, data>>
       \/ pc[t] \in Waiting /\ End(t)
    /\ UNCHANGED <<fileVars, logVars, holding, posix, cutOff>>

\* The audit log's lock file is replaced under t by an instance that emits too.
AuditReplaced(t) ==
    /\ posix
    /\ pc[t] \in Emitting
    /\ stale' = stale \cup {t}
    /\ UNCHANGED <<fileVars, logVars, holding, posix, pc, data, cutOff>>

\* What a call leaves behind that ends after it has replaced the frame and
\* before it has replaced the sidecar.
Abandoned(t) == IF pc[t] = "checksum" THEN {data[t]} ELSE {}

-----------------------------------------------------------------------------
\* Bound: there is a frame left for every create() under way.
Room ==
    Cardinality(built)
            + Cardinality({t \in Task : pc[t] \in {"create", "collect"}})
        < Cardinality(Frame)

\* create() with valid arguments, up to the lock.
CreateStart(t) ==
    /\ pc[t] = "idle"
    /\ Room
    /\ Goto(t, "create")
    /\ UNCHANGED <<fileVars, logVars, waitVars, holding, data, cutOff>>

\* _acquire_write_lock(); its error leaves create() without an audit event.
CreateLock_Shared(t) ==
    /\ pc[t] = "create"
    /\ LockTaken(t, "shared", "collect") \/ LockTimeout(t, "shared")
    /\ UNCHANGED <<fileVars, logVars, posix, cutOff>>
CreateLock(t) ==
    /\ pc[t] = "create"
    /\ LockTaken(t, "exclusive", "collect") \/ LockTimeout(t, "exclusive")
    /\ UNCHANGED <<fileVars, logVars, posix, cutOff>>

\* An exception in the try block.
Fails(t, fault) ==
    /\ fault \in Faults
    /\ Goto(t, "fail")
    /\ UNCHANGED <<fileVars, logVars, data>>

\* The keys are exported, the manifest is built and encrypted: a new frame.
Collect(t) ==
    /\ pc[t] = "collect"
    /\ \/ /\ \E f \in Frame \ built :
                 data' = [data EXCEPT ![t] = f] /\ built' = built \cup {f}
          /\ Goto(t, "write")
          /\ UNCHANGED <<fileVars, ok, records>>
       \/ Fails(t, "collect")
    /\ UNCHANGED <<holding, waitVars, cutOff>>

\* _write_vault_files(): the frame.
WriteFrame(t) ==
    /\ pc[t] = "write"
    /\ \/ frame' = data[t] /\ Goto(t, "checksum")
          /\ UNCHANGED <<sidecar, logVars, data>>
       \/ Fails(t, "frame")
    /\ UNCHANGED <<holding, waitVars, cutOff>>

\* _write_vault_files(): the sidecar.
WriteSidecar_OnlyIfMissing(t) ==
    /\ pc[t] = "checksum"
    /\ sidecar' = IF sidecar = None THEN data[t] ELSE sidecar
    /\ Goto(t, "report")
    /\ UNCHANGED <<frame, logVars, data, cutOff, holding, waitVars>>
WriteSidecar(t) ==
    /\ pc[t] = "checksum"
    /\ \/ sidecar' = data[t] /\ Goto(t, "report")
          /\ UNCHANGED <<frame, logVars, data, cutOff>>
       \/ Fails(t, "sidecar") /\ cutOff' = cutOff \cup Abandoned(t)
    /\ UNCHANGED <<holding, waitVars>>

\* The strict audit event vault_created with outcome ok, for which the audit
\* log's lock is taken.
Report(t) ==
    /\ pc[t] = "report"
    /\ t \notin stale
    /\ \/ ok' = ok \cup {data[t]} /\ Goto(t, "record")
          /\ UNCHANGED <<fileVars, built, records, data>>
       \/ Fails(t, "audit")
    /\ UNCHANGED <<holding, waitVars, cutOff>>

\* MetadataStore.add_vault_record().
Record(t) ==
    /\ pc[t] = "record"
    /\ \/ records' = records \cup {data[t]} /\ Goto(t, "release")
          /\ UNCHANGED <<fileVars, built, ok, data>>
       \/ Fails(t, "record")
    /\ UNCHANGED <<holding, waitVars, cutOff>>

\* The except clause: the audit event vault_created with outcome failed, which
\* may raise in turn; either way the lock is released next.
Fail(t) ==
    /\ pc[t] = "fail"
    /\ t \notin stale
    /\ Goto(t, "release")
    /\ UNCHANGED <<fileVars, logVars, waitVars, holding, data, cutOff>>

\* The finally clause.
Release(t) ==
    /\ pc[t] = "release"
    /\ LockDropped(t)
    /\ End(t)
    /\ UNCHANGED <<fileVars, logVars, posix, cutOff>>

-----------------------------------------------------------------------------
\* _open() and unlock_info(): the vault file exists.
OpenStart(t) ==
    /\ pc[t] = "idle"
    /\ frame # None
    /\ Goto(t, "open")
    /\ UNCHANGED <<fileVars, logVars, waitVars, holding, data, cutOff>>

\* _read_vault_bytes(): with FileLock(exclusive=False) ...
OpenLock(t) ==
    /\ pc[t] = "open"
    /\ LockTaken(t, "shared", "read") \/ LockTimeout(t, "shared")
    /\ UNCHANGED <<fileVars, logVars, posix, cutOff>>

\* ... the frame is read whole ...
Read(t) ==
    /\ pc[t] = "read"
    /\ data' = [data EXCEPT ![t] = frame]
    /\ Goto(t, "read done")
    /\ UNCHANGED <<fileVars, logVars, waitVars, holding, cutOff>>

\* ... and the lock is released.  unlock_info() ends here.
ReadDone(t) ==
    /\ pc[t] = "read done"
    /\ LockDropped(t)
    /\ \/ Goto(t, "decrypt") /\ UNCHANGED data
       \/ End(t)
    /\ UNCHANGED <<fileVars, logVars, posix, cutOff>>

\* vault_unpack() and _decrypt_frame(): an Argon2 derivation or a card; the
\* passphrase may be wrong.
Decrypt(t) ==
    /\ pc[t] = "decrypt"
    /\ \/ Goto(t, "verify") /\ UNCHANGED data
       \/ "decrypt" \in Faults /\ End(t)
    /\ UNCHANGED <<fileVars, logVars, waitVars, holding, cutOff>>

\* _verify_sidecar(): a missing sidecar is accepted, so is a skipped check.
SidecarAccepts(t) == sidecar \in {None, data[t]}

Verify(t) ==
    /\ pc[t] = "verify"
    /\ \E skip \in BOOLEAN :
           IF skip \/ SidecarAccepts(t)
           THEN End(t)
           ELSE Goto(t, "mismatch") /\ UNCHANGED data
    /\ UNCHANGED <<fileVars, logVars, waitVars, holding, cutOff>>

\* The audit event, and VaultChecksumMismatchError for the caller.
Mismatch(t) ==
    /\ pc[t] = "mismatch"
    /\ t \notin stale
    /\ End(t)
    /\ UNCHANGED <<fileVars, logVars, waitVars, holding, cutOff>>

\* The process dies; the kernel drops its lock.
Die(t) ==
    /\ "die" \in Faults
    /\ pc[t] # "idle"
    /\ cutOff' = cutOff \cup Abandoned(t)
    /\ Lock!Drop({t})
    /\ stale' = stale \ {t}
    /\ End(t)
    /\ UNCHANGED <<fileVars, logVars, posix>>

\* What a task has to do once it is in a call.
Continue(t) ==
    \/ CreateLock(t) \/ Collect(t) \/ WriteFrame(t) \/ WriteSidecar(t)
    \/ Report(t) \/ Record(t) \/ Fail(t) \/ Release(t)
    \/ OpenLock(t) \/ Read(t) \/ ReadDone(t) \/ Decrypt(t) \/ Verify(t)
    \/ Mismatch(t) \/ Retry(t)

Next ==
    \E t \in Task :
        \/ CreateStart(t) \/ OpenStart(t) \/ Continue(t)
        \/ AuditReplaced(t) \/ Die(t)

Spec == Init /\ [][Next]_vars

\* A call that has begun goes on: gpg runs under timeouts, SQLite gives up on a
\* busy database, and a file lock is polled: it is granted, or its deadline passes,
\* or it is opened again.  Nobody has to begin a call or to die, and nobody has to
\* stop replacing lock files.
FairSpec == Spec /\ \A t \in Task : WF_vars(Continue(t))

-----------------------------------------------------------------------------
\* While nobody is writing, the sidecar belongs to the frame it lies beside,
\* unless the create() that wrote the frame was cut off (by an error or by its
\* death) before it wrote the sidecar.  Two creates never mix their files.
PairBelongsTogether ==
    (\A t \in Task : pc[t] \notin Creating)
        => sidecar = frame \/ frame \in cutOff

\* When the audit log reports a vault as created, this very vault is at the
\* path, with its own sidecar.
ReportedVaultIsThere ==
    [][\A f \in ok' \ ok : frame = f /\ sidecar = f]_vars

\* VaultChecksumMismatchError says "Only the external sidecar is out of sync".
\* It means one of three things: the vault was replaced after it was read, or is
\* being replaced, or its create() never got to the sidecar.  A vault at rest
\* whose create() went through, or that has no sidecar, opens.
MismatchIsExplained ==
    [][\A t \in Task : pc[t] # "mismatch" /\ pc'[t] = "mismatch"
            => \/ data[t] # frame
               \/ frame \in cutOff
               \/ \E u \in Task : pc[u] = "checksum"]_vars

\* Every create(), preview(), import and unlock_info() comes to an end, whatever
\* the holder of the lock waits for.  On POSIX that takes others who stop replacing
\* the lock file it waits for: the retry looks at no deadline.
CallEnds ==
    \A t \in Task :
        <>[](t \notin stale) => (pc[t] # "idle" ~> pc[t] = "idle")

=============================================================================
