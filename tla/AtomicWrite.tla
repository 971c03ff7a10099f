----------------------------- MODULE AtomicWrite ----------------------------
(***************************************************************************)
(* storage/atomic_write.py: write to a temporary file, fsync it, rename it *)
(* over the target, fsync the directory.  Vault frames, checksum sidecars, *)
(* the audit log's tip and the settings are written this way.              *)
(*                                                                         *)
(* A writer is one call of atomic_write_bytes on one target; the file it   *)
(* creates has the writer's name, and the content it is to get is "full".  *)
(* File content that was not fsynced may come back from a power loss in    *)
(* any state, and so may directory entries.                                *)
(***************************************************************************)
EXTENDS Naturals, Sequences

CONSTANTS
    Writer,     \* the calls of atomic_write_bytes
    Old,        \* the file that is there before the first call
    Posix       \* sys.platform # "win32": a directory can be fsynced

ASSUME OldAssumption == Old \notin Writer
ASSUME PlatformAssumption == Posix \in BOOLEAN

VARIABLES
    pc,         \* pc[w]: where the call is, or how it ended
    content,    \* content[f]: what a reader of the file sees
    synced,     \* the files whose content is on disk
    tmp,        \* the writers whose temporary name exists
    entries,    \* the files the target's name has referred to, oldest first
    onDisk,     \* entries[onDisk] is known to be on disk
    dirSynced,  \* the writers that have fsynced the directory
    cutOff      \* the writers whose cleanup was cut off or failed

vars == <<pc, content, synced, tmp, entries, onDisk, dirSynced, cutOff>>

File == Writer \cup {Old}
Content == {"empty", "torn", "full"}
Running == {"write", "sync", "replace", "dirsync", "cleanup"}
Ended == {"ok", "failed", "dead"}

TypeOK ==
    /\ pc \in [Writer -> {"start"} \cup Running \cup Ended]
    /\ content \in [File -> Content]
    /\ synced \in SUBSET File
    /\ tmp \in SUBSET Writer
    /\ entries \in Seq(File) /\ entries # <<>>
    /\ onDisk \in 1..Len(entries)
    /\ dirSynced \in SUBSET Writer
    /\ cutOff \in SUBSET Writer
    \* the temporary file is there until it is renamed or removed
    /\ \A w \in Writer : pc[w] \in {"write", "sync", "replace"} => w \in tmp

target == entries[Len(entries)]

-----------------------------------------------------------------------------
Init ==
    /\ pc = [w \in Writer |-> "start"]
    /\ content = [f \in File |-> IF f = Old THEN "full" ELSE "empty"]
    /\ synced = {Old}
    /\ tmp = {}
    /\ entries = <<Old>>
    /\ onDisk = 1
    /\ dirSynced = {}
    /\ cutOff = {}

Goto(w, s) == pc' = [pc EXCEPT ![w] = s]

\* __enter__: open(O_CREAT | O_EXCL) a fresh temporary name, or raise.
Enter(w) ==
    /\ pc[w] = "start"
    /\ \/ /\ Goto(w, "write")
          /\ tmp' = tmp \cup {w}
          /\ content' = [content EXCEPT ![w] = "empty"]
          /\ synced' = synced \ {w}
       \/ Goto(w, "failed") /\ UNCHANGED <<tmp, content, synced>>
    /\ UNCHANGED <<entries, onDisk, dirSynced, cutOff>>

\* write(): the buffered writer has passed on some of the data.
Write(w) ==
    /\ pc[w] = "write"
    /\ content[w] = "empty"
    /\ content' = [content EXCEPT ![w] = "torn"]
    /\ UNCHANGED <<pc, synced, tmp, entries, onDisk, dirSynced, cutOff>>

\* __exit__: flush().
Flush(w) ==
    /\ pc[w] = "write"
    /\ content' = [content EXCEPT ![w] = "full"]
    /\ Goto(w, "sync")
    /\ UNCHANGED <<synced, tmp, entries, onDisk, dirSynced, cutOff>>

\* __exit__: fsync() of the file, then close().
Sync_Skipped(w) ==
    /\ pc[w] = "sync"
    /\ Goto(w, "replace")
    /\ UNCHANGED <<content, synced, tmp, entries, onDisk, dirSynced, cutOff>>
Sync(w) ==
    /\ pc[w] = "sync"
    /\ synced' = synced \cup {w}
    /\ Goto(w, "replace")
    /\ UNCHANGED <<content, tmp, entries, onDisk, dirSynced, cutOff>>

\* os.replace(tmp, target).
Replace(w) ==
    /\ pc[w] = "replace"
    /\ entries' = Append(entries, w)
    /\ tmp' = tmp \ {w}
    /\ Goto(w, "dirsync")
    /\ UNCHANGED <<content, synced, onDisk, dirSynced, cutOff>>

\* write(), flush(), fsync(), close() or replace() raises, or the caller's
\* with-block does.
Raise(w) ==
    /\ pc[w] \in {"write", "sync", "replace"}
    /\ Goto(w, "cleanup")
    /\ UNCHANGED <<content, synced, tmp, entries, onDisk, dirSynced, cutOff>>

\* _dir_fsync(), its OSError suppressed and a no-op on Windows; the call has
\* succeeded either way.
DirSync_Raises(w) ==
    /\ pc[w] = "dirsync"
    /\ Goto(w, "failed")
    /\ UNCHANGED <<content, synced, tmp, entries, onDisk, dirSynced, cutOff>>
DirSync_FileInstead(w) ==
    /\ pc[w] = "dirsync"
    /\ Goto(w, "ok")
    /\ dirSynced' = dirSynced \cup {w}
    /\ UNCHANGED <<content, synced, tmp, entries, onDisk, cutOff>>
DirSync(w) ==
    /\ pc[w] = "dirsync"
    /\ Goto(w, "ok")
    /\ \/ /\ Posix
          /\ onDisk' = Len(entries)
          /\ dirSynced' = dirSynced \cup {w}
       \/ UNCHANGED <<onDisk, dirSynced>>
    /\ UNCHANGED <<content, synced, tmp, entries, cutOff>>

\* The finally clause: unlink the temporary file, ignoring OSError; re-raise.
Cleanup_Forgotten(w) ==
    /\ pc[w] = "cleanup"
    /\ Goto(w, "failed")
    /\ UNCHANGED <<content, synced, tmp, entries, onDisk, dirSynced, cutOff>>
Cleanup(w) ==
    /\ pc[w] = "cleanup"
    /\ Goto(w, "failed")
    /\ \/ tmp' = tmp \ {w} /\ UNCHANGED cutOff
       \/ cutOff' = cutOff \cup {w} /\ UNCHANGED tmp
    /\ UNCHANGED <<content, synced, entries, onDisk, dirSynced>>

\* The process of one call dies; what it has written so far stays.
Die(w) ==
    /\ pc[w] \in Running
    /\ Goto(w, "dead")
    /\ cutOff' = cutOff \cup {w}
    /\ UNCHANGED <<content, synced, tmp, entries, onDisk, dirSynced>>

\* The machine loses power.  Each file that was not fsynced comes back with
\* any content, the target's name with any entry it has had since the last
\* directory fsync, temporary names at random.
PowerLoss ==
    /\ pc' = [w \in Writer |-> IF pc[w] \in Running THEN "dead" ELSE pc[w]]
    /\ content' \in {c \in [File -> Content] :
                        \A f \in synced : c[f] = content[f]}
    /\ \E n \in onDisk..Len(entries) :
           entries' = SubSeq(entries, 1, n) /\ onDisk' = n
    /\ \E T \in SUBSET {w \in Writer : pc[w] # "start"} :
           tmp' = T /\ cutOff' = cutOff \cup T
    /\ synced' = File
    /\ UNCHANGED dirSynced

Next ==
    \/ \E w \in Writer :
          \/ Enter(w) \/ Write(w) \/ Flush(w) \/ Sync(w) \/ Replace(w)
          \/ Raise(w) \/ DirSync(w) \/ Cleanup(w) \/ Die(w)
    \/ PowerLoss

Spec == Init /\ [][Next]_vars

-----------------------------------------------------------------------------
\* "On any failure, the tmp file is removed and nothing replaces `path'": the
\* target never refers to a file whose writer raised, on disk or in memory, and a
\* temporary file outlives its call only if the cleanup itself was cut off or failed.
FailureLeavesNothing ==
    /\ TypeOK
    /\ \A w \in Writer : pc[w] \in {"failed", "cleanup"}
                             => \A i \in 1..Len(entries) : entries[i] # w
    /\ \A w \in tmp \ cutOff : pc[w] \in Running \ {"dirsync"}

\* A write whose directory fsync went through survives a power loss, unless a
\* later writer replaced it: the target then is no older than that write.
ConfirmedSurvives ==
    \A w \in dirSynced : \E i \in 1..onDisk : entries[i] = w

\* The values readers have seen under the target's name.
Abstract ==
    INSTANCE DurableRegister WITH
        Value <- {<<f, "full">> : f \in File},
        log <- [i \in 1..Len(entries) |-> <<entries[i], content[entries[i]]>>],
        confirmed <- onDisk

\* The sequence of system calls implements the durable register, whose values are
\* whole files: "an observer never sees a half-written vault file at the destination
\* path", also not after a power loss at any moment.
ImplementsRegister == Abstract!Spec

=============================================================================
