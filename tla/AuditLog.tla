------------------------------ MODULE AuditLog ------------------------------
(***************************************************************************)
(* storage/audit_log.py: the append-only audit log with its optional hash  *)
(* chain, shared by the running instances of the program.  Threads of one  *)
(* instance take AuditLog._lock first, so an instance is one process here. *)
(* The file lock is the exclusive lock SharedLock describes.               *)
(*                                                                         *)
(* A line of the log is identified by a number that stands for its hash;   *)
(* what it says is left out except for the fields verify_chain reads.      *)
(***************************************************************************)
EXTENDS Integers, Sequences, FiniteSets

CONSTANTS
    Proc,           \* the instances
    None,           \* nobody holds the file lock; there is no tip file
    ChainModes,     \* values the setting audit.hash_chain takes
    Faults,         \* what may go wrong, a subset of Fault
    MaxRecords      \* bound on the number of records ever emitted

Fault == {"flush", "fsync", "tip", "kill", "power"}

ASSUME ProcAssumption == None \notin Proc /\ IsFiniteSet(Proc)
ASSUME ModeAssumption == ChainModes \subseteq BOOLEAN
ASSUME FaultAssumption == Faults \subseteq Fault
ASSUME BoundAssumption == MaxRecords \in Nat

VARIABLES
    file,       \* the lines of the log
    durable,    \* how many of them are known to be on disk
    tip,        \* the .tip file: hash and seq of a line, or None
    lock,       \* the holder of the exclusive FileLock
    pc,         \* pc[p]: where the instance is in emit()
    chain,      \* chain[p]: its _hash_chain
    head,       \* head[p]: its _prev_hash and _seq
    dropped,    \* dropped[p]: its _dropped
    buffer,     \* buffer[p]: lines a failed flush() left in its BufferedWriter
    nextId,     \* the number of the next record
    emitted,    \* history: records of this run of p whose emit() has returned
    interrupted,\* history: the newest append has not been followed by its tip
    late        \* history: the records whose flush() failed

histVars == <<emitted, interrupted, late>>

vars == <<file, durable, tip, lock, pc, chain, head, dropped, buffer, nextId,
          histVars>>

\* whole: the line is valid JSON.  ended: it ends in a newline.
Line ==
    [id: Nat, by: Proc, chained: BOOLEAN, prev: Nat, seq: Nat, drops: Nat,
     whole: BOOLEAN, ended: BOOLEAN]

ChainHead == [prev: Nat, seq: Nat]
NoHead == [prev |-> 0, seq |-> 0]       \* prev_hash "" and seq 0

TypeOK ==
    /\ file \in Seq(Line)
    /\ durable \in 0..Len(file)
    /\ tip \in ChainHead \cup {None}
    /\ lock \in Proc \cup {None}
    /\ pc \in [Proc ->
                {"down", "idle", "lock", "scan", "flush", "sync", "tip"}]
    /\ chain \in [Proc -> BOOLEAN]
    /\ head \in [Proc -> ChainHead]
    /\ dropped \in [Proc -> Nat]
    /\ buffer \in [Proc -> Seq(Line)]
    /\ nextId \in 1..MaxRecords + 1
    /\ emitted \in [Proc -> SUBSET Nat]
    /\ interrupted \in BOOLEAN
    /\ late \subseteq 1..MaxRecords
    \* the file lock is held exactly across scan, append and tip
    /\ \A p \in Proc : lock = p <=>
           \/ pc[p] \in {"scan", "tip"}
           \/ chain[p] /\ pc[p] \in {"flush", "sync"}

-----------------------------------------------------------------------------
\* verify_chain(): every line parses; no unchained line after a chained one;
\* the first chained line has prev "" and seq 0, each other one continues the
\* line before it.
LinksHold ==
    \A i \in 1..Len(file) :
        /\ file[i].whole
        /\ IF ~ file[i].chained
           THEN \A j \in 1..i-1 : ~ file[j].chained
           ELSE IF i > 1 /\ file[i-1].chained
                THEN /\ file[i].prev = file[i-1].id
                     /\ file[i].seq = file[i-1].seq + 1
                ELSE file[i].prev = 0 /\ file[i].seq = 0

\* _verify_tip(): a missing tip is accepted, any other one has to name the
\* last line.
TipHolds ==
    tip # None /\ file # <<>> /\ file[Len(file)].chained
        => tip = [prev |-> file[Len(file)].id, seq |-> file[Len(file)].seq]

VerifyChain == LinksHold /\ TipHolds

\* _scan_tail_state() and _seq_after(): the last line of the file, whether or
\* not it ends in a newline; one that does not parse, or has no seq, counts
\* as seq -1.
TailState ==
    IF file = <<>> THEN NoHead
    ELSE LET last == file[Len(file)]
         IN  [prev |-> last.id,
              seq |-> IF last.whole /\ last.chained THEN last.seq + 1 ELSE 0]

\* Appending bytes to the file: the first line is glued to a line without end.
Appended(f, lines) ==
    IF f # <<>> /\ ~ f[Len(f)].ended /\ lines # <<>>
    THEN SubSeq(f, 1, Len(f) - 1)
             \o <<[Head(lines) EXCEPT !.whole = FALSE]>> \o Tail(lines)
    ELSE f \o lines

-----------------------------------------------------------------------------
Init ==
    /\ file = <<>>
    /\ durable = 0
    /\ tip = None
    /\ lock = None
    /\ pc = [p \in Proc |-> "down"]
    /\ chain = [p \in Proc |-> FALSE]
    /\ head = [p \in Proc |-> NoHead]
    /\ dropped = [p \in Proc |-> 0]
    /\ buffer = [p \in Proc |-> <<>>]
    /\ nextId = 1
    /\ emitted = [p \in Proc |-> {}]
    /\ interrupted = FALSE
    /\ late = {}

Goto(p, s) == pc' = [pc EXCEPT ![p] = s]

\* emit() returns: the file lock is released if it was taken.
Return(p) ==
    /\ Goto(p, "idle")
    /\ lock' = IF lock = p THEN None ELSE lock

\* The first statement of emit() after the payload checks.
EmitStart(p, chained) == Goto(p, IF chained THEN "lock" ELSE "flush")

\* The processes in S end: their memory is gone, the kernel drops their lock.
End(S) ==
    /\ pc' = [p \in Proc |-> IF p \in S THEN "down" ELSE pc[p]]
    /\ lock' = IF lock \in S THEN None ELSE lock
    /\ head' = [p \in Proc |-> IF p \in S THEN NoHead ELSE head[p]]
    /\ dropped' = [p \in Proc |-> IF p \in S THEN 0 ELSE dropped[p]]
    /\ buffer' = [p \in Proc |-> IF p \in S THEN <<>> ELSE buffer[p]]
    /\ emitted' = [p \in Proc |-> IF p \in S THEN {} ELSE emitted[p]]
    /\ chain' = [p \in Proc |-> IF p \in S THEN FALSE ELSE chain[p]]

\* Bound: the records under way and those emitted fit in MaxRecords.
Room ==
    nextId + Cardinality({p \in Proc : pc[p] \in {"lock", "scan", "flush"}})
        <= MaxRecords

\* AuditLog(): open the file and emit "audit_log_opened".  (The tail scan of
\* the constructor is repeated by that emit.)
Open(p) ==
    /\ pc[p] = "down"
    /\ Room
    /\ \E c \in ChainModes :
           /\ chain' = [chain EXCEPT ![p] = c]
           /\ EmitStart(p, c)
    /\ UNCHANGED <<file, durable, tip, lock, head, dropped, buffer, nextId,
                   histVars>>

\* emit() of an event and a payload that pass the checks.
Emit(p) ==
    /\ pc[p] = "idle"
    /\ Room
    /\ EmitStart(p, chain[p])
    /\ UNCHANGED <<file, durable, tip, lock, chain, head, dropped, buffer,
                   nextId, histVars>>

\* with FileLock(...): the lock is granted ...
TakeLock(p) ==
    /\ pc[p] = "lock"
    /\ lock = None
    /\ lock' = p
    /\ Goto(p, "scan")
    /\ UNCHANGED <<file, durable, tip, chain, head, dropped, buffer, nextId,
                   histVars>>

\* ... or FileLockTimeoutError leaves emit(): nothing was written and the
\* caller is told.  In the constructor it ends the program.
LockTimeout(p) ==
    /\ pc[p] = "lock"
    /\ lock # None
    /\ IF emitted[p] = {}
       THEN End({p})
       ELSE Goto(p, "idle")
            /\ UNCHANGED <<lock, chain, head, dropped, buffer, emitted>>
    /\ UNCHANGED <<file, durable, tip, nextId, interrupted, late>>

Scan_Skipped(p) ==
    /\ pc[p] = "scan"
    /\ Goto(p, "flush")
    /\ UNCHANGED <<file, durable, tip, lock, chain, head, dropped, buffer,
                   nextId, histVars>>
Scan(p) ==
    /\ pc[p] = "scan"
    /\ head' = [head EXCEPT ![p] = TailState]
    /\ Goto(p, "flush")
    /\ UNCHANGED <<file, durable, tip, lock, chain, dropped, buffer, nextId,
                   histVars>>

\* The line _write_record() makes.
NewLine(p) ==
    [id |-> nextId, by |-> p, chained |-> chain[p],
     prev |-> IF chain[p] THEN head[p].prev ELSE 0,
     seq |-> IF chain[p] THEN head[p].seq ELSE 0,
     drops |-> dropped[p], whole |-> TRUE, ended |-> TRUE]

\* write() and flush(): the new line, after whatever is still buffered, goes
\* to the file.
Flush(p) ==
    /\ pc[p] = "flush"
    /\ file' = Appended(file, Append(buffer[p], NewLine(p)))
    /\ buffer' = [buffer EXCEPT ![p] = <<>>]
    /\ nextId' = nextId + 1
    /\ interrupted' = (interrupted \/ chain[p])
    /\ Goto(p, "sync")
    /\ UNCHANGED <<durable, tip, lock, chain, head, dropped, emitted, late>>

\* The except clause: count the record as dropped and return.
DropRecord_Uncounted(p, id) ==
    /\ dropped' = dropped
    /\ emitted' = [emitted EXCEPT ![p] = @ \cup {id}]
    /\ Return(p)
DropRecord(p, id) ==
    /\ dropped' = [dropped EXCEPT ![p] = @ + 1]
    /\ emitted' = [emitted EXCEPT ![p] = @ \cup {id}]
    /\ Return(p)

\* flush() raises OSError.  The BufferedWriter keeps the bytes it could not
\* write and writes them with the next record.
FlushFails(p) ==
    /\ "flush" \in Faults
    /\ pc[p] = "flush"
    /\ buffer' = [buffer EXCEPT ![p] = Append(@, NewLine(p))]
    /\ nextId' = nextId + 1
    /\ DropRecord(p, nextId)
    /\ late' = late \cup {nextId}
    /\ UNCHANGED <<file, durable, tip, chain, head, interrupted>>

\* The id of the record p has just appended.
MyLast(p) ==
    LET mine == {i \in 1..Len(file) : file[i].by = p}
    IN  file[CHOOSE i \in mine : \A j \in mine : j <= i].id

\* fsync(): the record is on disk and every earlier drop has been reported.
Sync(p) ==
    /\ pc[p] = "sync"
    /\ durable' = Len(file)
    /\ dropped' = [dropped EXCEPT ![p] = 0]
    /\ head' = [head EXCEPT ![p] = [prev |-> MyLast(p), seq |-> @.seq + 1]]
    /\ emitted' = [emitted EXCEPT ![p] = @ \cup {MyLast(p)}]
    /\ IF chain[p] THEN Goto(p, "tip") /\ UNCHANGED lock ELSE Return(p)
    /\ UNCHANGED <<file, tip, chain, buffer, nextId, interrupted, late>>

\* fsync() raises OSError: the record is in the file and counted as dropped.
SyncFails(p) ==
    /\ "fsync" \in Faults
    /\ pc[p] = "sync"
    /\ DropRecord(p, MyLast(p))
    /\ UNCHANGED <<file, durable, tip, chain, head, buffer, nextId,
                   interrupted, late>>

\* atomic_write_bytes(tip), its OSError suppressed; the file lock is released.
Tip_Stale(p) ==
    /\ pc[p] = "tip"
    /\ tip' = [head[p] EXCEPT !.seq = @]
    /\ interrupted' = FALSE
    /\ Return(p)
    /\ UNCHANGED <<file, durable, chain, head, dropped, buffer, nextId,
                   emitted, late>>
Tip(p) ==
    /\ pc[p] = "tip"
    /\ \/ /\ tip' = [head[p] EXCEPT !.seq = @ - 1]
          /\ interrupted' = FALSE
       \/ /\ "tip" \in Faults
          /\ UNCHANGED <<tip, interrupted>>
    /\ Return(p)
    /\ UNCHANGED <<file, durable, chain, head, dropped, buffer, nextId,
                   emitted, late>>

\* close(): flush what a failed flush() left behind, without the file lock.
Close(p) ==
    /\ pc[p] = "idle"
    /\ \/ file' = Appended(file, buffer[p])
       \/ "flush" \in Faults /\ UNCHANGED file
    /\ End({p})
    /\ UNCHANGED <<durable, tip, nextId, interrupted, late>>

\* The instance is killed.
Kill(p) ==
    /\ "kill" \in Faults
    /\ pc[p] # "down"
    /\ End({p})
    /\ UNCHANGED <<file, durable, tip, nextId, interrupted, late>>

\* The machine loses power: lines that were not fsynced are gone, except that
\* the first of them may be left torn, without its end.
PowerLoss ==
    /\ "power" \in Faults
    /\ End(Proc)
    /\ \E n \in durable..Len(file) :
           /\ \/ file' = SubSeq(file, 1, n)
              \/ /\ n > durable
                 /\ file' = [SubSeq(file, 1, n) EXCEPT
                               ![n].whole = FALSE, ![n].ended = FALSE]
           /\ durable' = n
    /\ UNCHANGED <<tip, nextId, interrupted, late>>

Next ==
    \/ \E p \in Proc :
          \/ Open(p) \/ Emit(p) \/ TakeLock(p) \/ LockTimeout(p) \/ Scan(p)
          \/ Flush(p) \/ FlushFails(p) \/ Sync(p) \/ SyncFails(p) \/ Tip(p)
          \/ Close(p) \/ Kill(p)
    \/ PowerLoss

Spec == Init /\ [][Next]_vars

-----------------------------------------------------------------------------
\* The three things that do break the chain: a torn line, a record whose flush()
\* failed and that came to the file with a later one, and lines written with
\* and without audit.hash_chain in one file.
Disturbed ==
    \E i \in 1..Len(file) :
        \/ ~ file[i].whole
        \/ file[i].id \in late
        \/ file[i].chained # file[1].chained

\* Whatever instances do side by side, and wherever one is killed or fails, the
\* chain verify_chain() walks stays linked and gap-free.
ChainStaysLinked == TypeOK /\ (~ Disturbed => LinksHold)

\* The startup check warns of tampering only if the newest append was cut off
\* from its tip: by an instance that is about to write it, that was killed, or
\* whose fsync or tip write failed.  The next complete emit heals the tip.
WarningNeedsInterruption == ~ Disturbed /\ ~ interrupted => VerifyChain

\* Of the records ids, those that are not among the lines.
Missing(lines, ids) == ids \ {lines[i].id : i \in 1..Len(lines)}

\* The losses that the records ids among the lines report, one pair for each.
Reported(lines, ids) ==
    UNION {{i} \X (1..lines[i].drops) : i \in {k \in 1..Len(lines) : lines[k].id \in ids}}

\* `_write_record' counts a record it could not write "so it is reported rather
\* than vanishing silently": as many as are missing in the file are counted in
\* _dropped or in the dropped_audit_records of a later record.  (A record that
\* was glued to a torn line is in the file.)
NoSilentLoss ==
    \A p \in Proc : pc[p] # "down" =>
        Cardinality(Missing(file, emitted[p]))
            <= dropped[p] + Cardinality(Reported(file, emitted[p]))

=============================================================================
