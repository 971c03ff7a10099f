----------------------------- MODULE KeyUnlock ------------------------------
(***************************************************************************)
(* services/key_unlock_service.py with the parts of KeyService, FidoService*)
(* and MetadataStore it works on: keys whose passphrase is a random secret *)
(* that only the stored unlock slots can give back.                        *)
(*                                                                         *)
(* A task is a worker thread running one service call.  The keyring, the   *)
(* slot table and the tokens are shared; the secret itself lives in the    *)
(* memory of the creating task and is gone when that call ends.            *)
(***************************************************************************)
EXTENDS Naturals, Sequences, FiniteSets

CONSTANTS
    Key,        \* fingerprints gpg can come up with
    Token,      \* security keys
    Task,       \* worker threads
    None,       \* no key, no token
    MaxSlots,   \* MAX_KEY_UNLOCK_SLOTS
    MaxRows,    \* bound on the slot rows ever written
    Faults      \* what may go wrong, a subset of Fault

Fault == {"generate", "late generate", "store", "undo", "discard", "audit",
          "record", "crash", "restore"}

ASSUME NoneAssumption == None \notin Key \cup Token
ASSUME FaultAssumption == Faults \subseteq Fault
ASSUME BoundAssumption == MaxSlots \in Nat /\ MaxRows \in Nat

VARIABLES
    born,       \* the keys that exist or have existed
    keyring,    \* the keys gpg has, with their secret part
    sealed,     \* the keys whose passphrase nobody has ever seen
    fallback,   \* the keys created with an emergency passphrase
    vault,      \* the keys some vault file holds a copy of
    rows,       \* the rows of key_unlock_slot
    nextRow,    \* AUTOINCREMENT
    pc,         \* pc[t]: the next step of the call t runs
    job,        \* job[t]: the local variables of that call
    denied,     \* history: keys whose creation was reported to have failed
    harm        \* history: harm[k]: the faults that have hit key k

keyVars == <<born, keyring, sealed, fallback, vault>>
rowVars == <<rows, nextRow>>
histVars == <<denied, harm>>

vars == <<keyVars, rowVars, pc, job, histVars>>

Row == [id: Nat, key: Key, kind: {"fido", "passphrase"}, token: Token]

\* todo: slots still to be stored; stored: rows stored so far; tries: token
\* slots still to be tried; pinOk: the PIN given is right; burned: wrong PINs
\* this call has entered; token: the one plugged in during the call.
Job ==
    [op: {"none", "create", "bind", "unlock", "delete"}, key: Key \cup {None},
     token: Token \cup {None}, todo: Seq({"fido", "passphrase"}),
     stored: SUBSET Nat, tries: SUBSET Row, pinOk: BOOLEAN, burned: Nat]

Step == {"idle", "enroll", "generate", "store", "undo", "discard", "try",
         "gpg delete", "audit", "record", "forget"}

\* The steps of a creation in which the key exists and the secret is still in
\* the memory of the task.
HasSecret == {"store", "undo", "discard"}

TypeOK ==
    /\ born \subseteq Key
    /\ keyring \subseteq born
    /\ sealed \subseteq born
    /\ fallback \subseteq sealed
    /\ vault \subseteq born
    /\ \A r \in rows : r \in Row /\ r.id < nextRow
    /\ nextRow \in 1..MaxRows + 1
    /\ pc \in [Task -> Step]
    /\ \A t \in Task : job[t] \in Job
    /\ denied \subseteq sealed
    /\ harm \in [Key -> SUBSET Fault]
    \* row ids are primary keys
    /\ \A r, s \in rows : r.id = s.id => r = s

-----------------------------------------------------------------------------
RowsOf(k) == {r \in rows : r.key = k}

\* unlock_slots() filtered by kind.
TokenSlots(k) == {r \in RowsOf(k) : r.kind = "fido"}

\* Every way in that was asked for when k was made is stored.
Complete(k) ==
    /\ TokenSlots(k) # {}
    /\ k \in fallback => \E r \in RowsOf(k) : r.kind = "passphrase"

\* The loop over them goes from the oldest row to the newest.
NextSlot(t) ==
    CHOOSE r \in job[t].tries : \A s \in job[t].tries : r.id <= s.id

\* A creation still has the secret of k and will store it or discard the key.
InFlight(k) ==
    \E t \in Task : /\ job[t].op = "create"
                    /\ job[t].key = k
                    /\ pc[t] \in HasSecret

NoJob ==
    [op |-> "none", key |-> None, token |-> None,
     todo |-> <<>>, stored |-> {}, tries |-> {}, pinOk |-> TRUE,
     burned |-> 0]

Init ==
    /\ keyring \in SUBSET Key           \* keys made without a token
    /\ born = keyring
    /\ sealed = {}
    /\ fallback = {}
    /\ vault = {}
    /\ rows = {}
    /\ nextRow = 1
    /\ pc = [t \in Task |-> "idle"]
    /\ job = [t \in Task |-> NoJob]
    /\ denied = {}
    /\ harm = [k \in Key |-> {}]

Goto(t, s) == pc' = [pc EXCEPT ![t] = s]

Hit(k, fault) == harm' = [harm EXCEPT ![k] = @ \cup {fault}]

\* The call is over, whether it returns or raises.
End(t) ==
    /\ Goto(t, "idle")
    /\ job' = [job EXCEPT ![t] = NoJob]

\* Bound: every slot that is still to be stored fits into MaxRows.
Room(n) ==
    nextRow + n + Cardinality(UNION {{t} \X DOMAIN job[t].todo : t \in Task})
        <= MaxRows + 1

-----------------------------------------------------------------------------
\* create_key_with_token(), its inputs valid.  Half of the calls ask for an
\* emergency passphrase.
CreateStart(t) ==
    /\ pc[t] = "idle"
    /\ \E d \in Token, slots \in {<<"fido">>, <<"fido", "passphrase">>} :
           /\ Room(Len(slots))
           /\ job' = [job EXCEPT ![t] = [NoJob EXCEPT
                         !.op = "create", !.token = d, !.todo = slots]]
    /\ Goto(t, "enroll")
    /\ UNCHANGED <<keyVars, rowVars, histVars>>

\* bind_existing_key(): the passphrase has been proved right by signing, so it
\* is one the user knows.
BindStart(t) ==
    /\ pc[t] = "idle"
    /\ Room(1)
    /\ \E k \in keyring \ sealed, d \in Token :
           job' = [job EXCEPT ![t] = [NoJob EXCEPT
                      !.op = "bind", !.key = k, !.token = d,
                      !.todo = <<"fido">>]]
    /\ Goto(t, "enroll")
    /\ UNCHANGED <<keyVars, rowVars, histVars>>

\* FidoService.enroll(): two touches, a credential and its secret; or an error,
\* a wrong PIN included, which ends the call.
Enroll(t) ==
    /\ pc[t] = "enroll"
    /\ \/ /\ Goto(t, IF job[t].op = "create" THEN "generate" ELSE "store")
          /\ UNCHANGED job
       \/ End(t)
    /\ UNCHANGED <<keyVars, rowVars, histVars>>

\* gpg writes a new key under the random secret.
NewKey(t, k) ==
    /\ k \notin born
    /\ born' = born \cup {k}
    /\ keyring' = keyring \cup {k}
    /\ sealed' = sealed \cup {k}
    /\ fallback' = IF Len(job[t].todo) = 2 THEN fallback \cup {k} ELSE fallback

\* GPGService.generate_key(): the fingerprint comes back; or gpg fails; or it
\* fails late, by timeout or without a KEY_CREATED line, with the key written.
Generate(t) ==
    /\ pc[t] = "generate"
    /\ \/ \E k \in Key :
             /\ NewKey(t, k)
             /\ job' = [job EXCEPT ![t].key = k]
             /\ Goto(t, "store")
             /\ UNCHANGED <<histVars>>
       \/ /\ "generate" \in Faults
          /\ End(t)
          /\ UNCHANGED <<histVars, born, keyring, sealed, fallback>>
       \/ /\ "late generate" \in Faults
          /\ \E k \in Key :
                /\ NewKey(t, k)
                /\ denied' = denied \cup {k}
                /\ Hit(k, "late generate")
          /\ End(t)
    /\ UNCHANGED <<rowVars, vault>>

\* MetadataStore.add_unlock_slot(): one transaction.
AddSlot(t) ==
    /\ Cardinality(RowsOf(job[t].key)) < MaxSlots
    /\ rows' = rows \cup {[id |-> nextRow, key |-> job[t].key,
                           kind |-> Head(job[t].todo), token |-> job[t].token]}
    /\ nextRow' = nextRow + 1

\* _persist(): the next slot is stored; the last one ends a bind, a creation
\* goes on to KeyService's audit record.
Store(t) ==
    /\ pc[t] = "store"
    /\ AddSlot(t)
    /\ IF Len(job[t].todo) > 1
       THEN /\ job' = [job EXCEPT ![t].todo = Tail(@),
                                  ![t].stored = @ \cup {nextRow}]
            /\ UNCHANGED pc
       ELSE IF job[t].op = "create"
       THEN Goto(t, "audit") /\ job' = [job EXCEPT ![t].todo = <<>>]
       ELSE End(t)
    /\ UNCHANGED <<keyVars, histVars>>

\* The store is full or raises.
StoreFails(t) ==
    /\ pc[t] = "store"
    /\ \/ "store" \in Faults
       \/ Cardinality(RowsOf(job[t].key)) >= MaxSlots
    /\ job' = [job EXCEPT ![t].todo = <<>>]
    /\ Goto(t, "undo")
    /\ UNCHANGED <<keyVars, rowVars, histVars>>

\* The except clause of _persist(): delete the rows stored so far, which may
\* raise in turn; a creation then discards the key.
Undo_Forgotten(t) ==
    /\ pc[t] = "undo"
    /\ IF job[t].op = "create"
       THEN Goto(t, "audit") /\ UNCHANGED job
       ELSE End(t)
    /\ UNCHANGED <<keyVars, rowVars, histVars>>
Undo_DiscardsAlways(t) ==
    /\ pc[t] = "undo"
    /\ rows' = {r \in rows : r.id \notin job[t].stored}
    /\ Goto(t, "discard")
    /\ UNCHANGED <<keyVars, histVars, nextRow, job>>
Undo(t) ==
    /\ pc[t] = "undo"
    /\ \/ rows' = {r \in rows : r.id \notin job[t].stored}
       \/ "undo" \in Faults /\ UNCHANGED rows
    /\ IF job[t].op = "create"
       THEN Goto(t, "discard") /\ UNCHANGED job
       ELSE End(t)
    /\ UNCHANGED <<keyVars, histVars, nextRow>>

\* _discard_unopenable_key(): best effort, then the error is re-raised.
Discard_Forgotten(t) ==
    /\ pc[t] = "discard"
    /\ denied' = denied \cup {job[t].key}
    /\ End(t)
    /\ UNCHANGED <<keyVars, rowVars, harm>>
Discard(t) ==
    /\ pc[t] = "discard"
    /\ \/ keyring' = keyring \ {job[t].key} /\ UNCHANGED harm
       \/ /\ "discard" \in Faults
          /\ Hit(job[t].key, "discard")
          /\ UNCHANGED keyring
    /\ denied' = denied \cup {job[t].key}
    /\ End(t)
    /\ UNCHANGED <<rowVars, born, sealed, fallback, vault>>

-----------------------------------------------------------------------------
\* unlock_with_token(): the key's token slots are read once.
UnlockStart(t) ==
    /\ pc[t] = "idle"
    /\ \E k \in keyring, d \in Token, p \in BOOLEAN :
           /\ TokenSlots(k) # {}
           /\ job' = [job EXCEPT ![t] = [NoJob EXCEPT
                         !.op = "unlock", !.key = k, !.token = d, !.pinOk = p,
                         !.tries = TokenSlots(k)]]
    /\ Goto(t, "try")
    /\ UNCHANGED <<keyVars, rowVars, histVars>>

\* The errors _translate() and _client_error() make of a token's status; the
\* unnamed rest is "device".
TokenError == {"pin", "touch", "unavailable", "credential", "device"}

\* _is_fatal_token_error(): errors of the device rather than of one slot.
IsFatal_NotPin(e) == e \in {"touch", "unavailable"}
IsFatal(e) == e \in {"pin", "touch", "unavailable"}

\* After an error: raise, or try the next slot; none left, raise.
GiveUpOrGoOn(t, e, burnt) ==
    IF IsFatal(e) \/ job[t].tries = {NextSlot(t)}
    THEN End(t)
    ELSE /\ job' = [job EXCEPT ![t].tries = @ \ {NextSlot(t)},
                               ![t].burned = @ + burnt]
         /\ UNCHANGED pc

\* One round of the loop: the PIN is checked first, then the touch, then the
\* credential; a token that has it gives the passphrase back.
Try(t) ==
    /\ pc[t] = "try"
    /\ \/ ~ job[t].pinOk /\ GiveUpOrGoOn(t, "pin", 1)
       \/ \E e \in TokenError \ {"pin", "credential"} :
             GiveUpOrGoOn(t, e, 0)
       \/ /\ job[t].pinOk
          /\ IF NextSlot(t).token = job[t].token
             THEN End(t)
             ELSE GiveUpOrGoOn(t, "credential", 0)
    /\ UNCHANGED <<keyVars, rowVars, histVars>>

-----------------------------------------------------------------------------
\* KeyService.delete(including_secret=True).
DeleteStart(t) ==
    /\ pc[t] = "idle"
    /\ \E k \in keyring :
           job' = [job EXCEPT ![t] = [NoJob EXCEPT !.op = "delete", !.key = k]]
    /\ Goto(t, "gpg delete")
    /\ UNCHANGED <<keyVars, rowVars, histVars>>

\* GPGService.delete_key(): gone, or it raises and the key stays.
GpgDelete(t) ==
    /\ pc[t] = "gpg delete"
    /\ \/ /\ keyring' = keyring \ {job[t].key}
          /\ Goto(t, "audit")
          /\ UNCHANGED job
       \/ End(t) /\ UNCHANGED keyring
    /\ UNCHANGED <<rowVars, histVars, born, sealed, fallback, vault>>

\* The strict AuditLog.emit() of KeyService.create_with_token and .delete.
\* If it raises, the call is reported as failed: a creation after the key is
\* complete, a deletion before the slots are dropped.
Audit(t) ==
    /\ pc[t] = "audit"
    /\ \/ /\ Goto(t, IF job[t].op = "delete" THEN "forget" ELSE "record")
          /\ UNCHANGED <<job, denied>>
       \/ /\ "audit" \in Faults
          /\ denied' = IF job[t].op = "create" THEN denied \cup {job[t].key}
                                              ELSE denied
          /\ End(t)
    /\ UNCHANGED <<keyVars, rowVars, harm>>

\* _record_new_key(), the last step of a creation: the label and the notes are
\* stored, which may raise, and the new key is looked up in the keyring, which
\* raises when it is not there any more.
Record(t) ==
    /\ pc[t] = "record"
    /\ \/ /\ job[t].key \in keyring
          /\ UNCHANGED denied
       \/ /\ "record" \in Faults \/ job[t].key \notin keyring
          /\ denied' = denied \cup {job[t].key}
    /\ End(t)
    /\ UNCHANGED <<keyVars, rowVars, harm>>

\* forget_key(): every unlock slot of the key is dropped.
Forget(t) ==
    /\ pc[t] = "forget"
    /\ rows' = rows \ RowsOf(job[t].key)
    /\ End(t)
    /\ UNCHANGED <<keyVars, nextRow, histVars>>

\* A vault keeps a copy of the key as it is in the keyring, without its slots.
Export ==
    /\ \E k \in keyring :
           /\ k \in sealed => RowsOf(k) # {}
           /\ vault' = vault \cup {k}
    /\ UNCHANGED <<rowVars, histVars, born, keyring, sealed, fallback,
                   pc, job>>

\* VaultService.import_keys() of a key that is not in the keyring.
Restore ==
    /\ "restore" \in Faults
    /\ \E k \in vault \ keyring :
           keyring' = keyring \cup {k} /\ Hit(k, "restore")
    /\ UNCHANGED <<rowVars, denied, born, sealed, fallback, vault,
                   pc, job>>

\* The program ends in the middle of its calls; secrets in memory are gone.
Crash ==
    /\ "crash" \in Faults
    /\ pc' = [t \in Task |-> "idle"]
    /\ job' = [t \in Task |-> NoJob]
    /\ harm' = [k \in Key |->
                   IF InFlight(k) THEN harm[k] \cup {"crash"} ELSE harm[k]]
    /\ UNCHANGED <<keyVars, rowVars, denied>>

Next ==
    \/ \E t \in Task :
          \/ CreateStart(t) \/ BindStart(t) \/ Enroll(t) \/ Generate(t)
          \/ Store(t) \/ StoreFails(t) \/ Undo(t) \/ Discard(t)
          \/ UnlockStart(t) \/ Try(t)
          \/ DeleteStart(t) \/ GpgDelete(t) \/ Audit(t) \/ Record(t)
          \/ Forget(t)
    \/ Export \/ Restore \/ Crash

Spec == Init /\ [][Next]_vars

-----------------------------------------------------------------------------
\* What is left of "the ordering rules that keep a key from ending up openable by
\* nobody".  The docstring has the slots stored before the key exists;
\* create_key_with_token() stores them afterwards, so a key whose passphrase
\* nobody knows and that has no slot is possible (NobodyIsLockedOut).  It takes a
\* gpg error after the key was written, a failed discard, a crash while only the
\* creating call has the secret, or a restore from a vault after its slots were
\* dropped; failing storage, a failing undo and concurrent calls never do it.
\* Likewise a half-stored set (NoHalfSet) takes a crash, or a key that was to be
\* discarded and stayed or came back.
WaysInAreKept ==
    /\ TypeOK
    /\ \A k \in keyring \cap sealed :
        \/ InFlight(k)
        \/ RowsOf(k) # {}
        \/ harm[k] \cap {"late generate", "discard", "crash", "restore"} # {}
    /\ \A k \in keyring \cap fallback :
        \/ InFlight(k)
        \/ RowsOf(k) = {}
        \/ \E r \in RowsOf(k) : r.kind = "passphrase"
        \/ harm[k] \cap {"discard", "crash", "restore"} # {}

\* A creation that is reported as failed has left no key behind, or one with
\* every way in that was asked for: the audit log, the store of the labels or the
\* listing failed after the fact.  A key in between takes a gpg error after the
\* key was written, a failed discard or a restore from a vault.
FailureIsTrue ==
    \A k \in denied \cap keyring :
        \/ Complete(k)
        \/ harm[k] \cap {"late generate", "discard", "restore"} # {}

\* "Derive from the token first, persist the slots, and only then create the key
\* [...] an unopenable key is not [harmless]" (key_unlock_service.py): a key whose
\* passphrase nobody knows has a slot, or the secret is still in memory.
NobodyIsLockedOut ==
    \A k \in keyring \cap sealed : InFlight(k) \/ RowsOf(k) # {}

\* "All or nothing: a half-written set could leave a token-only key where the user
\* asked for a fallback" (_persist()).
NoHalfSet ==
    \A k \in keyring \cap fallback :
        InFlight(k) \/ RowsOf(k) = {} \/ Complete(k)

\* unlock_with_token enters a wrong PIN once, never again for the next slot:
\* a token locks itself after a few.
OneWrongPinPerCall == \A t \in Task : job[t].burned = 0

\* "Nothing here changes an existing key": a key the user had before is taken
\* out of the keyring by a deletion of that key only.
UserKeysKept ==
    [][\A k \in (keyring \ keyring') \ sealed :
          \E t \in Task : pc[t] = "gpg delete" /\ job[t].key = k]_vars

=============================================================================
