-------------------------- MODULE KeyUnlockProofs ---------------------------
(***************************************************************************)
(* Proofs about KeyUnlock for any keys, tokens, worker threads, faults and *)
(* bounds.                                                                 *)
(***************************************************************************)
EXTENDS KeyUnlock, FiniteSetTheorems, TLAPS

\* The slot lists _persist() works through: all of them, or what is left.
TokenOnly == <<"fido">>
WithFallback == <<"fido", "passphrase">>
FallbackLeft == <<"passphrase">>

\* Types, with job as the function it is.
TypeInv == TypeOK /\ job \in [Task -> Job]

\* Which calls are at which step, and what they know of their key there.
CallShape(t) ==
    /\ pc[t] \in {"enroll", "generate"} =>
           /\ job[t].todo \in {TokenOnly, WithFallback}
           /\ job[t].stored = {}
    /\ pc[t] \in {"enroll", "generate", "store"} => job[t].token \in Token
    /\ pc[t] = "enroll" => job[t].op \in {"create", "bind"}
    /\ pc[t] = "generate" => job[t].op = "create"
    /\ pc[t] = "store" => job[t].todo \in {TokenOnly, WithFallback, FallbackLeft}
    /\ pc[t] \in HasSecret =>
           /\ job[t].op \in {"create", "bind"}
           /\ job[t].key \in born
    /\ pc[t] = "discard" => job[t].op = "create"
    /\ pc[t] = "audit" => job[t].op \in {"create", "delete"}
    /\ pc[t] = "record" => job[t].op = "create"
    /\ pc[t] \in {"gpg delete", "forget"} => job[t].op = "delete"

\* The key of a creation is sealed from the moment gpg has made it; a key a
\* token is bound to is one the user knows the passphrase of.
KeyOfCall(t) ==
    /\ job[t].op = "create" /\ pc[t] \in HasSecret \cup {"audit", "record"}
           => job[t].key \in sealed
    /\ job[t].op = "bind" =>
           /\ job[t].key \in born \ sealed
           /\ job[t].stored = {}
           /\ pc[t] \in {"enroll", "store"} => job[t].todo = TokenOnly
    /\ job[t].op = "delete" => job[t].key \in born

\* Of a key with an emergency passphrase, that slot is stored last.
FallbackIsLast(t) ==
    job[t].op = "create" /\ pc[t] = "store" /\ job[t].key \in fallback
        => job[t].todo \in {WithFallback, FallbackLeft}

\* A deletion drops the slots of a key that gpg has deleted, unless it came back.
DeletedFirst(t) ==
    job[t].op = "delete" /\ pc[t] \in {"audit", "forget"}
        => job[t].key \notin keyring \/ "restore" \in harm[job[t].key]

\* The rows _persist() remembers are rows of its own key.
StoredRows(t) ==
    /\ \A n \in job[t].stored : n < nextRow
    /\ \A r \in rows : r.id \in job[t].stored => r.key = job[t].key

CallOK(t) == /\ CallShape(t) /\ KeyOfCall(t) /\ FallbackIsLast(t)
             /\ DeletedFirst(t) /\ StoredRows(t)

Calls == \A t \in Task : CallOK(t)

\* There are rows of existing keys only.
RowsOfBorn == \A r \in rows : r.key \in born

\* The slots that are still to be stored fit into the bound.
ToStore == UNION {{t} \X DOMAIN job[t].todo : t \in Task}
RowsFit ==
    /\ IsFiniteSet(ToStore)
    /\ nextRow + Cardinality(ToStore) <= MaxRows + 1

\* The two parts of WaysInAreKept, for one key.
WayIn(k) ==
    \/ InFlight(k)
    \/ RowsOf(k) # {}
    \/ harm[k] \cap {"late generate", "discard", "crash", "restore"} # {}
FallbackKept(k) ==
    \/ InFlight(k)
    \/ RowsOf(k) = {}
    \/ \E r \in RowsOf(k) : r.kind = "passphrase"
    \/ harm[k] \cap {"discard", "crash", "restore"} # {}

WaysIn == /\ \A k \in keyring \cap sealed : WayIn(k)
          /\ \A k \in keyring \cap fallback : FallbackKept(k)

\* The inductive invariant.
IInv ==
    /\ TypeInv
    /\ Calls
    /\ RowsOfBorn
    /\ RowsFit
    /\ WaysIn
    /\ OneWrongPinPerCall

-----------------------------------------------------------------------------
\* The slot lists as sequences.
LEMMA SlotLists ==
  /\ {TokenOnly, WithFallback, FallbackLeft, <<>>}
         \subseteq Seq({"fido", "passphrase"})
  /\ Len(TokenOnly) = 1 /\ DOMAIN TokenOnly = 1..1
  /\ Len(FallbackLeft) = 1 /\ DOMAIN FallbackLeft = 1..1
  /\ Len(WithFallback) = 2 /\ DOMAIN WithFallback = 1..2
  /\ DOMAIN << >> = {}
  /\ Head(TokenOnly) = "fido" /\ Head(WithFallback) = "fido"
  /\ Head(FallbackLeft) = "passphrase" /\ Tail(WithFallback) = FallbackLeft
  /\ WithFallback # TokenOnly /\ FallbackLeft # TokenOnly
  BY DEF TokenOnly, WithFallback, FallbackLeft

\* What the local variables are when a call is over.
LEMMA NoJobFacts ==
  /\ NoJob \in Job /\ NoJob.op = "none" /\ NoJob.key = None
  /\ NoJob.todo = <<>> /\ NoJob.stored = {} /\ NoJob.burned = 0
  BY SlotLists DEF NoJob, Job

\* Types that most steps use.
LEMMA TypeFacts ==
  ASSUME TypeInv
  PROVE  nextRow \in Nat /\ nextRow <= nextRow /\ born \subseteq Key
  BY BoundAssumption DEF TypeInv, TypeOK

\* A call that stores no slot leaves room for the others.
LEMMA FitShrinks ==
  ASSUME RowsFit, nextRow \in Nat, nextRow' = nextRow,
         \A u \in Task : DOMAIN job'[u].todo \subseteq DOMAIN job[u].todo
  PROVE  RowsFit'
<1>1. ToStore' \in SUBSET ToStore
  BY DEF ToStore
<1>2. IsFiniteSet(ToStore') /\ Cardinality(ToStore') <= Cardinality(ToStore)
  BY <1>1, FS_Subset DEF RowsFit
<1>3. Cardinality(ToStore) \in Nat /\ Cardinality(ToStore') \in Nat
  BY <1>2, FS_CardinalityType DEF RowsFit
<1>4. QED
  BY <1>2, <1>3, BoundAssumption DEF RowsFit

\* A call starts only if its slots fit in as well.
LEMMA FitGrows ==
  ASSUME RowsFit, nextRow \in Nat, nextRow' = nextRow,
         NEW t \in Task, NEW n \in Nat, Room(n),
         DOMAIN job'[t].todo = 1..n,
         \A u \in Task \ {t} : DOMAIN job'[u].todo = DOMAIN job[u].todo
  PROVE  RowsFit'
<1> DEFINE New == {t} \X (1..n)
<1>1. IsFiniteSet(New) /\ Cardinality(New) = n
  <2>1. IsFiniteSet(1..n) /\ Cardinality(1..n) = n
    BY FS_Interval
  <2>2. IsFiniteSet({t}) /\ Cardinality({t}) = 1
    BY FS_Singleton
  <2>3. IsFiniteSet(New) /\ Cardinality(New) = 1 * n
    BY <2>1, <2>2, FS_Product
  <2>4. QED
    BY <2>3
<1>2. IsFiniteSet(ToStore) /\ Cardinality(ToStore) \in Nat
  BY FS_CardinalityType DEF RowsFit
<1>3. /\ IsFiniteSet(ToStore \cup New)
      /\ Cardinality(ToStore \cup New)
             = Cardinality(ToStore) + n - Cardinality(ToStore \cap New)
  BY <1>1, <1>2, FS_Union
<1>4. IsFiniteSet(ToStore \cap New)
  BY <1>2, FS_Intersection
<1>5. Cardinality(ToStore \cap New) \in Nat
  BY <1>4, FS_CardinalityType
<1>6. Cardinality(ToStore \cup New) \in Nat
  BY <1>3, FS_CardinalityType
<1>7. ToStore' \in SUBSET (ToStore \cup New)
  BY DEF ToStore
<1>8. /\ IsFiniteSet(ToStore')
      /\ Cardinality(ToStore') <= Cardinality(ToStore \cup New)
  BY <1>3, <1>7, FS_Subset
<1>9. Cardinality(ToStore') \in Nat
  BY <1>8, FS_CardinalityType
<1>10. nextRow + n + Cardinality(ToStore) <= MaxRows + 1
  BY DEF Room, ToStore
<1>11. QED
  BY <1>2, <1>3, <1>5, <1>6, <1>8, <1>9, <1>10, BoundAssumption DEF RowsFit

\* A stored slot takes a place that was kept for it.
LEMMA FitStore ==
  ASSUME RowsFit, nextRow \in Nat, nextRow' = nextRow + 1,
         NEW t \in Task, NEW n \in Nat \ {0},
         DOMAIN job[t].todo = 1..n, DOMAIN job'[t].todo = 1..n - 1,
         \A u \in Task \ {t} : DOMAIN job'[u].todo = DOMAIN job[u].todo
  PROVE  RowsFit' /\ nextRow' <= MaxRows + 1
<1>1. IsFiniteSet(ToStore) /\ Cardinality(ToStore) \in Nat
  BY FS_CardinalityType DEF RowsFit
<1>2. <<t, n>> \in ToStore
  BY DEF ToStore
<1>3. /\ IsFiniteSet(ToStore \ {<<t, n>>})
      /\ Cardinality(ToStore \ {<<t, n>>}) = Cardinality(ToStore) - 1
  BY <1>1, <1>2, FS_RemoveElement
<1>4. ToStore' \in SUBSET (ToStore \ {<<t, n>>})
  <2>1. SUFFICES ASSUME NEW x \in ToStore' PROVE x \in ToStore /\ x # <<t, n>>
    OBVIOUS
  <2>2. PICK u \in Task : x \in {u} \X DOMAIN job'[u].todo
    BY <2>1 DEF ToStore
  <2>3. PICK i \in DOMAIN job'[u].todo : x = <<u, i>>
    BY <2>2
  <2>4. CASE u = t
    <3>1. i \in 1..n /\ i # n
      BY <2>3, <2>4
    <3>2. x \in {t} \X DOMAIN job[t].todo
      BY <2>3, <2>4, <3>1
    <3>3. QED
      BY <2>3, <2>4, <3>1, <3>2 DEF ToStore
  <2>5. CASE u # t
    BY <2>2, <2>3, <2>5 DEF ToStore
  <2>6. QED
    BY <2>4, <2>5
<1>5. /\ IsFiniteSet(ToStore')
      /\ Cardinality(ToStore') <= Cardinality(ToStore) - 1
  BY <1>3, <1>4, FS_Subset
<1>6. Cardinality(ToStore') \in Nat
  BY <1>5, FS_CardinalityType
<1>7. QED
  BY <1>1, <1>5, <1>6, BoundAssumption DEF RowsFit

-----------------------------------------------------------------------------
\* A step of the call t: it goes to s with the local variables j.
Local(t, j, s) ==
    /\ job' = [job EXCEPT ![t] = j]
    /\ pc' = [pc EXCEPT ![t] = s]

\* What a step of one call does to the calls.
LEMMA LocalStep ==
  ASSUME TypeInv, NEW t \in Task, NEW j \in Job, NEW s \in Step, Local(t, j, s)
  PROVE  /\ job' \in [Task -> Job] /\ pc' \in [Task -> Step]
         /\ job'[t] = j /\ pc'[t] = s
         /\ \A u \in Task \ {t} : job'[u] = job[u] /\ pc'[u] = pc[u]
  BY DEF Local, TypeInv, TypeOK

\* The other calls are not concerned by new keys, by new rows or by rows that
\* go, and a key that was deleted comes back only by a restore.
LEMMA OtherCalls ==
  ASSUME TypeInv, Calls, NEW u \in Task,
         job'[u] = job[u], pc'[u] = pc[u],
         born \subseteq born', sealed \subseteq sealed',
         sealed' \cap born \subseteq sealed,
         fallback' \cap born \subseteq fallback,
         \A k \in born : k \notin keyring \/ "restore" \in harm[k]
                            => k \notin keyring' \/ "restore" \in harm'[k],
         nextRow' \in Nat, nextRow <= nextRow',
         \A r \in rows' \ rows : r.id = nextRow
  PROVE  CallOK(u)'
<1> USE DEF TypeInv, TypeOK
<1>1. CallOK(u) /\ job[u] \in Job
  BY DEF Calls
<1>2. CallShape(u)' /\ KeyOfCall(u)'
  BY <1>1 DEF CallOK, CallShape, KeyOfCall
<1>3. FallbackIsLast(u)'
  BY <1>1 DEF CallOK, CallShape, FallbackIsLast, HasSecret
<1>4. DeletedFirst(u)'
  BY <1>1 DEF CallOK, KeyOfCall, DeletedFirst
<1>5. StoredRows(u)'
  <2>1. job[u].stored \subseteq Nat
    BY <1>1 DEF Job
  <2>2. \A n \in job[u].stored : n < nextRow
    BY <1>1 DEF CallOK, StoredRows
  <2>3. \A n \in job'[u].stored : n < nextRow'
    BY <2>1, <2>2
  <2>4. \A r \in rows' : r.id \in job[u].stored => r \in rows
    BY <2>1, <2>2
  <2>5. QED
    BY <1>1, <2>3, <2>4 DEF CallOK, StoredRows
<1>6. QED
  BY <1>2, <1>3, <1>4, <1>5 DEF CallOK

\* A step that changes nothing but the state of its own call, and does not lose
\* the secret of a creation.
LEMMA QuietStep ==
  ASSUME IInv, NEW t \in Task, NEW j \in Job, NEW s \in Step, Local(t, j, s),
         UNCHANGED <<keyVars, rowVars, histVars>>,
         j.burned = 0, CallOK(t)', RowsFit',
         job[t].op = "create" /\ pc[t] \in HasSecret
             => j.op = "create" /\ j.key = job[t].key /\ s \in HasSecret
  PROVE  IInv'
<1> USE DEF keyVars, rowVars, histVars
<1>1. TypeInv
  BY DEF IInv
<1>2. /\ job' \in [Task -> Job] /\ pc' \in [Task -> Step]
      /\ job'[t] = j /\ pc'[t] = s
      /\ \A u \in Task \ {t} : job'[u] = job[u] /\ pc'[u] = pc[u]
  BY <1>1, LocalStep
<1>3. TypeInv'
  BY <1>1, <1>2 DEF TypeInv, TypeOK
<1>4. ASSUME NEW u \in Task PROVE CallOK(u)'
  <2>1. CASE u # t
    BY <1>1, <1>2, <2>1, OtherCalls DEF IInv, TypeInv, TypeOK
  <2>2. QED
    BY <2>1
<1>5. RowsOfBorn'
  BY DEF IInv, RowsOfBorn
<1>6. \A k \in Key : InFlight(k) => InFlight(k)'
  BY <1>2 DEF InFlight
<1>7. \A k \in Key : RowsOf(k)' = RowsOf(k)
  BY DEF RowsOf
<1>8. WaysIn'
  <2>1. \A k \in Key : WayIn(k) => WayIn(k)'
    BY <1>6, <1>7 DEF WayIn
  <2>2. \A k \in Key : FallbackKept(k) => FallbackKept(k)'
    BY <1>6, <1>7 DEF FallbackKept
  <2>3. QED
    BY <1>1, <2>1, <2>2 DEF IInv, WaysIn, TypeInv, TypeOK
<1>9. OneWrongPinPerCall'
  BY <1>2 DEF IInv, OneWrongPinPerCall
<1>10. QED
  BY <1>3, <1>4, <1>5, <1>8, <1>9 DEF IInv, Calls

\* A call that ends without having the secret of a creation.
LEMMA EndStep ==
  ASSUME IInv, NEW t \in Task, End(t), UNCHANGED <<keyVars, rowVars, histVars>>,
         job[t].op = "create" => pc[t] \notin HasSecret
  PROVE  IInv'
<1>1. Local(t, NoJob, "idle") /\ "idle" \in Step
  BY DEF Local, End, Goto, Step
<1>2. job'[t] = NoJob /\ pc'[t] = "idle"
      /\ \A u \in Task \ {t} : job'[u] = job[u] /\ pc'[u] = pc[u]
  BY <1>1, NoJobFacts, LocalStep DEF IInv
<1>3. CallOK(t)'
  BY <1>2, NoJobFacts
  DEF CallOK, CallShape, KeyOfCall, FallbackIsLast, DeletedFirst, StoredRows,
      HasSecret
<1>4. RowsFit'
  <2>1. nextRow \in Nat /\ nextRow' = nextRow
    BY DEF IInv, TypeInv, TypeOK, rowVars
  <2>2. \A u \in Task : DOMAIN job'[u].todo \subseteq DOMAIN job[u].todo
    BY <1>2, NoJobFacts, SlotLists
  <2>3. QED
    BY <2>1, <2>2, FitShrinks DEF IInv
<1>5. QED
  BY <1>1, <1>3, <1>4, NoJobFacts, QuietStep

\* The start of a call: nothing but its own state and the room for its slots
\* changes.
LEMMA StartStep ==
  ASSUME IInv, NEW t \in Task, NEW j \in Job, NEW s \in Step, Local(t, j, s),
         pc[t] = "idle", UNCHANGED <<keyVars, rowVars, histVars>>,
         j.burned = 0, CallOK(t)',
         NEW n \in Nat, Room(n), DOMAIN j.todo = 1..n
  PROVE  IInv'
<1>1. job'[t] = j
      /\ \A u \in Task \ {t} : job'[u] = job[u] /\ pc'[u] = pc[u]
  BY LocalStep DEF IInv
<1>2. nextRow \in Nat /\ nextRow' = nextRow
  BY DEF IInv, TypeInv, TypeOK, rowVars
<1>3. RowsFit'
  BY <1>1, <1>2, FitGrows DEF IInv
<1>4. QED
  BY <1>3, QuietStep DEF HasSecret

\* create_key_with_token() starts.
LEMMA StepCreateStart ==
  ASSUME IInv, NEW t \in Task, CreateStart(t) PROVE IInv'
<1>1. PICK d \in Token, slots \in {<<"fido">>, <<"fido", "passphrase">>} :
         /\ Room(Len(slots))
         /\ job' = [job EXCEPT ![t] = [NoJob EXCEPT
                       !.op = "create", !.token = d, !.todo = slots]]
  BY DEF CreateStart
<1> DEFINE j == [NoJob EXCEPT !.op = "create", !.token = d, !.todo = slots]
<1>2. slots \in {TokenOnly, WithFallback}
  BY DEF TokenOnly, WithFallback
<1>3. slots \in Seq({"fido", "passphrase"}) /\ Len(slots) \in Nat
      /\ DOMAIN slots = 1..Len(slots)
  BY <1>2, SlotLists
<1>4. /\ j \in Job /\ j.op = "create" /\ j.token = d /\ j.todo = slots
      /\ j.stored = {} /\ j.burned = 0
  BY <1>3 DEF NoJob, Job
<1>5. Local(t, j, "enroll") /\ "enroll" \in Step
  BY <1>1 DEF CreateStart, Local, Goto, Step
<1>6. job'[t] = j /\ pc'[t] = "enroll"
  BY <1>4, <1>5, LocalStep DEF IInv
<1>7. CallOK(t)'
  BY <1>2, <1>4, <1>6
  DEF CallOK, CallShape, KeyOfCall, FallbackIsLast, DeletedFirst, StoredRows,
      HasSecret
<1>8. pc[t] = "idle" /\ UNCHANGED <<keyVars, rowVars, histVars>>
  BY DEF CreateStart
<1> HIDE DEF j
<1>9. QED
  BY <1>1, <1>3, <1>4, <1>5, <1>7, <1>8, StartStep

\* bind_existing_key() starts.
LEMMA StepBindStart ==
  ASSUME IInv, NEW t \in Task, BindStart(t) PROVE IInv'
<1>1. PICK k \in keyring \ sealed, d \in Token :
         job' = [job EXCEPT ![t] = [NoJob EXCEPT
                    !.op = "bind", !.key = k, !.token = d, !.todo = <<"fido">>]]
  BY DEF BindStart
<1> DEFINE j == [NoJob EXCEPT !.op = "bind", !.key = k, !.token = d,
                              !.todo = TokenOnly]
<1>2. k \in born \ sealed /\ k \in Key
  BY DEF IInv, TypeInv, TypeOK
<1>3. /\ j \in Job /\ j.op = "bind" /\ j.key = k /\ j.token = d
      /\ j.todo = TokenOnly /\ j.stored = {} /\ j.burned = 0
  BY <1>2, SlotLists DEF NoJob, Job
<1>4. Local(t, j, "enroll") /\ "enroll" \in Step
  BY <1>1 DEF BindStart, Local, Goto, Step, TokenOnly
<1>5. job'[t] = j /\ pc'[t] = "enroll"
  BY <1>3, <1>4, LocalStep DEF IInv
<1>6. pc[t] = "idle" /\ Room(1) /\ UNCHANGED <<keyVars, rowVars, histVars>>
  BY DEF BindStart
<1>7. CallOK(t)'
  BY <1>2, <1>3, <1>5, <1>6
  DEF CallOK, CallShape, KeyOfCall, FallbackIsLast, DeletedFirst, StoredRows,
      HasSecret, keyVars
<1> HIDE DEF j
<1>8. QED
  BY <1>3, <1>4, <1>6, <1>7, SlotLists, StartStep

\* A step that adds nothing to the slots still to be stored.
LEMMA StayStep ==
  ASSUME IInv, NEW t \in Task, NEW j \in Job, NEW s \in Step, Local(t, j, s),
         UNCHANGED <<keyVars, rowVars, histVars>>,
         j.burned = 0, CallOK(t)', j.todo \in {job[t].todo, <<>>},
         job[t].op = "create" /\ pc[t] \in HasSecret
             => j.op = "create" /\ j.key = job[t].key /\ s \in HasSecret
  PROVE  IInv'
<1>1. job'[t] = j
      /\ \A u \in Task \ {t} : job'[u] = job[u] /\ pc'[u] = pc[u]
  BY LocalStep DEF IInv
<1>2. nextRow \in Nat /\ nextRow' = nextRow
  BY DEF IInv, TypeInv, TypeOK, rowVars
<1>3. \A u \in Task : DOMAIN job'[u].todo \subseteq DOMAIN job[u].todo
  BY <1>1, SlotLists
<1>4. RowsFit'
  BY <1>2, <1>3, FitShrinks DEF IInv
<1>5. QED
  BY <1>4, QuietStep

\* FidoService.enroll() has returned or raised.
LEMMA StepEnroll ==
  ASSUME IInv, NEW t \in Task, Enroll(t) PROVE IInv'
<1> DEFINE s == IF job[t].op = "create" THEN "generate" ELSE "store"
<1>1. pc[t] = "enroll" /\ CallOK(t) /\ UNCHANGED <<keyVars, rowVars, histVars>>
  BY DEF Enroll, IInv, Calls
<1>2. CASE Goto(t, s) /\ UNCHANGED job
  <2>1. job[t] \in Job /\ job[t].burned = 0 /\ s \in Step
    BY DEF IInv, TypeInv, OneWrongPinPerCall, Step
  <2>2. Local(t, job[t], s)
    BY <1>2 DEF Local, Goto, IInv, TypeInv
  <2>3. job'[t] = job[t] /\ pc'[t] = s
    BY <2>1, <2>2, LocalStep DEF IInv
  <2>4. CallOK(t)'
    BY <1>1, <2>3 DEF CallOK, CallShape, KeyOfCall, FallbackIsLast,
       DeletedFirst, StoredRows, HasSecret, keyVars, rowVars, histVars
  <2>5. QED
    BY <1>1, <2>1, <2>2, <2>4, StayStep DEF HasSecret
<1>3. CASE End(t)
  BY <1>1, <1>3, EndStep DEF HasSecret
<1>4. QED
  BY <1>2, <1>3 DEF Enroll

\* add_unlock_slot() raises.
LEMMA StepStoreFails ==
  ASSUME IInv, NEW t \in Task, StoreFails(t) PROVE IInv'
<1> DEFINE j == [job[t] EXCEPT !.todo = <<>>]
<1>1. pc[t] = "store" /\ CallOK(t) /\ UNCHANGED <<keyVars, rowVars, histVars>>
  BY DEF StoreFails, IInv, Calls
<1>2. job[t] \in Job /\ job[t].burned = 0
  BY DEF IInv, TypeInv, OneWrongPinPerCall
<1>3. /\ j \in Job /\ j.op = job[t].op /\ j.key = job[t].key
      /\ j.stored = job[t].stored /\ j.todo = <<>> /\ j.burned = 0
  BY <1>2, SlotLists DEF Job
<1>4. Local(t, j, "undo") /\ "undo" \in Step
  BY DEF StoreFails, Local, Goto, Step, IInv, TypeInv
<1>5. job'[t] = j /\ pc'[t] = "undo"
  BY <1>3, <1>4, LocalStep DEF IInv
<1> HIDE DEF j
<1>6. CallOK(t)'
  BY <1>1, <1>3, <1>5 DEF CallOK, CallShape, KeyOfCall, FallbackIsLast,
     DeletedFirst, StoredRows, HasSecret, keyVars, rowVars, histVars
<1>7. QED
  BY <1>1, <1>3, <1>4, <1>6, StayStep DEF HasSecret

\* unlock_with_token() starts.
LEMMA StepUnlockStart ==
  ASSUME IInv, NEW t \in Task, UnlockStart(t) PROVE IInv'
<1>1. PICK k \in keyring, d \in Token, p \in BOOLEAN :
         job' = [job EXCEPT ![t] = [NoJob EXCEPT
                    !.op = "unlock", !.key = k, !.token = d, !.pinOk = p,
                    !.tries = TokenSlots(k)]]
  BY DEF UnlockStart
<1> DEFINE j == [NoJob EXCEPT !.op = "unlock", !.key = k, !.token = d,
                              !.pinOk = p, !.tries = TokenSlots(k)]
<1>2. k \in Key /\ TokenSlots(k) \subseteq Row
  BY DEF IInv, TypeInv, TypeOK, TokenSlots, RowsOf
<1>3. /\ j \in Job /\ j.op = "unlock" /\ j.todo = <<>>
      /\ j.stored = {} /\ j.burned = 0
  BY <1>2, SlotLists DEF NoJob, Job
<1>4. Local(t, j, "try") /\ "try" \in Step
  BY <1>1 DEF UnlockStart, Local, Goto, Step
<1>5. job'[t] = j /\ pc'[t] = "try"
  BY <1>3, <1>4, LocalStep DEF IInv
<1> HIDE DEF j
<1>6. CallOK(t)'
  BY <1>3, <1>5 DEF CallOK, CallShape, KeyOfCall, FallbackIsLast,
     DeletedFirst, StoredRows, HasSecret
<1>7. pc[t] = "idle" /\ UNCHANGED <<keyVars, rowVars, histVars>>
  BY DEF UnlockStart
<1>8. QED
  BY <1>3, <1>4, <1>6, <1>7, StayStep DEF HasSecret

\* KeyService.delete() starts.
LEMMA StepDeleteStart ==
  ASSUME IInv, NEW t \in Task, DeleteStart(t) PROVE IInv'
<1>1. PICK k \in keyring :
         job' = [job EXCEPT ![t] = [NoJob EXCEPT !.op = "delete", !.key = k]]
  BY DEF DeleteStart
<1> DEFINE j == [NoJob EXCEPT !.op = "delete", !.key = k]
<1>2. k \in Key /\ k \in born
  BY DEF IInv, TypeInv, TypeOK
<1>3. /\ j \in Job /\ j.op = "delete" /\ j.key = k /\ j.todo = <<>>
      /\ j.stored = {} /\ j.burned = 0
  BY <1>2, SlotLists DEF NoJob, Job
<1>4. Local(t, j, "gpg delete") /\ "gpg delete" \in Step
  BY <1>1 DEF DeleteStart, Local, Goto, Step
<1>5. job'[t] = j /\ pc'[t] = "gpg delete"
  BY <1>3, <1>4, LocalStep DEF IInv
<1> HIDE DEF j
<1>6. pc[t] = "idle" /\ UNCHANGED <<keyVars, rowVars, histVars>>
  BY DEF DeleteStart
<1>7. CallOK(t)'
  BY <1>2, <1>3, <1>5, <1>6 DEF CallOK, CallShape, KeyOfCall, FallbackIsLast,
     DeletedFirst, StoredRows, HasSecret, keyVars
<1>8. QED
  BY <1>3, <1>4, <1>6, <1>7, StayStep DEF HasSecret

\* One round of the loop of unlock_with_token(): a wrong PIN ends it.
LEMMA StepTry ==
  ASSUME IInv, NEW t \in Task, Try(t) PROVE IInv'
<1>1. pc[t] = "try" /\ CallOK(t) /\ UNCHANGED <<keyVars, rowVars, histVars>>
  BY DEF Try, IInv, Calls
<1>2. End(t) \/ \E e : ~ IsFatal(e) /\ GiveUpOrGoOn(t, e, 0)
  BY DEF Try, GiveUpOrGoOn, IsFatal
<1>3. CASE End(t)
  BY <1>1, <1>3, EndStep DEF HasSecret
<1>4. CASE ~ End(t)
  <2> DEFINE j == [job[t] EXCEPT !.tries = @ \ {NextSlot(t)},
                                 !.burned = @ + 0]
  <2>1. job' = [job EXCEPT ![t].tries = @ \ {NextSlot(t)}, ![t].burned = @ + 0]
        /\ UNCHANGED pc
    BY <1>2, <1>4 DEF GiveUpOrGoOn
  <2>2. job[t] \in Job /\ job[t].burned = 0
    BY DEF IInv, TypeInv, OneWrongPinPerCall
  <2>3. /\ j \in Job /\ j.op = job[t].op /\ j.key = job[t].key
        /\ j.stored = job[t].stored /\ j.todo = job[t].todo /\ j.burned = 0
    <3>1. job[t].tries \ {NextSlot(t)} \subseteq Row /\ job[t].burned + 0 = 0
      BY <2>2 DEF Job
    <3>2. QED
      BY <2>2, <3>1 DEF Job
  <2>4. Local(t, j, "try") /\ "try" \in Step
    BY <1>1, <2>1 DEF Local, Step, IInv, TypeInv, TypeOK
  <2>5. job'[t] = j /\ pc'[t] = "try"
    BY <2>3, <2>4, LocalStep DEF IInv
  <2> HIDE DEF j
  <2>6. CallOK(t)'
    BY <1>1, <2>3, <2>5 DEF CallOK, CallShape, KeyOfCall, FallbackIsLast,
       DeletedFirst, StoredRows, HasSecret, keyVars, rowVars, histVars
  <2>7. QED
    BY <1>1, <2>3, <2>4, <2>6, StayStep DEF HasSecret
<1>5. QED
  BY <1>3, <1>4

-----------------------------------------------------------------------------
\* A creation of another key keeps its secret.
LEMMA InFlightKept ==
  ASSUME NEW t \in Task, NEW k,
         \A u \in Task \ {t} : job'[u] = job[u] /\ pc'[u] = pc[u],
         ~ (job[t].op = "create" /\ job[t].key = k /\ pc[t] \in HasSecret)
  PROVE  InFlight(k) => InFlight(k)'
  BY DEF InFlight

\* gpg has made the key, has failed, or has failed late.
LEMMA StepGenerate ==
  ASSUME IInv, NEW t \in Task, Generate(t) PROVE IInv'
<1> USE DEF rowVars, histVars
<1>1. /\ pc[t] = "generate" /\ CallOK(t) /\ TypeInv /\ job[t] \in Job
      /\ job[t].burned = 0 /\ job[t].op = "create"
      /\ job[t].todo \in {TokenOnly, WithFallback} /\ job[t].stored = {}
      /\ job[t].token \in Token /\ nextRow \in Nat
  <2>1. pc[t] = "generate" /\ CallOK(t) /\ TypeInv
    BY DEF Generate, IInv, Calls
  <2>2. job[t] \in Job /\ job[t].burned = 0 /\ nextRow \in Nat
    BY DEF IInv, TypeInv, TypeOK, OneWrongPinPerCall
  <2>3. QED
    BY <2>1, <2>2 DEF CallOK, CallShape
<1>2. /\ born \subseteq Key /\ keyring \subseteq born /\ sealed \subseteq born
      /\ fallback \subseteq sealed /\ vault \subseteq born
      /\ denied \subseteq sealed /\ harm \in [Key -> SUBSET Fault]
  BY DEF IInv, TypeInv, TypeOK
\* the consequences of a new key for the other calls
<1>3. ASSUME NEW k \in Key, NewKey(t, k),
             \A u \in Task \ {t} : job'[u] = job[u] /\ pc'[u] = pc[u],
             UNCHANGED rowVars,
             \A l \in born : harm'[l] = harm[l]
      PROVE  /\ \A u \in Task \ {t} : CallOK(u)'
             /\ RowsOfBorn'
             /\ k \notin fallback' \/ job[t].todo = WithFallback
             /\ \A l \in (keyring' \cap sealed') \ {k} : WayIn(l)'
             /\ \A l \in (keyring' \cap fallback') \ {k} : FallbackKept(l)'
  <2>1. /\ k \notin born /\ born' = born \cup {k} /\ keyring' = keyring \cup {k}
        /\ sealed' = sealed \cup {k}
        /\ fallback' \subseteq fallback \cup {k}
        /\ job[t].todo # WithFallback => fallback' = fallback
    BY <1>1, <1>3, SlotLists DEF NewKey
  <2>2. ASSUME NEW u \in Task \ {t} PROVE CallOK(u)'
    BY <1>1, <1>2, <1>3, <2>1, OtherCalls DEF IInv
  <2>3. RowsOfBorn'
    BY <1>3, <2>1 DEF IInv, RowsOfBorn
  <2>4. \A l \in born : (WayIn(l) => WayIn(l)')
                        /\ (FallbackKept(l) => FallbackKept(l)')
    <3>1. \A l \in born : InFlight(l) => InFlight(l)'
      BY <1>1, <1>3, InFlightKept DEF HasSecret
    <3>2. \A l : RowsOf(l)' = RowsOf(l)
      BY <1>3 DEF RowsOf
    <3>3. QED
      BY <1>3, <3>1, <3>2 DEF WayIn, FallbackKept
  <2>5. /\ \A l \in (keyring' \cap sealed') \ {k} : WayIn(l)'
        /\ \A l \in (keyring' \cap fallback') \ {k} : FallbackKept(l)'
    BY <1>2, <2>1, <2>4 DEF IInv, WaysIn
  <2>6. QED
    BY <1>2, <2>1, <2>2, <2>3, <2>5
<1>4. ASSUME NEW k \in Key, NewKey(t, k), job' = [job EXCEPT ![t].key = k],
             Goto(t, "store"), UNCHANGED <<histVars, rowVars, vault>>
      PROVE  IInv'
  <2> DEFINE j == [job[t] EXCEPT !.key = k]
  <2>1. /\ j \in Job /\ j.op = "create" /\ j.key = k /\ j.todo = job[t].todo
        /\ j.stored = {} /\ j.burned = 0 /\ j.token \in Token
    BY <1>1 DEF Job
  <2>2. Local(t, j, "store") /\ "store" \in Step
    BY <1>4 DEF Local, Goto, Step, IInv, TypeInv
  <2>3. /\ job' \in [Task -> Job] /\ pc' \in [Task -> Step]
        /\ job'[t] = j /\ pc'[t] = "store"
        /\ \A u \in Task \ {t} : job'[u] = job[u] /\ pc'[u] = pc[u]
    BY <1>1, <2>1, <2>2, LocalStep
  <2> HIDE DEF j
  <2>4. /\ \A u \in Task \ {t} : CallOK(u)'
        /\ RowsOfBorn'
        /\ k \notin fallback' \/ job[t].todo = WithFallback
        /\ \A l \in (keyring' \cap sealed') \ {k} : WayIn(l)'
        /\ \A l \in (keyring' \cap fallback') \ {k} : FallbackKept(l)'
    BY <1>3, <1>4, <2>3
  <2>5. k \in born' /\ k \in sealed'
    BY <1>4 DEF NewKey
  <2>6. CallOK(t)'
    BY <1>1, <2>1, <2>3, <2>4, <2>5
    DEF CallOK, CallShape, KeyOfCall, FallbackIsLast, DeletedFirst, StoredRows,
        HasSecret
  <2>7. TypeInv'
    BY <1>1, <1>2, <1>4, <2>3 DEF NewKey, TypeInv, TypeOK
  <2>8. RowsFit'
    <3>1. \A u \in Task : DOMAIN job'[u].todo \subseteq DOMAIN job[u].todo
      BY <2>1, <2>3
    <3>2. QED
      BY <1>1, <1>4, <3>1, FitShrinks DEF IInv
  <2>9. InFlight(k)'
    BY <2>1, <2>3 DEF InFlight, HasSecret
  <2>10. WaysIn'
    BY <2>4, <2>9 DEF WaysIn, WayIn, FallbackKept
  <2>11. OneWrongPinPerCall'
    BY <1>4, <2>1, <2>3, <2>4 DEF IInv, OneWrongPinPerCall
  <2>12. QED
    BY <2>4, <2>6, <2>7, <2>8, <2>10, <2>11 DEF IInv, Calls
<1>5. CASE End(t) /\ UNCHANGED <<histVars, born, keyring, sealed, fallback>>
  BY <1>1, <1>5, EndStep DEF Generate, HasSecret, keyVars
<1>6. ASSUME NEW k \in Key, NewKey(t, k), denied' = denied \cup {k},
             Hit(k, "late generate"), End(t), UNCHANGED <<rowVars, vault>>
      PROVE  IInv'
  <2>1. Local(t, NoJob, "idle") /\ "idle" \in Step
    BY <1>6 DEF Local, End, Goto, Step
  <2>2. /\ job' \in [Task -> Job] /\ pc' \in [Task -> Step]
        /\ job'[t] = NoJob /\ pc'[t] = "idle"
        /\ \A u \in Task \ {t} : job'[u] = job[u] /\ pc'[u] = pc[u]
    BY <1>1, <2>1, LocalStep, NoJobFacts
  <2>3. /\ k \notin born
        /\ harm' \in [Key -> SUBSET Fault] /\ "late generate" \in harm'[k]
        /\ \A l \in born : harm'[l] = harm[l]
    BY <1>2, <1>6 DEF NewKey, Hit, Fault
  <2>4. /\ \A u \in Task \ {t} : CallOK(u)'
        /\ RowsOfBorn'
        /\ \A l \in (keyring' \cap sealed') \ {k} : WayIn(l)'
        /\ \A l \in (keyring' \cap fallback') \ {k} : FallbackKept(l)'
    BY <1>3, <1>6, <2>2, <2>3
  <2>5. CallOK(t)'
    BY <2>2, NoJobFacts
    DEF CallOK, CallShape, KeyOfCall, FallbackIsLast, DeletedFirst, StoredRows,
        HasSecret
  <2>6. TypeInv'
    BY <1>1, <1>2, <1>6, <2>2, <2>3 DEF NewKey, TypeInv, TypeOK
  <2>7. RowsFit'
    <3>1. \A u \in Task : DOMAIN job'[u].todo \subseteq DOMAIN job[u].todo
      BY <2>2, NoJobFacts, SlotLists
    <3>2. QED
      BY <1>1, <1>6, <3>1, FitShrinks DEF IInv
  <2>8. RowsOf(k)' = {}
    BY <1>6, <2>3 DEF IInv, RowsOfBorn, RowsOf
  <2>9. WaysIn'
    BY <2>3, <2>4, <2>8 DEF WaysIn, WayIn, FallbackKept
  <2>10. OneWrongPinPerCall'
    BY <1>6, <2>2, <2>3, <2>4, NoJobFacts
    DEF IInv, OneWrongPinPerCall
  <2>11. QED
    BY <2>4, <2>5, <2>6, <2>7, <2>9, <2>10 DEF IInv, Calls
<1>7. QED
  BY <1>4, <1>5, <1>6 DEF Generate

\* A slot is stored: the first of two, the last of a creation, or that of a bind.
LEMMA StepStore ==
  ASSUME IInv, NEW t \in Task, Store(t) PROVE IInv'
<1> USE DEF keyVars, histVars
<1>0. PICK k : k = job[t].key
  OBVIOUS
<1> DEFINE row == [id |-> nextRow, key |-> k,
                   kind |-> Head(job[t].todo), token |-> job[t].token]
           n == Len(job[t].todo)
<1>1. /\ pc[t] = "store" /\ CallOK(t) /\ TypeInv /\ job[t] \in Job
      /\ job[t].burned = 0 /\ nextRow \in Nat /\ UNCHANGED <<keyVars, histVars>>
  <2>1. pc[t] = "store" /\ CallOK(t) /\ TypeInv /\ UNCHANGED <<keyVars, histVars>>
    BY DEF Store, IInv, Calls
  <2>2. job[t] \in Job /\ job[t].burned = 0 /\ nextRow \in Nat
    BY DEF IInv, TypeInv, TypeOK, OneWrongPinPerCall
  <2>3. QED
    BY <2>1, <2>2
<1>2. /\ job[t].todo \in {TokenOnly, WithFallback, FallbackLeft}
      /\ job[t].op \in {"create", "bind"} /\ k \in born
      /\ job[t].op = "create" => k \in sealed
      /\ job[t].op = "bind" => k \notin sealed /\ job[t].todo = TokenOnly
                               /\ job[t].stored = {}
      /\ job[t].token \in Token
      /\ job[t].op = "create" /\ k \in fallback =>
             job[t].todo \in {WithFallback, FallbackLeft}
      /\ StoredRows(t)
  BY <1>0, <1>1 DEF CallOK, CallShape, KeyOfCall, FallbackIsLast, HasSecret
<1>3. /\ born \subseteq Key /\ keyring \subseteq born /\ sealed \subseteq born
      /\ fallback \subseteq sealed /\ harm \in [Key -> SUBSET Fault]
      /\ \A r \in rows : r \in Row /\ r.id < nextRow
      /\ \A r, q \in rows : r.id = q.id => r = q
  BY <1>1 DEF TypeInv, TypeOK
<1>4. n \in {1, 2} /\ DOMAIN job[t].todo = 1..n
      /\ Head(job[t].todo) \in {"fido", "passphrase"}
      /\ (n = 2 <=> job[t].todo = WithFallback)
      /\ (n = 1 /\ job[t].todo # TokenOnly => Head(job[t].todo) = "passphrase")
  BY <1>2, SlotLists
<1>5. rows' = rows \cup {row} /\ nextRow' = nextRow + 1
  BY <1>0 DEF Store, AddSlot
<1>6. /\ row \in Row /\ row.id = nextRow /\ row.key = k
      /\ row.kind = Head(job[t].todo)
  BY <1>1, <1>2, <1>3, <1>4 DEF Row
<1> HIDE DEF row
\* whatever becomes of the call
<1>7. ASSUME NEW j \in Job, NEW s \in Step, Local(t, j, s), CallOK(t)',
             DOMAIN j.todo = 1..n - 1, j.burned = 0,
             n = 2 => j.op = "create" /\ j.key = k /\ s \in HasSecret
      PROVE  IInv'
  <2>1. /\ job' \in [Task -> Job] /\ pc' \in [Task -> Step]
        /\ job'[t] = j /\ pc'[t] = s
        /\ \A u \in Task \ {t} : job'[u] = job[u] /\ pc'[u] = pc[u]
    BY <1>1, <1>7, LocalStep
  <2>2. RowsFit' /\ nextRow' <= MaxRows + 1
    <3>1. RowsFit /\ nextRow \in Nat /\ nextRow' = nextRow + 1
      BY <1>1, <1>5 DEF IInv
    <3>2. n \in Nat \ {0} /\ DOMAIN job[t].todo = 1..n
      BY <1>4
    <3>3. /\ DOMAIN job'[t].todo = 1..n - 1
          /\ \A u \in Task \ {t} : DOMAIN job'[u].todo = DOMAIN job[u].todo
      BY <1>7, <2>1
    <3> HIDE DEF n
    <3>4. QED
      BY <3>1, <3>2, <3>3, FitStore
  <2>3. TypeInv'
    <3>1. \A r \in rows' : r \in Row /\ r.id < nextRow'
      BY <1>1, <1>3, <1>5, <1>6 DEF Row
    <3>2. \A r, q \in rows' : r.id = q.id => r = q
      BY <1>1, <1>3, <1>5, <1>6 DEF Row
    <3>3. nextRow' \in 1..MaxRows + 1
      BY <1>1, <1>5, <2>2, BoundAssumption
    <3>4. QED
      BY <1>1, <2>1, <3>1, <3>2, <3>3 DEF TypeInv, TypeOK
  <2>4. ASSUME NEW u \in Task \ {t} PROVE CallOK(u)'
    <3>1. nextRow' \in Nat /\ nextRow <= nextRow'
      BY <1>1, <1>5
    <3>2. \A r \in rows' \ rows : r.id = nextRow
      BY <1>5, <1>6
    <3>3. QED
      BY <1>1, <2>1, <3>1, <3>2, OtherCalls DEF IInv
  <2>5. RowsOfBorn'
    BY <1>1, <1>2, <1>5, <1>6 DEF IInv, RowsOfBorn
  <2>6. \A l \in Key \ {k} : RowsOf(l)' = RowsOf(l)
    BY <1>5, <1>6 DEF RowsOf
  <2>7. \A l \in Key \ {k} : InFlight(l) => InFlight(l)'
    BY <1>0, <2>1, InFlightKept
  <2>8. row \in RowsOf(k)'
    BY <1>5, <1>6 DEF RowsOf
  <2>9. k \in fallback => n = 2 \/ row.kind = "passphrase"
    BY <1>2, <1>3, <1>4, <1>6, SlotLists
  <2>10. n = 2 => InFlight(k)'
    BY <1>7, <2>1 DEF InFlight
  <2>11. \A l \in keyring' \cap sealed' : WayIn(l)'
    BY <1>1, <1>3, <2>6, <2>7, <2>8 DEF WayIn, IInv, WaysIn
  <2>12. \A l \in keyring' \cap fallback' : FallbackKept(l)'
    BY <1>1, <1>3, <2>6, <2>7, <2>8, <2>9, <2>10 DEF FallbackKept, IInv, WaysIn
  <2>13. OneWrongPinPerCall'
    BY <1>1, <1>7, <2>1 DEF IInv, OneWrongPinPerCall
  <2>14. QED
    BY <1>7, <2>2, <2>3, <2>4, <2>5, <2>11, <2>12, <2>13
    DEF IInv, Calls, WaysIn
<1>8. CASE n > 1
  <2> DEFINE j == [job[t] EXCEPT !.todo = Tail(@), !.stored = @ \cup {nextRow}]
  <2>1. /\ job' = [job EXCEPT ![t].todo = Tail(@),
                              ![t].stored = @ \cup {nextRow}]
        /\ UNCHANGED pc
    BY <1>8 DEF Store
  <2>2. n = 2 /\ job[t].todo = WithFallback /\ job[t].op = "create"
    BY <1>2, <1>4, <1>8, SlotLists
  <2>3. /\ j \in Job /\ j.op = "create" /\ j.key = k /\ j.todo = FallbackLeft
        /\ j.stored = job[t].stored \cup {nextRow} /\ j.burned = 0
        /\ j.token = job[t].token
    BY <1>0, <1>1, <2>2, SlotLists DEF Job
  <2>4. Local(t, j, "store") /\ "store" \in Step
    BY <1>1, <2>1 DEF Local, Step, TypeInv, TypeOK
  <2>5. job'[t] = j /\ pc'[t] = "store"
    BY <1>1, <2>3, <2>4, LocalStep
  <2> HIDE DEF j
  <2>6. StoredRows(t)'
    <3>1. \A m \in job[t].stored : m \in Nat /\ m < nextRow
      BY <1>1, <1>2 DEF StoredRows, Job
    <3>2. \A m \in j.stored : m < nextRow'
      BY <1>1, <1>5, <2>3, <3>1
    <3>3. \A r \in rows' : r.id \in j.stored => r.key = k
      BY <1>1, <1>2, <1>3, <1>5, <1>6, <1>0, <2>3 DEF StoredRows, Row
    <3>4. QED
      BY <2>3, <2>5, <3>2, <3>3 DEF StoredRows
  <2>7. CallOK(t)'
    BY <1>1, <1>2, <2>2, <2>3, <2>5, <2>6 DEF CallOK, CallShape, KeyOfCall,
       FallbackIsLast, DeletedFirst, HasSecret
  <2>8. DOMAIN j.todo = 1..n - 1
    BY <2>2, <2>3, SlotLists
  <2>9. QED
    BY <1>7, <2>3, <2>4, <2>7, <2>8 DEF HasSecret
<1>9. CASE ~ (n > 1) /\ job[t].op = "create"
  <2> DEFINE j == [job[t] EXCEPT !.todo = <<>>]
  <2>1. Goto(t, "audit") /\ job' = [job EXCEPT ![t].todo = <<>>]
    BY <1>9 DEF Store
  <2>2. /\ j \in Job /\ j.op = "create" /\ j.key = k /\ j.todo = <<>>
        /\ j.stored = job[t].stored /\ j.burned = 0
    BY <1>0, <1>1, <1>9, SlotLists DEF Job
  <2>3. Local(t, j, "audit") /\ "audit" \in Step
    BY <1>1, <2>1 DEF Local, Step, Goto, TypeInv, TypeOK
  <2>4. job'[t] = j /\ pc'[t] = "audit"
    BY <1>1, <2>2, <2>3, LocalStep
  <2> HIDE DEF j
  <2>5. StoredRows(t)'
    <3>1. \A m \in job[t].stored : m \in Nat /\ m < nextRow
      BY <1>1, <1>2 DEF StoredRows, Job
    <3>2. \A m \in j.stored : m < nextRow'
      BY <1>1, <1>5, <2>2, <3>1
    <3>3. \A r \in rows' : r.id \in j.stored => r.key = k
      BY <1>0, <1>1, <1>2, <1>5, <1>6, <2>2 DEF StoredRows
    <3>4. QED
      BY <2>2, <2>4, <3>2, <3>3 DEF StoredRows
  <2>6. CallOK(t)'
    BY <1>1, <1>2, <1>9, <2>2, <2>4, <2>5 DEF CallOK, CallShape, KeyOfCall,
       FallbackIsLast, DeletedFirst, HasSecret
  <2>7. n = 1 /\ DOMAIN j.todo = 1..n - 1
    BY <1>4, <1>9, <2>2, SlotLists
  <2>8. QED
    BY <1>7, <2>2, <2>3, <2>6, <2>7
<1>10. CASE ~ (n > 1) /\ job[t].op # "create"
  <2>1. End(t)
    BY <1>10 DEF Store
  <2>2. Local(t, NoJob, "idle") /\ "idle" \in Step
    BY <2>1 DEF Local, End, Goto, Step
  <2>3. job'[t] = NoJob /\ pc'[t] = "idle"
    BY <1>1, <2>2, LocalStep, NoJobFacts
  <2>4. CallOK(t)'
    BY <2>3, NoJobFacts DEF CallOK, CallShape, KeyOfCall, FallbackIsLast,
       DeletedFirst, StoredRows, HasSecret
  <2>5. n = 1 /\ DOMAIN NoJob.todo = 1..n - 1
    BY <1>4, <1>10, NoJobFacts, SlotLists
  <2>6. QED
    BY <1>7, <2>2, <2>4, <2>5, NoJobFacts
<1>11. QED
  BY <1>8, <1>9, <1>10

\* The except clause of _persist(): only rows of the key of this call go, and a
\* creation keeps the secret until the key is discarded.
LEMMA StepUndo ==
  ASSUME IInv, NEW t \in Task, Undo(t) PROVE IInv'
<1> USE DEF keyVars, rowVars, histVars
<1>0. PICK k : k = job[t].key
  OBVIOUS
<1>1. /\ pc[t] = "undo" /\ CallOK(t) /\ TypeInv
      /\ UNCHANGED <<keyVars, histVars, nextRow>>
  BY DEF Undo, IInv, Calls
<1>2. job[t] \in Job /\ job[t].burned = 0 /\ nextRow \in Nat
  BY DEF IInv, TypeInv, TypeOK, OneWrongPinPerCall
<1>3. /\ job[t].op \in {"create", "bind"} /\ k \in born
      /\ job[t].op = "create" => k \in sealed
      /\ job[t].op = "bind" => job[t].stored = {}
      /\ \A r \in rows : r.id \in job[t].stored => r.key = k
  BY <1>0, <1>1 DEF CallOK, CallShape, KeyOfCall, StoredRows, HasSecret
<1>4. rows' \subseteq rows /\ \A r \in rows : r.key # k => r \in rows'
  BY <1>3 DEF Undo
<1>5. CASE job[t].op = "bind"
  <2>1. rows' = rows /\ End(t)
    BY <1>3, <1>5 DEF Undo
  <2>2. QED
    BY <1>1, <1>5, <2>1, EndStep
<1>6. CASE job[t].op = "create"
  <2>1. Local(t, job[t], "discard") /\ "discard" \in Step
    BY <1>6 DEF Undo, Local, Goto, Step, IInv, TypeInv
  <2>2. /\ job' \in [Task -> Job] /\ pc' \in [Task -> Step]
        /\ job'[t] = job[t] /\ pc'[t] = "discard"
        /\ \A u \in Task \ {t} : job'[u] = job[u] /\ pc'[u] = pc[u]
    BY <1>1, <1>2, <2>1, LocalStep
  <2>3. TypeInv'
    BY <1>1, <1>4, <2>2 DEF TypeInv, TypeOK
  <2>4. CallOK(t)'
    BY <1>0, <1>1, <1>3, <1>4, <1>6, <2>2 DEF CallOK, CallShape, KeyOfCall,
       FallbackIsLast, DeletedFirst, StoredRows, HasSecret
  <2>5. ASSUME NEW u \in Task \ {t} PROVE CallOK(u)'
    BY <1>1, <1>2, <1>4, <2>2, OtherCalls DEF IInv
  <2>6. RowsFit'
    BY <1>1, <1>2, <2>2, FitShrinks DEF IInv
  <2>7. RowsOfBorn'
    BY <1>1, <1>4 DEF IInv, RowsOfBorn
  <2>8. InFlight(k)'
    BY <1>0, <1>6, <2>2 DEF InFlight, HasSecret
  <2>9. \A l \in Key \ {k} : RowsOf(l)' = RowsOf(l)
    BY <1>4 DEF RowsOf
  <2>10. \A l \in Key \ {k} : InFlight(l) => InFlight(l)'
    BY <1>0, <2>2, InFlightKept
  <2>11. keyring \subseteq Key
    BY <1>1 DEF TypeInv, TypeOK
  <2>12. \A l \in keyring' \cap sealed' : WayIn(l)'
    BY <1>1, <2>8, <2>9, <2>10, <2>11 DEF WayIn, IInv, WaysIn
  <2>13. \A l \in keyring' \cap fallback' : FallbackKept(l)'
    BY <1>1, <2>8, <2>9, <2>10, <2>11 DEF FallbackKept, IInv, WaysIn
  <2>14. OneWrongPinPerCall'
    BY <1>1, <1>2, <2>2 DEF IInv, OneWrongPinPerCall
  <2>15. QED
    BY <2>3, <2>4, <2>5, <2>6, <2>7, <2>12, <2>13, <2>14
    DEF IInv, Calls, WaysIn
<1>7. QED
  BY <1>3, <1>5, <1>6

\* A call ends after the keyring, the rows or what is known of its key changed.
LEMMA LastStep ==
  ASSUME IInv, NEW t \in Task, End(t),
         NEW k \in Key, k = job[t].key,
         keyring' \subseteq keyring, rows' \subseteq rows,
         UNCHANGED <<born, sealed, fallback, vault, nextRow>>,
         denied' \subseteq sealed, harm' \in [Key -> SUBSET Fault],
         \A l \in Key : harm[l] \subseteq harm'[l],
         \A l \in Key \ {k} : /\ l \in keyring => l \in keyring'
                              /\ RowsOf(l)' = RowsOf(l),
         k \in keyring' \cap sealed => WayIn(k)',
         k \in keyring' \cap fallback => FallbackKept(k)'
  PROVE  IInv'
<1>1. TypeInv /\ nextRow \in Nat /\ nextRow <= nextRow /\ born \subseteq Key
  <2>1. TypeInv
    BY DEF IInv
  <2>2. QED
    BY <2>1, TypeFacts
<1>2. Local(t, NoJob, "idle") /\ "idle" \in Step
  BY DEF Local, End, Goto, Step
<1>3. /\ job' \in [Task -> Job] /\ pc' \in [Task -> Step]
      /\ job'[t] = NoJob /\ pc'[t] = "idle"
      /\ \A u \in Task \ {t} : job'[u] = job[u] /\ pc'[u] = pc[u]
  BY <1>1, <1>2, LocalStep, NoJobFacts
<1>4. TypeInv'
  BY <1>1, <1>3 DEF TypeInv, TypeOK
<1>5. CallOK(t)'
  BY <1>3, NoJobFacts DEF CallOK, CallShape, KeyOfCall, FallbackIsLast,
     DeletedFirst, StoredRows, HasSecret
<1>6. ASSUME NEW u \in Task \ {t} PROVE CallOK(u)'
  <2>1. \A l \in born : l \notin keyring \/ "restore" \in harm[l]
                           => l \notin keyring' \/ "restore" \in harm'[l]
    BY <1>1
  <2>2. /\ born \subseteq born' /\ sealed \subseteq sealed'
        /\ sealed' \cap born \subseteq sealed
        /\ fallback' \cap born \subseteq fallback
        /\ nextRow' \in Nat /\ nextRow <= nextRow'
        /\ \A r \in rows' \ rows : r.id = nextRow
    BY <1>1, Zenon
  <2>3. Calls /\ job'[u] = job[u] /\ pc'[u] = pc[u]
    BY <1>3 DEF IInv
  <2>4. QED
    BY <1>1, <2>1, <2>2, <2>3, OtherCalls
<1>7. RowsFit'
  <2>1. \A u \in Task : DOMAIN job'[u].todo \subseteq DOMAIN job[u].todo
    BY <1>3, NoJobFacts, SlotLists
  <2>2. QED
    BY <1>1, <2>1, FitShrinks DEF IInv
<1>8. RowsOfBorn'
  BY DEF IInv, RowsOfBorn
<1>9. \A l \in Key \ {k} : InFlight(l) => InFlight(l)'
  BY <1>3, InFlightKept
<1>10. keyring' \subseteq Key
  BY <1>1 DEF TypeInv, TypeOK
<1>11. \A l \in keyring' \cap sealed' : WayIn(l)'
  <2>1. \A l \in (Key \ {k}) : WayIn(l) => WayIn(l)'
    BY <1>9 DEF WayIn
  <2>2. QED
    BY <1>10, <2>1 DEF IInv, WaysIn
<1>12. \A l \in keyring' \cap fallback' : FallbackKept(l)'
  <2>1. \A l \in (Key \ {k}) : FallbackKept(l) => FallbackKept(l)'
    BY <1>9 DEF FallbackKept
  <2>2. QED
    BY <1>10, <2>1 DEF IInv, WaysIn
<1>13. OneWrongPinPerCall'
  BY <1>3, NoJobFacts DEF IInv, OneWrongPinPerCall
<1>14. QED
  BY <1>4, <1>5, <1>6, <1>7, <1>8, <1>11, <1>12, <1>13
  DEF IInv, Calls, WaysIn

\* _discard_unopenable_key() takes the key out of the keyring or is on record.
LEMMA StepDiscard ==
  ASSUME IInv, NEW t \in Task, Discard(t) PROVE IInv'
<1> USE DEF rowVars
<1>0. PICK k : k = job[t].key
  OBVIOUS
<1>1. pc[t] = "discard" /\ CallOK(t) /\ End(t) /\ TypeInv
  BY DEF Discard, IInv, Calls
<1>2. k \in sealed /\ k \in Key
  BY <1>0, <1>1 DEF CallOK, CallShape, KeyOfCall, HasSecret, TypeInv, TypeOK
<1>3. /\ harm \in [Key -> SUBSET Fault] /\ denied \subseteq sealed
  BY <1>1 DEF TypeInv, TypeOK
<1>4. /\ UNCHANGED <<born, sealed, fallback, vault, nextRow, rows>>
      /\ denied' = denied \cup {k}
  BY <1>0 DEF Discard
<1>5. \/ keyring' = keyring \ {k} /\ harm' = harm
      \/ keyring' = keyring /\ harm' = [harm EXCEPT ![k] = @ \cup {"discard"}]
  BY <1>0 DEF Discard, Hit
<1>6. harm' \in [Key -> SUBSET Fault] /\ \A l \in Key : harm[l] \subseteq harm'[l]
  BY <1>2, <1>3, <1>5 DEF Fault
<1>7. k \in keyring' => "discard" \in harm'[k]
  BY <1>2, <1>3, <1>5
<1>8. \A l : RowsOf(l)' = RowsOf(l)
  BY <1>4 DEF RowsOf
<1>9. keyring' \subseteq keyring /\ \A l \in Key \ {k} : l \in keyring => l \in keyring'
  BY <1>5
<1>10. k \in keyring' => WayIn(k)' /\ FallbackKept(k)'
  BY <1>7 DEF WayIn, FallbackKept
<1>11. QED
  BY <1>0, <1>1, <1>2, <1>3, <1>4, <1>6, <1>7, <1>8, <1>9, <1>10, LastStep

\* forget_key() drops the rows of a key that is gone, or that came back from a
\* vault, which is on record.
LEMMA StepForget ==
  ASSUME IInv, NEW t \in Task, Forget(t) PROVE IInv'
<1> USE DEF keyVars, histVars
<1>0. PICK k : k = job[t].key
  OBVIOUS
<1>1. pc[t] = "forget" /\ CallOK(t) /\ End(t) /\ TypeInv
  BY DEF Forget, IInv, Calls
<1>2. /\ k \in born
      /\ k \notin keyring \/ "restore" \in harm[k]
  BY <1>0, <1>1 DEF CallOK, CallShape, KeyOfCall, DeletedFirst
<1>3. /\ harm \in [Key -> SUBSET Fault] /\ denied \subseteq sealed
      /\ born \subseteq Key
  BY <1>1 DEF TypeInv, TypeOK
<1>4. /\ UNCHANGED <<born, keyring, sealed, fallback, vault, nextRow>>
      /\ UNCHANGED <<denied, harm>>
      /\ rows' = rows \ RowsOf(k)
  BY <1>0 DEF Forget
<1>5. rows' \subseteq rows /\ \A l \in Key \ {k} : RowsOf(l)' = RowsOf(l)
  BY <1>4 DEF RowsOf
<1>6. k \in keyring' => WayIn(k)' /\ FallbackKept(k)'
  BY <1>2, <1>4 DEF WayIn, FallbackKept
<1>7. k \in Key /\ harm' \in [Key -> SUBSET Fault]
      /\ \A l \in Key : harm[l] \subseteq harm'[l]
  BY <1>2, <1>3, <1>4
<1>8. QED
  BY <1>0, <1>1, <1>3, <1>4, <1>5, <1>6, <1>7, LastStep

\* A creation has been reported as failed after the fact, or is over.
LEMMA ToldStep ==
  ASSUME IInv, NEW t \in Task, End(t), CallOK(t), pc[t] \notin HasSecret,
         UNCHANGED <<keyVars, rowVars, harm>>,
         NEW k \in Key, k = job[t].key, denied' \subseteq denied \cup {k},
         k \in sealed
  PROVE  IInv'
<1> USE DEF keyVars, rowVars
<1>1. TypeInv /\ harm \in [Key -> SUBSET Fault] /\ denied \subseteq sealed
  BY DEF IInv, TypeInv, TypeOK
<1>2. \A u \in Task \ {t} : job'[u] = job[u] /\ pc'[u] = pc[u]
  BY <1>1 DEF End, Goto, TypeInv, TypeOK
<1>3. InFlight(k) => InFlight(k)'
  BY <1>2, InFlightKept
<1>4. \A l : RowsOf(l)' = RowsOf(l)
  BY DEF RowsOf
<1>5. k \in keyring' \cap sealed => WayIn(k)'
  BY <1>3, <1>4 DEF IInv, WaysIn, WayIn
<1>6. k \in keyring' \cap fallback => FallbackKept(k)'
  BY <1>3, <1>4 DEF IInv, WaysIn, FallbackKept
<1>7. QED
  BY <1>1, <1>4, <1>5, <1>6, LastStep

\* The audit record is written, or refused after the fact.
LEMMA StepAudit ==
  ASSUME IInv, NEW t \in Task, Audit(t) PROVE IInv'
<1>1. pc[t] = "audit" /\ CallOK(t) /\ TypeInv
      /\ UNCHANGED <<keyVars, rowVars, harm>>
  BY DEF Audit, IInv, Calls
<1>2. job[t] \in Job /\ job[t].burned = 0 /\ job[t].op \in {"create", "delete"}
  <2>1. job[t] \in Job /\ job[t].burned = 0
    BY DEF IInv, TypeInv, OneWrongPinPerCall
  <2>2. QED
    BY <1>1, <2>1 DEF CallOK, CallShape
<1>3. CASE End(t) /\ denied' = denied
  BY <1>1, <1>3, EndStep DEF HasSecret, histVars
<1>4. CASE /\ Goto(t, IF job[t].op = "delete" THEN "forget" ELSE "record")
           /\ UNCHANGED <<job, denied>>
  <2> DEFINE s == IF job[t].op = "delete" THEN "forget" ELSE "record"
  <2>1. Local(t, job[t], s) /\ s \in Step
    BY <1>1, <1>4 DEF Local, Goto, Step, TypeInv
  <2>2. job'[t] = job[t] /\ pc'[t] = s
    BY <1>1, <1>2, <2>1, LocalStep
  <2>3. CallOK(t)'
    BY <1>1, <1>2, <1>4, <2>2 DEF CallOK, CallShape, KeyOfCall, FallbackIsLast,
       DeletedFirst, StoredRows, HasSecret, keyVars, rowVars
  <2>4. QED
    BY <1>1, <1>2, <1>4, <2>1, <2>3, StayStep DEF HasSecret, histVars
<1>5. CASE /\ job[t].op = "create" /\ End(t)
           /\ denied' = denied \cup {job[t].key}
  <2>1. job[t].key \in sealed /\ job[t].key \in Key
    BY <1>1, <1>5 DEF CallOK, KeyOfCall, TypeInv, TypeOK
  <2>2. QED
    BY <1>1, <1>5, <2>1, ToldStep DEF HasSecret
<1>6. QED
  BY <1>3, <1>4, <1>5 DEF Audit

\* _record_new_key() has returned or raised.
LEMMA StepRecord ==
  ASSUME IInv, NEW t \in Task, Record(t) PROVE IInv'
<1>1. pc[t] = "record" /\ CallOK(t) /\ TypeInv /\ End(t)
      /\ UNCHANGED <<keyVars, rowVars, harm>>
      /\ denied' \subseteq denied \cup {job[t].key}
  BY DEF Record, IInv, Calls
<1>2. job[t].key \in sealed /\ job[t].key \in Key
  BY <1>1 DEF CallOK, CallShape, KeyOfCall, TypeInv, TypeOK
<1>3. QED
  BY <1>1, <1>2, ToldStep DEF HasSecret

\* GPGService.delete_key() has taken the key out of the keyring, or has raised.
LEMMA StepGpgDelete ==
  ASSUME IInv, NEW t \in Task, GpgDelete(t) PROVE IInv'
<1> USE DEF rowVars, histVars
<1>0. PICK k : k = job[t].key
  OBVIOUS
<1>1. /\ pc[t] = "gpg delete" /\ CallOK(t) /\ TypeInv
      /\ UNCHANGED <<rows, nextRow, denied, harm, born, sealed, fallback, vault>>
  BY DEF GpgDelete, IInv, Calls
<1>2. job[t] \in Job /\ job[t].burned = 0 /\ job[t].op = "delete"
  <2>1. job[t] \in Job /\ job[t].burned = 0
    BY DEF IInv, TypeInv, OneWrongPinPerCall
  <2>2. QED
    BY <1>1, <2>1 DEF CallOK, CallShape
<1>3. CASE End(t) /\ UNCHANGED keyring
  BY <1>1, <1>2, <1>3, EndStep DEF keyVars
<1>4. CASE /\ keyring' = keyring \ {job[t].key}
           /\ Goto(t, "audit") /\ UNCHANGED job
  <2>1. Local(t, job[t], "audit") /\ "audit" \in Step
    BY <1>1, <1>4 DEF Local, Goto, Step, TypeInv
  <2>2. /\ job' \in [Task -> Job] /\ pc' \in [Task -> Step]
        /\ job'[t] = job[t] /\ pc'[t] = "audit"
        /\ \A u \in Task \ {t} : job'[u] = job[u] /\ pc'[u] = pc[u]
    BY <1>1, <1>2, <2>1, LocalStep
  <2>3. keyring' = keyring \ {k}
    BY <1>0, <1>4
  <2>4. TypeInv' /\ nextRow \in Nat /\ born \subseteq Key /\ keyring \subseteq born
    <3>1. TypeInv'
      BY <1>1, <2>2, <2>3 DEF TypeInv, TypeOK
    <3>2. QED
      BY <1>1, <3>1, TypeFacts DEF TypeInv, TypeOK
  <2>5. CallOK(t)'
    BY <1>0, <1>1, <1>2, <2>2, <2>3 DEF CallOK, CallShape, KeyOfCall,
       FallbackIsLast, DeletedFirst, StoredRows, HasSecret
  <2>6. ASSUME NEW u \in Task \ {t} PROVE CallOK(u)'
    <3>1. Calls /\ job'[u] = job[u] /\ pc'[u] = pc[u]
      BY <2>2 DEF IInv
    <3>2. \A l : l \notin keyring \/ "restore" \in harm[l]
                    => l \notin keyring' \/ "restore" \in harm'[l]
      BY <1>1, <2>3
    <3>3. /\ born \subseteq born' /\ sealed \subseteq sealed'
          /\ sealed' \cap born \subseteq sealed
          /\ fallback' \cap born \subseteq fallback
          /\ nextRow' \in Nat /\ nextRow <= nextRow'
          /\ \A r \in rows' \ rows : r.id = nextRow
      BY <1>1, TypeFacts, Zenon
    <3>4. TypeInv
      BY <1>1
    <3>5. QED
      BY <3>1, <3>2, <3>3, <3>4, OtherCalls
  <2>7. RowsFit'
    BY <1>1, <2>2, <2>4, FitShrinks DEF IInv
  <2>8. RowsOfBorn'
    BY <1>1 DEF IInv, RowsOfBorn
  <2>9. \A l \in Key : InFlight(l) => InFlight(l)'
    BY <1>2, <2>2, InFlightKept
  <2>10. \A l : RowsOf(l)' = RowsOf(l)
    BY <1>1 DEF RowsOf
  <2>11. \A l \in keyring' \cap sealed' : WayIn(l)'
    BY <1>1, <2>3, <2>4, <2>9, <2>10 DEF IInv, WaysIn, WayIn
  <2>12. \A l \in keyring' \cap fallback' : FallbackKept(l)'
    BY <1>1, <2>3, <2>4, <2>9, <2>10 DEF IInv, WaysIn, FallbackKept
  <2>13. OneWrongPinPerCall'
    BY <1>1, <1>2, <2>2, <2>3 DEF IInv, OneWrongPinPerCall
  <2>14. QED
    BY <2>4, <2>5, <2>6, <2>7, <2>8, <2>11, <2>12, <2>13
    DEF IInv, Calls, WaysIn
<1>5. QED
  BY <1>3, <1>4 DEF GpgDelete

-----------------------------------------------------------------------------
\* Steps that leave the calls and the rows alone.
LEMMA CallsAlone ==
  ASSUME IInv, UNCHANGED <<rows, nextRow, pc, job, born, sealed, fallback, denied>>,
         vault' \subseteq born, keyring' \subseteq born,
         harm' \in [Key -> SUBSET Fault],
         \A l \in Key : harm[l] \subseteq harm'[l],
         \A l \in Key : l \in keyring' \ keyring => "restore" \in harm'[l]
  PROVE  IInv'
<1>1. TypeInv /\ nextRow \in Nat /\ born \subseteq Key
  BY TypeFacts DEF IInv
<1>2. TypeInv'
  BY <1>1 DEF TypeInv, TypeOK
<1>3. ASSUME NEW u \in Task PROVE CallOK(u)'
  BY <1>1, OtherCalls DEF IInv
<1>4. RowsFit' /\ RowsOfBorn'
  BY DEF IInv, RowsFit, ToStore, RowsOfBorn
<1>5. \A l : (InFlight(l)' <=> InFlight(l)) /\ RowsOf(l)' = RowsOf(l)
  BY DEF InFlight, RowsOf
<1>6. \A l \in keyring' \cap sealed' : WayIn(l)'
  BY <1>1, <1>5 DEF IInv, WaysIn, WayIn
<1>7. \A l \in keyring' \cap fallback' : FallbackKept(l)'
  BY <1>1, <1>5 DEF IInv, WaysIn, FallbackKept
<1>8. OneWrongPinPerCall'
  BY <1>1 DEF IInv, OneWrongPinPerCall
<1>9. QED
  BY <1>2, <1>3, <1>4, <1>6, <1>7, <1>8 DEF IInv, Calls, WaysIn

\* A vault is written.
LEMMA StepExport ==
  ASSUME IInv, Export PROVE IInv'
<1>1. harm \in [Key -> SUBSET Fault] /\ vault \subseteq born /\ keyring \subseteq born
  BY DEF IInv, TypeInv, TypeOK
<1>2. /\ vault' \subseteq vault \cup keyring
      /\ UNCHANGED <<rows, nextRow, pc, job, born, keyring, sealed, fallback,
                     denied, harm>>
  BY DEF Export, rowVars, histVars
<1>3. QED
  BY <1>1, <1>2, CallsAlone

\* A key comes back from a vault.
LEMMA StepRestore ==
  ASSUME IInv, Restore PROVE IInv'
<1>1. /\ harm \in [Key -> SUBSET Fault] /\ vault \subseteq born
      /\ keyring \subseteq born /\ born \subseteq Key
  BY DEF IInv, TypeInv, TypeOK
<1>2. PICK k \in vault \ keyring :
         /\ keyring' = keyring \cup {k}
         /\ harm' = [harm EXCEPT ![k] = @ \cup {"restore"}]
  BY DEF Restore, Hit
<1>3. UNCHANGED <<rows, nextRow, pc, job, born, sealed, fallback, vault, denied>>
  BY DEF Restore, rowVars
<1>4. /\ harm' \in [Key -> SUBSET Fault] /\ "restore" \in harm'[k]
      /\ \A l \in Key : harm[l] \subseteq harm'[l]
  BY <1>1, <1>2 DEF Fault
<1>5. QED
  BY <1>1, <1>2, <1>3, <1>4, CallsAlone

\* A crash ends every call; a creation that still had the secret is on record.
LEMMA StepCrash ==
  ASSUME IInv, Crash PROVE IInv'
<1>1. /\ TypeInv /\ nextRow \in Nat /\ born \subseteq Key
  BY TypeFacts DEF IInv
<1>2. /\ pc' = [t \in Task |-> "idle"]
      /\ job' = [t \in Task |-> NoJob]
      /\ UNCHANGED <<keyVars, rowVars, denied>>
  BY DEF Crash
<1>3. /\ harm' \in [Key -> SUBSET Fault]
      /\ \A l \in Key : harm[l] \subseteq harm'[l]
      /\ \A l \in Key : InFlight(l) => "crash" \in harm'[l]
  <2>1. harm \in [Key -> SUBSET Fault]
    BY <1>1 DEF TypeInv, TypeOK
  <2>2. QED
    BY <2>1 DEF Crash, Fault
<1>4. TypeInv'
  <2>1. pc' \in [Task -> Step] /\ job' \in [Task -> Job]
    BY <1>2, NoJobFacts DEF Step
  <2>2. QED
    BY <1>1, <1>2, <1>3, <2>1 DEF TypeInv, TypeOK, keyVars, rowVars
<1>5. Calls'
  BY <1>2, NoJobFacts DEF Calls, CallOK, CallShape, KeyOfCall, FallbackIsLast,
     DeletedFirst, StoredRows, HasSecret
<1>6. RowsFit'
  <2>1. nextRow' = nextRow
    BY <1>2 DEF rowVars
  <2>2. \A u \in Task : DOMAIN job'[u].todo \subseteq DOMAIN job[u].todo
    BY <1>2, NoJobFacts, SlotLists
  <2>3. QED
    BY <1>1, <2>1, <2>2, FitShrinks DEF IInv
<1>7. RowsOfBorn' /\ \A l : RowsOf(l)' = RowsOf(l)
  BY <1>2 DEF IInv, RowsOfBorn, RowsOf, keyVars, rowVars
<1>8. keyring \subseteq Key
  BY <1>1 DEF TypeInv, TypeOK
<1>9. \A l \in keyring' \cap sealed' : WayIn(l)'
  BY <1>2, <1>3, <1>7, <1>8 DEF IInv, WaysIn, WayIn, keyVars
<1>10. \A l \in keyring' \cap fallback' : FallbackKept(l)'
  BY <1>2, <1>3, <1>7, <1>8 DEF IInv, WaysIn, FallbackKept, keyVars
<1>11. OneWrongPinPerCall'
  BY <1>2, NoJobFacts DEF OneWrongPinPerCall
<1>12. QED
  BY <1>4, <1>5, <1>6, <1>7, <1>9, <1>10, <1>11 DEF IInv, WaysIn

-----------------------------------------------------------------------------
\* The program starts with keys the user knows the passphrases of.
LEMMA InitIInv == Init => IInv
<1> SUFFICES ASSUME Init PROVE IInv
  OBVIOUS
<1>1. TypeInv
  <2>1. pc \in [Task -> Step] /\ job \in [Task -> Job]
    BY NoJobFacts DEF Init, Step
  <2>2. nextRow \in 1..MaxRows + 1
    BY BoundAssumption DEF Init
  <2>3. QED
    BY <2>1, <2>2 DEF Init, TypeInv, TypeOK
<1>2. Calls
  BY NoJobFacts DEF Init, Calls, CallOK, CallShape, KeyOfCall, FallbackIsLast,
     DeletedFirst, StoredRows, HasSecret
<1>3. RowsFit
  <2>1. ToStore = {}
    BY NoJobFacts, SlotLists DEF Init, ToStore
  <2>2. IsFiniteSet(ToStore) /\ Cardinality(ToStore) = 0
    BY <2>1, FS_EmptySet
  <2>3. QED
    BY <2>2, BoundAssumption DEF Init, RowsFit
<1>4. OneWrongPinPerCall
  BY NoJobFacts DEF Init, OneWrongPinPerCall
<1>5. RowsOfBorn /\ WaysIn
  BY DEF Init, RowsOfBorn, WaysIn
<1>6. QED
  BY <1>1, <1>2, <1>3, <1>4, <1>5 DEF IInv

\* Every step of every call, and everything around them, keeps it.
LEMMA StepIInv == IInv /\ [Next]_vars => IInv'
<1> SUFFICES ASSUME IInv, [Next]_vars PROVE IInv'
  OBVIOUS
<1>1. ASSUME NEW t \in Task,
             \/ CreateStart(t) \/ BindStart(t) \/ Enroll(t) \/ Generate(t)
             \/ Store(t) \/ StoreFails(t) \/ Undo(t) \/ Discard(t)
             \/ UnlockStart(t) \/ Try(t)
             \/ DeleteStart(t) \/ GpgDelete(t) \/ Audit(t) \/ Record(t)
             \/ Forget(t)
      PROVE  IInv'
  BY <1>1, StepCreateStart, StepBindStart, StepEnroll, StepGenerate, StepStore,
     StepStoreFails, StepUndo, StepDiscard, StepUnlockStart, StepTry,
     StepDeleteStart, StepGpgDelete, StepAudit, StepRecord, StepForget
<1>2. CASE Export \/ Restore \/ Crash
  BY <1>2, StepExport, StepRestore, StepCrash
<1>3. CASE UNCHANGED vars
  <2>1. harm \in [Key -> SUBSET Fault] /\ vault \subseteq born /\ keyring \subseteq born
    BY DEF IInv, TypeInv, TypeOK
  <2>2. UNCHANGED <<rows, nextRow, pc, job, born, keyring, sealed, fallback,
                    vault, denied, harm>>
    BY <1>3 DEF vars, keyVars, rowVars, histVars
  <2>3. QED
    BY <2>1, <2>2, CallsAlone
<1>4. QED
  BY <1>1, <1>2, <1>3 DEF Next

\* IInv always holds.
LEMMA Invariance == Spec => []IInv
  BY InitIInv, StepIInv, PTL DEF Spec

-----------------------------------------------------------------------------
\* create_key_with_token(), bind_existing_key(), delete() and a restore never
\* leave a key openable by nobody, or a key that was to have an emergency
\* passphrase with token slots only, unless one of the recorded faults hit it.
THEOREM NoKeyIsLocked == Spec => []WaysInAreKept
<1>1. IInv => WaysInAreKept
  BY DEF IInv, TypeInv, WaysIn, WayIn, FallbackKept, WaysInAreKept
<1>2. QED
  BY <1>1, Invariance, PTL

-----------------------------------------------------------------------------
\* Why a reported failure is true: what is known of a key from its creation on.

\* t runs the creation of k, and k exists.
Creating(t, k) ==
    /\ job[t].op = "create"
    /\ job[t].key = k
    /\ pc[t] \in HasSecret \cup {"audit", "record"}

\* k was deleted, or deleted and restored.
Gone(k) == k \notin keyring \/ "restore" \in harm[k]

KeyStory(k) ==
    /\ \A t, u \in Task : Creating(t, k) /\ Creating(u, k) => t = u
    /\ \A t \in Task : Creating(t, k) =>
           /\ k \notin denied
           /\ pc[t] \in {"audit", "record"} => Complete(k) \/ Gone(k)
           /\ pc[t] = "store" /\ job[t].todo = FallbackLeft
                  => TokenSlots(k) # {} \/ Gone(k)
    /\ k \in denied => \/ Complete(k) \/ Gone(k)
                       \/ harm[k] \cap {"late generate", "discard"} # {}

Stories == \A k \in Key : KeyStory(k)

\* Nothing happens to k: its creation stays at its step or goes on without
\* storing anything, and no slot of it is lost.
LEMMA StoryKept ==
  ASSUME NEW k \in Key, KeyStory(k),
         RowsOf(k) \subseteq RowsOf(k)' \/ Gone(k)',
         Gone(k) => Gone(k)',
         harm[k] \subseteq harm'[k],
         k \in fallback' => k \in fallback,
         \A t \in Task : Creating(t, k)' =>
             /\ Creating(t, k)
             /\ k \in denied' => k \in denied
             /\ pc'[t] \in {"audit", "record"} => pc[t] \in {"audit", "record"}
             /\ pc'[t] = "store" => pc[t] = "store" /\ job'[t].todo = job[t].todo,
         k \in denied' =>
             \/ k \in denied
             \/ \E t \in Task : Creating(t, k) /\ pc[t] \in {"audit", "record"}
  PROVE  KeyStory(k)'
<1>1. /\ Complete(k) => Complete(k)' \/ Gone(k)'
      /\ TokenSlots(k) # {} => TokenSlots(k)' # {} \/ Gone(k)'
  BY DEF Complete, TokenSlots
<1>2. \A t \in Task : Creating(t, k)' =>
         /\ k \notin denied'
         /\ pc'[t] \in {"audit", "record"} => Complete(k)' \/ Gone(k)'
         /\ pc'[t] = "store" /\ job'[t].todo = FallbackLeft
                => TokenSlots(k)' # {} \/ Gone(k)'
  BY <1>1 DEF KeyStory
<1>3. k \in denied' => \/ Complete(k)' \/ Gone(k)'
                       \/ harm'[k] \cap {"late generate", "discard"} # {}
  BY <1>1 DEF KeyStory
<1>4. \A t, u \in Task : Creating(t, k)' /\ Creating(u, k)' => t = u
  BY DEF KeyStory
<1>5. QED
  BY <1>2, <1>3, <1>4 DEF KeyStory

\* A call that creates no key, or that goes on without changing anything.
LEMMA StoriesCalm ==
  ASSUME IInv, Stories, NEW t \in Task,
         \A u \in Task \ {t} : job'[u] = job[u] /\ pc'[u] = pc[u],
         UNCHANGED <<keyVars, rows, histVars>>,
         \A k \in Key : Creating(t, k)' =>
             /\ Creating(t, k)
             /\ pc'[t] \in {"audit", "record"} => pc[t] \in {"audit", "record"}
             /\ pc'[t] = "store" => pc[t] = "store" /\ job'[t].todo = job[t].todo
  PROVE  Stories'
<1> USE DEF keyVars, histVars
<1>1. ASSUME NEW k \in Key PROVE KeyStory(k)'
  <2>1. KeyStory(k) /\ RowsOf(k)' = RowsOf(k) /\ (Gone(k) => Gone(k)')
    BY DEF Stories, RowsOf, Gone
  <2>2. \A u \in Task : Creating(u, k)' =>
             /\ Creating(u, k)
             /\ k \in denied' => k \in denied
             /\ pc'[u] \in {"audit", "record"} => pc[u] \in {"audit", "record"}
             /\ pc'[u] = "store" => pc[u] = "store" /\ job'[u].todo = job[u].todo
    BY DEF Creating
  <2>3. QED
    BY <2>1, <2>2, StoryKept
<1>2. QED
  BY <1>1 DEF Stories

\* gpg has made the key of a creation: nobody else can be creating it.
LEMMA StoriesGenerate ==
  ASSUME IInv, Stories, NEW t \in Task, Generate(t) PROVE Stories'
<1> USE DEF rowVars, histVars
<1>1. /\ pc[t] = "generate" /\ CallOK(t) /\ TypeInv
      /\ job[t].todo \in {TokenOnly, WithFallback}
      /\ \A k : ~ Creating(t, k)
  BY DEF Generate, IInv, Calls, CallOK, CallShape, Creating, HasSecret
<1>2. /\ sealed \subseteq born /\ denied \subseteq sealed /\ keyring \subseteq born
      /\ harm \in [Key -> SUBSET Fault] /\ fallback \subseteq sealed
      /\ job \in [Task -> Job] /\ pc \in [Task -> Step]
  BY <1>1 DEF TypeInv, TypeOK
<1>3. \A u \in Task \ {t} : job'[u] = job[u] /\ pc'[u] = pc[u]
  BY <1>2 DEF Generate, End, Goto
<1>4. \A u \in Task, k \in Key : Creating(u, k) => k \in born
  BY <1>2 DEF IInv, Calls, CallOK, KeyOfCall, Creating
<1>5. CASE End(t) /\ UNCHANGED <<histVars, born, keyring, sealed, fallback>>
  <2>1. \A k : ~ Creating(t, k)'
    BY <1>2, <1>5 DEF End, Goto, Creating, HasSecret
  <2>2. QED
    BY <1>3, <1>5, <2>1, StoriesCalm DEF Generate, keyVars
<1>6. ASSUME NEW k \in Key, NewKey(t, k), UNCHANGED <<rows>>,
             \A l \in Key \ {k} :
                 /\ ~ Creating(t, l)'
                 /\ harm'[l] = harm[l]
                 /\ l \in denied' => l \in denied
      PROVE  /\ \A l \in Key \ {k} : KeyStory(l)'
             /\ \A u \in Task : Creating(u, k)' => u = t
             /\ k \notin denied
  <2>1. k \notin born /\ keyring' = keyring \cup {k} /\ fallback' \subseteq fallback \cup {k}
    BY <1>6 DEF NewKey
  <2>2. ASSUME NEW l \in Key \ {k} PROVE KeyStory(l)'
    <3>1. KeyStory(l) /\ RowsOf(l)' = RowsOf(l) /\ (Gone(l) => Gone(l)')
      BY <1>6, <2>1 DEF Stories, RowsOf, Gone
    <3>2. \A u \in Task : Creating(u, l)' =>
             /\ Creating(u, l)
             /\ l \in denied' => l \in denied
             /\ pc'[u] \in {"audit", "record"} => pc[u] \in {"audit", "record"}
             /\ pc'[u] = "store" => pc[u] = "store" /\ job'[u].todo = job[u].todo
      BY <1>3, <1>6 DEF Creating
    <3>3. QED
      BY <1>6, <2>1, <3>1, <3>2, StoryKept
  <2>3. \A u \in Task : Creating(u, k)' => u = t
    BY <1>3, <1>4, <2>1 DEF Creating
  <2>4. QED
    BY <1>2, <2>1, <2>2, <2>3
<1>7. ASSUME NEW k \in Key, NewKey(t, k), job' = [job EXCEPT ![t].key = k],
             Goto(t, "store"), UNCHANGED <<histVars, rowVars>>
      PROVE  Stories'
  <2>1. job'[t].key = k /\ job'[t].todo = job[t].todo /\ pc'[t] = "store"
    BY <1>2, <1>7 DEF Goto, Job
  <2>2. /\ \A l \in Key \ {k} : KeyStory(l)'
        /\ \A u \in Task : Creating(u, k)' => u = t
        /\ k \notin denied
    BY <1>6, <1>7, <2>1 DEF Creating
  <2>3. job'[t].todo # FallbackLeft
    BY <1>1, <2>1, SlotLists DEF TokenOnly, WithFallback, FallbackLeft
  <2>4. KeyStory(k)'
    BY <1>7, <2>1, <2>2, <2>3 DEF KeyStory
  <2>5. QED
    BY <2>2, <2>4 DEF Stories
<1>8. ASSUME NEW k \in Key, NewKey(t, k), denied' = denied \cup {k},
             Hit(k, "late generate"), End(t), UNCHANGED <<rowVars>>
      PROVE  Stories'
  <2>1. \A l : ~ Creating(t, l)'
    BY <1>2, <1>8 DEF End, Goto, Creating, HasSecret
  <2>2. "late generate" \in harm'[k] /\ \A l \in Key \ {k} : harm'[l] = harm[l]
    BY <1>2, <1>8 DEF Hit
  <2>3. /\ \A l \in Key \ {k} : KeyStory(l)'
        /\ \A u \in Task : Creating(u, k)' => u = t
    BY <1>6, <1>8, <2>1, <2>2
  <2>4. KeyStory(k)'
    BY <2>1, <2>2, <2>3 DEF KeyStory
  <2>5. QED
    BY <2>3, <2>4 DEF Stories
<1>9. QED
  BY <1>5, <1>7, <1>8 DEF Generate

\* A slot is stored.  The last one completes a creation: the token slot was the
\* first, or is this one.
LEMMA StoriesStore ==
  ASSUME IInv, Stories, NEW t \in Task, Store(t) PROVE Stories'
<1> USE DEF keyVars, histVars
<1>0. PICK k : k = job[t].key
  OBVIOUS
<1> DEFINE row == [id |-> nextRow, key |-> k,
                   kind |-> Head(job[t].todo), token |-> job[t].token]
<1>1. /\ pc[t] = "store" /\ CallOK(t) /\ TypeInv
      /\ job \in [Task -> Job] /\ pc \in [Task -> Step]
      /\ UNCHANGED <<keyVars, histVars>>
  BY DEF Store, IInv, Calls, TypeInv, TypeOK
<1>2. /\ k \in Key /\ job[t].todo \in {TokenOnly, WithFallback, FallbackLeft}
      /\ job[t].op \in {"create", "bind"}
      /\ job[t].op = "bind" => k \notin sealed
      /\ job[t].op = "create" /\ k \in fallback =>
             job[t].todo \in {WithFallback, FallbackLeft}
  <2>1. born \subseteq Key
    BY <1>1 DEF TypeInv, TypeOK
  <2>2. QED
    BY <1>0, <1>1, <2>1
    DEF CallOK, CallShape, KeyOfCall, FallbackIsLast, HasSecret
<1>3. rows' = rows \cup {row} /\ row.key = k /\ row.kind = Head(job[t].todo)
  BY <1>0 DEF Store, AddSlot
<1> HIDE DEF row
<1>4. \A u \in Task \ {t} : job'[u] = job[u] /\ pc'[u] = pc[u]
  BY <1>1 DEF Store, End, Goto
<1>5. /\ \A l : RowsOf(l) \subseteq RowsOf(l)' /\ (Gone(l) <=> Gone(l)')
      /\ row \in RowsOf(k)'
  BY <1>1, <1>3 DEF RowsOf, Gone
<1>6. \A l : Creating(t, l)' => l = k /\ job[t].op = "create"
  <2>1. CASE End(t)
    BY <1>1, <2>1, NoJobFacts DEF End, Creating
  <2>2. CASE ~ End(t)
    <3>1. job'[t].op = job[t].op /\ job'[t].key = job[t].key
      BY <1>1, <2>2 DEF Store, Job
    <3>2. QED
      BY <1>0, <3>1 DEF Creating
  <2>3. QED
    BY <2>1, <2>2
<1>7. ASSUME NEW l \in Key, l # k \/ job[t].op # "create" PROVE KeyStory(l)'
  <2>1. \A u \in Task : Creating(u, l)' =>
           /\ Creating(u, l)
           /\ pc'[u] \in {"audit", "record"} => pc[u] \in {"audit", "record"}
           /\ pc'[u] = "store" => pc[u] = "store" /\ job'[u].todo = job[u].todo
    BY <1>4, <1>6, <1>7 DEF Creating
  <2>2. KeyStory(l)
    BY DEF Stories
  <2>3. QED
    BY <1>1, <1>5, <2>1, <2>2, StoryKept
<1>8. CASE job[t].op = "create"
  <2>1. Creating(t, k) /\ KeyStory(k)
    BY <1>0, <1>1, <1>2, <1>8 DEF Creating, HasSecret, Stories
  <2>2. k \notin denied /\ \A u \in Task : Creating(u, k)' => u = t
    BY <1>4, <2>1 DEF KeyStory, Creating
  <2>3. CASE job[t].todo = WithFallback
    <3>1. pc'[t] = "store" /\ row.kind = "fido"
      BY <1>1, <1>3, <2>3, SlotLists DEF Store
    <3>2. TokenSlots(k)' # {}
      BY <1>5, <3>1 DEF TokenSlots
    <3>3. KeyStory(k)'
      BY <1>1, <2>2, <3>1, <3>2 DEF KeyStory
    <3>4. QED
      BY <1>7, <3>3 DEF Stories
  <2>4. CASE job[t].todo # WithFallback
    <3>1. pc'[t] = "audit"
      BY <1>1, <1>2, <1>8, <2>4, SlotLists DEF Store, Goto
    <3>2. Complete(k)' \/ Gone(k)'
      <4>1. CASE job[t].todo = TokenOnly
        <5>1. row.kind = "fido" /\ k \notin fallback'
          BY <1>1, <1>2, <1>3, <1>8, <4>1, SlotLists
          DEF TokenOnly, WithFallback, FallbackLeft
        <5>2. QED
          BY <1>5, <5>1 DEF Complete, TokenSlots
      <4>2. CASE job[t].todo = FallbackLeft
        <5>1. row.kind = "passphrase" /\ (TokenSlots(k) # {} \/ Gone(k))
          BY <1>1, <1>3, <2>1, <4>2, SlotLists DEF KeyStory
        <5>2. QED
          BY <1>5, <5>1 DEF Complete, TokenSlots
      <4>3. QED
        BY <1>2, <2>4, <4>1, <4>2
    <3>3. KeyStory(k)'
      BY <1>1, <2>2, <3>1, <3>2 DEF KeyStory
    <3>4. QED
      BY <1>7, <3>3 DEF Stories
  <2>5. QED
    BY <2>3, <2>4
<1>9. QED
  BY <1>2, <1>7, <1>8 DEF Stories

\* The rows that _persist() takes back are those of a key it is still creating.
LEMMA StoriesUndo ==
  ASSUME IInv, Stories, NEW t \in Task, Undo(t) PROVE Stories'
<1> USE DEF keyVars, histVars
<1>1. /\ pc[t] = "undo" /\ CallOK(t) /\ TypeInv
      /\ job \in [Task -> Job] /\ pc \in [Task -> Step]
      /\ UNCHANGED <<keyVars, histVars>>
  BY DEF Undo, IInv, Calls, TypeInv, TypeOK
<1>2. \A u \in Task \ {t} : job'[u] = job[u] /\ pc'[u] = pc[u]
  BY <1>1 DEF Undo, End, Goto
<1>3. /\ job[t].op \in {"create", "bind"}
      /\ job[t].op = "bind" => job[t].stored = {}
      /\ \A r \in rows : r.id \in job[t].stored => r.key = job[t].key
  BY <1>1 DEF CallOK, CallShape, KeyOfCall, StoredRows, HasSecret
<1>4. \A l : Creating(t, l)' => Creating(t, l) /\ pc'[t] = "discard"
  BY <1>1 DEF Undo, Creating, End, Goto, NoJob, HasSecret
<1>5. CASE job[t].op = "bind"
  <2>1. rows' = rows
    BY <1>3, <1>5 DEF Undo
  <2>2. QED
    BY <1>1, <1>2, <1>4, <2>1, StoriesCalm
<1>6. CASE job[t].op = "create"
  <2>1. ASSUME NEW l \in Key PROVE KeyStory(l)'
    <3>1. KeyStory(l) /\ (Gone(l) <=> Gone(l)')
      BY <1>1 DEF Stories, Gone
    <3>2. CASE l # job[t].key
      <4>1. RowsOf(l) \subseteq RowsOf(l)'
        BY <1>3, <3>2 DEF Undo, RowsOf
      <4>2. \A u \in Task : Creating(u, l)' =>
               /\ Creating(u, l)
               /\ pc'[u] \in {"audit", "record"} => pc[u] \in {"audit", "record"}
               /\ pc'[u] = "store" => pc[u] = "store" /\ job'[u].todo = job[u].todo
        BY <1>2, <1>4 DEF Creating
      <4>3. QED
        BY <1>1, <3>1, <4>1, <4>2, StoryKept
    <3>3. CASE l = job[t].key
      <4>1. Creating(t, l)
        BY <1>1, <1>6, <3>3 DEF Creating, HasSecret
      <4>2. l \notin denied /\ \A u \in Task : Creating(u, l)' => u = t
        BY <1>2, <3>1, <4>1 DEF KeyStory, Creating
      <4>3. QED
        BY <1>1, <1>4, <4>2 DEF KeyStory
    <3>4. QED
      BY <3>2, <3>3
  <2>2. QED
    BY <2>1 DEF Stories
<1>7. QED
  BY <1>3, <1>5, <1>6

\* A creation that is over has reported a failure of its own key only.
LEMMA StoriesTold ==
  ASSUME IInv, Stories, NEW t \in Task, Discard(t) \/ Audit(t) \/ Record(t)
  PROVE  Stories'
<1> USE DEF keyVars, rowVars
<1>1. /\ CallOK(t) /\ TypeInv /\ pc[t] \in {"discard", "audit", "record"}
      /\ job \in [Task -> Job] /\ pc \in [Task -> Step]
      /\ harm \in [Key -> SUBSET Fault]
      /\ rows' = rows /\ fallback' = fallback
  BY DEF Discard, Audit, Record, IInv, Calls, TypeInv, TypeOK
<1>2. \A u \in Task \ {t} : job'[u] = job[u] /\ pc'[u] = pc[u]
  BY <1>1 DEF Discard, Audit, Record, End, Goto
<1>3. \A l : Creating(t, l)' =>
         /\ Creating(t, l) /\ denied' = denied
         /\ pc[t] \in {"audit", "record"} /\ pc'[t] # "store"
  BY <1>1 DEF Discard, Audit, Record, End, Goto, Creating, NoJob, HasSecret
<1>4. /\ keyring' \subseteq keyring
      /\ \A l \in Key : harm[l] \subseteq harm'[l]
  BY <1>1 DEF Discard, Audit, Record, Hit
<1>5. /\ denied' \subseteq denied \cup {job[t].key}
      /\ job[t].op # "create" => denied' \subseteq denied
  BY <1>1 DEF Discard, Audit, Record, CallOK, CallShape
<1>6. ASSUME NEW l \in Key PROVE KeyStory(l)'
  <2>1. KeyStory(l) /\ (Gone(l) => Gone(l)') /\ RowsOf(l)' = RowsOf(l)
    BY <1>1, <1>4 DEF Stories, Gone, RowsOf
  <2>2. Creating(t, l) \/ (l \in denied' => l \in denied)
    BY <1>1, <1>5 DEF Creating, HasSecret
  <2>3. \A u \in Task : Creating(u, l)' =>
             /\ Creating(u, l)
             /\ l \in denied' => l \in denied
             /\ pc'[u] \in {"audit", "record"} => pc[u] \in {"audit", "record"}
             /\ pc'[u] = "store" => pc[u] = "store" /\ job'[u].todo = job[u].todo
    <3>1. ASSUME NEW u \in Task, Creating(u, l)', u # t
          PROVE  Creating(u, l) /\ (l \in denied' => l \in denied)
      <4>1. Creating(u, l)
        BY <1>2, <3>1 DEF Creating
      <4>2. ~ Creating(t, l)
        BY <2>1, <3>1, <4>1 DEF KeyStory
      <4>3. QED
        BY <2>2, <4>1, <4>2
    <3>2. QED
      BY <1>2, <1>3, <3>1
  <2>4. CASE pc[t] # "discard" \/ ~ Creating(t, l)
    <3>1. l \in denied' => \/ l \in denied
                           \/ Creating(t, l) /\ pc[t] \in {"audit", "record"}
      BY <1>1, <2>2, <2>4
    <3>2. QED
      BY <1>1, <1>4, <2>1, <2>3, <3>1, StoryKept
  <2>5. CASE pc[t] = "discard" /\ Creating(t, l)
    <3>1. l = job[t].key /\ Discard(t) /\ \A m : ~ Creating(t, m)'
      BY <1>1, <1>3, <2>5 DEF Creating, Audit, Record
    <3>2. Gone(l)' \/ "discard" \in harm'[l]
      BY <1>1, <3>1 DEF Discard, Hit, Gone
    <3>3. \A u \in Task : ~ Creating(u, l)'
      BY <1>2, <2>1, <2>5, <3>1 DEF Creating, KeyStory
    <3>4. QED
      BY <3>2, <3>3 DEF KeyStory
  <2>6. QED
    BY <2>4, <2>5
<1>7. QED
  BY <1>6 DEF Stories

\* Deleting, forgetting, restoring: a key loses its slots when it is gone.
LEMMA StoriesGone ==
  ASSUME IInv, Stories,
         \/ \E t \in Task : GpgDelete(t) \/ Forget(t)
         \/ Restore
  PROVE  Stories'
<1> USE DEF keyVars, rowVars, histVars
<1>1. TypeInv /\ job \in [Task -> Job] /\ pc \in [Task -> Step]
      /\ harm \in [Key -> SUBSET Fault]
  BY DEF IInv, TypeInv, TypeOK
<1>2. UNCHANGED <<denied, fallback>> /\ \A l \in Key : harm[l] \subseteq harm'[l]
  BY <1>1 DEF GpgDelete, Forget, Restore, Hit
<1>3. ASSUME NEW l \in Key PROVE Gone(l) => Gone(l)'
  BY <1>1 DEF GpgDelete, Forget, Restore, Hit, Gone
<1>4. ASSUME NEW l \in Key PROVE RowsOf(l) \subseteq RowsOf(l)' \/ Gone(l)'
  <2>1. ASSUME NEW t \in Task, Forget(t), l = job[t].key PROVE Gone(l)'
    BY <2>1 DEF Forget, IInv, Calls, CallOK, CallShape, DeletedFirst, Gone
  <2>2. QED
    BY <2>1 DEF GpgDelete, Forget, Restore, RowsOf
<1>5. ASSUME NEW l \in Key, NEW u \in Task, Creating(u, l)'
      PROVE  Creating(u, l) /\ job'[u] = job[u] /\ pc'[u] = pc[u]
  <2>1. ASSUME NEW t \in Task, GpgDelete(t) \/ Forget(t)
        PROVE  /\ \A v \in Task \ {t} : job'[v] = job[v] /\ pc'[v] = pc[v]
               /\ job'[t].op # "create"
    <3>1. job[t].op = "delete"
      BY <2>1 DEF GpgDelete, Forget, IInv, Calls, CallOK, CallShape
    <3>2. QED
      <4>1. CASE End(t)
        BY <1>1, <4>1, NoJobFacts DEF End, Goto
      <4>2. CASE job' = job /\ Goto(t, "audit")
        BY <1>1, <3>1, <4>2 DEF Goto
      <4>3. QED
        BY <2>1, <4>1, <4>2 DEF GpgDelete, Forget
  <2>2. QED
    BY <1>5, <2>1 DEF Restore, Creating
<1>6. ASSUME NEW l \in Key PROVE KeyStory(l)'
  BY <1>2, <1>3, <1>4, <1>5, StoryKept DEF Stories
<1>7. QED
  BY <1>6 DEF Stories

\* Every step keeps the stories.
LEMMA StepStories ==
  ASSUME IInv, Stories, [Next]_vars PROVE Stories'
<1>1. /\ job \in [Task -> Job] /\ pc \in [Task -> Step]
  BY DEF IInv, TypeInv, TypeOK
<1>2. ASSUME NEW t \in Task,
             \/ CreateStart(t) \/ BindStart(t) \/ Enroll(t) \/ StoreFails(t)
             \/ UnlockStart(t) \/ Try(t) \/ DeleteStart(t)
      PROVE  Stories'
  <2>1. \A u \in Task \ {t} : job'[u] = job[u] /\ pc'[u] = pc[u]
    BY <1>1, <1>2 DEF CreateStart, BindStart, Enroll, StoreFails, UnlockStart,
       Try, GiveUpOrGoOn, DeleteStart, Goto, End
  <2>2. UNCHANGED <<keyVars, rows, histVars>>
    BY <1>2 DEF CreateStart, BindStart, Enroll, StoreFails, UnlockStart, Try,
       DeleteStart, rowVars
  <2>3. CASE StoreFails(t)
    <3>1. pc[t] = "store" /\ pc'[t] = "undo" /\ job'[t].op = job[t].op
          /\ job'[t].key = job[t].key
      BY <1>1, <2>3 DEF StoreFails, Goto, Job
    <3>2. \A k : Creating(t, k)' => Creating(t, k)
      BY <3>1 DEF Creating, HasSecret
    <3>3. QED
      BY <2>1, <2>2, <3>1, <3>2, StoriesCalm
  <2>4. CASE ~ StoreFails(t)
    <3>1. \A k : ~ Creating(t, k)'
      <4>1. CASE CreateStart(t) \/ BindStart(t) \/ UnlockStart(t) \/ DeleteStart(t)
        BY <1>1, <4>1 DEF CreateStart, BindStart, UnlockStart, DeleteStart, Goto,
           Creating, HasSecret
      <4>2. CASE Enroll(t)
        BY <1>1, <4>2 DEF Enroll, Goto, End, NoJob, Creating, HasSecret
      <4>3. CASE Try(t)
        <5>1. pc[t] = "try" /\ pc'[t] \in {"try", "idle"}
          BY <1>1, <4>3 DEF Try, GiveUpOrGoOn, Goto, End
        <5>2. QED
          BY <5>1 DEF Creating, HasSecret
      <4>4. QED
        BY <1>2, <2>4, <4>1, <4>2, <4>3
    <3>2. QED
      BY <2>1, <2>2, <3>1, StoriesCalm
  <2>5. QED
    BY <2>3, <2>4
<1>3. CASE Export
  <2>1. UNCHANGED <<born, keyring, sealed, fallback, rows, pc, job, denied, harm>>
    BY <1>3 DEF Export, rowVars, histVars
  <2>2. QED
    BY <2>1 DEF Stories, KeyStory, Creating, Gone, Complete, TokenSlots, RowsOf
<1>4. CASE Crash
  <2>1. \A u \in Task, k \in Key : ~ Creating(u, k)'
    BY <1>4 DEF Crash, Creating, HasSecret
  <2>2. /\ UNCHANGED <<keyring, fallback, rows, denied>>
        /\ \A k \in Key : harm[k] \subseteq harm'[k]
    BY <1>4 DEF Crash, keyVars, rowVars
  <2>3. \A k \in Key : RowsOf(k)' = RowsOf(k) /\ (Gone(k) => Gone(k)')
    BY <2>2 DEF RowsOf, Gone
  <2>4. ASSUME NEW k \in Key PROVE KeyStory(k)'
    BY <2>1, <2>2, <2>3, StoryKept DEF Stories
  <2>5. QED
    BY <2>4 DEF Stories
<1>5. CASE UNCHANGED vars
  BY <1>5 DEF vars, keyVars, rowVars, histVars, Stories, KeyStory, Creating,
     Gone, Complete, TokenSlots, RowsOf
<1>6. QED
  BY <1>2, <1>3, <1>4, <1>5, StoriesGenerate, StoriesStore, StoriesUndo,
     StoriesTold, StoriesGone DEF Next

\* When create_key_with_token() raises, the key is gone or complete, or gpg, the
\* discard or a restore is to blame.
THEOREM FailedCreationLeavesNothing == Spec => []FailureIsTrue
<1>1. Init => Stories
  BY NoJobFacts DEF Init, Stories, KeyStory, Creating, HasSecret
<1>2. IInv /\ IInv' /\ Stories /\ [Next]_vars => Stories'
  BY StepStories
<1>3. IInv /\ Stories => FailureIsTrue
  <2>1. ASSUME IInv, Stories, NEW k \in denied \cap keyring
        PROVE  \/ Complete(k)
               \/ harm[k] \cap {"late generate", "discard", "restore"} # {}
    <3>1. k \in Key
      BY <2>1 DEF IInv, TypeInv, TypeOK
    <3>2. QED
      BY <2>1, <3>1 DEF Stories, KeyStory, Gone
  <2>2. QED
    BY <2>1 DEF FailureIsTrue
<1>4. QED
  BY <1>1, <1>2, <1>3, Invariance, PTL DEF Spec

\* unlock_with_token() never spends a second PIN attempt of the token.
THEOREM OnePinAttempt == Spec => []OneWrongPinPerCall
<1>1. IInv => OneWrongPinPerCall
  BY DEF IInv
<1>2. QED
  BY <1>1, Invariance, PTL

\* A key that was not made by create_key_with_token() leaves the keyring only
\* when the user has it deleted: _discard_unopenable_key() never meets one.
THEOREM DiscardTakesItsOwnKey == Spec => UserKeysKept
<1> DEFINE Kept == \A k \in (keyring \ keyring') \ sealed :
                      \E t \in Task : pc[t] = "gpg delete" /\ job[t].key = k
<1>1. ASSUME IInv, Next PROVE Kept
  <2>1. ASSUME NEW t \in Task, Discard(t) PROVE Kept
    <3>1. job[t].key \in sealed
      BY <1>1, <2>1 DEF Discard, IInv, Calls, CallOK, CallShape, KeyOfCall,
         HasSecret
    <3>2. keyring \ keyring' \subseteq {job[t].key}
      BY <2>1 DEF Discard
    <3>3. QED
      BY <3>1, <3>2
  <2>2. ASSUME NEW t \in Task, GpgDelete(t) PROVE Kept
    BY <2>2 DEF GpgDelete
  <2>3. CASE keyring \subseteq keyring'
    BY <2>3
  <2>4. ASSUME NEW t \in Task,
               \/ CreateStart(t) \/ BindStart(t) \/ Enroll(t) \/ Generate(t)
               \/ Store(t) \/ StoreFails(t) \/ Undo(t) \/ UnlockStart(t)
               \/ Try(t) \/ DeleteStart(t) \/ Audit(t) \/ Record(t)
               \/ Forget(t)
        PROVE  keyring \subseteq keyring'
    BY <2>4 DEF CreateStart, BindStart, Enroll, Generate, NewKey, Store,
       StoreFails, Undo, UnlockStart, Try, DeleteStart, Audit, Record, Forget,
       keyVars
  <2>5. CASE Export \/ Restore \/ Crash
    BY <2>3, <2>5 DEF Export, Restore, Crash, keyVars
  <2>6. QED
    BY <1>1, <2>1, <2>2, <2>3, <2>4, <2>5 DEF Next
<1>2. IInv /\ [Next]_vars => [Kept]_vars
  BY <1>1
<1>3. Spec => [][Kept]_vars
  BY <1>2, Invariance, PTL DEF Spec
<1>4. QED
  BY <1>3 DEF UserKeysKept

=============================================================================
