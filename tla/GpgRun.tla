------------------------------- MODULE GpgRun -------------------------------
(***************************************************************************)
(* services/gpg_service.py: one run of gpg by GPGService._run_gpg, with    *)
(* the two threads that serve it (the status reader and the passphrase     *)
(* writer), the pipes they own, the timeout, and what encrypt(),           *)
(* decrypt(), sign() and verify() make of the outcome.                     *)
(*                                                                         *)
(* gpg is external: for every signature of the message it writes its       *)
(* status lines, it needs the passphrase for a secret-key operation, it    *)
(* may fail, crash, or hang.  A status line is reduced to its tag; texts   *)
(* on stderr are reduced to the markers the code looks for.                *)
(*                                                                         *)
(* The names of the specification begin with Run, so that one module can   *)
(* extend this one and Messages.                                           *)
(***************************************************************************)
EXTENDS Naturals, Sequences, FiniteSets

CONSTANTS
    Limit,      \* _STATUS_BUF_LIMIT, in status lines
    MaxSigs     \* bound: signatures on the message

ASSUME LimitAssumption == Limit \in Nat \ {0}

\* _SIG_DOWNGRADE: the tags that speak against a signature.
Downgrade ==
    [REVKEYSIG |-> "revoked key", EXPKEYSIG |-> "expired key",
     EXPSIG |-> "expired signature", BADSIG |-> "invalid", ERRSIG |-> "error"]

Tag == DOMAIN Downgrade \cup {"GOODSIG", "VALIDSIG"}

\* What gpg writes about a message: exactly one verdict for every signature, and
\* VALIDSIG after it if the signature itself is sound.
Sound == {"GOODSIG", "REVKEYSIG", "EXPKEYSIG", "EXPSIG"}
SigLines(m) ==
    /\ \A n \in DOMAIN m : m[n] \in Sound <=> n + 1 \in DOMAIN m /\ m[n + 1] = "VALIDSIG"
    /\ m # <<>> => m[1] # "VALIDSIG"
    /\ Cardinality({n \in DOMAIN m : m[n] # "VALIDSIG"}) <= MaxSigs
Message == {m \in UNION {[1..n -> Tag] : n \in 0..2 * MaxSigs} : SigLines(m)}
Has(lines, tags) == \E n \in DOMAIN lines : lines[n] \in tags
Bad(m) == Has(m, DOMAIN Downgrade)

\* The call: what is run, whether a passphrase goes with it.
Op == {"verify", "verify detached", "decrypt", "sign", "encrypt"}
SecretOp(o) == o \in {"decrypt", "sign"}

\* What is wrong if gpg fails, as far as its texts tell.
Complaint == {"bad pin", "card missing", "no secret key", "bad passphrase", "none"}

Fd == {"status_read", "status_write", "pass_read", "pass_write"}

VARIABLES
    pc,         \* where the calling thread is in _run_gpg
    call,       \* the operation and the message it is about
    fd,         \* fd[f]: who has to close the parent's end f ("lost": no one)
    twice,      \* an fd was closed by someone who did not own it any more
    secret,     \* pass_bytes
    writer,     \* the passphrase writer thread
    reader,     \* the status reader thread
    gpg,        \* the process
    sent,       \* lines gpg has written to the status pipe
    buf,        \* status_buf: how many of them the reader has stored
    snap,       \* the lines _run_gpg returns
    tmp,        \* verify()'s temporary files
    result      \* what the operation returns or raises

runVars == <<pc, call, fd, twice, secret, writer, reader, gpg, sent, buf, snap, tmp, result>>

Returned == {"plaintext", "ciphertext", "signature", "valid", "none"}
            \cup {Downgrade[t] : t \in DOMAIN Downgrade}
Raised == {"swapped", "validation", "os error", "no process", "no thread", "timeout",
           "GPGCardPinError", "GPGCardError", "GPGPassphraseError", "GPGProcessError"}

RunTypeOK ==
    /\ pc \in {"call", "spawn", "threads", "communicate", "join", "finally", "done"}
    /\ call \in [op : Op, msg : Message, pass : BOOLEAN]
    /\ fd \in [Fd -> {"absent", "main", "reader", "writer", "lost", "closed"}]
    /\ twice \in BOOLEAN
    /\ secret \in {"none", "plain", "zero"}
    /\ writer \in {"none", "writing", "wrote", "done"}
    /\ reader \in {"none", "reading", "done"}
    /\ gpg \in [is : {"none", "running", "exited", "killed"}, rc : {0, 1, 2}, why : Complaint]
    /\ sent \in 0..Len(call.msg)
    /\ buf \in 0..Limit /\ buf <= sent
    /\ snap \in 0..Limit /\ snap <= buf
    /\ tmp \subseteq {"sig", "data"}
    /\ result \in [is : Returned \cup Raised \cup {"pending"}, sig : Returned]

-----------------------------------------------------------------------------
\* The last line with one of these tags.
LastOf(lines, tags) ==
    CHOOSE n \in DOMAIN lines :
        lines[n] \in tags /\ \A k \in DOMAIN lines : lines[k] \in tags => k <= n

\* _evaluate_signature, line by line: the last downgrade seen is kept.
Evaluate_AnyGood(lines) ==
    LET bad == Has(lines, DOMAIN Downgrade)
        good == Has(lines, {"GOODSIG"})
        sound == Has(lines, {"VALIDSIG"})
    IN  CASE good /\ sound      -> "valid"
          [] ~ good /\ bad      -> Downgrade[lines[LastOf(lines, DOMAIN Downgrade)]]
          [] good # sound       -> "error"
          [] OTHER              -> "none"
Evaluate(lines) ==
    LET bad == Has(lines, DOMAIN Downgrade)
        good == Has(lines, {"GOODSIG"})
        sound == Has(lines, {"VALIDSIG"})
    IN  CASE bad                      -> Downgrade[lines[LastOf(lines, DOMAIN Downgrade)]]
          [] ~ bad /\ good /\ sound   -> "valid"
          [] ~ bad /\ good # sound    -> "error"
          [] OTHER                    -> "none"

\* What _parse_status makes of the bytes the reader had stored by then.
Records == SubSeq(call.msg, 1, snap)

\* _card_diagnosis: the card is blamed before the passphrase is.
CardDiagnosis(why) ==
    CASE why = "bad pin"      -> "GPGCardPinError"
      [] why = "card missing" -> "GPGCardError"
      [] OTHER                -> "none"

\* _require_decrypt_ok
RequireDecryptOk(why) ==
    CASE CardDiagnosis(why) # "none"                    -> CardDiagnosis(why)
      [] why \in {"no secret key", "bad passphrase"}    -> "GPGPassphraseError"
      [] OTHER                                          -> "GPGProcessError"

\* What the operations make of a run that came to its end.
Decrypt == IF gpg.rc = 0 THEN [is |-> "plaintext", sig |-> Evaluate(Records)]
                         ELSE [is |-> RequireDecryptOk(gpg.why), sig |-> "none"]
Sign == IF gpg.rc = 0 THEN [is |-> "signature", sig |-> "none"]
        ELSE [is |-> IF CardDiagnosis(gpg.why) # "none" THEN CardDiagnosis(gpg.why)
                     ELSE "GPGProcessError", sig |-> "none"]
Encrypt == [is |-> IF gpg.rc = 0 THEN "ciphertext" ELSE "GPGProcessError", sig |-> "none"]

\* verify() goes by the status lines; the return code counts only if there are none.
Verify_TrustsExit ==
    LET status == Evaluate(Records) IN [is |-> status, sig |-> status]
Verify ==
    LET status == Evaluate(Records)
        s == IF status = "none" /\ gpg.rc \notin {0, 1} THEN "error" ELSE status
    IN  [is |-> s, sig |-> s]

Outcome(o) ==
    CASE o \in {"verify", "verify detached"} -> Verify
      [] o = "decrypt"                       -> Decrypt
      [] o = "sign"                          -> Sign
      [] o = "encrypt"                       -> Encrypt

\* A call that ends with an exception.
Raise(e) == result' = [is |-> e, sig |-> "none"]

\* os.close() by w on every fd of fs that is there.
Close(w, fs) ==
    /\ fd' = [f \in Fd |-> IF f \in fs /\ fd[f] # "absent" THEN "closed" ELSE fd[f]]
    /\ twice' = (twice \/ \E f \in fs : fd[f] \notin {"absent", w})

RunInit ==
    /\ pc = "call"
    /\ call \in {c \in [op : Op, msg : Message, pass : BOOLEAN] :
                    /\ c.op = "sign" => c.pass                  \* an argument of sign()
                    /\ c.op \in {"sign", "encrypt"} => c.msg = <<>>
                    /\ c.pass => c.op \in {"sign", "decrypt", "encrypt"}}
    /\ fd = [f \in Fd |-> "absent"] /\ twice = FALSE
    /\ secret = "none"
    /\ writer = "none" /\ reader = "none"
    /\ gpg = [is |-> "none", rc |-> 0, why |-> "none"]
    /\ sent = 0 /\ buf = 0 /\ snap = 0
    /\ tmp = {}
    /\ result = [is |-> "pending", sig |-> "none"]

-----------------------------------------------------------------------------
\* verify(): the temporary files; if the second cannot be made the first stays.
TempFiles(fails) ==
    tmp' = IF call.op # "verify detached" THEN {} ELSE IF fails THEN {"sig"} ELSE {"sig", "data"}

\* finally, in verify()
Unlink_Data == tmp' = tmp \ {"data"}
Unlink == tmp' = {}

\* _validated_passphrase_bytes, and whether a framing byte is in there.
PassBytes(framing) == IF ~ call.pass THEN "none" ELSE IF framing THEN "zero" ELSE "plain"

\* _GPGPipes.__init__: the status pipe, then the passphrase pipe.
Pipes(complete) ==
    [f \in Fd |-> IF f \in {"status_read", "status_write"} \/ (call.pass /\ complete)
                  THEN "main" ELSE "absent"]

\* _run_gpg up to its try.  What fails here leaves behind what there was.
Call ==
    /\ pc = "call"
    /\ \/ /\ TempFiles(FALSE)                       \* goes well
          /\ secret' = PassBytes(FALSE)
          /\ fd' = Pipes(TRUE)
          /\ pc' = "spawn"
          /\ UNCHANGED result
       \/ /\ call.op = "verify detached"            \* no second temporary file
          /\ TempFiles(TRUE)
          /\ Raise("os error") /\ pc' = "done"
          /\ UNCHANGED <<secret, fd>>
       \/ /\ tmp' = {}                              \* _assert_binary_not_swapped
          /\ Raise("swapped") /\ pc' = "done"
          /\ UNCHANGED <<secret, fd>>
       \/ /\ call.pass                              \* NUL or newline
          /\ secret' = PassBytes(TRUE)
          /\ Raise("validation") /\ pc' = "done"
          /\ UNCHANGED <<fd, tmp>>
       \/ /\ call.pass                              \* no second pipe
          /\ secret' = PassBytes(FALSE)
          /\ fd' = Pipes(FALSE)
          /\ Raise("os error") /\ pc' = "done"
          /\ UNCHANGED tmp
       \/ /\ call.pass                              \* reject_passphrase_in_argv
          /\ secret' = PassBytes(FALSE)
          /\ fd' = Pipes(TRUE)
          /\ Raise("validation") /\ pc' = "done"
          /\ UNCHANGED tmp
    /\ UNCHANGED <<call, twice, writer, reader, gpg, sent, buf, snap>>

\* Popen, and close_child_ends; or Popen fails.
Spawn ==
    /\ pc = "spawn"
    /\ \/ /\ gpg' = [gpg EXCEPT !.is = "running"]
          /\ Close("main", {"pass_read", "status_write"})
          /\ pc' = "threads"
          /\ UNCHANGED result
       \/ /\ Raise("no process")
          /\ pc' = "finally"
          /\ UNCHANGED <<gpg, fd, twice>>
    /\ UNCHANGED <<call, secret, writer, reader, sent, buf, snap, tmp>>

\* take_status_read, take_pass_write: the threads own the ends from here on.  A
\* thread that cannot be started leaves an end nobody owns, and gpg running.
StartThreads ==
    /\ pc = "threads"
    /\ \/ /\ reader' = "reading"
          /\ writer' = IF call.pass THEN "writing" ELSE "none"
          /\ fd' = [fd EXCEPT !["status_read"] = "reader",
                              !["pass_write"] = IF call.pass THEN "writer" ELSE @]
          /\ pc' = "communicate"
          /\ UNCHANGED result
       \/ /\ fd' = [fd EXCEPT !["status_read"] = "lost"]          \* no reader
          /\ Raise("no thread") /\ pc' = "finally"
          /\ UNCHANGED <<reader, writer>>
       \/ /\ call.pass                                            \* no writer
          /\ reader' = "reading"
          /\ fd' = [fd EXCEPT !["status_read"] = "reader", !["pass_write"] = "lost"]
          /\ Raise("no thread") /\ pc' = "finally"
          /\ UNCHANGED writer
    /\ UNCHANGED <<call, twice, secret, gpg, sent, buf, snap, tmp>>

\* _drain_pipe: one line; a line beyond the limit is dropped and ends it.
ReaderRead ==
    /\ reader = "reading" /\ buf < sent
    /\ IF buf < Limit THEN buf' = buf + 1 /\ UNCHANGED <<reader, fd, twice>>
       ELSE reader' = "done" /\ Close("reader", {"status_read"}) /\ UNCHANGED buf
    /\ UNCHANGED <<pc, call, secret, writer, gpg, sent, snap, tmp, result>>

\* _drain_pipe: the end of the stream.
ReaderEof ==
    /\ reader = "reading" /\ buf = sent /\ gpg.is \in {"exited", "killed"}
    /\ reader' = "done" /\ Close("reader", {"status_read"})
    /\ UNCHANGED <<pc, call, secret, writer, gpg, sent, buf, snap, tmp, result>>

\* _write_passphrase_pipe: the passphrase, or EPIPE ...
WriterWrite ==
    /\ writer = "writing"
    /\ writer' = "wrote"
    /\ UNCHANGED <<pc, call, fd, twice, secret, reader, gpg, sent, buf, snap, tmp, result>>

\* ... and the finally of the thread.
WriterClose ==
    /\ writer = "wrote"
    /\ writer' = "done"
    /\ secret' = "zero"
    /\ Close("writer", {"pass_write"})
    /\ UNCHANGED <<pc, call, reader, gpg, sent, buf, snap, tmp, result>>

-----------------------------------------------------------------------------
\* gpg writes the next status line.
GpgEmit ==
    /\ gpg.is = "running" /\ sent < Len(call.msg)
    /\ sent' = sent + 1
    /\ UNCHANGED <<pc, call, fd, twice, secret, writer, reader, gpg, buf, snap, tmp, result>>

\* gpg is done: 0 if it has no objection, 1 for a bad signature, 2 if it fails,
\* for a secret-key operation with one of the complaints the code knows.
GpgExit ==
    /\ gpg.is = "running"
    /\ \/ /\ sent = Len(call.msg)
          /\ call.pass => writer \in {"wrote", "done"}
          /\ gpg' = [gpg EXCEPT !.is = "exited",
                                !.rc = IF Has(call.msg, {"BADSIG", "ERRSIG"}) THEN 1 ELSE 0]
       \/ /\ SecretOp(call.op)
          /\ \E w \in Complaint : gpg' = [is |-> "exited", rc |-> 2, why |-> w]
       \/ ~ SecretOp(call.op) /\ gpg' = [is |-> "exited", rc |-> 2, why |-> "none"]
    /\ UNCHANGED <<pc, call, fd, twice, secret, writer, reader, sent, buf, snap, tmp, result>>

\* proc.communicate() returns, or the timeout strikes: kill, collect, raise.
Communicate_NoTimeout ==
    /\ pc = "communicate" /\ gpg.is = "exited" /\ pc' = "join"
    /\ UNCHANGED <<call, fd, twice, secret, writer, reader, gpg, sent, buf, snap, tmp, result>>
Communicate ==
    /\ pc = "communicate"
    /\ \/ gpg.is = "exited" /\ pc' = "join" /\ UNCHANGED <<gpg, result>>
       \/ /\ gpg.is = "running"
          /\ gpg' = [gpg EXCEPT !.is = "killed"]
          /\ Raise("timeout")
          /\ pc' = "finally"
    /\ UNCHANGED <<call, fd, twice, secret, writer, reader, sent, buf, snap, tmp>>

\* status_reader.join(timeout=1.0): the reader may not be through yet.  The
\* operation's answer depends on what is there by now.
JoinReader ==
    /\ pc = "join"
    /\ snap' = buf
    /\ pc' = "finally"
    /\ UNCHANGED <<call, fd, twice, secret, writer, reader, gpg, sent, buf, tmp, result>>

\* finally: close_owned, the joins (with timeouts), zero; then the operation's
\* own conclusion, and the finally of verify().
Finally_NoBackstop ==
    /\ pc = "finally"
    /\ Close("main", {f \in Fd : fd[f] = "main"})
    /\ IF result.is = "pending" THEN result' = Outcome(call.op) ELSE UNCHANGED result
    /\ Unlink
    /\ pc' = "done"
    /\ UNCHANGED <<call, secret, writer, reader, gpg, sent, buf, snap>>
Finally_ClosesAll ==
    /\ pc = "finally"
    /\ Close("main", Fd)
    /\ secret' = IF secret = "plain" THEN "zero" ELSE secret
    /\ IF result.is = "pending" THEN result' = Outcome(call.op) ELSE UNCHANGED result
    /\ Unlink
    /\ pc' = "done"
    /\ UNCHANGED <<call, writer, reader, gpg, sent, buf, snap>>
Finally ==
    /\ pc = "finally"
    /\ Close("main", {f \in Fd : fd[f] = "main"})
    /\ secret' = IF secret = "plain" THEN "zero" ELSE secret
    /\ IF result.is = "pending" THEN result' = Outcome(call.op) ELSE UNCHANGED result
    /\ Unlink
    /\ pc' = "done"
    /\ UNCHANGED <<call, writer, reader, gpg, sent, buf, snap>>

MainStep == Call \/ Spawn \/ StartThreads \/ Communicate \/ JoinReader \/ Finally
Reader == ReaderRead \/ ReaderEof
Writer == WriterWrite \/ WriterClose
Gpg == GpgEmit \/ GpgExit
RunNext == MainStep \/ Reader \/ Writer \/ Gpg

RunSpec == RunInit /\ [][RunNext]_runVars

\* The threads are scheduled; gpg may hang.
RunFairSpec == RunSpec /\ WF_runVars(MainStep) /\ WF_runVars(Reader) /\ WF_runVars(Writer)

-----------------------------------------------------------------------------
\* The answer does not rest on everything gpg would have said: lines were
\* dropped at the limit or not stored in time, or gpg stopped in the middle.
Cut == snap < Len(call.msg)

\* verify() and decrypt() call a message valid only if gpg objected to none of
\* its signatures, however many there are and in whatever order the lines come;
\* what the status pipe lost is the one exception (the return code is not asked).
\* verify() calls a message unsigned only if it has no signature: neither a run
\* that fails nor a signature that cannot be checked looks like that, unless
\* gpg's lines were lost and its return code says success.
VerdictIsEarned ==
    pc = "done" =>
        /\ result.sig = "valid" => call.msg # <<>> /\ (~ Bad(call.msg) \/ Cut)
        /\ result.is = "none" => call.msg = <<>> \/ (Cut /\ gpg.rc \in {0, 1})

\* The call is over, and its threads have ended.
Over == pc = "done" /\ reader # "reading" /\ writer \notin {"writing", "wrote"}
Unclosed == {f \in Fd : fd[f] \notin {"absent", "closed"}}

\* It failed before the try of _run_gpg.
Early == result.is \in {"os error", "validation"}

\* No fd is closed by two of the three threads: the second close() could hit an
\* fd another run has opened under the same number in between.  When _run_gpg has
\* returned and its threads have ended, all four ends are closed, verify()'s files
\* are gone and the passphrase is wiped, whether gpg read it, died, or was never
\* started.  What fails before the try is the first exception: it leaves the pipes
\* or the first file there is, and with a pipe the passphrase.  A thread that does
\* not start is the other: it leaves the one end it would have owned.
NothingLeft ==
    /\ RunTypeOK
    /\ ~ twice
    /\ Over =>
        \/ Unclosed = {} /\ tmp = {}
        \/ Early /\ gpg.is = "none"
        \/ result.is = "no thread" /\ tmp = {} /\ \E f \in Fd : Unclosed = {f} /\ fd[f] = "lost"
    /\ pc = "done" => secret # "plain" \/ (Early /\ fd["status_read"] = "main")

\* _GPGPipes (gpg_service.py:548-549), "close_owned() closes whatever was not handed
\* off (the error paths)": after a call no end of its pipes is left to it.  False:
\* reject_passphrase_in_argv and a second pipe that cannot be had raise before the
\* try whose finally calls close_owned().
OwnedIsClosed == Over => \A f \in Fd : fd[f] # "main"

\* A call that has begun comes back, even if gpg hangs: at the latest by the timeout.
CallReturns == pc # "call" ~> pc = "done"

=============================================================================
