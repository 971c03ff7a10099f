# GPG-Meister: TLA+ models, model checks and proofs

GPG-Meister is a PySide6 desktop program around `gpg`: it keeps a keyring of its
own, encrypts and signs messages and folders, packs keys into encrypted *vault*
files, opens keys with FIDO2 tokens and smartcards, and writes an audit log.
Several instances may run side by side, every long operation runs on a worker
thread, and the interesting state (vault files, log, database, keyring) survives
crashes. This directory models the parts where these facts meet.

All paths below are relative to `src/gpg_meister/` unless they start with
`docs/` or `tests/`.

## 1. Inventory

| Component | State | Operations | Talks to | What makes it correct |
|---|---|---|---|---|
| File lock (`storage/file_lock.py`) | lock file's name and inode, descriptor, kernel lock | `acquire` (poll until a deadline, compare inodes, open again), `release` (unlock, close, unlink) | audit log, vault service of all instances | exclusion of conflicting holders; `acquire` ends |
| Atomic write (`storage/atomic_write.py`) | temporary file, target, what is fsynced | `__enter__`, `write`, `__exit__` | vault files, sidecars, audit tip, settings | target always whole; a failure leaves it alone; no litter |
| Audit log (`storage/audit_log.py`) | log lines, `.tip`, `_seq`, `_prev_hash`, `_dropped`, buffer | `emit`, `emit_best_effort`, `close`, `verify_chain` | file lock, atomic write; every service emits | chain stays linked; a lost record is counted; no false alarm |
| Key unlock (`services/key_unlock_service.py`, `security/key_unlock.py`, `models/key_unlock.py`) | rows of `key_unlock_slot`, the secret in memory | create with token, bind, unlock, forget | gpg, FIDO tokens, metadata store, key service | no key that nobody can open; no needless wrong PIN |
| FIDO service (`services/fido_service.py`) | PIN counter of the token | enroll, derive | key unlock | one PIN attempt per call |
| Key service (`services/key_service.py`) | keyring and key metadata | create, import, delete, labels, purposes | gpg, store, audit log | reports agree with what happened |
| Metadata store (`storage/metadata_store.py`, `storage/migrations.py`) | SQLite tables | one transaction per call | services | limits, migrations applied once |
| Vault service (`services/vault_service.py`) | vault frame, `.sha256` sidecar, vault records | `create`, `preview`, `import_keys`, `unlock_info` | file lock, atomic write, gpg, audit log, store | frame and sidecar belong together; a mismatch means something |
| Vault import wizard (`ui/vault/vault_import_view.py`) | page, preview, validated, working | Next, Back, worker results, mismatch box | vault service through `ui/worker.py` | what is imported is what was shown and confirmed |
| Vault format and key slots (`security/vault_format.py`, `security/vault_keyslots.py`, `models/vault.py`) | none (pure) | pack, unpack, wrap, unwrap | vault service | unpack inverts pack, bounded input |
| gpg service (`services/gpg_service.py`) | subprocess, pipes, two threads, status lines | every gpg call | all services | ends within its timeout; all status lines decide about a signature; nothing of the passphrase stays |
| Message service, recipients (`services/message_service.py`) | results with warnings | encrypt, decrypt, sign, verify | gpg service | recipient policy; no smuggled key stays imported |
| Folder service (`services/folder_service.py`) | staging directory | pack, unpack | gpg service | a target is published whole or not at all |
| Smartcard (`services/smartcard_service.py`, `services/card_scripts.py`, `models/smartcard.py`, `ui/keys/smartcard_view.py`, `ui/keys/card_admin_view.py`) | card, PIN retry counters, panel, dialog, answer script | sync, change and unblock PIN, move, generate | gpg, vault service | no key overwritten unasked; honest reports; attempts not burnt |
| Configuration, startup, detector (`services/config_service.py`, `app.py`, `startup/*`, `ui/settings/*`) | `config.toml`, pinned gpg, trust answer | load, save, detect, pin, check | audit log, gpg service | the gpg that runs is the one that was trusted; a start settles |
| Factory reset (`storage/factory_reset.py`) | marker, directories | request, perform at start | paths, secret keys | a reset that was begun is completed |
| Vault export page (`ui/vault/vault_export_view.py`, `vault_export_viewmodel.py`, `ui/widgets/token_unlock_dialog.py`) | selection, passphrases, token-derived buffers, tokens, *Token only* | select, unlock, tick, submit, results | vault service, key list | a vault opens the way the user asked; buffers have one owner |
| Encrypt and decrypt pages (`ui/messages/*`, `ui/operation_viewmodel.py`) | recipients, confirmation, output, timer | edit, submit, results, hide | message service, clipboard | no message to a refused key; plaintext does not stay |
| Clipboard (`ui/clipboard.py`) | pending clears, clipboard | copy, timer, flush at exit | views | own secrets are wiped, others' text is not |
| Key list view model (`ui/keys/key_list_viewmodel.py`) | list, busy flag | refresh, results | key service through workers | the last state shown is the last state |
| Secure memory, KDF, policy (`security/*`) | buffers | wipe, derive | services | below the level of these models |
| Views, widgets, help, i18n | layout, text | | | not modelled |

What is hard here: two system calls of one process with another process between
them (lock, audit log, vault); a crash or a power loss between two of several
steps (atomic write, slots of a key, frame and sidecar, log and tip); an error in
the clean-up after an error; a lock that is dropped before the value read under
it is used; results of worker threads delivered to a page that has moved on; a
PIN or a deadline in a retry loop; a card or a binary that is exchanged between
the look at it and its use; a signal that fires in the middle of a handler. `PROJECT.json` lists these hazards line by
line under `hazards`.

## 2. Modules

| Module | Models | Notes |
|---|---|---|
| `SharedLock` | abstract | reader/writer lock: what the file lock promises |
| `FileLock` | `storage/file_lock.py` | one action per system call, both platforms, process death |
| `FileLockProofs` | | proofs for `FileLock`, refinement of `SharedLock` included |
| `DurableRegister` | abstract | a register whose newest values a power loss may take back |
| `AtomicWrite` | `storage/atomic_write.py` | one action per system call, errors, process death, power loss |
| `AtomicWriteProofs` | | proofs for `AtomicWrite`, refinement of `DurableRegister` included |
| `AuditLog` | `storage/audit_log.py` | several instances, the chain and the tip, every I/O fault |
| `AuditLogProofs` | | proofs for `AuditLog` |
| `KeyUnlock` | `services/key_unlock_service.py` with the parts of key service, FIDO service and store it calls | concurrent calls on one keyring and one slot table |
| `KeyUnlockProofs` | | proofs for `KeyUnlock` |
| `VaultFile` | file half of `services/vault_service.py` | uses `SharedLock` for the vault's lock |
| `VaultFileProofs` | | proofs for `VaultFile` and `Smartcard` |
| `VaultImport` | `ui/vault/vault_import_view.py` with `ui/worker.py` | pages, worker results in any order |
| `Startup` | `app.py` with `storage/factory_reset.py`, `services/config_service.py`, `startup/*`, `ui/settings/*`, `ui/gpg_trust_dialog.py` | several instances, reset cut off anywhere, gpg replaced |
| `StartupProofs` | | proofs for `Startup` |
| `GpgRun` | `_run_gpg` and what the operations make of it, `services/gpg_service.py` | pipes, threads, timeout, verdicts |
| `Smartcard` | `services/smartcard_service.py`, `services/card_scripts.py`, the card dialogs, `_unwrap_openpgp_slot` | cards may be swapped, gpg's questions are not fixed |
| `VaultExport` | export page, its view model, token dialog, contents of `VaultService.create` | UI events and worker results in any order |
| `VaultPagesProofs` | | proofs for `VaultExport` and `VaultImport` |
| `Messages` | encrypt and decrypt pages, message service, clipboard | overlapping operations, timers |
| `MessagesProofs` | | proofs for `Messages` and `GpgRun` |
| `MC*` | | definitions of the TLC instances: symmetry sets, all faults; `MCVaultCards`, `MCVaultPages` and `MCMessageRun` put two components into one run |

`Name_Something(...)` beside `Name(...)` is a deliberately broken variant: a
plausible bug of that code, named in `PROJECT.json` under `mutants` with the
property that catches it. No specification uses them.

### How state and actions correspond to the code

**FileLock.** `posix` is the platform, chosen at the start; `path` is the inode `<target>.lock` names, `fd[p]` the inode of
`_fd`, `granted[p]` the kernel's lock. `Acquire` is `acquire()` up to the first
`open`; `Lock`, `Timeout`, `LockError`, `Confirm`, `Abandon`, `Reopen` are the
loop of `_acquire_posix` (Windows: `Lock` and `Timeout` only); `Unlock`, `Close`,
`Unlink` the three calls of `release()`. `orphaned` is a history variable: the
holders whose lock file was unlinked under them. When `flock` fails with an error
other than `BlockingIOError`, `acquire()` raises with `_fd` open (`file_lock.py:91-92`):
`LockError` leaves the descriptor, and with it the inode, in use until the process
dies. A member of `Proc` is a process with one `FileLock` object at a time.

**AtomicWrite.** A writer is one call; its temporary file has its name. `entries`
is the sequence of files the target's name has referred to, `onDisk` how much of
it a directory fsync has confirmed. `PowerLoss` gives every file that was not
fsynced any content and takes back any number of unconfirmed renames.

**AuditLog.** A line is a record of the fields `verify_chain` reads; a number
stands for its hash. `Emit`/`Open`, `TakeLock` or `LockTimeout`, `Scan`
(`_scan_tail_state`), `Flush`/`FlushFails`, `Sync`/`SyncFails`, `Tip` are `emit()`
in order; `Close` is `close()`, which flushes the buffer without the file lock.
Threads of one instance are serialised by `AuditLog._lock`, so an instance is one
process. The file lock is an ideal exclusive lock (end of section 4). `PowerLoss`
leaves the tip alone: it is written with `AtomicWriter`, which follows its rename by a
directory fsync, and a rename that is taken back because that fsync failed
(`atomic_write.py:32`, `:108`) is left out.

**KeyUnlock.** A task is a worker thread inside one service call, `job` its local
variables. Creation is `CreateStart`, `Enroll`, `Generate`, `Store` (one per slot,
each a transaction), `Audit`, `Record` (`_record_new_key`: the label, and the look for
the key in the listing), with `StoreFails`, `Undo`, `Discard` as the error path; deletion is `DeleteStart`, `GpgDelete`, `Audit`, `Forget`. `sealed` are the
keys whose passphrase is the random secret. `tries` are the slots an unlocking still has
to try, in the order of their rows. `Faults` selects what may fail,
`Restore` brings a deleted key back from a vault, and `harm[k]` records which
faults have hit key `k`.

**VaultFile.** `CreateStart` to `Release` are `create()`: lock, collect and
encrypt, frame, sidecar, audit event, record; `Fail` is its `except` clause.
`OpenStart` to `Mismatch` are `_open()`: shared lock, read, unlock, decrypt,
compare with the sidecar. Only the failures in `Faults` happen; `Die` drops the lock.
The lock excludes as `SharedLock` does, and is waited for as `FileLock` is: on POSIX
(`posix`) a release unlinks the lock file, those who wait for it are left with a file
that has no name (`stale`), and `Retry` opens the new one without a look at the
deadline. `AuditReplaced` does the same to a task that waits for the audit log's lock.

**VaultImport.** `NextFile`, `NextUnlock`, `NextSelect` and `Back` are the
buttons; `EnterUnlock`, `EnterSelect`, `EnterResult` the `initializePage` methods.
`PreviewDone`, `PreviewFailed`, `PreviewMismatch` and `ImportDone` deliver a
worker's result on whatever page the wizard is on. `QWizard` itself is not part of
the repository; it is modelled by what this view needs of it. A mismatch box
blocks the user and runs an event loop, so results still arrive under it.

**Startup.** `pc[i]` is where `main()` of instance `i` is. `Launch` begins a start;
`RemoveDir`, `RemoveEntry`, `FinishReset` are `perform_pending_factory_reset`, down to
the order in which `rmtree` meets the marker and `config.toml` in one directory (any);
`Load`, `ResolveGpg`, `Decline`, `Accept`, `CheckVersion` (which runs `gpg --version`)
and `BuildWindow` the rest of the start. `SaveSettings`, `PersistPage`, `RequestReset`
and `Close` belong to the window; an operation with gpg is `CheckSwap`
(`_assert_binary_not_swapped`) and `RunGpg` (`Popen`), with the file replaced in
between or not. A configuration is its gpg path and pin, and whether it is from before
the reset. `hist` and `gap`, the instances whose binary has changed since they last
looked at it, are for the properties only.

**GpgRun.** One call. `Call` is everything before the `try` of `_run_gpg`, with each
place where it may raise: the temporary files, the swap check, the passphrase, the
second pipe, `reject_passphrase_in_argv`. `Spawn`, `StartThreads`, `Communicate`, `JoinReader`,
`Finally` are the rest of the calling thread (a thread may fail to start); `ReaderRead`, `ReaderEof` and `WriterWrite`,
`WriterClose` the two threads; `GpgEmit` and `GpgExit` are gpg. `fd[f]` is who has to
close an end of a pipe. A message is the sequence of status tags gpg has to say about it,
`sent`, `buf` and `snap` how many of them were written, stored and used. `Evaluate` is `_evaluate_signature`; `Decrypt`, `Sign`,
`Encrypt`, `Verify` turn return code, texts and status lines into a result.

**Smartcard.** A job is a worker started by a dialog: `Check` (the look at the card),
`StartEditor`, then question by question `Take`/`AnswerPrompt` and what gpg and the
card do with the answer, until `QuitEditor` or `Timeout`; `Conclude` reports, and the
audit event it emits may be lost (`emit_best_effort`). Slots are filled one by one
(`WriteSlot`), and the card may fail between two of them.
`StartSync`, `Probe`, `Deliver` fill the panel. `Swap` changes the card in the reader
at any time. `OpenVault`, `UnwrapSlot`, `GiveUp` go through the slots of a vault: any
list within the limit, with the same key twice or not, since the header is not checked
for it (`models/vault.py:232`), and on after a rejected PIN. A dialog may be closed over
its running worker, whose signals still arrive. Menu answers are left out. `lost`,
`changed` and `whole` are for the properties only.

**VaultExport.** One action per Qt signal, with everything the slot calls, the signals
it fires again included: `UnlockClicked` clears the field after storing, and the
clearing is a `textChanged` of its own. `open[k]` counts the buffers of key `k` that
are not closed. `OpenDialog`, `DerivationSucceeds`, `DismissDialog` are the modal token
dialog, in which an edit of the PIN field enables *Unlock* while a worker runs: the result
of a second worker, or of one that was running when the dialog was left, comes late
(`LateResult`) and stays in the dialog (`stray`). `Exportable` leaves gpg's complaint about
an export open: any key that is no stub may be taken into the vault without its private half; `Submit`, `Create`, `Succeeded`, `Failed` an export; `ListKeys` and
`KeysLoaded` a reload.

**Messages.** `enc` and `dec` are a page with its view model. `SubmitEncrypt` and
`SubmitDecrypt` take a worker; `Check` is the recipient policy, `RunGpg` the operation,
`EncryptReturns` and `DecryptReturns` deliver. Clearing the passphrase field after
`submit()` enables *Decrypt* again at once, while with a token it stays off until the
result. `OutputTimeout`, `HideEvent`,
`ShowEvent` are the decrypt page's; `CopyText`, `ClearTimeout`, `Quit` the clipboard's.
A behaviour uses one of the two pages (`tab`): they share the workers' pool and the
clipboard, and what the clipboard does is the same for both.

## 3. Runs

Eight runs pass. Three of them check two components each, which share no state: a
behaviour is of one of the two (`part`, chosen at the start, in the `MC` module), the
other stays as it began, and the properties of both are checked.

| Run | Shows |
|---|---|
| `file_lock` | conflicting holders never on Windows, and on POSIX only after an unlink under one of them (`ConflictNeedsUnlink`); refinement of `SharedLock`; `acquire()` returns, on Windows always and on POSIX once the others rest (`AcquireReturns`) |
| `atomic_write` | a failed write leaves the target alone and no litter (`FailureLeavesNothing`), an acknowledged one survives (`ConfirmedSurvives`); refinement of `DurableRegister`, whose values are whole files |
| `audit_log` | with every fault and both chain modes: the chain breaks for three causes only (`ChainStaysLinked`), a warning needs one of them or an interrupted append (`WarningNeedsInterruption`), a missing record is counted (`NoSilentLoss`) |
| `key_unlock` | with everything allowed to fail: what may leave a key without a way in or without its fallback is a gpg error after the fact, a failed discard, a crash or a restore, never the store or another call (`WaysInAreKept`); a creation reported as failed left nothing or a complete key (`FailureIsTrue`); `OneWrongPinPerCall`, `UserKeysKept` |
| `vault_cards` | `VaultFile`: two creates never mix their files (`PairBelongsTogether`), a vault reported as created is there (`ReportedVaultIsThere`), a mismatch has one of three reasons (`MismatchIsExplained`), every call ends, on POSIX once the lock file it waits for keeps its name (`CallEnds`) |
| | `Smartcard`: no key on a card is overwritten without REPLACE typed (`NoKeyVanishes`); an "ok" in the log without answers left over, a failure and a refusal are what they say (`ReportIsHonest`); an operation ends though gpg hangs, and so does the opening of a vault (`JobEnds`) |
| `vault_pages` | `VaultImport`: with results on any page, `SelectHasKeys` and `UnlockPageRecovers`; a user who waits for previews gets what was shown, confirmed and, if damaged, accepted (`PatientUserGetsPreview`) |
| | `VaultExport`: a vault without passphrase was asked for (`TokenOnlyIsAsked`), buffers have exactly one owner, a dialog that was left among them (`SecretsAccounted`), a step that marks a key unlocked stores something for it (`UnlockedWithSomething`; a later click can drop it again) |
| `startup` | outside the whitelist only accepted binaries are pinned, in the file, in copies and for the session (`OnlyAcceptedIsTrusted`); only such are executed, by the version query too, unless the file changed after the last look (`OnlyAcceptedRuns`); a reset is taken up until nothing old is left (`MarkerOutlivesData`), a start settles (`StartSettles`) |
| `message_run` | `GpgRun`: no verdict better than all of gpg's lines (`VerdictIsEarned`), every descriptor closed once, files gone, passphrase wiped (`NothingLeft`), the call returns (`CallReturns`) |
| | `Messages`: each encryption had a tick of its own and none goes to a refused key (`RecipientsAreApproved`), `HiddenIsScrubbed`, `CopyHasTimer`, `ForeignIsLeft`, and plaintext is wiped from page and clipboard (`SecretsAreWiped`) |

The type invariant of a module is the first conjunct of one of its invariants.

Four runs end in a violation of something the repository says of itself, each quoted
under `findings` in `PROJECT.json`:

| Run | Said | Done |
|---|---|---|
| `export_blank` | a vault has a passphrase slot unless *Token only* is ticked (the page, `docs/smartcard.md:177`) | a passphrase of spaces passes the form, is stripped to an empty buffer, which is false in Python, and the vault gets token slots only (`PassphraseKeepsWorking`) |
| `unlock_crash` | "derive from the token first, persist the slots, and only then create the key" (`key_unlock_service.py:12`) | the key is generated first; a crash before its slots are stored leaves a key nobody can open (`NobodyIsLockedOut`) |
| `startup_pin` | "subsequent launches re-verify without prompting" (`gpg_trust_dialog.py:7`) | the settings page writes the configuration without the pin back (`AskedOnce`) |
| `encrypt_tick` | the box confirms "you checked each recipient's fingerprint before encrypting" (`ui/help/help_view.py:128`) | a recipient added after the tick keeps it (`TickCoversAll`) |

More of what the repository says does not hold. These configurations are no runs of
`PROJECT.json`; TLC refutes their property within a minute each
(`tlc -config KeyUnlockHalf.cfg MCKeyUnlock`, and so on; `GpgRunPipes.cfg` belongs to
`GpgRun`). The properties stand in the modules beside the ones that say how far the
promise goes.

| Configuration | Said | Done |
|---|---|---|
| `KeyUnlockRestore.cfg` | "The unlock slots describe a secret key that no longer exists" (`key_service.py:264`) | a vault still has it, and restored it has no slots (`NobodyIsLockedOut`) |
| `KeyUnlockHalf.cfg` | "All or nothing" (`key_unlock_service.py:253`) | two transactions; a crash in between leaves the token slot alone (`NoHalfSet`) |
| `FileLockDeadline.cfg` | "Block until the lock is acquired or `timeout` expires" (`file_lock.py:56`) | the retry after a replaced lock file looks at no deadline (`AcquireEnds`) |
| `GpgRunPipes.cfg` | "`close_owned()` closes whatever was not handed off (the error paths)" (`gpg_service.py:548`) | what raises before the `try` closes nothing (`OwnedIsClosed`) |
| `SmartcardOk.cfg` | "the status records [...] decide whether an operation actually happened" (`card_scripts.py:230`) | no failure record counts as success: after a refused replacement the user reads "The card generated its keys." (`OkMeansDone`) |
| `SmartcardAnswers.cfg` | answers are "keyed by that keyword rather than supplied as a flat list" (`card_scripts.py:8`) | all secrets share one queue: a passphrase is given as the admin PIN (`AnswerIsForQuestion`) |
| `VaultExportStray.cfg` | "A secret nobody collected must not outlive the dialog" (`token_unlock_dialog.py:180`) | a late result stays in a dialog that is gone (`NoSecretOutlivesDialog`) |
| `VaultExportPublic.cfg` | "GPG error 67108875 at export time means the same" as a key on a card (`vault_service.py:818`) | the number is gpg-agent's bad passphrase, and is looked for in any error text; whether gpg writes it there is up to gpg (`PublicOnlyOnlyForCards`) |

In the first, in `SmartcardAnswers.cfg` and in `VaultExportPublic.cfg` a comment or
docstring reasons from something that need not hold; the others are bugs.

The passing properties say exactly how far each promise does hold. Where they make
an exception, the exception is a behaviour of the code, and taking it out of the
property makes TLC show it:

* `ConflictNeedsUnlink`: `release()` unlinks by name after it has unlocked
  (`file_lock.py:168`); the next holder loses its name and a third process locks a
  new file. `file_lock.py` promises serialisation without that exception.
* `AcquireReturns`: on POSIX the retry after a replaced lock file
  (`file_lock.py:111-121`) looks at no deadline, so it need not end while others keep
  acquiring and releasing.
* `Disturbed` in `AuditLog`: `_scan_tail_state` takes a torn last line for a
  complete one, and the next record is glued to it; a record whose flush failed
  (`audit_log.py:250`) stays buffered and is written with the next one, under the same
  `seq`, although the docstring promises a monotonic counter; a file with lines of both
  `hash_chain` modes fails `verify_chain` at every later start, although a
  comment (`audit_log.py:383`) means to accept it.
* `harm` in `KeyUnlock`: the docstring (`key_unlock_service.py:10-15`) has the slots
  persisted before the key exists, the code generates the key first (`:173`) and stores
  them afterwards (`:186`), so a crash in between leaves a key nobody can open;
  the two slots are two transactions, so a crash between them leaves a token-only
  key; a deletion drops slots that a copy of the key in a vault still needs
  (`restore`). A finished creation is reported as a failure when the strict `emit()` at
  its end, the label or the listing (`key_service.py:207-231`) fails; `FailureIsTrue`
  therefore allows a key with all its ways in.
* `MismatchIsExplained`: the sidecar is read after the shared lock is gone
  (`vault_service.py:1141`), so a vault replaced meanwhile counts as a mismatch
  although frame and sidecar match.
* `hasty` in `VaultImport`: Back while a preview runs lets its result show one vault's
  keys while the import reads another (`vault_import_view.py:294`), or press Next on
  the select page (`vault_import_view.py:299`). The import never passes
  `skip_checksum`, so a vault the user chose to open anyway is previewed and then
  refused (`ImportDone`).
* `hist.survivor` and `hist.cut` in `Startup`: an instance that is up during a reset
  stores its configuration afterwards, and a second start's reset can remove a marker
  set since; a start that falls between the removal of the marker and of
  `config.toml` loads the old file. The pin of a whitelisted path is taken from a second look
  at the file after the dialog, so a binary replaced three times meanwhile leaves a pin
  of contents nobody was shown; such a pin is never compared, and
  `OnlyAcceptedIsTrusted` leaves it out. `OnlyAcceptedRuns` excepts a file that is
  replaced after the last look (`gap`): detection, version query, swap check and `Popen`
  each open the path anew.
* `Cut` in `GpgRun`: status lines beyond the limit, or not read within the one second
  of `join`, do not count, and `verify` does not ask the return code then. Among
  several complaints the last one is shown, not the worst, although a comment says so
  (`gpg_service.py:364`); none is ever shown as valid.
* `Early` in `GpgRun`: what fails before the `try` of `_run_gpg` leaves what there is:
  with the second pipe the first one, after both pipes (`reject_passphrase_in_argv`,
  `:825`, `:828`) all four ends, each time with the passphrase; with the second temporary
  file the first one. A thread that does not start leaves the one end it would have had.
* `Smartcard`: REPLACE typed for one card is carried out on another that was swapped
  in; a question GnuPG skips makes the next one of its kind take a wrong answer, which
  the code sees by what is left over and reports; a move onto an occupied slot can
  never succeed; a generation that fails after its first slot has replaced keys and is
  reported as failed; a timeout after the card has changed leaves no audit event, and any
  event may be lost (`emit_best_effort`, `smartcard_service.py:374-377`), so the log
  promises nothing by what it lacks; of two overlapping syncs the one delivered last
  fills the panel. The opening of a vault goes on after a rejected PIN, to a slot of the
  same card as well; the repository promises nothing else. A dialog that is closed leaves
  its worker running and a new one can start a second: both look at an empty card and the
  later one writes over the key of the earlier (`raced`). This exception turned up in
  the proof; it needs two workers.
* `stray` in `VaultExport`: a token dialog that was left, dismissed with Esc or accepted,
  while a worker of it ran keeps the buffer it then gets; a second worker takes an edit of
  the PIN field while the first one runs (`token_unlock_dialog.py:116-117`). A success
  wipes a form that was refilled meanwhile.
* `Messages`: `RecipientsAreApproved` counts ticks, not whom they were for (`encrypt_tick`
  refutes that); a result that arrives on a
  hidden page stays until the timer (`late`); with the delay set to 0 nothing is ever
  wiped; a text selected and copied with Ctrl+C has no timer; a killed program leaves
  its text on the clipboard.

### Bounds, and why they are enough

* *Locks.* Losing exclusion takes a releaser, a holder and a newcomer: three
  processes. Four inodes let each process have one while the name has a fourth.
* *Atomic write.* Three writers: one confirmed, one failed, one in between.
* *Audit log.* `MaxRecords` 4: at most four records ever emitted by two instances,
  room for an append of each, an interrupted one and one that heals it.
* *Key unlock.* Two tasks, two keys, `MaxSlots` 2 (the code allows more; only the
  limit being reached matters), `MaxRows` 3 rows ever written. Two tokens let a
  call meet a slot of another token.
* *Vault file.* Three tasks, two writers and a reader, and two frames: the one that
  is read and the one that replaces it.
* *Vault import.* `MaxJobs` 4 jobs started by the user; the shortest stale
  results need two previews and an import. `hasty` records whether the user has
  pressed Back while a preview was running.
* *Startup.* Two instances, one path outside the whitelist, two contents, one change
  from outside (`MaxChanges`): a binary that is replaced once while two starts look at
  it, and a reset with a bystander.
* *gpg run.* Two signatures give up to four status lines, `Limit` 3 cuts the last one
  off. Every operation and every mix of signatures is an initial state.
* *Smartcard.* Two cards with two slots, one of them holding a key, one key on disk, two
  that are generated; two attempts, one submitted operation (`MaxSubmits`), one swap
  (`MaxSwaps`): before the look, between look and run, or between two questions. Two
  operations one after the other pass as well, for safety (4 million states) and, with
  one card of one slot, for liveness, but take longer than a run should; two workers on two cards are more states than
  TLC can finish. The theorems have any number of operations and workers.
* *Vault export.* One local key with a security key and one on a card. `Bounds` is
  chosen from at the start: two overlapping exports on a page that is otherwise at
  rest; or one export at a time with two dialogs or exports and one listing or
  move beside them; or one of them with two changes, a key that is moved and then
  listed as moved. Everything else the user does is unbounded.
* *Messages.* Two keys, two messages, two workers; `MaxEncryptOps` 2 and
  `MaxDecryptOps` 5 count operations, copies and changes of the keyring together: two
  overlapping encryptions, or one of them and a key that is revoked; two overlapping
  decryptions, a copy of each, and one more.

Symmetry is used in runs without liveness only, over sets whose members the specification
never tells apart. `CHECK_DEADLOCK FALSE` is set where the bounds on jobs, records
or frames, or the end of the program or of the one call, end every behaviour, the
combined runs included; the lock run never stops and checks deadlock.

### Fairness

* `FileLock`: weak fairness of the steps a process takes inside `acquire()` and
  `release()`. The lock calls do not block, the loop sleeps and goes on, and time
  passes the deadline. Nobody has to acquire, to leave the protected section or
  to die.
* `VaultFile`: weak fairness of a task inside a call: gpg runs under timeouts, SQLite
  gives up on a busy database, and the lock is granted, times out or is opened again.
  Nobody has to stop replacing lock files, so `CallEnds` has that as its condition: a
  call ends if the lock file it waits for, the vault's or the audit log's, is replaced
  only so often.
* `VaultImport`: workers end and Qt delivers their results. The user has to do
  nothing.
* `Startup`: a start goes on, and the user answers the trust dialog either way: it is
  modal and blocks everything else. Nobody has to use the window or to close it.
* `GpgRun`: the three threads are scheduled. gpg itself may hang for ever.
* `Smartcard`: the worker of a dialog goes on, which includes its timeout, and so does the
  opening of a vault; gpg may hang, the user may do nothing.
* `Messages`: timers that run fire and workers end (gpg has a timeout), while the event
  loop runs. The user has to do nothing.

The combined runs state the fairness of each of their two components.

## 4. Proofs

Proved with TLAPS for every value of the constants: any number of instances,
processes, keys, messages, workers and records. The assumptions are the named ones of
the modules and say three kinds of things: a value that stands for "none" is none of the
others (`NoInode`, `None`, `NoPin`, `NoFile`, `NoMsg`, the three texts of the clipboard
that are no message), bounds are numbers, and the instances of the log and the workers
of the export page are finitely many. Every theorem rests on an inductive invariant;
TLC has checked each on a small instance before it was proved.

Three proof modules hold the proofs of two components and extend both. Neither says
anything about the other; the second one's specification has names of its own
(`CardSpec`, `WizardSpec`, `RunSpec`).

| Module | Proved |
|---|---|
| `FileLockProofs` | `TypeOK`, `ConflictNeedsUnlink`, `HolderOwnsTheName`, `ImplementsSharedLock` |
| `AtomicWriteProofs` | `FailureLeavesNothing`, `ConfirmedSurvives`, `ImplementsRegister` |
| `AuditLogProofs` | `ChainStaysLinked`, `WarningNeedsInterruption`, `NoSilentLoss` |
| `KeyUnlockProofs` | `WaysInAreKept`, `FailureIsTrue`, `OneWrongPinPerCall`, `UserKeysKept` |
| `VaultFileProofs` | `TypeOK`, `PairBelongsTogether`, `ReportedVaultIsThere`, `MismatchIsExplained`; of `Smartcard`: `NoKeyVanishes`, `ReportIsHonest` |
| `StartupProofs` | `OnlyAcceptedIsTrusted`, `MarkerOutlivesData`, `OnlyAcceptedRuns` |
| `VaultPagesProofs` | `TokenOnlyIsAsked`, `SecretsAccounted`, `UnlockedWithSomething`; of `VaultImport`: `SelectHasKeys`, `PatientUserGetsPreview` |
| `MessagesProofs` | `RecipientsAreApproved`, `HiddenIsScrubbed`, `CopyHasTimer`, `ForeignIsLeft`; of `GpgRun`: `NothingLeft`, `VerdictIsEarned` |

**FileLockProofs.** `IInv` is

* `TypeOK`: types and the life of the descriptor;
* `KernelExclusion`: no two incompatible kernel locks on one inode. Without it the
  inode comparison proves nothing;
* `LockLife`: who may have the kernel lock, and in which step;
* `NameKept`: a holder that was not orphaned has the inode the name refers to;
* `WindowsKeepsFile`: on Windows no step unlinks, so nobody is orphaned.

Two holders that are not orphaned both have the inode that has the name, hence one
inode, and there the kernel excludes them. From this follow `TypeCorrect`,
`ExclusionUntilUnlink` (both platforms), `HolderKeepsName`, and `Refinement`:
every step of `FileLock` is a step of `SharedLock` or leaves `holding` alone.

**VaultFileProofs.** `IInv` is

* `TypeOK`: types, and which step holds the lock how;
* `OneWriter`: a task that creates excludes every creating or reading task;
* `WriterKnows`: between its two writes the file has the creator's frame, after
  them the sidecar has it too;
* `PairOrReason`: sidecar and frame are a pair, or the frame was cut off, or
  somebody is between the two writes.

`PairBelongsTogether` alone says nothing while somebody writes and so is not
inductive; `WriterKnows` carries it through the write. From `IInv` follow
`TypeCorrect`, `PairTheorem` and the action properties `ReportTheorem` and
`MismatchTheorem`.

For `Smartcard` the invariant is `CardInv`. What gpg has left to ask tells how far an
operation has come: it has changed its card exactly if only the rest after the last PIN is
left or slots are being filled (`Progress`, whose part `Stage` says how much is left to
fill), and the whole change is made when nothing is; it gets past the question about the
keys on the card only with REPLACE typed, or without a key in these slots when gpg looked
(`Asks`); and it can end without an error and without the whole change only with answers
left over. `KeysInv`: a key that is a stub, or only public, is on a card or was
overwritten on one. `Silent`: a running operation has no event yet. That events may be lost
costs nothing, because no property infers anything from a missing one. The properties alone are not inductive: none of them says that the second "new"
is the last question, or that a moved key is on the card before "save" makes it a stub.

**AtomicWriteProofs.** What the target's name has ever referred to is whole and was
fsynced (`WholeAndSynced`), because `__exit__` fsyncs before it replaces
(`SyncedBeforeReplace`), and only a call that came through `os.replace` has entered its
file (`EnteredByReplace`); `TempLife` says whose the temporary files are. The refinement
is a case split: `Replace` appends to the register, the directory fsync confirms, a power
loss takes unconfirmed entries back, every other step stutters; since all entries are
fsynced, no power loss changes what they contain.

**AuditLogProofs.** The lock does not protect the file: instances without the chain, and
`close()`, append without it, and a power loss removes lines the tip already names. The
invariant is therefore about every *clean* prefix of the file (all lines parse, are
chained, none came late):

* `Linked`: each line of a clean prefix continues the one before it;
* `Heads`: between scan and flush the lock holder's head is the tail of the file if the
  file is clean; after the flush its line is the last; after the sync its head belongs
  to every clean prefix a power loss can still leave;
* `TipKnown`: the same for the tip, as long as no append is cut off from it;
* `LinesOK`, `ChainedOnly`, `Written`, `Fits`: buffered records are late, only chained
  instances lock, a record to be synced is in the file, the bound on records.

The lemmas about `Appended` (`Glued`, `Followed`, `CleanAppend`) show that appending
makes no clean prefix longer except by the one line of the lock's holder: what comes out
of a buffer is late, what follows a torn line is spoilt, and what comes without the lock
is not chained.

`NoSilentLoss` has an invariant of its own, `Ledger`: per instance, the missing records
have at most as many members as there are counted and reported losses. A record is
missing once; a loss is a pair of a line and a number, so both sides are cardinalities of
finite sets and no sum is needed; a flush moves the counter into a line, a power loss can
only take lines that then are on nobody's account.

**KeyUnlockProofs.** `Calls` says of each call what it knows at its step: the secret
belongs to a sealed key, a binding to a key the user knows the passphrase of, the emergency slot
is stored last, a deletion drops slots only of a key gpg has deleted, and the rows
`_persist` would undo are of its own key. With `RowsOfBorn`, and `RowsFit` for the type of
the row numbers, `WaysIn` is inductive: a row disappears only through the undo of a call
that still has the secret, or through a deletion that has taken the key first.

**StartupProofs.** `Pins` extends the property to every copy of the configuration an
instance holds; `Pages` says that the settings page shows the pin it has loaded; `Ages`
and `Resets` say what a running reset still has on its list and who may hold an old
configuration. For `OnlyAcceptedRuns`, `Looks`: an instance whose binary has not changed
since its last look would find at its path what the session was pinned to, which `Pins`
says was accepted. The attempt to prove `OnlyAcceptedIsTrusted` showed that it had held for
whitelisted paths only because one change from outside was allowed; it now says what is
true for any number of them (section 3).

**VaultPagesProofs.** `Accounts`: the open buffers of a key are as many as its owners:
the page, the running exports, and the dialogs that were left while a worker of them ran.
Each transfer between page, worker and dialog is an equation between cardinalities
(`Released`, `TakenOver`). `Ticks`: a ticked *Token only* is a consent. `Jobs`: what a
running, written or failed export has.

For the import wizard (`WizardInv`): a wizard without a chosen file is on its first page
(`Chosen`), the jobs stay within the bound (`Budget`), and, as long as the user was
patient, at most one preview is pending, of the chosen file and awaited by the unlock page
(`Awaited`), a mismatch box is about that file (`Boxed`), and what is shown is of that file
(`Fresh`).

**MessagesProofs.** One conjunct per page, one for the workers and one for the
clipboard and its timers (`ClipOK`). A confirmation that counts is for the recipients on
the page (`EncOK`); a plaintext on the page has the label that belongs to it and, with a
delay set, a timer (`DecOK`); from the recipient policy on, no operation has a recipient
that was revoked when it was submitted (`WorkOK`).

For `GpgRun` (`RunInv`): every end of a pipe has one owner, which fits what the three
threads are doing (`EndOwners`), and `Stage` says what exists before gpg is started
(`Before`), what the calling thread still has to undo after it (`After`), that the outcome
is open until then (`Open`), and which end a thread that did not start has lost (`Lost`). The verdict needs no state: the lemma
`EvaluateFacts` says what each answer of `_evaluate_signature` means for any lines, and
the lines it gets are a prefix of gpg's. That the last complaint exists for a message of
any length is by the least number principle over its positions.

`VaultFile` and `AuditLog` take the file lock to be `SharedLock`. By `Refinement`
that holds on Windows, and on POSIX for as long as no lock file is unlinked under
its holder; TLC shows that this can happen when the exception is taken out of
`ConflictNeedsUnlink`, and what is proved of vault files holds on POSIX up to that
point.

Every safety property of a passing run is proved. Only model-checked is liveness
(`AcquireReturns`, `CallEnds`, `UnlockPageRecovers`, `StartSettles`, `CallReturns`,
`JobEnds`, `SecretsAreWiped`): temporal logic under fairness is out of the prover's reach.

## 5. Not modelled, and why

* Cryptography, key derivation, memory wiping, the vault's framing: values here are
  opaque.
* Payload whitelist and secret filter of the audit log: no state.
* The loop of `VaultService.import_keys` over entries (`vault_service.py:934`): the first
  entry that fails ends it and earlier keys stay imported; nothing else is affected.
* The key list view model (`key_list_viewmodel.py:117`): results carry no number, so a
  list requested earlier and delivered later is shown; there is nothing to state but
  that.
* The verify page keeps its verdict while the text is edited (`verify_view.py:83-85`);
  sign, share and folder pages repeat the submit and result pattern of `Messages`.
* Folder service: the walk over paths and the archive format.
* `fsync` that lies, clocks that jump, file systems without POSIX rename.
* Views without control state, texts, help, translations, packaging, scripts.

## 6. Plan

Order: what can lose or disclose keys first, then what can mislead the user.

1. Done: file lock, atomic write, audit log, key unlock, vault file, import wizard;
   startup with detection, pinning and factory reset; the gpg subprocess and its
   verdicts; smartcards; the export page; messages and the clipboard.
2. Proofs: done for the safety properties of all eleven components with runs (section 4).
3. Later: staging and publication of the folder service on top of `AtomicWrite`; removal of
   smuggled keys after an import.

## 7. Running

    tlc -workers 2 -config FileLock.cfg MCFileLock
    tlapm FileLockProofs.tla

`PROJECT.json` pairs the configurations of the runs with their `MC` modules; section 3 has
the others.
