------------------------------ MODULE Startup -------------------------------
(***************************************************************************)
(* app.py: from launch to the main window and out again, with what it      *)
(* calls on the way: the pending factory reset (storage/factory_reset.py), *)
(* the configuration file (services/config_service.py), the choice of a    *)
(* trusted gpg binary (startup/gpg_detector.py, ui/gpg_trust_dialog.py),   *)
(* the environment checks, and the settings page that writes the same file *)
(* (ui/settings).  Several instances of the program share the directories. *)
(*                                                                         *)
(* A configuration is reduced to the gpg path and the trust pin: the other *)
(* preferences decide nothing here.  Every piece of stored data has an     *)
(* age: "old" if it stems from before the last requested reset.  Saving a  *)
(* file is one step here; AtomicWrite shows why it may be.                 *)
(***************************************************************************)
EXTENDS Naturals, Sequences

CONSTANTS
    Inst,       \* instances of the program
    Path,       \* gpg paths outside the whitelist
    Hash,       \* contents a binary can have
    NoPath,     \* gpg_binary_path is None: search the whitelist
    NoPin,      \* no trust pin
    NoFile,     \* config.toml does not exist
    MaxChanges  \* bound: changes made from outside (files replaced, config edited)

ASSUME PathAssumption == NoPath \notin Path
ASSUME HashAssumption == Hash # {}
ASSUME BoundAssumption == MaxChanges \in Nat

Ino == 0..1
Pin == [path : Path \cup {NoPath}, hash : Hash, ino : Ino]
Config == [path : Path \cup {NoPath}, pin : Pin \cup {NoPin}, age : {"new", "old"}]
AppConfig == [path |-> NoPath, pin |-> NoPin, age |-> "new"]

ASSUME NothingAssumption == NoPin \notin Pin /\ NoFile \notin Config

\* What perform_pending_factory_reset removes before the config directory, in
\* this order.  (Nothing is ever stored in the cache directory.)
Dirs == <<"state", "data">>
Dir == {Dirs[n] : n \in DOMAIN Dirs}

VARIABLES
    file,       \* config.toml
    marker,     \* .factory-reset-pending, in the same directory
    stale,      \* the directories that hold data from before the last reset request
    bin,        \* bin[p]: the file at path p
    pc,         \* pc[i]: where main() is
    base,       \* base[i]: main()'s config, later SettingsViewModel._saved
    cur,        \* cur[i]: _resolve_gpg's config, later SettingsViewModel._pending
    seen,       \* seen[i]: the binary the trust dialog shows
    session,    \* session[i]: the binary GPGService pinned for the session
    rm,         \* rm[i]: the entries the running reset still has to remove
    due,        \* the instances with a gpg call between its last check and Popen
    changes,    \* changes from outside so far
    gap,        \* history: the instances whose binary changed since they last looked
    hist        \* history, for the properties only

uses == <<due, gap>>
vars == <<file, marker, stale, bin, pc, base, cur, seen, session, rm, changes, uses, hist>>
disk == <<file, marker, stale>>
mine == <<base, cur, seen, session, rm>>

Step == {"off", "reset", "load", "detect", "dialog", "check", "build", "run"}

\* A binary is refused at sight if it, or a directory above it, is writable by
\* others or it is missing; its owner counts for a whitelisted path only.
Binary == [hash : Hash, ino : Ino, is : {"root", "user", "refused"}]

\* accepted: what users agreed to; cut: a reset died between the marker and
\* config.toml; older: instances that were up when a reset was requested or
\* that came up in the middle of one; survivor: one of them stored something or
\* removed the new marker.
History == [accepted : SUBSET Pin, cut : BOOLEAN, older : SUBSET Inst,
            survivor : BOOLEAN]

\* Types, and what an instance knows at each step of the start.
TypeOK ==
    /\ file \in Config \cup {NoFile}
    /\ marker \in BOOLEAN
    /\ stale \subseteq Dir
    /\ bin \in [Path \cup {NoPath} -> Binary]
    /\ pc \in [Inst -> Step]
    /\ base \in [Inst -> Config] /\ cur \in [Inst -> Config]
    /\ seen \in [Inst -> Pin \cup {NoPin}] /\ session \in [Inst -> Pin \cup {NoPin}]
    /\ rm \in [Inst -> SUBSET (Dir \cup {"marker", "file"})]
    /\ changes \in 0..MaxChanges
    /\ due \subseteq Inst /\ gap \subseteq Inst
    /\ hist \in History
    /\ \A i \in Inst : /\ pc[i] \in {"check", "build", "run"} => session[i] # NoPin
                       /\ i \in due => pc[i] = "run"
                       /\ pc[i] = "dialog" => seen[i] # NoPin
                       /\ rm[i] # {} => pc[i] = "reset"

-----------------------------------------------------------------------------
\* The binary at a path as a trust pin: canonical path, SHA-256, device/inode.
Identity(p) == [path |-> p, hash |-> bin[p].hash, ino |-> bin[p].ino]

\* _verify_trust_pin: what is wrong with pin as a pin for the binary at p.  An
\* identity is compared only if the pin has one.
PinVerdict(p, pin, withIdentity) ==
    CASE pin = NoPin                                   -> "untrusted"
      [] pin # NoPin /\ pin.path # p                   -> "path mismatch"
      [] pin # NoPin /\ pin.path = p
            /\ pin.hash # bin[p].hash                  -> "hash mismatch"
      [] pin # NoPin /\ pin.path = p /\ pin.hash = bin[p].hash
            /\ withIdentity /\ pin.ino # bin[p].ino    -> "identity mismatch"
      [] OTHER                                         -> "trusted"

\* detect(): a whitelisted binary must be root's, any other must be pinned.
Detect_TrustsAnyHash(p, pin, withIdentity) ==
    CASE bin[p].is = "refused" -> "refused"
      [] bin[p].is # "refused" /\ p = NoPath ->
            IF bin[p].is = "root" THEN "trusted" ELSE "not root owned"
      [] OTHER -> IF withIdentity THEN PinVerdict(p, pin, withIdentity) ELSE "trusted"
Detect(p, pin, withIdentity) ==
    CASE bin[p].is = "refused" -> "refused"
      [] bin[p].is # "refused" /\ p = NoPath ->
            IF bin[p].is = "root" THEN "trusted" ELSE "not root owned"
      [] OTHER -> PinVerdict(p, pin, withIdentity)

\* The failures that lead to the trust dialog; all others end the program.
Interactive == {"untrusted", "hash mismatch", "identity mismatch", "not root owned"}

Goto(i, s) == pc' = [pc EXCEPT ![i] = s]

\* What instance i stores counts as old if i is older than the last reset.
Written(i, dirs) == IF i \in hist.older THEN stale \cup dirs ELSE stale
Stored(i, h) == [h EXCEPT !.survivor = @ \/ i \in h.older]

\* The user of i has agreed to the contents shown, whatever the file's identity.
Agreed(i) ==
    Stored(i, [hist EXCEPT !.accepted = @ \cup {[seen[i] EXCEPT !.ino = n] : n \in Ino}])

\* The instance is gone, and with it all it knew.  A reset that had removed the
\* marker and not yet config.toml is cut off.
Gone(i) ==
    /\ Goto(i, "off")
    /\ base' = [base EXCEPT ![i] = AppConfig] /\ cur' = [cur EXCEPT ![i] = AppConfig]
    /\ seen' = [seen EXCEPT ![i] = NoPin] /\ session' = [session EXCEPT ![i] = NoPin]
    /\ rm' = [rm EXCEPT ![i] = {}]
    /\ due' = due \ {i} /\ gap' = gap \ {i}
    /\ hist' = [hist EXCEPT !.older = @ \ {i},
                            !.cut = @ \/ ("file" \in rm[i] /\ ~ marker)]
    /\ UNCHANGED <<disk, bin, changes>>

-----------------------------------------------------------------------------
\* An earlier session may have left a configuration, also one that pins a binary
\* at another path than the one that is configured by now.
Init ==
    /\ marker = FALSE
    /\ stale = {}
    /\ bin = [p \in Path \cup {NoPath} |->
            [hash |-> CHOOSE h \in Hash : TRUE, ino |-> 0, is |-> "root"]]
    /\ \E p \in Path : file \in
            {NoFile, [AppConfig EXCEPT !.path = p],
             [AppConfig EXCEPT !.path = p, !.pin = Identity(NoPath)]}
    /\ pc = [i \in Inst |-> "off"]
    /\ base = [i \in Inst |-> AppConfig] /\ cur = [i \in Inst |-> AppConfig]
    /\ seen = [i \in Inst |-> NoPin] /\ session = [i \in Inst |-> NoPin]
    /\ rm = [i \in Inst |-> {}]
    /\ changes = 0 /\ due = {} /\ gap = {}
    /\ hist = [accepted |-> {Identity(NoPath)}, cut |-> FALSE, older |-> {},
               survivor |-> FALSE]

\* main() up to _prepare_storage: make the directories; a marker starts the reset.
Launch(i) ==
    /\ pc[i] = "off"
    /\ IF marker THEN /\ Goto(i, "reset")
                      /\ rm' = [rm EXCEPT ![i] = Dir \cup {"marker", "file"}]
                 ELSE Goto(i, "load") /\ UNCHANGED rm
    /\ UNCHANGED <<disk, bin, base, cur, seen, session, changes, uses, hist>>

\* The next directory of the list; overwriting its secrets first is not told
\* apart from removing them.
RemoveDir(i) ==
    /\ pc[i] = "reset"
    /\ \E n \in DOMAIN Dirs :
        /\ Dirs[n] \in rm[i] /\ \A m \in 1..n - 1 : Dirs[m] \notin rm[i]
        /\ stale' = stale \ {Dirs[n]}
        /\ rm' = [rm EXCEPT ![i] = @ \ {Dirs[n]}]
    /\ UNCHANGED <<file, marker, bin, pc, base, cur, seen, session, changes, uses, hist>>

\* The config directory comes last; rmtree() unlinks what it finds there in the
\* order the file system lists it: config.toml and the marker in any order.
RemoveEntry_AnyTime(i) ==
    /\ pc[i] = "reset"
    /\ \E e \in rm[i] \ Dir :
        /\ file' = IF e = "file" THEN NoFile ELSE file
        /\ marker' = (marker /\ e # "marker")
        /\ rm' = [rm EXCEPT ![i] = @ \ {e}]
    /\ hist' = Stored(i, hist)
    /\ UNCHANGED <<stale, bin, pc, base, cur, seen, session, changes, uses>>
RemoveEntry_MarkerOnly(i) ==
    /\ pc[i] = "reset" /\ rm[i] \cap Dir = {}
    /\ \E e \in rm[i] :
        /\ marker' = (marker /\ e # "marker")
        /\ rm' = [rm EXCEPT ![i] = @ \ {e}]
    /\ UNCHANGED <<file, stale, bin, pc, base, cur, seen, session, changes, uses, hist>>
RemoveEntry(i) ==
    /\ pc[i] = "reset" /\ rm[i] \cap Dir = {}
    /\ \E e \in rm[i] :
        /\ file' = IF e = "file" THEN NoFile ELSE file
        /\ marker' = (marker /\ e # "marker")
        /\ rm' = [rm EXCEPT ![i] = @ \ {e}]
    /\ hist' = Stored(i, hist)
    /\ UNCHANGED <<stale, bin, pc, base, cur, seen, session, changes, uses>>

\* ... and the directory itself, which is empty unless another instance has
\* stored something meanwhile.  (An rmtree() that meets another one at work may
\* also fail earlier: Die.)
FinishReset(i) ==
    /\ pc[i] = "reset" /\ rm[i] = {}
    /\ IF ~ marker /\ file = NoFile
       THEN Goto(i, "load") /\ UNCHANGED <<disk, bin, mine, changes, uses, hist>>
       ELSE Gone(i)

\* ensure_safe_to_load and the parser refuse a file that others can write, a
\* symbolic link and a malformed file; whether it is one is not modelled.
MayBeRefused(c) == c # NoFile

\* _load_config: defaults if there is no file, and the end if it is refused.
Load(i) ==
    /\ pc[i] = "load"
    /\ \/ /\ base' = [base EXCEPT ![i] = IF file = NoFile THEN AppConfig ELSE file]
          /\ cur' = [cur EXCEPT ![i] = base'[i]]
          /\ hist' = [hist EXCEPT !.older = IF base'[i].age = "old" THEN @ \cup {i} ELSE @]
          /\ Goto(i, "detect")
          /\ UNCHANGED <<disk, bin, seen, session, rm, changes, uses>>
       \/ MayBeRefused(file) /\ Gone(i)

\* One round of _resolve_gpg.
ResolveGpg(i) ==
    /\ pc[i] = "detect"
    /\ LET p == cur[i].path
           verdict == Detect(p, cur[i].pin, TRUE)
       IN  \/ /\ verdict = "trusted"
              /\ session' = [session EXCEPT ![i] = Identity(p)]
              /\ Goto(i, "check")
              /\ UNCHANGED <<disk, bin, base, cur, seen, rm, changes, uses, hist>>
           \/ /\ verdict \in Interactive
              /\ seen' = [seen EXCEPT ![i] = Identity(p)]
              /\ Goto(i, "dialog")
              /\ UNCHANGED <<disk, bin, base, cur, session, rm, changes, uses, hist>>
           \/ verdict \notin Interactive \cup {"trusted"} /\ Gone(i)

\* The user rejects the binary: sys.exit(1).
Decline(i) == pc[i] = "dialog" /\ Gone(i)

\* The user accepts: detect() once more, now with the hash that was shown and
\* without an identity; what it finds is pinned and stored, and the loop starts
\* over with the new configuration.  If detect() fails now, or the file cannot
\* be stored, the program ends.
Accept_ForgetsConfig(i) ==
    /\ pc[i] = "dialog"
    /\ LET p == seen[i].path
           new == [cur[i] EXCEPT !.pin = Identity(p)]
       IN  /\ Detect(p, seen[i], FALSE) = "trusted"
           /\ file' = new
           /\ hist' = Agreed(i)
           /\ Goto(i, "detect")
    /\ UNCHANGED <<marker, stale, bin, base, cur, seen, session, rm, changes, uses>>
Accept(i) ==
    /\ pc[i] = "dialog"
    /\ LET p == seen[i].path
           new == [cur[i] EXCEPT !.pin = Identity(p)]
       IN  \/ /\ Detect(p, seen[i], FALSE) = "trusted"
              /\ cur' = [cur EXCEPT ![i] = new]
              /\ file' = new
              /\ hist' = Agreed(i)
              /\ seen' = [seen EXCEPT ![i] = NoPin]
              /\ Goto(i, "detect")
              /\ UNCHANGED <<marker, stale, bin, base, session, rm, changes, uses>>
           \/ Gone(i)

\* run_all_checks begins with check_gpg_version, which runs `gpg --version': the
\* binary detect() trusted, as it is by now and without another look at it.
CheckVersion(i) ==
    /\ pc[i] = "check"
    /\ Goto(i, "build")
    /\ UNCHANGED <<disk, bin, mine, changes, uses, hist>>

\* environment_check.py: the findings that block the start, a version that cannot
\* be had among them ...
HardFindings == {"gpg_version_too_old", "config_permissions", "missing_packages"}
\* ... and those the window shows as warnings.
SoftFindings == {"core_dumps_enabled", "gpg_version_old", "dir_permissions",
                 "memlock_limit", "swap_unencrypted"}

\* _run_environment_checks goes by the worst finding.
ChecksPass(found) == found \cap HardFindings = {}

\* GPGService.__init__ looks at the binary again and pins it for the session;
\* a pin is compared for a binary outside the whitelist only.
Revalidates(i) == Detect(session[i].path, session[i], TRUE) = "trusted"

\* The other checks and what they found, _build_services, and _build_main_window,
\* which hands the settings page the configuration main() loaded.
BuildWindow(i) ==
    /\ pc[i] = "build"
    /\ \E found \in {{}} \cup {{c} : c \in HardFindings \cup SoftFindings} :
        IF ChecksPass(found) /\ Revalidates(i)
        THEN /\ session' = [session EXCEPT ![i] = Identity(@.path)]
             /\ cur' = [cur EXCEPT ![i] = base[i]]
             /\ gap' = gap \ {i}
             /\ stale' = Written(i, {"state"})                     \* the audit log
             /\ hist' = Stored(i, hist)
             /\ Goto(i, "run")
             /\ UNCHANGED <<file, marker, bin, base, seen, rm, changes, due>>
        ELSE Gone(i)

-----------------------------------------------------------------------------
\* _assert_binary_not_swapped: identity and contents are those of the session.
NotSwapped_SameInode(i) == bin[session[i].path].ino = session[i].ino
NotSwapped(i) == Identity(session[i].path) = session[i]

\* Any operation that needs gpg looks at the binary before it does anything; a
\* binary that was swapped ends the operation here.  (Calls that are under way in
\* several threads of one instance are not told apart.)
CheckSwap(i) ==
    /\ pc[i] = "run"
    /\ i \notin due
    /\ NotSwapped(i)
    /\ due' = due \cup {i}
    /\ gap' = gap \ {i}
    /\ UNCHANGED <<disk, bin, pc, mine, changes, hist>>

\* ... and starts whatever file is at the path when Popen gets there.
RunGpg(i) ==
    /\ i \in due
    /\ due' = due \ {i}
    /\ stale' = Written(i, Dir)
    /\ hist' = Stored(i, hist)
    /\ UNCHANGED <<file, marker, bin, pc, mine, changes, gap>>

\* Store c and keep it as _saved.  A failing save changes nothing.
Save(i, c) ==
    /\ pc[i] = "run"
    /\ file' = c
    /\ base' = [base EXCEPT ![i] = c]
    /\ hist' = Stored(i, hist)
    /\ UNCHANGED <<marker, stale, bin, pc, cur, seen, session, rm, changes, uses>>

\* "Save Settings": stores _pending.
SaveSettings(i) == Save(i, cur[i])

\* persist_last_open_page, on every change of the tab: stores _saved.
PersistPage(i) == Save(i, base[i])

\* Everything that exists when a reset is asked for becomes old.
Aged(c) == [c EXCEPT !.age = "old"]

\* schedule_factory_reset, after Yes and the typed confirmation; the program
\* closes behind a modal message.
RequestReset(i) ==
    /\ pc[i] = "run"
    /\ marker' = TRUE
    /\ file' = IF file = NoFile THEN file ELSE Aged(file)
    /\ stale' = Dir
    /\ LET up == {j \in Inst \ {i} : pc[j] # "off"}
       IN  /\ base' = [j \in Inst |-> IF j \in up THEN Aged(base[j]) ELSE AppConfig]
           /\ cur' = [j \in Inst |-> IF j \in up THEN Aged(cur[j]) ELSE AppConfig]
           /\ hist' = [hist EXCEPT !.older = up, !.cut = FALSE, !.survivor = FALSE]
    /\ session' = [session EXCEPT ![i] = NoPin]
    /\ due' = due \ {i} /\ gap' = gap \ {i}
    /\ Goto(i, "off")
    /\ UNCHANGED <<bin, seen, rm, changes>>

\* The window is closed and app.exec() returns.
Close(i) == pc[i] = "run" /\ Gone(i)

\* An exception nobody catches, or a kill, anywhere.
Die(i) == pc[i] # "off" /\ Gone(i)

\* From outside: a binary is replaced or rewritten, or the user puts another
\* path into config.toml.
ReplaceBinary ==
    /\ changes < MaxChanges
    /\ changes' = changes + 1
    /\ \E p \in Path \cup {NoPath} :
        /\ \/ \E h \in Hash : bin' = [bin EXCEPT ![p].hash = h]       \* rewritten
           \/ bin' = [bin EXCEPT ![p].ino = 1 - @]                    \* reinstalled
           \/ \E s \in {"root", "user", "refused"} : bin' = [bin EXCEPT ![p].is = s]
        /\ gap' = gap \cup {i \in Inst : session[i] # NoPin /\ session[i].path = p}
    /\ UNCHANGED <<disk, pc, mine, due, hist>>
EditPath ==
    /\ changes < MaxChanges
    /\ changes' = changes + 1
    /\ file # NoFile
    /\ \E p \in Path \cup {NoPath} : file' = [file EXCEPT !.path = p]
    /\ UNCHANGED <<marker, stale, bin, pc, mine, uses, hist>>

\* main() from its first line to the window, the user answering the dialog.
Starting(i) ==
    \/ RemoveDir(i) \/ RemoveEntry(i) \/ FinishReset(i) \/ Load(i)
    \/ ResolveGpg(i) \/ Accept(i) \/ Decline(i) \/ CheckVersion(i) \/ BuildWindow(i)

Using(i) ==
    \/ CheckSwap(i) \/ RunGpg(i) \/ SaveSettings(i) \/ PersistPage(i)
    \/ RequestReset(i) \/ Close(i)

Next ==
    \/ \E i \in Inst : Launch(i) \/ Starting(i) \/ Using(i) \/ Die(i)
    \/ ReplaceBinary
    \/ EditPath

Spec == Init /\ [][Next]_vars

\* A start goes on, and the user answers the dialog.
FairSpec == Spec /\ \A i \in Inst : WF_vars(Starting(i))

-----------------------------------------------------------------------------
\* gpg_detector: a pin of a binary outside the whitelist exists only for contents
\* a user agreed to: the one in config.toml, every copy an instance holds, and the
\* one GPGService compares with for the session, whatever happened to the file
\* between the dialog, the pin and the session.  (A pin of a whitelisted
\* path, which is never compared, may be one of contents nobody was shown: it is
\* taken from a second look at the file, after the dialog.)
OnlyAcceptedIsTrusted ==
    LET AgreedTo(pin) == pin # NoPin /\ pin.path # NoPath => pin \in hist.accepted
    IN  /\ TypeOK
        /\ file # NoFile => AgreedTo(file.pin)
        /\ \A i \in Inst : AgreedTo(cur[i].pin) /\ AgreedTo(session[i])

\* A step of instance i that starts a gpg process.
Executes(i) ==
    \/ pc[i] = "check" /\ pc'[i] = "build"
    \/ i \in due \ due' /\ pc'[i] = "run"

\* gpg_trust_dialog.py and GPGService: what is executed outside the whitelist has
\* contents a user agreed to, the version query of the start included, unless the
\* file changed after the last look at it and before the process was started: no
\* look at a path is a look at what Popen opens.
OnlyAcceptedRuns ==
    [][\A i \in Inst : Executes(i) /\ session[i].path # NoPath =>
        Identity(session[i].path) \in hist.accepted \/ i \in gap]_vars

\* gpg_trust_dialog.py:7-8, "Acceptance persists the SHA-256 in config so subsequent
\* launches re-verify without prompting (unless it changes)": the user is not shown
\* again what was accepted before.  False: main() hands the settings page the
\* configuration it had before the acceptance, and the page writes that one back.
AskedOnce ==
    [][\A i \in Inst : pc[i] = "detect" /\ pc'[i] = "dialog" =>
        Identity(cur[i].path) \notin hist.accepted]_vars

\* factory_reset.py: the marker outlives the data, so a reset that is cut off
\* anywhere is taken up again by the next start until none of the old data is
\* left; only another instance can bring some back.  The old configuration is gone
\* with the marker, too, unless the removal of the directory that holds both is
\* under way, was cut off between the two, or another instance stored its copy.
MarkerOutlivesData ==
    /\ stale # {} => marker \/ hist.survivor
    /\ file # NoFile /\ file.age = "old" =>
        \/ marker \/ hist.cut \/ hist.survivor
        \/ \E i \in Inst : "file" \in rm[i]

\* A start ends in the window or at the desktop: _resolve_gpg's `while True'
\* does not ask for ever.
StartSettles ==
    \A i \in Inst : pc[i] \in {"reset", "load"} ~> pc[i] \in {"run", "off"}

=============================================================================
