------------------------------ MODULE UserInstall ------------------------------
(***************************************************************************)
(* The user-scope installer scripts/install-sejong.sh and the plugin's     *)
(* hook runner king-sejong-hook.py, which share one directory without a    *)
(* lock between them: installers replace the files while hooks verify and  *)
(* load them.                                                              *)
(*                                                                         *)
(* An installation is two processes: the outer one takes flock on          *)
(* user-install.lock and starts the inner one, which inherits the lock's   *)
(* descriptor and does the work.  The transaction records two digests of    *)
(* the files; together they are the function from the files to the         *)
(* generation each came from, of which the runner compares the part that   *)
(* runtime_authority_digest covers.  A file that is missing or half        *)
(* written is Absent.                                                      *)
(***************************************************************************)
EXTENDS Naturals

CONSTANTS
  Installers,   \* places from which the installer is started and rerun
  Epoch,        \* RUNTIME_AUTHORITY_EPOCH of the script each one starts
  Hooks,        \* hook events handled at the same time
  Gens,         \* generations of the source checkout
  Modules,      \* the files the canonical hook imports
  Undigested,   \* those of them that runtime_authority_files does not list
  Canonical,    \* king_sejong_hooks.py
  Runner,       \* king-sejong-hook.py and hooks.json in the plugin cache
  Guard,        \* the maintenance hook published in place of Canonical
  Edited,       \* content that is of no generation
  Absent,       \* no file, no transaction
  MaxMishaps    \* bound on killed processes and local edits together

Docs == Modules \cup {Canonical}
Files == Docs \cup {Runner}
Digested == Files \ Undigested
Content == Gens \cup {Guard, Edited, Absent}
Digest == [Files -> Gens]
Record == [status : {"in_progress", "complete"}, epoch : 1..2, digest : Digest]

ASSUME ConstantsAssumption ==
  /\ Epoch \in [Installers -> 1..2]
  /\ MaxMishaps \in Nat
  /\ Undigested \subseteq Modules
  /\ Canonical # Runner /\ Canonical \notin Modules /\ Runner \notin Modules
  /\ Guard \notin Gens /\ Edited \notin Gens /\ Absent \notin Gens
  /\ Guard # Edited /\ Guard # Absent /\ Edited # Absent
  /\ Absent \notin Digest /\ Absent \notin Record

VARIABLES
  pc,         \* where the inner process of each installation is
  alive,      \* which of its two processes, "outer" and "inner", exist
  force,      \* was --force given?
  snap,       \* the installation's private copy of the source
  installed,  \* the content of every managed file
  present,    \* do the managed directories exist?
  txn,        \* install-transaction.json
  hook,       \* every hook: where it is, the digest it read, the files it has
              \* compared with that and the files it runs, and as history
              \* whether a guard commit or an edit came after its start
  drifted,    \* history: an edit since the latest guard commit
  mishaps     \* kills and edits so far

installVars == <<pc, alive, force, snap>>
diskVars == <<installed, present, txn>>
vars == <<installVars, diskVars, hook, drifted, mishaps>>

Working == {"check", "snapshot", "guard", "open", "skills", "docs", "plugin",
            "verify", "publish", "reverify", "complete", "confirm"}
\* "idle": not started, complete, refused before any change, timed out or
\* killed.  "failed": given up after the guard commit.
Ended == {"idle", "failed"}

NoCopy == [f \in Files |-> Absent]
Idle == [at |-> "idle", expected |-> Absent, checked |-> {},
         loaded |-> [f \in Docs |-> Absent], disturbed |-> FALSE]
InHook == {"probe", "read", "digest", "exec", "import"}

Init ==
  /\ pc = [i \in Installers |-> "idle"]
  /\ alive = [i \in Installers |-> {}]
  /\ force = [i \in Installers |-> FALSE]
  /\ snap = [i \in Installers |-> NoCopy]
  /\ installed = [f \in Files |-> Absent]
  /\ present = FALSE
  /\ txn = Absent
  /\ hook = [h \in Hooks |-> Idle]
  /\ drifted = FALSE
  /\ mishaps = 0

\* The docs are copied and digested before the plugin, the canonical hook
\* before the modules it imports.
Before(f) ==
  CASE f = Canonical -> {}
    [] f \in Modules -> {Canonical}
    [] f = Runner    -> Docs

-----------------------------------------------------------------------------
(* The lock and the two processes                                          *)

\* flock belongs to the open file: it lasts as long as either process of the
\* installation has the descriptor.
HoldsLock(i) == pc[i] # "waiting" /\ alive[i] # {}

\* The case at the end of the script: a user starts the installer, for the
\* first time or again.
Launch(i, forced) ==
  /\ alive[i] = {}
  /\ pc' = [pc EXCEPT ![i] = "waiting"]
  /\ alive' = [alive EXCEPT ![i] = {"outer"}]
  /\ force' = [force EXCEPT ![i] = forced]
  /\ UNCHANGED <<snap, diskVars, hook, drifted, mishaps>>

Acquire(i) ==
  /\ pc[i] = "waiting" /\ "outer" \in alive[i]
  /\ \A j \in Installers : ~HoldsLock(j)
  /\ pc' = [pc EXCEPT ![i] = "check"]
  /\ alive' = [alive EXCEPT ![i] = {"outer", "inner"}]
  /\ UNCHANGED <<force, snap, diskVars, hook, drifted, mishaps>>

TimeOut(i) ==
  /\ pc[i] = "waiting" /\ "outer" \in alive[i]
  /\ \E j \in Installers : HoldsLock(j)
  /\ pc' = [pc EXCEPT ![i] = "idle"]
  /\ alive' = [alive EXCEPT ![i] = {}]
  /\ force' = [force EXCEPT ![i] = FALSE]
  /\ UNCHANGED <<snap, diskVars, hook, drifted, mishaps>>

\* What only the inner process knew is lost with it: the EXIT trap deletes
\* its copies, and those a killed process leaves behind nobody reads.
Forget(i) ==
  /\ snap' = [snap EXCEPT ![i] = NoCopy]
  /\ force' = [force EXCEPT ![i] = FALSE]

\* SIGKILL, or for the inner process a command that fails: the script runs
\* under set -e.  Its tools inherit the descriptor too, so a tool that outlives
\* it is the inner process dying after that tool's step.
Kill(i) ==
  /\ mishaps < MaxMishaps
  /\ mishaps' = mishaps + 1
  /\ \E p \in alive[i] :
       /\ alive' = [alive EXCEPT ![i] = @ \ {p}]
       /\ IF p = "inner" \/ pc[i] = "waiting"
          THEN pc' = [pc EXCEPT ![i] = "idle"] /\ Forget(i)
          ELSE UNCHANGED <<pc, snap, force>>
  /\ UNCHANGED <<diskVars, hook, drifted>>

\* The outer process waits for the inner one and exits with its status.
Reap(i) ==
  /\ pc[i] \in Ended /\ alive[i] = {"outer"}
  /\ alive' = [alive EXCEPT ![i] = {}]
  /\ UNCHANGED <<pc, force, snap, diskVars, hook, drifted, mishaps>>

\* The inner process of i does the work of location a and goes on to b, or
\* exits if b is an end.
Do(i, a, b) ==
  /\ pc[i] = a /\ "inner" \in alive[i]
  /\ pc' = [pc EXCEPT ![i] = b]
  /\ IF b \in Ended
     THEN alive' = [alive EXCEPT ![i] = @ \ {"inner"}] /\ Forget(i)
     ELSE UNCHANGED <<alive, snap, force>>
  /\ UNCHANGED mishaps

-----------------------------------------------------------------------------
(* The installation                                                        *)

\* reject_unsupported_authority_downgrade
Downgrade(i) == txn # Absent /\ txn.epoch >= 2 /\ Epoch[i] < txn.epoch

\* A preflight that forgets the downgrade check.
CheckDowngrading(i) ==
  /\ Do(i, "check", IF present /\ ~force[i] THEN "idle" ELSE "snapshot")
  /\ UNCHANGED <<diskVars, hook, drifted>>

\* A preflight that takes an unfinished transaction for a running installer.
CheckUnfinished(i) ==
  /\ Do(i, "check", IF \/ present /\ ~force[i]
                       \/ Downgrade(i)
                       \/ txn # Absent /\ txn.status = "in_progress"
                    THEN "idle" ELSE "snapshot")
  /\ UNCHANGED <<diskVars, hook, drifted>>

\* The preflight: nothing is modified before it has passed.
Check(i) ==
  /\ Do(i, "check", IF (present /\ ~force[i]) \/ Downgrade(i)
                    THEN "idle" ELSE "snapshot")
  /\ UNCHANGED <<diskVars, hook, drifted>>

\* create_user_install_source_snapshot copies one file after the other, and
\* the three digests are computed from the copies.  The checkout may be edited,
\* pulled, or updated by another installation's --auto-update, which runs
\* before that installation takes the lock: each copy is of any generation.
Snapshot(i) ==
  /\ pc[i] = "snapshot" /\ "inner" \in alive[i]
  /\ \E f \in Files, g \in Gens :
       LET copied == {e \in Files : snap[i][e] # Absent} IN
       /\ f \notin copied /\ Before(f) \subseteq copied
       /\ snap' = [snap EXCEPT ![i][f] = g]
       /\ pc' = IF copied \cup {f} = Files
                THEN [pc EXCEPT ![i] = "guard"] ELSE pc
  /\ UNCHANGED <<alive, force, diskVars, hook, drifted, mishaps>>

Transaction(i, status) ==
  [status |-> status, epoch |-> Epoch[i], digest |-> snap[i]]

\* publish_user_install_maintenance_guard, up to the commit of the hook ...
PublishGuard(i) ==
  /\ Do(i, "guard", "open")
  /\ installed' = [installed EXCEPT ![Canonical] = Guard]
  /\ present' = TRUE
  /\ hook' = [h \in Hooks |-> [hook[h] EXCEPT !.disturbed = TRUE]]
  /\ drifted' = FALSE
  /\ UNCHANGED <<txn>>

\* A transaction that is written only when it is complete.
OpenTransactionSilent(i) ==
  /\ Do(i, "open", "skills")
  /\ UNCHANGED <<diskVars, hook, drifted>>

\* ... and the transaction after it.
OpenTransaction(i) ==
  /\ Do(i, "open", "skills")
  /\ txn' = Transaction(i, "in_progress")
  /\ UNCHANGED <<installed, present, hook, drifted>>

\* copy_dir of skills/sejong: an existing destination needs --force, and what
\* the source does not have, all of docs/, is deleted file by file.
CopySkills(i) ==
  /\ IF present /\ ~force[i]
     THEN Do(i, "skills", "failed") /\ UNCHANGED installed
     ELSE LET docs == {f \in Docs : installed[f] # Absent} IN
          \/ /\ docs = {}
             /\ Do(i, "skills", "docs") /\ UNCHANGED installed
          \/ \E f \in docs :
               /\ installed' = [installed EXCEPT ![f] = Absent]
               /\ Do(i, "skills", "skills")
  /\ UNCHANGED <<present, txn, hook, drifted>>

\* A bulk copy that brings the canonical hook with the other docs.
CopyDocsWhole(i) ==
  /\ \/ /\ \A f \in Docs : installed[f] = snap[i][f]
        /\ Do(i, "docs", "plugin") /\ UNCHANGED installed
     \/ \E f \in Docs :
          /\ installed[f] # snap[i][f]
          /\ installed' = [installed EXCEPT ![f] = snap[i][f]]
          /\ Do(i, "docs", "docs")
  /\ UNCHANGED <<present, txn, hook, drifted>>

\* copy_user_docs_without_canonical_hook
CopyDocs(i) ==
  /\ \/ /\ \A f \in Modules : installed[f] = snap[i][f]
        /\ Do(i, "docs", "plugin") /\ UNCHANGED installed
     \/ \E f \in Modules :
          /\ installed[f] # snap[i][f]
          /\ installed' = [installed EXCEPT ![f] = snap[i][f]]
          /\ Do(i, "docs", "docs")
  /\ UNCHANGED <<present, txn, hook, drifted>>

\* copy_dir of the plugin: without rsync the old one is removed first.
CopyPlugin(i) ==
  /\ \/ /\ installed[Runner] # Absent
        /\ installed' = [installed EXCEPT ![Runner] = Absent]
        /\ Do(i, "plugin", "plugin")
     \/ /\ installed' = [installed EXCEPT ![Runner] = snap[i][Runner]]
        /\ Do(i, "plugin", "verify")
  /\ UNCHANGED <<present, txn, hook, drifted>>

\* verify_user_install before and after the canonical hook is published.
Matches(i, files) == \A f \in files : installed[f] = snap[i][f]

Verify(i) ==
  /\ Do(i, "verify",
        IF Matches(i, Files \ {Canonical}) THEN "publish" ELSE "failed")
  /\ UNCHANGED <<diskVars, hook, drifted>>

PublishCanonical(i) ==
  /\ Do(i, "publish", "reverify")
  /\ installed' = [installed EXCEPT ![Canonical] = snap[i][Canonical]]
  /\ UNCHANGED <<present, txn, hook, drifted>>

Reverify(i) ==
  /\ Do(i, "reverify", IF Matches(i, Files) THEN "complete" ELSE "failed")
  /\ UNCHANGED <<diskVars, hook, drifted>>

Complete(i) ==
  /\ Do(i, "complete", "confirm")
  /\ txn' = Transaction(i, "complete")
  /\ UNCHANGED <<installed, present, hook, drifted>>

\* verify_install_transaction accepts a complete transaction of epoch 2 only.
Confirm(i) ==
  /\ Do(i, "confirm",
        IF /\ txn.status = "complete" /\ txn.epoch = 2
           /\ txn.digest = snap[i] /\ Matches(i, Digested)
        THEN "idle" ELSE "failed")
  /\ UNCHANGED <<diskVars, hook, drifted>>

Work(i) ==
  \/ Check(i) \/ Snapshot(i) \/ PublishGuard(i) \/ OpenTransaction(i)
  \/ CopySkills(i) \/ CopyDocs(i) \/ CopyPlugin(i) \/ Verify(i)
  \/ PublishCanonical(i) \/ Reverify(i) \/ Complete(i) \/ Confirm(i)

-----------------------------------------------------------------------------
(* The hook runner.  Its refusal, exit code 127 for a protected event and  *)
(* silence for another, is "idle": no managed code has run.                *)

others == <<installVars, diskVars, drifted, mishaps>>

Refuse(h) == hook' = [hook EXCEPT ![h] = Idle]

\* An event starts the runner, if there is one, for a hook that is not busy.
Start(h) ==
  /\ hook[h].at \notin InHook
  /\ installed[Runner] # Absent
  /\ hook' = [hook EXCEPT ![h] = [Idle EXCEPT !.at = "probe"]]
  /\ UNCHANGED others

Probe(h) ==
  /\ hook[h].at = "probe"
  /\ IF installed[Canonical] = Absent
     THEN Refuse(h)
     ELSE hook' = [hook EXCEPT ![h].at = "read"]
  /\ UNCHANGED others

ReadyTransaction ==
  txn # Absent /\ txn.status = "complete" /\ txn.epoch = 2

ReadTransaction(h) ==
  /\ hook[h].at = "read"
  /\ IF ReadyTransaction
     THEN hook' = [hook EXCEPT ![h] = [@ EXCEPT !.at = "digest", !.expected = txn.digest]]
     ELSE Refuse(h)
  /\ UNCHANGED others

\* The digest is read one file after the other; one that is missing or
\* differs makes the digests differ.
DigestFile(h) ==
  /\ hook[h].at = "digest"
  /\ \E f \in Digested \ hook[h].checked :
       /\ Before(f) \cap Digested \subseteq hook[h].checked
       /\ IF installed[f] # hook[h].expected[f]
          THEN Refuse(h)
          ELSE IF f = Runner
          THEN hook' = [hook EXCEPT ![h] = [@ EXCEPT !.at = "exec", !.checked = {}]]
          ELSE hook' = [hook EXCEPT ![h].checked = @ \cup {f}]
  /\ UNCHANGED others

\* os.execv: Python opens the script again, by its name.
Exec(h) ==
  /\ hook[h].at = "exec"
  /\ CASE installed[Canonical] = Absent -> hook' = [hook EXCEPT ![h].at = "broken"]
       [] installed[Canonical] = Guard  -> Refuse(h)
       [] OTHER ->
            hook' = [hook EXCEPT ![h] =
              [@ EXCEPT !.at = "import",
                        !.loaded[Canonical] = installed[Canonical]]]
  /\ UNCHANGED others

\* The imports at the head of king_sejong_hooks.py, a file at a time.
Import(h) ==
  /\ hook[h].at = "import"
  /\ \E f \in Modules :
       /\ hook[h].loaded[f] = Absent
       /\ hook' = [hook EXCEPT ![h] =
            [@ EXCEPT !.loaded[f] = installed[f],
                      !.at = IF installed[f] = Absent THEN "broken"
                             ELSE IF \A g \in Modules \ {f} : hook[h].loaded[g] # Absent
                             THEN "ran" ELSE "import"]]
  /\ UNCHANGED others

HookStep(h) ==
  Probe(h) \/ ReadTransaction(h) \/ DigestFile(h) \/ Exec(h) \/ Import(h)

-----------------------------------------------------------------------------
(* What happens around them                                                *)

\* A managed file is edited where it is installed.
EditInstalled ==
  /\ mishaps < MaxMishaps
  /\ mishaps' = mishaps + 1
  /\ \E f \in Files :
       /\ installed[f] \notin {Absent, Edited}
       /\ installed' = [installed EXCEPT ![f] = Edited]
  /\ drifted' = TRUE
  /\ hook' = [h \in Hooks |-> [hook[h] EXCEPT !.disturbed = TRUE]]
  /\ UNCHANGED <<installVars, present, txn>>

Next ==
  \/ \E i \in Installers :
       \/ \E forced \in BOOLEAN : Launch(i, forced)
       \/ Acquire(i) \/ TimeOut(i) \/ Kill(i) \/ Reap(i) \/ Work(i)
  \/ \E h \in Hooks : Start(h) \/ HookStep(h)
  \/ EditInstalled

Spec == Init /\ [][Next]_vars

\* An installation that nobody kills goes on, and whoever ran the installer
\* in vain runs it again with --force.
FairSpec ==
  /\ Spec
  /\ \A i \in Installers :
       /\ WF_vars(Acquire(i)) /\ WF_vars(Reap(i)) /\ WF_vars(Work(i))
       /\ SF_vars(Launch(i, TRUE))

-----------------------------------------------------------------------------
(* Properties                                                              *)

TypeOK ==
  /\ pc \in [Installers -> {"idle", "waiting"} \cup Working \cup Ended]
  /\ alive \in [Installers -> SUBSET {"outer", "inner"}]
  /\ force \in [Installers -> BOOLEAN]
  /\ snap \in [Installers -> [Files -> Gens \cup {Absent}]]
  /\ installed \in [Files -> Content]
  /\ present \in BOOLEAN
  /\ txn \in {Absent} \cup Record
  /\ hook \in [Hooks -> [at : {"idle", "broken", "ran"} \cup InHook,
                         expected : Digest \cup {Absent},
                         checked : SUBSET Docs,
                         loaded : [Docs -> Content],
                         disturbed : BOOLEAN]]
  /\ drifted \in BOOLEAN
  /\ mishaps \in 0..MaxMishaps

\* "A stable per-CODEX_HOME installer lock serializes concurrent publishers":
\* two inner processes never work at once, whichever outer processes die.
MutatorsExclusive ==
  \A i, j \in Installers :
    /\ "inner" \in alive[i] /\ "inner" \in alive[j]
    => i = j

\* Every file and step is one the installer knows, and two inner processes never
\* work at once (scripts/install-sejong.sh:346).
InstallerInv == TypeOK /\ MutatorsExclusive

\* The complete marker speaks for the files: unless somebody edits a managed
\* file, whenever the transaction is complete and no guard stands in front,
\* every file is of the generation the transaction names, although
\* installations may die anywhere, fail, be refused and be repeated.
CompleteIsInstalled ==
  txn # Absent /\ txn.status = "complete" /\ ~drifted
    => installed[Canonical] = Guard \/ installed = txn.digest

\* The adapter "permits automatic injection only when that marker is complete
\* and the installed digest matches": a hook that no guard commit and no edit
\* overtook either is turned away before any managed code runs, or runs the
\* files of the installation that the transaction names and nothing else, save
\* for earlier edits of the files the digest leaves out.
HookRunsOneInstallation ==
  \A h \in Hooks : ~hook[h].disturbed =>
    /\ hook[h].at # "broken"
    /\ hook[h].at = "ran" =>
         \A f \in Docs :
           \/ hook[h].loaded[f] = txn.digest[f]
           \/ f \in Undigested /\ hook[h].loaded[f] = Edited

\* Once an installation of epoch 2 has begun, no later installer takes the
\* directory back to an older epoch.
NoDowngrade ==
  [][txn # Absent /\ txn.epoch = 2 => txn'.epoch = 2]_vars

\* "Rerunning the same installer is the recovery path": after any death or
\* failure, reruns with --force bring a complete installation that hooks run.
Recovers ==
  []<>(ReadyTransaction /\ installed = txn.digest)

=============================================================================
