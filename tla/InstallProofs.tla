------------------------------ MODULE InstallProofs ------------------------------
(***************************************************************************)
(* Proofs about the user-scope installation, the identity that speaks for  *)
(* it and the health check, for any installers, hooks, files, generations, *)
(* commits and Contexts.                                                   *)
(***************************************************************************)
EXTENDS MCInstall, FiniteSetTheorems, TLAPS

--------------------------------------------------------------------------------
(* The installation: the two processes and the lock                         *)

\* The inner process exists while it works; who waits has an outer one and nothing else.
ProcOK(i) ==
  /\ pc[i] \in Working <=> "inner" \in alive[i]
  /\ pc[i] = "waiting" => alive[i] = {"outer"}

Procs == \A i \in Installers : ProcOK(i)

\* flock: one installation at a time has the lock.
OneHolder == \A i, j \in Installers : HoldsLock(i) /\ HoldsLock(j) => i = j

\* A copy is complete when the guard is published, and its installer knows that it brings
\* no older epoch.
Copied(i) == pc[i] \in Working \ {"check", "snapshot"} => snap[i] \in Digest
Upgrading(i) == pc[i] \in Working \ {"check"} => ~Downgrade(i)

\* Between the guard commit and the canonical hook there is no canonical hook.
Staging == {"open", "skills", "docs", "plugin", "verify", "publish"}
Opened == {"skills", "docs", "plugin", "verify", "publish", "reverify", "complete"}
Away(i) == pc[i] \in Staging => installed[Canonical] \notin Gens
Begun(i) ==
  /\ pc[i] \in Opened => txn = Transaction(i, "in_progress")
  /\ pc[i] = "publish" => \A f \in Files \ {Canonical} : installed[f] \in {snap[i][f], Edited}
  /\ pc[i] = "complete" /\ ~drifted => installed = snap[i]

Installing == \A i \in Installers : Copied(i) /\ Upgrading(i) /\ Away(i) /\ Begun(i)

\* Where a canonical hook is installed, every file is the transaction's or was edited.
OfTransaction ==
  installed[Canonical] \in Gens =>
    /\ txn # Absent
    /\ \A f \in Files : installed[f] \in {txn.digest[f], Edited}

\* A hook that nothing overtook: what it has compared is still so, and what it has loaded is
\* what is installed.
Seen(h) ==
  /\ hook[h].at \notin {"import", "ran", "broken"} => \A f \in Docs : hook[h].loaded[f] = Absent
  /\ hook[h].at \in {"digest", "exec", "import", "ran"} => hook[h].expected \in Digest
  /\ hook[h].at # "broken"
  /\ hook[h].at # "digest" => hook[h].checked = {}
  /\ hook[h].checked # {} \/ hook[h].at \in {"exec", "import", "ran"}
       => installed[Canonical] \in Gens
  /\ \A f \in hook[h].checked : f \in Digested /\ installed[f] = hook[h].expected[f]
  /\ hook[h].at \in {"exec", "import", "ran"} => \A f \in Digested : installed[f] = hook[h].expected[f]
  /\ \A f \in Docs : hook[h].loaded[f] \in {Absent, installed[f]}
  /\ hook[h].at \in {"import", "ran"} => hook[h].loaded[Canonical] # Absent
  /\ hook[h].at = "ran" => \A f \in Docs : hook[h].loaded[f] # Absent

Hooked == \A h \in Hooks : ~hook[h].disturbed => Seen(h)

InstallInv == TypeOK /\ Procs /\ OneHolder /\ Installing /\ OfTransaction /\ CompleteIsInstalled /\ Hooked

HookRecord == [at : {"idle", "broken", "ran"} \cup InHook,
               expected : Digest \cup {Absent},
               checked : SUBSET Docs,
               loaded : [Docs -> Content],
               disturbed : BOOLEAN]

LEMMA Contents ==
  /\ Gens \subseteq Content /\ Guard \in Content /\ Edited \in Content /\ Absent \in Content
  /\ Guard \notin Gens /\ Edited \notin Gens /\ Absent \notin Gens /\ Absent \notin Digest
  /\ Guard # Edited /\ Guard # Absent /\ Edited # Absent
  /\ Canonical \in Docs /\ Canonical \in Digested /\ Runner \in Digested /\ Runner \notin Docs
  /\ Docs \subseteq Files /\ Digested \subseteq Files /\ Modules \subseteq Docs
  /\ Files = Modules \cup {Canonical, Runner} /\ Docs = Modules \cup {Canonical}
BY ConstantsAssumption DEF Content, Docs, Files, Digested

LEMMA Transactions ==
  ASSUME NEW i \in Installers, snap[i] \in Digest, NEW status \in {"in_progress", "complete"}
  PROVE /\ Transaction(i, status) \in Record /\ Transaction(i, status) # Absent
        /\ Transaction(i, status).status = status /\ Transaction(i, status).epoch = Epoch[i]
        /\ Transaction(i, status).digest = snap[i]
<1>1. Epoch[i] \in 1..2
  BY ConstantsAssumption
<1>2. Transaction(i, status) \in Record
  BY <1>1 DEF Transaction, Record
<1> QED BY <1>2, ConstantsAssumption DEF Transaction

\* Who works is the only one that does.
LEMMA Alone ==
  ASSUME InstallInv, NEW i \in Installers, NEW j \in Installers, pc[i] \in Working, HoldsLock(j)
  PROVE i = j
<1>1. "inner" \in alive[i] /\ pc[i] # "waiting"
  BY DEF InstallInv, Procs, ProcOK, Working
<1> QED BY <1>1 DEF InstallInv, OneHolder, HoldsLock

\* What the inner process does leaves the processes as they should be.
LEMMA DoKeepsProcesses ==
  ASSUME InstallInv, NEW i \in Installers, NEW a \in Working, NEW b \in Working \cup Ended, Do(i, a, b)
  PROVE /\ Procs' /\ OneHolder'
        /\ pc' \in [Installers -> {"idle", "waiting"} \cup Working \cup Ended]
        /\ alive' \in [Installers -> SUBSET {"outer", "inner"}]
        /\ force' \in [Installers -> BOOLEAN] /\ snap' \in [Installers -> [Files -> Gens \cup {Absent}]]
        /\ \A j \in Installers \ {i} : pc'[j] = pc[j] /\ pc[j] \notin Working
        /\ pc'[i] = b /\ pc[i] = a
        /\ b \in Working => snap' = snap
<1> USE DEF InstallInv, TypeOK
<1>0. NoCopy \in [Files -> Gens \cup {Absent}]
  BY DEF NoCopy
<1>1. /\ pc[i] = a /\ "inner" \in alive[i] /\ pc' = [pc EXCEPT ![i] = b]
      /\ b \in Ended => /\ alive' = [alive EXCEPT ![i] = @ \ {"inner"}]
                        /\ snap' = [snap EXCEPT ![i] = NoCopy] /\ force' = [force EXCEPT ![i] = FALSE]
      /\ b \notin Ended => alive' = alive /\ snap' = snap /\ force' = force
  BY DEF Do, Forget
<1>2. b \in Working => b \notin Ended
  BY DEF Working, Ended
<1>3. \A j \in Installers \ {i} : pc'[j] = pc[j] /\ alive'[j] = alive[j]
  BY <1>1, <1>2
<1>4. pc'[i] = b /\ (b \in Ended => alive'[i] = alive[i] \ {"inner"}) /\ (b \notin Ended => alive'[i] = alive[i])
  BY <1>1
<1>5. /\ pc' \in [Installers -> {"idle", "waiting"} \cup Working \cup Ended]
      /\ alive' \in [Installers -> SUBSET {"outer", "inner"}]
      /\ force' \in [Installers -> BOOLEAN] /\ snap' \in [Installers -> [Files -> Gens \cup {Absent}]]
  <2>1. pc' \in [Installers -> {"idle", "waiting"} \cup Working \cup Ended]
    BY <1>1
  <2>2. CASE b \in Ended
    <3>1. alive' \in [Installers -> SUBSET {"outer", "inner"}]
      BY <1>1, <2>2
    <3>2. force' \in [Installers -> BOOLEAN]
      BY <1>1, <2>2
    <3>3. snap' \in [Installers -> [Files -> Gens \cup {Absent}]]
      <4> HIDE DEF NoCopy
      <4> QED BY <1>0, <1>1, <2>2
    <3> QED BY <2>1, <3>1, <3>2, <3>3
  <2>3. CASE b \notin Ended
    BY <1>1, <2>1, <2>3
  <2> QED BY <2>2, <2>3
<1>6. \A j \in Installers : HoldsLock(j) => j = i
  BY <1>1, Alone
<1>7. \A j \in Installers \ {i} : pc[j] \notin Working
  BY <1>6 DEF Procs, ProcOK, HoldsLock, Working
<1>8. Procs'
  BY <1>1, <1>2, <1>3, <1>4 DEF Procs, ProcOK, Working, Ended
<1>9. OneHolder'
  BY <1>3, <1>6 DEF OneHolder, HoldsLock
<1> QED BY <1>1, <1>2, <1>4, <1>5, <1>7, <1>8, <1>9, <1>3

LEMMA ProcessesKept ==
  ASSUME InstallInv, [Next]_vars
  PROVE /\ Procs' /\ OneHolder'
        /\ pc' \in [Installers -> {"idle", "waiting"} \cup Working \cup Ended]
        /\ alive' \in [Installers -> SUBSET {"outer", "inner"}]
        /\ force' \in [Installers -> BOOLEAN]
<1> USE DEF InstallInv, TypeOK
<1> DEFINE Goal == /\ Procs' /\ OneHolder'
                   /\ pc' \in [Installers -> {"idle", "waiting"} \cup Working \cup Ended]
                   /\ alive' \in [Installers -> SUBSET {"outer", "inner"}]
                   /\ force' \in [Installers -> BOOLEAN]
<1>0. UNCHANGED <<pc, alive, force>> => Goal
  <2> SUFFICES ASSUME UNCHANGED <<pc, alive, force>> PROVE Goal
    OBVIOUS
  <2>1. Procs'
    BY DEF Procs, ProcOK
  <2>2. OneHolder'
    BY DEF OneHolder, HoldsLock
  <2> QED BY <2>1, <2>2
<1>1. ASSUME NEW i \in Installers, NEW forced \in BOOLEAN, Launch(i, forced) PROVE Goal
  <2>1. /\ alive[i] = {} /\ pc' = [pc EXCEPT ![i] = "waiting"]
        /\ alive' = [alive EXCEPT ![i] = {"outer"}] /\ force' = [force EXCEPT ![i] = forced]
    BY <1>1 DEF Launch
  <2>2. Procs'
    BY <2>1 DEF Procs, ProcOK, Working
  <2>3. OneHolder'
    BY <2>1 DEF OneHolder, HoldsLock
  <2> QED BY <2>1, <2>2, <2>3
<1>2. ASSUME NEW i \in Installers, Acquire(i) PROVE Goal
  <2>1. /\ pc' = [pc EXCEPT ![i] = "check"] /\ alive' = [alive EXCEPT ![i] = {"outer", "inner"}]
        /\ force' = force /\ \A j \in Installers : ~HoldsLock(j)
    BY <1>2 DEF Acquire
  <2>2. Procs'
    BY <2>1 DEF Procs, ProcOK, Working
  <2>3. OneHolder'
    BY <2>1 DEF OneHolder, HoldsLock
  <2>4. "check" \in Working
    BY DEF Working
  <2> QED BY <2>1, <2>2, <2>3, <2>4
<1>3. ASSUME NEW i \in Installers, TimeOut(i) PROVE Goal
  <2>1. /\ pc' = [pc EXCEPT ![i] = "idle"] /\ alive' = [alive EXCEPT ![i] = {}]
        /\ force' = [force EXCEPT ![i] = FALSE]
    BY <1>3 DEF TimeOut
  <2>2. Procs'
    BY <2>1 DEF Procs, ProcOK, Working
  <2>3. OneHolder'
    BY <2>1 DEF OneHolder, HoldsLock
  <2> QED BY <2>1, <2>2, <2>3
<1>4. ASSUME NEW i \in Installers, Kill(i) PROVE Goal
  <2>1. PICK p \in alive[i] :
          /\ alive' = [alive EXCEPT ![i] = @ \ {p}]
          /\ IF p = "inner" \/ pc[i] = "waiting"
             THEN pc' = [pc EXCEPT ![i] = "idle"] /\ Forget(i)
             ELSE UNCHANGED <<pc, snap, force>>
    BY <1>4 DEF Kill
  <2>2. \/ pc' = [pc EXCEPT ![i] = "idle"] /\ force' = [force EXCEPT ![i] = FALSE] /\ (p = "inner" \/ pc[i] = "waiting")
        \/ pc' = pc /\ force' = force /\ p # "inner" /\ pc[i] # "waiting"
    BY <2>1 DEF Forget
  <2>3. Procs'
    BY <2>1, <2>2 DEF Procs, ProcOK, Working
  <2>4. OneHolder'
    BY <2>1, <2>2 DEF OneHolder, HoldsLock, Procs, ProcOK
  <2> QED BY <2>1, <2>2, <2>3, <2>4
<1>5. ASSUME NEW i \in Installers, Reap(i) PROVE Goal
  <2>1. /\ pc[i] \in Ended /\ alive' = [alive EXCEPT ![i] = {}] /\ pc' = pc /\ force' = force
    BY <1>5 DEF Reap
  <2>2. Procs'
    BY <2>1 DEF Procs, ProcOK, Working, Ended
  <2>3. OneHolder'
    BY <2>1 DEF OneHolder, HoldsLock
  <2> QED BY <2>1, <2>2, <2>3
<1>6. ASSUME NEW i \in Installers, Snapshot(i) PROVE Goal
  <2>1. /\ pc[i] = "snapshot" /\ alive' = alive /\ force' = force
        /\ pc' = [pc EXCEPT ![i] = "guard"] \/ pc' = pc
    BY <1>6 DEF Snapshot
  <2>2. Procs'
    BY <2>1 DEF Procs, ProcOK, Working
  <2>3. OneHolder'
    BY <2>1 DEF OneHolder, HoldsLock
  <2>4. "guard" \in Working
    BY DEF Working
  <2> QED BY <2>1, <2>2, <2>3, <2>4
<1>7. ASSUME NEW i \in Installers, Work(i), ~Snapshot(i) PROVE Goal
  <2>1. PICK a \in Working, b \in Working \cup Ended : Do(i, a, b)
    BY <1>7 DEF Work, Check, PublishGuard, OpenTransaction, CopySkills, CopyDocs, CopyPlugin, Verify,
       PublishCanonical, Reverify, Complete, Confirm, Working, Ended
  <2> QED BY <2>1, DoKeepsProcesses
<1>8. ASSUME NEW h \in Hooks, Start(h) \/ HookStep(h) PROVE Goal
  BY <1>8, <1>0 DEF Start, HookStep, Probe, ReadTransaction, DigestFile, Exec, Import, others, installVars
<1>9. EditInstalled => Goal
  BY <1>0 DEF EditInstalled, installVars
<1>10. UNCHANGED vars => Goal
  BY <1>0 DEF vars, installVars
<1> HIDE DEF Goal
<1>11. Goal
  BY <1>1, <1>2, <1>3, <1>4, <1>5, <1>6, <1>7, <1>8, <1>9, <1>10 DEF Next
<1> QED BY <1>11 DEF Goal

(* The installation: the files and the transaction                          *)

\* What is said of the installations, of the files and of the hooks, one by one.
InstallationOK(i) == Copied(i) /\ Upgrading(i) /\ Away(i) /\ Begun(i)
FilesOK == OfTransaction /\ CompleteIsInstalled

LEMMA Downgrades ==
  ASSUME NEW i \in Installers, txn' = txn
  PROVE Downgrade(i)' = Downgrade(i)
BY DEF Downgrade

\* An installation whose inner process does not work claims nothing.
LEMMA Others ==
  ASSUME NEW i \in Installers, pc[i] \notin Working
  PROVE InstallationOK(i)
BY DEF InstallationOK, Copied, Upgrading, Away, Begun, Working, Staging, Opened

LEMMA OthersNext ==
  ASSUME NEW i \in Installers, pc'[i] \notin Working
  PROVE InstallationOK(i)'
BY DEF InstallationOK, Copied, Upgrading, Away, Begun, Working, Staging, Opened

\* A hook that has not verified the canonical hook yet has verified nothing.
LEMMA HooksKept ==
  ASSUME InstallInv, hook' = hook, installed' = installed \/ installed[Canonical] \notin Gens
  PROVE Hooked'
<1> SUFFICES ASSUME NEW h \in Hooks, ~hook[h].disturbed PROVE Seen(h)'
  BY DEF Hooked
<1>1. Seen(h)
  BY DEF InstallInv, Hooked
<1>2. CASE installed' = installed
  BY <1>1, <1>2 DEF Seen
<1>3. CASE installed[Canonical] \notin Gens
  <2>1. /\ hook[h].checked = {} /\ hook[h].at \notin {"exec", "import", "ran", "broken"}
        /\ \A f \in Docs : hook[h].loaded[f] = Absent
    BY <1>1, <1>3 DEF Seen
  <2> QED BY <1>1, <2>1 DEF Seen
<1> QED BY <1>2, <1>3

\* A step of the inner process that leaves the disk alone.
LEMMA DiskKept ==
  ASSUME InstallInv, UNCHANGED <<installed, txn, drifted>>
  PROVE FilesOK'
BY DEF InstallInv, FilesOK, OfTransaction, CompleteIsInstalled

LEMMA CheckKeeps ==
  ASSUME InstallInv, NEW i \in Installers, Check(i)
  PROVE InstallationOK(i)' /\ FilesOK'
<1> DEFINE b == IF (present /\ ~force[i]) \/ Downgrade(i) THEN "idle" ELSE "snapshot"
<1>1. Do(i, "check", b) /\ UNCHANGED <<installed, present, txn, hook, drifted>>
  BY DEF Check, diskVars
<1>2. b \in Working \cup Ended /\ "check" \in Working /\ (b # "idle" => ~Downgrade(i) /\ b = "snapshot")
  BY DEF Working, Ended
<1> HIDE DEF b
<1>3. pc'[i] = b
  BY <1>1, <1>2, DoKeepsProcesses
<1>4. InstallationOK(i)'
  BY <1>1, <1>2, <1>3, Downgrades DEF InstallationOK, Copied, Upgrading, Away, Begun, Working, Staging, Opened
<1> QED BY <1>1, <1>4, DiskKept

LEMMA SnapshotKeeps ==
  ASSUME InstallInv, NEW i \in Installers, Snapshot(i)
  PROVE /\ InstallationOK(i)' /\ FilesOK'
        /\ snap' \in [Installers -> [Files -> Gens \cup {Absent}]]
<1> USE DEF InstallInv, TypeOK
<1> DEFINE copied == {e \in Files : snap[i][e] # Absent}
<1>1. PICK f \in Files, g \in Gens :
        /\ snap' = [snap EXCEPT ![i][f] = g]
        /\ pc' = IF copied \cup {f} = Files THEN [pc EXCEPT ![i] = "guard"] ELSE pc
  BY DEF Snapshot
<1>2. pc[i] = "snapshot" /\ UNCHANGED <<installed, txn, drifted>>
  BY DEF Snapshot, diskVars
<1>3. /\ snap' \in [Installers -> [Files -> Gens \cup {Absent}]]
      /\ snap'[i] = [snap[i] EXCEPT ![f] = g]
  BY <1>1
<1>4. pc'[i] = "guard" => copied \cup {f} = Files
  BY <1>1, <1>2
<1>5. pc'[i] \in {"snapshot", "guard"}
  BY <1>1, <1>2
<1>6. pc'[i] = "guard" => snap'[i] \in Digest
  <2> SUFFICES ASSUME pc'[i] = "guard" PROVE snap'[i] \in Digest
    OBVIOUS
  <2>1. \A e \in Files : snap'[i][e] # Absent
    BY <1>3, <1>4, Contents
  <2> QED BY <1>3, <2>1 DEF Digest
<1>7. ~Downgrade(i)
  BY <1>2 DEF Installing, Upgrading, Working
<1>8. InstallationOK(i)'
  BY <1>2, <1>5, <1>6, <1>7, Downgrades DEF InstallationOK, Copied, Upgrading, Away, Begun, Working, Staging, Opened
<1> QED BY <1>2, <1>3, <1>8, DiskKept

LEMMA PublishGuardKeeps ==
  ASSUME InstallInv, NEW i \in Installers, PublishGuard(i)
  PROVE InstallationOK(i)' /\ FilesOK' /\ Hooked' /\ installed' \in [Files -> Content] /\ hook' \in [Hooks -> HookRecord]
<1> USE DEF InstallInv, TypeOK
<1>1. /\ Do(i, "guard", "open") /\ "guard" \in Working /\ "open" \in Working
      /\ installed' = [installed EXCEPT ![Canonical] = Guard] /\ txn' = txn
      /\ hook' = [h \in Hooks |-> [hook[h] EXCEPT !.disturbed = TRUE]]
  BY DEF PublishGuard, Working
<1>2. pc'[i] = "open" /\ pc[i] = "guard" /\ snap' = snap
  BY <1>1, DoKeepsProcesses
<1>3. installed' \in [Files -> Content] /\ installed'[Canonical] = Guard
  BY <1>1, Contents
<1>4. snap[i] \in Digest /\ ~Downgrade(i)
  BY <1>2 DEF Installing, Copied, Upgrading, Working
<1>5. InstallationOK(i)'
  BY <1>1, <1>2, <1>3, <1>4, Downgrades, Contents DEF InstallationOK, Copied, Upgrading, Away, Begun, Staging, Opened
<1>6. FilesOK'
  BY <1>3, Contents DEF FilesOK, OfTransaction, CompleteIsInstalled
<1>7. \A h \in Hooks : hook'[h].disturbed = TRUE /\ hook'[h] \in HookRecord
  BY <1>1 DEF HookRecord
<1>8. Hooked'
  BY <1>7 DEF Hooked
<1> QED BY <1>1, <1>3, <1>5, <1>6, <1>7, <1>8

LEMMA OpenTransactionKeeps ==
  ASSUME InstallInv, NEW i \in Installers, OpenTransaction(i)
  PROVE InstallationOK(i)' /\ FilesOK' /\ txn' \in Record
<1> USE DEF InstallInv, TypeOK
<1>1. /\ Do(i, "open", "skills") /\ "skills" \in Working /\ "open" \in Working
      /\ txn' = Transaction(i, "in_progress") /\ installed' = installed /\ drifted' = drifted
  BY DEF OpenTransaction, Working
<1>2. pc'[i] = "skills" /\ pc[i] = "open" /\ snap' = snap
  BY <1>1, DoKeepsProcesses
<1>3. snap[i] \in Digest /\ installed[Canonical] \notin Gens
  BY <1>2 DEF Installing, Copied, Away, Working, Staging
<1>4. txn' \in Record /\ txn' # Absent /\ txn'.status = "in_progress" /\ txn'.epoch = Epoch[i] /\ txn'.digest = snap[i]
  BY <1>1, <1>3, Transactions
<1>5. Epoch[i] \in 1..2
  BY ConstantsAssumption
<1>6. ~Downgrade(i)'
  BY <1>4, <1>5 DEF Downgrade
<1>7. Transaction(i, "in_progress")' = Transaction(i, "in_progress")
  BY <1>2 DEF Transaction
<1>8. InstallationOK(i)'
  BY <1>1, <1>2, <1>3, <1>6, <1>7 DEF InstallationOK, Copied, Upgrading, Away, Begun, Staging, Opened
<1>9. FilesOK'
  BY <1>1, <1>3, <1>4 DEF FilesOK, OfTransaction, CompleteIsInstalled
<1> QED BY <1>4, <1>8, <1>9

\* What all steps between the transaction and its completion have in common.
LEMMA Opening ==
  ASSUME InstallInv, NEW i \in Installers, NEW a \in Opened, NEW b \in Working \cup Ended, Do(i, a, b), txn' = txn
  PROVE /\ a \in Working /\ pc[i] = a /\ pc'[i] = b /\ txn = Transaction(i, "in_progress")
        /\ txn # Absent /\ txn.status = "in_progress" /\ txn.digest = snap[i] /\ snap[i] \in Digest
        /\ ~Downgrade(i)'
        /\ b \in Working => snap' = snap /\ Transaction(i, "in_progress")' = txn
<1> USE DEF InstallInv, TypeOK
<1>1. a \in Working \ {"check", "snapshot"}
  BY DEF Opened, Working
<1>2. pc'[i] = b /\ pc[i] = a /\ (b \in Working => snap' = snap)
  BY <1>1, DoKeepsProcesses
<1>3. snap[i] \in Digest /\ txn = Transaction(i, "in_progress") /\ ~Downgrade(i)
  BY <1>1, <1>2 DEF Installing, Copied, Upgrading, Begun
<1>4. b \in Working => Transaction(i, "in_progress")' = Transaction(i, "in_progress")
  BY <1>2 DEF Transaction
<1> QED BY <1>1, <1>2, <1>3, <1>4, Transactions, Downgrades

\* While the transaction is in progress and no canonical hook is there.
LEMMA StagingKeeps ==
  ASSUME InstallInv, NEW i \in Installers, NEW a \in Opened \cap Staging, NEW b \in (Opened \cap Staging) \cup Ended,
         Do(i, a, b), txn' = txn, drifted' = drifted, installed' \in [Files -> Content],
         installed'[Canonical] \notin Gens,
         b = "publish" => \A f \in Files \ {Canonical} : installed'[f] \in {snap[i][f], Edited}
  PROVE InstallationOK(i)' /\ FilesOK'
<1>0. b \in Working \cup Ended /\ a \in Opened /\ (b \in Opened \cap Staging => b \in Working)
  BY DEF Working, Opened, Staging
<1>1. /\ pc'[i] = b /\ txn # Absent /\ txn.status = "in_progress" /\ snap[i] \in Digest /\ ~Downgrade(i)'
      /\ txn = Transaction(i, "in_progress")
      /\ b \in Working => snap' = snap /\ Transaction(i, "in_progress")' = txn
  BY <1>0, Opening
<1>2. FilesOK'
  BY <1>1 DEF FilesOK, OfTransaction, CompleteIsInstalled
<1>3. CASE b \in Ended
  BY <1>1, <1>3, OthersNext, <1>2 DEF Ended, Working
<1>4. CASE b \in Opened \cap Staging
  BY <1>0, <1>1, <1>2, <1>4 DEF InstallationOK, Copied, Upgrading, Away, Begun, Staging, Opened
<1> QED BY <1>3, <1>4

LEMMA CopySkillsKeeps ==
  ASSUME InstallInv, NEW i \in Installers, CopySkills(i)
  PROVE /\ InstallationOK(i)' /\ FilesOK' /\ installed' \in [Files -> Content]
        /\ installed[Canonical] \notin Gens
<1> USE DEF InstallInv, TypeOK
<1> DEFINE docs == {f \in Docs : installed[f] # Absent}
<1>1. /\ txn' = txn /\ drifted' = drifted
      /\ \/ Do(i, "skills", "failed") /\ installed' = installed
         \/ Do(i, "skills", "docs") /\ installed' = installed
         \/ /\ \E f \in docs : installed' = [installed EXCEPT ![f] = Absent]
            /\ Do(i, "skills", "skills")
  BY DEF CopySkills
<1>2. pc[i] = "skills"
  BY <1>1 DEF Do
<1>3. installed[Canonical] \notin Gens
  BY <1>2 DEF Installing, Away, Staging
<1>4. installed' \in [Files -> Content] /\ installed'[Canonical] \notin Gens
  BY <1>1, <1>3, Contents
<1>5. \A b \in {"skills", "docs", "failed"} : b \in (Opened \cap Staging) \cup Ended /\ b # "publish"
  BY DEF Opened, Staging, Ended
<1>6. PICK b \in {"skills", "docs", "failed"} : Do(i, "skills", b)
  BY <1>1
<1>7. "skills" \in Opened \cap Staging
  BY DEF Opened, Staging
<1> QED BY <1>1, <1>3, <1>4, <1>5, <1>6, <1>7, StagingKeeps

LEMMA CopyDocsKeeps ==
  ASSUME InstallInv, NEW i \in Installers, CopyDocs(i)
  PROVE /\ InstallationOK(i)' /\ FilesOK' /\ installed' \in [Files -> Content]
        /\ installed[Canonical] \notin Gens
<1> USE DEF InstallInv, TypeOK
<1>1. /\ txn' = txn /\ drifted' = drifted
      /\ \/ Do(i, "docs", "plugin") /\ installed' = installed
         \/ /\ \E f \in Modules : installed' = [installed EXCEPT ![f] = snap[i][f]]
            /\ Do(i, "docs", "docs")
  BY DEF CopyDocs
<1>2. pc[i] = "docs"
  BY <1>1 DEF Do
<1>3. installed[Canonical] \notin Gens /\ snap[i] \in Digest
  BY <1>2 DEF Installing, Away, Staging, Copied, Working
<1>4. installed' \in [Files -> Content] /\ installed'[Canonical] \notin Gens
  <2>1. CASE installed' = installed
    BY <1>3, <2>1
  <2>2. CASE \E f \in Modules : installed' = [installed EXCEPT ![f] = snap[i][f]]
    <3>1. PICK f \in Modules : installed' = [installed EXCEPT ![f] = snap[i][f]]
      BY <2>2
    <3>2. f \in Files /\ f # Canonical /\ snap[i][f] \in Content
      BY <1>3, Contents, ConstantsAssumption DEF Digest
    <3> QED BY <1>3, <3>1, <3>2, Contents
  <2> QED BY <1>1, <2>1, <2>2
<1>5. \A b \in {"plugin", "docs"} : b \in (Opened \cap Staging) \cup Ended /\ b # "publish"
  BY DEF Opened, Staging, Ended
<1>6. PICK b \in {"plugin", "docs"} : Do(i, "docs", b)
  BY <1>1
<1>7. "docs" \in Opened \cap Staging
  BY DEF Opened, Staging
<1> QED BY <1>1, <1>3, <1>4, <1>5, <1>6, <1>7, StagingKeeps

LEMMA CopyPluginKeeps ==
  ASSUME InstallInv, NEW i \in Installers, CopyPlugin(i)
  PROVE /\ InstallationOK(i)' /\ FilesOK' /\ installed' \in [Files -> Content]
        /\ installed[Canonical] \notin Gens
<1> USE DEF InstallInv, TypeOK
<1>1. /\ txn' = txn /\ drifted' = drifted
      /\ \/ installed' = [installed EXCEPT ![Runner] = Absent] /\ Do(i, "plugin", "plugin")
         \/ installed' = [installed EXCEPT ![Runner] = snap[i][Runner]] /\ Do(i, "plugin", "verify")
  BY DEF CopyPlugin
<1>2. pc[i] = "plugin"
  BY <1>1 DEF Do
<1>3. installed[Canonical] \notin Gens /\ snap[i] \in Digest
  BY <1>2 DEF Installing, Away, Staging, Copied, Working
<1>4. installed' \in [Files -> Content] /\ installed'[Canonical] \notin Gens
  <2>1. snap[i][Runner] \in Content /\ Runner \in Files /\ Runner # Canonical
    BY <1>3, Contents DEF Digest
  <2> QED BY <1>1, <1>3, <2>1, Contents
<1>5. \A b \in {"plugin", "verify"} : b \in (Opened \cap Staging) \cup Ended /\ b # "publish"
  BY DEF Opened, Staging, Ended
<1>6. PICK b \in {"plugin", "verify"} : Do(i, "plugin", b)
  BY <1>1
<1>7. "plugin" \in Opened \cap Staging
  BY DEF Opened, Staging
<1> QED BY <1>1, <1>3, <1>4, <1>5, <1>6, <1>7, StagingKeeps

LEMMA VerifyKeeps ==
  ASSUME InstallInv, NEW i \in Installers, Verify(i)
  PROVE InstallationOK(i)' /\ FilesOK'
<1> USE DEF InstallInv, TypeOK
<1> DEFINE b == IF Matches(i, Files \ {Canonical}) THEN "publish" ELSE "failed"
<1>1. Do(i, "verify", b) /\ UNCHANGED <<installed, txn, drifted>>
  BY DEF Verify, diskVars
<1>2. b = "publish" => \A f \in Files \ {Canonical} : installed'[f] \in {snap[i][f], Edited}
  BY <1>1 DEF Matches
<1>3. b \in (Opened \cap Staging) \cup Ended /\ "verify" \in Opened \cap Staging
  BY DEF Opened, Staging, Ended
<1> HIDE DEF b
<1>4. pc[i] = "verify"
  BY <1>1 DEF Do
<1>5. installed'[Canonical] \notin Gens
  BY <1>1, <1>4 DEF Installing, Away, Staging
<1> QED BY <1>1, <1>2, <1>3, <1>5, StagingKeeps

LEMMA PublishCanonicalKeeps ==
  ASSUME InstallInv, NEW i \in Installers, PublishCanonical(i)
  PROVE /\ InstallationOK(i)' /\ FilesOK' /\ installed' \in [Files -> Content]
        /\ installed[Canonical] \notin Gens
<1> USE DEF InstallInv, TypeOK
<1>1. /\ Do(i, "publish", "reverify") /\ txn' = txn /\ drifted' = drifted
      /\ installed' = [installed EXCEPT ![Canonical] = snap[i][Canonical]]
  BY DEF PublishCanonical
<1>2. "publish" \in Opened /\ "reverify" \in Working
  BY DEF Opened, Working
<1>3. /\ pc[i] = "publish" /\ pc'[i] = "reverify" /\ snap[i] \in Digest /\ ~Downgrade(i)'
      /\ txn # Absent /\ txn.status = "in_progress" /\ txn.digest = snap[i]
      /\ snap' = snap /\ Transaction(i, "in_progress")' = txn
  BY <1>1, <1>2, Opening
<1>4. /\ installed[Canonical] \notin Gens
      /\ \A f \in Files \ {Canonical} : installed[f] \in {snap[i][f], Edited}
  BY <1>3 DEF Installing, Away, Begun, Staging
<1>5. installed' \in [Files -> Content]
  BY <1>1, <1>3, Contents DEF Digest
<1>6. InstallationOK(i)'
  BY <1>1, <1>3 DEF InstallationOK, Copied, Upgrading, Away, Begun, Staging, Opened
<1>7. \A f \in Files : installed'[f] \in {snap[i][f], Edited}
  BY <1>1, <1>4
<1>8. FilesOK'
  BY <1>1, <1>3, <1>7 DEF FilesOK, OfTransaction, CompleteIsInstalled
<1> QED BY <1>4, <1>5, <1>6, <1>8

LEMMA ReverifyKeeps ==
  ASSUME InstallInv, NEW i \in Installers, Reverify(i)
  PROVE InstallationOK(i)' /\ FilesOK'
<1> USE DEF InstallInv, TypeOK
<1> DEFINE b == IF Matches(i, Files) THEN "complete" ELSE "failed"
<1>1. Do(i, "reverify", b) /\ UNCHANGED <<installed, txn, drifted>>
  BY DEF Reverify, diskVars
<1>2. b \in Working \cup Ended /\ b \in {"complete", "failed"} /\ "reverify" \in Opened
  BY DEF Opened, Working, Ended
<1>3. b = "complete" => \A f \in Files : installed[f] = snap[i][f]
  BY DEF Matches
<1> HIDE DEF b
<1>4. /\ pc[i] = "reverify" /\ pc'[i] = b /\ snap[i] \in Digest /\ ~Downgrade(i)'
      /\ b \in Working => snap' = snap /\ Transaction(i, "in_progress")' = txn
  BY <1>1, <1>2, Opening
<1>5. CASE b = "complete"
  <2>1. installed = snap[i]
    BY <1>3, <1>4, <1>5 DEF Digest
  <2> QED BY <1>1, <1>4, <1>5, <2>1, DiskKept DEF InstallationOK, Copied, Upgrading, Away, Begun, Staging, Opened, Working
<1>6. CASE b = "failed"
  BY <1>1, <1>4, <1>6, DiskKept, OthersNext DEF Working
<1> QED BY <1>2, <1>5, <1>6

LEMMA CompleteKeeps ==
  ASSUME InstallInv, NEW i \in Installers, Complete(i)
  PROVE InstallationOK(i)' /\ FilesOK' /\ txn' \in Record
<1> USE DEF InstallInv, TypeOK
<1>1. /\ Do(i, "complete", "confirm") /\ "confirm" \in Working /\ "complete" \in Working
      /\ txn' = Transaction(i, "complete") /\ installed' = installed /\ drifted' = drifted
  BY DEF Complete, Working
<1>2. pc'[i] = "confirm" /\ pc[i] = "complete" /\ snap' = snap
  BY <1>1, DoKeepsProcesses
<1>3. snap[i] \in Digest /\ txn = Transaction(i, "in_progress") /\ (~drifted => installed = snap[i])
  BY <1>2 DEF Installing, Copied, Begun, Working, Opened
<1>4. txn' \in Record /\ txn' # Absent /\ txn'.epoch = Epoch[i] /\ txn'.digest = snap[i] /\ txn.digest = snap[i]
  BY <1>1, <1>3, Transactions
<1>5. Epoch[i] \in 1..2
  BY ConstantsAssumption
<1>6. ~Downgrade(i)'
  BY <1>4, <1>5 DEF Downgrade
<1>7. InstallationOK(i)'
  BY <1>2, <1>3, <1>6 DEF InstallationOK, Copied, Upgrading, Away, Begun, Staging, Opened
<1>8. FilesOK'
  BY <1>1, <1>3, <1>4 DEF FilesOK, OfTransaction, CompleteIsInstalled
<1> QED BY <1>4, <1>7, <1>8

LEMMA ConfirmKeeps ==
  ASSUME InstallInv, NEW i \in Installers, Confirm(i)
  PROVE InstallationOK(i)' /\ FilesOK'
<1>1. PICK b \in Ended : Do(i, "confirm", b)
  BY DEF Confirm, Ended
<1>2. UNCHANGED <<installed, txn, drifted>> /\ "confirm" \in Working /\ b \notin Working
  BY DEF Confirm, diskVars, Working, Ended
<1>3. pc'[i] = b
  BY <1>1, <1>2, DoKeepsProcesses
<1> QED BY <1>2, <1>3, DiskKept, OthersNext

(* The installation: the hooks                                              *)

\* What a hook does concerns no other hook.
LEMMA OneHook ==
  ASSUME InstallInv, NEW h \in Hooks, installed' = installed,
         NEW r \in HookRecord, hook' = [hook EXCEPT ![h] = r],
         ~r.disturbed => Seen(h)'
  PROVE hook' \in [Hooks -> HookRecord] /\ Hooked'
<1> USE DEF InstallInv, TypeOK
<1>1. hook \in [Hooks -> HookRecord]
  BY DEF HookRecord
<1>2. hook' \in [Hooks -> HookRecord] /\ hook'[h] = r /\ \A k \in Hooks \ {h} : hook'[k] = hook[k]
  BY <1>1
<1>3. \A k \in Hooks \ {h} : ~hook[k].disturbed => Seen(k)'
  BY <1>2 DEF Hooked, Seen
<1> QED BY <1>2, <1>3 DEF Hooked

LEMMA IdleHook ==
  /\ Idle \in HookRecord /\ [Idle EXCEPT !.at = "probe"] \in HookRecord
  /\ Idle.at = "idle" /\ Idle.checked = {} /\ \A f \in Docs : Idle.loaded[f] = Absent
BY Contents DEF Idle, HookRecord, InHook

LEMMA RefuseKeeps ==
  ASSUME InstallInv, NEW h \in Hooks, installed' = installed, Refuse(h)
  PROVE hook' \in [Hooks -> HookRecord] /\ Hooked'
<1>1. hook'[h] = Idle /\ hook' = [hook EXCEPT ![h] = Idle]
  BY DEF Refuse, InstallInv, TypeOK
<1>2. Seen(h)'
  BY <1>1, IdleHook DEF Seen
<1> QED BY <1>1, <1>2, IdleHook, OneHook

LEMMA HookTyped ==
  ASSUME InstallInv, NEW h \in Hooks
  PROVE hook[h] \in HookRecord
BY DEF InstallInv, TypeOK, HookRecord

LEMMA HookSet ==
  ASSUME InstallInv, NEW h \in Hooks, NEW r, hook' = [hook EXCEPT ![h] = r]
  PROVE hook'[h] = r
BY DEF InstallInv, TypeOK

\* Records of hooks that move on are records of hooks.
LEMMA HookMoves ==
  ASSUME NEW r \in HookRecord, NEW at \in {"idle", "broken", "ran"} \cup InHook
  PROVE /\ [r EXCEPT !.at = at] \in HookRecord
        /\ \A d \in Digest : [r EXCEPT !.at = at, !.expected = d] \in HookRecord
        /\ \A S \in SUBSET Docs : /\ [r EXCEPT !.at = at, !.checked = S] \in HookRecord
                                  /\ [r EXCEPT !.checked = S] \in HookRecord
        /\ \A f \in Docs, c \in Content : [r EXCEPT !.loaded[f] = c, !.at = at] \in HookRecord
BY DEF HookRecord

LEMMA StartKeeps ==
  ASSUME InstallInv, NEW h \in Hooks, Start(h), installed' = installed
  PROVE hook' \in [Hooks -> HookRecord] /\ Hooked'
<1> DEFINE r == [Idle EXCEPT !.at = "probe"]
<1>1. hook' = [hook EXCEPT ![h] = r]
  BY DEF Start
<1>2. hook'[h] = r
  BY <1>1, HookSet
<1>3. r.at = "probe" /\ r.checked = {} /\ \A f \in Docs : r.loaded[f] = Absent
  BY DEF Idle
<1>4. Seen(h)'
  BY <1>2, <1>3 DEF Seen
<1> QED BY <1>1, <1>4, IdleHook, OneHook

LEMMA ProbeKeeps ==
  ASSUME InstallInv, NEW h \in Hooks, Probe(h), installed' = installed
  PROVE hook' \in [Hooks -> HookRecord] /\ Hooked'
<1> DEFINE r == [hook[h] EXCEPT !.at = "read"]
<1>1. CASE Refuse(h)
  BY <1>1, RefuseKeeps
<1>2. CASE hook' = [hook EXCEPT ![h] = r]
  <2>1. hook[h] \in HookRecord /\ hook'[h] = r
    BY <1>2, HookTyped, HookSet
  <2>2. r \in HookRecord /\ r.at = "read" /\ r.checked = hook[h].checked /\ r.loaded = hook[h].loaded
          /\ r.disturbed = hook[h].disturbed /\ r.expected = hook[h].expected
    BY <2>1, HookMoves DEF HookRecord, InHook
  <2>3. hook[h].at = "probe"
    BY DEF Probe
  <2>4. ~r.disturbed => Seen(h)'
    BY <2>1, <2>2, <2>3 DEF InstallInv, Hooked, Seen
  <2> QED BY <1>2, <2>2, <2>4, OneHook
<1> QED BY <1>1, <1>2 DEF Probe

LEMMA ReadTransactionKeeps ==
  ASSUME InstallInv, NEW h \in Hooks, ReadTransaction(h), installed' = installed
  PROVE hook' \in [Hooks -> HookRecord] /\ Hooked'
<1> DEFINE r == [hook[h] EXCEPT !.at = "digest", !.expected = txn.digest]
<1>1. CASE Refuse(h)
  BY <1>1, RefuseKeeps
<1>2. CASE hook' = [hook EXCEPT ![h] = r] /\ ReadyTransaction
  <2>1. hook[h] \in HookRecord /\ hook'[h] = r
    BY <1>2, HookTyped, HookSet
  <2>2. txn.digest \in Digest
    BY <1>2 DEF ReadyTransaction, InstallInv, TypeOK, Record
  <2>3. r \in HookRecord /\ r.at = "digest" /\ r.checked = hook[h].checked /\ r.loaded = hook[h].loaded
          /\ r.disturbed = hook[h].disturbed /\ r.expected = txn.digest
    BY <2>1, <2>2, HookMoves DEF HookRecord, InHook
  <2>4. hook[h].at = "read"
    BY DEF ReadTransaction
  <2>5. ~r.disturbed => Seen(h)'
    BY <2>1, <2>2, <2>3, <2>4 DEF InstallInv, Hooked, Seen
  <2> QED BY <1>2, <2>3, <2>5, OneHook
<1> QED BY <1>1, <1>2 DEF ReadTransaction

LEMMA DigestFileKeeps ==
  ASSUME InstallInv, NEW h \in Hooks, DigestFile(h), installed' = installed
  PROVE hook' \in [Hooks -> HookRecord] /\ Hooked'
<1>1. CASE Refuse(h)
  BY <1>1, RefuseKeeps
<1>2. CASE ~Refuse(h)
  <2>0. hook[h] \in HookRecord /\ hook[h].at = "digest"
    BY HookTyped DEF DigestFile
  <2>1. PICK f \in Digested \ hook[h].checked :
          /\ Before(f) \cap Digested \subseteq hook[h].checked
          /\ installed[f] = hook[h].expected[f]
          /\ IF f = Runner
             THEN hook' = [hook EXCEPT ![h] = [@ EXCEPT !.at = "exec", !.checked = {}]]
             ELSE hook' = [hook EXCEPT ![h].checked = @ \cup {f}]
    BY <1>2 DEF DigestFile
  <2> DEFINE S == IF f = Runner THEN {} ELSE hook[h].checked \cup {f}
             to == IF f = Runner THEN "exec" ELSE "digest"
             r == [hook[h] EXCEPT !.at = to, !.checked = S]
  <2>2. f \in Files /\ (f = Canonical \/ f \in Modules \/ f = Runner)
    BY Contents
  <2>3. S \in SUBSET Docs /\ to \in InHook
    BY <2>0, <2>2, Contents DEF HookRecord, InHook
  <2>4. r \in HookRecord
    BY <2>0, <2>3, HookMoves
  <2>5. hook' = [hook EXCEPT ![h] = r]
    <3>1. CASE f = Runner
      BY <2>1, <3>1
    <3>2. CASE f # Runner
      <4>1. [hook[h] EXCEPT !.checked = hook[h].checked \cup {f}] = r
        BY <2>0, <3>2 DEF HookRecord
      <4>2. hook' = [hook EXCEPT ![h] = [hook[h] EXCEPT !.checked = hook[h].checked \cup {f}]]
        BY <2>1, <3>2
      <4> QED BY <4>1, <4>2
    <3> QED BY <3>1, <3>2
  <2>6. r.at = to /\ r.checked = S /\ r.loaded = hook[h].loaded /\ r.disturbed = hook[h].disturbed
          /\ r.expected = hook[h].expected
    BY <2>0 DEF HookRecord
  <2>7. ASSUME ~r.disturbed PROVE Seen(h)'
    <3>1. Seen(h) /\ hook[h].expected \in Digest
      BY <2>0, <2>6, <2>7 DEF InstallInv, Hooked, Seen
    <3>2. f # Canonical => Canonical \in hook[h].checked
      BY <2>1, <2>2, Contents, ConstantsAssumption DEF Before, Docs
    <3>3. installed[Canonical] = hook[h].expected[Canonical]
      BY <2>1, <3>1, <3>2 DEF Seen
    <3>4. installed[Canonical] \in Gens
      BY <3>1, <3>3, Contents DEF Digest
    <3>5. f = Runner => \A e \in Digested : installed[e] = hook[h].expected[e]
      <4> SUFFICES ASSUME f = Runner, NEW e \in Digested PROVE installed[e] = hook[h].expected[e]
        OBVIOUS
      <4>1. Before(f) = Docs
        BY Contents, ConstantsAssumption DEF Before
      <4>2. e = Runner \/ e \in hook[h].checked
        BY <2>1, <4>1 DEF Digested, Files
      <4> QED BY <2>1, <3>1, <4>2 DEF Seen
    <3>6. hook'[h] = r
      BY <2>5, HookSet
    <3>7. \A e \in S : e \in Digested /\ installed[e] = hook[h].expected[e]
      BY <2>1, <3>1 DEF Seen
    <3> HIDE DEF r, S, to
    <3>8. to \in {"exec", "digest"} /\ (to = "exec" => f = Runner /\ S = {})
      BY DEF to, S
    <3>9. \A e \in Docs : hook[h].loaded[e] = Absent
      BY <2>0, <3>1 DEF Seen
    <3> QED BY <2>6, <3>1, <3>4, <3>5, <3>6, <3>7, <3>8, <3>9 DEF Seen
  <2> QED BY <2>4, <2>5, <2>7, OneHook
<1> QED BY <1>1, <1>2

LEMMA ExecKeeps ==
  ASSUME InstallInv, NEW h \in Hooks, Exec(h), installed' = installed
  PROVE hook' \in [Hooks -> HookRecord] /\ Hooked'
<1>0. hook[h] \in HookRecord /\ hook[h].at = "exec"
  BY HookTyped DEF Exec
<1>1. \/ Refuse(h)
      \/ installed[Canonical] = Absent /\ hook' = [hook EXCEPT ![h].at = "broken"]
      \/ /\ installed[Canonical] # Absent
         /\ hook' = [hook EXCEPT ![h] =
              [@ EXCEPT !.at = "import", !.loaded[Canonical] = installed[Canonical]]]
  BY Contents DEF Exec
<1>2. CASE Refuse(h)
  BY <1>2, RefuseKeeps
<1>3. CASE installed[Canonical] = Absent /\ hook' = [hook EXCEPT ![h].at = "broken"]
  <2> DEFINE r == [hook[h] EXCEPT !.at = "broken"]
  <2>1. hook' = [hook EXCEPT ![h] = r] /\ r \in HookRecord /\ r.disturbed = hook[h].disturbed
    BY <1>0, <1>3, HookMoves DEF HookRecord
  <2>2. hook[h].disturbed
    BY <1>0, <1>3, Contents DEF InstallInv, Hooked, Seen
  <2> QED BY <2>1, <2>2, OneHook
<1>4. CASE /\ installed[Canonical] # Absent
           /\ hook' = [hook EXCEPT ![h] =
                [@ EXCEPT !.at = "import", !.loaded[Canonical] = installed[Canonical]]]
  <2> DEFINE r == [hook[h] EXCEPT !.at = "import", !.loaded[Canonical] = installed[Canonical]]
  <2>0. hook' = [hook EXCEPT ![h] = r]
    BY <1>4
  <2>1. hook' = [hook EXCEPT ![h] = r] /\ hook'[h] = r
    BY <2>0, HookSet
  <2>2. installed[Canonical] \in Content
    BY Contents DEF InstallInv, TypeOK
  <2>3. /\ r.at = "import" /\ r.checked = hook[h].checked /\ r.disturbed = hook[h].disturbed
        /\ r.expected = hook[h].expected
        /\ r.loaded = [hook[h].loaded EXCEPT ![Canonical] = installed[Canonical]]
    BY <1>0 DEF HookRecord
  <2>4. r \in HookRecord
    BY <1>0, <2>2, Contents DEF HookRecord, InHook
  <2>5. ASSUME ~r.disturbed PROVE Seen(h)'
    <3>1. Seen(h)
      BY <2>3, <2>5 DEF InstallInv, Hooked
    <3>2. hook[h].loaded \in [Docs -> Content]
      BY <1>0 DEF HookRecord
    <3>3. r.loaded[Canonical] = installed[Canonical] /\ \A f \in Docs \ {Canonical} : r.loaded[f] = Absent
      BY <1>0, <2>3, <3>1, <3>2, Contents DEF Seen
    <3> HIDE DEF r
    <3> QED BY <1>0, <1>4, <2>1, <2>3, <3>1, <3>3 DEF Seen
  <2> QED BY <2>1, <2>4, <2>5, OneHook
<1> QED BY <1>1, <1>2, <1>3, <1>4

LEMMA ImportKeeps ==
  ASSUME InstallInv, NEW h \in Hooks, Import(h), installed' = installed
  PROVE hook' \in [Hooks -> HookRecord] /\ Hooked'
<1>0. hook[h] \in HookRecord /\ hook[h].at = "import"
  BY HookTyped DEF Import
<1>1. PICK f \in Modules :
        hook' = [hook EXCEPT ![h] =
          [@ EXCEPT !.loaded[f] = installed[f],
                    !.at = IF installed[f] = Absent THEN "broken"
                           ELSE IF \A g \in Modules \ {f} : hook[h].loaded[g] # Absent
                           THEN "ran" ELSE "import"]]
  BY DEF Import
<1> DEFINE to == IF installed[f] = Absent THEN "broken"
                 ELSE IF \A g \in Modules \ {f} : hook[h].loaded[g] # Absent THEN "ran" ELSE "import"
           r == [hook[h] EXCEPT !.loaded[f] = installed[f], !.at = to]
<1>1a. hook' = [hook EXCEPT ![h] = r]
  BY <1>1
<1>2. hook' = [hook EXCEPT ![h] = r] /\ hook'[h] = r
  BY <1>1a, HookSet
<1>3. f \in Docs /\ installed[f] \in Content /\ to \in {"broken", "ran", "import"}
  BY Contents DEF InstallInv, TypeOK
<1>4. /\ r.at = to /\ r.checked = hook[h].checked /\ r.disturbed = hook[h].disturbed
      /\ r.expected = hook[h].expected /\ r.loaded = [hook[h].loaded EXCEPT ![f] = installed[f]]
  BY <1>0 DEF HookRecord
<1>5. r \in HookRecord
  BY <1>0, <1>3, HookMoves DEF InHook
<1>6. ASSUME ~r.disturbed PROVE Seen(h)'
  <2>1. Seen(h) /\ installed[Canonical] \in Gens /\ hook[h].expected \in Digest
    BY <1>0, <1>4, <1>6 DEF InstallInv, Hooked, Seen
  <2>2. hook[h].loaded \in [Docs -> Content]
    BY <1>0 DEF HookRecord
  <2>3. r.loaded[f] = installed[f] /\ \A e \in Docs \ {f} : r.loaded[e] = hook[h].loaded[e]
    BY <1>3, <1>4, <2>2
  <2>4. txn # Absent /\ installed[f] \in {txn.digest[f], Edited}
    BY <1>3, <2>1, Contents DEF InstallInv, OfTransaction
  <2>5. txn.digest[f] \in Gens
    BY <1>3, <2>4, Contents DEF InstallInv, TypeOK, Record, Digest
  <2>6. installed[f] # Absent
    BY <2>4, <2>5, Contents
  <2>7. to # "broken" /\ (to = "ran" => \A g \in Modules \ {f} : hook[h].loaded[g] # Absent)
    BY <2>6
  <2>8. r.loaded[Canonical] # Absent
    BY <1>0, <2>1, <2>3, <2>6, Contents DEF Seen
  <2> HIDE DEF r, to
  <2>9. to = "ran" => \A e \in Docs : r.loaded[e] # Absent
    BY <2>3, <2>6, <2>7, <2>8, Contents
  <2>10. \A e \in Docs : r.loaded[e] \in {Absent, installed[e]}
    BY <2>1, <2>3 DEF Seen
  <2> QED BY <1>0, <1>2, <1>3, <1>4, <2>1, <2>7, <2>8, <2>9, <2>10 DEF Seen
<1> QED BY <1>2, <1>5, <1>6, OneHook

(* The installation: every step                                             *)

LEMMA InstallInit == Init => InstallInv
<1> SUFFICES ASSUME Init PROVE InstallInv
  OBVIOUS
<1> USE DEF Init
<1>1. NoCopy \in [Files -> Gens \cup {Absent}] /\ [f \in Files |-> Absent] \in [Files -> Content]
  BY Contents DEF NoCopy
<1>2. TypeOK
  <2>1. hook \in [Hooks -> HookRecord] /\ mishaps \in 0..MaxMishaps
    BY IdleHook, ConstantsAssumption
  <2> QED BY <1>1, <2>1, Contents DEF TypeOK, HookRecord
<1>3. Procs /\ OneHolder
  BY DEF Procs, ProcOK, OneHolder, HoldsLock, Working
<1>4. Installing
  BY Others DEF Installing, InstallationOK, Working
<1>5. OfTransaction /\ CompleteIsInstalled
  BY Contents DEF OfTransaction, CompleteIsInstalled
<1>6. Hooked
  BY IdleHook DEF Hooked, Seen
<1> QED BY <1>2, <1>3, <1>4, <1>5, <1>6 DEF InstallInv

\* The parts that an action is asked for beside the processes.
Rest(i) ==
  /\ InstallationOK(i) /\ FilesOK /\ Hooked
  /\ snap \in [Installers -> [Files -> Gens \cup {Absent}]] /\ installed \in [Files -> Content]
  /\ present \in BOOLEAN /\ txn \in {Absent} \cup Record /\ hook \in [Hooks -> HookRecord]
  /\ drifted \in BOOLEAN /\ mishaps \in 0..MaxMishaps

LEMMA WorkKeeps ==
  ASSUME InstallInv, NEW i \in Installers, Work(i)
  PROVE /\ Rest(i)'
        /\ \A j \in Installers \ {i} : pc'[j] \notin Working
<1> USE DEF InstallInv, TypeOK
<1> DEFINE Typed == /\ installed \in [Files -> Content] /\ present \in BOOLEAN /\ txn \in {Absent} \cup Record
                    /\ hook \in [Hooks -> HookRecord] /\ drifted \in BOOLEAN /\ mishaps \in 0..MaxMishaps
<1>0. Typed
  BY DEF HookRecord
<1>1. CASE Snapshot(i)
  <2>1. /\ UNCHANGED <<installed, present, txn, hook, drifted, mishaps, alive>>
        /\ pc[i] = "snapshot" /\ \A j \in Installers \ {i} : pc'[j] = pc[j]
    BY <1>1 DEF Snapshot, diskVars
  <2>2. \A j \in Installers \ {i} : pc[j] \notin Working
    <3> SUFFICES ASSUME NEW j \in Installers \ {i}, pc[j] \in Working PROVE FALSE
      OBVIOUS
    <3>1. HoldsLock(j)
      BY DEF Procs, ProcOK, HoldsLock, Working
    <3> QED BY <2>1, <3>1, Alone DEF Working
  <2> QED BY <1>0, <1>1, <2>1, <2>2, SnapshotKeeps, HooksKept DEF Rest
<1>2. CASE ~Snapshot(i)
  <2>1. PICK a \in Working, b \in Working \cup Ended : Do(i, a, b)
    BY <1>2 DEF Work, Check, PublishGuard, OpenTransaction, CopySkills, CopyDocs, CopyPlugin, Verify,
       PublishCanonical, Reverify, Complete, Confirm, Working, Ended
  <2>2. /\ \A j \in Installers \ {i} : pc'[j] \notin Working
        /\ snap' \in [Installers -> [Files -> Gens \cup {Absent}]]
    BY <2>1, DoKeepsProcesses
  <2>3. mishaps' = mishaps
    BY <2>1 DEF Do
  <2>4. CASE Check(i)
    <3>1. UNCHANGED <<installed, present, txn, hook, drifted>>
      BY <2>4 DEF Check, diskVars
    <3> QED BY <1>0, <2>2, <2>3, <2>4, <3>1, CheckKeeps, HooksKept DEF Rest
  <2>5. CASE PublishGuard(i)
    <3>1. present' = TRUE /\ txn' = txn /\ drifted' = FALSE
      BY <2>5 DEF PublishGuard
    <3> QED BY <1>0, <2>2, <2>3, <2>5, <3>1, PublishGuardKeeps DEF Rest
  <2>6. CASE OpenTransaction(i)
    <3>1. UNCHANGED <<installed, present, hook, drifted>>
      BY <2>6 DEF OpenTransaction
    <3> QED BY <1>0, <2>2, <2>3, <2>6, <3>1, OpenTransactionKeeps, HooksKept DEF Rest
  <2>7. CASE CopySkills(i)
    <3>1. UNCHANGED <<present, txn, hook, drifted>>
      BY <2>7 DEF CopySkills
    <3> QED BY <1>0, <2>2, <2>3, <2>7, <3>1, CopySkillsKeeps, HooksKept DEF Rest
  <2>8. CASE CopyDocs(i)
    <3>1. UNCHANGED <<present, txn, hook, drifted>>
      BY <2>8 DEF CopyDocs
    <3> QED BY <1>0, <2>2, <2>3, <2>8, <3>1, CopyDocsKeeps, HooksKept DEF Rest
  <2>9. CASE CopyPlugin(i)
    <3>1. UNCHANGED <<present, txn, hook, drifted>>
      BY <2>9 DEF CopyPlugin
    <3> QED BY <1>0, <2>2, <2>3, <2>9, <3>1, CopyPluginKeeps, HooksKept DEF Rest
  <2>10. CASE Verify(i)
    <3>1. UNCHANGED <<installed, present, txn, hook, drifted>>
      BY <2>10 DEF Verify, diskVars
    <3> QED BY <1>0, <2>2, <2>3, <2>10, <3>1, VerifyKeeps, HooksKept DEF Rest
  <2>11. CASE PublishCanonical(i)
    <3>1. UNCHANGED <<present, txn, hook, drifted>>
      BY <2>11 DEF PublishCanonical
    <3> QED BY <1>0, <2>2, <2>3, <2>11, <3>1, PublishCanonicalKeeps, HooksKept DEF Rest
  <2>12. CASE Reverify(i)
    <3>1. UNCHANGED <<installed, present, txn, hook, drifted>>
      BY <2>12 DEF Reverify, diskVars
    <3> QED BY <1>0, <2>2, <2>3, <2>12, <3>1, ReverifyKeeps, HooksKept DEF Rest
  <2>13. CASE Complete(i)
    <3>1. UNCHANGED <<installed, present, hook, drifted>>
      BY <2>13 DEF Complete
    <3> QED BY <1>0, <2>2, <2>3, <2>13, <3>1, CompleteKeeps, HooksKept DEF Rest
  <2>14. CASE Confirm(i)
    <3>1. UNCHANGED <<installed, present, txn, hook, drifted>>
      BY <2>14 DEF Confirm, diskVars
    <3> QED BY <1>0, <2>2, <2>3, <2>14, <3>1, ConfirmKeeps, HooksKept DEF Rest
  <2> HIDE DEF Typed
  <2> QED BY <1>2, <2>4, <2>5, <2>6, <2>7, <2>8, <2>9, <2>10, <2>11, <2>12, <2>13, <2>14 DEF Work
<1> QED BY <1>1, <1>2

\* A step of the outer process, of the system or of a user that leaves the files alone.
LEMMA OutsideKeeps ==
  ASSUME InstallInv, UNCHANGED <<diskVars, hook, drifted>>, NEW i \in Installers,
         pc'[i] \in {"idle", "waiting", "check"}, UNCHANGED snap \/ snap' = [snap EXCEPT ![i] = NoCopy],
         \A j \in Installers \ {i} : pc'[j] = pc[j]
  PROVE Installing' /\ FilesOK' /\ Hooked' /\ snap' \in [Installers -> [Files -> Gens \cup {Absent}]]
<1> USE DEF InstallInv, TypeOK
<1>1. UNCHANGED <<installed, txn, drifted>>
  BY DEF diskVars
<1>2. snap' \in [Installers -> [Files -> Gens \cup {Absent}]]
  BY DEF NoCopy
<1>3. InstallationOK(i)'
  BY DEF InstallationOK, Copied, Upgrading, Away, Begun, Working, Staging, Opened
<1>4. ASSUME NEW j \in Installers \ {i} PROVE InstallationOK(j)'
  <2>1. pc'[j] = pc[j] /\ snap'[j] = snap[j]
    OBVIOUS
  <2>2. Downgrade(j)' = Downgrade(j)
    BY <1>1, Downgrades
  <2>3. \A s : Transaction(j, s)' = Transaction(j, s)
    BY <2>1 DEF Transaction
  <2>4. InstallationOK(j)
    BY DEF Installing, InstallationOK
  <2> QED BY <1>1, <2>1, <2>2, <2>3, <2>4 DEF InstallationOK, Copied, Upgrading, Away, Begun
<1>5. Installing'
  BY <1>3, <1>4 DEF Installing, InstallationOK
<1> QED BY <1>1, <1>2, <1>5, DiskKept, HooksKept


LEMMA EditKeeps ==
  ASSUME InstallInv, EditInstalled
  PROVE /\ Installing' /\ FilesOK' /\ Hooked'
        /\ installed' \in [Files -> Content] /\ hook' \in [Hooks -> HookRecord]
<1> USE DEF InstallInv, TypeOK
<1>1. PICK f \in Files : installed' = [installed EXCEPT ![f] = Edited]
  BY DEF EditInstalled
<1>2. /\ drifted' = TRUE /\ UNCHANGED <<pc, snap, txn>>
      /\ hook' = [h \in Hooks |-> [hook[h] EXCEPT !.disturbed = TRUE]]
  BY DEF EditInstalled, installVars
<1>3. installed' \in [Files -> Content] /\ \A e \in Files : installed'[e] \in {installed[e], Edited}
  BY <1>1, Contents
<1>4. \A h \in Hooks : hook'[h].disturbed = TRUE /\ hook'[h] \in HookRecord
  BY <1>2 DEF HookRecord
<1>5. ASSUME NEW i \in Installers PROVE InstallationOK(i)'
  <2>1. InstallationOK(i) /\ Downgrade(i)' = Downgrade(i)
    BY <1>2, Downgrades DEF Installing, InstallationOK
  <2>2. \A s : Transaction(i, s)' = Transaction(i, s)
    BY <1>2 DEF Transaction
  <2>3. Away(i)'
    BY <1>2, <1>3, <2>1, Contents DEF InstallationOK, Away
  <2>4. pc[i] = "publish" => \A e \in Files \ {Canonical} : installed'[e] \in {snap[i][e], Edited}
    BY <1>3, <2>1 DEF InstallationOK, Begun
  <2>5. Begun(i)'
    BY <1>2, <2>1, <2>2, <2>4 DEF InstallationOK, Begun
  <2> QED BY <1>2, <2>1, <2>3, <2>5 DEF InstallationOK, Copied, Upgrading
<1>6. OfTransaction'
  <2>1. installed'[Canonical] \in Gens => installed[Canonical] \in Gens
    BY <1>3, Contents
  <2> QED BY <1>2, <1>3, <2>1 DEF OfTransaction
<1>7. CompleteIsInstalled'
  BY <1>2 DEF CompleteIsInstalled
<1> QED BY <1>2, <1>3, <1>4, <1>5, <1>6, <1>7 DEF Installing, InstallationOK, FilesOK, Hooked

\* Whatever installers, hooks and users do next.
LEMMA InstallStep ==
  ASSUME InstallInv, [Next]_vars
  PROVE  InstallInv'
<1> USE DEF InstallInv
<1>0. /\ Procs' /\ OneHolder'
      /\ pc' \in [Installers -> {"idle", "waiting"} \cup Working \cup Ended]
      /\ alive' \in [Installers -> SUBSET {"outer", "inner"}] /\ force' \in [Installers -> BOOLEAN]
  BY ProcessesKept
<1> DEFINE Goal ==
      /\ Installing' /\ FilesOK' /\ Hooked'
      /\ snap' \in [Installers -> [Files -> Gens \cup {Absent}]] /\ installed' \in [Files -> Content]
      /\ present' \in BOOLEAN /\ txn' \in {Absent} \cup Record /\ hook' \in [Hooks -> HookRecord]
      /\ drifted' \in BOOLEAN /\ mishaps' \in 0..MaxMishaps
<1>1. /\ snap \in [Installers -> [Files -> Gens \cup {Absent}]] /\ installed \in [Files -> Content]
      /\ present \in BOOLEAN /\ txn \in {Absent} \cup Record /\ hook \in [Hooks -> HookRecord]
      /\ drifted \in BOOLEAN /\ mishaps \in 0..MaxMishaps
      /\ pc \in [Installers -> {"idle", "waiting"} \cup Working \cup Ended]
      /\ alive \in [Installers -> SUBSET {"outer", "inner"}]
  BY DEF TypeOK, HookRecord
<1>2. ASSUME NEW i \in Installers, Work(i) PROVE Goal
  <2>1. Rest(i)' /\ \A j \in Installers \ {i} : InstallationOK(j)'
    BY <1>2, WorkKeeps, OthersNext
  <2>2. Installing'
    BY <2>1 DEF Rest, Installing, InstallationOK
  <2> QED BY <2>1, <2>2 DEF Rest
<1>3. ASSUME NEW i \in Installers, NEW forced \in BOOLEAN, Launch(i, forced) PROVE Goal
  <2>1. /\ UNCHANGED <<diskVars, hook, drifted, snap, mishaps>>
        /\ pc' = [pc EXCEPT ![i] = "waiting"]
    BY <1>3 DEF Launch
  <2>2. pc'[i] = "waiting" /\ \A j \in Installers \ {i} : pc'[j] = pc[j]
    BY <1>1, <2>1
  <2>3. Installing' /\ FilesOK' /\ Hooked'
    BY <2>1, <2>2, OutsideKeeps
  <2> QED BY <1>1, <2>1, <2>3 DEF diskVars
<1>4. ASSUME NEW i \in Installers, Acquire(i) PROVE Goal
  <2>1. /\ UNCHANGED <<diskVars, hook, drifted, snap, mishaps>>
        /\ pc' = [pc EXCEPT ![i] = "check"]
    BY <1>4 DEF Acquire
  <2>2. pc'[i] = "check" /\ \A j \in Installers \ {i} : pc'[j] = pc[j]
    BY <1>1, <2>1
  <2>3. Installing' /\ FilesOK' /\ Hooked'
    BY <2>1, <2>2, OutsideKeeps
  <2> QED BY <1>1, <2>1, <2>3 DEF diskVars
<1>5. ASSUME NEW i \in Installers, TimeOut(i) PROVE Goal
  <2>1. /\ UNCHANGED <<diskVars, hook, drifted, snap, mishaps>>
        /\ pc' = [pc EXCEPT ![i] = "idle"]
    BY <1>5 DEF TimeOut
  <2>2. pc'[i] = "idle" /\ \A j \in Installers \ {i} : pc'[j] = pc[j]
    BY <1>1, <2>1
  <2>3. Installing' /\ FilesOK' /\ Hooked'
    BY <2>1, <2>2, OutsideKeeps
  <2> QED BY <1>1, <2>1, <2>3 DEF diskVars
<1>6. UNCHANGED <<pc, snap, diskVars, hook, drifted>> => Installing' /\ FilesOK' /\ Hooked'
  <2> SUFFICES ASSUME UNCHANGED <<pc, snap, diskVars, hook, drifted>> PROVE Installing' /\ FilesOK' /\ Hooked'
    OBVIOUS
  <2>1. UNCHANGED <<installed, txn, drifted>>
    BY DEF diskVars
  <2>2. ASSUME NEW j \in Installers PROVE (Copied(j) /\ Upgrading(j) /\ Away(j) /\ Begun(j))'
    <3>1. Downgrade(j)' = Downgrade(j) /\ \A s : Transaction(j, s)' = Transaction(j, s)
      BY <2>1, Downgrades DEF Transaction
    <3> QED BY <2>1, <3>1 DEF Installing, Copied, Upgrading, Away, Begun
  <2>3. Installing'
    BY <2>2 DEF Installing
  <2> QED BY <2>1, <2>3, DiskKept, HooksKept
<1>7. ASSUME NEW i \in Installers, Kill(i) PROVE Goal
  <2>1. /\ UNCHANGED <<diskVars, hook, drifted>> /\ mishaps < MaxMishaps /\ mishaps' = mishaps + 1
        /\ \/ pc' = [pc EXCEPT ![i] = "idle"] /\ snap' = [snap EXCEPT ![i] = NoCopy]
           \/ pc' = pc /\ snap' = snap
    BY <1>7 DEF Kill, Forget
  <2>2. mishaps' \in 0..MaxMishaps
    BY <1>1, <2>1, ConstantsAssumption
  <2>3. CASE pc' = [pc EXCEPT ![i] = "idle"] /\ snap' = [snap EXCEPT ![i] = NoCopy]
    <3>1. pc'[i] = "idle" /\ \A j \in Installers \ {i} : pc'[j] = pc[j]
      BY <1>1, <2>3
    <3>2. Installing' /\ FilesOK' /\ Hooked' /\ snap' \in [Installers -> [Files -> Gens \cup {Absent}]]
      BY <2>1, <2>3, <3>1, OutsideKeeps
    <3> QED BY <1>1, <2>1, <2>2, <3>2 DEF diskVars
  <2>4. CASE pc' = pc /\ snap' = snap
    BY <1>1, <1>6, <2>1, <2>2, <2>4 DEF diskVars
  <2> QED BY <2>1, <2>3, <2>4
<1>8. ASSUME NEW i \in Installers, Reap(i) PROVE Goal
  BY <1>1, <1>6, <1>8 DEF Reap, diskVars
<1>9. ASSUME NEW h \in Hooks, Start(h) \/ HookStep(h) PROVE Goal
  <2>1. UNCHANGED others
    BY <1>9 DEF Start, HookStep, Probe, ReadTransaction, DigestFile, Exec, Import
  <2>2. UNCHANGED <<pc, snap, installed, present, txn, drifted, mishaps>>
    BY <2>1 DEF others, installVars, diskVars
  <2>3. hook' \in [Hooks -> HookRecord] /\ Hooked'
    BY <1>9, <2>2, StartKeeps, ProbeKeeps, ReadTransactionKeeps, DigestFileKeeps, ExecKeeps, ImportKeeps DEF HookStep
  <2>4. ASSUME NEW j \in Installers PROVE (Copied(j) /\ Upgrading(j) /\ Away(j) /\ Begun(j))'
    <3>1. Downgrade(j)' = Downgrade(j) /\ \A s : Transaction(j, s)' = Transaction(j, s)
      BY <2>2, Downgrades DEF Transaction
    <3> QED BY <2>2, <3>1 DEF Installing, Copied, Upgrading, Away, Begun
  <2>5. Installing'
    BY <2>4 DEF Installing
  <2> QED BY <1>1, <2>2, <2>3, <2>5, DiskKept
<1>10. EditInstalled => Goal
  <2> SUFFICES ASSUME EditInstalled PROVE Goal
    OBVIOUS
  <2>1. drifted' = TRUE /\ UNCHANGED <<pc, snap, present, txn>> /\ mishaps < MaxMishaps /\ mishaps' = mishaps + 1
    BY DEF EditInstalled, installVars
  <2>2. mishaps' \in 0..MaxMishaps
    BY <1>1, <2>1, ConstantsAssumption
  <2> QED BY <1>1, <2>1, <2>2, EditKeeps
<1>11. UNCHANGED vars => Goal
  BY <1>1, <1>6 DEF vars, installVars, diskVars
<1> HIDE DEF Goal
<1>12. Goal
  BY <1>2, <1>3, <1>4, <1>5, <1>7, <1>8, <1>9, <1>10, <1>11 DEF Next
<1> QED BY <1>0, <1>12 DEF Goal, TypeOK, HookRecord, FilesOK

LEMMA Inspected == InstallInv => InstallationIsSound /\ HookRunsOneInstallation
<1> SUFFICES ASSUME InstallInv PROVE InstallationIsSound /\ HookRunsOneInstallation
  OBVIOUS
<1> USE DEF InstallInv
<1>1. MutatorsExclusive
  <2> SUFFICES ASSUME NEW i \in Installers, NEW j \in Installers, "inner" \in alive[i], "inner" \in alive[j]
               PROVE  i = j
    BY DEF MutatorsExclusive
  <2> QED BY DEF Procs, ProcOK, OneHolder, HoldsLock, Working
<1>2. HookRunsOneInstallation
  <2> SUFFICES ASSUME NEW h \in Hooks, ~hook[h].disturbed
               PROVE  /\ hook[h].at # "broken"
                      /\ hook[h].at = "ran" =>
                           \A f \in Docs : \/ hook[h].loaded[f] = txn.digest[f]
                                           \/ f \in Undigested /\ hook[h].loaded[f] = Edited
    BY DEF HookRunsOneInstallation
  <2>1. Seen(h)
    BY DEF Hooked
  <2>2. ASSUME hook[h].at = "ran", NEW f \in Docs
        PROVE  \/ hook[h].loaded[f] = txn.digest[f]
               \/ f \in Undigested /\ hook[h].loaded[f] = Edited
    <3>1. hook[h].loaded[f] = installed[f] /\ installed[Canonical] \in Gens
      BY <2>1, <2>2 DEF Seen
    <3>2. f \in Files /\ installed[f] \in {txn.digest[f], Edited}
      BY <3>1, Contents DEF OfTransaction
    <3>3. f \in Digested => installed[f] \in Gens
      BY <2>1, <2>2, Contents DEF Seen, Digest
    <3>4. f \in Digested \/ f \in Undigested
      BY <3>2 DEF Digested
    <3> QED BY <3>1, <3>2, <3>3, <3>4, Contents
  <2> QED BY <2>1, <2>2 DEF Seen
<1> QED BY <1>1, <1>2 DEF InstallationIsSound, InstallerInv

LEMMA InstallPart == AllInit => InstallInv
BY InstallInit DEF AllInit

LEMMA InstallPartStep ==
  ASSUME InstallInv, [AllNext]_AllVars
  PROVE  InstallInv'
<1>1. [Next]_vars
  BY DEF AllNext, AllVars
<1> QED BY <1>1, InstallStep

\* However often installers are started, refused, killed and rerun: two inner processes never
\* work at once, and a complete transaction without a guard in front of it speaks for every
\* file, until one is edited (install-sejong.sh:331-351, 1872-1953).
THEOREM InstallationsAreSound == AllSpec => []InstallationIsSound
BY InstallPart, InstallPartStep, Inspected, PTL DEF AllSpec

\* A hook that no guard commit and no edit overtook runs the files of the installation that
\* the transaction names, or none (king-sejong-hook.py:45-116).
THEOREM HooksRunOneInstallation == AllSpec => []HookRunsOneInstallation
BY InstallPart, InstallPartStep, Inspected, PTL DEF AllSpec

\* No installer takes a directory of epoch 2 back (reject_unsupported_authority_downgrade).
THEOREM EpochsStay == AllSpec => NoDowngrade
<1> DEFINE Stands == txn # Absent /\ txn.epoch = 2 => txn'.epoch = 2
<1>1. InstallInv /\ [AllNext]_AllVars => [Stands]_vars
  <2> SUFFICES ASSUME InstallInv, Next, txn # Absent, txn.epoch = 2 PROVE txn'.epoch = 2
    BY DEF AllNext, AllVars
  <2> USE DEF InstallInv
  <2>1. CASE txn' = txn
    BY <2>1
  <2>2. ASSUME NEW i \in Installers, NEW status \in {"in_progress", "complete"}, NEW a \in {"open", "complete"},
               pc[i] = a, txn' = Transaction(i, status)
        PROVE  txn'.epoch = 2
    <3>1. snap[i] \in Digest /\ ~Downgrade(i)
      BY <2>2 DEF Installing, Copied, Upgrading, Working
    <3>2. Epoch[i] \in 1..2
      BY ConstantsAssumption
    <3>3. Epoch[i] = 2
      BY <3>1, <3>2 DEF Downgrade
    <3> QED BY <2>2, <3>3 DEF Transaction
  <2>3. \/ txn' = txn
        \/ \E i \in Installers : pc[i] = "open" /\ txn' = Transaction(i, "in_progress")
        \/ \E i \in Installers : pc[i] = "complete" /\ txn' = Transaction(i, "complete")
    <3>1. ASSUME NEW i \in Installers,
                 \/ Launch(i, TRUE) \/ Launch(i, FALSE) \/ Acquire(i) \/ TimeOut(i) \/ Kill(i) \/ Reap(i)
          PROVE  txn' = txn
      BY <3>1 DEF Launch, Acquire, TimeOut, Kill, Reap, diskVars
    <3>2. ASSUME NEW i \in Installers,
                 \/ Check(i) \/ Snapshot(i) \/ PublishGuard(i) \/ CopySkills(i) \/ CopyDocs(i)
                 \/ CopyPlugin(i) \/ Verify(i) \/ PublishCanonical(i) \/ Reverify(i) \/ Confirm(i)
          PROVE  txn' = txn
      BY <3>2 DEF Check, Snapshot, PublishGuard, CopySkills, CopyDocs, CopyPlugin, Verify, PublishCanonical,
                  Reverify, Confirm, diskVars
    <3>3. ASSUME NEW i \in Installers, OpenTransaction(i)
          PROVE  pc[i] = "open" /\ txn' = Transaction(i, "in_progress")
      BY <3>3 DEF OpenTransaction, Do
    <3>4. ASSUME NEW i \in Installers, Complete(i)
          PROVE  pc[i] = "complete" /\ txn' = Transaction(i, "complete")
      BY <3>4 DEF Complete, Do
    <3>5. ASSUME NEW h \in Hooks, Start(h) \/ HookStep(h) PROVE txn' = txn
      BY <3>5 DEF Start, HookStep, Probe, ReadTransaction, DigestFile, Exec, Import, others, diskVars
    <3>6. ASSUME EditInstalled PROVE txn' = txn
      BY <3>6 DEF EditInstalled
    <3>7. \A forced \in BOOLEAN : forced = TRUE \/ forced = FALSE
      OBVIOUS
    <3> QED BY <3>1, <3>2, <3>3, <3>4, <3>5, <3>6, <3>7, Zenon DEF Next, Work
  <2> QED BY <2>1, <2>2, <2>3
<1> QED BY <1>1, InstallPart, InstallPartStep, PTL DEF AllSpec, NoDowngrade


--------------------------------------------------------------------------------
(* The identity                                                             *)

Unread == [s \in Surfaces |-> Nil]
WalkRecord ==
  [command : {"write", "verify"}, commit : Identity!Commits, clean : BOOLEAN \cup {Nil},
   source : Identity!Found, installed : Identity!Found, todo : SUBSET Surfaces, quiet : BOOLEAN]

\* A walk reads in the order of the code, and what nothing overtook has read what there is.
InOrder(w) ==
  /\ w.clean = Nil => w.todo = Surfaces
  /\ w.installed # Unread => w.todo = {}
Current(w) ==
  /\ w.commit = head
  /\ w.clean # Nil => (w.clean <=> work = Tree[head])
  /\ \A s \in Surfaces \ w.todo : w.source[s] = work[s]
  /\ w.installed # Unread => w.installed = surfaces
Walking == walk # Nil => walk \in WalkRecord /\ InOrder(walk) /\ (walk.quiet => Current(walk))

\* The identity that a walk nothing overtook has written.
Intact ==
  /\ intact \in BOOLEAN
  /\ intact => /\ identity \in Identity!Identities
               /\ identity.commit = head /\ (identity.clean <=> work = Tree[head])
               /\ identity.source = work /\ identity.installed = surfaces

IdentityInv ==
  /\ head \in Identity!Commits /\ work \in [Surfaces -> Versions] /\ surfaces \in Identity!Found
  /\ Walking /\ Intact /\ Identity!CompatibleIsTrue

LEMMA IdentityInit ==
  ASSUME Identity!Init
  PROVE  IdentityInv
<1> USE DEF Identity!Init
<1>1. work \in [Surfaces -> Versions] /\ head \in Identity!Commits
  BY IdentityAssumption DEF Identity!ConstantsAssumption
<1>2. surfaces \in Identity!Found
  BY <1>1 DEF Identity!Found
<1> QED BY <1>1, <1>2 DEF IdentityInv, Walking, Intact, Identity!CompatibleIsTrue

\* Whatever changes, nothing that was seen is claimed to be so any more.
LEMMA ChangesKeep ==
  ASSUME IdentityInv, Identity!Changes
  PROVE  Walking' /\ Intact' /\ Identity!CompatibleIsTrue'
<1>1. walk' = (IF walk = Nil THEN Nil ELSE [walk EXCEPT !.quiet = FALSE]) /\ verdict' = Nil /\ intact' = FALSE
  BY DEF Identity!Changes
<1>2. Walking'
  <2> SUFFICES ASSUME walk # Nil PROVE walk' \in WalkRecord /\ InOrder(walk') /\ walk'.quiet = FALSE
    BY <1>1 DEF Walking
  <2>1. walk \in WalkRecord /\ InOrder(walk) /\ walk' = [walk EXCEPT !.quiet = FALSE]
    BY <1>1 DEF IdentityInv, Walking
  <2> QED BY <2>1 DEF WalkRecord, InOrder
<1> QED BY <1>1, <1>2 DEF Intact, Identity!CompatibleIsTrue

LEMMA WalkStarts ==
  ASSUME IdentityInv, NEW command \in {"write", "verify"}, Identity!BeginWalk(command)
  PROVE  Walking'
<1>1. walk' = [command |-> command, commit |-> head, clean |-> Nil, source |-> Unread, installed |-> Unread,
               todo |-> Surfaces, quiet |-> TRUE]
  BY DEF Identity!BeginWalk, Unread
<1>2. Unread \in Identity!Found
  BY DEF Unread, Identity!Found
<1>3. walk' \in WalkRecord
  BY <1>1, <1>2 DEF WalkRecord, IdentityInv
<1>4. InOrder(walk')
  BY <1>1 DEF InOrder
<1>5. head' = head /\ work' = work
  BY DEF Identity!BeginWalk
<1>6. walk'.commit = head' /\ walk'.clean = Nil /\ walk'.todo = Surfaces /\ walk'.installed = Unread
  BY <1>1, <1>5
<1> QED BY <1>3, <1>4, <1>6 DEF Walking, InOrder, Current, Unread

LEMMA StatusRead ==
  ASSUME IdentityInv, Identity!GitStatus
  PROVE  Walking'
<1> DEFINE c == (work = Tree[head])
           w == [walk EXCEPT !.clean = c]
<1>1. walk # Nil /\ walk.clean = Nil /\ walk' = w /\ UNCHANGED <<head, work, surfaces>>
  BY DEF Identity!GitStatus
<1>2. walk \in WalkRecord /\ InOrder(walk) /\ (walk.quiet => Current(walk))
  BY <1>1 DEF IdentityInv, Walking
<1>3. c \in BOOLEAN
  OBVIOUS
<1> HIDE DEF c
<1>4. w \in WalkRecord /\ w.todo = walk.todo /\ w.installed = walk.installed /\ w.source = walk.source
        /\ w.commit = walk.commit /\ w.quiet = walk.quiet /\ w.clean = c
  BY <1>2, <1>3 DEF WalkRecord
<1>5. InOrder(w)
  BY <1>1, <1>2, <1>3, <1>4, IdentityAssumption DEF InOrder, Identity!ConstantsAssumption
<1>6. w.clean <=> work = Tree[head]
  BY <1>4 DEF c
<1> HIDE DEF w
<1>7. walk.quiet => Current(w)
  BY <1>2, <1>4, <1>6, Zenon DEF Current
<1> QED BY <1>1, <1>4, <1>5, <1>7 DEF Walking, InOrder, Current, Unread

LEMMA SourceRead ==
  ASSUME IdentityInv, NEW s \in Surfaces, Identity!ReadSource(s)
  PROVE  Walking'
<1> DEFINE w == [walk EXCEPT !.source[s] = work[s], !.todo = @ \ {s}]
<1>1. walk # Nil /\ walk.clean # Nil /\ s \in walk.todo /\ walk' = w /\ UNCHANGED <<head, work, surfaces>>
  BY DEF Identity!ReadSource
<1>2. walk \in WalkRecord /\ InOrder(walk) /\ (walk.quiet => Current(walk)) /\ work[s] \in Versions
  BY <1>1 DEF IdentityInv, Walking
<1>3. /\ w \in WalkRecord /\ w.todo = walk.todo \ {s} /\ w.installed = walk.installed
      /\ w.commit = walk.commit /\ w.quiet = walk.quiet /\ w.clean = walk.clean
      /\ w.source[s] = work[s] /\ \A e \in Surfaces \ {s} : w.source[e] = walk.source[e]
  BY <1>2 DEF WalkRecord, Identity!Found
<1> HIDE DEF w
<1>4. InOrder(w)
  BY <1>1, <1>2, <1>3 DEF InOrder
<1>5. walk.quiet => Current(w)
  <2> SUFFICES ASSUME walk.quiet PROVE Current(w)
    OBVIOUS
  <2>1. Current(walk)
    BY <1>2
  <2>2. \A e \in Surfaces \ w.todo : w.source[e] = work[e]
    BY <1>3, <2>1 DEF Current
  <2> QED BY <1>3, <2>1, <2>2, Zenon DEF Current
<1> QED BY <1>1, <1>3, <1>4, <1>5 DEF Walking, InOrder, Current, Unread

LEMMA InstalledRead ==
  ASSUME IdentityInv, Identity!ReadInstalled
  PROVE  Walking'
<1> DEFINE w == [walk EXCEPT !.installed = surfaces]
<1>1. /\ walk # Nil /\ walk.todo = {} /\ walk.installed = Unread /\ UNCHANGED <<head, work, surfaces>>
      /\ walk' = Nil \/ walk' = w
  BY DEF Identity!ReadInstalled, Unread
<1>2. walk \in WalkRecord /\ InOrder(walk) /\ (walk.quiet => Current(walk)) /\ surfaces \in Identity!Found
  BY <1>1 DEF IdentityInv, Walking
<1>3. /\ w \in WalkRecord /\ w.todo = walk.todo /\ w.installed = surfaces /\ w.source = walk.source
      /\ w.commit = walk.commit /\ w.quiet = walk.quiet /\ w.clean = walk.clean
  BY <1>2 DEF WalkRecord
<1> HIDE DEF w
<1>4. InOrder(w)
  BY <1>1, <1>2, <1>3 DEF InOrder
<1>5. walk.quiet => Current(w)
  BY <1>2, <1>3, Zenon DEF Current
<1> QED BY <1>1, <1>3, <1>4, <1>5 DEF Walking, InOrder, Current, Unread

\* A walk that is through.
LEMMA WalkEnds ==
  ASSUME IdentityInv, walk # Nil, walk.quiet, walk.todo = {}
  PROVE  /\ walk.commit = head /\ (walk.clean <=> work = Tree[head]) /\ walk.clean \in BOOLEAN
         /\ walk.source = work
         /\ walk.installed # Unread => walk.installed = surfaces
<1>1. walk \in WalkRecord /\ InOrder(walk) /\ Current(walk)
  BY DEF IdentityInv, Walking
<1>2. walk.clean # Nil
  BY <1>1, IdentityAssumption DEF InOrder, Identity!ConstantsAssumption
<1>3. walk.clean \in BOOLEAN
  BY <1>1, <1>2 DEF WalkRecord
<1>4. walk.source = work
  <2>1. \A s \in Surfaces : walk.source[s] = work[s]
    BY <1>1 DEF Current
  <2> QED BY <1>1, <2>1 DEF WalkRecord, Identity!Found, IdentityInv
<1> QED BY <1>1, <1>2, <1>3, <1>4, Zenon DEF Current

LEMMA IdentityWritten ==
  ASSUME IdentityInv, Identity!WriteIdentity
  PROVE  Walking' /\ Intact' /\ Identity!CompatibleIsTrue'
<1>1. /\ walk # Nil /\ walk.installed # Unread /\ walk' = Nil /\ verdict' = Nil
      /\ identity' = [commit |-> walk.commit, clean |-> walk.clean, source |-> walk.source,
                      installed |-> walk.installed]
      /\ intact' = walk.quiet /\ UNCHANGED <<head, work, surfaces>>
  BY DEF Identity!WriteIdentity, Unread
<1>2. walk \in WalkRecord /\ walk.todo = {} /\ walk.quiet \in BOOLEAN
  BY <1>1 DEF IdentityInv, Walking, InOrder, WalkRecord
<1>3. Walking' /\ Identity!CompatibleIsTrue'
  BY <1>1 DEF Walking, Identity!CompatibleIsTrue
<1>4. /\ identity'.commit = walk.commit /\ identity'.clean = walk.clean
      /\ identity'.source = walk.source /\ identity'.installed = walk.installed
  BY <1>1
<1>5. ASSUME walk.quiet
      PROVE  /\ identity' \in Identity!Identities
             /\ identity'.commit = head /\ (identity'.clean <=> work = Tree[head])
             /\ identity'.source = work /\ identity'.installed = surfaces
  <2>1. /\ walk.commit = head /\ (walk.clean <=> work = Tree[head]) /\ walk.clean \in BOOLEAN
        /\ walk.source = work /\ walk.installed = surfaces
    BY <1>1, <1>2, <1>5, WalkEnds
  <2>2. identity' \in Identity!Identities
    BY <1>1, <1>2, <2>1 DEF Identity!Identities, WalkRecord
  <2> QED BY <1>4, <2>1, <2>2, Zenon
<1>6. Intact'
  BY <1>1, <1>2, <1>5, Zenon DEF Intact
<1> QED BY <1>3, <1>6

LEMMA InstallationInspected ==
  ASSUME IdentityInv, Identity!Inspect
  PROVE  Walking' /\ Intact' /\ Identity!CompatibleIsTrue'
<1> DEFINE status == IF identity = Nil THEN "missing"
                     ELSE IF ~Identity!SourceMatches(walk) THEN "source_drift"
                     ELSE IF ~Identity!InstalledMatches(walk) THEN "installed_tampered"
                     ELSE "compatible"
<1>1. /\ walk # Nil /\ walk.todo = {} /\ walk' = Nil /\ verdict' = [status |-> status, quiet |-> walk.quiet]
      /\ walk.installed # Unread \/ \A s \in Surfaces : surfaces[s] = Nil
      /\ UNCHANGED <<head, work, surfaces, identity, intact>>
  BY DEF Identity!Inspect, Unread
<1>2. verdict'.status = status /\ verdict'.quiet = walk.quiet
  BY <1>1
<1>3. Walking'
  BY <1>1 DEF Walking
<1>4. Intact'
  BY <1>1 DEF IdentityInv, Intact
<1>5. ASSUME walk.quiet
      PROVE  /\ status = "compatible" => /\ head = identity.commit
                                         /\ identity.clean => work = Tree[identity.commit]
                                         /\ surfaces = identity.installed
             /\ intact => status = "compatible"
  <2>1. /\ walk.commit = head /\ (walk.clean <=> work = Tree[head])
        /\ walk.clean \in BOOLEAN
        /\ walk.source = work
        /\ walk.installed # Unread => walk.installed = surfaces
    BY <1>1, <1>5, WalkEnds
  <2>2. walk.installed = surfaces
    <3>1. (\A s \in Surfaces : surfaces[s] = Nil) => surfaces = Unread
      BY DEF IdentityInv, Identity!Found, Unread
    <3> QED BY <1>1, <2>1, <3>1
  <2>3. status = "compatible" <=> identity # Nil /\ Identity!SourceMatches(walk) /\ Identity!InstalledMatches(walk)
    OBVIOUS
  <2> HIDE DEF status
  <2>4. status = "compatible" => /\ head = identity.commit /\ walk.clean = identity.clean
                                 /\ surfaces = identity.installed
    BY <2>1, <2>2, <2>3 DEF Identity!SourceMatches, Identity!InstalledMatches
  <2>5. intact => status = "compatible"
    <3> SUFFICES ASSUME intact PROVE identity # Nil /\ Identity!SourceMatches(walk) /\ Identity!InstalledMatches(walk)
      BY <2>3
    <3>1. /\ identity \in Identity!Identities
          /\ identity.commit = head /\ (identity.clean <=> work = Tree[head])
          /\ identity.source = work /\ identity.installed = surfaces
      BY DEF IdentityInv, Intact
    <3>2. identity # Nil /\ identity.clean \in BOOLEAN
      BY <3>1, IdentityAssumption DEF Identity!ConstantsAssumption, Identity!Identities
    <3>3. walk.clean = identity.clean
      BY <2>1, <3>1, <3>2
    <3> QED BY <2>1, <2>2, <3>1, <3>2, <3>3 DEF Identity!SourceMatches, Identity!InstalledMatches
  <2> QED BY <2>1, <2>4, <2>5, Zenon
<1> HIDE DEF status
<1>6. Identity!CompatibleIsTrue'
  BY <1>1, <1>2, <1>5, Zenon DEF Identity!CompatibleIsTrue
<1> QED BY <1>3, <1>4, <1>6

LEMMA IdentityKept ==
  ASSUME IdentityInv, [Identity!Next]_(Identity!vars)
  PROVE  IdentityInv'
<1> DEFINE Typed == head \in Identity!Commits /\ work \in [Surfaces -> Versions] /\ surfaces \in Identity!Found
<1>1. Typed
  BY DEF IdentityInv
<1>2. Typed'
  <2>1. \A c \in Identity!Commits : Tree[c] \in [Surfaces -> Versions]
    BY IdentityAssumption DEF Identity!ConstantsAssumption
  <2>2. CASE UNCHANGED <<head, work, surfaces>>
    BY <1>1, <2>2
  <2>3. ASSUME NEW s \in Surfaces, NEW v \in Versions, Identity!Install(s) \/ Identity!Edit(s, v) \/ Identity!Tamper(s, v)
        PROVE  Typed'
    BY <1>1, <2>3 DEF Identity!Install, Identity!Edit, Identity!Tamper, Identity!Found
  <2>4. ASSUME NEW s \in Surfaces, Identity!Install(s) PROVE Typed'
    BY <1>1, <2>4 DEF Identity!Install, Identity!Found
  <2>5. ASSUME NEW c \in Identity!Commits, Identity!Checkout(c) \/ Identity!Commit(c) PROVE Typed'
    BY <1>1, <2>1, <2>5 DEF Identity!Checkout, Identity!Commit
  <2>6. \/ UNCHANGED <<head, work, surfaces>>
        \/ \E s \in Surfaces, v \in Versions : Identity!Edit(s, v) \/ Identity!Tamper(s, v)
        \/ \E s \in Surfaces : Identity!Install(s)
        \/ \E c \in Identity!Commits : Identity!Checkout(c) \/ Identity!Commit(c)
    BY DEF Identity!Next, Identity!vars, Identity!BeginWalk, Identity!GitStatus, Identity!ReadSource,
       Identity!ReadInstalled, Identity!WriteIdentity, Identity!Inspect, Identity!Dies
  <2> HIDE DEF Typed
  <2> QED BY <2>2, <2>3, <2>4, <2>5, <2>6
<1>3. CASE Identity!Changes
  BY <1>2, <1>3, ChangesKeep DEF IdentityInv
<1>4. CASE UNCHANGED <<head, work, surfaces, identity, verdict, intact>> /\ Walking'
  <2>1. Intact' /\ Identity!CompatibleIsTrue'
    BY <1>4 DEF IdentityInv, Intact, Identity!CompatibleIsTrue
  <2> QED BY <1>2, <1>4, <2>1 DEF IdentityInv
<1>5. ASSUME NEW command \in {"write", "verify"}, Identity!BeginWalk(command) PROVE IdentityInv'
  BY <1>4, <1>5, WalkStarts DEF Identity!BeginWalk
<1>6. CASE Identity!GitStatus
  BY <1>4, <1>6, StatusRead DEF Identity!GitStatus
<1>7. ASSUME NEW s \in Surfaces, Identity!ReadSource(s) PROVE IdentityInv'
  BY <1>4, <1>7, SourceRead DEF Identity!ReadSource
<1>8. CASE Identity!ReadInstalled
  BY <1>4, <1>8, InstalledRead DEF Identity!ReadInstalled
<1>9. CASE Identity!WriteIdentity
  BY <1>2, <1>9, IdentityWritten DEF IdentityInv
<1>10. CASE Identity!Inspect
  BY <1>2, <1>10, InstallationInspected DEF IdentityInv
<1>11. CASE Identity!Dies
  BY <1>4, <1>11 DEF Identity!Dies, Walking
<1>12. CASE UNCHANGED Identity!vars
  BY <1>12 DEF Identity!vars, IdentityInv, Walking, InOrder, Current, Intact, Identity!CompatibleIsTrue, Unread
<1>13. ASSUME NEW s \in Surfaces, NEW v \in Versions, Identity!Edit(s, v) \/ Identity!Tamper(s, v) PROVE IdentityInv'
  BY <1>3, <1>13 DEF Identity!Edit, Identity!Tamper
<1>14. ASSUME NEW s \in Surfaces, Identity!Install(s) PROVE IdentityInv'
  BY <1>3, <1>14 DEF Identity!Install
<1>15. ASSUME NEW c \in Identity!Commits, Identity!Checkout(c) \/ Identity!Commit(c) PROVE IdentityInv'
  BY <1>3, <1>15 DEF Identity!Checkout, Identity!Commit
<1> QED BY <1>5, <1>6, <1>7, <1>8, <1>9, <1>10, <1>11, <1>12, <1>13, <1>14, <1>15 DEF Identity!Next


--------------------------------------------------------------------------------
(* The doctor                                                               *)

\* The checks come in their order.
Prefixes ==
  {{}, {"context"}, {"context", "runs"}, {"context", "runs", "pointer"}, {"context", "runs", "pointer", "refs"},
   {"context", "runs", "pointer", "refs", "locks"}, Health!Checks}

\* What was read of the Contexts that are as they were.
ReadSteady ==
  \A r \in steady \cap Runs :
    /\ state[r].is # "unreadable" <=> r \in DOMAIN contexts
    /\ r \in DOMAIN contexts => contexts[r] = state[r]

RunsTrue ==
  "runs" \in DOMAIN found /\ found["runs"] = "ok" =>
    \A r \in steady \cap Runs : state[r].is = "active" => ~(state[r].gates \/ state[r].asks \/ state[r].work)
PointerTrue ==
  "pointer" \in DOMAIN found /\ found["pointer"] = "ok" /\ "pointer" \in steady => pointer = "missing"
RefsTrue ==
  "refs" \in DOMAIN found =>
    \A r \in steady \cap Runs : state[r].is # "unreadable" =>
      /\ found["refs"] = "ok" => state[r].refs = "ok"
      /\ found["refs"] # "fail" /\ state[r].here => state[r].refs = "ok"
LocksTrue ==
  "locks" \in DOMAIN found /\ "locks" \in steady =>
    /\ found["locks"] = "ok" => lock \notin {"stale", "malformed"}
    /\ found["locks"] # "fail" => lock # "malformed"
CleanupTrue ==
  /\ "cleanup" \in DOMAIN found /\ found["cleanup"] = "ok" /\ "bindings" \in steady
  /\ \E r \in steady \cap Runs : state[r].is # "unreadable"
  => bindings = "ok"

HealthInv ==
  /\ state \in [Runs -> States] /\ bindings \in {"ok", "malformed"}
  /\ DOMAIN found \in Prefixes
  /\ contexts # <<>> \/ "runs" \in DOMAIN found => ReadSteady
  /\ RunsTrue /\ PointerTrue /\ RefsTrue /\ LocksTrue /\ CleanupTrue

LEMMA Counts ==
  /\ Health!Cardinality({}) = 0 /\ Health!Cardinality({"context"}) = 1
  /\ Health!Cardinality({"context", "runs"}) = 2
  /\ Health!Cardinality({"context", "runs", "pointer"}) = 3
  /\ Health!Cardinality({"context", "runs", "pointer", "refs"}) = 4
  /\ Health!Cardinality({"context", "runs", "pointer", "refs", "locks"}) = 5
<1>1. \A S : Health!Cardinality(S) = Cardinality(S)
  BY DEF Health!Cardinality, Cardinality, Health!IsFiniteSet, IsFiniteSet
<1>2. IsFiniteSet({}) /\ Cardinality({}) = 0
  BY FS_EmptySet
<1>3. IsFiniteSet({"context"}) /\ Cardinality({"context"}) = 1
  BY FS_Singleton
<1>4. IsFiniteSet({"context", "runs"}) /\ Cardinality({"context", "runs"}) = 2
  <2>1. {"context", "runs"} = {"context"} \cup {"runs"} /\ "runs" \notin {"context"}
    OBVIOUS
  <2> QED BY <1>3, <2>1, FS_AddElement
<1>5. IsFiniteSet({"context", "runs", "pointer"}) /\ Cardinality({"context", "runs", "pointer"}) = 3
  <2>1. {"context", "runs", "pointer"} = {"context", "runs"} \cup {"pointer"} /\ "pointer" \notin {"context", "runs"}
    OBVIOUS
  <2> QED BY <1>4, <2>1, FS_AddElement
<1>6. /\ IsFiniteSet({"context", "runs", "pointer", "refs"})
      /\ Cardinality({"context", "runs", "pointer", "refs"}) = 4
  <2>1. /\ {"context", "runs", "pointer", "refs"} = {"context", "runs", "pointer"} \cup {"refs"}
        /\ "refs" \notin {"context", "runs", "pointer"}
    OBVIOUS
  <2> QED BY <1>5, <2>1, FS_AddElement
<1>7. Cardinality({"context", "runs", "pointer", "refs", "locks"}) = 5
  <2>1. /\ {"context", "runs", "pointer", "refs", "locks"} = {"context", "runs", "pointer", "refs"} \cup {"locks"}
        /\ "locks" \notin {"context", "runs", "pointer", "refs"}
    OBVIOUS
  <2> QED BY <1>6, <2>1, FS_AddElement
<1> QED BY <1>1, <1>2, <1>3, <1>4, <1>5, <1>6, <1>7

\* The check that is due after those there are.
LEMMA Due ==
  ASSUME DOMAIN found \in Prefixes, ~Health!Done
  PROVE  /\ DOMAIN found = {} => Health!NextCheck = "context"
         /\ DOMAIN found = {"context"} => Health!NextCheck = "runs"
         /\ DOMAIN found = {"context", "runs"} => Health!NextCheck = "pointer"
         /\ DOMAIN found = {"context", "runs", "pointer"} => Health!NextCheck = "refs"
         /\ DOMAIN found = {"context", "runs", "pointer", "refs"} => Health!NextCheck = "locks"
         /\ DOMAIN found = {"context", "runs", "pointer", "refs", "locks"} => Health!NextCheck = "cleanup"
<1>1. ASSUME NEW n \in 0..5, Health!Cardinality(DOMAIN found) = n, NEW c \in Health!Checks, Health!Order[c] = n
      PROVE  Health!NextCheck = c
  <2>1. \A e \in Health!Checks : Health!Order[e] = n => e = c
    BY <1>1 DEF Health!Checks, Health!Order
  <2>2. Health!NextCheck \in Health!Checks /\ Health!Order[Health!NextCheck] = n
    BY <1>1 DEF Health!NextCheck
  <2> QED BY <2>1, <2>2
<1>2. /\ Health!Order["context"] = 0 /\ Health!Order["runs"] = 1 /\ Health!Order["pointer"] = 2
      /\ Health!Order["refs"] = 3 /\ Health!Order["locks"] = 4 /\ Health!Order["cleanup"] = 5
      /\ {"context", "runs", "pointer", "refs", "locks", "cleanup"} \subseteq Health!Checks
  BY DEF Health!Order, Health!Checks
<1> QED BY <1>1, <1>2, Counts

LEMMA FoundAdds ==
  ASSUME HealthInv, NEW c, NEW status, Health!Found(c, status)
  PROVE  /\ DOMAIN found' = DOMAIN found \cup {c} /\ c \notin DOMAIN found /\ DOMAIN found' \in Prefixes
         /\ found'[c] = status /\ \A d \in DOMAIN found : found'[d] = found[d]
         /\ c \in {"pointer", "refs", "locks", "cleanup"} => "runs" \in DOMAIN found
         /\ UNCHANGED <<state, lock, bindings, pointer, steady, changes>>
<1>1. /\ ~Health!Done /\ Health!NextCheck = c
      /\ found' = [d \in DOMAIN found \cup {c} |-> IF d = c THEN status ELSE found[d]]
      /\ UNCHANGED <<state, lock, bindings, pointer, steady, changes>>
  BY DEF Health!Found
<1>2. DOMAIN found \in Prefixes
  BY DEF HealthInv
<1>3. /\ c \notin DOMAIN found /\ DOMAIN found \cup {c} \in Prefixes
      /\ c \in {"pointer", "refs", "locks", "cleanup"} => "runs" \in DOMAIN found
  BY <1>1, <1>2, Due DEF Prefixes, Health!Checks, Health!Done
<1> QED BY <1>1, <1>3

\* A check that says nothing of the runs, the locks, the pointer and the bindings.
LEMMA FoundElsewhere ==
  ASSUME HealthInv, NEW c, NEW status, Health!Found(c, status), contexts' = contexts
  PROVE  /\ c # "runs" => (contexts' # <<>> \/ "runs" \in DOMAIN found' => ReadSteady') /\ RunsTrue'
         /\ (c # "pointer" => PointerTrue') /\ (c # "refs" => RefsTrue')
         /\ (c # "locks" => LocksTrue') /\ (c # "cleanup" => CleanupTrue')
         /\ state' \in [Runs -> States] /\ bindings' \in {"ok", "malformed"} /\ DOMAIN found' \in Prefixes
<1>1. /\ DOMAIN found' = DOMAIN found \cup {c} /\ DOMAIN found' \in Prefixes
      /\ \A d \in DOMAIN found : found'[d] = found[d]
      /\ UNCHANGED <<state, lock, bindings, pointer, steady, changes>>
  BY FoundAdds
<1>2. \A d : d # c => (d \in DOMAIN found' <=> d \in DOMAIN found) /\ (d \in DOMAIN found => found'[d] = found[d])
  BY <1>1
<1>3. ReadSteady' <=> ReadSteady
  BY <1>1 DEF ReadSteady
<1>4. c # "runs" => RunsTrue'
  BY <1>1, <1>2 DEF HealthInv, RunsTrue
<1>5. c # "pointer" => PointerTrue'
  BY <1>1, <1>2 DEF HealthInv, PointerTrue
<1>6. c # "refs" => RefsTrue'
  BY <1>1, <1>2 DEF HealthInv, RefsTrue
<1>7. c # "locks" => LocksTrue'
  BY <1>1, <1>2 DEF HealthInv, LocksTrue
<1>8. c # "cleanup" => CleanupTrue'
  BY <1>1, <1>2 DEF HealthInv, CleanupTrue
<1> QED BY <1>1, <1>2, <1>3, <1>4, <1>5, <1>6, <1>7, <1>8 DEF HealthInv

LEMMA HealthInit ==
  ASSUME Health!Init
  PROVE  HealthInv
<1>1. DOMAIN <<>> = {}
  OBVIOUS
<1> QED BY <1>1 DEF HealthInv, Health!Init, Prefixes, RunsTrue, PointerTrue, RefsTrue, LocksTrue, CleanupTrue


LEMMA RunsChecked ==
  ASSUME HealthInv, Health!CheckRuns \/ Health!CheckNoRuns
  PROVE  HealthInv'
<1>1. PICK status : Health!Found("runs", status) /\ contexts' = contexts
  BY DEF Health!CheckRuns, Health!CheckNoRuns
<1>2. /\ "runs" \in DOMAIN found' /\ found'["runs"] = status /\ UNCHANGED <<state, steady, contexts>>
  BY <1>1, FoundAdds
<1>3. CASE Health!CheckRuns
  <2>1. contexts # <<>> /\ Health!Found("runs", Health!RunsStatus)
    BY <1>3 DEF Health!CheckRuns
  <2>2. found'["runs"] = Health!RunsStatus
    BY <2>1, FoundAdds
  <2>3. ReadSteady
    BY <2>1 DEF HealthInv
  <2>4. ReadSteady'
    BY <1>2, <2>3 DEF ReadSteady
  <2>5. RunsTrue'
    <3> SUFFICES ASSUME Health!RunsStatus = "ok", NEW r \in steady \cap Runs, state[r].is = "active",
                        state[r].gates \/ state[r].asks \/ state[r].work
                 PROVE  FALSE
      BY <1>2, <2>2 DEF RunsTrue
    <3>1. r \in DOMAIN contexts /\ contexts[r] = state[r]
      BY <2>3 DEF ReadSteady
    <3>2. Health!Active(r)
      BY <3>1, Zenon DEF Health!Active
    <3> QED BY <3>1, <3>2 DEF Health!RunsStatus
  <2> QED BY <1>1, <2>4, <2>5, FoundElsewhere DEF HealthInv
<1>4. CASE Health!CheckNoRuns
  <2>1. contexts = <<>> /\ Health!Readable = {}
    BY <1>4 DEF Health!CheckNoRuns
  <2>2. \A r \in Runs : state[r].is = "unreadable"
    BY <2>1 DEF Health!Readable
  <2>3. DOMAIN <<>> = {}
    OBVIOUS
  <2>4. ReadSteady' /\ RunsTrue'
    BY <1>2, <2>1, <2>2, <2>3 DEF ReadSteady, RunsTrue
  <2> QED BY <1>1, <2>4, FoundElsewhere DEF HealthInv
<1> QED BY <1>3, <1>4

LEMMA ContextsRead ==
  ASSUME HealthInv, Health!ReadContexts
  PROVE  HealthInv'
<1>1. /\ contexts' = [r \in Health!Readable |-> state[r]] /\ UNCHANGED <<state, lock, bindings, pointer, found, steady>>
      /\ Health!Readable = {r \in Runs : state[r].is # "unreadable"}
  BY DEF Health!ReadContexts, Health!Readable
<1>2. ReadSteady'
  BY <1>1 DEF ReadSteady
<1> QED BY <1>1, <1>2 DEF HealthInv, RunsTrue, PointerTrue, RefsTrue, LocksTrue, CleanupTrue

LEMMA RefsChecked ==
  ASSUME HealthInv, Health!CheckRefs
  PROVE  HealthInv'
<1>1. Health!Found("refs", Health!RefsStatus) /\ contexts' = contexts
  BY DEF Health!CheckRefs
<1>2. /\ found'["refs"] = Health!RefsStatus /\ "runs" \in DOMAIN found /\ UNCHANGED <<state, steady>>
  BY <1>1, FoundAdds
<1>3. ReadSteady /\ state \in [Runs -> States]
  BY <1>2 DEF HealthInv
<1>4. ASSUME NEW r \in steady \cap Runs, state[r].is # "unreadable"
      PROVE  /\ Health!RefsStatus = "ok" => state[r].refs = "ok"
             /\ Health!RefsStatus # "fail" /\ state[r].here => state[r].refs = "ok"
  <2>1. r \in DOMAIN contexts /\ contexts[r] = state[r]
    BY <1>3, <1>4 DEF ReadSteady
  <2>2. state[r].refs # "broken" => state[r].refs = "ok"
    BY <1>3, HealthAssumption DEF Health!ConstantsAssumption
  <2>3. Health!RefsStatus # "fail" => \A e \in DOMAIN contexts : ~(Health!Broken(e) /\ contexts[e].here)
    BY DEF Health!RefsStatus
  <2>4. Health!RefsStatus = "ok" => \A e \in DOMAIN contexts : ~Health!Broken(e)
    BY DEF Health!RefsStatus
  <2>5. Health!RefsStatus = "ok" => state[r].refs = "ok"
    BY <2>1, <2>2, <2>4 DEF Health!Broken
  <2>6. Health!RefsStatus # "fail" /\ state[r].here => state[r].refs = "ok"
    BY <2>1, <2>2, <2>3, Zenon DEF Health!Broken
  <2> QED BY <2>5, <2>6
<1>5. RefsTrue'
  BY <1>2, <1>4, Zenon DEF RefsTrue
<1>6. "refs" # "runs" /\ "refs" # "pointer" /\ "refs" # "locks" /\ "refs" # "cleanup"
  OBVIOUS
<1> QED BY <1>1, <1>5, <1>6, FoundElsewhere DEF HealthInv

LEMMA OthersChecked ==
  ASSUME HealthInv,
         Health!CheckContext \/ Health!CheckPointer \/ Health!CheckLocks \/ Health!CheckCleanup
  PROVE  HealthInv'
<1>1. CASE Health!CheckContext
  <2>1. PICK status : Health!Found("context", status) /\ contexts' = contexts
    BY <1>1 DEF Health!CheckContext
  <2> QED BY <2>1, FoundElsewhere DEF HealthInv
<1>2. CASE Health!CheckPointer
  <2>1. Health!Found("pointer", Health!PointerStatus) /\ contexts' = contexts
    BY <1>2 DEF Health!CheckPointer
  <2>2. found'["pointer"] = Health!PointerStatus /\ pointer' = pointer
    BY <2>1, FoundAdds
  <2>3. PointerTrue'
    BY <2>2 DEF PointerTrue, Health!PointerStatus
  <2> QED BY <2>1, <2>3, FoundElsewhere DEF HealthInv
<1>3. CASE Health!CheckLocks
  <2>1. Health!Found("locks", Health!LocksStatus) /\ contexts' = contexts
    BY <1>3 DEF Health!CheckLocks
  <2>2. found'["locks"] = Health!LocksStatus /\ lock' = lock
    BY <2>1, FoundAdds
  <2>3. LocksTrue'
    BY <2>2 DEF LocksTrue, Health!LocksStatus
  <2> QED BY <2>1, <2>3, FoundElsewhere DEF HealthInv
<1>4. CASE Health!CheckCleanup
  <2>1. Health!Found("cleanup", Health!CleanupStatus) /\ contexts' = contexts
    BY <1>4 DEF Health!CheckCleanup
  <2>2. found'["cleanup"] = Health!CleanupStatus /\ "runs" \in DOMAIN found /\ UNCHANGED <<bindings, state, steady>>
    BY <2>1, FoundAdds
  <2>3. ReadSteady /\ bindings \in {"ok", "malformed"}
    BY <2>2 DEF HealthInv
  <2>4. CleanupTrue'
    BY <2>2, <2>3 DEF CleanupTrue, Health!CleanupStatus, ReadSteady
  <2> QED BY <2>1, <2>4, FoundElsewhere DEF HealthInv
<1> QED BY <1>1, <1>2, <1>3, <1>4

LEMMA RuntimeChanges ==
  ASSUME HealthInv,
         \/ \E r \in Runs : Health!RunChanges(r)
         \/ Health!LockChanges \/ Health!BindingsChange \/ Health!PointerChanges
  PROVE  HealthInv'
<1>1. CASE \E r \in Runs : Health!RunChanges(r)
  <2>1. PICK r \in Runs, s \in States :
          /\ state' = [state EXCEPT ![r] = s] /\ steady' = steady \ {r}
          /\ UNCHANGED <<contexts, found, lock, bindings, pointer>>
    BY <1>1 DEF Health!RunChanges, Health!Change
  <2>2. /\ state' \in [Runs -> States]
        /\ \A e \in steady' \cap Runs : e \in steady \cap Runs /\ state'[e] = state[e]
        /\ \A e : e \in steady' => e \in steady
    BY <2>1 DEF HealthInv
  <2>3. ReadSteady => ReadSteady'
    BY <2>1, <2>2 DEF ReadSteady
  <2>4. RunsTrue' /\ RefsTrue'
    BY <2>1, <2>2 DEF HealthInv, RunsTrue, RefsTrue
  <2>5. PointerTrue' /\ LocksTrue' /\ CleanupTrue'
    BY <2>1, <2>2 DEF HealthInv, PointerTrue, LocksTrue, CleanupTrue
  <2> QED BY <2>1, <2>2, <2>3, <2>4, <2>5 DEF HealthInv
<1>2. CASE Health!LockChanges \/ Health!BindingsChange \/ Health!PointerChanges
  <2>1. PICK thing \in {"locks", "bindings", "pointer"} :
          /\ steady' = steady \ {thing} /\ UNCHANGED <<contexts, found, state>>
          /\ thing = "locks" \/ lock' = lock
          /\ thing = "bindings" \/ bindings' = bindings
          /\ thing = "pointer" \/ pointer' = pointer
          /\ bindings' \in {"ok", "malformed"}
    BY <1>2 DEF Health!LockChanges, Health!BindingsChange, Health!PointerChanges, Health!Change, HealthInv
  <2>2. \A e : e \in steady' => e \in steady /\ e # thing
    BY <2>1
  <2>3. (ReadSteady => ReadSteady') /\ RunsTrue' /\ RefsTrue'
    BY <2>1, <2>2 DEF HealthInv, ReadSteady, RunsTrue, RefsTrue
  <2>4. PointerTrue' /\ LocksTrue' /\ CleanupTrue'
    BY <2>1, <2>2 DEF HealthInv, PointerTrue, LocksTrue, CleanupTrue
  <2> QED BY <2>1, <2>3, <2>4 DEF HealthInv
<1> QED BY <1>1, <1>2

LEMMA HealthKept ==
  ASSUME HealthInv, [Health!Next]_(Health!vars)
  PROVE  HealthInv'
<1>1. CASE UNCHANGED Health!vars
  BY <1>1 DEF Health!vars, HealthInv, ReadSteady, RunsTrue, PointerTrue, RefsTrue, LocksTrue, CleanupTrue
<1>2. CASE Health!Next
  BY <1>2, RunsChecked, ContextsRead, RefsChecked, OthersChecked, RuntimeChanges DEF Health!Next
<1> QED BY <1>1, <1>2

LEMMA Healthy ==
  ASSUME HealthInv
  PROVE  Health!CleanIsHealthy
<1>1. ASSUME Health!Done
      PROVE  {"runs", "pointer", "refs", "locks", "cleanup"} \subseteq DOMAIN found
  BY <1>1 DEF Health!Done, Health!Checks
<1>2. ASSUME Health!Clean
      PROVE  /\ \A r \in steady \cap Runs :
                  /\ state[r].is = "active" => ~(state[r].gates \/ state[r].asks \/ state[r].work)
                  /\ state[r].is # "unreadable" => state[r].refs = "ok"
             /\ "locks" \in steady => lock \notin {"stale", "malformed"}
             /\ "pointer" \in steady => pointer = "missing"
             /\ "bindings" \in steady /\ (\E r \in steady \cap Runs : state[r].is # "unreadable") => bindings = "ok"
  <2>1. /\ {"runs", "pointer", "refs", "locks", "cleanup"} \subseteq DOMAIN found
        /\ found["runs"] = "ok" /\ found["pointer"] = "ok" /\ found["refs"] = "ok" /\ found["locks"] = "ok"
        /\ found["cleanup"] = "ok"
    BY <1>1, <1>2 DEF Health!Clean, Health!Checks
  <2>2. \A r \in steady \cap Runs : state[r].is = "active" => ~(state[r].gates \/ state[r].asks \/ state[r].work)
    BY <2>1 DEF HealthInv, RunsTrue
  <2>3. \A r \in steady \cap Runs : state[r].is # "unreadable" => state[r].refs = "ok"
    BY <2>1 DEF HealthInv, RefsTrue
  <2>4. /\ "locks" \in steady => lock \notin {"stale", "malformed"}
        /\ "pointer" \in steady => pointer = "missing"
        /\ "bindings" \in steady /\ (\E r \in steady \cap Runs : state[r].is # "unreadable") => bindings = "ok"
    BY <2>1 DEF HealthInv, LocksTrue, PointerTrue, CleanupTrue
  <2> QED BY <2>2, <2>3, <2>4
<1>3. ASSUME Health!Passes
      PROVE  /\ \A r \in steady \cap Health!Readable : state[r].here => state[r].refs = "ok"
             /\ "locks" \in steady => lock # "malformed"
  <2>1. /\ {"refs", "locks"} \subseteq DOMAIN found /\ found["refs"] # "fail" /\ found["locks"] # "fail"
    BY <1>1, <1>3 DEF Health!Passes, Health!Checks
  <2> QED BY <2>1 DEF HealthInv, RefsTrue, LocksTrue, Health!Readable
<1> QED BY <1>2, <1>3, Zenon DEF Health!CleanIsHealthy

--------------------------------------------------------------------------------
ReportPart ==
  /\ part = "identity" => IdentityInv
  /\ part = "doctor" => HealthInv

LEMMA ReportInit == AllInit => ReportPart
<1>1. AllInit => (part = "identity" => Identity!Init) /\ (part = "doctor" => Health!Init)
  BY DEF AllInit
<1> QED BY <1>1, IdentityInit, HealthInit, Zenon DEF ReportPart

LEMMA ReportStep ==
  ASSUME ReportPart, [AllNext]_AllVars
  PROVE  ReportPart'
<1>1. part' = part
  BY DEF AllNext, AllVars
<1>2. /\ part = "identity" => [Identity!Next]_(Identity!vars)
      /\ part = "doctor" => [Health!Next]_(Health!vars)
  BY DEF AllNext, AllVars, identified, examined, Identity!vars, Health!vars
<1> QED BY <1>1, <1>2, IdentityKept, HealthKept, Zenon DEF ReportPart

\* A verify that nothing overtook says what is so of the checkout and the installation, and a
\* clean doctor or an exit code of 0 of what stayed as it was while it looked
\* (core_install_identity.py:376-484, sejong_doctor.py:124-190).
THEOREM ReportsStayTrue == AllSpec => []ReportsAreTrue
<1>1. ReportPart => ReportsAreTrue
  <2>1. IdentityInv => Identity!CompatibleIsTrue
    BY DEF IdentityInv
  <2> QED BY <2>1, Healthy, Zenon DEF ReportPart, ReportsAreTrue
<1> QED BY <1>1, ReportInit, ReportStep, PTL DEF AllSpec
================================================================================
