------------------------------ MODULE Recovery ------------------------------
(***************************************************************************)
(* Operations that change more than the database: backups, restores,       *)
(* certificate requests, certificate and client-authority installations    *)
(* (management_backup.c, management_certificate.c) and the durable journal *)
(* that makes each of them happen as a whole (management_recovery.c,       *)
(* database_operation.c), over the primitives that store files             *)
(* (certificate.c, management_secrets.c, backup.c) and replace the         *)
(* database (database.c).                                                  *)
(*                                                                         *)
(* Two threads run them: the server thread of the control socket and the   *)
(* job worker; "boot" is the start-up, which recovers before either runs.  *)
(* The journal has one row.  Failures of a step and Crashes of the daemon  *)
(* may happen between any two steps.  A transaction of the database is one *)
(* step, a file is replaced by a rename and so as a whole.                 *)
(***************************************************************************)
EXTENDS Naturals, Sequences

CONSTANTS
  MaxGeneration,  \* bound on operations that bring or remove contents
  Names,          \* file names of archives
  Failures,       \* bound on failing steps
  Crashes,        \* bound on crashes and restarts
  Absent, NoRow   \* no file, archive or checkpoint; no journal row

ASSUME BoundAssumption == {MaxGeneration, Failures, Crashes} \subseteq Nat

Generations == 0 .. MaxGeneration

VARIABLES
  db,          \* committed database: data, journal row, recorded backups
  files,       \* the files beside it
  archives,    \* contents of the backup directory
  snapshots,   \* <path>.recovery of each file
  checkpoint,  \* <database>.recovery
  memoryKey,   \* the TOTP key that the daemon holds in memory
  pc, job,     \* where each thread is, and the operation it runs
  todo,        \* what is left of its current phase
  restoring,   \* consistency.restore_active
  degraded,    \* MANAGEMENT_DEGRADED_EXTERNAL_RECOVERY
  fresh,       \* next unused generation
  previous,    \* history: what the journal row was armed over, until settled
  failures, crashes

diskVars == <<db, files, archives, snapshots, checkpoint>>
threadVars == <<pc, job, todo>>
memoryVars == <<memoryKey, restoring, degraded>>
boundVars == <<fresh, failures, crashes>>
vars == <<diskVars, threadVars, memoryVars, boundVars, previous>>

A == INSTANCE AtomicAppliance WITH
       data <- 0, catalogue <- [n \in Names |-> Absent]

Files == A!Files
Threads == {"boot", "worker", "server"}
Others(t) == Threads \ {t}
BackupKinds == {"backup_create", "backup_import", "restore_checkpoint"}
Kinds ==
  BackupKinds \cup {"certificate_csr", "certificate_install",
                    "mtls_authorities", "backup_restore"}

(* A journal row, and the database that holds it.  The values that stand for
   their absence are none of them. *)
Rows ==
  [kind : Kinds, ready : BOOLEAN, tracked : SUBSET Files, existing : SUBSET Files]
Databases ==
  [data : Generations, row : Rows \cup {NoRow}, backups : SUBSET Names]

(* What a journal row is armed over. *)
Saved == [data : Generations, files : [Files -> Generations \cup {Absent}]]

ASSUME AbsenceAssumption ==
  /\ Absent \notin Generations \cup A!Contents \cup Databases \cup Saved
  /\ NoRow \notin Rows

NoSnapshots == [f \in Files |-> Absent]

Range(s) == {s[i] : i \in DOMAIN s}

If(condition, element) == IF condition THEN <<element>> ELSE <<>>

(* The files of a set in the order in which the code goes through them. *)
InOrder(set) ==
  If("certificate" \in set, "certificate") \o If("pending" \in set, "pending")
    \o If("clientCa" \in set, "clientCa") \o If("totpKey" \in set, "totpKey")

Effect(target, value) == [target |-> target, value |-> value]

(* The changes that operations make, each validated before the rename. *)
CertificateStored(g) == Effect("certificate", g)
PendingStored(g) == Effect("pending", g)
PendingRemoved == Effect("pending", Absent)
AuthoritiesStored(g) == Effect("clientCa", g)
AuthoritiesRemoved == Effect("clientCa", Absent)
ArchiveStored(contents) == Effect("archive", contents)
DatabaseReplaced(g) == Effect("database", g)
KeyStored(g) == Effect("totpKey", g)

NoJob ==
  [kind |-> "none", tracked |-> {}, existing |-> {}, effects |-> <<>>,
   name |-> Absent, next |-> Absent]

(* Which of the tracked files have a previous generation to come back to. *)
Present(tracked) == {f \in tracked : files[f] # Absent}

Operation(kind, tracked, effects, name, next) ==
  [kind |-> kind, tracked |-> tracked,
   existing |-> Present(tracked),
   effects |-> effects, name |-> name, next |-> next]

(* An appliance with an identity and a TOTP key and nothing else. *)
Init ==
  /\ db = [data |-> 0, row |-> NoRow, backups |-> {}]
  /\ files = [f \in Files |->
                IF f \in {"certificate", "totpKey"} THEN 0 ELSE Absent]
  /\ archives = [n \in Names |-> Absent]
  /\ snapshots = NoSnapshots
  /\ checkpoint = Absent
  /\ memoryKey = 0
  /\ pc = [t \in Threads |-> "idle"]
  /\ job = [t \in Threads |-> NoJob]
  /\ todo = [t \in Threads |-> <<>>]
  /\ restoring = FALSE /\ degraded = FALSE
  /\ fresh = 1 /\ failures = Failures /\ crashes = Crashes
  /\ previous = Absent

Goto(t, label) == pc' = [pc EXCEPT ![t] = label]

(* The thread is done with its operation, in success or not; an applied
   restore leaves the consistency gate. *)
End(t) ==
  /\ Goto(t, "idle")
  /\ job' = [job EXCEPT ![t] = NoJob]
  /\ todo' = [todo EXCEPT ![t] = <<>>]
  /\ restoring' = (restoring /\ t # "worker")

-----------------------------------------------------------------------------
(* Requests *)

(* Writes are refused while management is degraded or a restore has the
   gate. *)
MayStart(t) ==
  /\ pc["boot"] = "idle" /\ pc[t] = "idle"
  /\ ~restoring /\ ~degraded

(* Which files exist is looked up here, before the journal row is reserved:
   the other thread may be working on the same files. *)
Start(t, operation) ==
  /\ MayStart(t)
  /\ Goto(t, "prepare")
  /\ job' = [job EXCEPT ![t] = operation]
  /\ UNCHANGED <<diskVars, todo, memoryVars, failures, crashes, previous>>

NewGeneration == fresh <= MaxGeneration /\ fresh' = fresh + 1

UnusedName(n) ==
  /\ archives[n] = Absent /\ n \notin db.backups
  /\ \A t \in Threads : job[t].name # n

(* The archive of the current state: a configuration backup carries the
   certificate without its key, a full one the TOTP key and the client
   authorities too, and the private key when asked. *)
ArchiveOf(full, withKey) ==
  [data |-> db.data, certificate |-> files.certificate,
   withKey |-> full /\ withKey, portable |-> full,
   totpKey |-> IF full THEN memoryKey ELSE Absent,
   clientCa |-> IF full THEN files.clientCa ELSE Absent, supported |-> TRUE]

(* record_backup_archive: store under a generated name. *)
RecordArchive(kind, n, contents, next) ==
  Operation(kind, {}, <<ArchiveStored(contents)>>, n, next)

BackupCreate ==
  \E n \in Names, full, withKey \in BOOLEAN :
    /\ withKey => full
    /\ UnusedName(n)
    /\ Start("worker", RecordArchive("backup_create", n,
                                     ArchiveOf(full, withKey), Absent))
    /\ UNCHANGED fresh

(* An archive made elsewhere: contents of its own, maybe of a schema that
   this version does not restore, when nothing else of it matters. *)
BackupImport ==
  \E n \in Names, portable, supported \in BOOLEAN,
     certificate, clientCa \in {fresh, Absent} :
    /\ NewGeneration
    /\ UnusedName(n)
    /\ supported \/ (~portable /\ certificate = Absent)
    /\ Start("server",
             RecordArchive("backup_import", n,
               [data |-> fresh, certificate |-> certificate,
                withKey |-> portable, portable |-> portable,
                totpKey |-> IF portable THEN fresh ELSE Absent,
                clientCa |-> IF portable THEN clientCa ELSE Absent,
                supported |-> supported], Absent))

CertificateCsr ==
  /\ NewGeneration
  /\ Start("worker", Operation("certificate_csr", {"pending"},
                               <<PendingStored(fresh)>>, Absent, Absent))

(* Without a private key in the request the pending one is needed; the
   pending key goes once its certificate is installed. *)
CertificateInstall ==
  \E ownKey \in BOOLEAN :
    /\ NewGeneration
    /\ ownKey \/ files.pending # Absent
    /\ Start("server",
             Operation("certificate_install", {"certificate", "pending"},
               <<CertificateStored(fresh), PendingRemoved>>,
               Absent, Absent))

AuthoritiesInstall ==
  /\ NewGeneration
  /\ Start("server", Operation("mtls_authorities", {"clientCa"},
                               <<AuthoritiesStored(fresh)>>, Absent, Absent))

AuthoritiesRemove ==
  /\ NewGeneration
  /\ Start("server", Operation("mtls_authorities", {"clientCa"},
                               <<AuthoritiesRemoved>>, Absent, Absent))

(* Any other audited mutation: one transaction of the database. *)
OrdinaryWrite ==
  /\ MayStart("server")
  /\ NewGeneration
  /\ db' = [db EXCEPT !.data = fresh]
  /\ UNCHANGED <<files, archives, snapshots, checkpoint, threadVars,
                 memoryVars, failures, crashes, previous>>

(* A recorded backup whose archive is there and matches its record. *)
LoadBackup(n) == n \in db.backups /\ archives[n] # Absent

(* An applied restore closes the gate and waits for the other writers. *)
RestoreEnter ==
  \E n \in Names :
    /\ MayStart("worker")
    /\ LoadBackup(n)
    /\ Goto("worker", "gate")
    /\ job' = [job EXCEPT !["worker"] = [NoJob EXCEPT !.next = archives[n]]]
    /\ restoring' = TRUE
    /\ UNCHANGED <<diskVars, todo, memoryKey, degraded, boundVars, previous>>

(* The dry run.  The image must be of the present schema and the certificate
   must match its own private key or the installed one. *)
ImageValid(c) == c.supported
CertificateValid(c, keyMatches) ==
  c.certificate = Absent \/ c.withKey \/ keyMatches

RestoreValid(c, keyMatches) == ImageValid(c) /\ CertificateValid(c, keyMatches)

(* What would change; the TOTP key is compared with the one in memory. *)
CertificateChanges(c) ==
  c.certificate # Absent /\ c.certificate # files.certificate
KeyChanges(c) == c.portable /\ c.totpKey # memoryKey
AuthoritiesChange(c) == c.portable /\ c.clientCa # files.clientCa
DatabaseChanges(c) == c.data # db.data

RestoreChanges(c) ==
  \/ DatabaseChanges(c)
  \/ CertificateChanges(c) \/ KeyChanges(c) \/ AuthoritiesChange(c)

(* The files that change, in the order of the job. *)
RestoreFileEffects(c) ==
  If(CertificateChanges(c), CertificateStored(c.certificate))
    \o If(KeyChanges(c), KeyStored(c.totpKey))
    \o If(AuthoritiesChange(c),
          IF c.clientCa = Absent THEN AuthoritiesRemoved
                                 ELSE AuthoritiesStored(c.clientCa))

(* Database first, then the files. *)
RestoreEffects(c) == <<DatabaseReplaced(c.data)>> \o RestoreFileEffects(c)

RestoreOperation(c) ==
  Operation("backup_restore",
            {e.target : e \in Range(RestoreFileEffects(c))},
            RestoreEffects(c), Absent, Absent)

(* With the gate closed and no writer left: nothing to do, refused, or the
   automatic backup of the present state before anything changes. *)
RestoreProceed ==
  LET c == job["worker"].next IN
  /\ pc["worker"] = "gate" /\ pc["server"] = "idle"
  /\ \/ /\ \/ ~RestoreValid(c, FALSE)
           \/ ~RestoreChanges(c)
           \/ \A n \in Names : ~UnusedName(n)
        /\ End("worker")
     \/ \E n \in Names, keyMatches \in BOOLEAN :
          /\ RestoreValid(c, keyMatches) /\ RestoreChanges(c)
          /\ UnusedName(n)
          /\ Goto("worker", "prepare")
          /\ job' = [job EXCEPT !["worker"] =
                       RecordArchive("restore_checkpoint", n,
                                     ArchiveOf(c.portable, c.portable), c)]
          /\ UNCHANGED <<todo, restoring>>
  /\ UNCHANGED <<diskVars, memoryKey, degraded, boundVars, previous>>

-----------------------------------------------------------------------------
(* The journal: start_recovery_operation *)

Row(j) ==
  [kind |-> j.kind, ready |-> FALSE, tracked |-> j.tracked,
   existing |-> j.existing]
RowPrepared(j) == [db EXCEPT !.row = Row(j)]
RowReady == [db EXCEPT !.row.ready = TRUE]
RowCleared == [db EXCEPT !.row = NoRow]

(* An INSERT that finds the row taken answers -EBUSY.  The other thread may
   still be about to remove the snapshots of a row that it has cleared. *)
Prepare(t) ==
  /\ pc[t] = "prepare"
  /\ \/ /\ db.row # NoRow
        /\ End(t)
        /\ UNCHANGED db
     \/ /\ db.row = NoRow
        /\ db' = RowPrepared(job[t])
        /\ Goto(t, "snapshot")
        /\ todo' = [todo EXCEPT ![t] =
                      InOrder(job[t].existing) \o
                      (IF job[t].kind = "backup_restore"
                         THEN <<"database">> ELSE <<>>)]
        /\ UNCHANGED <<job, restoring>>
  /\ UNCHANGED <<files, archives, snapshots, checkpoint, memoryKey, degraded,
                 boundVars, previous>>

Pop(t) == todo' = [todo EXCEPT ![t] = Tail(@)]

Copied(f) == [snapshots EXCEPT ![f] = files[f]]

(* create_recovery_snapshots: the next selected file, or the database with
   its row still unarmed.  A file that has gone since it was looked up cannot
   be copied. *)
Snapshot(t) ==
  LET f == Head(todo[t]) IN
  /\ pc[t] = "snapshot" /\ todo[t] # <<>>
  /\ CASE f = "database" ->
            checkpoint' = db /\ Pop(t) /\ UNCHANGED <<snapshots, pc>>
       [] f \in Files /\ files[f] # Absent ->
            /\ snapshots' = Copied(f)
            /\ Pop(t)
            /\ UNCHANGED <<checkpoint, pc>>
       [] OTHER -> Goto(t, "unwind") /\ UNCHANGED <<snapshots, checkpoint, todo>>
  /\ UNCHANGED <<db, files, archives, job, memoryVars, boundVars, previous>>

(* jg_database_operation_mark_ready, once every snapshot is stored. *)
MarkReady(t) ==
  /\ pc[t] = "snapshot" /\ todo[t] = <<>>
  /\ db' = RowReady
  /\ previous' = [data |-> db.data, files |-> files]
  /\ Goto(t, "apply")
  /\ todo' = [todo EXCEPT ![t] = job[t].effects]
  /\ UNCHANGED <<files, archives, snapshots, checkpoint, job, memoryVars,
                 boundVars>>

RemoveSnapshots == snapshots' = NoSnapshots /\ checkpoint' = Absent

(* An operation that could not be armed drops its snapshots and its row. *)
Unwind(t) ==
  /\ pc[t] = "unwind"
  /\ RemoveSnapshots
  /\ db' = RowCleared
  /\ End(t)
  /\ UNCHANGED <<files, archives, memoryKey, degraded, boundVars, previous>>

-----------------------------------------------------------------------------
(* The operation itself *)

(* Mutant: the journal row is kept as it was when it was reserved, unarmed. *)
ReplaceDatabaseUnarmed(data) == [db EXCEPT !.data = data, !.row.ready = FALSE]

(* A full replacement keeps the journal row and the recorded backups. *)
ReplaceDatabase(data) == [db EXCEPT !.data = data]

(* Mutant: the key in memory is not replaced with its file. *)
StoreFileOnly(f, value) ==
  /\ files' = [files EXCEPT ![f] = value]
  /\ UNCHANGED memoryKey

StoreFile(f, value) ==
  /\ files' = [files EXCEPT ![f] = value]
  /\ memoryKey' = IF f = "totpKey" THEN value ELSE memoryKey

(* The next effect: a new archive under its final name, the database image,
   or one file replaced or removed. *)
Apply(t) ==
  /\ pc[t] = "apply" /\ todo[t] # <<>>
  /\ LET e == Head(todo[t]) IN
       CASE e.target = "archive" ->
              /\ archives' = [archives EXCEPT ![job[t].name] = e.value]
              /\ UNCHANGED <<db, files, memoryKey>>
         [] e.target = "database" ->
              /\ db' = ReplaceDatabase(e.value)
              /\ UNCHANGED <<files, archives, memoryKey>>
         [] OTHER ->
              /\ StoreFile(e.target, e.value)
              /\ UNCHANGED <<db, archives>>
  /\ Pop(t)
  /\ UNCHANGED <<snapshots, checkpoint, pc, job, restoring, degraded,
                 boundVars, previous>>

(* A CSR whose key store answers -EINVAL or -EBUSY and an installation whose
   store answers -ENOENT return like requests that never reserved the row:
   nothing has changed, and the armed row stays behind. *)
Abandon(t) ==
  /\ failures > 0 /\ failures' = failures - 1
  /\ pc[t] = "apply" /\ job[t].kind \in {"certificate_csr", "certificate_install"}
  /\ todo[t] = job[t].effects
  /\ End(t)
  /\ UNCHANGED <<diskVars, memoryKey, degraded, fresh, crashes, previous>>

BackupRecorded(n) == [RowCleared EXCEPT !.backups = @ \cup {n}]

(* One transaction records the backup, appends the audit event and clears
   the row.  Only record_backup_archive leaves no snapshots to remove; after
   the automatic backup the restore goes on with a journal row of its own. *)
Commit(t) ==
  /\ pc[t] = "apply" /\ todo[t] = <<>>
  /\ db' = IF job[t].kind \in BackupKinds
             THEN BackupRecorded(job[t].name) ELSE RowCleared
  /\ previous' = Absent
  /\ CASE job[t].kind = "restore_checkpoint" ->
            /\ Goto(t, "prepare")
            /\ job' = [job EXCEPT ![t] = RestoreOperation(job[t].next)]
            /\ UNCHANGED <<todo, restoring>>
       [] job[t].kind \in BackupKinds \ {"restore_checkpoint"} -> End(t)
       [] OTHER -> Goto(t, "cleanup") /\ UNCHANGED <<job, todo, restoring>>
  /\ UNCHANGED <<files, archives, snapshots, checkpoint, memoryKey, degraded,
                 boundVars>>

(* cleanup_recovery_snapshots after a commit removes every reserved path. *)
Cleanup(t) ==
  /\ pc[t] = "cleanup"
  /\ RemoveSnapshots
  /\ End(t)
  /\ UNCHANGED <<db, files, archives, memoryKey, degraded, boundVars, previous>>

-----------------------------------------------------------------------------
(* recover_pending_operation: at start-up and after a failed operation *)

RecordedArchives ==
  [n \in Names |-> IF n \in db.backups THEN archives[n] ELSE Absent]

(* The row as it is loaded. *)
LoadedOperation ==
  [NoJob EXCEPT !.kind = db.row.kind, !.tracked = db.row.tracked,
                !.existing = db.row.existing]

(* Archives without a recorded backup go first, which is all that a backup
   needs; an unarmed row has changed nothing. *)
Reconcile(t) ==
  /\ pc[t] = "reconcile"
  /\ archives' = RecordedArchives
  /\ IF db.row = NoRow
       THEN Goto(t, "sweep") /\ UNCHANGED <<job, todo>>
       ELSE /\ job' = [job EXCEPT ![t] = LoadedOperation]
            /\ todo' = [todo EXCEPT ![t] = InOrder(db.row.tracked)]
            /\ Goto(t, IF ~db.row.ready \/ db.row.kind \in BackupKinds
                         THEN "settle"
                         ELSE IF db.row.kind = "backup_restore"
                                THEN "checkpoint" ELSE "files")
  /\ UNCHANGED <<db, files, snapshots, checkpoint, memoryVars, boundVars,
                 previous>>

(* A recovery that cannot go on leaves the service degraded. *)
Unrecoverable(t) ==
  /\ degraded' = TRUE
  /\ End(t)

(* The checkpoint was copied before its row was armed. *)
RestoreCheckpoint(t) ==
  /\ pc[t] = "checkpoint"
  /\ IF checkpoint = Absent
       THEN Unrecoverable(t) /\ UNCHANGED db
       ELSE /\ db' = checkpoint
            /\ Goto(t, "rearm")
            /\ UNCHANGED <<job, todo, restoring, degraded>>
  /\ UNCHANGED <<files, archives, snapshots, checkpoint, memoryKey, boundVars,
                 previous>>

Rearm(t) ==
  /\ pc[t] = "rearm"
  /\ db' = RowReady
  /\ Goto(t, "files")
  /\ UNCHANGED <<files, archives, snapshots, checkpoint, job, todo,
                 memoryVars, boundVars, previous>>

(* restore_recovery_files: a file that existed comes back from its snapshot,
   one that did not is removed. *)
RestoreFile(t) ==
  LET f == Head(todo[t]) IN
  /\ pc[t] = "files" /\ todo[t] # <<>>
  /\ IF f \in job[t].existing /\ snapshots[f] = Absent
       THEN Unrecoverable(t) /\ UNCHANGED <<files, memoryKey>>
       ELSE /\ StoreFile(f, IF f \in job[t].existing THEN snapshots[f]
                                                     ELSE Absent)
            /\ Pop(t)
            /\ UNCHANGED <<pc, job, restoring, degraded>>
  /\ UNCHANGED <<db, archives, snapshots, checkpoint, boundVars, previous>>

(* Mutant: the row is not cleared and the recovery starts over. *)
SettleAgain(t) ==
  /\ \/ pc[t] = "settle"
     \/ pc[t] = "files" /\ todo[t] = <<>>
  /\ Goto(t, "reconcile")
  /\ UNCHANGED <<diskVars, job, todo, memoryVars, boundVars, previous>>

(* finish_recovered_operation: audit event and row in one transaction. *)
Settle(t) ==
  /\ \/ pc[t] = "settle"
     \/ pc[t] = "files" /\ todo[t] = <<>>
  /\ db' = RowCleared
  /\ previous' = Absent
  /\ Goto(t, "sweep")
  /\ UNCHANGED <<files, archives, snapshots, checkpoint, job, todo,
                 memoryVars, boundVars>>

Sweep(t) ==
  /\ pc[t] = "sweep"
  /\ RemoveSnapshots
  /\ End(t)
  /\ UNCHANGED <<db, files, archives, memoryKey, degraded, boundVars, previous>>

Recovering == {"reconcile", "checkpoint", "rearm", "files", "settle", "sweep"}

-----------------------------------------------------------------------------
(* Failures *)

(* What a failing step leads to.  Before the row exists: a refusal.  Before
   it is armed: unwinding.  After: recovery.  A clean-up that fails leaves
   some of the files: only a warning after a commit and after an unwinding,
   which clears the row all the same unless that fails too, but a degraded
   service in a recovery. *)
LeaveSome ==
  /\ \E left \in SUBSET Files :
       snapshots' = [f \in Files |->
                      IF f \in left THEN snapshots[f] ELSE Absent]
  /\ checkpoint' \in {checkpoint, Absent}

Fail(t) ==
  /\ failures > 0 /\ failures' = failures - 1
  /\ \/ /\ pc[t] = "prepare"
        /\ End(t)
        /\ UNCHANGED <<db, snapshots, checkpoint, degraded>>
     \/ /\ pc[t] = "snapshot"
        /\ Goto(t, "unwind")
        /\ UNCHANGED <<db, snapshots, checkpoint, degraded, job, todo, restoring>>
     \/ /\ pc[t] \in {"unwind", "cleanup"}
        /\ LeaveSome
        /\ db' \in IF pc[t] = "unwind" THEN {db, RowCleared} ELSE {db}
        /\ End(t)
        /\ UNCHANGED degraded
     \/ /\ pc[t] = "apply"
        /\ Goto(t, "reconcile")
        /\ UNCHANGED <<db, snapshots, checkpoint, degraded, job, todo, restoring>>
     \/ /\ pc[t] \in Recovering
        /\ IF pc[t] = "sweep" THEN LeaveSome
                              ELSE UNCHANGED <<snapshots, checkpoint>>
        /\ Unrecoverable(t)
        /\ UNCHANGED db
  /\ UNCHANGED <<files, archives, memoryKey, fresh, crashes, previous>>

(* The daemon is killed and starts again: it reads its TOTP key and recovers
   before the control socket and the job worker start. *)
Crash ==
  /\ crashes > 0 /\ crashes' = crashes - 1
  /\ pc' = [t \in Threads |-> IF t = "boot" THEN "reconcile" ELSE "idle"]
  /\ job' = [t \in Threads |-> NoJob]
  /\ todo' = [t \in Threads |-> <<>>]
  /\ memoryKey' = files.totpKey
  /\ restoring' = FALSE /\ degraded' = FALSE
  /\ UNCHANGED <<diskVars, fresh, failures, previous>>

Request ==
  \/ BackupCreate \/ BackupImport \/ CertificateCsr \/ CertificateInstall
  \/ AuthoritiesInstall \/ AuthoritiesRemove \/ OrdinaryWrite \/ RestoreEnter

Step(t) ==
  \/ Prepare(t) \/ Snapshot(t) \/ MarkReady(t)
  \/ Unwind(t) \/ Apply(t) \/ Commit(t) \/ Cleanup(t) \/ Reconcile(t) \/ RestoreCheckpoint(t)
  \/ Rearm(t) \/ RestoreFile(t) \/ Settle(t) \/ Sweep(t)

Next ==
  \/ Request
  \/ RestoreProceed
  \/ \E t \in Threads : Step(t) \/ Abandon(t) \/ Fail(t)
  \/ Crash

(* Each thread goes on with its operation. *)
Fairness ==
  /\ WF_vars(RestoreProceed)
  /\ \A t \in Threads : WF_vars(Step(t))

Spec == Init /\ [][Next]_vars /\ Fairness

-----------------------------------------------------------------------------
(* Properties *)

(* What comes back if the operation under way does not commit: for what an
   armed row covers, the state that it was armed over; else the present one.
   MarkReady arms a row, and its operation or its recovery settles it. *)
Armed == previous # Absent

DurableData ==
  IF Armed /\ db.row.kind = "backup_restore" THEN previous.data ELSE db.data

DurableFiles ==
  [f \in Files |-> IF Armed /\ f \in db.row.tracked THEN previous.files[f]
                                                    ELSE files[f]]

DurableCatalogue == RecordedArchives

Durable ==
  INSTANCE AtomicAppliance WITH
    data <- DurableData, files <- DurableFiles, catalogue <- DurableCatalogue

(* The two ways in which a recovery ends without the previous state.  A pending
   key that appeared between its lookup and the reservation of the row, stored
   or put back by the other thread (management_certificate.c:683), is taken
   for a new one and removed. *)
Missed ==
  /\ "pending" \in db.row.tracked \ db.row.existing
  /\ previous.files.pending # Absent

(* And a recovery of a restore that stopped between the replacement of the
   database and mark_ready (management_recovery.c:618-622) finds a row that
   was never armed: the files stay as they are, with the previous data. *)
Unarmed == db.row.kind = "backup_restore" /\ ~db.row.ready

Lapse ==
  /\ Armed
  /\ \E t \in Threads : Settle(t)
  /\ DurableData' = DurableData
  /\ \/ Unarmed
     \/ Missed /\ DurableFiles' = [DurableFiles EXCEPT !.pending = Absent]

Committed == OrdinaryWrite \/ \E t \in Threads : Commit(t)

(* Whatever fails or crashes, and whichever thread is where: what is durable
   changes only by whole operations, each at the step that commits it, except
   by the two lapses above.  A half-restored backup, a certificate without its
   key, a recorded backup without its archive do not survive
   recover_pending_operation. *)
ImplementsAtomicAppliance ==
  Durable!Init /\ [][(Durable!Next /\ Committed) \/ Lapse]_(Durable!vars)

(* A daemon at rest that reports no degradation has nothing half applied, also
   under an armed row that an early return left behind; it keeps exactly the
   recorded archives and serves the TOTP key of its file. *)
Idle == \A t \in Threads : pc[t] = "idle"

HealthyAtRest ==
  Idle /\ ~degraded =>
    /\ files = DurableFiles /\ db.data = DurableData
    /\ \A n \in Names : archives[n] # Absent <=> n \in db.backups
    /\ memoryKey = files.totpKey

(* An armed operation ends: its row is committed or recovered, or management
   is degraded until the next restart, or the early return left the row with
   nothing changed. *)
Left ==
  /\ \A t \in Threads : pc[t] \notin {"apply"} \cup Recovering
  /\ files = DurableFiles /\ db.data = DurableData

ArmedSettles == Armed ~> (~Armed \/ degraded \/ Left)
=============================================================================
