-------------------------- MODULE PolicyStatistics --------------------------
(***************************************************************************)
(* The policy-statistics collector (src/src/daemon/                        *)
(* policy_stats_collector.c) between the packet workers that submit        *)
(* samples, its database-writer thread, the policy reloads of the control  *)
(* thread (daemon_runtime.c) and an applied restore on the job thread      *)
(* (management_backup.c behind the gate of management_consistency.c).      *)
(*                                                                         *)
(* A critical section of collector->mutex is one step.  A sample is the    *)
(* generation and the database of the snapshot it was evaluated with;      *)
(* databases are numbered, and a restore replaces the database by the next *)
(* one.  SQLite may refuse any write or read (busy, full, I/O).            *)
(***************************************************************************)
EXTENDS Naturals, Sequences, FiniteSets

CONSTANTS
  Workers,         \* packet workers
  Capacity,        \* collector->capacity
  BatchCapacity,   \* collector->batch_capacity
  MaxGeneration,   \* bound on policy_generation
  MaxDatabase,     \* bound on the databases that restores bring in
  MaxEvents,       \* bound on the samples the workers produce
  ControlOps,      \* what the control thread does: see Operations
  RefreshMayFail   \* whether refresh_storage_stats may fail in a resume

Operations == {"ipc", "mutation", "configure"}

ASSUME QueueAssumption == Capacity \in Nat \ {0} /\ BatchCapacity \in Nat \ {0}
ASSUME BoundAssumption ==
  MaxGeneration \in Nat \ {0} /\ MaxDatabase \in Nat \ {0} /\ MaxEvents \in Nat
ASSUME ChoiceAssumption ==
  /\ ControlOps \subseteq Operations
  /\ RefreshMayFail \in BOOLEAN

Threads == {"control", "job"}
Snapshots == [gen : 1 .. MaxGeneration, db : 1 .. MaxDatabase]
None == [gen |-> 0, db |-> 0]

VARIABLES
  published,    \* the snapshot in the policy store
  generation,   \* runtime->policy_generation
  database,     \* the committed contents of the SQLite file
  policyMutex,  \* owner of runtime->policy_mutex, or "none"
  pending,      \* per worker, the sample it is about to submit
  queue, batch, \* collector->queue and ->batch
  cgen,         \* collector->generation
  paused, restorePause, stopping, active,  \* collector flags; active is writer_active
  wpc, exiting, \* the writer thread and its local copy of stopping
  stats,        \* the counters of atomic_collector_stats, and two ghosts
  rpc,          \* per thread, where its reload is
  loaded,       \* per thread, the database its replacement was loaded from
  resumer,      \* per thread, resume_collector
  reloadOk,     \* per thread, whether its last reload published
  op,           \* what the control thread does
  jpc,          \* where the job thread is in an applied restore
  jgen,         \* the generation that restore_end read
  before,       \* the database that the restore's recovery snapshot holds
  recovered,    \* ghost: every restore so far succeeded or was undone
  restoreActive \* consistency->restore_active

workerVars == <<pending>>
queueVars == <<queue, batch, active, wpc, exiting>>
flagVars == <<cgen, paused, restorePause, stopping>>
runtimeVars == <<published, generation, policyMutex, rpc, loaded, resumer, reloadOk>>
jobVars == <<database, jpc, jgen, before, recovered, restoreActive>>
vars == <<workerVars, queueVars, flagVars, runtimeVars, jobVars, stats, op>>

Init ==
  /\ published = [gen |-> 1, db |-> 1]
  /\ generation = 1
  /\ database = 1
  /\ policyMutex = "none"
  /\ pending = [k \in Workers |-> None]
  /\ queue = <<>> /\ batch = <<>>
  /\ cgen = 1
  /\ paused = FALSE /\ restorePause = FALSE
  /\ stopping = FALSE /\ active = FALSE
  /\ wpc = "wait" /\ exiting = FALSE
  /\ stats = [submitted |-> 0, dropped |-> 0, restoreDropped |-> 0,
              staleDropped |-> 0, recorded |-> 0, lost |-> 0, refused |-> 0]
  /\ rpc = [t \in Threads |-> "none"]
  /\ loaded = [t \in Threads |-> 0]
  /\ resumer = [t \in Threads |-> FALSE]
  /\ reloadOk = [t \in Threads |-> TRUE]
  /\ op = "idle"
  /\ jpc = "idle" /\ jgen = 0 /\ before = 1 /\ recovered = TRUE
  /\ restoreActive = FALSE

-----------------------------------------------------------------------------
(* Packet workers: jg_dataplane evaluates, then submits. *)

Evaluate(k) ==
  /\ ~stopping
  /\ pending[k] = None
  /\ stats.submitted + stats.refused
       + Cardinality({j \in Workers : pending[j] # None}) < MaxEvents
  /\ pending' = [pending EXCEPT ![k] = published]
  /\ UNCHANGED <<queueVars, flagVars, runtimeVars, jobVars, stats, op>>

(* The counters after n was added to some of them. *)
Counted(counters, n) ==
  [c \in DOMAIN stats |-> IF c \in counters THEN stats[c] + n ELSE stats[c]]

(* Which counter tells why a pause, or a collector that is paused, drops. *)
DropCounter(restore) == IF restore THEN "restoreDropped" ELSE "staleDropped"

(* How a refused sample is counted. *)
Refused(reason) == Counted({"dropped", "refused"} \cup reason, 1)

(* pthread_mutex_trylock found the mutex busy, which it may be whenever    *)
(* another thread is inside the collector.                                 *)
SubmitBusy(k) ==
  /\ pending[k] # None
  /\ stats' = Refused({})
  /\ pending' = [pending EXCEPT ![k] = None]
  /\ UNCHANGED <<queueVars, flagVars, runtimeVars, jobVars, op>>

SubmitRefused(k) ==
  /\ pending[k] # None
  /\ \/ paused /\ stats' = Refused({DropCounter(restorePause)})
     \/ ~paused /\ pending[k].gen # cgen /\ stats' = Refused({"staleDropped"})
     \/ ~paused /\ pending[k].gen = cgen /\ Len(queue) = Capacity
          /\ stats' = Refused({})
  /\ pending' = [pending EXCEPT ![k] = None]
  /\ UNCHANGED <<queueVars, flagVars, runtimeVars, jobVars, op>>

SubmitAccepted(k) ==
  /\ pending[k] # None
  /\ ~paused /\ pending[k].gen = cgen /\ Len(queue) < Capacity
  /\ queue' = Append(queue, pending[k])
  /\ stats' = Counted({"submitted"}, 1)
  /\ pending' = [pending EXCEPT ![k] = None]
  /\ UNCHANGED <<batch, active, wpc, exiting, flagVars, runtimeVars, jobVars, op>>

-----------------------------------------------------------------------------
(* The writer thread: collector_main *)

(* wait_for_work returns with work, a stop request or a cleanup due, and   *)
(* drain_batch takes a prefix of the queue.                                *)
WriterDrain ==
  /\ wpc = "wait"
  /\ \E cleanup \in BOOLEAN :
       /\ stopping \/ (~paused /\ (queue # <<>> \/ cleanup))
       /\ LET n == IF paused THEN 0
                   ELSE IF Len(queue) < BatchCapacity THEN Len(queue)
                        ELSE BatchCapacity
          IN /\ batch' = SubSeq(queue, 1, n)
             /\ queue' = SubSeq(queue, n + 1, Len(queue))
             /\ active' = (n # 0 \/ (~paused /\ cleanup))
  /\ exiting' = stopping
  /\ wpc' = "write"
  /\ UNCHANGED <<workerVars, flagVars, runtimeVars, jobVars, stats, op>>

(* write_batch in one SQLite transaction, and run_cleanup, outside the     *)
(* mutex.                                                                  *)
WriterWrite ==
  /\ wpc = "write"
  /\ \/ stats' = Counted({"recorded"}, Len(batch))
     \/ batch # <<>> /\ stats' = Counted({"lost"}, Len(batch))
  /\ wpc' = "finish"
  /\ UNCHANGED <<workerVars, queue, batch, active, exiting, flagVars,
                 runtimeVars, jobVars, op>>

(* Mutant: writer_active is not reset. *)
WriterFinishActive ==
  /\ wpc = "finish"
  /\ batch' = <<>>
  /\ wpc' = IF exiting /\ batch = <<>> THEN "exited" ELSE "wait"
  /\ UNCHANGED <<workerVars, queue, active, exiting, flagVars, runtimeVars,
                 jobVars, stats, op>>

WriterFinish ==
  /\ wpc = "finish"
  /\ active' = FALSE
  /\ batch' = <<>>
  /\ wpc' = IF exiting /\ batch = <<>> THEN "exited" ELSE "wait"
  /\ UNCHANGED <<workerVars, queue, exiting, flagVars, runtimeVars, jobVars, stats, op>>

(* jg_daemon_runtime_destroy: the workers, the control thread and the job  *)
(* thread have been joined before the collector is asked to stop.          *)
RequestStop ==
  /\ ~stopping
  /\ op = "idle" /\ jpc = "idle"
  /\ \A k \in Workers : pending[k] = None
  /\ stopping' = TRUE
  /\ UNCHANGED <<workerVars, queueVars, cgen, paused, restorePause,
                 runtimeVars, jobVars, stats, op>>

-----------------------------------------------------------------------------
(* Mutant: the discarded samples are not counted. *)
PauseBeginUncounted(restore) ==
  /\ paused' = TRUE
  /\ restorePause' = restore
  /\ queue' = <<>>
  /\ UNCHANGED <<batch, active, wpc, exiting, cgen, stopping, stats>>

(* The first half of jg_policy_stats_collector_pause, up to its wait for    *)
(* writer_active.                                                           *)
PauseBegin(restore) ==
  /\ paused' = TRUE
  /\ restorePause' = restore
  /\ queue' = <<>>
  /\ stats' = Counted({"dropped", DropCounter(restore)}, Len(queue))
  /\ UNCHANGED <<batch, active, wpc, exiting, cgen, stopping>>

(* jg_policy_stats_collector_resume; a failed refresh leaves it paused. *)
Resume(gen) ==
  \/ /\ paused
     /\ cgen' = gen
     /\ paused' = FALSE /\ restorePause' = FALSE
     /\ UNCHANGED stopping
  \/ /\ ~paused \/ RefreshMayFail
     /\ UNCHANGED flagVars

-----------------------------------------------------------------------------
(* jg_daemon_runtime_reload_policy_from_database by either thread, and     *)
(* jg_daemon_runtime_reload_configuration, which does not pause.           *)

Go(t, where) == rpc' = [rpc EXCEPT ![t] = where]

ReloadLock(t) ==
  /\ rpc[t] = "lock"
  /\ policyMutex = "none"
  /\ policyMutex' = t
  /\ resumer' = [resumer EXCEPT ![t] = FALSE]
  /\ Go(t, IF t = "control" /\ op = "configure" THEN "load" ELSE "pause")
  /\ UNCHANGED <<workerVars, queueVars, flagVars, published, generation,
                 loaded, reloadOk, jobVars, stats, op>>

(* -EALREADY is not a failure, but then this reload does not resume. *)
ReloadPause(t) ==
  /\ rpc[t] = "pause"
  /\ \/ /\ paused
        /\ Go(t, "load")
        /\ UNCHANGED <<queueVars, flagVars, resumer, stats>>
     \/ /\ ~paused
        /\ PauseBegin(FALSE)
        /\ resumer' = [resumer EXCEPT ![t] = TRUE]
        /\ Go(t, "drain")
  /\ UNCHANGED <<workerVars, published, generation, policyMutex, loaded,
                 reloadOk, jobVars, op>>

ReloadDrained(t) ==
  /\ rpc[t] = "drain"
  /\ ~active
  /\ Go(t, "load")
  /\ UNCHANGED <<workerVars, queueVars, flagVars, published, generation,
                 policyMutex, loaded, resumer, reloadOk, jobVars, stats, op>>

(* A load that fails (or -EOVERFLOW) leaves the published policy alone. *)
ReloadLoad(t) ==
  /\ rpc[t] = "load"
  /\ \/ /\ loaded' = [loaded EXCEPT ![t] = database]
        /\ Go(t, "publish")
        /\ UNCHANGED <<reloadOk, recovered>>
     \/ /\ Go(t, "resume")
        /\ reloadOk' = [reloadOk EXCEPT ![t] = FALSE]
        /\ recovered' = (recovered /\ ~(t = "job" /\ jpc = "reload"))
        /\ UNCHANGED loaded
  /\ UNCHANGED <<workerVars, queueVars, flagVars, published, generation,
                 policyMutex, resumer, database, jpc, jgen, before,
                 restoreActive, stats, op>>

ReloadPublish(t) ==
  /\ rpc[t] = "publish"
  /\ published' = [gen |-> generation + 1, db |-> loaded[t]]
  /\ Go(t, "store")
  /\ UNCHANGED <<workerVars, queueVars, flagVars, generation, policyMutex,
                 loaded, resumer, reloadOk, jobVars, stats, op>>

ReloadStore(t) ==
  /\ rpc[t] = "store"
  /\ generation' = generation + 1
  /\ reloadOk' = [reloadOk EXCEPT ![t] = TRUE]
  /\ Go(t, "resume")
  /\ UNCHANGED <<workerVars, queueVars, flagVars, published, policyMutex,
                 loaded, resumer, jobVars, stats, op>>

(* Mutant: the collector is resumed for the generation it had. *)
ReloadResumeOld(t) ==
  /\ rpc[t] = "resume"
  /\ IF resumer[t] THEN Resume(cgen) ELSE UNCHANGED flagVars
  /\ policyMutex' = "none"
  /\ Go(t, "none")
  /\ op' = IF t = "control" THEN "idle" ELSE op
  /\ UNCHANGED <<workerVars, queueVars, published, generation, loaded,
                 resumer, reloadOk, jobVars, stats>>

(* The reload resumes what it paused and unlocks; the control thread then  *)
(* leaves the mutation gate.                                               *)
ReloadResume(t) ==
  /\ rpc[t] = "resume"
  /\ IF resumer[t] THEN Resume(generation) ELSE UNCHANGED flagVars
  /\ policyMutex' = "none"
  /\ Go(t, "none")
  /\ op' = IF t = "control" THEN "idle" ELSE op
  /\ UNCHANGED <<workerVars, queueVars, published, generation, loaded,
                 resumer, reloadOk, jobVars, stats>>

(* A restore and a control operation under way publish three generations   *)
(* at most: nothing starts that could pass the bound.                      *)
WithinBound == generation + 3 =< MaxGeneration

(* JG_IPC_POLICY_RELOAD does not pass the mutation gate; a policy mutation *)
(* and a configuration reload do.                                          *)
ControlBegin(o) ==
  /\ op = "idle" /\ ~stopping /\ WithinBound
  /\ o \in ControlOps
  /\ o = "ipc" \/ ~restoreActive
  /\ op' = o
  /\ Go("control", "lock")
  /\ UNCHANGED <<workerVars, queueVars, flagVars, published, generation,
                 policyMutex, loaded, resumer, reloadOk, jobVars, stats>>

-----------------------------------------------------------------------------
(* An applied restore on the job thread *)

(* management_restore_begin shuts the gate *)
RestoreBegin ==
  /\ jpc = "idle" /\ ~stopping /\ WithinBound
  /\ restoreActive' = TRUE
  /\ jpc' = "gate"
  /\ UNCHANGED <<workerVars, queueVars, flagVars, runtimeVars, database, jgen,
                 before, recovered, stats, op>>

(* ... and pauses the collector once no mutation is active; a collector    *)
(* that is already paused refuses the restore.                             *)
RestoreGate ==
  /\ jpc = "gate"
  /\ op \notin {"mutation", "configure"}
  /\ \/ /\ paused
        /\ restoreActive' = FALSE
        /\ jpc' = "idle"
        /\ UNCHANGED <<queueVars, flagVars, stats>>
     \/ /\ ~paused
        /\ PauseBegin(TRUE)
        /\ jpc' = "drain"
        /\ UNCHANGED restoreActive
  /\ UNCHANGED <<workerVars, runtimeVars, database, jgen, before, recovered, op>>

(* Mutant: the pause returns while the writer still has a batch. *)
RestoreDrainedUnchecked ==
  /\ jpc = "drain"
  /\ before' = database
  /\ jpc' = "replace"
  /\ UNCHANGED <<workerVars, queueVars, flagVars, runtimeVars, database, jgen,
                 recovered, restoreActive, stats, op>>

(* The pause returns; validation, checkpoint and recovery snapshot follow, *)
(* any of which may end the restore.                                       *)
RestoreDrained ==
  /\ jpc = "drain"
  /\ ~active
  /\ before' = database
  /\ jpc' \in {"replace", "end"}
  /\ UNCHANGED <<workerVars, queueVars, flagVars, runtimeVars, database, jgen,
                 recovered, restoreActive, stats, op>>

(* jg_database_restore, then the external files; then the new policy is    *)
(* published by a reload.                                                  *)
RestoreReplace ==
  /\ jpc = "replace"
  /\ \/ /\ database < MaxDatabase
        /\ database' = database + 1
        /\ \/ jpc' = "publish" /\ Go("job", "lock")
           \/ jpc' = "abort" /\ UNCHANGED rpc
     \/ jpc' = "abort" /\ UNCHANGED <<database, rpc>>
  /\ UNCHANGED <<workerVars, queueVars, flagVars, published, generation,
                 policyMutex, loaded, resumer, reloadOk, jgen, before, recovered,
                 restoreActive, stats, op>>

(* The publication failed, or it is audited with the end of the recovery   *)
(* operation; a failed audit recovers the previous database and reloads.   *)
RestorePublished ==
  /\ jpc = "publish"
  /\ rpc["job"] = "none"
  /\ \/ /\ ~reloadOk["job"]
        /\ jpc' = "abort"
        /\ UNCHANGED <<database, recovered, rpc>>
     \/ /\ reloadOk["job"]
        /\ jpc' = "end"
        /\ UNCHANGED <<database, recovered, rpc>>
     \/ /\ reloadOk["job"]
        /\ \/ database' = before /\ UNCHANGED recovered
           \/ recovered' = FALSE /\ UNCHANGED database
        /\ jpc' = "reload"
        /\ Go("job", "lock")
  /\ UNCHANGED <<workerVars, queueVars, flagVars, published, generation,
                 policyMutex, loaded, resumer, reloadOk, jgen, before,
                 restoreActive, stats, op>>

(* abort_recovery_operation; the policy is reloaded only when it succeeded. *)
RestoreAbort ==
  /\ jpc = "abort"
  /\ \/ /\ database' = before
        /\ jpc' = "reload"
        /\ Go("job", "lock")
        /\ UNCHANGED recovered
     \/ /\ jpc' = "end"
        /\ recovered' = FALSE
        /\ UNCHANGED <<database, rpc>>
  /\ UNCHANGED <<workerVars, queueVars, flagVars, published, generation,
                 policyMutex, loaded, resumer, reloadOk, jgen, before,
                 restoreActive, stats, op>>

RestoreReloaded ==
  /\ jpc = "reload"
  /\ rpc["job"] = "none"
  /\ jpc' = "end"
  /\ UNCHANGED <<workerVars, queueVars, flagVars, runtimeVars, database, jgen,
                 before, recovered, restoreActive, stats, op>>

(* management_restore_end reads the generation, resumes and opens the gate. *)
RestoreReadGeneration ==
  /\ jpc = "end"
  /\ jgen' = generation
  /\ jpc' = "resume"
  /\ UNCHANGED <<workerVars, queueVars, flagVars, runtimeVars, database,
                 before, recovered, restoreActive, stats, op>>

RestoreEnd ==
  /\ jpc = "resume"
  /\ Resume(jgen)
  /\ restoreActive' = FALSE
  /\ jpc' = "idle"
  /\ UNCHANGED <<workerVars, queueVars, runtimeVars, database, jgen, before, recovered,
                 stats, op>>

-----------------------------------------------------------------------------
WorkerStep(k) ==
  \/ Evaluate(k)
  \/ SubmitBusy(k)
  \/ SubmitRefused(k)
  \/ SubmitAccepted(k)

WriterStep ==
  \/ WriterDrain
  \/ WriterWrite
  \/ WriterFinish

ReloadStep(t) ==
  \/ ReloadLock(t)
  \/ ReloadPause(t)
  \/ ReloadDrained(t)
  \/ ReloadLoad(t)
  \/ ReloadPublish(t)
  \/ ReloadStore(t)
  \/ ReloadResume(t)

RestoreStep ==
  \/ RestoreGate
  \/ RestoreDrained
  \/ RestoreReplace
  \/ RestorePublished
  \/ RestoreAbort
  \/ RestoreReloaded
  \/ RestoreReadGeneration
  \/ RestoreEnd

Next ==
  \/ \E k \in Workers : WorkerStep(k)
  \/ WriterStep
  \/ RequestStop
  \/ \E t \in Threads : ReloadStep(t)
  \/ \E o \in Operations : ControlBegin(o)
  \/ RestoreBegin
  \/ RestoreStep

Spec == Init /\ [][Next]_vars

(* The kernel runs every thread that can run; nothing makes a packet, a     *)
(* request or a restore arrive.  A thread that waits for policy_mutex gets  *)
(* it although the other one may take it again and again.                   *)
Fairness ==
  /\ WF_vars(WriterStep)
  /\ WF_vars(RestoreStep)
  /\ \A t \in Threads : WF_vars(ReloadStep(t)) /\ SF_vars(ReloadLock(t))

FairSpec == Spec /\ Fairness

-----------------------------------------------------------------------------
ReloadStates ==
  {"none", "lock", "pause", "drain", "load", "publish", "store", "resume"}
RestoreStates ==
  {"idle", "gate", "drain", "replace", "publish", "abort", "reload", "end", "resume"}

(* Types, and the capacities of the queue and of the writer's batch.       *)
TypeOK ==
  /\ published \in Snapshots
  /\ generation \in 1 .. MaxGeneration
  /\ database \in 1 .. MaxDatabase /\ before \in 1 .. MaxDatabase
  /\ policyMutex \in Threads \cup {"none"}
  /\ pending \in [Workers -> Snapshots \cup {None}]
  /\ queue \in Seq(Snapshots) /\ Len(queue) =< Capacity
  /\ batch \in Seq(Snapshots) /\ Len(batch) =< BatchCapacity
  /\ cgen \in 1 .. MaxGeneration /\ jgen \in 0 .. MaxGeneration
  /\ {paused, restorePause, stopping, active, exiting, restoreActive} \subseteq BOOLEAN
  /\ wpc \in {"wait", "write", "finish", "exited"}
  /\ stats \in [{"submitted", "dropped", "restoreDropped", "staleDropped",
                 "recorded", "lost", "refused"} -> 0 .. MaxEvents]
  /\ rpc \in [Threads -> ReloadStates]
  /\ loaded \in [Threads -> 0 .. MaxDatabase]
  /\ resumer \in [Threads -> BOOLEAN] /\ reloadOk \in [Threads -> BOOLEAN]
  /\ op \in Operations \cup {"idle"}
  /\ jpc \in RestoreStates

(* The samples that the workers offered, that were disposed of, and that the *)
(* collector still has.                                                    *)
Offered == stats.submitted + stats.refused
Disposed == stats.recorded + stats.lost + stats.dropped
InHand == Len(queue) + (IF wpc = "write" THEN Len(batch) ELSE 0)

(* Every accepted sample is recorded, lost in a failed batch, discarded by *)
(* a pause, still queued or in the writer's hands: nothing is written      *)
(* twice and nothing disappears without a counter.  dropped counts the     *)
(* samples refused at submission and those discarded by a pause.  A writer *)
(* that has exited has drained the queue.                                  *)
EveryEventIsAccounted ==
  /\ Offered = Disposed + InHand
  /\ wpc = "exited" => queue = <<>>

Writing == wpc = "write" /\ batch # <<>>

(* From the return of its pause until its resume the thread that paused    *)
(* the collector has it to itself: it stays paused, the queue is empty and *)
(* the writer has no batch in SQLite.  A restore also has no mutation      *)
(* beside it that passed the gate of management_consistency.c.             *)
PauseQuiesces ==
  /\ \A t \in Threads :
       rpc[t] \in {"load", "publish", "store", "resume"} /\ resumer[t] =>
         paused /\ queue = <<>> /\ ~Writing
  /\ jpc \notin {"idle", "gate", "drain"} =>
         paused /\ queue = <<>> /\ ~Writing
  /\ jpc \notin {"idle", "gate"} => op \notin {"mutation", "configure"}

(* A sample reaches only the database whose policy it was evaluated with   *)
(* (jg_policy_stats_collector_pause: no sample from the old policy         *)
(* generation can reach a replacement database).                           *)
OwnDatabase == \A i \in DOMAIN batch : batch[i].db = database

SampleStaysHome == [][stats'.recorded # stats.recorded => OwnDatabase]_vars

(* ... as long as each restore succeeds or its recovery does.              *)
NoSampleCrossesRestore ==
  [][recovered /\ stats'.recorded # stats.recorded => OwnDatabase]_vars

(* With no reload and no restore under way an unpaused collector refuses a *)
(* sample as stale only when its generation is no longer the published one *)
(* (stale_generation_dropped: their policy generation ceased to be active).*)
StaleMeansSuperseded ==
  [][\A k \in Workers :
       /\ SubmitRefused(k) /\ stats'.staleDropped # stats.staleDropped
       /\ ~paused /\ op = "idle" /\ jpc = "idle"
       => pending[k].gen # published.gen]_vars

(* The pause waits for a writer that finishes, so an applied restore comes *)
(* to an end and opens the mutation gate again.                            *)
RestoreFinishes == restoreActive ~> ~restoreActive

(* jg_policy_stats_collector_join returns, even when a failed resume left  *)
(* the collector paused.                                                   *)
StopCompletes == stopping ~> wpc = "exited"
=============================================================================
