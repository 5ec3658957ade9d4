---------------------------- MODULE AlertDelivery ----------------------------
(***************************************************************************)
(* Native alerting (src/src/daemon/management_alerts.c and src/src/common/ *)
(* alert_incident.c): one worker thread compares conditions with persistent*)
(* incidents, queues notifications of their transitions in an outbox and   *)
(* delivers the outbox over HTTPS.  Its neighbours are the control thread  *)
(* (configuration, secret, test event), backups, restores and the death of *)
(* the process.  One step is one SQLite transaction or one request to the  *)
(* receiver.                                                               *)
(*                                                                         *)
(* A claim token is held by the worker, or lost.                           *)
(* Times in the database are absolute; the model keeps what is left of     *)
(* them (wait: until next_attempt_at; age: since claimed_at).  Severity,   *)
(* summary and details of an incident are left out.                        *)
(***************************************************************************)
EXTENDS Naturals, Sequences, SequencesExt, FiniteSetsExt

CONSTANTS
  Keys,               \* a key is the type and the resource of a condition
  Sources,            \* the keys that stand for blocklist sources
  MaxAttempts,        \* ALERT_DELIVERY_ATTEMPTS_MAX
  BatchSize,          \* MANAGEMENT_ALERT_DELIVERY_BATCH
  ClaimTimeout,       \* ALERT_DELIVERY_CLAIM_TIMEOUT
  BackoffCap,         \* the longest delay between two attempts
  OutboxRetention,    \* finished notifications that are kept
  IncidentRetention,  \* resolved incidents that are kept
  MaxEvents,          \* bound on notifications, never reached
  MaxDisturbances     \* bound on what operators, the world and faults do

ASSUME KeyAssumption == Sources \subseteq Keys
ASSUME LimitAssumption ==
  /\ MaxAttempts \in Nat \ {0} /\ BatchSize \in Nat \ {0}
  /\ ClaimTimeout \in Nat \ {0} /\ BackoffCap \in Nat \ {0}
  /\ OutboxRetention \in Nat /\ IncidentRetention \in Nat
ASSUME AlertBoundAssumption == MaxEvents \in Nat /\ MaxDisturbances \in Nat

VARIABLES
  cond, exists,      \* the conditions that hold, the resources there are
  cfg,               \* the alert_configuration row
  transports,        \* transports configured so far
  incidents,         \* the alert_incidents rows, by id
  outbox,            \* the alert_outbox rows, by id
  archive,           \* a full backup: a configuration and an outbox
  restoring,         \* consistency->restore_active
  pc, pass, todo,    \* the worker: place, its configuration, keys to do
  batch, flight,     \* attempts of this batch, the claimed delivery
  started,           \* initial_pass_complete
  events,            \* notifications queued so far
  disturbances       \* how many there were

world == <<cond, exists, transports, archive, restoring>>
dbVars == <<cfg, incidents, outbox, events>>
workerVars == <<pc, pass, todo, batch, flight, started>>
alertVars == <<cond, exists, dbVars, transports, archive, restoring, workerVars,
          disturbances>>

NoFlight == [event |-> 0, ok |-> FALSE]

(* past (a ghost) holds the transports this configuration descends from,   *)
(* the current one being transport.                                        *)
InitialConfiguration ==
  [enabled |-> TRUE, hook |-> FALSE, secret |-> FALSE, transport |-> 1, past |-> {1}]

(* What a pass uses of the configuration.                                  *)
Settings(c) == [enabled |-> c.enabled, hook |-> c.hook]
NoSettings == [enabled |-> FALSE, hook |-> FALSE]

(* The daemon starts with a new database or with one in which the webhook  *)
(* was configured before, and of which there may be a backup.              *)
AlertInit ==
  /\ cond \in SUBSET Keys /\ exists = Keys
  /\ \E hook \in BOOLEAN :
       cfg = [InitialConfiguration EXCEPT !.hook = hook, !.secret = hook]
  /\ archive \in {<<>>, [cfg |-> cfg, outbox |-> <<>>]}
  /\ transports = 1 /\ incidents = <<>> /\ outbox = <<>> /\ events = 0
  /\ restoring = FALSE
  /\ pc = "pass" /\ pass = NoSettings /\ todo = {} /\ batch = 0
  /\ flight = NoFlight /\ started = FALSE
  /\ disturbances = 0

OpenRow(row, k) == row.key = k /\ row.open
Open(k) == \E row \in Range(incidents) : OpenRow(row, k)
Pending(e) == \E row \in Range(outbox) : row.event = e /\ row.status = "pending"

-----------------------------------------------------------------------------
Disturb == disturbances < MaxDisturbances /\ disturbances' = disturbances + 1

(* enqueue_payload: the event is due at once.  Ghosts: the transport at    *)
(* that time, whether a request was acknowledged, how many were not.       *)
Row(e) ==
  [event |-> e, status |-> "pending", attempts |-> 0, wait |-> 0,
   claim |-> "none", age |-> 0, transport |-> cfg.transport,
   acked |-> FALSE, fails |-> 0]

Enqueue ==
  /\ events < MaxEvents
  /\ events' = events + 1
  /\ outbox' = Append(outbox, Row(events + 1))

Enqueued(notify) == IF notify THEN Enqueue ELSE UNCHANGED <<outbox, events>>

(* management_mutation_begin: the worker works under the gate in these     *)
(* places,                                                                 *)
HoldsGate == pc \in {"startup", "evaluate", "http", "complete"}

(* and a request or a job of the others is one step that needs it open.    *)
GateOpen == ~restoring

(* The start of a pass: the configuration is loaded under the gate.        *)
BeginPass ==
  /\ pc = "pass" /\ GateOpen
  /\ pass' = Settings(cfg) /\ pc' = "startup"
  /\ UNCHANGED <<world, dbVars, todo, batch, flight, started, disturbances>>

(* A restore suspends evaluation, and deliver_pending finds the same.      *)
SkipPass ==
  /\ pc = "pass" /\ ~GateOpen
  /\ pc' = "deliver" /\ batch' = 0
  /\ UNCHANGED <<world, dbVars, pass, todo, flight, started, disturbances>>

(* The keys a pass looks at: those of the resources there are, or those of *)
(* open incidents when evaluation is disabled (resolve_open_incidents).    *)
KeysToDo == IF pass.enabled THEN exists ELSE {k \in Keys : Open(k)}

(* enqueue_startup_event *)
Startup ==
  /\ pc = "startup"
  /\ Enqueued(~started /\ pass.hook)
  /\ started' = TRUE /\ pc' = "evaluate" /\ todo' = KeysToDo
  /\ UNCHANGED <<world, cfg, incidents, pass, batch, flight, disturbances>>

(* next_occurrence *)
NextOccurrence(k) ==
  1 + Max({0} \cup {r.occ : r \in {q \in Range(incidents) : q.key = k}})

(* Mutant: a disabled evaluation leaves incidents as they are. *)
ActiveWhenDisabled(k) == IF pass.enabled THEN k \in cond ELSE Open(k)

Active(k) == pass.enabled /\ k \in cond

(* jg_database_alert_reconcile: the transition and its notification are    *)
(* one transaction.                                                        *)
Reconcile(k) ==
  /\ pc = "evaluate" /\ k \in todo
  /\ todo' = todo \ {k}
  /\ IF Active(k) /\ ~Open(k)
     THEN /\ incidents' =
               Append(incidents, [key |-> k, occ |-> NextOccurrence(k), open |-> TRUE])
          /\ Enqueued(pass.hook)
     ELSE IF ~Active(k) /\ Open(k)
     THEN /\ incidents' =
               [i \in DOMAIN incidents |->
                  IF OpenRow(incidents[i], k) THEN [incidents[i] EXCEPT !.open = FALSE]
                                              ELSE incidents[i]]
          /\ Enqueued(pass.hook)
     ELSE UNCHANGED <<incidents, outbox, events>>
  /\ UNCHANGED <<world, cfg, pc, pass, batch, flight, started, disturbances>>

(* The transaction fails and the pass goes on (retain_error).              *)
ReconcileFails(k) ==
  /\ pc = "evaluate" /\ k \in todo /\ Disturb
  /\ todo' = todo \ {k}
  /\ UNCHANGED <<world, dbVars, pc, pass, batch, flight, started>>

(* All rows in their order, but of those for which Test holds the last n.  *)
KeepLast(rows, n, Test(_)) ==
  LET kept == {i \in DOMAIN rows :
                 Test(rows[i]) =>
                   Cardinality({j \in DOMAIN rows : j > i /\ Test(rows[j])}) < n}
      Place(i) == Cardinality({j \in kept : j <= i})
  IN  [k \in 1 .. Cardinality(kept) |-> rows[CHOOSE i \in kept : Place(i) = k]]

Resolved(row) == ~row.open
Finished(row) == row.status # "pending"
AnyRow(row) == TRUE

(* Mutant: notifications that wait are pruned too. *)
PrunedOutboxAny == KeepLast(outbox, OutboxRetention, AnyRow)

(* jg_database_alert_prune *)
PrunedOutbox == KeepLast(outbox, OutboxRetention, Finished)
PrunedIncidents == KeepLast(incidents, IncidentRetention, Resolved)

EndPass ==
  /\ pc = "evaluate" /\ todo = {}
  /\ outbox' = PrunedOutbox /\ incidents' = PrunedIncidents
  /\ pc' = "deliver" /\ batch' = 0 /\ pass' = NoSettings
  /\ UNCHANGED <<world, cfg, events, todo, flight, started, disturbances>>

-----------------------------------------------------------------------------
(* Mutant: a claim is never taken over. *)
DueUnclaimed(row) == row.status = "pending" /\ row.wait = 0 /\ row.claim = "none"

(* jg_database_alert_delivery_next: what may be claimed,                   *)
Due(row) ==
  row.status = "pending" /\ row.wait = 0 /\ (row.claim = "none" \/ row.age >= ClaimTimeout)

(* oldest first.                                                           *)
NextDue(i) ==
  /\ i \in DOMAIN outbox /\ Due(outbox[i])
  /\ \A j \in DOMAIN outbox : j < i => ~Due(outbox[j])

Deliverable ==
  GateOpen /\ batch < BatchSize /\ cfg.hook /\ \E row \in Range(outbox) : Due(row)

(* jg_database_alert_delivery_claim: the transport is read and the row is  *)
(* claimed in one transaction, under the gate, which stays held.           *)
Claim ==
  /\ pc = "deliver" /\ Deliverable
  /\ \E i \in DOMAIN outbox :
       /\ NextDue(i)
       /\ outbox' = [outbox EXCEPT ![i].claim = "held", ![i].age = 0]
       /\ flight' = [event |-> outbox[i].event, ok |-> FALSE]
  /\ pc' = "http"
  /\ UNCHANGED <<world, cfg, incidents, events, pass, todo, batch, started, disturbances>>

(* A full batch, a restore, a disabled webhook or nothing due ends the     *)
(* batch.                                                                  *)
EndBatch ==
  /\ pc = "deliver" /\ ~Deliverable
  /\ pc' = "sleep" /\ batch' = 0
  /\ UNCHANGED <<world, dbVars, pass, todo, flight, started, disturbances>>

(* A storage error ends it as well. *)
ClaimFails ==
  /\ pc = "deliver" /\ Deliverable /\ Disturb
  /\ pc' = "sleep" /\ batch' = 0
  /\ UNCHANGED <<world, dbVars, pass, todo, flight, started>>

Claimed(row) ==
  row.event = flight.event /\ row.status = "pending" /\ row.claim = "held"

(* alert_webhook_deliver: 2xx acknowledges; a request that fails may still *)
(* have reached the receiver.                                              *)
Post ==
  /\ pc = "http" /\ pc' = "complete"
  /\ \E ok \in BOOLEAN :
       /\ flight' = [flight EXCEPT !.ok = ok]
       /\ outbox' = [i \in DOMAIN outbox |->
                       IF ~Claimed(outbox[i]) THEN outbox[i]
                       ELSE IF ok THEN [outbox[i] EXCEPT !.acked = TRUE]
                       ELSE [outbox[i] EXCEPT !.fails = @ + 1]]
  /\ UNCHANGED <<world, cfg, incidents, events, pass, todo, batch, started, disturbances>>

Backoff(n) == Min({2 ^ Min({7, n - 1}), BackoffCap})

(* jg_database_alert_delivery_complete *)
Completed(row) ==
  LET n == row.attempts + 1
  IN  [row EXCEPT
         !.claim = "none", !.age = 0, !.attempts = n,
         !.status = IF flight.ok THEN "delivered"
                    ELSE IF n >= MaxAttempts THEN "abandoned" ELSE "pending",
         !.wait = IF flight.ok \/ n >= MaxAttempts THEN 0 ELSE Backoff(n)]

(* The result is recorded on the claimed row and the gate is left; an      *)
(* unsuccessful attempt ends the batch.                                    *)
Complete ==
  /\ pc = "complete"
  /\ outbox' = [i \in DOMAIN outbox |-> IF Claimed(outbox[i]) THEN Completed(outbox[i])
                                                              ELSE outbox[i]]
  /\ flight' = NoFlight
  /\ LET goOn == flight.ok /\ \E row \in Range(outbox) : Claimed(row)
     IN  /\ pc' = IF goOn THEN "deliver" ELSE "sleep"
         /\ batch' = IF goOn THEN batch + 1 ELSE 0
  /\ UNCHANGED <<world, cfg, incidents, events, pass, todo, started, disturbances>>

(* The result cannot be stored: the claim stays until it is stale.         *)
CompleteFails ==
  /\ pc = "complete" /\ Disturb
  /\ pc' = "sleep"
  /\ batch' = 0 /\ flight' = NoFlight
  /\ UNCHANGED <<world, dbVars, pass, todo, started>>

(* The timed wait ends by its timeout or by management_alerts_wake.        *)
Wake ==
  /\ pc = "sleep" /\ pc' = "pass"
  /\ UNCHANGED <<world, dbVars, pass, todo, batch, flight, started, disturbances>>

-----------------------------------------------------------------------------
(* The control thread, in one audited transaction under the gate.          *)

(* What it leaves alone. *)
WorkerAndWorld == <<cond, exists, incidents, archive, restoring, workerVars>>

NewTransport(c) ==
  [c EXCEPT !.transport = transports + 1, !.past = @ \cup {transports + 1}]

(* handle_alert_configuration: a webhook needs a secret.                   *)
Configure(enabled, hook) ==
  /\ GateOpen /\ Disturb
  /\ hook => cfg.secret
  /\ cfg' = [cfg EXCEPT !.enabled = enabled, !.hook = hook]
  /\ UNCHANGED <<outbox, events, transports, WorkerAndWorld>>

(* handle_alert_webhook_secret, or another endpoint in the configuration.  *)
RotateSecret ==
  /\ GateOpen /\ Disturb
  /\ cfg' = NewTransport([cfg EXCEPT !.secret = TRUE])
  /\ transports' = transports + 1
  /\ UNCHANGED <<outbox, events, WorkerAndWorld>>

(* handle_alert_webhook_test *)
Test ==
  /\ GateOpen /\ cfg.hook /\ Disturb
  /\ Enqueue
  /\ UNCHANGED <<cfg, transports, WorkerAndWorld>>

(* A claim token in an archive or of a process that died is nobody's: the  *)
(* next claim of the row draws another.                                    *)
Orphaned(rows) ==
  [i \in DOMAIN rows |->
     IF rows[i].claim = "held" THEN [rows[i] EXCEPT !.claim = "lost"] ELSE rows[i]]

(* execute_backup_create_job: a full backup is a snapshot of the database. *)
BackUpAlerts ==
  /\ GateOpen /\ Disturb
  /\ archive' = [cfg |-> cfg, outbox |-> Orphaned(outbox)]
  /\ UNCHANGED <<cond, exists, dbVars, transports, restoring, workerVars>>

(* management_restore_begin shuts the gate and waits for those inside.     *)
RestoreBegin ==
  /\ ~restoring /\ archive # <<>> /\ Disturb
  /\ restoring' = TRUE
  /\ UNCHANGED <<cond, exists, dbVars, transports, archive, workerVars>>

Alone == restoring /\ ~HoldsGate

(* preserve_sensitive_data: a configuration restore keeps incidents, outbox*)
(* and transport of the appliance.                                         *)
RestoreConfiguration ==
  /\ Alone /\ restoring' = FALSE
  /\ cfg' = [cfg EXCEPT !.enabled = archive.cfg.enabled]
  /\ UNCHANGED <<cond, exists, incidents, outbox, events, transports, archive,
                 workerVars, disturbances>>

(* What a step of the clock does to the times of a row. *)
Aged(rows) ==
  [i \in DOMAIN rows |->
     [rows[i] EXCEPT
        !.wait = IF @ = 0 THEN 0 ELSE @ - 1,
        !.age = IF rows[i].claim = "none" THEN 0 ELSE Min({@ + 1, ClaimTimeout})]]

(* How the times of an archived row look when it is restored: as they were *)
(* or long past.                                                           *)
Elapsed(rows) ==
  [i \in DOMAIN rows |->
     [rows[i] EXCEPT !.wait = 0, !.age = IF rows[i].claim = "none" THEN 0 ELSE ClaimTimeout]]

(* preserve_restore_history_data: a full restore keeps the incidents and   *)
(* takes transport and outbox from the archive.                            *)
RestoreAlerts ==
  /\ Alone /\ restoring' = FALSE
  /\ cfg' = archive.cfg
  /\ outbox' \in {archive.outbox, Elapsed(archive.outbox)}
  /\ UNCHANGED <<cond, exists, incidents, events, transports, archive,
                 workerVars, disturbances>>

(* A restore that fails leaves the database as it was. *)
RestoreAbort ==
  /\ Alone /\ restoring' = FALSE
  /\ UNCHANGED <<cond, exists, dbVars, transports, archive, workerVars,
                 disturbances>>

-----------------------------------------------------------------------------
(* The process dies, or is stopped between two steps of the worker, and    *)
(* starts again with the database as it is.                                *)
Restart ==
  /\ Disturb
  /\ pc' = "pass" /\ pass' = NoSettings /\ todo' = {} /\ batch' = 0
  /\ flight' = NoFlight /\ started' = FALSE /\ restoring' = FALSE
  /\ outbox' = Orphaned(outbox)
  /\ UNCHANGED <<cond, exists, cfg, incidents, events, transports, archive>>

(* The world: a condition comes or goes, an operator deletes a source.     *)
(* Of the two conditions that are counted over a window (evaluate_queues,  *)
(* evaluate_authentication) cond is what the last complete window showed:  *)
(* the passes within a window, which do not reconcile, would find the same *)
(* value.                                                                  *)
Flip(k) ==
  /\ k \in exists /\ Disturb
  /\ cond' = IF k \in cond THEN cond \ {k} ELSE cond \cup {k}
  /\ UNCHANGED <<exists, dbVars, transports, archive, restoring, workerVars>>

DeleteSource(k) ==
  /\ k \in Sources \cap exists /\ GateOpen /\ Disturb
  /\ exists' = exists \ {k} /\ cond' = cond \ {k}
  /\ UNCHANGED <<dbVars, transports, archive, restoring, workerVars>>

(* time(NULL) advances.                                                    *)
AlertTick ==
  /\ outbox' = Aged(outbox)
  /\ UNCHANGED <<world, cfg, incidents, events, workerVars, disturbances>>

Worker ==
  \/ BeginPass \/ SkipPass \/ Startup \/ EndPass
  \/ \E k \in Keys : Reconcile(k)
  \/ Claim \/ EndBatch \/ Post \/ Complete \/ Wake

AlertFaults ==
  \/ \E k \in Keys : ReconcileFails(k)
  \/ ClaimFails \/ CompleteFails \/ Restart

Restores == RestoreConfiguration \/ RestoreAlerts \/ RestoreAbort

Operators ==
  \/ \E enabled, hook \in BOOLEAN : Configure(enabled, hook)
  \/ RotateSecret \/ Test \/ BackUpAlerts \/ RestoreBegin
  \/ \E k \in Keys : Flip(k) \/ DeleteSource(k)

AlertNext == Worker \/ AlertFaults \/ Restores \/ Operators \/ AlertTick

AlertSpec == AlertInit /\ [][AlertNext]_alertVars

(* The worker and the job thread are scheduled, the clock runs, and a      *)
(* request to the receiver ends (it has a timeout).                        *)
FairAlertSpec == AlertSpec /\ WF_alertVars(Worker) /\ WF_alertVars(Restores) /\ WF_alertVars(AlertTick)

-----------------------------------------------------------------------------
Rows ==
  [event : 1 .. MaxEvents, status : {"pending", "delivered", "abandoned"},
   attempts : 0 .. MaxAttempts, wait : 0 .. BackoffCap,
   claim : {"none", "held", "lost"}, age : 0 .. ClaimTimeout,
   transport : 1 .. transports, acked : BOOLEAN, fails : Nat]

Configurations ==
  [enabled : BOOLEAN, hook : BOOLEAN, secret : BOOLEAN, transport : 1 .. transports,
   past : SUBSET (1 .. transports)]

(* Types of the worker's state and of the rows of the three tables.  The   *)
(* occurrences of a key count up and only its newest incident is open; a   *)
(* failing receiver gets at most MaxAttempts requests for an event, and    *)
(* one more for each interruption that left a result unrecorded.           *)
AlertTypeOK ==
  /\ cond \subseteq exists /\ exists \subseteq Keys
  /\ cfg \in Configurations /\ pass \in [enabled : BOOLEAN, hook : BOOLEAN]
  /\ transports \in Nat \ {0} /\ events \in 0 .. MaxEvents
  /\ \A i \in DOMAIN incidents :
       incidents[i] \in [key : Keys, occ : Nat \ {0}, open : BOOLEAN]
  /\ \A i \in DOMAIN outbox : outbox[i] \in Rows
  /\ archive # <<>> =>
       archive.cfg \in Configurations /\ \A i \in DOMAIN archive.outbox : archive.outbox[i] \in Rows
  /\ pc \in {"pass", "startup", "evaluate", "deliver", "http", "complete", "sleep"}
  /\ todo \subseteq Keys /\ batch \in 0 .. BatchSize
  /\ flight \in [event : 0 .. MaxEvents, ok : BOOLEAN]
  /\ restoring \in BOOLEAN /\ started \in BOOLEAN
  /\ \A i, j \in DOMAIN incidents :
       i < j /\ incidents[i].key = incidents[j].key =>
         ~incidents[i].open /\ incidents[i].occ < incidents[j].occ
  /\ \A row \in Range(outbox) : row.fails <= MaxAttempts + disturbances

(* From its claim until its result is stored a delivery keeps its row: no  *)
(* restore replaces the outbox under a request that is in flight           *)
(* (management_alerts_deliver_pending holds the gate).                     *)
AttemptKeepsItsRow ==
  pc \in {"http", "complete"} => \E row \in Range(outbox) : Claimed(row)

(* A queued notification is only ever sent with the transport it was       *)
(* queued under or with a successor of it: a restore never joins the       *)
(* outbox of one history with the credentials of another.                  *)
TransportBelongsToOutbox ==
  \A row \in Range(outbox) : row.transport \in cfg.past

(* A notification leaves the outbox only with the outbox that a full       *)
(* restore replaces, or when it is done: acknowledged, or after MaxAttempts*)
(* requests that failed.                                                   *)
NothingIsLost ==
  [][~RestoreAlerts =>
       \A row \in Range(outbox) :
         Pending(row.event)' \/ row.acked \/ row.fails >= MaxAttempts]_alertVars

(* Once disturbances cease the outbox drains: every notification is        *)
(* delivered or abandoned, whatever the receiver does and whoever died     *)
(* holding its claim, unless the webhook is disabled.                      *)
OutboxDrains == <>[](cfg.hook => \A row \in Range(outbox) : row.status # "pending")

(* Once disturbances cease an incident is open exactly when its condition  *)
(* holds; with evaluation disabled all are resolved.                       *)
IncidentsFollowConditions ==
  <>[](\A k \in exists : Open(k) <=> (cfg.enabled /\ k \in cond))

(* The rule JanusGateSourceUnhealthy: an incident of a source that stays   *)
(* open means there is such a source.                                      *)
NoOrphanIncident ==
  \A k \in Sources : (Open(k) /\ k \notin exists) ~> ~Open(k)
=============================================================================
