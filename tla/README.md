# JanusGate: TLA+ models, model checking and proofs

JanusGate is a transparent layer-2 filtering gateway. The daemon `janusgated`
takes bridged packets from netfilter queues, inspects DNS questions, visible TLS
server names and addresses against an immutable policy snapshot and answers with a
verdict. A control thread serves management requests over a local socket and keeps
all persistent state in one SQLite database; a job thread runs slow operations, an
alert thread delivers notifications, a writer thread stores statistics. The
privileged helper `janusgate-netd` applies network configurations with a
confirm-or-roll-back transaction. The web gateway and the CLI are clients of the
socket.

This directory models the parts of that program whose correctness depends on
interleavings, failures, limits or long sequences of requests. Paths below are
relative to `src/src/`.

Contents: 1. inventory, 2. modules and how they correspond to the code, 3. the runs,
4. fairness, 5. the proofs, 6. where code and documents disagree, and other
observations, 7. what is left out, 8. plan.

## 1. Inventory

`PROJECT.json` lists every component with its sources and status. The ones that
carry the program's own logic:

| Component | State | Operations | Meets | What is hard | What makes it correct |
|---|---|---|---|---|---|
| policy store, `daemon/policy_store.c` | published snapshot, one hazard slot per reader | acquire, release, replace | packet workers, control and job thread, through `daemon_runtime.c` | lock-free reads against a freeing writer, address reuse | no use after free, no leak, monotonic reads, replacement ends |
| policy evaluation, `common/policy.c`, `daemon/dataplane.c` | immutable snapshot | build, match, evaluate a packet, simulate | packet workers, simulation, analysis | precedence of names, sources, scopes and effects; four layers of observation | equals a reference definition; observation only weakens; simulation, analysis and packets agree |
| policy rows, `common/database_policy*.c`, `daemon/management_policy*.c` | rules, destinations, groups, modes, lists, statistics identities | create, update, delete, refresh, reload | publication, statistics | cascades, replaced rows, reused row ids | an identity names one rule, history follows the rule |
| policy statistics storage, `common/database_policy_stats.c`, triggers of `common/database.c` | lifetime and hourly rows, budgets | record, clean up, follow, delete | collector, rows | counters kept by triggers beside the rows they count | budgets exact |
| statistics collector, `daemon/policy_stats_collector.c` | bounded queue, batch, generation, pause and stop flags, counters | submit, writer thread, pause, resume, stop, join | workers, policy reloads, restores | a pause that waits for a writer, two pausers, a database that changes underneath | every sample counted once, no sample in a foreign database, restore ends |
| mutation gate, `daemon/management_consistency.c` | active mutations, restore flag | mutation begin/end, restore begin/end | all handlers, jobs, alerting | restore waits for mutations, mutations are refused meanwhile | no mutation beside a restore |
| policy mutations and publication, `daemon/management_policy*.c`, `common/database_operation.c` | rows with revisions, desired/applied revision, degraded flag | change, publication, reload | the runtime's policy store, SQLite, audit | publication before commit, failed commit, crash, two threads on connections | degraded flag honest, acknowledged is durable |
| blocklist sources, `common/database_blocklist.c`, `blocklist_remote.c`, `blocklist.c`, `daemon/blocklist_update.c`, `management_blocklist.c` | source rows with validators, deadlines, health, entries | create, edit, delete, request, scheduled round, download, import, record | HTTPS server, job queue, control thread | downloads outside transactions, conditional requests, retries | a list is what its source served, due sources are tried |
| network transaction, `netd/transaction.c`, `daemon/management_network.c`, `management_recovery.c` | checkpoint, pending and current configuration, deadline; stored row, journal | apply, confirm, rollback, expire; prepare, ready, recover, start-up | two processes over a socket, kernel, SQLite | lost answers, deadline races, crashes on either side, half-failed restorations | kernel and database agree when settled, rollback restores, journal ends in agreement |
| job queue, `daemon/management_jobs.c` | slots, sequence numbers, uploads | submit, take, reauthorize, run, complete, get, stop | control thread, job worker, accounts | state copied across unlocks, shared heap pointers, quotas | slot for the scan, uploads freed once, exclusive operations, revoked jobs do not run, results kept |
| alerting, `daemon/management_alerts.c`, `common/alert_incident.c`, `alert_configuration.c` | incidents, outbox, configuration, claims | passes, reconcile, claim, attempt, complete, prune, configure, rotate, test | conditions, receiver, backup and restore | crash between claim and completion, retry, pruning, restore of outbox and secret | nothing lost, outbox drains, incidents follow conditions |
| stream inspection, `daemon/tcp_stream.c`, `dataplane_worker.c`, `common/tls_client_hello.c` | bounded flow table with buffers and deadlines, a parser per slot | add, add_raw, reject, expire, evaluate | packets in any order, policy snapshot | reordering, overlap, retransmission, sequence wrap, slot reuse, limits | inspected = received, nothing refused passes, orderly streams pass |
| fragment tracker, `daemon/fragment.c` | bounded table of datagrams with intervals | add, expire, evaluate | packets in any order | overlaps, quotas, time-outs while pieces have already passed | nothing blocked is assembled behind the gateway |
| identity and audit, `common/account*.c`, `access.c`, `audit.c`, `daemon/management_identity.c` | accounts, sessions, TOTP and recovery codes, tokens, certificate mappings, bootstrap secret, hash chain | bootstrap, login, second factor, logout, change, reset, issue, revoke, restore | every request, set-up program, restores | revocation across credentials, replay, lock-out, last administrator | credentials are current, an administrator remains, changes are audited |
| backup and recovery, `common/backup.c`, `database_operation.c`, `daemon/management_backup.c`, `management_recovery.c`, `management_certificate.c` | archives, four files, snapshots, checkpoint, journal row | create, import, restore, certificate and authority changes, recover at start-up | database, gate, job thread | crash or failure at any phase, two threads, one journal row | before or after, never between; an armed row settles |
| daemon, `daemon/main.c`, `daemon_runtime.c` | parts and threads created so far, exit status, pending signals | prepare, start, wait, stop, destroy | every thread | a start that fails half-way, stop against work under way | nothing released under a running thread, every stop ends in an exit |
| packet queues, `daemon/nfqueue*.c` | worker threads, their results, one stop pipe, packets in the kernel | open, start, run, drain, stop, join | kernel queue, main thread | failure of one worker, stop while packets arrive | every worker joined, waiting packets answered, failure noticed |
| control server, `daemon/control_server.c`, `common/ipc*.c` | listening socket, stop pipe, deferred lifecycle action | accept, receive, serve, answer, perform, stop | clients, management, workers | slow or dead peers, an answer that is lost | one request at a time, its failure ends the daemon |
| events and logging, `common/event.c`, `logging.c` | table of events; ring of recent records, limit per second | append, list; emit | all threads | | (not modelled) |

Clients, formatters, byte-level parsers, kernel and platform back ends are listed
in `PROJECT.json` as not modelled, each with its reason.

## 2. Modules

One module per component; the `MC` module of each gives the constants that a
configuration file cannot write. In every module a step is the longest piece of
code that no other actor can observe half-done: an atomic access in the policy
store, a critical section of a mutex, an SQLite transaction, a request to
another process, a packet.

**SnapshotCell** is the abstract specification of the policy store: a reader takes the
published generation and gives it back; a writer supersedes the published
generation and reclaims the old one only when no reader holds it.

**PolicyStore** is `policy_store.c` with the reloads of `daemon_runtime.c` that drive
it. `AcquireLoad`, `AcquireGuard`, `AcquireCheck` and `Release` are the four
atomic accesses of a reader; `ReplaceExchange`, `ReplaceScan` (one slot per step) and
`ReplaceDestroy` those of a writer. The heap hands out addresses again, so the
ABA case of the comparison in `acquire` occurs. `current` and `hazard[i]` are
sequentially consistent as in the code.

**Daemon** is the life of the process. `main` walks through `main()`: `Prepare`, `Confine`
(privileges, system-call filter), `Start…` for each thread, `Unstart…` for a start
that fails, `WaitWorkers`, the joins, and `DestroyBegin`/`DestroyEnd` for each part
that `jg_daemon_runtime_destroy` and `jg_management_destroy` release. The threads run
beside it: packet workers (`WorkerTurn`, `WorkerDrain`) with the kernel's queue
(`Arrive`), the control thread with its clients (`Accept`, `Handle`, `Reply`, `ControlEnd`), the
signal thread, and the statistics writer, the job and the alert thread, which only end
here. `MaxFaults` steps fail, wherever they are. **PacketRuntime** puts
`Daemon` and `PolicyStore` together: the store's readers and writers are threads of the
daemon, and that they end before the store does is `ThreadsHoldWhatTheyUse`. Nothing else connects
the two, so each is followed while the other rests.

**PolicyEvaluation** holds the pure part of the policy: `Build` is
`jg_policy_snapshot_build_configured` (validation, normalization of scopes and
networks, removal of equal rules), `MatchDomain` and `MatchDestination` the two
searches, `Evaluate…` the packet path of `dataplane.c` for DNS messages, TLS names
and connections, `Simulate` the simulation of the management interface, `CountedFor` the
rules a packet is counted for. Names are sequences of labels, addresses have
`AddressBits` bits. **PolicyAnalysis** is the SQL of
`database_policy_analysis.c`: duplicates, conflicts, shadowing, exceptions,
unreachable rules. **PolicyHistory** holds the tables of the statistics with the
triggers that guard and count them, recording, retention and what a deletion or a
list refresh does to them. **PolicyRows** is the state machine on top: every request
that changes a rule, a group, a list, a scope mode or the global mode, the refresh
of a list, publication with its failure, reload, counted packets, cleanup and
statistics settings. Row ids are the ones SQLite gives out; an identity is random, or the
hash of a source and a name.

**PolicyStatistics** is the collector, its writer, the reloads and an applied restore with
its gate. A sample carries the generation and the database of the snapshot it was
evaluated with, so that a sample written to a database restored in between is
visible. A restore may fail at each step and its recovery may fail too.

**PolicyManagement** follows a change of a policy row from the request to the answer:
revision check, statement, publication to the runtime, sync record, audit, commit,
and what happens when one of these fails; the blocklist job does the same on its
own connection, and reloads, like every thread, on that of the control thread. Either
thread may fail at any step. A connection has a transaction depth as in `database.c`;
`users`, `broken` and `astray` record which threads took part in a transaction and whether
one was lost or confused by it. Rules stand for all rows that the handlers of `management_policy.c` and
`management_policy_modes.c` change by the same path.

**BlocklistSources** is a source from the edit to the stored list: the scheduled
round and requested refreshes (`Schedule`, `RequestRefresh`, `RequestImport`, `TakeJob`), one
update in three steps that other threads may come between (`Load` reads the row,
`Fetch` downloads or imports, `Store` records), conditional requests with
ETag and Last-Modified, pin and signature as the set of bodies that pass them, strict and tolerant imports,
back-off and health. A list that is activated may not be published, which leaves management
degraded (`unsynced`) and ends the round, and its transaction may fail; other changes of policy degrade
management too (`Desynchronize`), and while it is degraded no change, request or round is
accepted and a waiting job is refused. `Reload` and a restart end that, and nothing makes them happen.
A document is a sequence of records, a record a sequence of names.

**NetworkTransaction** composes the helper and the daemon. `Call` is the socket: a request
may not arrive, be refused as busy, or be served with its answer lost. The bridge
and the packet filter are separate pieces of kernel state. The daemon's handlers,
its journal, its recovery and its start-up are split at every call and every
transaction, and the daemon may die between any two of those.

**AtomicAppliance** is the abstract specification of the recovery journal: database,
server certificate, pending key, client authorities, TOTP key and catalogue of
backups change by whole operations only. **Recovery** is the journal itself: an
operation is prepared (`Prepare` reserves the one row), its files are snapshot, it is marked ready,
applied, committed and cleaned up; `Reconcile`, `RestoreFile`, `RestoreCheckpoint`
and `Settle` are the recovery after a failure or at start-up. The server thread and
the job worker run operations, which overlap as the one row lets them: which files exist is
looked up before the row is reserved, and snapshots are removed after it is cleared. Any step may
fail and the daemon may crash between any two; `Abandon` is the early return of a CSR job or an
installation that leaves its row armed. The ghost `previous` is the state a row was armed over.

**ManagementJobs** is the job queue: `Submit…` are the handlers that queue each kind
of job, `Take`, `Reauthorize`, `Start`, `Complete` the worker between its critical
sections, `Revoke` and `Regrant` what happens to the owner meanwhile, `Get` the poll, `Stop`, `WorkerExit` and `Destroy` the shutdown. An uploaded list is an
element of `heap` until it is freed.

**Identity** holds accounts, sessions, TOTP, recovery codes, tokens, certificate
mappings, the bootstrap secret and the audit chain. A request is one action because
one control thread serves them; a handler that commits several transactions may stop
after each. Every row that grants access carries a ghost of the account's state it was
earned under. `RestoreFull` brings back the accounts of a backup and keeps the chain.

**AlertDelivery** is the alert worker with its tables: a pass reads the configuration,
reconciles each key, prunes and delivers a batch; `Claim`, `Post` and `Complete`
are separate, so that everything else may happen between them. Operators configure,
rotate the secret and send test events; backups and both kinds of restore are
modelled by what they keep and what they replace; `Restart` is a crash.

**StreamTracker** is both stream trackers (the variable `protocol` says which) and the
part of the worker that evaluates what they emit. Bytes are real: a message is a
two-cell length, to the base `Radix`, and a body; sequence numbers wrap at `Modulus`.
A ClientHello has the same shape and is fed to the parser of the slot. The clients
(`Segments`, `Reconnect`) may cut, repeat, reorder and alter what they send. Ghost
fields of an entry record the bytes that were emitted and those that reached the
server. **FragmentTracker** is the table of `fragment.c` with the evaluation of a
completed datagram; the sender cuts the payloads of one identification in any way and
mixes them, and `collected` is what the host behind the gateway holds.
**DataplaneWorker** composes the two as `jg_dataplane_worker_process` does: a
fragment goes to one, a segment to the other.

Eight modules hold the theorems (section 5): **PacketRuntimeProofs** (`PolicyStore`,
`Daemon` and the two together), **PolicyRowsProofs** (`PolicyEvaluation`,
`PolicyAnalysis`, `PolicyHistory`, `PolicyRows`), **PolicyStatisticsProofs**,
**PolicyManagementProofs**, **ManagementJobsProofs** (`ManagementJobs`,
`BlocklistSources`), **DataplaneWorkerProofs** (`StreamTracker`, `FragmentTracker`,
`DataplaneWorker`), **RecoveryProofs** and **ManagementProofs** (`Identity`,
`NetworkTransaction`, `AlertDelivery`). Where one of them is about several modules, those
name their specifications apart (`DaemonSpec`, `SourcesSpec`, `NetworkSpec`, `AlertSpec`, ...).

Each module also holds the mutants of its definitions, named for what they
break (`ReplaceScanOnce`, `JudgementOfFirst`, ...). For each property
`PROJECT.json` names a mutant, a plausible bug in the code, that violates it.

## 3. Runs

| Run | Shows | Bounds, and why they suffice |
|---|---|---|
| `packet_runtime` | no use after free, refinement of SnapshotCell, replacement ends; nothing is released under a running thread, waiting packets are answered, every stop ends in an exit whose status tells of a failure | Store: 2 readers, 2 writers, 3 addresses: the third lets an address be freed and reused while both readers are between load and check; 3 generations allow two reloads, with which the first address comes back, and the overflow guard. The safety part is proved for all sizes. Daemon: 2 workers (one may fail or not start while the other runs), queues of 1 packet (full and overflowing), one client, one failure at any step. Symmetry is not used because of liveness |
| `policy_rows` | a decision equals the precedence of the reference definition; observation only weakens; simulation, analysis and packets agree; an identity means one rule; counters of the budgets are exact; statistics follow their rule | 2,232 stored policies: up to 3 of 8 domain rules, a list entry, destinations, a group that is on or observed, a scope mode, for 2 clients, 2 names, 3 destinations. Every pair of layers that the precedence orders meets in some policy, and a third rule can come between. These are judged as they are; 4 small policies are changed in 3 or 4 requests, enough to delete, re-create, count and clean up; in the one with a list one publication may fail as well, so that a refresh, a failed publication, a counted packet and a reload follow one another. Addresses of 2 bits have a network, a half and a host |
| `policy_statistics` | every sample accounted, no sample crosses a restore, restore ends | one worker, queue and batch of 1: the collector treats samples alike, a full queue and a drained-but-unwritten batch occur with 1; two databases make one restore, 4 generations two reloads beside it |
| `policy_management` | outside the named situations: honest degraded flag, durability | 3 changes or reloads by an operator and the job on 2 rows in each of 2 tables, 2 faults of any thread anywhere: a failed commit and a failed reload after it, a failure of each thread in a shared transaction, a crash on top of a failure |
| `blocklist_sources` | a source keeps what its configuration makes of the document last found at its server; a due source is tried unless management is degraded, whatever becomes of the others | 2 sources, 2 servers, a document with and without ETag and one with a bad record, local uploads. 4 beginnings, each with its own kinds of events (edits and lost transfers; documents and validators; uploads and crashes; failed publications, failed transactions and crashes) and 3 or 4 of them: one while a download runs, one after |
| `network_transaction` | agreement of kernel and database, rollback, journal, eventual settlement | 3 configurations (stored, pending, another pending), 4 faults in any combination: a confirmation that fails, a recovery of it that fails, a start-up that fails and one more can all happen in one behaviour |
| `recovery` | a healthy idle daemon has nothing half applied, no stray archive and the matching key; refinement of AtomicAppliance but for two named lapses; an armed row is settled, left with nothing changed, or management is degraded | 2 generations of each file, 2 archive names, one failing step (an early return included) and one crash anywhere, both threads: every phase is entered by a failure, by a crash, and by a crash during the recovery of a failure |
| `identity` | credentials are current, an administrator remains, changes are audited | 2 users, 2 passwords, a certificate, a recovery code, time 2, 4 requests that change state: enough to issue, change the account, change it back and use. From a new appliance, and from one with an administrator with or without TOTP. Users and passwords are symmetric |
| `management_jobs` | exclusion, revocation, answers | 3 slots (2 for users), 1 per actor, 2 users and the local operator, 3 jobs, one tick: full, reusable and expired slots all occur |
| `alert_delivery` | nothing lost, outbox drains, incidents follow conditions | one key, 2 attempts, batch of 2, any 2 disturbances: interactions in the code are between one disturbance and the worker, the second is a crash or restore on top |
| `stream_inspection` | inspected bytes are the received ones, nothing refused passes, orderly streams pass, no blocked datagram can be assembled | 2 flows of one source in 2 slots, quota 1; streams of 2 messages that together fill or exceed the window; initial sequence number shortly before the wrap; segments of 1 and 3 bytes at any offset, one altered cell in the length or the body; one reconnect. 2 datagrams of one sender in 2 slots, quota 1; 2 fragments of 0 to 2 units; two payloads that can be mixed, one blocked |
| `policy_inherited_history` | expects a violation, see section 6 | the scenario of a group with a rule |

`CHECK_DEADLOCK FALSE` is set where the system may stop: after a shutdown
(`packet_runtime`, `policy_statistics`, `management_jobs`), when the bounded requests are
used up (`policy_management`, `policy_rows`, `identity`, `recovery`,
`blocklist_sources`) and when the clients have nothing left to send (`stream_inspection`).

`OrderlyStreamsPass` speaks of connections whose partial message and next segment fit
into the window and whose segments complete at most `MaxMessages` messages; the
limits of the configuration are chosen that way and the property would be false
otherwise, as the code intends. A flow counts as followed from its first SYN until it is
given up, reset or has expired; a later SYN of the same connection starts a new
entry in the code, and the model no longer compares it with the server.

`NothingBlockedIsAssembled` assumes that the host behind the gateway keeps pieces no
longer than the tracker does, and that it assembles as soon as it can. The tracker does not remember
a datagram it has completed, so a completing fragment that is sent again after a blocked
datagram starts a new entry; the property exempts these (`again`).

`ListIsWhatWasServed` and `DueSourcesAreTried` exempt the cases of section 6 in which an
outcome is recorded for another source (`origin.own`, `misplaced`), and assume of servers
that an ETag names one body and that a new document has a later modification date.

`HistoryFollowsRule` speaks of steps from a state in which the published policy is the stored
one. When the publication of a refresh fails, packets are still counted with the row
identifiers of the old snapshot, and recording a match moves the lifetime row back to
the row that the refresh has replaced; the next count after the reload moves it
forward again. The identity, and with it the counters, stay right meanwhile
(`IdentityMeansOneRule`).

`DrainAnswersWaiting` allows one unanswered packet for every overflow that the socket reports
during the drain: `drain_messages` counts turns, and a turn that brings ENOBUFS counts
like one that brings a packet (`daemon/nfqueue.c:352`).

Some properties are stated in the modules and are in no run. `TypeOK`,
`ReplacementIsPrivate`, `OneSnapshotAtRest` and `GenerationsNeverGoBack` of `PolicyStore`
and `TypeOK`, `SystemSlotReserved`, `UploadsHaveOwner` and `ResultsAreKept` of
`ManagementJobs`, `PauseQuiesces` of `PolicyStatistics`, `CheckpointIsKept` of
`NetworkTransaction`, `AttemptKeepsItsRow` and
`TransportBelongsToOutbox` of `AlertDelivery`, `NoOtherGeneration` of `RecoveryProofs` and `ExitStatusTells` of
`PacketRuntimeProofs` are proved (section 5). `StopCompletes` (`PolicyStatistics`) holds under
the configuration of its module's run; the type invariants of the other modules can be added to their runs in the same way.

## 4. Fairness

Weak fairness of a thread's steps says that the kernel schedules threads that can
run and that calls into SQLite and system calls return. It is assumed

- in `PolicyStore` for a reader that has started to acquire and a writer that has
  started to reload, not for starting (packets and reloads may never come);
- in `Daemon` for every thread's next step that does not fail; a client that does not
  send or read is given up after `JG_CONTROL_IO_TIMEOUT_SECONDS`, so that an exchange ends;
- in `PolicyStatistics` for the writer, a reload and a restore that are under way,
  and strongly for taking `policy_mutex`, which two threads use for short sections:
  a thread that waits for it gets it although the other may take it again;
- in `NetworkTransaction` for the daemon's own steps including its restart (`janusgated.service`
  has `Restart=always`), for the clock, and for the helper's poll once a second;
  not for any operator;
- in `Recovery` for a restore that waits for the gate (mutations are short) and for each
  thread once it has begun an operation or a start-up, not for beginning one;
- in `BlocklistSources` for the scheduled round, which a timer of the control server
  starts and which is enabled only while management is not degraded, and for the job worker, whose
  downloads have a timeout; not for the reload that ends a degradation;
- in `ManagementJobs` for the worker; in `AlertDelivery` for the worker, for a restore
  that has begun, and for the clock. The receiver may fail for ever but a request
  ends, because it has a timeout.

Faults and operators are never fair.

## 5. Proofs

Every safety property of a passing run but one, the action properties and both
refinements are theorems. Each is stated for every value of the constants, under the named
assumptions of its module, which TLC evaluates on every run.

### Policy store and daemon (`PacketRuntimeProofs`)

For every number of readers, writers and addresses and
every last generation (assumptions: `ReaderAssumption`, `GenerationAssumption`,
`NullAssumption`) `Spec` implies

- `TypeCorrect`: the type invariant;
- `NoUseAfterFree`: `ReadersSeeStableSnapshot`;
- `PrivateUntilExchange`: `ReplacementIsPrivate`;
- `NoLeak`: `OneSnapshotAtRest`;
- `MonotonicReads`: the action property `GenerationsNeverGoBack`;
- `Refinement`: `SnapshotCell`'s specification under the mapping of `PolicyStore`.

None of the invariants is inductive by itself. The inductive invariant `IndInv` adds
four parts to the types. `MutexInv`: a writer is inside its reload exactly while it
owns `policy_mutex`, so that there is one. `WriterInv`: what the locals of that writer
point to at each step, and how the published generation relates to
`policy_generation`. `OwnerInv`: an allocated snapshot is the published one, the
replacement of the writer that is about to exchange, or the one it is scanning for;
freed addresses belong to no one. `ReaderInv` is the hazard-pointer argument: a reader
that passed the check evaluates the published snapshot, or one that a writer took out
*after* the check and is still scanning for at or before this reader's slot. The
scan cannot pass the slot because the slot holds the pointer; a reader whose slot
the scan has passed before it was filled fails its check, because the exchange
came first. `InitIndInv`, `ReaderPreserves` and `WriterPreserves` (one case per
action, one step per conjunct) make it inductive; monotonic reads and the
refinement follow step by step from it.

Proved for every sequence of distinct queues, every queue length and
every number of failing steps (`QueuesAssumption`, `LengthAssumption`) that `DaemonSpec` implies

- `ThreadsHoldWhatTheyUseHolds`: `ThreadsHoldWhatTheyUse`;
- `DrainAnswersWaitingHolds`: `DrainAnswersWaiting`;
- `ExitStatusTellsHolds`: the exit status is 1 exactly when something failed, the safety
  half of `StopEndsInExit`.

`DaemonInv` has, beside the types, three parts. `ReleaseInv`: what is released is a prefix of
the order in `Destroyed`, the threads of each released part have ended, and the control
and the signal thread, which touch every part, live only at places of `main()` before the
first release. `DrainInv`: a draining worker has answered or skipped one packet for each
turn, so that `due + drained <= QueueLength + skipped`, and the loop's bound on turns is
the queue length. `StatusInv` says where a failure is on record until `main()` has
turned it into its status.

`RuntimeIsSafe`: `RuntimeSpec`, the two together, has the safety properties of both; each
part keeps its invariant while it is followed and rests otherwise.

### Policy, its analysis and its statistics (`PolicyRowsProofs`)

Proved for every address width (`WidthAssumption`), all clients, names, destinations and
requests and all stored policies (`PolicyAssumption`, `IdentityAssumption`), that `Spec`
implies

- `DecisionsFollowPrecedence`: `DecisionFollowsPrecedence`;
- `ObservationsOnlyWeaken`: `ObservationOnlyWeakens`;
- `SimulationsAgreeWithPackets`: `SimulationAgreesWithPackets`;
- `AnalysesAreSound`: `AnalysisIsSound`;
- `BudgetsStayExact`: `BudgetsAreExact`;
- `IdentitiesMeanOneRule`: `IdentityMeansOneRule`;
- `HistoryStaysWithRule`: the action property `HistoryFollowsRule`.

The assumptions say of the policies a behaviour starts with what the columns and CHECK clauses
of the schema enforce (effects, scopes, one row per identifier, a UNIQUE `statistics_id`),
that they could be published, and of requests what their parsers let through; a list has a name once because
`finalize_blocklist` sorts and removes duplicates.

`PolicyInv` (`PolicyInvHolds`): the rows stay of that form, the snapshot is one that `Build` makes, and
unless a publication failed it is the one of the rows. One lemma per request shows that
what it publishes is well formed. The decisions are then facts about one snapshot: the fold
of `BestDomainRule` over the rules of a slot and the walk of `MatchDomain` from the
longest suffix to the shortest are shown to select the rule that no other precedes, because
the precedence is a strict order on the rules that match and the walk prefers what it met first exactly
where the reference does. Lifting all observation changes enforcement and no
comparison, which gives `ObservationOnlyWeakens`; a simulation and a packet use the same two
matches, so that their agreement is a case distinction over the paths. For `AnalysisIsSound` each relation
that the SQL reports is shown to give a loaded rule that precedes.

`HistoryOK`: the three counters *are* a function of the rows (`Exact`), the rows have unique keys, and
each trigger commutes with that function, so that an insert, a delete of a batch and the
renaming of a refresh (`RenamedIsExact`) keep them equal. `IdentityInv` (`IdentityInvHolds`) looks at the pairs of identity and
meaning that are *held* by the rows, by the published snapshot and by the lifetime statistics together
(`DomainHeld`, `DestinationHeld`): each was given out at random before (`GivenOut`) or is the hash
of a source and a name with the meaning of an entry, and one identity has one meaning
(`Consistent`). The property about history and rows alone is not inductive: a deleted
or edited rule that is still in the snapshot goes on being counted, and a list that
is deleted and created again hashes to the identities it had.

Folds and searches are recursive functions over subsets or positions. What they compute is
shown without an induction theorem: by a least counterexample (`LeastNumber`, from the
well-foundedness of `<`) and by the smallest subset of a finite set that a property fails for.

### Trackers of a packet worker (`DataplaneWorkerProofs`)

Proved for all flows, datagrams, payloads, streams and limits (`LimitsValid`,
`FragmentLimitsValid`) that `WorkerSpec` implies

- `WorkerInspectionFollowsStream`: `InspectionFollowsStream`;
- `WorkerNothingRefusedPasses`: `NothingRefusedPasses`;
- `WorkerAssemblesNothingBlocked`: `NothingBlockedIsAssembled`.

`LimitsValid` bounds a stream by half the sequence space, without which the comparison of
32-bit sequence numbers is ambiguous and a segment of an earlier turn would be taken
for a new one; the window has room for a message with its length.

`StreamInv` says of a followed flow that is not rejected: its base is the position after what was
emitted, what was emitted and what waits in the window are the bytes that reached the server
(`Inspected`), the parser was fed what was emitted, and (`CleanInv`) what was emitted contains
no refused message and ends at a message boundary, while the contiguous bytes of the window do not
complete one. That last part is what makes `NothingRefusedPasses` inductive: the server
reads more than was inspected, but no whole message of it. `FragmentInv`: fragments
of an entry do not overlap, and the host has exactly those (`HostInv`), unless the
datagram was blocked before.

### Management jobs and blocklist sources (`ManagementJobsProofs`)

Proved for every set of credentials, owners and sources, every
capacity of at least two slots, every retention and every bound on jobs and time
(assumptions: `ActorAssumption`, `CapacityAssumption`, `BoundAssumption`), that `Spec`
implies

- `TypeCorrect`: the type invariant;
- `UploadsFreedOnce`: `UploadsHaveOwner`;
- `Exclusion`: `ExclusiveJobs`;
- `NoRevokedJobRuns`: `RevokedJobsNeverRun`;
- `SlotForTheScan`: `SystemSlotReserved`;
- `ResultsKept`: the action property `ResultsAreKept`.

The worker unlocks the queue three times during a job, and the argument is what
stays true of its slot meanwhile. `UniqueInv`: a job number names at most one slot, so
that `find_job` finds the worker's own. `WorkInv`: the slot with the number of the
worker's copy agrees with the copy. Nobody else touches that slot, because a slot
whose job is not completed is not reusable; until `Start` both hold the
same upload, afterwards only the copy does, and since an upload is named by its job's
number (`SlotInv`) no third place can hold it. A credential that fell before
the second authorization is invalid until it is given back, so its verdict is a refusal; `WorkInv` records
that a slot whose job was authorized is not marked lost.
`CapInv` counts the unread jobs of users, at most one fewer than the slots: a submission adds
one under the guard, and reading, completing and the passing of time only make slots
reusable. Exclusion needs the same monotonicity.

For all configurations, documents, limits and events (`SourcesValid`), `SourcesSpec` implies
`SourcesListIsWhatWasServed`: `ListIsWhatWasServed`. `SourcesInv` has two parts that make it
inductive. `SoundRow` adds to the property the validators a row carries: an entity tag is
that of the body, and a date alone is that of a version the server has had, and of the
body if it is the present version; otherwise a 304 answer to the next conditional request
would confirm another list. `LoadedInv` relates the row that a download
read to the row there is now: it is the same, or an older revision of it, or the row
was created since and has no list; `OutcomeInv` says what each outcome brings to its
transaction.

### Policy statistics, identity, network, alerts

`PolicyStatisticsProofs` proves for any packet workers, capacities and bounds
(`QueueAssumption`, `BoundAssumption`, `ChoiceAssumption`) that `Spec` implies

- `EveryEventIsAccountedHolds`: `EveryEventIsAccounted`;
- `PauseQuiescesHolds`: `PauseQuiesces`;
- `NoSampleCrossesRestoreHolds`: the action property `NoSampleCrossesRestore`.

The first holds together with `StopInv` (nothing is queued while paused or after the stop).
The second needs `PauseInv`: one thread reloads, one holds the pause, and a
reload that found the collector paused by a restore is not the one that resumes. The third needs
`SampleInv`: a generation names one snapshot (`GenerationInv`); outside the window between the
change of the database and the end of the reload that publishes it, the published snapshot
and every sample that a resume could admit come from the present database (`SettledInv`);
hence what is queued and batched does too (`AdmittedInv`).

`ManagementProofs` proves for any configurations, any number of failures and
crashes, and whatever may fail (`ConfigAssumption`, `BoundAssumption`, `ChoiceAssumption`) that
`NetworkSpec` implies

- `ConsistentWhileHelperLivesHolds`: `ConsistentWhileHelperLives`;
- `RollbackRestoresPriorHolds`: the action property `RollbackRestoresPrior`;
- `JournalEndsInAgreementHolds`: the action property `JournalEndsInAgreement`;
- `CheckpointIsKeptHolds`: the action property `CheckpointIsKept`.

`HelperInv` relates the kernel to the helper's memory, `DiskInv` the stored row and an
armed journal entry to what the helper has confirmed, and `PlaceInv` says for each
place between two calls of the daemon what may be pending there. Its core is that, during a
confirmation or a recovery, only the configuration at stake can be pending, so that an
expiry at any moment ends in one of the two configurations of the journal entry.

`ManagementProofs` proves for all users, passwords, certificates, codes, lifetimes and bounds,
without an assumption on the constants, that `Spec` implies

- `CredentialsAreCurrentHolds`: `CredentialsAreCurrent`;
- `ChangesAreAuditedHolds`: `ChangesAreAudited`;
- `AdministratorRemainsHolds`: the action property `AdministratorRemains`.

`CredentialsAreCurrent` speaks of what would be accepted at this moment and is not inductive: a disabled
account may be enabled again, and a backup may come back. `IdentityInv` says that *every* stored session and every
token that is not revoked, in the present database and in the backup, agrees
with its account (`Sound`). Each transaction that changes a password, a role or an enabled factor therefore has to
remove or revoke what depends on it, and the proof goes through them one by one. `AuditInv` has
the length of the chain beside its links.

`ManagementProofs` proves for all conditions and limits and any number of disturbances (`LimitAssumption`) that `AlertSpec` implies

- `NothingIsLostHolds`: the action property `NothingIsLost`;
- `AttemptKeepsItsRowHolds`: `AttemptKeepsItsRow`;
- `TransportBelongsToOutboxHolds`: `TransportBelongsToOutbox`.

`AlertInv` says of every row, in the outbox and in the backup, that it has counted no more
attempts than failed while it waits, and that it is acknowledged or had
as many failures as allowed when it is done; of the claimed row, after the
receiver has answered, that the answer is one more than what is counted (`Answered`). That the claimed
row is there needs the gate: a restore replaces the outbox only while the worker is outside. The
retention keeps waiting rows because the positions it keeps are counted without
gaps (`PlacesAreDense`).

### Recovery and policy mutations

`RecoveryProofs` proves for all names, generations and numbers of failures and crashes
(`BoundAssumption`, `AbsenceAssumption`), whatever overlaps, that `Spec` implies

- `ImplementsAtomicApplianceHolds`: the refinement `ImplementsAtomicAppliance`;
- `HealthyAtRestHolds`: `HealthyAtRest`;
- `NoOtherGenerationHolds`: `NoOtherGeneration`, what a recovery puts back is of the generation
  that its row was armed over.

`RecoveryInv` follows one operation through its life. `RowOf`: one thread has
the row and knows what it says. `PlanOf` and `ProgressOf`: what the
operation is going to do, what of it is copied, done or put back. `JournalInv`: a row that
is armed and not ready is that of a restore whose database is back. `SnapshotInv`: a snapshot of an armed
row is what the row was armed over, or it is gone, because the other thread's clean-up
took it, and the recovery then stops degraded; the checkpoint holds the same row before it was armed.
`ArchiveInv` and `ArmedInv`: an archive without record is reported, and so is an armed row without
a thread, unless it has changed nothing. `LookupInv`: what an operation takes for a new file is
new, but for the pending key, the only file that both threads work on. A step is then one of `AtomicAppliance` exactly
when it commits an operation: the refinement mapping reads the durable state through
`previous` while a row is armed, and every other step, failure or crash leaves the mapped state as it
is (`NextRecoveryInv`, one lemma per action), but for a `Settle` that is one of the two lapses of section 6.

`PolicyManagementProofs` proves for all operators, values and bounds (`BoundAssumption`,
`ValueAssumption`), with failures of either thread at any step and crashes anywhere, that `Spec` implies

- `AcknowledgedIsDurableHolds`: `AcknowledgedIsDurable`;
- `HonestHealthHolds`: `HonestHealth`.

`ManagementInv` holds in every state (`ManagementInvariant`): `LockInv`, at most one connection is in a
transaction, and at each place who is in it; `DurableInv` unless `broken`, what an open transaction
will store is what was promised with the changes of the threads that are in it; `HealthInv` unless `astray`.
That part says that a thread has its transaction on "main" to itself, that a published change is what its
transaction holds (`ChangeOf`), that a reload does not change rows (`ReloadOf`), that a difference
between desired and applied revision is reported or about to be (`Comparing`), and that the runtime
has the stored policy, or the stored revisions differ, or somebody
is at a place from which it will be published (`Repairing`). With no request under way
the last is impossible and `Comparing` rules out the second. The step out of `astray` is the hard one:
a thread that publishes alone establishes `HealthInv` anew, whatever was before.

### Only model-checked

- All liveness: `ReplaceTerminates`, `StopEndsInExit`, `RestoreFinishes`, `EventuallySettles`,
  `DueSourcesAreTried`, `AcceptedIsAnswered`, `OutboxDrains`, `IncidentsFollowConditions` and `ArmedSettles`. It
  needs fairness and `ENABLED`, which the provers do not handle.
- `OrderlyStreamsPass` of `StreamTracker`. It depends on how the streams are framed and on segments that
  fit into the window and complete few messages (section 3): properties of the clients that no
  code enforces, so that the theorem would rest on assumptions without a source.
- `HistoryIsOwn`, which the code violates (section 6).

## 6. Where code and documents disagree, and other observations

`policy_inherited_history` is a run with an expected violation and an entry under
`findings`. Deleting a group deletes its rules by cascade and leaves
their statistics; SQLite gives the next rule the identifier of a deleted one, and the
readers look statistics up by `rule_id`: the new rule is shown with the
old rule's matches. `CHANGELOG.md:11` says that lifetime history cannot be inherited
by an unrelated rule. Recording itself is keyed by identity, so `HistoryFollowsRule`
(what is counted goes to the rule that matched) holds.

The models refute more statements when they are given other constants. Each line names the
property and what to change in its module's configuration.

- *A configuration reload* publishes a new generation without telling the collector,
  which then refuses all samples as stale: `StaleMeansSuperseded` (`PolicyStatistics`;
  `ControlOps = {"configure"}`, `MaxDatabase = 1`, `MaxEvents = 1`, `RefreshMayFail = FALSE`).
  An IPC reload that overlaps the end of a restore does the same (`ControlOps = {"ipc"}`,
  `MaxGeneration = 5`).
- *A failed restore*: a restore that fails after replacing the database and whose
  recovery fails too may let a sample reach the other database (`SampleStaysHome` in place
  of `NoSampleCrossesRestore`); the appliance is degraded then.
- *A helper restarted inside the confirmation window* forgets checkpoint and deadline and
  the provisional configuration stays, against `docs/recovery.md:13`:
  `SettledIsConsistent` (`NetworkTransaction`; `Faults = 1`, `MaxRevision = 2`,
  `KernelMayFail = FALSE`). For the same reason `RollbackRestoresPrior` needs its conjunct `intact`.
- *An allow rule in an observed group* is stored (`docs/cli.md:88` offers observation for an
  entire group), but `policy.c:155` refuses it when the snapshot is built: publication fails,
  and every later one until the rule or the group is changed: `StoredPolicyPublishes` (`PolicyRows`;
  `Scenarios <- MCAllowScenarios`). The limit of 1,000,000 rules has the same effect: it is
  checked per source at activation and in total at load.
- *A deleted blocklist source* leaves its incident open: `NoOrphanIncident`
  (`AlertDelivery`; `MaxDisturbances = 1`).
- *A lifecycle action whose answer is lost* stays pending, and the next client's exchange
  performs it, whatever that client asked for; `daemon/control_server.c:265` says "only after
  its response is delivered": `ActionFollowsItsAnswer` (`Daemon`; `MaxRequests = 2`).
- *A SIGUSR1 sent to the process* ends the signal thread, which takes it for the wake-up of
  `main()` (`daemon/main.c:96`); a later SIGTERM then stays pending and the daemon goes on:
  `StopEndsInExit` (`ForeignWake = TRUE`).

Some properties name situations in which they would be false; the models reach them, and TLC
refutes the property without the name.

- *A failed reload* (`astray` in `HonestHealth`): after an abandoned change whose reload failed, a
  later health refresh clears the degraded flag because the two stored revisions are equal
  (`daemon/management.c:89`, `docs/administration.md:51`).
- *A shared connection* (`broken` in `AcknowledgedIsDurable`, `astray` in `HonestHealth`): a reload by the job thread opens a
  transaction on the control thread's connection (`daemon/daemon_runtime.c:77`). A change that nests
  in it is acknowledged before it commits, and is lost when the other thread rolls back or the daemon dies;
  and one thread records the policy of the other as applied.
- *A stale lookup* (`Missed` in `ImplementsAtomicAppliance`): a CSR job or an installation looks up the
  pending key before it reserves the journal row (`daemon/management_certificate.c:683`). If the other thread stores or puts
  back a key in between, a recovery takes it for new and removes it.
- *A recovery interrupted before it rearms* (`Unarmed` there): the restored checkpoint carries the row as it was
  before it was marked ready; if marking it fails, or the daemon dies there, the next start-up
  discards the operation and leaves the files of the restore with the previous database
  (`daemon/management_recovery.c:617`, `docs/recovery.md:122`).
- *An early return* (`Left` in `ArmedSettles`): a CSR job whose key store answers -EINVAL or -EBUSY and an
  installation whose store answers -ENOENT return without `abort_recovery_operation`
  (`daemon/management_certificate.c:486`, `:717`). Nothing has changed, management is not degraded, and the armed row
  refuses every other recoverable operation until the daemon starts again.
- *A degraded appliance* (`unsynced` in `DueSourcesAreTried`): scheduled rounds are refused until an
  operator's reload or a restart (`daemon/management_blocklist.c:1409`).

Behaviour that the models contain, without a property that forbids it:

- Identity: a local administrator may create an operator as the first account; bootstrap
  is then closed although no account can administrate the web interface.
- Recovery: the snapshots are removed after the row was cleared (`daemon/management_recovery.c:673`), so
  that an operation which the other thread starts in between loses its own; should it fail later, its
  recovery stops degraded with the row armed, and so does every start-up. `docs/recovery.md:123` has
  the snapshots of an armed row complete.
- Policy: row ids are reused and revisions start again at 1, so that an operator with an old screen may
  address a new row.
- Blocklists: an edit keeps the validators and the next attempt, so that a 304 answer
  keeps the list of the former URL, mode or pin, and an unsolicited 304 does too. Ids and revisions are reused: when a
  source is deleted and another created during a download, the outcome is recorded
  for the new one; without the exemption `DueSourcesAreTried` is refuted. A `retry_base`
  near `INT64_MAX` makes every round end in -EOVERFLOW.
- Fragments: a duplicate does not extend the deadline; a last fragment that ends before
  retained ones is stored.
- Policy: `jg_dataplane_evaluate_reassembled_udp` is called by tests only, and emergency
  rules come only from `jg_database_replace_domain_rules`, which nothing
  calls. The analysis does not look at whether a group or a source is enabled.
- Alerting: the occurrence counter of a key restarts when all its rows were pruned; a
  resolution may be delivered before the opening whose attempt failed.
- Streams: a DNS-over-TCP message that does not parse is dropped with its segment, but
  `reset_blocked_stream` answers -EINVAL before it rejects the flow
  (`daemon/dataplane_worker.c:430`): the bytes count as consumed and a
  retransmission is taken for a duplicate. `StreamTracker` stops following a
  flow there; `NothingRefusedPasses` speaks of it up to that point.

## 7. What is left out

- Failures of `pthread` calls, of the random generator and of memory allocation
  where the code only returns an error; a ROLLBACK that SQLite refuses.
- The control and the job thread read and write `transaction_depth` of the shared
  connection without a lock; the model takes each call as atomic.
- Parsing, formatting, read-only handlers, listings and JSON, the text of
  rules and messages, cryptography, exports to a local path, migrations.
- Rate limiters, limits on the size of the database, the 16-id limit of the analysis,
  encrypted-DNS endpoint rules (a table of addresses and names beside the policy).
- A `fsync` of the directory after the `rename` of `atomic_write` that fails with EINVAL, EBUSY or ENOENT: an
  early return of `management_certificate.c` (`Abandon`) has stored nothing.
- In `BlocklistSources`, the other reasons for which management is degraded; they have the same
  guards and last until a restart.
- In `AlertDelivery`, how long a window is over which queue drops and rejected credentials are
  counted: its condition is what the last complete window showed. A reconciliation of it that failed is
  made up for in the next pass, and in the code after the next window.
- In `ManagementJobs`, which credential is a session, which never comes back, and which a token.
- A sample is captured and written in one step in `PolicyRows`, because a publication
  pauses the collector; the collector by itself is `PolicyStatistics`.
- A wall clock that steps back (expiry of job results, `resolved_at >= opened_at`,
  deadlines of sources), and counters at `INT64_MAX` other than `policy_generation`.
- A refresh that joins a waiting one of the same source without comparing revisions
  (`management_jobs.c:263`): no document says which revision it uses.
- Components with the status `not_modelled` in `PROJECT.json`.

## 8. Plan

Built so far, in this order: policy store with its abstract cell and proofs,
statistics with the restore gate, network transaction, policy mutations, job queue and
proofs, alerting, stream inspection; then identity and audit, backup and recovery with
its abstract appliance, policy evaluation, analysis, rows and history, blocklist
sources, fragments and their composition with the streams, and the life of the daemon
with its packet workers and control server; then the proofs about the daemon, the
statistics, the network transaction, identity, recovery and policy mutations; last the
proofs about the trackers of a packet worker, blocklist sources, the policy with its
analysis and statistics, the composed runtime and alerts.

Next, by importance:

1. The remaining parts of a configuration reload (DNS response mode, logging) and UDP
   answers in `DataplaneWorker`.
2. The limits of concurrent requests in the web gateway.

Theorems to prove next: the type invariants that no theorem states yet.
