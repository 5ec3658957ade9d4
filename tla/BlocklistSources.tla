--------------------------- MODULE BlocklistSources ---------------------------
(* The blocklist sources of the appliance and the job thread that keeps their  *)
(* lists current: rows and their status (database_blocklist.c), the edits of   *)
(* the management handlers and the scheduled round (management_blocklist.c),   *)
(* one update from reading the row to storing its outcome                      *)
(* (blocklist_update.c, blocklist_remote.c) and the import of a document       *)
(* (blocklist.c).  A download is not part of any transaction: between reading  *)
(* a source and recording what came of it the control thread may edit, delete  *)
(* and re-create sources, and the document at the server may change.           *)
(*                                                                             *)
(* A document is a sequence of records, a record a sequence of names; a name   *)
(* that no format accepts is Bad.  The pin and the signature of a source are   *)
(* the set of bodies that pass them.  How a changed list is published is the   *)
(* subject of PolicyManagement; here a publication succeeds or fails, and      *)
(* management is degraded until the runtime and the database agree again.      *)
EXTENDS Integers, Sequences, SequencesExt, FiniteSets, FiniteSetsExt

CONSTANTS
  Servers,            \* the places a source can be downloaded from
  Documents,          \* [Servers -> sets of [body, tagged, dated]]
  Configs,            \* configurations an operator may give to a source
  Beginnings,         \* where a behaviour may begin: the sources there are, in order of
                      \* their ids, and the bound that comes with them, a number of
                      \* edits, requests, new documents, lost transfers, crashes and
                      \* seconds together, of the given kinds
  Uploads,            \* bodies an operator may upload to a local source
  Bad,                \* a name that does not normalize
  MaxEntries,         \* JG_DATABASE_POLICY_RULE_LIMIT
  Interval,           \* update_interval_seconds
  RetryBase, RetryMax,
  MaxId               \* bound: source ids

NoTag == <<>>         \* an absent ETag
NoDate == 0           \* an absent Last-Modified
LocalServer == "local"      \* the server of a source without URL
Ids == 1 .. MaxId

ASSUME SourcesValid ==
  /\ LocalServer \notin Servers
  /\ \A c \in Configs \cup UNION {Range(b.configs) : b \in Beginnings} :
       /\ c.server \in Servers \cup {LocalServer} /\ c.mode \in {"strict", "tolerant"}
       /\ c.enabled \in BOOLEAN
  /\ \A b \in Beginnings : Len(b.configs) <= MaxId /\ b.events \in Nat
  /\ {Interval, RetryBase, RetryMax, MaxEntries} \subseteq Nat \ {0}
  /\ RetryBase <= RetryMax /\ MaxId \in Nat

VARIABLES
  rows,      \* sources with their status and their entries, NoRow where there is none
  served,    \* [Servers -> the document there is now and the number of its version]
  queue,     \* jobs waiting for the job thread, oldest first
  worker,    \* the job thread
  now,       \* the wall clock
  unsynced,  \* MANAGEMENT_DEGRADED_POLICY_SYNC: management refuses changes
  events,    \* which events may still come, and how many
  misplaced  \* a download was recorded under a source created after it began

sourcesVars == <<rows, served, queue, worker, now, unsynced, events, misplaced>>

-----------------------------------------------------------------------------
(* Import of a document *)

(* stage_entry: the limit is looked at before the name. *)
StageEntry(count, name) ==
  IF count >= MaxEntries THEN "E2BIG" ELSE IF name = Bad THEN "EINVAL" ELSE "ok"

(* parse_text_record: the names of a record are staged one by one; the first   *)
(* that fails decides what becomes of the record.                              *)
RecordResult(staged, record) ==
  LET result(i) == StageEntry(Len(staged) + i - 1, record[i])
      failing == {i \in DOMAIN record : result(i) # "ok"}
  IN IF failing = {} THEN "ok" ELSE result(Min(failing))

RecordErrorRecoverable(result) == result = "EINVAL"

(* One turn of parse_text or parse_json. *)
ParseRecord(stage, record, mode) ==
  LET result == RecordResult(stage.names, record)
  IN IF stage.result # "ok" THEN stage
     ELSE IF result = "ok" THEN [stage EXCEPT !.names = @ \o record]
     ELSE IF mode = "strict" \/ ~RecordErrorRecoverable(result)
     THEN [stage EXCEPT !.result = result]
     ELSE stage

(* finalize_blocklist sorts the entries and removes duplicates. *)
Finalize(names) == Range(names)

(* jg_blocklist_import *)
Import(body, mode) ==
  LET stage == FoldLeft(LAMBDA s, r : ParseRecord(s, r, mode),
                        [names |-> <<>>, result |-> "ok"], body)
  IN [result |-> stage.result, entries |-> Finalize(stage.names)]

-----------------------------------------------------------------------------
(* Rows *)

NoRow == [revision |-> 0]

Exists(id) == rows[id].revision > 0

(* The last three fields are the model's own: a mark that tells the source     *)
(* from the one a running download was begun for, where the entries came from, *)
(* and what was at the server when an attempt last succeeded.                  *)
NewSource(config, born) ==
  [config |-> config, revision |-> 1, etag |-> NoTag, modified |-> NoDate,
   success |-> 0, next |-> 0, failures |-> 0,
   active |-> FALSE, health |-> "unknown", entries |-> {},
   born |-> born, origin |-> [config |-> config, own |-> FALSE, revision |-> 0],
   checked |-> <<>>]

(* The row id SQLite takes when none is given. *)
NewId == Max({0} \cup {id \in Ids : Exists(id)}) + 1

Remote(row) == row.config.server # LocalServer

(* The sources a round of update_due_blocklists_now picks from its listing. *)
Due(id) ==
  Exists(id) /\ rows[id].config.enabled /\ Remote(rows[id]) /\ rows[id].next <= now

-----------------------------------------------------------------------------
(* jg_blocklist_remote_update: the state of the source after an attempt *)

Least(a, b) == IF a < b THEN a ELSE b

(* retry_delay doubles from RetryBase up to RetryMax; the second is the jitter. *)
RetryDelays(failures) ==
  LET delay == Least(RetryBase * 2 ^ (failures - 1), RetryMax)
  IN {delay + jitter : jitter \in 0 .. delay \div 4}

(* The states record_failure may leave. *)
RecordFailure(state, time) ==
  {[state EXCEPT !.failures = @ + 1, !.next = time + delay]
     : delay \in RetryDelays(state.failures + 1)}

(* Mutant of RecordSuccess: a validator the response lacks is kept. *)
RecordSuccessKeeping(state, answer, time) ==
  [state EXCEPT !.etag = IF answer.etag # NoTag THEN answer.etag ELSE @,
                !.modified = IF answer.modified # NoDate THEN answer.modified ELSE @,
                !.success = time, !.next = time + Interval, !.failures = 0]

(* A new document replaces both validators, 304 only those it names. *)
RecordSuccess(state, answer, time) ==
  LET replace == answer.status = 200
  IN [state EXCEPT
        !.etag = IF replace \/ answer.etag # NoTag THEN answer.etag ELSE @,
        !.modified = IF replace \/ answer.modified # NoDate THEN answer.modified ELSE @,
        !.success = time, !.next = time + Interval, !.failures = 0]

(* The server: If-None-Match comes before If-Modified-Since; an entity tag     *)
(* names a body, and every new version of a document has a later date.         *)
Etag(document) == IF document.tagged THEN document.body ELSE NoTag
Dated(s) == IF served[s].document.dated THEN served[s].version ELSE NoDate

Unmodified(s, state) ==
  IF state.etag # NoTag THEN Etag(served[s].document) = state.etag
  ELSE state.modified # NoDate /\ Dated(s) # NoDate /\ Dated(s) <= state.modified

(* verify_body *)
Verified(config, body) == body \in config.trusted

Answer(s, state) ==
  [status |-> IF Unmodified(s, state) THEN 304 ELSE 200,
   etag |-> Etag(served[s].document), modified |-> Dated(s)]

-----------------------------------------------------------------------------
Idle == [kind |-> "idle", phase |-> "idle"]

SourcesInit ==
  /\ \E b \in Beginnings :
       /\ rows = [id \in Ids |-> IF id \in DOMAIN b.configs
                                 THEN NewSource(b.configs[id], 0) ELSE NoRow]
       /\ events = [kinds |-> b.kinds, left |-> b.events]
  /\ served \in [Servers -> [document : UNION {Documents[s] : s \in Servers}, version : {1}]]
  /\ \A s \in Servers : served[s].document \in Documents[s]
  /\ queue = <<>>
  /\ worker = Idle
  /\ now = 1
  /\ unsynced = FALSE /\ misplaced = FALSE

Event(kind) ==
  kind \in events.kinds /\ events.left > 0 /\ events' = [events EXCEPT !.left = @ - 1]

-----------------------------------------------------------------------------
(* The control thread: edits at the revision the row has *)

(* The dispatcher refuses changes while management is degraded.  An edit is    *)
(* kept even when its publication fails, and answered with 202.                *)
Edit(id, row) ==
  /\ ~unsynced
  /\ Event("edit")
  /\ unsynced' \in BOOLEAN
  /\ rows' = [rows EXCEPT ![id] = row]
  /\ UNCHANGED <<served, queue, worker, now, misplaced>>

Create ==
  /\ NewId \in Ids
  /\ LET loaded == worker.phase \in {"fetch", "store"} /\ Head(worker.targets).id = NewId
     IN \E c \in Configs :
          Edit(NewId, NewSource(c, IF loaded THEN 1 - worker.source.born ELSE 0))

(* jg_database_update_blocklist_source leaves the status of the source alone. *)
Update ==
  \E id \in Ids, c \in Configs :
    /\ Exists(id) /\ rows[id].config # c
    /\ Edit(id, [rows[id] EXCEPT !.config = c, !.revision = @ + 1])

(* The entries and the status go with the row. *)
Delete == \E id \in Ids : Exists(id) /\ Edit(id, NoRow)

SubmitJob(job) ==
  /\ ~unsynced
  /\ queue' = Append(queue, job)
  /\ UNCHANGED <<rows, served, worker, now, unsynced, misplaced>>

(* handle_blocklist_source_refresh, at the revision the operator has read *)
RequestRefresh ==
  /\ Event("request")
  /\ \E id \in Ids : Exists(id)
       /\ SubmitJob([kind |-> "refresh", id |-> id, revision |-> rows[id].revision])

(* handle_blocklist_import *)
RequestImport ==
  /\ Event("request")
  /\ \E id \in Ids, body \in Uploads : Exists(id)
       /\ SubmitJob([kind |-> "import", id |-> id, revision |-> rows[id].revision,
                  body |-> body])

(* jg_management_update_due_blocklists answers -EROFS while management is      *)
(* degraded; submit_scheduled_source_job: one such job at a time, queued or    *)
(* running.                                                                    *)
Schedule ==
  /\ worker.kind # "round"
  /\ \A i \in DOMAIN queue : queue[i].kind # "round"
  /\ SubmitJob([kind |-> "round"])
  /\ UNCHANGED events

-----------------------------------------------------------------------------
(* The job thread *)

(* update_due_blocklists_now lists the sources once; an id stands for its      *)
(* place in the listing.                                                       *)
Listing ==
  [i \in 1 .. Cardinality({id \in Ids : Due(id)}) |->
     LET id == CHOOSE d \in Ids : Due(d) /\ Cardinality({e \in Ids : Due(e) /\ e <= d}) = i
     IN [id |-> id, revision |-> rows[id].revision]]

(* reauthorize_management_job refuses a job while management is degraded. *)
TakeJob ==
  /\ worker = Idle /\ queue # <<>>
  /\ LET job == Head(queue)
         targets == IF unsynced THEN <<>>
                    ELSE IF job.kind = "round" THEN Listing
                    ELSE << [id |-> job.id, revision |-> job.revision] >>
     IN worker' = IF targets = <<>> THEN Idle
                  ELSE [kind |-> job.kind, phase |-> "load", started |-> now,
                        targets |-> targets,
                        body |-> IF job.kind = "import" THEN job.body ELSE <<>>]
  /\ queue' = Tail(queue)
  /\ UNCHANGED <<rows, served, now, unsynced, events, misplaced>>

(* The update of the first target is over: the next one, unless it failed. *)
After(result) ==
  IF result # "ok" \/ Len(worker.targets) = 1 THEN Idle
  ELSE [kind |-> worker.kind, phase |-> "load", started |-> worker.started,
        targets |-> Tail(worker.targets), body |-> <<>>]

Target == Head(worker.targets)

(* update_source and import_source up to the download *)
Load ==
  /\ worker.phase = "load"
  /\ LET row == rows[Target.id]
         result == IF ~Exists(Target.id) THEN "ENOENT"
                   ELSE IF row.revision # Target.revision THEN "EAGAIN"
                   ELSE IF Remote(row) = (worker.kind = "import") THEN "EINVAL"
                   ELSE "ok"
     IN worker' = IF result # "ok" THEN After(result)
                  ELSE [kind |-> worker.kind, phase |-> "fetch",
                        started |-> worker.started, targets |-> worker.targets,
                        body |-> worker.body, source |-> row]
  /\ UNCHANGED <<rows, served, queue, now, unsynced, events, misplaced>>

Outcome(status, state, body, checked) ==
  [kind |-> worker.kind, phase |-> "store", started |-> worker.started,
   targets |-> worker.targets, source |-> worker.source,
   status |-> status, state |-> state, body |-> body, checked |-> checked]

Failed == \E state \in RecordFailure(worker.source, worker.started) :
            worker' = Outcome("failed", state, <<>>, <<>>)

(* fetch_https finds no server, or is cut off. *)
TransferFails ==
  /\ worker.phase = "fetch" /\ worker.kind # "import"
  /\ Event("transfer")
  /\ Failed
  /\ UNCHANGED <<rows, served, queue, now, unsynced, misplaced>>

(* What jg_blocklist_remote_update makes of the answer of the server. *)
Fetch ==
  /\ worker.phase = "fetch" /\ worker.kind # "import"
  /\ LET config == worker.source.config
         body == served[config.server].document.body
         answer == Answer(config.server, worker.source)
         state == RecordSuccess(worker.source, answer, worker.started)
     IN CASE answer.status = 304 -> worker' = Outcome("not_modified", state, <<>>, body)
          [] answer.status = 200 /\ Verified(config, body)
               /\ Import(body, config.mode).result = "ok" ->
               worker' = Outcome("updated", state, body, body)
          [] OTHER -> Failed
  /\ UNCHANGED <<rows, served, queue, now, unsynced, events, misplaced>>

(* import_source: neither outcome keeps validators or puts off the source. *)
ImportUpload ==
  /\ worker.phase = "fetch" /\ worker.kind = "import"
  /\ LET source == worker.source
         cleared == [source EXCEPT !.etag = NoTag, !.modified = NoDate,
                                   !.next = worker.started]
     IN worker' =
          IF Import(worker.body, source.config.mode).result = "ok"
          THEN Outcome("updated", [cleared EXCEPT !.success = worker.started, !.failures = 0],
                       worker.body, worker.body)
          ELSE Outcome("failed", [cleared EXCEPT !.failures = @ + 1], <<>>, <<>>)
  /\ UNCHANGED <<rows, served, queue, now, unsynced, events, misplaced>>

(* The columns of the status that every outcome writes. *)
Status(row, state) ==
  [row EXCEPT !.etag = state.etag, !.modified = state.modified,
              !.success = state.success, !.next = state.next, !.failures = state.failures]

(* jg_database_activate_blocklist *)
Activated(row) ==
  [Status(row, worker.state) EXCEPT
     !.active = TRUE, !.health = "healthy",
     !.entries = Import(worker.body, worker.source.config.mode).entries,
     !.origin = [config |-> worker.source.config, revision |-> row.revision,
                 own |-> row.born = worker.source.born],
     !.checked = worker.checked]

(* jg_database_record_blocklist_attempt *)
Attempted(row, successful) ==
  [Status(row, worker.state) EXCEPT
     !.health = IF successful THEN "healthy" ELSE IF row.active THEN "degraded" ELSE "failed",
     !.checked = IF successful THEN worker.checked ELSE @]

(* Mutant of StoreResult: a failed attempt is given up like a conflict. *)
StoreResultOfAttempt(row) ==
  IF row = NoRow THEN "ENOENT"
  ELSE IF row.revision # Target.revision THEN "EAGAIN"
  ELSE IF worker.status = "not_modified" /\ ~row.active THEN "ENOENT"
  ELSE IF worker.status = "failed" THEN "EIO" ELSE "ok"

(* What the transaction finds when it looks at the row again. *)
StoreResult(row) ==
  IF row = NoRow THEN "ENOENT"
  ELSE IF row.revision # Target.revision THEN "EAGAIN"
  ELSE IF worker.status = "not_modified" /\ ~row.active THEN "ENOENT" ELSE "ok"

(* The transaction of update_source or import_source, which also publishes an  *)
(* activated list (complete_source_refresh).  One that is not published is     *)
(* kept, leaves management degraded and ends the round it is part of; one that *)
(* is published makes the runtime and the database agree.                      *)
Store ==
  /\ worker.phase = "store"
  /\ LET row == rows[Target.id]
         result == StoreResult(row)
         activated == result = "ok" /\ worker.status = "updated"
     IN /\ rows' = IF result # "ok" THEN rows
                   ELSE [rows EXCEPT ![Target.id] =
                           IF worker.status = "updated" THEN Activated(row)
                           ELSE Attempted(row, worker.status = "not_modified")]
        /\ misplaced' = (misplaced \/ (result = "ok" /\ row.born # worker.source.born))
        /\ \/ /\ unsynced' = (unsynced /\ ~activated)
              /\ worker' = After(result)
              /\ UNCHANGED events
           \/ /\ activated /\ Event("publish")
              /\ unsynced' = TRUE
              /\ worker' = After("EIO")
  /\ UNCHANGED <<served, queue, now>>

(* The audit record or the commit fails: nothing is stored and the round ends. *)
(* If the list was activated the runtime reloads the policy there was, which   *)
(* succeeds or not (finish_blocklist_policy_transaction).                      *)
StoreFails ==
  /\ worker.phase = "store" /\ StoreResult(rows[Target.id]) = "ok"
  /\ Event("transaction")
  /\ unsynced' \in IF worker.status = "updated" THEN BOOLEAN ELSE {unsynced}
  /\ worker' = After("EIO")
  /\ UNCHANGED <<rows, served, queue, now, misplaced>>

-----------------------------------------------------------------------------
(* Elsewhere *)

(* Another change of policy is not published, or its rollback not reloaded. *)
Desynchronize ==
  /\ ~unsynced /\ Event("publish")
  /\ unsynced' = TRUE
  /\ UNCHANGED <<rows, served, queue, worker, now, misplaced>>

(* An operator's reload, which the dispatcher lets through. *)
Reload ==
  /\ unsynced /\ unsynced' = FALSE
  /\ UNCHANGED <<rows, served, queue, worker, now, events, misplaced>>

Second ==
  /\ Event("second")
  /\ now' = now + 1
  /\ UNCHANGED <<rows, served, queue, worker, unsynced, misplaced>>

Republish ==
  /\ Event("document")
  /\ \E s \in Servers : \E d \in Documents[s] \ {served[s].document} :
       served' = [served EXCEPT ![s] = [document |-> d, version |-> @.version + 1]]
  /\ UNCHANGED <<rows, queue, worker, now, unsynced, misplaced>>

(* Jobs are kept in memory, rows on disk.  The start loads the stored policy    *)
(* and records it as applied, if it can.                                       *)
Crash ==
  /\ Event("crash")
  /\ unsynced' \in {unsynced, FALSE}
  /\ queue' = <<>> /\ worker' = Idle
  /\ UNCHANGED <<rows, served, now, misplaced>>

Work == TakeJob \/ Load \/ Fetch \/ ImportUpload \/ Store

SourcesNext ==
  \/ Create \/ Update \/ Delete
  \/ RequestRefresh \/ RequestImport \/ Schedule
  \/ TakeJob \/ Load \/ TransferFails \/ Fetch \/ ImportUpload \/ Store \/ StoreFails
  \/ Desynchronize \/ Reload \/ Second \/ Republish \/ Crash

(* The control loop submits a round every few seconds, and the job thread      *)
(* waits for jobs and runs them in order; a transfer has a time limit.         *)
SourcesSpec ==
  /\ SourcesInit /\ [][SourcesNext]_sourcesVars
  /\ WF_sourcesVars(Schedule) /\ WF_sourcesVars(Work)

-----------------------------------------------------------------------------
(* Properties *)

(* Whether the row is as it was when its list was activated, and the download  *)
(* was begun for this very source.                                             *)
Untouched(row) == row.active /\ row.origin.own /\ row.origin.revision = row.revision

(* A source that was not edited since its list was activated has the list that *)
(* its configuration makes of the document that was at its server when an      *)
(* attempt last succeeded, and that document passed its pin and signature:     *)
(* neither a conditional request with the validators of another document       *)
(* (record_success), nor an edit during a download (the revision checks of     *)
(* update_source and jg_database_activate_blocklist) leaves another list.      *)
ListIsWhatWasServed ==
  \A id \in Ids : Exists(id) /\ Untouched(rows[id]) =>
    LET row == rows[id]
    IN /\ row.origin.config = row.config
       /\ row.entries = Import(row.checked, row.config.mode).entries
       /\ Import(row.checked, row.config.mode).result = "ok"
       /\ Remote(row) => Verified(row.config, row.checked)

(* A source that is due is tried (and put off) sooner or later, or no longer   *)
(* due by an edit, or management is degraded and waits for an operator: a      *)
(* source that fails, is edited, or has a list that is activated but not       *)
(* published and so ends the round of update_due_blocklists_now does not keep  *)
(* the sources after it from being tried once management is healthy.  Not so   *)
(* when a download is recorded under a source that was created while it ran.   *)
DueSourcesAreTried ==
  []~misplaced => \A id \in Ids : Due(id) ~> (~Due(id) \/ unsynced)
=============================================================================
