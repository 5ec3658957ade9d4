-------------------------- MODULE PolicyManagement --------------------------
(***************************************************************************)
(* Changing the stored policy: the audited mutations of rules and          *)
(* blocklist sources (management_policy.c, management_policy_modes.c,      *)
(* management_blocklist.c), the blocklist job that activates a download    *)
(* (blocklist_update.c), the publication of each change to the runtime and *)
(* its durable record (management_publish_policy_change,                   *)
(* policy_sync_state), the reload that follows a failed change or is asked *)
(* for (jg_daemon_runtime_reload_policy), and the degraded flag.           *)
(*                                                                         *)
(* Two threads take part.  The control thread serves requests one after    *)
(* the other on the connection "main", which is also the one that every    *)
(* reload uses, whichever thread asks for it; the job thread has the       *)
(* connection "peer".  A connection counts its nested transactions, and    *)
(* SQLite lets one connection write at a time.                             *)
(***************************************************************************)
EXTENDS Naturals

CONSTANTS
  Operators,       \* administrators with their own view of the rows
  Values,          \* what a row may say
  MaxId,           \* bound on row identifiers
  Mutations,       \* bound on the changes that are begun
  Faults           \* bound on failures and crashes

Threads == {"control", "job"}
Own(t) == IF t = "control" THEN "main" ELSE "peer"
Conns == {"main", "peer"}
Tables == {"rule", "source"}
Ids == 1 .. MaxId
None == "none"

ASSUME BoundAssumption == {MaxId, Mutations, Faults} \subseteq Nat
ASSUME ValueAssumption == None \notin Values

VARIABLES
  disk,      \* the committed database
  depth,     \* transaction_depth of each connection
  view,      \* what a connection in a transaction sees
  runtime,   \* the published policy
  degraded,  \* MANAGEMENT_DEGRADED_POLICY_SYNC
  screen,    \* the row an operator read last
  pc, request, ticket, ok, why,  \* of each thread
  promised,  \* history: the rows with the acknowledged changes
  users,     \* history: threads that have taken part in the transaction on "main"
  broken,    \* history: a transaction was lost in which another thread took part
  astray,    \* history: both threads were in one transaction, or a reload after
             \* an abandoned change failed; no thread by itself has published since
  mutations, faults

dbVars == <<disk, depth, view, users, broken>>
ghostVars == <<promised, astray>>
threadVars == <<pc, request, ticket, ok, why>>
vars == <<dbVars, runtime, degraded, screen, threadVars, ghostVars, mutations, faults>>

(* value: the rule or the source's settings; loaded: what the entries of a *)
(* source were downloaded with.                                            *)
NoRow == [value |-> None, revision |-> 0, loaded |-> None]
Row == [value : Values \cup {None}, revision : Nat, loaded : Values \cup {None}]
NoScreen == [table |-> None, id |-> 0, row |-> NoRow]
NoRequest == [op |-> None, table |-> None, id |-> 0, value |-> None, seen |-> NoRow]

(* jg_database_load_policy_snapshot *)
Policy(d) ==
  [rules |-> [i \in Ids |-> d.rows["rule"][i].value],
   lists |-> [i \in Ids |-> d.rows["source"][i].loaded]]

Mismatch(d) == d.desired # d.applied

Init ==
  /\ \E v \in Values :
       disk = [rows |-> [t \in Tables |-> [i \in Ids |->
                 IF i = 1 THEN [value |-> v, revision |-> 1, loaded |-> None]
                 ELSE NoRow]],
               desired |-> 1, applied |-> 1]
  /\ depth = [c \in Conns |-> 0]
  /\ view = [c \in Conns |-> disk]
  /\ runtime = Policy(disk)
  /\ degraded = FALSE
  /\ screen = [o \in Operators |-> NoScreen]
  /\ pc = [t \in Threads |-> "idle"]
  /\ request = [t \in Threads |-> NoRequest]
  /\ ticket = [t \in Threads |-> 0]
  /\ ok = [t \in Threads |-> TRUE]
  /\ why = [t \in Threads |-> None]
  /\ promised = disk.rows
  /\ users = {} /\ broken = FALSE /\ astray = FALSE
  /\ mutations = Mutations
  /\ faults = Faults

(* Where a thread relies on the transaction it has begun *)
InChange == {"publish", "record", "commit"}
InReload == {"reload.load", "reload.record", "reload.commit"}

Goto(t, l) == pc' = [pc EXCEPT ![t] = l]
Fault == faults > 0 /\ faults' = faults - 1

-----------------------------------------------------------------------------
(* Connections *)

Seen(c) == IF depth[c] > 0 THEN view[c] ELSE disk

CanWrite(c) == \A other \in Conns \ {c} : depth[other] = 0

Using(t, c) == IF c = "main" THEN users \cup {t} ELSE users

(* A statement that leaves d: outside a transaction it commits by itself. *)
Put(t, c, d) ==
  /\ CanWrite(c)
  /\ IF depth[c] > 0
     THEN view' = [view EXCEPT ![c] = d] /\ users' = Using(t, c) /\ UNCHANGED disk
     ELSE disk' = d /\ UNCHANGED <<view, users>>
  /\ UNCHANGED <<depth, broken>>

(* BEGIN IMMEDIATE, or one more level, and statements that leave d *)
BeginWith(t, c, d) ==
  /\ CanWrite(c)
  /\ depth' = [depth EXCEPT ![c] = @ + 1]
  /\ view' = [view EXCEPT ![c] = d]
  /\ users' = Using(t, c)
  /\ astray' = (astray \/ users' = Threads)
  /\ UNCHANGED <<disk, broken>>

(* jg_database_transaction_rollback ends every level. *)
Rollback(t, c) ==
  /\ depth' = [depth EXCEPT ![c] = 0]
  /\ view' = [view EXCEPT ![c] = disk]
  /\ users' = IF c = "main" THEN {} ELSE users
  /\ LET shared == c = "main" /\ users \ {t} # {}
     IN  broken' = (broken \/ shared) /\ astray' = (astray \/ shared)
  /\ UNCHANGED disk

(* jg_database_transaction_commit: only the last level writes. *)
Commit(c) ==
  /\ depth[c] > 0
  /\ depth' = [depth EXCEPT ![c] = @ - 1]
  /\ disk' = IF depth[c] = 1 THEN view[c] ELSE disk
  /\ users' = IF c = "main" /\ depth[c] = 1 THEN {} ELSE users
  /\ UNCHANGED <<view, broken>>

-----------------------------------------------------------------------------
(* Requests *)

Exists(row) == row # NoRow

ReadRow(o, t, i) ==
  /\ pc["control"] = "idle"
  /\ Exists(Seen("main").rows[t][i])
  /\ screen' = [screen EXCEPT ![o] = [table |-> t, id |-> i, row |-> Seen("main").rows[t][i]]]
  /\ UNCHANGED <<dbVars, runtime, degraded, threadVars, ghostVars, mutations, faults>>

Begin(t, r) ==
  /\ pc[t] = "idle" /\ mutations > 0
  /\ mutations' = mutations - 1
  /\ request' = [request EXCEPT ![t] = r]
  /\ Goto(t, "mutate")
  /\ UNCHANGED <<dbVars, runtime, degraded, screen, ticket, ok, why, ghostVars, faults>>

(* A degraded appliance refuses changes (dispatch_request). *)
Create(t, v) ==
  /\ ~degraded
  /\ Begin("control", [op |-> "create", table |-> t, id |-> 0, value |-> v, seen |-> NoRow])

(* The revision that the operator read goes with the request. *)
Replace(o, t, v) ==
  /\ ~degraded /\ screen[o].table = t
  /\ Begin("control", [op |-> "update", table |-> t, id |-> screen[o].id,
                       value |-> v, seen |-> screen[o].row])

Remove(o, t) ==
  /\ ~degraded /\ screen[o].table = t
  /\ Begin("control", [op |-> "delete", table |-> t, id |-> screen[o].id,
                       value |-> None, seen |-> screen[o].row])

CreateRule(v) == Create("rule", v)
UpdateRule(o, v) == Replace(o, "rule", v)
DeleteRule(o) == Remove(o, "rule")
CreateSource(v) == Create("source", v)
UpdateSource(o, v) == Replace(o, "source", v)
DeleteSource(o) == Remove(o, "source")

(* A job that was queued before reads its source and downloads. *)
Refresh(i) ==
  /\ ~degraded
  /\ Exists(Seen("peer").rows["source"][i])
  /\ Begin("job", [op |-> "activate", table |-> "source", id |-> i,
                   value |-> Seen("peer").rows["source"][i].value,
                   seen |-> Seen("peer").rows["source"][i]])

(* SQLite gives a new row the identifier after the largest one in use. *)
NewId(rows) ==
  IF \E i \in Ids : Exists(rows[i])
  THEN 1 + CHOOSE i \in Ids : Exists(rows[i]) /\ \A j \in Ids : Exists(rows[j]) => j <= i
  ELSE 1

Accepted(r, rows) ==
  IF r.op = "create" THEN NewId(rows) \in Ids
  ELSE Exists(rows[r.id]) /\ rows[r.id].revision = r.seen.revision

Target(r, rows) == IF r.op = "create" THEN NewId(rows) ELSE r.id

InsertedRow(r) == [value |-> r.value, revision |-> 1, loaded |-> None]
UpdatedRow(r, row) == [row EXCEPT !.value = r.value, !.revision = @ + 1]
ActivatedRow(r, row) == [row EXCEPT !.loaded = r.value]

NewRow(r, row) ==
  CASE r.op = "create" -> InsertedRow(r)
    [] r.op = "update" -> UpdatedRow(r, row)
    [] r.op = "delete" -> NoRow
    [] r.op = "activate" -> ActivatedRow(r, row)

MutatedRows(rows, r) ==
  LET i == Target(r, rows[r.table])
  IN  [rows EXCEPT ![r.table][i] = NewRow(r, @)]

Mutated(d, r) == [d EXCEPT !.rows = MutatedRows(@, r)]

(* The transaction is begun and the statement runs, or it is refused, the  *)
(* row is not the one that was read, or SQLite fails.                      *)
Mutate(t) ==
  LET c == Own(t) r == request[t] rows == Seen(c).rows[r.table]
  IN  /\ pc[t] = "mutate"
      /\ \/ /\ CanWrite(c) /\ Accepted(r, rows)
            /\ BeginWith(t, c, Mutated(Seen(c), r))
            /\ Goto(t, "publish") /\ UNCHANGED faults
         \/ /\ CanWrite(c) /\ ~Accepted(r, rows)
            /\ Rollback(t, c)
            /\ Goto(t, "idle") /\ UNCHANGED faults
         \/ /\ ~CanWrite(c)
            /\ Goto(t, "idle") /\ UNCHANGED <<dbVars, astray, faults>>
         \/ Fault /\ Rollback(t, c) /\ Goto(t, "idle")
      /\ UNCHANGED <<runtime, degraded, screen, request, ticket, ok, why, promised, mutations>>

(* The thread has its transaction on c to itself. *)
Alone(t, c) ==
  /\ users = IF c = "main" THEN {t} ELSE {}
  /\ \A other \in Threads \ {t} : pc[other] \notin InChange \cup InReload

(* The runtime takes over the policy of d. *)
Runs(t, c, d) ==
  /\ runtime' = Policy(d)
  /\ astray' = (astray /\ ~Alone(t, c))

(* The desired revision is advanced and the connection's policy published. *)
Publish(t) ==
  LET c == Own(t) d == [Seen(c) EXCEPT !.desired = @ + 1]
  IN  /\ pc[t] = "publish"
      /\ \/ /\ Put(t, c, d)
            /\ ticket' = [ticket EXCEPT ![t] = d.desired]
            /\ \/ Runs(t, c, d) /\ ok' = [ok EXCEPT ![t] = TRUE] /\ UNCHANGED faults
               \/ Fault /\ ok' = [ok EXCEPT ![t] = FALSE] /\ UNCHANGED <<runtime, astray>>
            /\ Goto(t, "record")
         \/ /\ (~CanWrite(c) /\ UNCHANGED faults) \/ Fault
            /\ Goto(t, "abort")
            /\ UNCHANGED <<dbVars, runtime, astray, ticket, ok>>
      /\ UNCHANGED <<degraded, screen, request, why, promised, mutations>>

Recorded(d, applied) == [d EXCEPT !.applied = IF applied THEN d.desired ELSE @]

(* jg_database_policy_sync_record and the audit event *)
Record(t) ==
  LET c == Own(t)
  IN  /\ pc[t] = "record"
      /\ \/ /\ Seen(c).desired = ticket[t]
            /\ Put(t, c, Recorded(Seen(c), ok[t]))
            /\ Goto(t, "commit") /\ UNCHANGED faults
         \/ /\ \/ (Seen(c).desired # ticket[t] \/ ~CanWrite(c)) /\ UNCHANGED faults
               \/ Fault
            /\ Goto(t, "abort") /\ UNCHANGED dbVars
      /\ UNCHANGED <<runtime, degraded, screen, request, ticket, ok, why, ghostVars, mutations>>

(* The rows that the author of a change now relies on. *)
Acknowledged(t) == MutatedRows(promised, request[t])

(* Mutant: the result of the commit is not looked at. *)
FinishUnchecked(t) ==
  LET c == Own(t)
  IN  /\ pc[t] = "commit"
      /\ promised' = Acknowledged(t)
      /\ \/ Commit(c) /\ UNCHANGED <<astray, faults>>
         \/ Fault /\ Rollback(t, c)
      /\ Goto(t, "refresh")
      /\ UNCHANGED <<runtime, degraded, screen, request, ticket, ok, why, mutations>>

(* audited_mutation_finish: the change is acknowledged once it commits. *)
Finish(t) ==
  LET c == Own(t)
  IN  /\ pc[t] = "commit"
      /\ \/ /\ Commit(c) /\ promised' = Acknowledged(t)
            /\ Goto(t, "refresh") /\ UNCHANGED <<astray, faults>>
         \/ depth[c] = 0 /\ Goto(t, "abort") /\ UNCHANGED <<dbVars, ghostVars, faults>>
         \/ Fault /\ Rollback(t, c) /\ Goto(t, "abort") /\ UNCHANGED promised
      /\ UNCHANGED <<runtime, degraded, screen, request, ticket, ok, why, mutations>>

(* refresh_policy_sync_health *)
RefreshHealth(t) ==
  /\ pc[t] = "refresh"
  /\ degraded' = Mismatch(Seen(Own(t)))
  /\ Goto(t, "idle")
  /\ UNCHANGED <<dbVars, runtime, screen, request, ticket, ok, why, ghostVars, mutations, faults>>

(* Mutant: the rows are restored and the runtime is left alone. *)
AbortSilently(t) ==
  /\ pc[t] = "abort"
  /\ Rollback(t, Own(t))
  /\ Goto(t, "refresh")
  /\ UNCHANGED <<runtime, degraded, screen, request, ticket, ok, why, promised, mutations, faults>>

(* A change that failed after it was published *)
Abort(t) ==
  /\ pc[t] = "abort"
  /\ Rollback(t, Own(t))
  /\ why' = [why EXCEPT ![t] = "abort"]
  /\ Goto(t, "reload.begin")
  /\ UNCHANGED <<runtime, degraded, screen, request, ticket, ok, promised, mutations, faults>>

-----------------------------------------------------------------------------
(* Reloads *)

(* POST /api/v1/config/reload, also served while degraded, and the         *)
(* JG_IPC_POLICY_RELOAD message                                            *)
ReloadRequest(reason) ==
  /\ pc["control"] = "idle" /\ mutations > 0
  /\ mutations' = mutations - 1
  /\ why' = [why EXCEPT !["control"] = reason]
  /\ Goto("control", "reload.begin")
  /\ UNCHANGED <<dbVars, runtime, degraded, screen, request, ticket, ok, ghostVars, faults>>

(* reconciliation_mutex *)
Reconciling(t) == pc[t] \in InReload

NotLoaded(t) ==
  /\ ok' = [ok EXCEPT ![t] = FALSE]
  /\ astray' = (astray \/ why[t] = "abort")

(* begin_policy_reconciliation *)
ReloadBegin(t) ==
  /\ pc[t] = "reload.begin"
  /\ \A other \in Threads \ {t} : ~Reconciling(other)
  /\ \/ BeginWith(t, "main", Seen("main")) /\ Goto(t, "reload.load")
        /\ UNCHANGED <<ok, faults>>
     \/ /\ (~CanWrite("main") /\ UNCHANGED faults) \/ Fault
        /\ NotLoaded(t)
        /\ Goto(t, "reload.done") /\ UNCHANGED dbVars
  /\ UNCHANGED <<runtime, degraded, screen, request, ticket, why, promised, mutations>>

(* jg_daemon_runtime_reload_policy_from_database *)
ReloadLoad(t) ==
  /\ pc[t] = "reload.load"
  /\ \/ /\ Runs(t, "main", Seen("main"))
        /\ ok' = [ok EXCEPT ![t] = TRUE] /\ UNCHANGED faults
     \/ Fault /\ NotLoaded(t) /\ UNCHANGED runtime
  /\ Goto(t, "reload.record")
  /\ UNCHANGED <<dbVars, degraded, screen, request, ticket, why, promised, mutations>>

(* record_policy_publication; a failure rolls main back *)
ReloadRecord(t) ==
  /\ pc[t] = "reload.record"
  /\ \/ /\ Put(t, "main", Recorded(Seen("main"), ok[t]))
        /\ Goto(t, "reload.commit") /\ UNCHANGED <<degraded, ok, astray, faults>>
     \/ /\ (~CanWrite("main") /\ UNCHANGED faults) \/ Fault
        /\ Rollback(t, "main")
        /\ degraded' = Mismatch(disk)
        /\ ok' = [ok EXCEPT ![t] = FALSE]
        /\ Goto(t, "reload.done")
  /\ UNCHANGED <<runtime, screen, request, ticket, why, promised, mutations>>

(* finish_policy_reconciliation *)
ReloadCommit(t) ==
  /\ pc[t] = "reload.commit"
  /\ \/ /\ Commit("main")
        /\ degraded' = Mismatch(view["main"])
        /\ UNCHANGED <<ok, astray, faults>>
     \/ /\ (depth["main"] = 0 /\ UNCHANGED faults) \/ Fault
        /\ Rollback(t, "main")
        /\ degraded' = Mismatch(disk)
        /\ ok' = [ok EXCEPT ![t] = FALSE]
  /\ Goto(t, "reload.done")
  /\ UNCHANGED <<runtime, screen, request, ticket, why, promised, mutations>>

(* What the caller of the reload does: a failed one after a change marks   *)
(* the appliance degraded, otherwise the health is read again.             *)
ReloadDone(t) ==
  /\ pc[t] = "reload.done"
  /\ degraded' = CASE why[t] = "ipc" -> degraded
                   [] why[t] = "abort" /\ ~ok[t] -> TRUE
                   [] OTHER -> Mismatch(Seen(Own(t)))
  /\ Goto(t, "idle")
  /\ UNCHANGED <<dbVars, runtime, screen, request, ticket, ok, why, ghostVars, mutations, faults>>

(* The daemon is killed and started again; the policy it loads is recorded *)
(* as applied, unless that fails.                                          *)
Restart ==
  /\ faults > 0 /\ faults' = faults - 1
  /\ runtime' = Policy(disk)
  /\ \E recorded \in {disk, Recorded(disk, TRUE)} :
       /\ disk' = recorded
       /\ view' = [c \in Conns |-> recorded]
       /\ degraded' = Mismatch(recorded)
  /\ depth' = [c \in Conns |-> 0]
  /\ users' = {} /\ broken' = (broken \/ users = Threads) /\ astray' = FALSE
  /\ pc' = [t \in Threads |-> "idle"]
  /\ UNCHANGED <<screen, request, ticket, ok, why, promised, mutations>>

-----------------------------------------------------------------------------
Step(t) ==
  \/ Mutate(t) \/ Publish(t) \/ Record(t) \/ Finish(t) \/ RefreshHealth(t) \/ Abort(t)
  \/ ReloadBegin(t) \/ ReloadLoad(t) \/ ReloadRecord(t) \/ ReloadCommit(t) \/ ReloadDone(t)

Next ==
  \/ \E o \in Operators :
       \/ \E t \in Tables, i \in Ids : ReadRow(o, t, i)
       \/ \E v \in Values : UpdateRule(o, v) \/ UpdateSource(o, v)
       \/ DeleteRule(o) \/ DeleteSource(o)
  \/ \E v \in Values : CreateRule(v) \/ CreateSource(v)
  \/ \E i \in Ids : Refresh(i)
  \/ \E reason \in {"config", "ipc"} : ReloadRequest(reason)
  \/ \E t \in Threads : Step(t)
  \/ Restart

Spec == Init /\ [][Next]_vars

-----------------------------------------------------------------------------
(* Types.  What is applied is never ahead of what is desired, and at most  *)
(* one connection holds SQLite's write lock.                               *)
TypeOK ==
  /\ \A t \in Tables, i \in Ids : disk.rows[t][i] \in Row
  /\ disk.applied \in 1 .. disk.desired
  /\ depth \in [Conns -> 0 .. 2]
  /\ \E c \in Conns : CanWrite(c)
  /\ degraded \in BOOLEAN

Quiet == \A t \in Threads : pc[t] = "idle"

(* An appliance at rest that is not degraded runs the policy it has        *)
(* stored: no failed publication, abandoned change, reload, crash or       *)
(* change by the other thread makes the two differ unnoticed, outside two  *)
(* situations (astray).  The reload of an abandoned change has failed, and *)
(* a later refresh of the health forgets that; or the two threads were in  *)
(* one transaction on "main", and one records the other's policy as        *)
(* applied.  Both end when a thread by itself publishes again.             *)
HonestHealth == Quiet /\ ~degraded => runtime = Policy(disk) \/ astray

(* A change that was acknowledged is in the database when no transaction   *)
(* is open, also after a crash, and one that was refused is not, although  *)
(* the job thread reloads on the control thread's connection: only a       *)
(* transaction on "main" that was rolled back by one thread, or by a       *)
(* crash, while the other took part in it, may have lost a change.         *)
AcknowledgedIsDurable ==
  (\A c \in Conns : depth[c] = 0) => disk.rows = promised \/ broken
=============================================================================
