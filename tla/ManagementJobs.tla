--------------------------- MODULE ManagementJobs ---------------------------
(***************************************************************************)
(* The queue of slow management operations (src/src/daemon/                *)
(* management_jobs.c): requests submit jobs into a fixed array of slots,   *)
(* one worker thread takes the oldest, authorizes it again, runs it and    *)
(* leaves the result for the actor to read.  One step of the model is one  *)
(* critical section of jobs->mutex, or the worker's work outside it.       *)
(*                                                                         *)
(* A credential stands for a session or for a token with its client        *)
(* certificate, as seen from one address; Owner is its actor.  Local is    *)
(* the actor of the local socket.  An identifier is unique among the       *)
(* occupied slots (generate_job_identifier), and so is a sequence number:  *)
(* one number stands for both.                                             *)
(***************************************************************************)
EXTENDS Naturals, FiniteSets

CONSTANTS
  Credentials,    \* sessions and tokens
  Owner,          \* the user or token of each credential
  Local,          \* the local actor, its own credential
  Sources,        \* blocklist sources
  Requests,       \* who asks for what: pairs of a credential and a kind
  Capacity,       \* MANAGEMENT_JOB_CAPACITY
  ActorCapacity,  \* MANAGEMENT_JOB_ACTOR_CAPACITY
  Retention,      \* MANAGEMENT_JOB_RETENTION_SECONDS
  MaxJobs,        \* bound on the jobs that are accepted
  MaxTime         \* bound on the clock

ASSUME ActorAssumption ==
  "none" \notin Credentials /\ Local \notin Credentials /\ Local \notin {Owner[c] : c \in Credentials}
ASSUME RequestAssumption ==
  Requests \subseteq (Credentials \cup {Local}) \X
                    {"refresh", "import", "create", "restore", "diagnostics", "csr"}
ASSUME CapacityAssumption ==
  Capacity \in Nat \ {0, 1} /\ ActorCapacity \in Nat \ {0} /\ Retention \in Nat
ASSUME BoundAssumption == MaxJobs \in Nat /\ MaxTime \in Nat

UserCapacity == Capacity - 1
Slots == 1 .. Capacity
Kinds == {"refresh", "import", "create", "restore", "diagnostics", "csr", "scheduled"}
None == "none"
Actor(c) == IF c = Local THEN Local ELSE Owner[c]

VARIABLES
  slots,      \* jobs->slots
  next,       \* jobs->next_sequence
  heap,       \* the uploaded lists that are allocated
  wpc, work,  \* where the worker is, and its copy of the job
  verdict,    \* what the second authorization said
  stopping,   \* jobs->stopping
  valid,      \* credentials that carry the permissions their jobs need
  degraded,   \* whether management_degraded_reasons is not 0
  clock,      \* time(NULL)
  delivered   \* ghost: jobs whose result was in a response

queueVars == <<slots, next, heap>>
workerVars == <<wpc, work, verdict>>
worldVars == <<valid, degraded, clock>>
vars == <<queueVars, workerVars, worldVars, stopping, delivered>>

(* A cleared slot.  content is an uploaded list, done the time of           *)
(* completion, lost (a ghost) whether the credential fell before the       *)
(* second authorization and has not come back.                             *)
Empty ==
  [id |-> 0, kind |-> None, cred |-> None, source |-> None, content |-> 0,
   state |-> None, observed |-> FALSE, done |-> 0, lost |-> FALSE]

Occupied(s) == slots[s] # Empty
System(j) == j.kind = "scheduled"
InState(st) == {s \in Slots : slots[s].state = st}

Init ==
  /\ slots = [s \in Slots |-> Empty]
  /\ next = 1 /\ heap = {}
  /\ wpc = "wait" /\ work = Empty /\ verdict = "ok"
  /\ stopping = FALSE
  /\ valid = Credentials \cup {Local} /\ degraded = FALSE /\ clock = 0
  /\ delivered = {}

-----------------------------------------------------------------------------
(* job_slot_reusable *)
Reusable(s) ==
  \/ ~Occupied(s)
  \/ /\ slots[s].state = "completed"
     /\ slots[s].observed \/ clock - slots[s].done >= Retention

(* select_job_slot *)
Selected(s) == Reusable(s) /\ \A t \in Slots : t < s => ~Reusable(t)

UserJobs == {s \in Slots : ~Reusable(s) /\ ~System(slots[s])}
JobsOf(a) == {s \in UserJobs : Actor(slots[s].cred) = a}

(* check_job_capacity *)
CapacityLeft(a) ==
  Cardinality(JobsOf(a)) < ActorCapacity /\ Cardinality(UserJobs) < UserCapacity

(* check_job_conflict: an unfinished refresh of the same source, which a   *)
(* request joins while it waits (job_context_equal) and is refused by      *)
(* otherwise, neither of which changes the queue,                          *)
SameRefresh(j) ==
  {s \in Slots : slots[s].kind = "refresh" /\ j.kind = "refresh"
                   /\ slots[s].state # "completed" /\ slots[s].source = j.source}

(* Mutant: only queued restores are seen. *)
ConflictsQueuedOnly(j) ==
  \E s \in Slots :
    \/ j.kind = "csr" /\ slots[s].kind = "csr" /\ ~Reusable(s)
    \/ j.kind = "restore" /\ slots[s].kind = "restore" /\ slots[s].state = "queued"

(* and the operations that exclude each other.                             *)
Conflicts(j) ==
  \E s \in Slots :
    \/ j.kind = "csr" /\ slots[s].kind = "csr" /\ ~Reusable(s)
    \/ j.kind = "restore" /\ slots[s].kind = "restore" /\ slots[s].state # "completed"

(* dispatch_request: the control thread serves a request of this kind.     *)
Served(c, kind) ==
  /\ <<c, kind>> \in Requests
  /\ ~stopping /\ c \in valid
  /\ degraded => kind = "diagnostics"

Accept(s, j) ==
  /\ slots' = [slots EXCEPT ![s] = j]
  /\ next' = next + 1

NewJob(kind, c, source, content) ==
  [Empty EXCEPT !.id = next, !.kind = kind, !.cred = c, !.source = source,
                !.content = content, !.state = "queued"]

(* submit_management_job: it joins a waiting refresh, is refused, or takes *)
(* the selected slot.  A refused upload is freed by its handler.           *)
Submit(j) ==
  /\ next <= MaxJobs
  /\ \/ /\ SameRefresh(j) = {} /\ ~Conflicts(j)
        /\ CapacityLeft(Actor(j.cred))
        /\ \E s \in Slots : Selected(s) /\ Accept(s, j)
        /\ heap' = IF j.content # 0 THEN heap \cup {j.content} ELSE heap
     \/ /\ \/ SameRefresh(j) # {} \/ Conflicts(j)
           \/ ~CapacityLeft(Actor(j.cred))
           \/ \A s \in Slots : ~Reusable(s)
        /\ UNCHANGED queueVars
  /\ UNCHANGED <<workerVars, worldVars, stopping, delivered>>

SubmitRefresh(c, source) ==
  Served(c, "refresh") /\ Submit(NewJob("refresh", c, source, 0))
SubmitImport(c) ==
  Served(c, "import") /\ Submit(NewJob("import", c, None, next))
SubmitBackup(c) ==
  Served(c, "create") /\ Submit(NewJob("create", c, None, 0))
SubmitRestore(c) ==
  Served(c, "restore") /\ Submit(NewJob("restore", c, None, 0))
SubmitDiagnostics(c) ==
  Served(c, "diagnostics") /\ Submit(NewJob("diagnostics", c, None, 0))
SubmitCsr(c) ==
  Served(c, "csr") /\ Submit(NewJob("csr", c, None, 0))

(* submit_scheduled_source_job, called by the control loop *)
SubmitScheduled ==
  /\ ~stopping /\ ~degraded /\ next <= MaxJobs
  /\ \A s \in Slots : ~System(slots[s])
  /\ \E s \in Slots : Selected(s) /\ Accept(s, NewJob("scheduled", None, None, 0))
  /\ UNCHANGED <<heap, workerVars, worldVars, stopping, delivered>>

(* handle_job_get of a completed job; before that it changes nothing.      *)
Get(c) ==
  /\ ~stopping /\ c \in valid
  /\ \E s \in Slots :
       /\ slots[s].state = "completed" /\ ~System(slots[s])
       /\ c = Local \/ Actor(c) = Actor(slots[s].cred)
       /\ slots' = [slots EXCEPT ![s].observed = TRUE]
       /\ delivered' = delivered \cup {slots[s].id}
  /\ UNCHANGED <<next, heap, workerVars, worldVars, stopping>>

-----------------------------------------------------------------------------
(* run_management_jobs *)

Oldest(s) == s \in InState("queued")
             /\ \A t \in InState("queued") : slots[s].id <= slots[t].id

Take ==
  /\ wpc = "wait" /\ ~stopping
  /\ \E s \in Slots : Oldest(s) /\ work' = slots[s]
  /\ wpc' = "reauthorize"
  /\ UNCHANGED <<queueVars, verdict, worldVars, stopping, delivered>>

(* Mutant: the credential of a queued job is not checked again. *)
AuthorizedAlways(j) == j.kind # "diagnostics" => ~degraded

(* reauthorize_management_job *)
Authorized(j) ==
  /\ j.kind # "diagnostics" => ~degraded
  /\ System(j) \/ j.cred \in valid

Reauthorize ==
  /\ wpc = "reauthorize"
  /\ verdict' = IF Authorized(work) THEN "ok" ELSE "refused"
  /\ wpc' = "start"
  /\ UNCHANGED <<queueVars, work, worldVars, stopping, delivered>>

Held == {s \in Slots : slots[s].id = work.id}

(* The worker's copy now owns the list.  A job that was refused stays in   *)
(* the state queued while its answer is prepared.                          *)
Start ==
  /\ wpc = "start"
  /\ \E s \in Held :
       slots' = [slots EXCEPT ![s].state = IF verdict = "ok" THEN "running" ELSE @,
                              ![s].content = 0]
  /\ wpc' = "run"
  /\ UNCHANGED <<next, heap, work, verdict, worldVars, stopping, delivered>>

(* Mutant: a job that was refused goes back to the queue. *)
CompleteRetries ==
  /\ wpc = "run"
  /\ \E s \in Held :
       slots' = [slots EXCEPT ![s] =
         IF verdict = "refused" THEN @
         ELSE IF System(@) THEN Empty
         ELSE [@ EXCEPT !.state = "completed", !.done = clock]]
  /\ heap' = heap \ {work.content}
  /\ work' = Empty /\ verdict' = "ok"
  /\ wpc' = "wait"
  /\ UNCHANGED <<next, worldVars, stopping, delivered>>

(* execute_management_job has returned *)
Complete ==
  /\ wpc = "run"
  /\ \E s \in Held :
       slots' = [slots EXCEPT ![s] =
         IF System(@) THEN Empty
         ELSE [@ EXCEPT !.state = "completed", !.done = clock]]
  /\ heap' = heap \ {work.content}
  /\ work' = Empty /\ verdict' = "ok"
  /\ wpc' = "wait"
  /\ UNCHANGED <<next, worldVars, stopping, delivered>>

(* management_jobs_destroy: the worker ends its job and leaves, *)
Stop ==
  /\ ~stopping
  /\ stopping' = TRUE
  /\ UNCHANGED <<queueVars, workerVars, worldVars, delivered>>

WorkerExit ==
  /\ wpc = "wait" /\ stopping
  /\ wpc' = "exited"
  /\ UNCHANGED <<queueVars, work, verdict, worldVars, stopping, delivered>>

(* then the lists that still wait are freed.                               *)
Destroy ==
  /\ wpc = "exited"
  /\ wpc' = "joined"
  /\ heap' = heap \ {slots[s].content : s \in Slots}
  /\ slots' = [s \in Slots |-> Empty]
  /\ UNCHANGED <<next, work, verdict, worldVars, stopping, delivered>>

-----------------------------------------------------------------------------
(* The rest of the daemon: a logout, an expiry, a disabled account or a    *)
(* permission withdrawn; the health of management; time.                   *)
Running == wpc \notin {"exited", "joined"}

(* A revocation that no waiting job could notice only keeps its owner from *)
(* asking again, and is left out.                                          *)
Revoke(c) ==
  /\ Running
  /\ \E s \in InState("queued") : slots[s].cred = c
  /\ c \in valid \ {Local}
  /\ valid' = valid \ {c}
  /\ slots' = [s \in Slots |->
       IF /\ slots[s].cred = c /\ slots[s].state = "queued"
          /\ slots[s].id = work.id => wpc = "reauthorize"
       THEN [slots[s] EXCEPT !.lost = TRUE] ELSE slots[s]]
  /\ UNCHANGED <<next, heap, workerVars, degraded, clock, stopping, delivered>>

(* The role or certificate mapping behind an API token is given back, and  *)
(* a job that still waits may run again.  (A session does not outlive a    *)
(* change of its account; a credential here may be either.)                *)
Regrant(c) ==
  /\ Running
  /\ c \notin valid
  /\ valid' = valid \cup {c}
  /\ slots' = [s \in Slots |->
       IF slots[s].lost /\ slots[s].cred = c
       THEN [slots[s] EXCEPT !.lost = FALSE] ELSE slots[s]]
  /\ UNCHANGED <<next, heap, workerVars, degraded, clock, stopping, delivered>>

Health ==
  /\ Running
  /\ degraded' = ~degraded
  /\ UNCHANGED <<queueVars, workerVars, valid, clock, stopping, delivered>>

Tick ==
  /\ Running
  /\ clock < MaxTime
  /\ clock' = clock + 1
  /\ UNCHANGED <<queueVars, workerVars, valid, degraded, stopping, delivered>>

Worker == Take \/ Reauthorize \/ Start \/ Complete \/ WorkerExit

Next ==
  \/ \E c \in Credentials \cup {Local} :
       \/ \E source \in Sources : SubmitRefresh(c, source)
       \/ SubmitImport(c)
       \/ SubmitBackup(c)
       \/ SubmitRestore(c)
       \/ SubmitDiagnostics(c)
       \/ SubmitCsr(c)
       \/ Get(c)
  \/ SubmitScheduled
  \/ Worker
  \/ Stop \/ Destroy
  \/ \E c \in Credentials : Revoke(c) \/ Regrant(c)
  \/ Health \/ Tick

Spec == Init /\ [][Next]_vars

(* The worker thread runs whenever it can and every operation returns.     *)
FairSpec == Spec /\ WF_vars(Worker)

-----------------------------------------------------------------------------
(* Types.  A slot is occupied exactly when it has the sequence number of   *)
(* a job that was accepted.                                                *)
TypeOK ==
  /\ next \in Nat /\ heap \subseteq 1 .. MaxJobs
  /\ wpc \in {"wait", "reauthorize", "start", "run", "exited", "joined"}
  /\ verdict \in {"ok", "refused"}
  /\ stopping \in BOOLEAN /\ degraded \in BOOLEAN
  /\ valid \subseteq Credentials \cup {Local}
  /\ \A s \in Slots :
       /\ slots[s].kind \in Kinds \cup {None}
       /\ slots[s].state \in {None, "queued", "running", "completed"}
       /\ Occupied(s) <=> slots[s].id \in 1 .. next - 1

(* Users cannot crowd out the scheduled scan (check_job_capacity,          *)
(* MANAGEMENT_JOB_USER_CAPACITY): while none is in the queue there is a    *)
(* slot for one.                                                           *)
SystemSlotReserved ==
  (\A s \in Slots : ~System(slots[s])) => \E s \in Slots : Reusable(s)

(* Every uploaded list is freed once: whoever still refers to one finds it *)
(* allocated, and none is allocated that nobody refers to.                 *)
UploadsHaveOwner ==
  ({slots[s].content : s \in Slots} \cup {work.content}) \ {0} = heap

(* Operations that must not overlap do not: one unfinished restore, one    *)
(* refresh of a source, one scan, and one certificate request whose result *)
(* nobody has read.                                                        *)
ExclusiveJobs ==
  \A s, t \in Slots : s # t /\ slots[s].kind = slots[t].kind =>
    /\ slots[s].kind = "restore" => "completed" \in {slots[s].state, slots[t].state}
    /\ slots[s].kind = "refresh" /\ slots[s].source = slots[t].source =>
         "completed" \in {slots[s].state, slots[t].state}
    /\ slots[s].kind # "scheduled"
    /\ slots[s].kind = "csr" => Reusable(s) \/ Reusable(t)

(* A job whose credential fell while it waited, or after the worker had    *)
(* taken it and before reauthorize_management_job looked, is never run     *)
(* unless its permission was given back.                                   *)
RevokedJobsNeverRun ==
  \A s \in Slots : slots[s].state = "running" => ~slots[s].lost

(* docs/web-api.md: "completed results remain available until read, or for *)
(* at most one hour"; and no job vanishes before it is done.               *)
ResultsAreKept ==
  [][\A s \in Slots :
       /\ Occupied(s) /\ slots'[s].id # slots[s].id
       /\ ~System(slots[s]) /\ ~Destroy
       => /\ slots[s].state = "completed"
          /\ slots[s].id \in delivered \/ clock - slots[s].done >= Retention]_vars

(* Every accepted job gets its result unless the daemon stops.             *)
AcceptedIsAnswered ==
  \A i \in 1 .. MaxJobs :
    (\E s \in Slots : slots[s].id = i /\ slots[s].state = "queued") ~>
      (stopping \/ ~\E s \in Slots :
                      slots[s].id = i /\ slots[s].state \in {"queued", "running"})
=============================================================================
