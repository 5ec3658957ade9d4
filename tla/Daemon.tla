-------------------------------- MODULE Daemon --------------------------------
(***************************************************************************)
(* The life of janusgated: main() prepares the runtime, starts its         *)
(* threads, waits for the packet workers, and stops and releases           *)
(* everything in reverse (src/src/daemon/main.c, daemon_runtime.c,         *)
(* nfqueue_group.c, nfqueue.c, control_server.c).                          *)
(*                                                                         *)
(* A stop is a byte in a pipe that stays readable.  It is written by the   *)
(* signal thread, by the control thread after a restart request, and by    *)
(* every thread that fails.  A packet worker answers what waits in its     *)
(* kernel queue and ends; main() joins the workers, then the control and   *)
(* the signal thread, then the background threads while it destroys what   *)
(* they use.  A thread's step is one turn of its loop.                     *)
(***************************************************************************)
EXTENDS Naturals, Sequences

CONSTANTS
  Queues,       \* the packet workers, in the order of their queue numbers
  QueueLength,  \* network->queue_length: packets without verdict per queue
  MaxFaults,    \* bound on failing steps
  MaxRequests,  \* bound on requests to the control socket
  ForeignWake   \* whether another process may send SIGUSR1

(* The configuration names at least one queue, each with a number of its own. *)
ASSUME QueuesAssumption ==
  /\ Queues \in Seq(STRING) /\ Len(Queues) > 0
  /\ \A i, j \in 1 .. Len(Queues) : Queues[i] = Queues[j] => i = j
  /\ \A i \in 1 .. Len(Queues) :
       Queues[i] \notin {"writer", "jobs", "alerts", "control", "signal"}

ASSUME LengthAssumption == QueueLength \in Nat /\ MaxFaults \in Nat

QueueCount == Len(Queues)
Workers == {Queues[i] : i \in 1 .. QueueCount}
Background == {"writer", "jobs", "alerts"}
AllThreads == Workers \cup Background \cup {"control", "signal"}

VARIABLES
  main,      \* where main() is
  starting,  \* the worker that jg_nfqueue_group_start is about to create
  stage,     \* what jg_daemon_runtime_destroy releases next
  status,    \* main's result: whether it will exit with 1
  held,      \* what prepare and start have created and destroy has not released
  freed,     \* what destroy has released
  thread,    \* "none" before creation and after the join
  failed,    \* threads that ended with an error
  asked,     \* parts whose threads were told to stop
  stop,      \* group->stop_pipe is readable
  groupJoined, \* group->joined
  controlStop, \* server->stop_pipe is readable
  term, wake,  \* pending SIGTERM or SIGINT, pending SIGUSR1
  queue,     \* a worker's packets, see NoPackets
  serving,   \* the request of the connected client
  pending,   \* management->pending_system_action
  faults, requests

mainVars == <<main, starting, stage, status>>
partVars == <<held, freed, asked, groupJoined>>
signalVars == <<term, wake>>
controlVars == <<controlStop, serving, pending, requests>>
daemonVars == <<mainVars, partVars, thread, failed, stop, signalVars, queue,
                controlVars, faults>>

(* jg_daemon_runtime_prepare creates in this order; the job thread is started *)
(* with the management part.                                                  *)
Created == <<"database", "collector", "management", "policies", "workers", "queues">>

(* Mutant: the snapshots go before the threads that evaluate with them.       *)
DestroyedPoliciesFirst == <<"server", "alerts", "jobs", "management", "policies", "queues",
                            "collector", "workers", "database">>

(* jg_control_server_destroy and jg_daemon_runtime_destroy, with the two      *)
(* threads that jg_management_destroy joins first.                            *)
Destroyed == <<"server", "alerts", "jobs", "management", "queues", "collector",
               "workers", "policies", "database">>

ThreadsOf(part) ==
  CASE part = "queues" -> Workers
    [] part = "collector" -> {"writer"}
    [] part \in {"alerts", "jobs"} -> {part}
    [] OTHER -> {}

(* What a running thread may touch at any moment.                             *)
Uses(t) ==
  CASE t \in Workers -> {"queues", "workers", "policies", "collector"}
    [] t = "control" -> {"server", "management", "alerts", "jobs", "queues", "collector",
                         "workers", "policies", "database"}
    [] t = "signal" -> {"queues"}
    [] t = "writer" -> {"collector", "database"}
    [] t = "jobs" -> {"jobs", "management", "collector", "policies", "database"}
    [] t = "alerts" -> {"alerts", "management", "queues", "workers", "collector", "database"}

Active(t) == thread[t] \in {"running", "draining"}
Ended(threads) == \A t \in threads : ~Active(t)
Joined(threads) == [t \in AllThreads |-> IF t \in threads THEN "none" ELSE thread[t]]
Runs(t) == thread' = [thread EXCEPT ![t] = "running"]

(* waiting: packets the socket holds; overflow: its next recv answers         *)
(* ENOBUFS; due: of waiting, those there when the worker saw the stop;        *)
(* drained: count of drain_messages; skipped: turns of it without a packet.   *)
NoPackets ==
  [w \in Workers |->
    [waiting |-> 0, overflow |-> FALSE, due |-> 0, drained |-> 0, skipped |-> 0]]

DaemonInit ==
  /\ main = "prepare" /\ starting = 1 /\ stage = 1 /\ status = 0
  /\ held = {} /\ freed = {} /\ asked = {}
  /\ thread = [t \in AllThreads |-> "none"]
  /\ failed = {}
  /\ stop = FALSE /\ groupJoined = FALSE /\ controlStop = FALSE
  /\ term = FALSE /\ wake = FALSE
  /\ queue = NoPackets
  /\ serving = "nobody" /\ pending = "none"
  /\ faults = 0 /\ requests = 0

Fault == faults < MaxFaults /\ faults' = faults + 1

-----------------------------------------------------------------------------
(* main: start *)

(* A failure releases what was created, which the later steps of main() do.   *)
Prepare ==
  /\ main = "prepare"
  /\ \E n \in 0 .. Len(Created) :
       /\ held' = {Created[i] : i \in 1 .. n}
       /\ IF "management" \in held' THEN Runs("jobs") ELSE UNCHANGED thread
       /\ IF n = Len(Created)
            THEN main' = "privileges" /\ UNCHANGED <<status, faults>>
            ELSE main' = "destroy" /\ status' = 1 /\ Fault
  /\ UNCHANGED <<starting, stage, freed, asked, groupJoined, failed, stop, signalVars,
                 queue, controlVars>>

(* The failure branch of main(): request a stop and go on to the clean-up.    *)
Abandon == main' = "stopControl" /\ status' = 1 /\ stop' = TRUE

(* jg_process_drop_privileges, jg_process_apply_system_call_filter            *)
Confine ==
  /\ \/ /\ main = "privileges" /\ main' = "collector"
        /\ UNCHANGED <<status, stop, faults>>
     \/ /\ main = "filter" /\ main' = "signal"
        /\ UNCHANGED <<status, stop, faults>>
     \/ main \in {"privileges", "filter"} /\ Abandon /\ Fault
  /\ UNCHANGED <<starting, stage, partVars, thread, failed, signalVars, queue,
                 controlVars>>

StartCollector ==
  /\ main = "collector"
  /\ \/ Runs("writer") /\ main' = "workers" /\ UNCHANGED <<status, stop, faults>>
     \/ Abandon /\ Fault /\ UNCHANGED thread
  /\ UNCHANGED <<starting, stage, partVars, failed, signalVars, queue, controlVars>>

(* One turn of jg_nfqueue_group_start; a failure stops the workers created    *)
(* so far.                                                                    *)
StartWorker ==
  /\ main = "workers"
  /\ \/ /\ Runs(Queues[starting])
        /\ starting' = starting + 1
        /\ main' = IF starting = QueueCount THEN "alerts" ELSE "workers"
        /\ UNCHANGED <<stop, faults>>
     \/ /\ stop' = TRUE /\ main' = "unstart" /\ Fault
        /\ UNCHANGED <<thread, starting>>
  /\ UNCHANGED <<stage, status, partVars, failed, signalVars, queue, controlVars>>

(* jg_management_start *)
StartAlerts ==
  /\ main = "alerts"
  /\ \/ Runs("alerts") /\ main' = "control" /\ UNCHANGED <<stop, faults>>
     \/ stop' = TRUE /\ main' = "unstart" /\ Fault /\ UNCHANGED thread
  /\ UNCHANGED <<starting, stage, status, partVars, failed, signalVars, queue,
                 controlVars>>

(* join_workers for a start that failed, then the collector's stop            *)
UnstartWorkers ==
  /\ main = "unstart" /\ Ended(Workers)
  /\ thread' = Joined(Workers) /\ groupJoined' = TRUE /\ queue' = NoPackets
  /\ asked' = asked \cup {"collector"}
  /\ main' = "uncollect"
  /\ UNCHANGED <<starting, stage, status, held, freed, failed, stop, signalVars,
                 controlVars, faults>>

UnstartCollector ==
  /\ main = "uncollect" /\ Ended({"writer"})
  /\ thread' = Joined({"writer"})
  /\ Abandon
  /\ UNCHANGED <<starting, stage, partVars, failed, signalVars, queue, controlVars,
                 faults>>

(* jg_control_server_start *)
StartControl ==
  /\ main = "control"
  /\ \/ /\ Runs("control") /\ held' = held \cup {"server"} /\ main' = "filter"
        /\ UNCHANGED <<status, stop, faults>>
     \/ Abandon /\ Fault /\ UNCHANGED <<thread, held>>
  /\ UNCHANGED <<starting, stage, freed, asked, groupJoined, failed, signalVars, queue,
                 controlVars>>

StartSignal ==
  /\ main = "signal"
  /\ \/ Runs("signal") /\ main' = "wait" /\ UNCHANGED <<status, stop, faults>>
     \/ Abandon /\ Fault /\ UNCHANGED thread
  /\ UNCHANGED <<starting, stage, partVars, failed, signalVars, queue, controlVars>>

-----------------------------------------------------------------------------
(* main: stop *)

(* jg_daemon_runtime_wait: join_workers keeps the first error.  Nobody reads  *)
(* what the queues still hold.                                                *)
WaitWorkers ==
  /\ main = "wait" /\ Ended(Workers)
  /\ thread' = Joined(Workers) /\ groupJoined' = TRUE /\ queue' = NoPackets
  /\ status' = IF failed \cap Workers = {} THEN 0 ELSE 1
  /\ main' = "stopControl"
  /\ UNCHANGED <<starting, stage, held, freed, asked, failed, stop, signalVars,
                 controlVars, faults>>

(* jg_control_server_stop: notify, then join                                  *)
StopControl ==
  /\ main = "stopControl"
  /\ controlStop' = ("server" \in held)
  /\ main' = IF "server" \in held THEN "joinControl" ELSE "wakeSignal"
  /\ UNCHANGED <<starting, stage, status, partVars, thread, failed, stop, signalVars,
                 queue, serving, pending, requests, faults>>

JoinControl ==
  /\ main = "joinControl" /\ Ended({"control"})
  /\ thread' = Joined({"control"})
  /\ status' = IF "control" \in failed THEN 1 ELSE status
  /\ main' = "wakeSignal"
  /\ UNCHANGED <<starting, stage, partVars, failed, stop, signalVars, queue,
                 controlVars, faults>>

WakeSignal ==
  /\ main = "wakeSignal"
  /\ wake' = (wake \/ thread["signal"] # "none")
  /\ main' = IF thread["signal"] # "none" THEN "joinSignal" ELSE "destroy"
  /\ UNCHANGED <<starting, stage, status, partVars, thread, failed, stop, term, queue,
                 controlVars, faults>>

JoinSignal ==
  /\ main = "joinSignal" /\ Ended({"signal"})
  /\ thread' = Joined({"signal"})
  /\ main' = "destroy"
  /\ UNCHANGED <<starting, stage, status, partVars, failed, stop, signalVars, queue,
                 controlVars, faults>>

(* Each part is told to stop, its threads are joined, and it is released.     *)
DestroyBegin ==
  /\ main = "destroy" /\ Destroyed[stage] \notin asked
  /\ asked' = asked \cup {Destroyed[stage]}
  /\ stop' = (stop \/ (Destroyed[stage] = "queues" /\ starting > QueueCount /\ ~groupJoined))
  /\ UNCHANGED <<mainVars, held, freed, groupJoined, thread, failed, signalVars, queue,
                 controlVars, faults>>

DestroyEnd ==
  /\ main = "destroy" /\ Destroyed[stage] \in asked
  /\ Ended(ThreadsOf(Destroyed[stage]))
  /\ thread' = Joined(ThreadsOf(Destroyed[stage]))
  /\ queue' = IF Destroyed[stage] = "queues" THEN NoPackets ELSE queue
  /\ held' = held \ {Destroyed[stage]}
  /\ freed' = freed \cup {Destroyed[stage]}
  /\ IF stage = Len(Destroyed) THEN main' = "exited" /\ UNCHANGED stage
                               ELSE stage' = stage + 1 /\ UNCHANGED main
  /\ UNCHANGED <<starting, status, asked, groupJoined, failed, stop, signalVars,
                 controlVars, faults>>

MainStep ==
  \/ Prepare \/ Confine \/ StartCollector \/ StartWorker \/ StartAlerts
  \/ UnstartWorkers \/ UnstartCollector \/ StartControl \/ StartSignal
  \/ WaitWorkers \/ StopControl \/ JoinControl \/ WakeSignal \/ JoinSignal
  \/ DestroyBegin \/ DestroyEnd

-----------------------------------------------------------------------------
(* The packet workers *)

EndsWell(w) == thread' = [thread EXCEPT ![w] = "exited"] /\ UNCHANGED <<failed, stop, faults>>

(* A thread that fails leaves its result and writes to the pipe.              *)
EndsBadly(t) ==
  /\ Fault
  /\ thread' = [thread EXCEPT ![t] = "exited"]
  /\ failed' = failed \cup {t}
  /\ stop' = TRUE

(* queue_callback with what it calls: the oldest packet is judged and gets    *)
(* its verdict, whichever it is; drain_messages counts its turns.             *)
Answered(q, turns) ==
  [waiting |-> q.waiting - 1, overflow |-> q.overflow,
   due |-> IF q.due > 0 THEN q.due - 1 ELSE 0, drained |-> q.drained + turns,
   skipped |-> q.skipped]

(* The outcomes of receive_messages: an overflow is counted, otherwise a      *)
(* packet is answered, and any error on the way ends the worker.              *)
Receive(w) ==
  \/ /\ queue[w].overflow
     /\ queue' = [queue EXCEPT ![w].overflow = FALSE]
     /\ UNCHANGED <<thread, failed, stop, faults>>
  \/ /\ ~queue[w].overflow /\ queue[w].waiting > 0
     /\ queue' = [queue EXCEPT ![w] = Answered(@, 0)]
     /\ UNCHANGED <<thread, failed, stop, faults>>
  \/ EndsBadly(w) /\ UNCHANGED queue

(* jg_nfqueue_worker_run: the stop is looked at before the queue.             *)
WorkerTurn(w) ==
  /\ thread[w] = "running"
  /\ \/ /\ stop
        /\ thread' = [thread EXCEPT ![w] = "draining"]
        /\ queue' = [queue EXCEPT ![w].due = queue[w].waiting]
        /\ UNCHANGED <<failed, stop, faults>>
     \/ ~stop /\ Receive(w)

(* One turn of the loop in drain_messages: a datagram, or ENOBUFS, or EAGAIN  *)
(* when nothing waits.                                                        *)
Drain(w) ==
  \/ /\ queue[w].overflow
     /\ queue' = [queue EXCEPT ![w].overflow = FALSE, ![w].drained = @ + 1,
                               ![w].skipped = @ + 1]
     /\ UNCHANGED <<thread, failed, stop, faults>>
  \/ /\ ~queue[w].overflow /\ queue[w].waiting > 0
     /\ queue' = [queue EXCEPT ![w] = Answered(@, 1)]
     /\ UNCHANGED <<thread, failed, stop, faults>>
  \/ ~queue[w].overflow /\ queue[w].waiting = 0 /\ EndsWell(w) /\ UNCHANGED queue
  \/ EndsBadly(w) /\ UNCHANGED queue

(* Mutant: the drain ends one turn early.                                     *)
WorkerDrainShort(w) ==
  /\ thread[w] = "draining"
  /\ IF queue[w].drained + 1 < QueueLength THEN Drain(w)
                                            ELSE EndsWell(w) /\ UNCHANGED queue

(* drain_messages: at most as many turns as the kernel keeps packets          *)
WorkerDrain(w) ==
  /\ thread[w] = "draining"
  /\ IF queue[w].drained < QueueLength THEN Drain(w)
                                        ELSE EndsWell(w) /\ UNCHANGED queue

WorkerStep(w) ==
  /\ WorkerTurn(w) \/ WorkerDrain(w)
  /\ UNCHANGED <<mainVars, partVars, signalVars, controlVars>>

(* The kernel: a packet is queued while the queue is not full, or is refused  *)
(* for lack of buffer space, which the socket reports.  What comes before the *)
(* worker runs waits for it; what comes after its end nobody reads.           *)
Arrive(w) ==
  /\ Active(w) /\ queue[w].waiting < QueueLength
  /\ \/ queue' = [queue EXCEPT ![w].waiting = @ + 1]
     \/ queue' = [queue EXCEPT ![w].overflow = TRUE]
  /\ UNCHANGED <<mainVars, partVars, thread, failed, stop, signalVars, controlVars, faults>>

-----------------------------------------------------------------------------
(* The control thread *)

(* One turn of serve_connections: a client is accepted unless a stop waits.   *)
Accept(request) ==
  /\ thread["control"] = "running" /\ serving = "nobody" /\ ~controlStop
  /\ requests < MaxRequests /\ requests' = requests + 1
  /\ serving' = request
  /\ UNCHANGED <<mainVars, partVars, thread, failed, stop, signalVars, queue,
                 controlStop, pending, faults>>

(* handle_system_action remembers a lifecycle action, unless one is pending.  *)
Handle ==
  /\ thread["control"] = "running"
  /\ serving \in {"restart", "reboot"}
  /\ pending' = IF pending = "none" THEN serving ELSE pending
  /\ serving' = "answer"
  /\ UNCHANGED <<mainVars, partVars, thread, failed, stop, signalVars, queue,
                 controlStop, requests, faults>>

(* jg_control_handle_connection once the request was read and processed: the  *)
(* answer is sent and the pending action performed, or the client is lost     *)
(* (refused, gone, too slow) and the action stays pending.                    *)
Reply ==
  /\ thread["control"] = "running"
  /\ serving \in {"other", "answer"}
  /\ serving' = "nobody"
  /\ \/ pending' = "none" /\ stop' = (stop \/ pending = "restart")
     \/ UNCHANGED <<pending, stop>>
  /\ UNCHANGED <<mainVars, partVars, thread, failed, signalVars, queue, controlStop,
                 requests, faults>>

(* Mutant: run_server keeps its error to itself.                              *)
ControlEndSilent ==
  /\ thread["control"] = "running" /\ serving = "nobody"
  /\ \/ controlStop /\ EndsWell("control")
     \/ /\ Fault
        /\ thread' = [thread EXCEPT !["control"] = "exited"]
        /\ failed' = failed \cup {"control"}
        /\ UNCHANGED stop
  /\ UNCHANGED <<mainVars, partVars, signalVars, queue, controlVars>>

(* run_server: the loop ends when told to or on an error of its own, which    *)
(* stops the daemon.                                                          *)
ControlEnd ==
  /\ thread["control"] = "running" /\ serving = "nobody"
  /\ \/ controlStop /\ EndsWell("control")
     \/ EndsBadly("control")
  /\ UNCHANGED <<mainVars, partVars, signalVars, queue, controlVars>>

ControlStep == Handle \/ Reply \/ ControlEnd

-----------------------------------------------------------------------------
(* Signals and background threads *)

Signalled ==
  /\ main # "exited"
  /\ \/ term' = TRUE /\ UNCHANGED wake
     \/ ForeignWake /\ wake' = TRUE /\ UNCHANGED term
  /\ UNCHANGED <<mainVars, partVars, thread, failed, stop, queue, controlVars, faults>>

(* wait_for_shutdown: sigwait takes the SIGUSR1 directed at its thread before *)
(* a signal of the process.                                                   *)
SignalStep ==
  /\ thread["signal"] = "running"
  /\ \/ term /\ ~wake /\ term' = FALSE /\ stop' = TRUE /\ UNCHANGED <<wake, thread>>
     \/ /\ wake /\ wake' = FALSE /\ thread' = [thread EXCEPT !["signal"] = "exited"]
        /\ UNCHANGED <<term, stop>>
  /\ UNCHANGED <<mainVars, partVars, failed, queue, controlVars, faults>>

(* The writer, the job and the alert thread end their work once told to.      *)
BackgroundEnd(t) ==
  /\ thread[t] = "running"
  /\ \E part \in asked : t \in ThreadsOf(part)
  /\ EndsWell(t)
  /\ UNCHANGED <<mainVars, partVars, signalVars, queue, controlVars>>

-----------------------------------------------------------------------------
DaemonNext ==
  \/ MainStep
  \/ \E w \in Workers : WorkerStep(w) \/ Arrive(w)
  \/ \E request \in {"other", "restart", "reboot"} : Accept(request)
  \/ ControlStep \/ SignalStep \/ Signalled
  \/ \E t \in Background : BackgroundEnd(t)

(* Threads that can run do, but nothing makes a step fail, and clients,       *)
(* signals and packets may never come.                                        *)
DaemonFairness ==
  /\ WF_daemonVars(MainStep /\ UNCHANGED faults)
  /\ \A w \in Workers : WF_daemonVars(WorkerStep(w) /\ UNCHANGED faults)
  /\ WF_daemonVars(ControlStep /\ UNCHANGED faults)
  /\ WF_daemonVars(SignalStep)
  /\ \A t \in Background : WF_daemonVars(BackgroundEnd(t))

DaemonSpec == DaemonInit /\ [][DaemonNext]_daemonVars /\ DaemonFairness

-----------------------------------------------------------------------------
(* Properties *)

(* No part is released while a thread that may touch it still runs, whichever *)
(* step of the start has failed (jg_daemon_runtime_destroy,                   *)
(* jg_management_destroy, jg_control_server_destroy).                         *)
ThreadsHoldWhatTheyUse ==
  \A t \in AllThreads : Active(t) => Uses(t) \cap freed = {}

(* A worker that stops in order has answered every packet that waited when it *)
(* saw the stop, but one for each overflow reported in between                *)
(* (drain_messages).                                                          *)
DrainAnswersWaiting ==
  \A w \in Workers \ failed : thread[w] = "exited" => queue[w].due <= queue[w].skipped

(* Whoever asks for the stop or fails, the daemon ends, and its exit status   *)
(* tells whether something failed (main, jg_daemon_runtime_wait).             *)
StopEndsInExit ==
  (stop \/ term \/ failed # {}) ~> (main = "exited" /\ (status = 1 <=> faults > 0))

(* An accepted action is only carried out when its own answer was delivered   *)
(* (comment of perform_system_action).  It is not: see README.                *)
ActionFollowsItsAnswer ==
  [][serving = "other" => pending' = pending]_daemonVars
===============================================================================
