------------------------- MODULE PacketRuntimeProofs -------------------------
(***************************************************************************)
(* Proofs about the runtime of janusgated: about Daemon for every number   *)
(* and length of the packet queues and every number of failing steps,      *)
(* about PolicyStore for every number of readers, writers and heap         *)
(* addresses and for every last generation, and about the two together.    *)
(***************************************************************************)
EXTENDS PacketRuntime, TLAPS

-----------------------------------------------------------------------------
(* The life of the threads *)


Early == {"prepare", "privileges", "collector", "workers"}
Starting == {"alerts", "control", "filter", "signal"}
Stopping == {"stopControl", "joinControl", "wakeSignal", "joinSignal", "destroy", "exited"}

ThreadStates == {"none", "running", "draining", "exited"}

Packets ==
  [waiting : Nat, overflow : BOOLEAN, due : Nat, drained : Nat, skipped : Nat]

TypeInv ==
  /\ main \in Early \cup Starting \cup Stopping \cup {"wait", "unstart", "uncollect"}
  /\ starting \in 1 .. QueueCount + 1
  /\ stage \in 1 .. 9
  /\ status \in {0, 1}
  /\ thread \in [AllThreads -> ThreadStates]
  /\ queue \in [Workers -> Packets]
  /\ faults \in Nat
  /\ main \in Early => starting <= QueueCount

(* How many parts of Destroyed have been released. *)
Released == IF main = "exited" THEN 9 ELSE stage - 1

(* Parts are released in the order of Destroyed, each after its threads,   *)
(* and the control and the signal thread are gone before the first.        *)
ReleaseInv ==
  /\ main \notin {"destroy", "exited"} => stage = 1
  /\ freed = {Destroyed[i] : i \in 1 .. Released}
  /\ \A i \in 1 .. Released : Ended(ThreadsOf(Destroyed[i]))
  /\ Active("control") =>
       "server" \in held /\ main \in {"filter", "signal", "wait", "stopControl", "joinControl"}
  /\ Active("signal") =>
       main \in {"wait", "stopControl", "joinControl", "wakeSignal", "joinSignal"}

(* A worker that does not drain yet has no packet on account.  One that     *)
(* drains has so far answered or skipped one packet a turn, and one that   *)
(* ended in order has left no more than it skipped.                        *)
WorkerInv(s, q, bad) ==
  /\ q.waiting <= QueueLength
  /\ s \in {"none", "running"} => q.due = 0 /\ q.drained = 0 /\ q.skipped = 0
  /\ s = "draining" =>
       q.due <= q.waiting /\ q.due + q.drained <= QueueLength + q.skipped
  /\ s = "exited" /\ ~bad => q.due <= q.skipped

DrainInv ==
  /\ main \in Early => \A i \in starting .. QueueCount : thread[Queues[i]] = "none"
  /\ \A w \in Workers : WorkerInv(thread[w], queue[w], w \in failed)

(* main() exits with 1 exactly when something has failed, whichever step   *)
(* of the start, worker or control thread it was (main,                    *)
(* jg_daemon_runtime_wait, jg_control_server_stop).                        *)
ExitStatusTells == main = "exited" => (status = 1 <=> faults > 0)

(* Until main() has seen a failure, a failed thread has it on record.      *)
StatusInv ==
  /\ status = 1 => main \in Stopping
  /\ faults = 0 => failed = {} /\ status = 0 /\ main \notin {"unstart", "uncollect"}
  /\ faults > 0 =>
       \/ status = 1
       \/ main \in {"unstart", "uncollect"}
       \/ failed \cap Workers # {} /\ main \in Early \cup Starting \cup {"wait"}
       \/ /\ "control" \in failed /\ "server" \in held
          /\ main \in {"filter", "signal", "wait", "stopControl", "joinControl"}
  /\ status = 0 /\ main \in Stopping => Ended(Workers)

USE QueuesAssumption, LengthAssumption DEF Early, Starting, Stopping, ThreadStates

(* Who the threads are. *)
LEMMA ThreadFacts ==
  /\ Workers \subseteq AllThreads /\ Background \subseteq AllThreads
  /\ {"control", "signal", "writer", "jobs", "alerts"} \subseteq AllThreads
  /\ Workers \cap {"control", "signal", "writer", "jobs", "alerts"} = {}
  /\ QueueCount \in Nat /\ QueueCount > 0
  /\ \A i \in 1 .. QueueCount : Queues[i] \in Workers
  /\ \A t \in AllThreads : t \in Workers \cup {"control", "signal", "writer", "jobs", "alerts"}
  BY DEF Workers, AllThreads, Background, QueueCount

(* Each part of the runtime, in the order of its release. *)
LEMMA DestroyedFacts ==
  /\ Len(Destroyed) = 9 /\ Len(Created) = 6
  /\ Destroyed[1] = "server" /\ Destroyed[2] = "alerts" /\ Destroyed[3] = "jobs"
  /\ Destroyed[4] = "management" /\ Destroyed[5] = "queues" /\ Destroyed[6] = "collector"
  /\ Destroyed[7] = "workers" /\ Destroyed[8] = "policies" /\ Destroyed[9] = "database"
  BY DEF Destroyed, Created

(* The order of the clean-up: a part goes only after, or together with,    *)
(* every background or packet thread that uses it.                         *)
LEMMA UsersGoFirst ==
  ASSUME NEW t \in Workers \cup Background, NEW i \in 1 .. 9, Destroyed[i] \in Uses(t)
  PROVE  \E j \in 1 .. i : t \in ThreadsOf(Destroyed[j])
  <1> USE ThreadFacts, DestroyedFacts
  <1>1. CASE t \in Workers
    <2>1. Uses(t) = {"queues", "workers", "policies", "collector"}
      BY <1>1 DEF Uses
    <2>2. i >= 5
      BY <2>1
    <2>3. t \in ThreadsOf(Destroyed[5])
      BY <1>1 DEF ThreadsOf
    <2>4. QED
      BY <2>2, <2>3
  <1>2. CASE t = "writer"
    <2>1. Uses(t) = {"collector", "database"}
      BY <1>2 DEF Uses
    <2>2. i >= 6
      BY <2>1
    <2>3. t \in ThreadsOf(Destroyed[6])
      BY <1>2 DEF ThreadsOf
    <2>4. QED
      BY <2>2, <2>3
  <1>3. CASE t = "jobs"
    <2>1. Uses(t) = {"jobs", "management", "collector", "policies", "database"}
      BY <1>3 DEF Uses
    <2>2. i >= 3
      BY <2>1
    <2>3. t \in ThreadsOf(Destroyed[3])
      BY <1>3 DEF ThreadsOf
    <2>4. QED
      BY <2>2, <2>3
  <1>4. CASE t = "alerts"
    <2>1. Uses(t) = {"alerts", "management", "queues", "workers", "collector", "database"}
      BY <1>4 DEF Uses
    <2>2. i >= 2
      BY <2>1
    <2>3. t \in ThreadsOf(Destroyed[2])
      BY <1>4 DEF ThreadsOf
    <2>4. QED
      BY <2>2, <2>3
  <1>5. QED
    BY <1>1, <1>2, <1>3, <1>4 DEF Background

(* An empty queue. *)
LEMMA NoPacketsFacts ==
  /\ NoPackets \in [Workers -> Packets]
  /\ \A w \in Workers : /\ NoPackets[w].waiting = 0 /\ NoPackets[w].due = 0
                        /\ NoPackets[w].drained = 0 /\ NoPackets[w].skipped = 0
  BY DEF NoPackets, Packets

(* The threads that belong to a part. *)
LEMMA ThreadsOfType == \A part : ThreadsOf(part) \subseteq AllThreads
  BY ThreadFacts DEF ThreadsOf

(* What a turn of a worker does to its thread and to its queue. *)
LEMMA WorkerEffect ==
  ASSUME TypeInv, NEW w \in Workers, WorkerStep(w)
  PROVE  /\ thread[w] \in {"running", "draining"}
         /\ failed' \in {failed, failed \cup {w}}
         /\ \E s \in ThreadStates \ {"none"}, q \in Packets :
              /\ thread' = [thread EXCEPT ![w] = s] /\ queue' = [queue EXCEPT ![w] = q]
              /\ WorkerInv(thread[w], queue[w], w \in failed) => WorkerInv(s, q, w \in failed')
  <1> USE ThreadFacts DEF TypeInv
  <1> DEFINE q0 == queue[w]
  <1>0. q0 \in Packets /\ w \in AllThreads /\ thread = [thread EXCEPT ![w] = thread[w]]
        /\ queue = [queue EXCEPT ![w] = queue[w]]
    OBVIOUS
  <1>a. thread[w] \in {"running", "draining"} /\ failed' \in {failed, failed \cup {w}}
    BY DEF WorkerStep, WorkerTurn, WorkerDrain, Receive, Drain, EndsWell, EndsBadly
  <1>b. SUFFICES \E s \in ThreadStates \ {"none"}, q \in Packets :
                   /\ thread' = [thread EXCEPT ![w] = s] /\ queue' = [queue EXCEPT ![w] = q]
                   /\ WorkerInv(thread[w], q0, w \in failed) => WorkerInv(s, q, w \in failed')
    BY <1>a
  <1>1. CASE EndsBadly(w) /\ UNCHANGED queue
    BY <1>0, <1>1, <1>a DEF EndsBadly, WorkerInv
  <1>2. CASE WorkerTurn(w) /\ stop
    <2> DEFINE q == [q0 EXCEPT !.due = q0.waiting]
    <2>1. q \in Packets /\ q.waiting = q0.waiting /\ q.due = q0.waiting
          /\ q.drained = q0.drained /\ q.skipped = q0.skipped
      BY <1>0 DEF Packets
    <2>2. queue' = [queue EXCEPT ![w] = q] /\ thread' = [thread EXCEPT ![w] = "draining"]
          /\ thread[w] = "running"
      BY <1>2 DEF WorkerTurn
    <2>3. WorkerInv(thread[w], q0, w \in failed) => WorkerInv("draining", q, w \in failed')
      BY <1>0, <2>1, <2>2 DEF WorkerInv, Packets
    <2> HIDE DEF q
    <2>4. QED
      BY <2>1, <2>2, <2>3
  <1>3. CASE WorkerTurn(w) /\ ~stop
    <2>0. thread[w] = "running"
      BY <1>3 DEF WorkerTurn
    <2>1. CASE queue' = [queue EXCEPT ![w].overflow = FALSE] /\ UNCHANGED <<thread, failed>>
      <3> DEFINE q == [q0 EXCEPT !.overflow = FALSE]
      <3>1. q \in Packets /\ q.waiting = q0.waiting /\ q.due = q0.due
            /\ q.drained = q0.drained /\ q.skipped = q0.skipped
        BY <1>0 DEF Packets
      <3>2. queue' = [queue EXCEPT ![w] = q] /\ thread' = [thread EXCEPT ![w] = "running"]
        BY <1>0, <2>0, <2>1
      <3>3. WorkerInv(thread[w], q0, w \in failed) => WorkerInv("running", q, w \in failed')
        BY <2>0, <2>1, <3>1 DEF WorkerInv
      <3> HIDE DEF q
      <3>4. QED
        BY <3>1, <3>2, <3>3
    <2>2. CASE /\ queue[w].waiting > 0
               /\ queue' = [queue EXCEPT ![w] = Answered(@, 0)] /\ UNCHANGED <<thread, failed>>
      <3> DEFINE q == Answered(q0, 0)
      <3>1. /\ q \in Packets /\ q.waiting = q0.waiting - 1
            /\ q.due = IF q0.due > 0 THEN q0.due - 1 ELSE 0
            /\ q.drained = q0.drained /\ q.skipped = q0.skipped
        BY <1>0, <2>2 DEF Packets, Answered
      <3>2. queue' = [queue EXCEPT ![w] = q] /\ thread' = [thread EXCEPT ![w] = "running"]
        BY <1>0, <2>0, <2>2
      <3>3. WorkerInv(thread[w], q0, w \in failed) => WorkerInv("running", q, w \in failed')
        BY <1>0, <2>0, <2>2, <3>1 DEF WorkerInv, Packets
      <3> HIDE DEF q
      <3>4. QED
        BY <3>1, <3>2, <3>3
    <2>3. QED
      BY <1>1, <1>3, <2>1, <2>2 DEF WorkerTurn, Receive
  <1>4. CASE WorkerDrain(w) /\ q0.drained < QueueLength
    <2>0. thread[w] = "draining"
      BY <1>4 DEF WorkerDrain
    <2>1. CASE /\ queue' = [queue EXCEPT ![w].overflow = FALSE, ![w].drained = @ + 1,
                               ![w].skipped = @ + 1]
               /\ UNCHANGED <<thread, failed>>
      <3> DEFINE q == [waiting |-> q0.waiting, overflow |-> FALSE, due |-> q0.due,
                       drained |-> q0.drained + 1, skipped |-> q0.skipped + 1]
      <3>1. q \in Packets
        BY <1>0 DEF Packets
      <3>2. queue' = [queue EXCEPT ![w] = q] /\ thread' = [thread EXCEPT ![w] = "draining"]
        BY <1>0, <2>0, <2>1 DEF Packets
      <3>3. WorkerInv(thread[w], q0, w \in failed) => WorkerInv("draining", q, w \in failed')
        BY <1>0, <2>0, <2>1 DEF WorkerInv, Packets
      <3> HIDE DEF q
      <3>4. QED
        BY <3>1, <3>2, <3>3
    <2>2. CASE /\ queue[w].waiting > 0
               /\ queue' = [queue EXCEPT ![w] = Answered(@, 1)]
               /\ UNCHANGED <<thread, failed>>
      <3> DEFINE q == [waiting |-> q0.waiting - 1, overflow |-> q0.overflow,
                       due |-> IF q0.due > 0 THEN q0.due - 1 ELSE 0,
                       drained |-> q0.drained + 1, skipped |-> q0.skipped]
      <3>1. q \in Packets
        BY <1>0, <2>2 DEF Packets
      <3>a. /\ q.waiting = q0.waiting - 1 /\ q.due = IF q0.due > 0 THEN q0.due - 1 ELSE 0
            /\ q.drained = q0.drained + 1 /\ q.skipped = q0.skipped
        OBVIOUS
      <3>3. queue' = [queue EXCEPT ![w] = q] /\ thread' = [thread EXCEPT ![w] = "draining"]
        BY <1>0, <2>0, <2>2 DEF Answered
      <3> HIDE DEF q
      <3>4. WorkerInv(thread[w], q0, w \in failed) => WorkerInv("draining", q, w \in failed')
        BY <1>0, <1>4, <2>0, <2>2, <3>a DEF WorkerInv, Packets
      <3>5. QED
        BY <3>1, <3>3, <3>4
    <2>3. CASE queue[w].waiting = 0 /\ EndsWell(w) /\ UNCHANGED queue
      <3>1. thread' = [thread EXCEPT ![w] = "exited"] /\ queue' = [queue EXCEPT ![w] = q0]
        BY <1>0, <2>3 DEF EndsWell
      <3>2. WorkerInv(thread[w], q0, w \in failed) => WorkerInv("exited", q0, w \in failed')
        BY <1>0, <2>0, <2>3 DEF WorkerInv, Packets
      <3>3. QED
        BY <1>0, <3>1, <3>2
    <2>4. QED
      BY <1>1, <1>4, <2>1, <2>2, <2>3 DEF WorkerDrain, Drain
  <1>5. CASE WorkerDrain(w) /\ ~(q0.drained < QueueLength)
    BY <1>0, <1>5, <1>a DEF WorkerDrain, EndsWell, WorkerInv, Packets
  <1>6. QED
    BY <1>2, <1>3, <1>4, <1>5 DEF WorkerStep

(* A packet that arrives is one more, or leaves an overflow. *)
LEMMA ArriveEffect ==
  ASSUME TypeInv, NEW w \in Workers, Arrive(w)
  PROVE  \E q \in Packets :
           /\ queue' = [queue EXCEPT ![w] = q]
           /\ Active(w) /\ WorkerInv(thread[w], queue[w], w \in failed)
                => WorkerInv(thread[w], q, w \in failed)
  <1> DEFINE q0 == queue[w]
  <1> DEFINE q1 == [q0 EXCEPT !.waiting = @ + 1]
  <1> DEFINE q2 == [q0 EXCEPT !.overflow = TRUE]
  <1>1. q0 \in Packets
    BY DEF TypeInv
  <1>2. queue' = [queue EXCEPT ![w] = q1] \/ queue' = [queue EXCEPT ![w] = q2]
    BY DEF Arrive
  <1>3. q0.waiting < QueueLength
    BY DEF Arrive
  <1> HIDE DEF q0
  <1>4. /\ q1 \in Packets /\ q1.waiting = q0.waiting + 1 /\ q1.due = q0.due
        /\ q1.drained = q0.drained /\ q1.skipped = q0.skipped
    BY <1>1 DEF Packets
  <1>5. /\ q2 \in Packets /\ q2.waiting = q0.waiting /\ q2.due = q0.due
        /\ q2.drained = q0.drained /\ q2.skipped = q0.skipped
    BY <1>1 DEF Packets
  <1> HIDE DEF q1, q2
  <1>6. /\ WorkerInv(thread[w], q0, w \in failed) => WorkerInv(thread[w], q1, w \in failed)
        /\ WorkerInv(thread[w], q0, w \in failed) => WorkerInv(thread[w], q2, w \in failed)
    BY <1>1, <1>3, <1>4, <1>5 DEF WorkerInv, Packets
  <1>7. QED
    BY <1>2, <1>4, <1>5, <1>6 DEF q0

(* Every step keeps the types. *)
LEMMA NextTypeInv == TypeInv /\ [DaemonNext]_daemonVars => TypeInv'
  <1> SUFFICES ASSUME TypeInv, [DaemonNext]_daemonVars PROVE TypeInv'
    OBVIOUS
  <1> USE ThreadFacts, DestroyedFacts, NoPacketsFacts DEF TypeInv, mainVars, partVars, signalVars, controlVars,
             Runs, Joined, Fault, Abandon, EndsWell, EndsBadly
  <1>1. CASE Prepare
    <2>1. thread' \in [AllThreads -> ThreadStates]
      BY <1>1 DEF Prepare
    <2>2. main' \in {"privileges", "destroy"} /\ status' \in {0, 1} /\ faults' \in Nat
      BY <1>1 DEF Prepare
    <2>3. QED
      BY <1>1, <2>1, <2>2 DEF Prepare
  <1>2. CASE Confine
    BY <1>2 DEF Confine
  <1>3. CASE StartCollector
    <2>1. thread' \in [AllThreads -> ThreadStates]
      BY <1>3 DEF StartCollector
    <2>2. QED
      BY <1>3, <2>1 DEF StartCollector
  <1>4. CASE StartWorker
    <2>1. starting \in 1 .. QueueCount /\ Queues[starting] \in AllThreads
      BY <1>4 DEF StartWorker
    <2>2. thread' \in [AllThreads -> ThreadStates]
      BY <1>4, <2>1 DEF StartWorker
    <2>3. CASE starting' = starting + 1 /\ UNCHANGED faults
      BY <1>4, <2>1, <2>2, <2>3 DEF StartWorker
    <2>4. CASE starting' = starting /\ main' = "unstart" /\ faults' = faults + 1
      BY <1>4, <2>2, <2>4 DEF StartWorker
    <2>5. QED
      BY <1>4, <2>3, <2>4 DEF StartWorker
  <1>5. CASE StartAlerts
    <2>1. thread' \in [AllThreads -> ThreadStates]
      BY <1>5 DEF StartAlerts
    <2>2. QED
      BY <1>5, <2>1 DEF StartAlerts
  <1>6. CASE UnstartWorkers
    BY <1>6 DEF UnstartWorkers
  <1>7. CASE UnstartCollector
    BY <1>7 DEF UnstartCollector
  <1>8. CASE StartControl
    <2>1. thread' \in [AllThreads -> ThreadStates]
      BY <1>8 DEF StartControl
    <2>2. QED
      BY <1>8, <2>1 DEF StartControl
  <1>9. CASE StartSignal
    <2>1. thread' \in [AllThreads -> ThreadStates]
      BY <1>9 DEF StartSignal
    <2>2. QED
      BY <1>9, <2>1 DEF StartSignal
  <1>10. CASE WaitWorkers
    BY <1>10 DEF WaitWorkers
  <1>11. CASE StopControl
    BY <1>11 DEF StopControl
  <1>12. CASE JoinControl
    BY <1>12 DEF JoinControl
  <1>13. CASE WakeSignal
    BY <1>13 DEF WakeSignal
  <1>14. CASE JoinSignal
    BY <1>14 DEF JoinSignal
  <1>15. CASE DestroyBegin
    BY <1>15 DEF DestroyBegin
  <1>16. CASE DestroyEnd
    <2>1. thread' \in [AllThreads -> ThreadStates] /\ queue' \in [Workers -> Packets]
      BY <1>16 DEF DestroyEnd
    <2>2. stage' \in 1 .. 9 /\ main' \in {"destroy", "exited"}
      BY <1>16 DEF DestroyEnd
    <2>3. QED
      BY <1>16, <2>1, <2>2 DEF DestroyEnd
  <1>17. ASSUME NEW w \in Workers, WorkerStep(w) PROVE TypeInv'
    <2>1. PICK st \in ThreadStates \ {"none"}, q \in Packets :
            thread' = [thread EXCEPT ![w] = st] /\ queue' = [queue EXCEPT ![w] = q]
      BY <1>17, WorkerEffect
    <2>2. faults' \in {faults, faults + 1}
      BY <1>17 DEF WorkerStep, WorkerTurn, WorkerDrain, Receive, Drain
    <2>3. thread' \in [AllThreads -> ThreadStates] /\ queue' \in [Workers -> Packets]
      BY <2>1
    <2>4. QED
      BY <1>17, <2>2, <2>3 DEF WorkerStep
  <1>18. ASSUME NEW w \in Workers, Arrive(w) PROVE TypeInv'
    <2>1. queue' \in [Workers -> Packets]
      BY <1>18, ArriveEffect
    <2>2. QED
      BY <1>18, <2>1 DEF Arrive
  <1>19. ASSUME NEW r, Accept(r) PROVE TypeInv'
    BY <1>19 DEF Accept
  <1>20. CASE Handle
    BY <1>20 DEF Handle
  <1>21. CASE Reply
    BY <1>21 DEF Reply
  <1>22. CASE ControlEnd
    <2>1. thread' \in [AllThreads -> ThreadStates]
      BY <1>22 DEF ControlEnd
    <2>2. QED
      BY <1>22, <2>1 DEF ControlEnd
  <1>23. CASE SignalStep
    BY <1>23 DEF SignalStep
  <1>24. CASE Signalled
    BY <1>24 DEF Signalled
  <1>25. ASSUME NEW t \in Background, BackgroundEnd(t) PROVE TypeInv'
    BY <1>25 DEF BackgroundEnd
  <1>26. CASE UNCHANGED daemonVars
    BY <1>26 DEF daemonVars
  <1>27. QED
    BY <1>1, <1>2, <1>3, <1>4, <1>5, <1>6, <1>7, <1>8, <1>9, <1>10, <1>11, <1>12, <1>13,
       <1>14, <1>15, <1>16, <1>17, <1>18, <1>19, <1>20, <1>21, <1>22, <1>23, <1>24,
       <1>25, <1>26 DEF DaemonNext, MainStep, ControlStep

(* Every step keeps the order of the clean-up. *)
LEMMA NextReleaseInv == TypeInv /\ ReleaseInv /\ [DaemonNext]_daemonVars => ReleaseInv'
  <1> SUFFICES ASSUME TypeInv, ReleaseInv, [DaemonNext]_daemonVars PROVE ReleaseInv'
    OBVIOUS
  <1> USE ThreadFacts, DestroyedFacts, NoPacketsFacts DEF TypeInv, ReleaseInv, Released, Ended, Active, mainVars, partVars, signalVars, controlVars,
             Runs, Joined, Fault, Abandon, EndsWell, EndsBadly
  <1>1. CASE Prepare
    <2>1. stage = 1 /\ stage' = 1 /\ freed = {} /\ freed' = {} /\ main' # "exited"
      BY <1>1 DEF Prepare
    <2>2. thread' = thread \/ thread' = [thread EXCEPT !["jobs"] = "running"]
      BY <1>1 DEF Prepare
    <2>3. thread'["control"] = thread["control"] /\ thread'["signal"] = thread["signal"]
      BY <2>2
    <2>4. ~Active("control") /\ ~Active("signal")
      BY <1>1 DEF Prepare
    <2>5. QED
      BY <2>1, <2>3, <2>4
  <1>2. CASE Confine
    BY <1>2 DEF Confine
  <1>3. CASE StartCollector
    BY <1>3 DEF StartCollector
  <1>4. CASE StartWorker
    BY <1>4 DEF StartWorker
  <1>5. CASE StartAlerts
    BY <1>5 DEF StartAlerts
  <1>6. CASE UnstartWorkers
    BY <1>6 DEF UnstartWorkers
  <1>7. CASE UnstartCollector
    BY <1>7 DEF UnstartCollector
  <1>8. CASE StartControl
    BY <1>8 DEF StartControl
  <1>9. CASE StartSignal
    BY <1>9 DEF StartSignal
  <1>10. CASE WaitWorkers
    BY <1>10 DEF WaitWorkers
  <1>11. CASE StopControl
    BY <1>11 DEF StopControl
  <1>12. CASE JoinControl
    BY <1>12 DEF JoinControl
  <1>13. CASE WakeSignal
    BY <1>13 DEF WakeSignal
  <1>14. CASE JoinSignal
    BY <1>14 DEF JoinSignal
  <1>15. CASE DestroyBegin
    BY <1>15 DEF DestroyBegin
  <1>16. CASE DestroyEnd
    <2>1. \A t \in AllThreads : Active(t)' => Active(t)
      BY <1>16 DEF DestroyEnd
    <2>2. \A t \in ThreadsOf(Destroyed[stage]) : ~Active(t)'
      BY <1>16, <2>1, ThreadsOfType DEF DestroyEnd
    <2>3. Released = stage - 1 /\ Released' = stage
      BY <1>16 DEF DestroyEnd
    <2>4. freed' = {Destroyed[i] : i \in 1 .. stage}
      BY <1>16, <2>3 DEF DestroyEnd
    <2>5. ASSUME NEW i \in 1 .. stage PROVE Ended(ThreadsOf(Destroyed[i]))'
      <3>1. CASE i = stage
        BY <2>2, <3>1
      <3>2. CASE i # stage
        <4>1. Ended(ThreadsOf(Destroyed[i]))
          BY <2>3, <3>2
        <4>2. QED
          BY <2>1, <4>1, ThreadsOfType
      <3>3. QED
        BY <3>1, <3>2
    <2>6. QED
      BY <1>16, <2>1, <2>3, <2>4, <2>5 DEF DestroyEnd
  <1>17. ASSUME NEW w \in Workers, WorkerStep(w) PROVE ReleaseInv'
    <2>1. PICK st \in ThreadStates \ {"none"}, q \in Packets :
            thread' = [thread EXCEPT ![w] = st] /\ queue' = [queue EXCEPT ![w] = q]
      BY <1>17, WorkerEffect
    <2>2. thread[w] \in {"running", "draining"}
      BY <1>17, WorkerEffect
    <2>3. \A t \in AllThreads : Active(t)' => Active(t)
      BY <2>1, <2>2
    <2>4. Released' = Released /\ UNCHANGED <<main, stage, freed, held>>
      BY <1>17 DEF WorkerStep
    <2>5. QED
      BY <2>1, <2>3, <2>4
  <1>18. ASSUME NEW w \in Workers, Arrive(w) PROVE ReleaseInv'
    BY <1>18 DEF Arrive
  <1>19. ASSUME NEW r, Accept(r) PROVE ReleaseInv'
    BY <1>19 DEF Accept
  <1>20. CASE Handle
    BY <1>20 DEF Handle
  <1>21. CASE Reply
    BY <1>21 DEF Reply
  <1>22. CASE ControlEnd
    BY <1>22 DEF ControlEnd
  <1>23. CASE SignalStep
    BY <1>23 DEF SignalStep
  <1>24. CASE Signalled
    BY <1>24 DEF Signalled
  <1>25. ASSUME NEW t \in Background, BackgroundEnd(t) PROVE ReleaseInv'
    BY <1>25 DEF BackgroundEnd
  <1>26. CASE UNCHANGED daemonVars
    BY <1>26 DEF daemonVars
  <1>27. QED
    BY <1>1, <1>2, <1>3, <1>4, <1>5, <1>6, <1>7, <1>8, <1>9, <1>10, <1>11, <1>12, <1>13,
       <1>14, <1>15, <1>16, <1>17, <1>18, <1>19, <1>20, <1>21, <1>22, <1>23, <1>24,
       <1>25, <1>26 DEF DaemonNext, MainStep, ControlStep

(* Every step keeps the account of the draining workers. *)
LEMMA NextDrainInv == TypeInv /\ DrainInv /\ [DaemonNext]_daemonVars => DrainInv'
  <1> SUFFICES ASSUME TypeInv, DrainInv, [DaemonNext]_daemonVars PROVE DrainInv'
    OBVIOUS
  <1> USE ThreadFacts, DestroyedFacts, NoPacketsFacts DEF TypeInv, DrainInv, WorkerInv, Active, mainVars, partVars, signalVars, controlVars,
             Runs, Joined, Fault, Abandon, EndsWell, EndsBadly
  <1>1. CASE Prepare
    BY <1>1 DEF Prepare
  <1>2. CASE Confine
    BY <1>2 DEF Confine
  <1>3. CASE StartCollector
    BY <1>3 DEF StartCollector
  <1>4. CASE StartWorker
    <2>1. starting \in 1 .. QueueCount /\ Queues[starting] \in Workers
      BY <1>4 DEF StartWorker
    <2>2. thread[Queues[starting]] = "none"
      BY <1>4, <2>1 DEF StartWorker
    <2>3. \A w \in Workers : WorkerInv(thread'[w], queue'[w], w \in failed')
      BY <1>4, <2>1, <2>2 DEF StartWorker
    <2>4. main' \in Early =>
            \A i \in starting' .. QueueCount : thread'[Queues[i]] = "none"
      <3> SUFFICES ASSUME main' \in Early, NEW i \in starting' .. QueueCount
                   PROVE  thread'[Queues[i]] = "none"
        OBVIOUS
      <3>1. thread' = [thread EXCEPT ![Queues[starting]] = "running"] /\ starting' = starting + 1
        BY <1>4 DEF StartWorker
      <3>2. Queues[i] # Queues[starting] /\ Queues[i] \in Workers
        BY <2>1, <3>1 DEF QueueCount
      <3>3. thread[Queues[i]] = "none"
        BY <1>4, <2>1, <3>1 DEF StartWorker
      <3>4. QED
        BY <3>1, <3>2, <3>3
    <2>5. QED
      BY <2>3, <2>4
  <1>5. CASE StartAlerts
    BY <1>5 DEF StartAlerts
  <1>6. CASE UnstartWorkers
    <2>1. \A w \in Workers : thread'[w] = "none" /\ queue'[w] = NoPackets[w]
      BY <1>6 DEF UnstartWorkers
    <2>2. QED
      BY <1>6, <2>1 DEF UnstartWorkers
  <1>7. CASE UnstartCollector
    BY <1>7 DEF UnstartCollector
  <1>8. CASE StartControl
    BY <1>8 DEF StartControl
  <1>9. CASE StartSignal
    BY <1>9 DEF StartSignal
  <1>10. CASE WaitWorkers
    <2>1. \A w \in Workers : thread'[w] = "none" /\ queue'[w] = NoPackets[w]
      BY <1>10 DEF WaitWorkers
    <2>2. QED
      BY <1>10, <2>1 DEF WaitWorkers
  <1>11. CASE StopControl
    BY <1>11 DEF StopControl
  <1>12. CASE JoinControl
    BY <1>12 DEF JoinControl
  <1>13. CASE WakeSignal
    BY <1>13 DEF WakeSignal
  <1>14. CASE JoinSignal
    BY <1>14 DEF JoinSignal
  <1>15. CASE DestroyBegin
    BY <1>15 DEF DestroyBegin
  <1>16. CASE DestroyEnd
    <2>1. CASE Destroyed[stage] = "queues"
      <3>1. \A w \in Workers : thread'[w] = "none" /\ queue'[w] = NoPackets[w]
        BY <1>16, <2>1 DEF DestroyEnd, ThreadsOf
      <3>2. main' \in {"destroy", "exited"}
        BY <1>16 DEF DestroyEnd
      <3>3. QED
        BY <3>1, <3>2
    <2>2. CASE Destroyed[stage] # "queues"
      <3>1. \A w \in Workers : w \notin ThreadsOf(Destroyed[stage])
        BY <2>2 DEF ThreadsOf
      <3>2. \A w \in Workers : thread'[w] = thread[w] /\ queue'[w] = queue[w]
        BY <1>16, <2>2, <3>1 DEF DestroyEnd
      <3>3. main' \in {"destroy", "exited"} /\ failed' = failed
        BY <1>16 DEF DestroyEnd
      <3>4. QED
        BY <3>2, <3>3
    <2>3. QED
      BY <2>1, <2>2
  <1>17. ASSUME NEW w \in Workers, WorkerStep(w) PROVE DrainInv'
    <2> HIDE DEF WorkerInv
    <2>1. PICK st \in ThreadStates \ {"none"}, q \in Packets :
            /\ thread' = [thread EXCEPT ![w] = st] /\ queue' = [queue EXCEPT ![w] = q]
            /\ WorkerInv(thread[w], queue[w], w \in failed) => WorkerInv(st, q, w \in failed')
      BY <1>17, WorkerEffect
    <2>2. thread[w] # "none" /\ failed' \in {failed, failed \cup {w}}
      BY <1>17, WorkerEffect
    <2>3. ASSUME NEW v \in Workers PROVE WorkerInv(thread'[v], queue'[v], v \in failed')
      <3>1. CASE v = w
        BY <2>1, <3>1
      <3>2. CASE v # w
        <4>1. thread'[v] = thread[v] /\ queue'[v] = queue[v] /\ (v \in failed' <=> v \in failed)
          BY <2>1, <2>2, <3>2
        <4>2. QED
          BY <4>1
      <3>3. QED
        BY <3>1, <3>2
    <2>4. main' = main /\ starting' = starting
      BY <1>17 DEF WorkerStep
    <2>5. ASSUME main \in Early, NEW i \in starting .. QueueCount PROVE thread'[Queues[i]] = "none"
      BY <2>1, <2>2, <2>5
    <2>6. QED
      BY <2>3, <2>4, <2>5
  <1>18. ASSUME NEW w \in Workers, Arrive(w) PROVE DrainInv'
    <2> HIDE DEF WorkerInv
    <2>1. PICK q \in Packets :
            /\ queue' = [queue EXCEPT ![w] = q]
            /\ WorkerInv(thread[w], queue[w], w \in failed) => WorkerInv(thread[w], q, w \in failed)
      BY <1>18, ArriveEffect DEF Arrive
    <2>2. UNCHANGED <<main, starting, thread, failed>>
      BY <1>18 DEF Arrive
    <2>3. QED
      BY <2>1, <2>2
  <1>19. ASSUME NEW r, Accept(r) PROVE DrainInv'
    BY <1>19 DEF Accept
  <1>20. CASE Handle
    BY <1>20 DEF Handle
  <1>21. CASE Reply
    BY <1>21 DEF Reply
  <1>22. CASE ControlEnd
    BY <1>22 DEF ControlEnd
  <1>23. CASE SignalStep
    BY <1>23 DEF SignalStep
  <1>24. CASE Signalled
    BY <1>24 DEF Signalled
  <1>25. ASSUME NEW t \in Background, BackgroundEnd(t) PROVE DrainInv'
    BY <1>25 DEF BackgroundEnd
  <1>26. CASE UNCHANGED daemonVars
    BY <1>26 DEF daemonVars
  <1>27. QED
    BY <1>1, <1>2, <1>3, <1>4, <1>5, <1>6, <1>7, <1>8, <1>9, <1>10, <1>11, <1>12, <1>13,
       <1>14, <1>15, <1>16, <1>17, <1>18, <1>19, <1>20, <1>21, <1>22, <1>23, <1>24,
       <1>25, <1>26 DEF DaemonNext, MainStep, ControlStep

(* Every step keeps the account of failures. *)
LEMMA NextStatusInv == TypeInv /\ ReleaseInv /\ StatusInv /\ [DaemonNext]_daemonVars => StatusInv'
  <1> SUFFICES ASSUME TypeInv, ReleaseInv, StatusInv, [DaemonNext]_daemonVars PROVE StatusInv'
    OBVIOUS
  <1> USE ThreadFacts, DestroyedFacts, NoPacketsFacts DEF TypeInv, ReleaseInv, StatusInv, Ended, Active, mainVars, partVars, signalVars, controlVars,
             Runs, Joined, Fault, Abandon, EndsWell, EndsBadly
  <1>1. CASE Prepare
    BY <1>1 DEF Prepare
  <1>2. CASE Confine
    BY <1>2 DEF Confine
  <1>3. CASE StartCollector
    BY <1>3 DEF StartCollector
  <1>4. CASE StartWorker
    BY <1>4 DEF StartWorker
  <1>5. CASE StartAlerts
    BY <1>5 DEF StartAlerts
  <1>6. CASE UnstartWorkers
    BY <1>6 DEF UnstartWorkers
  <1>7. CASE UnstartCollector
    BY <1>7 DEF UnstartCollector
  <1>8. CASE StartControl
    BY <1>8 DEF StartControl
  <1>9. CASE StartSignal
    BY <1>9 DEF StartSignal
  <1>10. CASE WaitWorkers
    BY <1>10 DEF WaitWorkers
  <1>11. CASE StopControl
    BY <1>11 DEF StopControl
  <1>12. CASE JoinControl
    BY <1>12 DEF JoinControl
  <1>13. CASE WakeSignal
    BY <1>13 DEF WakeSignal
  <1>14. CASE JoinSignal
    BY <1>14 DEF JoinSignal
  <1>15. CASE DestroyBegin
    BY <1>15 DEF DestroyBegin
  <1>16. CASE DestroyEnd
    BY <1>16 DEF DestroyEnd
  <1>17. ASSUME NEW w \in Workers, WorkerStep(w) PROVE StatusInv'
    <2>1. PICK st \in ThreadStates \ {"none"}, q \in Packets :
            thread' = [thread EXCEPT ![w] = st] /\ queue' = [queue EXCEPT ![w] = q]
      BY <1>17, WorkerEffect
    <2>2. thread[w] \in {"running", "draining"}
      BY <1>17, WorkerEffect
    <2>3. \A t \in AllThreads : Active(t)' => Active(t)
      BY <2>1, <2>2
    <2>4. UNCHANGED <<main, status, held>>
      BY <1>17 DEF WorkerStep
    <2>5. \/ UNCHANGED <<faults, failed>>
          \/ faults' = faults + 1 /\ failed' = failed \cup {w}
      BY <1>17 DEF WorkerStep, WorkerTurn, WorkerDrain, Receive, Drain
    <2>6. status = 1 \/ main \notin Stopping
      BY <2>2
    <2>7. QED
      BY <2>3, <2>4, <2>5, <2>6
  <1>18. ASSUME NEW w \in Workers, Arrive(w) PROVE StatusInv'
    BY <1>18 DEF Arrive
  <1>19. ASSUME NEW r, Accept(r) PROVE StatusInv'
    BY <1>19 DEF Accept
  <1>20. CASE Handle
    BY <1>20 DEF Handle
  <1>21. CASE Reply
    BY <1>21 DEF Reply
  <1>22. CASE ControlEnd
    BY <1>22 DEF ControlEnd
  <1>23. CASE SignalStep
    BY <1>23 DEF SignalStep
  <1>24. CASE Signalled
    BY <1>24 DEF Signalled
  <1>25. ASSUME NEW t \in Background, BackgroundEnd(t) PROVE StatusInv'
    BY <1>25 DEF BackgroundEnd
  <1>26. CASE UNCHANGED daemonVars
    BY <1>26 DEF daemonVars
  <1>27. QED
    BY <1>1, <1>2, <1>3, <1>4, <1>5, <1>6, <1>7, <1>8, <1>9, <1>10, <1>11, <1>12, <1>13,
       <1>14, <1>15, <1>16, <1>17, <1>18, <1>19, <1>20, <1>21, <1>22, <1>23, <1>24,
       <1>25, <1>26 DEF DaemonNext, MainStep, ControlStep

-----------------------------------------------------------------------------

(* The inductive invariant of Daemon. *)
DaemonInv == TypeInv /\ ReleaseInv /\ DrainInv /\ StatusInv

(* Before main() has prepared anything, the invariant holds. *)
LEMMA InitDaemonInv == DaemonInit => DaemonInv
  <1> SUFFICES ASSUME DaemonInit PROVE DaemonInv
    OBVIOUS
  <1> USE ThreadFacts, NoPacketsFacts, DestroyedFacts DEF DaemonInit
  <1>1. TypeInv
    BY DEF TypeInv
  <1>2. ReleaseInv
    BY DEF ReleaseInv, Released, Active, Ended
  <1>3. DrainInv
    BY DEF DrainInv, WorkerInv
  <1>4. StatusInv
    BY DEF StatusInv
  <1>5. QED
    BY <1>1, <1>2, <1>3, <1>4 DEF DaemonInv

(* ... and while it serves. *)
LEMMA ServingDaemonInv == Serving => DaemonInv
  <1> SUFFICES ASSUME Serving PROVE DaemonInv
    OBVIOUS
  <1> USE ThreadFacts, NoPacketsFacts, DestroyedFacts DEF Serving
  <1>1. TypeInv
    BY DEF TypeInv
  <1>2. ReleaseInv
    BY DEF ReleaseInv, Released, Active, Ended
  <1>3. DrainInv
    BY DEF DrainInv, WorkerInv
  <1>4. StatusInv
    BY DEF StatusInv
  <1>5. QED
    BY <1>1, <1>2, <1>3, <1>4 DEF DaemonInv

LEMMA NextDaemonInv == DaemonInv /\ [DaemonNext]_daemonVars => DaemonInv'
  BY NextTypeInv, NextReleaseInv, NextDrainInv, NextStatusInv DEF DaemonInv

(* The invariant holds throughout the life of the daemon. *)
LEMMA DaemonInvariant == DaemonSpec => []DaemonInv
  BY NextDaemonInv, InitDaemonInv, PTL DEF DaemonSpec

(* A thread that could touch a part is gone before it is released. *)
LEMMA HoldByInv == DaemonInv => ThreadsHoldWhatTheyUse
  <1> SUFFICES ASSUME DaemonInv, NEW t \in AllThreads, Active(t)
               PROVE  Uses(t) \cap freed = {}
    BY DEF ThreadsHoldWhatTheyUse
  <1>1. CASE main \in {"destroy", "exited"}
    <2>1. t \in Workers \cup Background
      BY <1>1, ThreadFacts DEF DaemonInv, ReleaseInv, Background
    <2>2. ASSUME NEW i \in 1 .. Released, Destroyed[i] \in Uses(t) PROVE FALSE
      <3>1. i \in 1 .. 9 /\ Released \in 0 .. 9
        BY DEF DaemonInv, TypeInv, Released
      <3>2. PICK j \in 1 .. i : t \in ThreadsOf(Destroyed[j])
        BY <2>1, <2>2, <3>1, UsersGoFirst
      <3>3. j \in 1 .. Released
        BY <3>1
      <3>4. QED
        BY <3>2, <3>3 DEF DaemonInv, ReleaseInv, Ended
    <2>3. QED
      BY <2>2 DEF DaemonInv, ReleaseInv
  <1>2. CASE main \notin {"destroy", "exited"}
    BY <1>2 DEF DaemonInv, ReleaseInv, Released
  <1>3. QED
    BY <1>1, <1>2

(* For every number of packet queues and every combination of failing      *)
(* steps, jg_daemon_runtime_destroy and the functions it calls release no  *)
(* part that a running thread may still touch.                             *)
THEOREM ThreadsHoldWhatTheyUseHolds == DaemonSpec => []ThreadsHoldWhatTheyUse
  BY HoldByInv, DaemonInvariant, PTL

LEMMA DrainByInv == DaemonInv => DrainAnswersWaiting
  BY DEF DaemonInv, DrainInv, WorkerInv, DrainAnswersWaiting

(* For every queue length, a worker that drain_messages ends in order      *)
(* leaves unanswered, of the packets it found when it saw the stop, at     *)
(* most one for each overflow that took one of its turns.                  *)
THEOREM DrainAnswersWaitingHolds == DaemonSpec => []DrainAnswersWaiting
  BY DrainByInv, DaemonInvariant, PTL

(* For every number of failures, the exit status of main() tells whether   *)
(* there was one: the safety half of StopEndsInExit.                       *)
THEOREM ExitStatusTellsHolds == DaemonSpec => []ExitStatusTells
  <1>1. DaemonInv => ExitStatusTells
    BY DEF DaemonInv, TypeInv, StatusInv, ExitStatusTells
  <1>2. QED
    BY <1>1, DaemonInvariant, PTL

HIDE DEF Early, Starting, Stopping, ThreadStates

-----------------------------------------------------------------------------
(* The policy store *)

(* A writer is inside its reload exactly while it owns policy_mutex. *)
MutexInv == \A w \in Writers : wpc[w] # "idle" <=> mutex = w

(* What a writer's locals mean at each of its steps. *)
WriterInv ==
  \A w \in Writers :
    /\ wpc[w] \in {"exchange", "scan", "store"} => generation < MaxGeneration
    /\ wpc[w] \in {"idle", "load", "exchange", "unlock"} /\ mutex \in {w, NULL}
         => heap[current] = generation
    /\ wpc[w] = "exchange" =>
         /\ replacement[w] \in Addresses
         /\ replacement[w] # current
         /\ heap[replacement[w]] = generation + 1
    /\ wpc[w] \in {"scan", "store"} => heap[current] = generation + 1
    /\ wpc[w] = "scan" =>
         /\ previous[w] \in Addresses
         /\ previous[w] # current
         /\ heap[previous[w]] = generation

(* Who owns an allocated snapshot: the store, or the writer. *)
OwnerInv ==
  /\ heap[current] # 0
  /\ mutex = NULL => heap[current] = generation
  /\ \A a \in Addresses :
       heap[a] # 0 =>
         \/ a = current
         \/ mutex \in Writers /\ wpc[mutex] = "exchange" /\ a = replacement[mutex]
         \/ mutex \in Writers /\ wpc[mutex] = "scan" /\ a = previous[mutex]

(* The hazard-pointer argument: the snapshot a reader evaluates with is    *)
(* the published one, or the one a writer is still scanning for and has    *)
(* not passed this reader's slot since.                                    *)
ReaderInv ==
  \A i \in Slots :
    /\ seen[i] <= heap[current]
    /\ rpc[i] \in {"loaded", "guarded", "reading"} => snap[i] \in Addresses
    /\ rpc[i] \in {"guarded", "reading"} => hazard[i] = snap[i]
    /\ rpc[i] = "reading" =>
         /\ heap[snap[i]] # 0
         /\ heap[snap[i]] = seen[i]
         /\ \/ snap[i] = current
            \/ /\ mutex \in Writers
               /\ wpc[mutex] = "scan"
               /\ snap[i] = previous[mutex]
               /\ index[mutex] <= i

IndInv == TypeOK /\ MutexInv /\ WriterInv /\ OwnerInv /\ ReaderInv

USE ReaderAssumption, GenerationAssumption, NullAssumption DEF Slots

(* Init establishes the inductive invariant. *)
LEMMA InitIndInv == Init => IndInv
  BY DEF Init, IndInv, TypeOK, MutexInv, WriterInv, OwnerInv, ReaderInv

(* A reader's step preserves the inductive invariant. *)
LEMMA ReaderPreserves ==
  ASSUME IndInv, NEW i \in Slots, ReaderStep(i)
  PROVE  IndInv'
  <1> USE DEF IndInv, readerVars, writerVars
  <1>1. CASE AcquireLoad(i)
    <2>1. TypeOK'
      BY <1>1 DEF AcquireLoad, TypeOK
    <2>2. MutexInv'
      BY <1>1 DEF AcquireLoad, TypeOK, MutexInv
    <2>3. WriterInv'
      BY <1>1 DEF AcquireLoad, TypeOK, MutexInv, WriterInv
    <2>4. OwnerInv'
      BY <1>1 DEF AcquireLoad, TypeOK, MutexInv, WriterInv, OwnerInv
    <2>5. ReaderInv'
      BY <1>1 DEF AcquireLoad, TypeOK, MutexInv, WriterInv, OwnerInv, ReaderInv
    <2>6. QED BY <2>1, <2>2, <2>3, <2>4, <2>5
  <1>2. CASE AcquireGuard(i)
    <2>1. TypeOK'
      BY <1>2 DEF AcquireGuard, TypeOK
    <2>2. MutexInv'
      BY <1>2 DEF AcquireGuard, TypeOK, MutexInv
    <2>3. WriterInv'
      BY <1>2 DEF AcquireGuard, TypeOK, MutexInv, WriterInv
    <2>4. OwnerInv'
      BY <1>2 DEF AcquireGuard, TypeOK, MutexInv, WriterInv, OwnerInv
    <2>5. ReaderInv'
      BY <1>2 DEF AcquireGuard, TypeOK, MutexInv, WriterInv, OwnerInv, ReaderInv
    <2>6. QED BY <2>1, <2>2, <2>3, <2>4, <2>5
  <1>3. CASE AcquireCheck(i)
    <2>1. TypeOK'
      BY <1>3 DEF AcquireCheck, TypeOK
    <2>2. MutexInv'
      BY <1>3 DEF AcquireCheck, TypeOK, MutexInv
    <2>3. WriterInv'
      BY <1>3 DEF AcquireCheck, TypeOK, MutexInv, WriterInv
    <2>4. OwnerInv'
      BY <1>3 DEF AcquireCheck, TypeOK, MutexInv, WriterInv, OwnerInv
    <2>5. ReaderInv'
      BY <1>3 DEF AcquireCheck, TypeOK, MutexInv, WriterInv, OwnerInv, ReaderInv
    <2>6. QED BY <2>1, <2>2, <2>3, <2>4, <2>5
  <1>4. CASE Release(i)
    <2>1. TypeOK'
      BY <1>4 DEF Release, TypeOK
    <2>2. MutexInv'
      BY <1>4 DEF Release, TypeOK, MutexInv
    <2>3. WriterInv'
      BY <1>4 DEF Release, TypeOK, MutexInv, WriterInv
    <2>4. OwnerInv'
      BY <1>4 DEF Release, TypeOK, MutexInv, WriterInv, OwnerInv
    <2>5. ReaderInv'
      BY <1>4 DEF Release, TypeOK, MutexInv, WriterInv, OwnerInv, ReaderInv
    <2>6. QED BY <2>1, <2>2, <2>3, <2>4, <2>5
  <1>5. QED
    BY <1>1, <1>2, <1>3, <1>4 DEF ReaderStep

(* A writer's step preserves the inductive invariant. *)
LEMMA WriterPreserves ==
  ASSUME IndInv, NEW w \in Writers, WriterStep(w)
  PROVE  IndInv'
  <1> USE DEF IndInv, readerVars, writerVars
  <1>1. CASE ReloadLock(w)
    <2>1. TypeOK'
      BY <1>1 DEF ReloadLock, TypeOK
    <2>2. MutexInv'
      BY <1>1 DEF ReloadLock, TypeOK, MutexInv
    <2>3. WriterInv'
      BY <1>1 DEF ReloadLock, TypeOK, MutexInv, WriterInv
    <2>4. OwnerInv'
      BY <1>1 DEF ReloadLock, TypeOK, MutexInv, WriterInv, OwnerInv
    <2>5. ReaderInv'
      BY <1>1 DEF ReloadLock, TypeOK, MutexInv, WriterInv, OwnerInv, ReaderInv
    <2>6. QED BY <2>1, <2>2, <2>3, <2>4, <2>5
  <1>2. CASE ReloadLoad(w)
    <2>1. TypeOK'
      BY <1>2 DEF ReloadLoad, TypeOK
    <2>2. MutexInv'
      BY <1>2 DEF ReloadLoad, TypeOK, MutexInv
    <2>3. WriterInv'
      BY <1>2 DEF ReloadLoad, TypeOK, MutexInv, WriterInv
    <2>4. OwnerInv'
      BY <1>2 DEF ReloadLoad, TypeOK, MutexInv, WriterInv, OwnerInv
    <2>5. ReaderInv'
      BY <1>2 DEF ReloadLoad, TypeOK, MutexInv, WriterInv, OwnerInv, ReaderInv
    <2>6. QED BY <2>1, <2>2, <2>3, <2>4, <2>5
  <1>3. CASE ReloadFail(w)
    <2>1. TypeOK'
      BY <1>3 DEF ReloadFail, TypeOK
    <2>2. MutexInv'
      BY <1>3 DEF ReloadFail, TypeOK, MutexInv
    <2>3. WriterInv'
      BY <1>3 DEF ReloadFail, TypeOK, MutexInv, WriterInv
    <2>4. OwnerInv'
      BY <1>3 DEF ReloadFail, TypeOK, MutexInv, WriterInv, OwnerInv
    <2>5. ReaderInv'
      BY <1>3 DEF ReloadFail, TypeOK, MutexInv, WriterInv, OwnerInv, ReaderInv
    <2>6. QED BY <2>1, <2>2, <2>3, <2>4, <2>5
  <1>4. CASE ReplaceExchange(w)
    <2>1. TypeOK'
      BY <1>4 DEF ReplaceExchange, TypeOK, WriterInv
    <2>2. MutexInv'
      BY <1>4 DEF ReplaceExchange, TypeOK, MutexInv
    <2>3. WriterInv'
      BY <1>4 DEF ReplaceExchange, TypeOK, MutexInv, WriterInv
    <2>4. OwnerInv'
      BY <1>4 DEF ReplaceExchange, TypeOK, MutexInv, WriterInv, OwnerInv
    <2>5. ReaderInv'
      BY <1>4 DEF ReplaceExchange, TypeOK, MutexInv, WriterInv, OwnerInv, ReaderInv
    <2>6. QED BY <2>1, <2>2, <2>3, <2>4, <2>5
  <1>5. CASE ReplaceScan(w)
    <2>1. TypeOK'
      <3>1. index \in [Writers -> 0 .. ReaderCount] /\ index[w] < ReaderCount /\ ReaderCount \in Nat
        BY <1>5 DEF ReplaceScan, TypeOK
      <3>2. index[w] + 1 \in 0 .. ReaderCount /\ 0 \in 0 .. ReaderCount
        BY <3>1
      <3>3. index' = [index EXCEPT ![w] =
                        IF hazard[index[w]] = previous[w] THEN 0 ELSE index[w] + 1]
        BY <1>5 DEF ReplaceScan
      <3>4. index' \in [Writers -> 0 .. ReaderCount]
        BY <3>1, <3>2, <3>3
      <3>5. UNCHANGED <<heap, current, generation, readerVars, mutex, wpc, replacement, previous>>
        BY <1>5 DEF ReplaceScan
      <3>6. QED
        BY <3>4, <3>5 DEF TypeOK, readerVars
    <2>2. MutexInv'
      BY <1>5 DEF ReplaceScan, TypeOK, MutexInv
    <2>3. WriterInv'
      BY <1>5 DEF ReplaceScan, TypeOK, MutexInv, WriterInv
    <2>4. OwnerInv'
      BY <1>5 DEF ReplaceScan, TypeOK, MutexInv, WriterInv, OwnerInv
    <2>5. ReaderInv'
      BY <1>5 DEF ReplaceScan, TypeOK, MutexInv, WriterInv, OwnerInv, ReaderInv
    <2>6. QED BY <2>1, <2>2, <2>3, <2>4, <2>5
  <1>6. CASE ReplaceDestroy(w)
    <2>1. TypeOK'
      BY <1>6 DEF ReplaceDestroy, TypeOK, WriterInv
    <2>2. MutexInv'
      BY <1>6 DEF ReplaceDestroy, TypeOK, MutexInv
    <2>3. WriterInv'
      BY <1>6 DEF ReplaceDestroy, TypeOK, MutexInv, WriterInv
    <2>4. OwnerInv'
      BY <1>6 DEF ReplaceDestroy, TypeOK, MutexInv, WriterInv, OwnerInv
    <2>5. ReaderInv'
      BY <1>6 DEF ReplaceDestroy, TypeOK, MutexInv, WriterInv, OwnerInv, ReaderInv
    <2>6. QED BY <2>1, <2>2, <2>3, <2>4, <2>5
  <1>7. CASE ReloadStore(w)
    <2>1. TypeOK'
      BY <1>7 DEF ReloadStore, TypeOK, WriterInv
    <2>2. MutexInv'
      BY <1>7 DEF ReloadStore, TypeOK, MutexInv
    <2>3. WriterInv'
      BY <1>7 DEF ReloadStore, TypeOK, MutexInv, WriterInv
    <2>4. OwnerInv'
      BY <1>7 DEF ReloadStore, TypeOK, MutexInv, WriterInv, OwnerInv
    <2>5. ReaderInv'
      BY <1>7 DEF ReloadStore, TypeOK, MutexInv, WriterInv, OwnerInv, ReaderInv
    <2>6. QED BY <2>1, <2>2, <2>3, <2>4, <2>5
  <1>8. CASE ReloadUnlock(w)
    <2>1. TypeOK'
      BY <1>8 DEF ReloadUnlock, TypeOK
    <2>2. MutexInv'
      BY <1>8 DEF ReloadUnlock, TypeOK, MutexInv
    <2>3. WriterInv'
      BY <1>8 DEF ReloadUnlock, TypeOK, MutexInv, WriterInv
    <2>4. OwnerInv'
      BY <1>8 DEF ReloadUnlock, TypeOK, MutexInv, WriterInv, OwnerInv
    <2>5. ReaderInv'
      BY <1>8 DEF ReloadUnlock, TypeOK, MutexInv, WriterInv, OwnerInv, ReaderInv
    <2>6. QED BY <2>1, <2>2, <2>3, <2>4, <2>5
  <1>9. QED
    BY <1>1, <1>2, <1>3, <1>4, <1>5, <1>6, <1>7, <1>8 DEF WriterStep

LEMMA NextIndInv == IndInv /\ [Next]_vars => IndInv'
  <1>1. IndInv /\ UNCHANGED vars => IndInv'
    BY DEF IndInv, vars, readerVars, writerVars,
           TypeOK, MutexInv, WriterInv, OwnerInv, ReaderInv
  <1>2. QED
    BY <1>1, ReaderPreserves, WriterPreserves DEF Next

(* The inductive invariant holds in every reachable state. *)
LEMMA Invariance == Spec => []IndInv
  BY InitIndInv, NextIndInv, PTL DEF Spec

(* Every variable of the store keeps its type, policy_generation its bound. *)
THEOREM TypeCorrect == Spec => []TypeOK
  BY Invariance, PTL DEF IndInv

LEMMA StableByInv == IndInv => ReadersSeeStableSnapshot
  BY DEF IndInv, ReaderInv, ReadersSeeStableSnapshot

(* No reader evaluates with a freed or replaced snapshot, for any number   *)
(* of packet workers, reloading threads and heap addresses.                *)
THEOREM NoUseAfterFree == Spec => []ReadersSeeStableSnapshot
  BY Invariance, StableByInv, PTL

(* A loaded snapshot is private to its writer until the exchange. *)
THEOREM PrivateUntilExchange == Spec => []ReplacementIsPrivate
  <1>1. IndInv => ReplacementIsPrivate
    BY DEF IndInv, TypeOK, MutexInv, WriterInv, ReaderInv, ReplacementIsPrivate
  <1>2. QED
    BY Invariance, <1>1, PTL

(* No snapshot is leaked and none but the superseded one is destroyed. *)
THEOREM NoLeak == Spec => []OneSnapshotAtRest
  <1>1. IndInv => OneSnapshotAtRest
    BY DEF IndInv, TypeOK, MutexInv, OwnerInv, OneSnapshotAtRest
  <1>2. QED
    BY Invariance, <1>1, PTL

(* The generations one reader evaluates with never decrease. *)
THEOREM MonotonicReads == Spec => GenerationsNeverGoBack
  <1>1. IndInv /\ [Next]_vars => [\A i \in Slots : seen'[i] >= seen[i]]_seen
    <2> SUFFICES ASSUME IndInv, Next
                 PROVE  \/ UNCHANGED seen
                        \/ \A i \in Slots : seen'[i] >= seen[i]
      BY DEF vars, readerVars
    <2>1. CASE \E j \in Slots : ReaderStep(j)
      BY <2>1 DEF IndInv, TypeOK, ReaderInv, ReaderStep, AcquireLoad,
                  AcquireGuard, AcquireCheck, Release
    <2>2. CASE \E w \in Writers : WriterStep(w)
      BY <2>2 DEF WriterStep, readerVars, ReloadLock, ReloadLoad, ReloadFail,
                  ReplaceExchange, ReplaceScan, ReplaceDestroy, ReloadStore,
                  ReloadUnlock
    <2>3. QED
      BY <2>1, <2>2 DEF Next
  <1>2. QED
    BY Invariance, <1>1, PTL DEF Spec, GenerationsNeverGoBack

-----------------------------------------------------------------------------
(* The set of superseded generations as the abstract cell sees it. *)
Draining == {heap[previous[w]] : w \in {v \in Writers : wpc[v] = "scan"}}

(* The generations the readers hold as the abstract cell sees them. *)
Held == [i \in Slots |-> IF rpc[i] = "reading" THEN heap[snap[i]] ELSE 0]

(* A reader's step is a step of the cell or a stutter. *)
LEMMA ReaderSimulates ==
  ASSUME IndInv, NEW i \in Slots, ReaderStep(i)
  PROVE  [Cell!CellNext]_(Cell!cellVars)
  <1> USE DEF IndInv, Cell!cellVars
  <1>1. CASE AcquireLoad(i)
    BY <1>1 DEF AcquireLoad, writerVars, TypeOK
  <1>2. CASE AcquireGuard(i)
    BY <1>2 DEF AcquireGuard, writerVars, TypeOK
  <1>3. CASE AcquireCheck(i)
    <2>1. CASE snap[i] = current
      <3>1. Held' = [Held EXCEPT ![i] = heap[current]]
        BY <1>3, <2>1 DEF AcquireCheck, TypeOK, Held
      <3>2. Held[i] = 0
        BY <1>3 DEF AcquireCheck, TypeOK, Held
      <3>3. Cell!Take(i)
        BY <1>3, <3>1, <3>2 DEF AcquireCheck, writerVars, Held, Cell!Take
      <3>4. QED BY <3>3 DEF Cell!CellNext
    <2>2. CASE snap[i] # current
      BY <1>3, <2>2 DEF AcquireCheck, writerVars, TypeOK
    <2>3. QED BY <2>1, <2>2
  <1>4. CASE Release(i)
    <2>1. Held' = [Held EXCEPT ![i] = 0]
      BY <1>4 DEF Release, TypeOK, Held
    <2>2. Held[i] # 0
      BY <1>4 DEF Release, TypeOK, ReaderInv, Held
    <2>3. Cell!GiveBack(i)
      BY <1>4, <2>1, <2>2 DEF Release, writerVars, Held, Cell!GiveBack
    <2>4. QED BY <2>3 DEF Cell!CellNext
  <1>5. QED
    BY <1>1, <1>2, <1>3, <1>4 DEF ReaderStep

(* A writer's step is a step of the cell or a stutter. *)
LEMMA WriterSimulates ==
  ASSUME IndInv, NEW w \in Writers, WriterStep(w)
  PROVE  [Cell!CellNext]_(Cell!cellVars)
  <1> USE DEF IndInv, Cell!cellVars
  <1>1. CASE ReloadLock(w)
    BY <1>1 DEF ReloadLock, readerVars, TypeOK
  <1>2. CASE ReloadLoad(w)
    BY <1>2 DEF ReloadLoad, readerVars, TypeOK, MutexInv, WriterInv, OwnerInv, ReaderInv
  <1>3. CASE ReloadFail(w)
    BY <1>3 DEF ReloadFail, readerVars, TypeOK
  <1>4. CASE ReplaceExchange(w)
    <2>1. Cell!Supersede
      BY <1>4 DEF ReplaceExchange, readerVars, TypeOK, MutexInv, WriterInv, Cell!Supersede
    <2>2. QED BY <2>1 DEF Cell!CellNext
  <1>5. CASE ReplaceScan(w)
    BY <1>5 DEF ReplaceScan, readerVars, TypeOK
  <1>6. CASE ReplaceDestroy(w)
    <2>1. PICK g : g = heap[previous[w]]
      OBVIOUS
    <2>2. g \in Draining
      BY <1>6, <2>1 DEF ReplaceDestroy, Draining
    <2>3. Cell!Reclaim(g)
      <3>1. \A i \in Slots : rpc[i] = "reading" => snap[i] = current
        BY <1>6 DEF ReplaceDestroy, TypeOK, MutexInv, ReaderInv
      <3>2. \A i \in Slots : Held[i] # g
        BY <1>6, <2>1, <3>1 DEF ReplaceDestroy, TypeOK, WriterInv, Held
      <3>3. Draining = {g}
        <4>1. {v \in Writers : wpc[v] = "scan"} = {w}
          BY <1>6 DEF ReplaceDestroy, TypeOK, MutexInv
        <4>2. QED BY <4>1, <2>1 DEF Draining
      <3>4. Draining' = {}
        <4>1. {v \in Writers : wpc[v] = "scan"}' = {}
          BY <1>6 DEF ReplaceDestroy, TypeOK, MutexInv
        <4>2. QED BY <4>1 DEF Draining
      <3>5. heap'[current'] = heap[current] /\ Held' = Held
        BY <1>6, <3>1 DEF ReplaceDestroy, readerVars, TypeOK, WriterInv, Held
      <3>6. QED
        BY <3>2, <3>3, <3>4, <3>5 DEF Cell!Reclaim, Held, Draining
    <2>4. QED
      BY <2>2, <2>3 DEF Cell!CellNext, Draining
  <1>7. CASE ReloadStore(w)
    BY <1>7 DEF ReloadStore, readerVars, TypeOK
  <1>8. CASE ReloadUnlock(w)
    <2>1. {v \in Writers : wpc'[v] = "scan"} = {v \in Writers : wpc[v] = "scan"}
      BY <1>8 DEF ReloadUnlock, TypeOK
    <2>2. \A v \in Writers : wpc[v] = "scan" => previous'[v] = previous[v]
      BY <1>8 DEF ReloadUnlock, TypeOK
    <2>3. UNCHANGED <<heap, current, rpc, snap>>
      BY <1>8 DEF ReloadUnlock, readerVars
    <2>4. Draining' = Draining /\ Held' = Held
      BY <2>1, <2>2, <2>3 DEF Draining, Held
    <2>5. QED
      BY <2>3, <2>4 DEF Draining, Held
  <1>9. QED
    BY <1>1, <1>2, <1>3, <1>4, <1>5, <1>6, <1>7, <1>8 DEF WriterStep

(* The hazard-pointer store implements the atomic cell. *)
THEOREM Refinement == Spec => ImplementsCell
  <1>1. Init => Cell!CellInit
    BY DEF Init, Cell!CellInit
  <1>2. IndInv /\ [Next]_vars => [Cell!CellNext]_(Cell!cellVars)
    <2>1. ASSUME UNCHANGED vars PROVE UNCHANGED Cell!cellVars
      BY <2>1 DEF vars, readerVars, writerVars, Cell!cellVars
    <2>2. QED
      BY <2>1, ReaderSimulates, WriterSimulates DEF Next
  <1>3. QED
    BY Invariance, <1>1, <1>2, PTL DEF Spec, ImplementsCell, Cell!CellSpec

-----------------------------------------------------------------------------
(* The two together *)

RuntimeInv == IndInv /\ DaemonInv

(* Each part keeps its invariant while it is followed, and rests otherwise. *)
LEMMA RuntimeInvariant == RuntimeSpec => []RuntimeInv
  <1>1. RuntimeInit => RuntimeInv
    BY InitIndInv, InitDaemonInv, ServingDaemonInv DEF RuntimeInit, RuntimeInv
  <1>2. RuntimeInv /\ [RuntimeNext]_runtimeVars => RuntimeInv'
    <2>1. IndInv /\ [Next]_vars => IndInv'
      BY NextIndInv
    <2>2. DaemonInv /\ [DaemonNext]_daemonVars => DaemonInv'
      BY NextDaemonInv
    <2>3. QED
      BY <2>1, <2>2 DEF RuntimeNext, RuntimeInv, runtimeVars
  <1>3. QED
    BY <1>1, <1>2, PTL DEF RuntimeSpec

(* The invariants of both parts hold of the composed runtime, whichever    *)
(* part is followed.                                                       *)
THEOREM RuntimeIsSafe ==
  RuntimeSpec => [](ReadersSeeStableSnapshot /\ ThreadsHoldWhatTheyUse /\ DrainAnswersWaiting)
  BY RuntimeInvariant, StableByInv, HoldByInv, DrainByInv, PTL DEF RuntimeInv
===============================================================================
