------------------------ MODULE PolicyStatisticsProofs ------------------------
(***************************************************************************)
(* Proofs about PolicyStatistics for every set of packet workers, every    *)
(* capacity of the queue and of the batch, and every bound on generations, *)
(* databases and samples.                                                  *)
(***************************************************************************)
EXTENDS PolicyStatistics, TLAPS

Counters ==
  {"submitted", "dropped", "restoreDropped", "staleDropped", "recorded", "lost", "refused"}

Sample == [gen : Nat, db : Nat]

TypeInv ==
  /\ published \in Sample
  /\ generation \in Nat /\ generation >= 1
  /\ database \in Nat /\ before \in Nat
  /\ pending \in [Workers -> Sample]
  /\ queue \in Seq(Sample) /\ batch \in Seq(Sample)
  /\ cgen \in Nat /\ jgen \in Nat
  /\ stats \in [Counters -> Nat]
  /\ rpc \in [Threads -> ReloadStates]
  /\ loaded \in [Threads -> Nat]
  /\ resumer \in [Threads -> BOOLEAN] /\ reloadOk \in [Threads -> BOOLEAN]
  /\ wpc \in {"wait", "write", "finish", "exited"}
  /\ jpc \in RestoreStates
  /\ op \in Operations \cup {"idle"}

(* Nothing is queued while the collector is paused or after it has been    *)
(* asked to stop, so an empty last batch means an empty queue.             *)
StopInv ==
  /\ paused => queue = <<>>
  /\ stopping => \A k \in Workers : pending[k] = None
  /\ exiting => stopping
  /\ wpc \in {"write", "finish"} /\ exiting /\ batch = <<>> => queue = <<>>
  /\ wpc = "exited" => stopping

Reloading == {"drain", "load", "publish", "store", "resume"}

(* One thread at a time reloads, and one at a time holds the pause: a      *)
(* reload that has paused, or a restore beyond its gate.                   *)
PauseInv ==
  /\ \A t \in Threads :
       /\ rpc[t] \in Reloading \cup {"pause"} => policyMutex = t
       /\ rpc[t] = "pause" => ~resumer[t]
       /\ rpc[t] \in Reloading /\ resumer[t] => paused /\ jpc \in {"idle", "gate"}
       /\ rpc[t] \in Reloading \ {"drain"} /\ resumer[t] => ~active
       /\ rpc[t] = "drain" => resumer[t]
  /\ rpc["job"] # "none" => jpc \in {"publish", "reload"}
  /\ op = "idle" => rpc["control"] = "none"
  /\ jpc \notin {"idle", "gate"} => paused
  /\ jpc \notin {"idle", "gate", "drain"} => ~active
  /\ Writing => active
  /\ jpc # "idle" => restoreActive
  /\ jpc \notin {"idle", "gate"} => op \notin {"mutation", "configure"}

(* The restore is not between a change of the database and the end of the  *)
(* reload that publishes it.                                               *)
Settled ==
  \/ jpc \in {"idle", "gate", "drain", "replace", "end", "resume"}
  \/ jpc \in {"publish", "reload"} /\ rpc["job"] \in {"resume", "none"} /\ reloadOk["job"]

(* A generation is the name of one snapshot.  While the restore is settled *)
(* the published snapshot, and every sample that a resume may let in, come *)
(* from the database as it is.                                             *)
GenerationInv ==
  /\ published.gen = IF \E t \in Threads : rpc[t] = "store" THEN generation + 1 ELSE generation
  /\ published.gen >= 1
  /\ \A k \in Workers :
       /\ pending[k].gen <= published.gen
       /\ pending[k].gen = published.gen => pending[k].db = published.db
  /\ jpc = "resume" => jgen >= 1

ReloadInv ==
  /\ rpc["job"] = "publish" => loaded["job"] = database
  /\ rpc["job"] = "store" => published.db = database
  /\ jpc = "reload" /\ rpc["job"] \in {"resume", "none"} /\ ~reloadOk["job"] => ~recovered

SettledInv ==
  recovered /\ Settled =>
    /\ published.db = database
    /\ rpc["control"] = "publish" => loaded["control"] = database
    /\ \A k \in Workers :
         \/ pending[k].gen >= generation
         \/ jpc = "resume" /\ pending[k].gen = jgen
         => pending[k].db = database

AdmittedInv ==
  recovered =>
    /\ \A k \in Workers :
         ~paused /\ pending[k] # None /\ pending[k].gen = cgen => pending[k].db = database
    /\ \A i \in 1 .. Len(queue) : queue[i].db = database
    /\ wpc = "write" => \A i \in 1 .. Len(batch) : batch[i].db = database

SampleInv == GenerationInv /\ ReloadInv /\ SettledInv /\ AdmittedInv

USE DEF Threads, ReloadStates, RestoreStates, Operations

(* A worker without a sample. *)
LEMMA NoneType == None \in Sample /\ None.gen = 0 /\ None.db = 0
  BY DEF None, Sample

(* The counters are numbers. *)
LEMMA StatsNat ==
  ASSUME stats \in [Counters -> Nat]
  PROVE  /\ stats.submitted \in Nat /\ stats.refused \in Nat /\ stats.recorded \in Nat
         /\ stats.lost \in Nat /\ stats.dropped \in Nat
  BY DEF Counters

(* Counting keeps the counters and changes only those it names. *)
LEMMA CountedFacts ==
  ASSUME TypeInv, NEW names, NEW n \in Nat
  PROVE  /\ Counted(names, n) \in [Counters -> Nat]
         /\ \A c \in Counters :
              Counted(names, n)[c] = IF c \in names THEN stats[c] + n ELSE stats[c]
  BY DEF TypeInv, Counted

(* A refused sample is one more of those refused and of those dropped. *)
LEMMA RefusedFacts ==
  ASSUME TypeInv, NEW reason, reason \subseteq {"restoreDropped", "staleDropped"}
  PROVE  /\ Refused(reason) \in [Counters -> Nat]
         /\ Refused(reason).dropped = stats.dropped + 1
         /\ Refused(reason).refused = stats.refused + 1
         /\ Refused(reason).submitted = stats.submitted
         /\ Refused(reason).recorded = stats.recorded /\ Refused(reason).lost = stats.lost
  <1> DEFINE names == {"dropped", "refused"} \cup reason
  <1>1. Refused(reason) = Counted(names, 1)
    BY DEF Refused
  <1>2. "dropped" \in names /\ "refused" \in names
        /\ "submitted" \notin names /\ "recorded" \notin names /\ "lost" \notin names
    OBVIOUS
  <1> HIDE DEF names
  <1>3. QED
    BY <1>1, <1>2, CountedFacts DEF Counters

(* What a refusal at submission does. *)
LEMMA RefusedEffect ==
  ASSUME TypeInv, NEW k \in Workers, SubmitBusy(k) \/ SubmitRefused(k)
  PROVE  /\ stats' \in [Counters -> Nat]
         /\ stats'.dropped = stats.dropped + 1 /\ stats'.refused = stats.refused + 1
         /\ stats'.submitted = stats.submitted /\ stats'.recorded = stats.recorded
         /\ stats'.lost = stats.lost
         /\ pending' = [pending EXCEPT ![k] = None]
         /\ UNCHANGED <<queueVars, flagVars, runtimeVars, jobVars, op>>
  <1>1. PICK reason : reason \subseteq {"restoreDropped", "staleDropped"} /\ stats' = Refused(reason)
    <2>1. CASE stats' = Refused({})
      BY <2>1
    <2>2. CASE stats' = Refused({"staleDropped"})
      BY <2>2
    <2>3. CASE stats' = Refused({DropCounter(restorePause)})
      BY <2>3 DEF DropCounter
    <2>4. QED
      BY <2>1, <2>2, <2>3 DEF SubmitBusy, SubmitRefused
  <1>2. QED
    BY <1>1, RefusedFacts DEF SubmitBusy, SubmitRefused

(* What an accepted sample does. *)
LEMMA AcceptEffect ==
  ASSUME TypeInv, NEW k \in Workers, SubmitAccepted(k)
  PROVE  /\ stats' \in [Counters -> Nat] /\ stats'.submitted = stats.submitted + 1
         /\ stats'.dropped = stats.dropped /\ stats'.refused = stats.refused
         /\ stats'.recorded = stats.recorded /\ stats'.lost = stats.lost
         /\ queue' \in Seq(Sample) /\ Len(queue') = Len(queue) + 1
         /\ \A i \in 1 .. Len(queue) : queue'[i] = queue[i]
         /\ queue'[Len(queue) + 1] = pending[k]
         /\ pending' = [pending EXCEPT ![k] = None] /\ pending' \in [Workers -> Sample]
  <1>1. stats' = Counted({"submitted"}, 1)
    BY DEF SubmitAccepted
  <1>2. /\ stats' \in [Counters -> Nat] /\ stats'.submitted = stats.submitted + 1
        /\ stats'.dropped = stats.dropped /\ stats'.refused = stats.refused
        /\ stats'.recorded = stats.recorded /\ stats'.lost = stats.lost
    BY <1>1, CountedFacts DEF Counters
  <1>3. queue' = Append(queue, pending[k]) /\ queue \in Seq(Sample) /\ pending[k] \in Sample
    BY DEF SubmitAccepted, TypeInv
  <1>4. pending' = [pending EXCEPT ![k] = None] /\ pending' \in [Workers -> Sample]
    BY NoneType DEF SubmitAccepted, TypeInv
  <1>5. QED
    BY <1>2, <1>3, <1>4

(* What the writer's transaction does to the counters. *)
LEMMA WriteEffect ==
  ASSUME TypeInv, WriterWrite
  PROVE  /\ stats' \in [Counters -> Nat]
         /\ stats'.recorded + stats'.lost = stats.recorded + stats.lost + Len(batch)
         /\ stats'.recorded \in Nat /\ stats'.lost \in Nat
         /\ stats'.submitted = stats.submitted /\ stats'.dropped = stats.dropped
         /\ stats'.refused = stats.refused
  <1>1. Len(batch) \in Nat /\ stats \in [Counters -> Nat]
    BY DEF TypeInv
  <1>2. stats' = Counted({"recorded"}, Len(batch)) \/ stats' = Counted({"lost"}, Len(batch))
    BY DEF WriterWrite
  <1>3. ASSUME NEW c \in {"recorded", "lost"}, stats' = Counted({c}, Len(batch))
        PROVE  /\ stats' \in [Counters -> Nat]
               /\ stats'.recorded = IF c = "recorded" THEN stats.recorded + Len(batch) ELSE stats.recorded
               /\ stats'.lost = IF c = "lost" THEN stats.lost + Len(batch) ELSE stats.lost
               /\ stats'.submitted = stats.submitted /\ stats'.dropped = stats.dropped
               /\ stats'.refused = stats.refused
    BY <1>1, <1>3, CountedFacts DEF Counters
  <1>4. stats.recorded \in Nat /\ stats.lost \in Nat
    BY <1>1, StatsNat
  <1>5. CASE stats' = Counted({"recorded"}, Len(batch))
    BY <1>1, <1>3, <1>4, <1>5
  <1>6. CASE stats' = Counted({"lost"}, Len(batch))
    BY <1>1, <1>3, <1>4, <1>6
  <1>7. QED
    BY <1>2, <1>5, <1>6

(* What a pause does to the queue and to the counters. *)
LEMMA PauseEffect ==
  ASSUME TypeInv, NEW restore \in BOOLEAN, PauseBegin(restore)
  PROVE  /\ stats' \in [Counters -> Nat]
         /\ stats'.dropped = stats.dropped + Len(queue)
         /\ stats'.submitted = stats.submitted /\ stats'.refused = stats.refused
         /\ stats'.recorded = stats.recorded /\ stats'.lost = stats.lost
         /\ queue' = <<>> /\ Len(queue') = 0 /\ queue' \in Seq(Sample)
         /\ paused' /\ UNCHANGED <<batch, active, wpc, exiting, cgen, stopping>>
  <1>1. Len(queue) \in Nat
    BY DEF TypeInv
  <1>2. stats' = Counted({"dropped", DropCounter(restore)}, Len(queue))
    BY DEF PauseBegin
  <1>3. DropCounter(restore) \in {"restoreDropped", "staleDropped"}
    BY DEF DropCounter
  <1>4. stats' \in [Counters -> Nat]
    BY <1>1, <1>2, CountedFacts
  <1>5. /\ stats'.dropped = stats.dropped + Len(queue)
        /\ stats'.submitted = stats.submitted /\ stats'.refused = stats.refused
        /\ stats'.recorded = stats.recorded /\ stats'.lost = stats.lost
    BY <1>1, <1>2, <1>3, CountedFacts DEF Counters
  <1>6. queue' = <<>> /\ Len(queue') = 0 /\ queue' \in Seq(Sample)
    BY DEF PauseBegin
  <1>7. paused' /\ UNCHANGED <<batch, active, wpc, exiting, cgen, stopping>>
    BY Zenon DEF PauseBegin
  <1>8. QED
    BY <1>4, <1>5, <1>6, <1>7

(* How the writer takes its batch from the queue. *)
LEMMA DrainEffect ==
  ASSUME TypeInv, StopInv, WriterDrain
  PROVE  /\ queue' \in Seq(Sample) /\ batch' \in Seq(Sample)
         /\ Len(queue') + Len(batch') = Len(queue)
         /\ \A i \in 1 .. Len(batch') : i \in 1 .. Len(queue) /\ batch'[i] = queue[i]
         /\ \A i \in 1 .. Len(queue') :
              \E j \in 1 .. Len(queue) : queue'[i] = queue[j]
         /\ batch' # <<>> => active'
         /\ paused => ~active'
         /\ batch' = <<>> => queue' = <<>>
  <1>1. PICK cleanup \in BOOLEAN :
          LET n == IF paused THEN 0
                   ELSE IF Len(queue) < BatchCapacity THEN Len(queue)
                        ELSE BatchCapacity
          IN /\ batch' = SubSeq(queue, 1, n)
             /\ queue' = SubSeq(queue, n + 1, Len(queue))
             /\ active' = (n # 0 \/ (~paused /\ cleanup))
    BY DEF WriterDrain
  <1> DEFINE n == IF paused THEN 0
                  ELSE IF Len(queue) < BatchCapacity THEN Len(queue) ELSE BatchCapacity
  <1>2. queue \in Seq(Sample) /\ Len(queue) \in Nat
    BY DEF TypeInv
  <1>3. /\ n \in 0 .. Len(queue) /\ (paused => n = 0) /\ (n = 0 => Len(queue) = 0)
    BY <1>2, QueueAssumption DEF StopInv
  <1>4. /\ batch' = SubSeq(queue, 1, n) /\ queue' = SubSeq(queue, n + 1, Len(queue))
        /\ active' = (n # 0 \/ (~paused /\ cleanup))
    BY <1>1
  <1> HIDE DEF n
  <1>5. batch' \in Seq(Sample) /\ Len(batch') = n /\ \A i \in 1 .. n : batch'[i] = queue[i]
    BY <1>2, <1>3, <1>4
  <1>6. /\ queue' \in Seq(Sample) /\ Len(queue') = Len(queue) - n
        /\ \A i \in 1 .. Len(queue) - n : queue'[i] = queue[n + i] /\ n + i \in 1 .. Len(queue)
    BY <1>2, <1>3, <1>4
  <1>7. batch' # <<>> => n # 0
    BY <1>5
  <1>8. (n # 0 => active') /\ (paused => ~active')
    BY <1>3, <1>4
  <1>9. batch' = <<>> => queue' = <<>>
    BY <1>3, <1>5, <1>6
  <1>10. Len(queue') + Len(batch') = Len(queue)
    BY <1>2, <1>3, <1>5, <1>6
  <1>11. \A i \in 1 .. Len(batch') : i \in 1 .. Len(queue) /\ batch'[i] = queue[i]
    BY <1>2, <1>3, <1>5
  <1>12. \A i \in 1 .. Len(queue') : \E j \in 1 .. Len(queue) : queue'[i] = queue[j]
    BY <1>2, <1>3, <1>6
  <1>13. QED
    BY <1>5, <1>6, <1>7, <1>8, <1>9, <1>10, <1>11, <1>12

(* Every step keeps the types. *)
LEMMA NextTypeInv == TypeInv /\ StopInv /\ [Next]_vars => TypeInv'
  <1> SUFFICES ASSUME TypeInv, StopInv, [Next]_vars PROVE TypeInv'
    OBVIOUS
  <1> USE DEF TypeInv,
              workerVars, queueVars, flagVars, runtimeVars, jobVars, Go
  <1>1. ASSUME NEW k \in Workers, Evaluate(k) PROVE TypeInv'
    BY <1>1 DEF Evaluate
  <1>2. ASSUME NEW k \in Workers, SubmitBusy(k) PROVE TypeInv'
    <2>1. pending' \in [Workers -> Sample] /\ stats' \in [Counters -> Nat]
      BY <1>2, RefusedEffect, NoneType
    <2>2. UNCHANGED <<queueVars, flagVars, runtimeVars, jobVars, op>>
      BY <1>2, RefusedEffect
    <2>3. QED
      BY <2>1, <2>2
  <1>3. ASSUME NEW k \in Workers, SubmitRefused(k) PROVE TypeInv'
    <2>1. pending' \in [Workers -> Sample] /\ stats' \in [Counters -> Nat]
      BY <1>3, RefusedEffect, NoneType
    <2>2. UNCHANGED <<queueVars, flagVars, runtimeVars, jobVars, op>>
      BY <1>3, RefusedEffect
    <2>3. QED
      BY <2>1, <2>2
  <1>4. ASSUME NEW k \in Workers, SubmitAccepted(k) PROVE TypeInv'
    BY <1>4, AcceptEffect DEF SubmitAccepted
  <1>5. CASE WriterDrain
    <2>1. queue' \in Seq(Sample) /\ batch' \in Seq(Sample)
      BY <1>5, DrainEffect
    <2>2. QED
      BY <1>5, <2>1 DEF WriterDrain
  <1>6. CASE WriterWrite
    BY <1>6, WriteEffect DEF WriterWrite
  <1>7. CASE WriterFinish
    BY <1>7 DEF WriterFinish
  <1>8. CASE RequestStop
    BY <1>8 DEF RequestStop
  <1>9. ASSUME NEW t \in Threads, ReloadLock(t) PROVE TypeInv'
    BY <1>9 DEF ReloadLock
  <1>10. ASSUME NEW t \in Threads, ReloadPause(t) PROVE TypeInv'
    <2>1. rpc' \in [Threads -> ReloadStates]
      BY <1>10 DEF ReloadPause
    <2>2. resumer' \in [Threads -> BOOLEAN]
      <3>1. resumer' = resumer \/ resumer' = [resumer EXCEPT ![t] = TRUE]
        BY <1>10 DEF ReloadPause
      <3>2. QED
        BY <3>1
    <2>3. /\ stats' \in [Counters -> Nat] /\ queue' \in Seq(Sample)
          /\ UNCHANGED <<batch, wpc, cgen>>
      BY <1>10, PauseEffect DEF ReloadPause
    <2>4. QED
      BY <1>10, <2>1, <2>2, <2>3 DEF ReloadPause
  <1>11. ASSUME NEW t \in Threads, ReloadDrained(t) PROVE TypeInv'
    BY <1>11 DEF ReloadDrained
  <1>12. ASSUME NEW t \in Threads, ReloadLoad(t) PROVE TypeInv'
    <2>1. loaded' \in [Threads -> Nat] /\ rpc' \in [Threads -> ReloadStates]
      BY <1>12 DEF ReloadLoad
    <2>2. reloadOk' \in [Threads -> BOOLEAN]
      <3>1. reloadOk' = reloadOk \/ reloadOk' = [reloadOk EXCEPT ![t] = FALSE]
        BY <1>12 DEF ReloadLoad
      <3>2. QED
        BY <3>1
    <2>3. QED
      BY <1>12, <2>1, <2>2 DEF ReloadLoad
  <1>13. ASSUME NEW t \in Threads, ReloadPublish(t) PROVE TypeInv'
    <2>1. published' \in Sample
      BY <1>13 DEF ReloadPublish, Sample
    <2>2. QED
      BY <1>13, <2>1 DEF ReloadPublish
  <1>14. ASSUME NEW t \in Threads, ReloadStore(t) PROVE TypeInv'
    BY <1>14 DEF ReloadStore
  <1>15. ASSUME NEW t \in Threads, ReloadResume(t) PROVE TypeInv'
    BY <1>15 DEF ReloadResume, Resume
  <1>16. ASSUME NEW o \in Operations, ControlBegin(o) PROVE TypeInv'
    BY <1>16 DEF ControlBegin
  <1>17. CASE RestoreBegin
    BY <1>17 DEF RestoreBegin
  <1>18. CASE RestoreGate
    <2>1. /\ stats' \in [Counters -> Nat] /\ queue' \in Seq(Sample)
          /\ UNCHANGED <<batch, wpc, cgen>>
      BY <1>18, PauseEffect DEF RestoreGate
    <2>2. jpc' \in RestoreStates
      BY <1>18 DEF RestoreGate
    <2>3. QED
      BY <1>18, <2>1, <2>2 DEF RestoreGate
  <1>19. CASE RestoreDrained
    BY <1>19 DEF RestoreDrained
  <1>20. CASE RestoreReplace
    BY <1>20 DEF RestoreReplace
  <1>21. CASE RestorePublished
    BY <1>21 DEF RestorePublished
  <1>22. CASE RestoreAbort
    BY <1>22 DEF RestoreAbort
  <1>23. CASE RestoreReloaded
    BY <1>23 DEF RestoreReloaded
  <1>24. CASE RestoreReadGeneration
    BY <1>24 DEF RestoreReadGeneration
  <1>25. CASE RestoreEnd
    BY <1>25 DEF RestoreEnd, Resume
  <1>26. CASE UNCHANGED vars
    BY <1>26 DEF vars
  <1>27. QED
    BY <1>1, <1>2, <1>3, <1>4, <1>5, <1>6, <1>7, <1>8, <1>9, <1>10, <1>11, <1>12, <1>13,
       <1>14, <1>15, <1>16, <1>17, <1>18, <1>19, <1>20, <1>21, <1>22, <1>23, <1>24,
       <1>25, <1>26
    DEF Next, WorkerStep, WriterStep, ReloadStep, RestoreStep

(* Every step keeps the queue empty where it must be. *)
LEMMA NextStopInv == TypeInv /\ StopInv /\ [Next]_vars => StopInv'
  <1> SUFFICES ASSUME TypeInv, StopInv, [Next]_vars PROVE StopInv'
    OBVIOUS
  <1> USE DEF TypeInv, StopInv,
              workerVars, queueVars, flagVars, runtimeVars, jobVars, Go
  <1>1. ASSUME NEW k \in Workers, Evaluate(k) PROVE StopInv'
    BY <1>1 DEF Evaluate
  <1>2. ASSUME NEW k \in Workers, SubmitBusy(k) PROVE StopInv'
    <2>1. pending' = [pending EXCEPT ![k] = None] /\ UNCHANGED <<queueVars, flagVars>>
      BY <1>2, RefusedEffect
    <2>2. QED
      BY <2>1
  <1>3. ASSUME NEW k \in Workers, SubmitRefused(k) PROVE StopInv'
    <2>1. pending' = [pending EXCEPT ![k] = None] /\ UNCHANGED <<queueVars, flagVars>>
      BY <1>3, RefusedEffect
    <2>2. QED
      BY <2>1
  <1>4. ASSUME NEW k \in Workers, SubmitAccepted(k) PROVE StopInv'
    BY <1>4 DEF SubmitAccepted
  <1>5. CASE WriterDrain
    <2>1. wpc' = "write" /\ UNCHANGED <<paused, stopping, pending>>
      BY <1>5 DEF WriterDrain
    <2>2. exiting' = stopping
      BY <1>5 DEF WriterDrain
    <2>3. /\ queue' \in Seq(Sample) /\ batch' \in Seq(Sample)
          /\ Len(queue') + Len(batch') = Len(queue) /\ (batch' = <<>> => queue' = <<>>)
      BY <1>5, DrainEffect
    <2>4. ASSUME paused PROVE queue' = <<>>
      <3>1. Len(queue) = 0
        BY <2>4
      <3>2. Len(queue') = 0
        BY <2>3, <3>1
      <3>3. QED
        BY <2>3, <3>2
    <2>5. QED
      BY <2>1, <2>2, <2>3, <2>4
  <1>6. CASE WriterWrite
    BY <1>6 DEF WriterWrite
  <1>7. CASE WriterFinish
    BY <1>7 DEF WriterFinish
  <1>8. CASE RequestStop
    BY <1>8 DEF RequestStop
  <1>9. ASSUME NEW t \in Threads, ReloadLock(t) PROVE StopInv'
    BY <1>9 DEF ReloadLock
  <1>10. ASSUME NEW t \in Threads, ReloadPause(t) PROVE StopInv'
    BY <1>10 DEF ReloadPause, PauseBegin
  <1>11. ASSUME NEW t \in Threads, ReloadDrained(t) PROVE StopInv'
    BY <1>11 DEF ReloadDrained
  <1>12. ASSUME NEW t \in Threads, ReloadLoad(t) PROVE StopInv'
    BY <1>12 DEF ReloadLoad
  <1>13. ASSUME NEW t \in Threads, ReloadPublish(t) PROVE StopInv'
    BY <1>13 DEF ReloadPublish
  <1>14. ASSUME NEW t \in Threads, ReloadStore(t) PROVE StopInv'
    BY <1>14 DEF ReloadStore
  <1>15. ASSUME NEW t \in Threads, ReloadResume(t) PROVE StopInv'
    BY <1>15 DEF ReloadResume, Resume
  <1>16. ASSUME NEW o \in Operations, ControlBegin(o) PROVE StopInv'
    BY <1>16 DEF ControlBegin
  <1>17. CASE RestoreBegin
    BY <1>17 DEF RestoreBegin
  <1>18. CASE RestoreGate
    BY <1>18 DEF RestoreGate, PauseBegin
  <1>19. CASE RestoreDrained
    BY <1>19 DEF RestoreDrained
  <1>20. CASE RestoreReplace
    BY <1>20 DEF RestoreReplace
  <1>21. CASE RestorePublished
    BY <1>21 DEF RestorePublished
  <1>22. CASE RestoreAbort
    BY <1>22 DEF RestoreAbort
  <1>23. CASE RestoreReloaded
    BY <1>23 DEF RestoreReloaded
  <1>24. CASE RestoreReadGeneration
    BY <1>24 DEF RestoreReadGeneration
  <1>25. CASE RestoreEnd
    BY <1>25 DEF RestoreEnd, Resume
  <1>26. CASE UNCHANGED vars
    BY <1>26 DEF vars
  <1>27. QED
    BY <1>1, <1>2, <1>3, <1>4, <1>5, <1>6, <1>7, <1>8, <1>9, <1>10, <1>11, <1>12, <1>13,
       <1>14, <1>15, <1>16, <1>17, <1>18, <1>19, <1>20, <1>21, <1>22, <1>23, <1>24,
       <1>25, <1>26
    DEF Next, WorkerStep, WriterStep, ReloadStep, RestoreStep

(* Every step keeps the account of the samples. *)
LEMMA NextAccounted ==
  TypeInv /\ StopInv /\ EveryEventIsAccounted /\ [Next]_vars => EveryEventIsAccounted'
  <1> SUFFICES ASSUME TypeInv, StopInv, EveryEventIsAccounted, [Next]_vars PROVE EveryEventIsAccounted'
    OBVIOUS
  <1> USE DEF workerVars, queueVars, flagVars, runtimeVars, jobVars, Go
  <1>o. stats.submitted \in Nat /\ stats.refused \in Nat
    BY StatsNat DEF TypeInv
  <1>d. stats.recorded \in Nat /\ stats.lost \in Nat /\ stats.dropped \in Nat
    BY StatsNat DEF TypeInv
  <1>q. Len(queue) \in Nat /\ Len(batch) \in Nat
    BY DEF TypeInv
  <1>a. Offered \in Nat
    BY <1>o DEF Offered
  <1>b. Disposed \in Nat
    BY <1>d DEF Disposed
  <1>c. InHand \in Nat
    BY <1>q DEF InHand
  <1>1. ASSUME NEW k \in Workers, Evaluate(k) PROVE EveryEventIsAccounted'
    BY <1>1 DEF Evaluate, Offered, Disposed, InHand, EveryEventIsAccounted
  <1>2. ASSUME NEW k \in Workers, SubmitBusy(k) PROVE EveryEventIsAccounted'
    <2>1. /\ stats'.dropped = stats.dropped + 1 /\ stats'.refused = stats.refused + 1
          /\ stats'.submitted = stats.submitted /\ stats'.recorded = stats.recorded
          /\ stats'.lost = stats.lost /\ UNCHANGED queueVars
      BY <1>2, RefusedEffect
    <2>2a. Offered' = Offered + 1
      BY <1>o, <2>1 DEF Offered
    <2>2b. Disposed' = Disposed + 1
      BY <1>d, <1>q, <2>1 DEF Disposed
    <2>2c. InHand' = InHand
      BY <1>q, <2>1 DEF InHand
    <2>3. QED
      BY <1>a, <1>b, <1>c, <2>1, <2>2a, <2>2b, <2>2c DEF EveryEventIsAccounted
  <1>3. ASSUME NEW k \in Workers, SubmitRefused(k) PROVE EveryEventIsAccounted'
    <2>1. /\ stats'.dropped = stats.dropped + 1 /\ stats'.refused = stats.refused + 1
          /\ stats'.submitted = stats.submitted /\ stats'.recorded = stats.recorded
          /\ stats'.lost = stats.lost /\ UNCHANGED queueVars
      BY <1>3, RefusedEffect
    <2>2a. Offered' = Offered + 1
      BY <1>o, <2>1 DEF Offered
    <2>2b. Disposed' = Disposed + 1
      BY <1>d, <1>q, <2>1 DEF Disposed
    <2>2c. InHand' = InHand
      BY <1>q, <2>1 DEF InHand
    <2>3. QED
      BY <1>a, <1>b, <1>c, <2>1, <2>2a, <2>2b, <2>2c DEF EveryEventIsAccounted
  <1>4. ASSUME NEW k \in Workers, SubmitAccepted(k) PROVE EveryEventIsAccounted'
    <2>1. UNCHANGED <<wpc, batch>> /\ wpc # "exited"
      BY <1>4 DEF SubmitAccepted, StopInv
    <2>2. /\ stats'.submitted = stats.submitted + 1 /\ Len(queue') = Len(queue) + 1
          /\ stats'.dropped = stats.dropped /\ stats'.refused = stats.refused
          /\ stats'.recorded = stats.recorded /\ stats'.lost = stats.lost
      BY <1>4, AcceptEffect
    <2>3a. Offered' = Offered + 1
      BY <1>o, <2>1, <2>2 DEF Offered
    <2>3b. Disposed' = Disposed
      BY <1>d, <1>q, <2>1, <2>2 DEF Disposed
    <2>3c. InHand' = InHand + 1
      <3>1. Len(queue') = Len(queue) + 1
        BY <2>2
      <3> DEFINE n == Len(queue)
      <3> DEFINE m == IF wpc = "write" THEN Len(batch) ELSE 0
      <3>2. n \in Nat /\ m \in Nat
        BY <1>q
      <3>3. InHand = n + m /\ InHand' = (n + 1) + m
        BY <2>1, <3>1 DEF InHand
      <3> HIDE DEF n, m
      <3>4. QED
        BY <3>2, <3>3
    <2>4. QED
      BY <1>a, <1>b, <1>c, <2>1, <2>3a, <2>3b, <2>3c DEF EveryEventIsAccounted
  <1>5. CASE WriterDrain
    <2>1. wpc = "wait" /\ wpc' = "write" /\ UNCHANGED stats
      BY <1>5 DEF WriterDrain
    <2>2. /\ queue' \in Seq(Sample) /\ batch' \in Seq(Sample)
          /\ Len(queue') + Len(batch') = Len(queue)
      BY <1>5, DrainEffect
    <2>3a. Offered' = Offered
      BY <1>o, <2>1, <2>2 DEF Offered
    <2>3b. Disposed' = Disposed
      BY <1>d, <1>q, <2>1, <2>2 DEF Disposed
    <2>3c. InHand' = InHand
      BY <1>q, <2>1, <2>2 DEF InHand
    <2>4. QED
      BY <1>a, <1>b, <1>c, <2>1, <2>3a, <2>3b, <2>3c DEF EveryEventIsAccounted
  <1>6. CASE WriterWrite
    <2>1. /\ stats'.recorded + stats'.lost = stats.recorded + stats.lost + Len(batch)
          /\ stats'.submitted = stats.submitted /\ stats'.dropped = stats.dropped
          /\ stats'.refused = stats.refused
          /\ stats'.recorded \in Nat /\ stats'.lost \in Nat
      BY <1>6, WriteEffect
    <2>2. wpc = "write" /\ wpc' = "finish" /\ UNCHANGED queue
      BY <1>6 DEF WriterWrite
    <2>3a. Offered' = Offered
      BY <1>o, <2>1, <2>2 DEF Offered
    <2>3c. InHand = InHand' + Len(batch)
      BY <1>q, <2>1, <2>2 DEF InHand
    <2>4. Disposed' = Disposed + Len(batch)
      <3>1. \A c, d, e, n \in Nat : (c + d + n) + e = (c + d + e) + n
        OBVIOUS
      <3>2. (stats.recorded + stats.lost + Len(batch)) + stats.dropped =
              (stats.recorded + stats.lost + stats.dropped) + Len(batch)
        BY <1>d, <1>q, <3>1
      <3>3. QED
        BY <2>1, <3>2 DEF Disposed
    <2>5. InHand' \in Nat
      BY <1>q, <2>2 DEF InHand
    <2>6. QED
      BY <1>q, <1>a, <1>b, <1>c, <2>2, <2>3a, <2>3c, <2>4, <2>5 DEF EveryEventIsAccounted
  <1>7. CASE WriterFinish
    <2>1. wpc = "finish" /\ wpc' \in {"exited", "wait"} /\ UNCHANGED <<stats, queue>>
      BY <1>7 DEF WriterFinish
    <2>2. wpc' = "exited" => queue = <<>>
      BY <1>7 DEF WriterFinish, StopInv
    <2>3a. Offered' = Offered
      BY <2>1 DEF Offered
    <2>3b. Disposed' = Disposed
      BY <2>1 DEF Disposed
    <2>3c. InHand' = InHand
      BY <2>1 DEF InHand
    <2>4. QED
      BY <2>1, <2>2, <2>3a, <2>3b, <2>3c DEF EveryEventIsAccounted
  <1>8. CASE RequestStop
    BY <1>8 DEF RequestStop, Offered, Disposed, InHand, EveryEventIsAccounted
  <1>9. ASSUME NEW t \in Threads, ReloadLock(t) PROVE EveryEventIsAccounted'
    BY <1>9 DEF ReloadLock, Offered, Disposed, InHand, EveryEventIsAccounted
  <1>10. ASSUME NEW t \in Threads, ReloadPause(t) PROVE EveryEventIsAccounted'
    <2>1. CASE paused
      BY <1>10, <2>1 DEF ReloadPause, Offered, Disposed, InHand, EveryEventIsAccounted
    <2>2. CASE PauseBegin(FALSE)
      <3>1. /\ stats'.dropped = stats.dropped + Len(queue)
            /\ stats'.submitted = stats.submitted /\ stats'.refused = stats.refused
            /\ stats'.recorded = stats.recorded /\ stats'.lost = stats.lost
            /\ queue' = <<>> /\ Len(queue') = 0 /\ UNCHANGED <<batch, wpc>>
        BY <2>2, PauseEffect
      <3>2a. Offered' = Offered
        BY <1>o, <3>1 DEF Offered
      <3>2b. Disposed' = Disposed + Len(queue)
        BY <1>d, <1>q, <3>1 DEF Disposed
      <3>2c. InHand = InHand' + Len(queue)
        BY <1>q, <3>1 DEF InHand
      <3>3. InHand' \in Nat
        BY <1>q, <3>1 DEF InHand
      <3> DEFINE n == Len(queue)
      <3>4. n \in Nat /\ Disposed' = Disposed + n /\ InHand = InHand' + n
        BY <1>q, <3>2b, <3>2c
      <3> HIDE DEF n
      <3>5. Offered' = Disposed' + InHand'
        BY <1>b, <3>2a, <3>3, <3>4 DEF EveryEventIsAccounted
      <3>6. QED
        BY <3>1, <3>5 DEF EveryEventIsAccounted
    <2>3. QED
      BY <1>10, <2>1, <2>2, Zenon DEF ReloadPause
  <1>11. ASSUME NEW t \in Threads, ReloadDrained(t) PROVE EveryEventIsAccounted'
    BY <1>11 DEF ReloadDrained, Offered, Disposed, InHand, EveryEventIsAccounted
  <1>12. ASSUME NEW t \in Threads, ReloadLoad(t) PROVE EveryEventIsAccounted'
    BY <1>12 DEF ReloadLoad, Offered, Disposed, InHand, EveryEventIsAccounted
  <1>13. ASSUME NEW t \in Threads, ReloadPublish(t) PROVE EveryEventIsAccounted'
    BY <1>13 DEF ReloadPublish, Offered, Disposed, InHand, EveryEventIsAccounted
  <1>14. ASSUME NEW t \in Threads, ReloadStore(t) PROVE EveryEventIsAccounted'
    BY <1>14 DEF ReloadStore, Offered, Disposed, InHand, EveryEventIsAccounted
  <1>15. ASSUME NEW t \in Threads, ReloadResume(t) PROVE EveryEventIsAccounted'
    BY <1>15 DEF ReloadResume, Resume, Offered, Disposed, InHand, EveryEventIsAccounted
  <1>16. ASSUME NEW o \in Operations, ControlBegin(o) PROVE EveryEventIsAccounted'
    BY <1>16 DEF ControlBegin, Offered, Disposed, InHand, EveryEventIsAccounted
  <1>17. CASE RestoreBegin
    BY <1>17 DEF RestoreBegin, Offered, Disposed, InHand, EveryEventIsAccounted
  <1>18. CASE RestoreGate
    <2>1. CASE paused
      BY <1>18, <2>1 DEF RestoreGate, Offered, Disposed, InHand, EveryEventIsAccounted
    <2>2. CASE PauseBegin(TRUE)
      <3>1. /\ stats'.dropped = stats.dropped + Len(queue)
            /\ stats'.submitted = stats.submitted /\ stats'.refused = stats.refused
            /\ stats'.recorded = stats.recorded /\ stats'.lost = stats.lost
            /\ queue' = <<>> /\ Len(queue') = 0 /\ UNCHANGED <<batch, wpc>>
        BY <2>2, PauseEffect
      <3>2a. Offered' = Offered
        BY <1>o, <3>1 DEF Offered
      <3>2b. Disposed' = Disposed + Len(queue)
        BY <1>d, <1>q, <3>1 DEF Disposed
      <3>2c. InHand = InHand' + Len(queue)
        BY <1>q, <3>1 DEF InHand
      <3>3. InHand' \in Nat
        BY <1>q, <3>1 DEF InHand
      <3> DEFINE n == Len(queue)
      <3>4. n \in Nat /\ Disposed' = Disposed + n /\ InHand = InHand' + n
        BY <1>q, <3>2b, <3>2c
      <3> HIDE DEF n
      <3>5. Offered' = Disposed' + InHand'
        BY <1>b, <3>2a, <3>3, <3>4 DEF EveryEventIsAccounted
      <3>6. QED
        BY <3>1, <3>5 DEF EveryEventIsAccounted
    <2>3. QED
      BY <1>18, <2>1, <2>2, Zenon DEF RestoreGate
  <1>19. CASE RestoreDrained
    BY <1>19 DEF RestoreDrained, Offered, Disposed, InHand, EveryEventIsAccounted
  <1>20. CASE RestoreReplace
    BY <1>20 DEF RestoreReplace, Offered, Disposed, InHand, EveryEventIsAccounted
  <1>21. CASE RestorePublished
    BY <1>21 DEF RestorePublished, Offered, Disposed, InHand, EveryEventIsAccounted
  <1>22. CASE RestoreAbort
    BY <1>22 DEF RestoreAbort, Offered, Disposed, InHand, EveryEventIsAccounted
  <1>23. CASE RestoreReloaded
    BY <1>23 DEF RestoreReloaded, Offered, Disposed, InHand, EveryEventIsAccounted
  <1>24. CASE RestoreReadGeneration
    BY <1>24 DEF RestoreReadGeneration, Offered, Disposed, InHand, EveryEventIsAccounted
  <1>25. CASE RestoreEnd
    BY <1>25 DEF RestoreEnd, Resume, Offered, Disposed, InHand, EveryEventIsAccounted
  <1>26. CASE UNCHANGED vars
    BY <1>26 DEF vars, Offered, Disposed, InHand, EveryEventIsAccounted
  <1>27. QED
    BY <1>1, <1>2, <1>3, <1>4, <1>5, <1>6, <1>7, <1>8, <1>9, <1>10, <1>11, <1>12, <1>13,
       <1>14, <1>15, <1>16, <1>17, <1>18, <1>19, <1>20, <1>21, <1>22, <1>23, <1>24,
       <1>25, <1>26
    DEF Next, WorkerStep, WriterStep, ReloadStep, RestoreStep

(* Every step leaves the pause to one thread. *)
LEMMA NextPauseInv == TypeInv /\ StopInv /\ PauseInv /\ [Next]_vars => PauseInv'
  <1> SUFFICES ASSUME TypeInv, StopInv, PauseInv, [Next]_vars PROVE PauseInv'
    OBVIOUS
  <1> USE DEF TypeInv, StopInv, PauseInv, Reloading, Writing,
              workerVars, queueVars, flagVars, runtimeVars, jobVars, Go
  <1>1. ASSUME NEW k \in Workers, Evaluate(k) PROVE PauseInv'
    BY <1>1 DEF Evaluate
  <1>2. ASSUME NEW k \in Workers, SubmitBusy(k) PROVE PauseInv'
    BY <1>2 DEF SubmitBusy
  <1>3. ASSUME NEW k \in Workers, SubmitRefused(k) PROVE PauseInv'
    BY <1>3 DEF SubmitRefused
  <1>4. ASSUME NEW k \in Workers, SubmitAccepted(k) PROVE PauseInv'
    BY <1>4 DEF SubmitAccepted
  <1>5. CASE WriterDrain
    <2>1. (batch' # <<>> => active') /\ (paused => ~active')
      BY <1>5, DrainEffect
    <2>2. QED
      BY <1>5, <2>1 DEF WriterDrain
  <1>6. CASE WriterWrite
    BY <1>6 DEF WriterWrite
  <1>7. CASE WriterFinish
    BY <1>7 DEF WriterFinish
  <1>8. CASE RequestStop
    BY <1>8 DEF RequestStop
  <1>9. ASSUME NEW t \in Threads, ReloadLock(t) PROVE PauseInv'
    BY <1>9 DEF ReloadLock
  <1>10. ASSUME NEW t \in Threads, ReloadPause(t) PROVE PauseInv'
    BY <1>10 DEF ReloadPause, PauseBegin
  <1>11. ASSUME NEW t \in Threads, ReloadDrained(t) PROVE PauseInv'
    BY <1>11 DEF ReloadDrained
  <1>12. ASSUME NEW t \in Threads, ReloadLoad(t) PROVE PauseInv'
    BY <1>12 DEF ReloadLoad
  <1>13. ASSUME NEW t \in Threads, ReloadPublish(t) PROVE PauseInv'
    BY <1>13 DEF ReloadPublish
  <1>14. ASSUME NEW t \in Threads, ReloadStore(t) PROVE PauseInv'
    BY <1>14 DEF ReloadStore
  <1>15. ASSUME NEW t \in Threads, ReloadResume(t) PROVE PauseInv'
    BY <1>15 DEF ReloadResume, Resume
  <1>16. ASSUME NEW o \in Operations, ControlBegin(o) PROVE PauseInv'
    BY <1>16 DEF ControlBegin
  <1>17. CASE RestoreBegin
    BY <1>17 DEF RestoreBegin
  <1>18. CASE RestoreGate
    <2>1. CASE paused
      BY <1>18, <2>1 DEF RestoreGate
    <2>2. CASE ~paused /\ PauseBegin(TRUE) /\ jpc' = "drain" /\ UNCHANGED restoreActive
      <3>1. paused' /\ UNCHANGED <<batch, active, wpc>>
        BY <2>2 DEF PauseBegin
      <3>2. jpc = "gate" /\ op \notin {"mutation", "configure"} /\ UNCHANGED <<runtimeVars, op>>
        BY <1>18 DEF RestoreGate
      <3>3. QED
        BY <2>2, <3>1, <3>2
    <2>3. QED
      BY <1>18, <2>1, <2>2 DEF RestoreGate
  <1>19. CASE RestoreDrained
    BY <1>19 DEF RestoreDrained
  <1>20. CASE RestoreReplace
    BY <1>20 DEF RestoreReplace
  <1>21. CASE RestorePublished
    BY <1>21 DEF RestorePublished
  <1>22. CASE RestoreAbort
    BY <1>22 DEF RestoreAbort
  <1>23. CASE RestoreReloaded
    BY <1>23 DEF RestoreReloaded
  <1>24. CASE RestoreReadGeneration
    BY <1>24 DEF RestoreReadGeneration
  <1>25. CASE RestoreEnd
    BY <1>25 DEF RestoreEnd, Resume
  <1>26. CASE UNCHANGED vars
    BY <1>26 DEF vars
  <1>27. QED
    BY <1>1, <1>2, <1>3, <1>4, <1>5, <1>6, <1>7, <1>8, <1>9, <1>10, <1>11, <1>12, <1>13,
       <1>14, <1>15, <1>16, <1>17, <1>18, <1>19, <1>20, <1>21, <1>22, <1>23, <1>24,
       <1>25, <1>26
    DEF Next, WorkerStep, WriterStep, ReloadStep, RestoreStep

(* Every step keeps a generation the name of one snapshot. *)
LEMMA NextGenerationInv ==
  ASSUME TypeInv, PauseInv, GenerationInv, [Next]_vars
  PROVE  GenerationInv'
  <1> USE DEF TypeInv, PauseInv, GenerationInv, Reloading,
              workerVars, queueVars, flagVars, runtimeVars, jobVars, Go
  <1>1. ASSUME NEW k \in Workers, Evaluate(k) PROVE GenerationInv'
    BY <1>1 DEF Evaluate
  <1>2. ASSUME NEW k \in Workers, SubmitBusy(k) PROVE GenerationInv'
    BY <1>2, NoneType, RefusedEffect DEF SubmitBusy
  <1>3. ASSUME NEW k \in Workers, SubmitRefused(k) PROVE GenerationInv'
    BY <1>3, NoneType, RefusedEffect DEF SubmitRefused
  <1>4. ASSUME NEW k \in Workers, SubmitAccepted(k) PROVE GenerationInv'
    BY <1>4, NoneType DEF SubmitAccepted
  <1>5. CASE WriterDrain
    BY <1>5, DrainEffect DEF WriterDrain
  <1>6. CASE WriterWrite
    BY <1>6 DEF WriterWrite
  <1>7. CASE WriterFinish
    BY <1>7 DEF WriterFinish
  <1>8. CASE RequestStop
    BY <1>8 DEF RequestStop
  <1>9. ASSUME NEW t \in Threads, ReloadLock(t) PROVE GenerationInv'
    BY <1>9 DEF ReloadLock
  <1>10. ASSUME NEW t \in Threads, ReloadPause(t) PROVE GenerationInv'
    BY <1>10 DEF ReloadPause, PauseBegin
  <1>11. ASSUME NEW t \in Threads, ReloadDrained(t) PROVE GenerationInv'
    BY <1>11 DEF ReloadDrained
  <1>12. ASSUME NEW t \in Threads, ReloadLoad(t) PROVE GenerationInv'
    BY <1>12 DEF ReloadLoad
  <1>13. ASSUME NEW t \in Threads, ReloadPublish(t) PROVE GenerationInv'
    <2>1. policyMutex = t /\ \A u \in Threads : rpc[u] # "store"
      BY <1>13 DEF ReloadPublish
    <2>2. published.gen = generation /\ published'.gen = generation + 1
      BY <1>13, <2>1 DEF ReloadPublish
    <2>3. rpc'[t] = "store" /\ UNCHANGED <<pending, generation, jpc, jgen>>
      BY <1>13 DEF ReloadPublish
    <2>4. \A k \in Workers : pending'[k].gen < published'.gen /\ pending'[k].gen \in Nat
      BY <2>2, <2>3 DEF Sample
    <2>5. QED
      BY <2>2, <2>3, <2>4
  <1>14. ASSUME NEW t \in Threads, ReloadStore(t) PROVE GenerationInv'
    BY <1>14 DEF ReloadStore
  <1>15. ASSUME NEW t \in Threads, ReloadResume(t) PROVE GenerationInv'
    BY <1>15 DEF ReloadResume, Resume
  <1>16. ASSUME NEW o \in Operations, ControlBegin(o) PROVE GenerationInv'
    BY <1>16 DEF ControlBegin
  <1>17. CASE RestoreBegin
    BY <1>17 DEF RestoreBegin
  <1>18. CASE RestoreGate
    BY <1>18 DEF RestoreGate, PauseBegin
  <1>19. CASE RestoreDrained
    BY <1>19 DEF RestoreDrained
  <1>20. CASE RestoreReplace
    BY <1>20 DEF RestoreReplace
  <1>21. CASE RestorePublished
    BY <1>21 DEF RestorePublished
  <1>22. CASE RestoreAbort
    BY <1>22 DEF RestoreAbort
  <1>23. CASE RestoreReloaded
    BY <1>23 DEF RestoreReloaded
  <1>24. CASE RestoreReadGeneration
    BY <1>24 DEF RestoreReadGeneration
  <1>25. CASE RestoreEnd
    BY <1>25 DEF RestoreEnd, Resume
  <1>26. CASE UNCHANGED vars
    BY <1>26 DEF vars
  <1>27. QED
    BY <1>1, <1>2, <1>3, <1>4, <1>5, <1>6, <1>7, <1>8, <1>9, <1>10, <1>11, <1>12, <1>13,
       <1>14, <1>15, <1>16, <1>17, <1>18, <1>19, <1>20, <1>21, <1>22, <1>23, <1>24,
       <1>25, <1>26
    DEF Next, WorkerStep, WriterStep, ReloadStep, RestoreStep

(* Every step keeps a reload of the job thread with the database as it is. *)
LEMMA NextReloadInv ==
  ASSUME TypeInv, PauseInv, ReloadInv, [Next]_vars
  PROVE  ReloadInv'
  <1> USE DEF TypeInv, PauseInv, ReloadInv, Reloading,
              workerVars, queueVars, flagVars, runtimeVars, jobVars, Go
  <1>1. ASSUME NEW k \in Workers, Evaluate(k) PROVE ReloadInv'
    BY <1>1 DEF Evaluate
  <1>2. ASSUME NEW k \in Workers, SubmitBusy(k) PROVE ReloadInv'
    BY <1>2, NoneType, RefusedEffect DEF SubmitBusy
  <1>3. ASSUME NEW k \in Workers, SubmitRefused(k) PROVE ReloadInv'
    BY <1>3, NoneType, RefusedEffect DEF SubmitRefused
  <1>4. ASSUME NEW k \in Workers, SubmitAccepted(k) PROVE ReloadInv'
    BY <1>4, NoneType DEF SubmitAccepted
  <1>5. CASE WriterDrain
    BY <1>5, DrainEffect DEF WriterDrain
  <1>6. CASE WriterWrite
    BY <1>6 DEF WriterWrite
  <1>7. CASE WriterFinish
    BY <1>7 DEF WriterFinish
  <1>8. CASE RequestStop
    BY <1>8 DEF RequestStop
  <1>9. ASSUME NEW t \in Threads, ReloadLock(t) PROVE ReloadInv'
    BY <1>9 DEF ReloadLock
  <1>10. ASSUME NEW t \in Threads, ReloadPause(t) PROVE ReloadInv'
    BY <1>10 DEF ReloadPause, PauseBegin
  <1>11. ASSUME NEW t \in Threads, ReloadDrained(t) PROVE ReloadInv'
    BY <1>11 DEF ReloadDrained
  <1>12. ASSUME NEW t \in Threads, ReloadLoad(t) PROVE ReloadInv'
    BY <1>12 DEF ReloadLoad
  <1>13. ASSUME NEW t \in Threads, ReloadPublish(t) PROVE ReloadInv'
    BY <1>13 DEF ReloadPublish
  <1>14. ASSUME NEW t \in Threads, ReloadStore(t) PROVE ReloadInv'
    BY <1>14 DEF ReloadStore
  <1>15. ASSUME NEW t \in Threads, ReloadResume(t) PROVE ReloadInv'
    BY <1>15 DEF ReloadResume, Resume
  <1>16. ASSUME NEW o \in Operations, ControlBegin(o) PROVE ReloadInv'
    BY <1>16 DEF ControlBegin
  <1>17. CASE RestoreBegin
    BY <1>17 DEF RestoreBegin
  <1>18. CASE RestoreGate
    BY <1>18 DEF RestoreGate, PauseBegin
  <1>19. CASE RestoreDrained
    BY <1>19 DEF RestoreDrained
  <1>20. CASE RestoreReplace
    BY <1>20 DEF RestoreReplace
  <1>21. CASE RestorePublished
    BY <1>21 DEF RestorePublished
  <1>22. CASE RestoreAbort
    BY <1>22 DEF RestoreAbort
  <1>23. CASE RestoreReloaded
    BY <1>23 DEF RestoreReloaded
  <1>24. CASE RestoreReadGeneration
    BY <1>24 DEF RestoreReadGeneration
  <1>25. CASE RestoreEnd
    BY <1>25 DEF RestoreEnd, Resume
  <1>26. CASE UNCHANGED vars
    BY <1>26 DEF vars
  <1>27. QED
    BY <1>1, <1>2, <1>3, <1>4, <1>5, <1>6, <1>7, <1>8, <1>9, <1>10, <1>11, <1>12, <1>13,
       <1>14, <1>15, <1>16, <1>17, <1>18, <1>19, <1>20, <1>21, <1>22, <1>23, <1>24,
       <1>25, <1>26
    DEF Next, WorkerStep, WriterStep, ReloadStep, RestoreStep

(* Every step keeps the published policy that of the database, once settled. *)
LEMMA NextSettledInv ==
  ASSUME TypeInv, PauseInv, GenerationInv, ReloadInv, SettledInv, [Next]_vars
  PROVE  SettledInv'
  <1> USE DEF TypeInv, PauseInv, GenerationInv, ReloadInv, SettledInv, Settled, Reloading,
              workerVars, queueVars, flagVars, runtimeVars, jobVars, Go
  <1>1. ASSUME NEW k \in Workers, Evaluate(k) PROVE SettledInv'
    BY <1>1 DEF Evaluate
  <1>2. ASSUME NEW k \in Workers, SubmitBusy(k) PROVE SettledInv'
    BY <1>2, NoneType, RefusedEffect DEF SubmitBusy
  <1>3. ASSUME NEW k \in Workers, SubmitRefused(k) PROVE SettledInv'
    BY <1>3, NoneType, RefusedEffect DEF SubmitRefused
  <1>4. ASSUME NEW k \in Workers, SubmitAccepted(k) PROVE SettledInv'
    BY <1>4, NoneType DEF SubmitAccepted
  <1>5. CASE WriterDrain
    BY <1>5, DrainEffect DEF WriterDrain
  <1>6. CASE WriterWrite
    BY <1>6 DEF WriterWrite
  <1>7. CASE WriterFinish
    BY <1>7 DEF WriterFinish
  <1>8. CASE RequestStop
    BY <1>8 DEF RequestStop
  <1>9. ASSUME NEW t \in Threads, ReloadLock(t) PROVE SettledInv'
    BY <1>9 DEF ReloadLock
  <1>10. ASSUME NEW t \in Threads, ReloadPause(t) PROVE SettledInv'
    BY <1>10 DEF ReloadPause, PauseBegin
  <1>11. ASSUME NEW t \in Threads, ReloadDrained(t) PROVE SettledInv'
    BY <1>11 DEF ReloadDrained
  <1>12. ASSUME NEW t \in Threads, ReloadLoad(t) PROVE SettledInv'
    BY <1>12 DEF ReloadLoad
  <1>13. ASSUME NEW t \in Threads, ReloadPublish(t) PROVE SettledInv'
    BY <1>13 DEF ReloadPublish
  <1>14. ASSUME NEW t \in Threads, ReloadStore(t) PROVE SettledInv'
    <2>1. SUFFICES ASSUME recovered', Settled'
                   PROVE  /\ published'.db = database'
                          /\ rpc'["control"] = "publish" => loaded'["control"] = database'
                          /\ \A k \in Workers :
                               \/ pending'[k].gen >= generation'
                               \/ jpc' = "resume" /\ pending'[k].gen = jgen'
                               => pending'[k].db = database'
      OBVIOUS
    <2>2. /\ UNCHANGED <<published, pending, jpc, jgen, database, loaded, recovered>>
          /\ published.gen = generation + 1 /\ generation' = generation + 1
          /\ rpc' = [rpc EXCEPT ![t] = "resume"]
      BY <1>14 DEF ReloadStore
    <2>3. published.db = database
      BY <1>14, <2>1, <2>2 DEF ReloadStore
    <2>4. rpc'["control"] # "publish"
      BY <1>14, <2>2 DEF ReloadStore
    <2>5. ASSUME NEW k \in Workers, pending[k].gen >= generation + 1
          PROVE  pending[k].db = database
      BY <2>2, <2>3, <2>5 DEF Sample
    <2>6. ASSUME NEW k \in Workers, jpc = "resume", pending[k].gen = jgen
          PROVE  pending[k].db = database
      BY <2>1, <2>2, <2>6
    <2>7. QED
      BY <2>2, <2>3, <2>4, <2>5, <2>6
  <1>15. ASSUME NEW t \in Threads, ReloadResume(t) PROVE SettledInv'
    BY <1>15 DEF ReloadResume, Resume
  <1>16. ASSUME NEW o \in Operations, ControlBegin(o) PROVE SettledInv'
    BY <1>16 DEF ControlBegin
  <1>17. CASE RestoreBegin
    BY <1>17 DEF RestoreBegin
  <1>18. CASE RestoreGate
    BY <1>18 DEF RestoreGate, PauseBegin
  <1>19. CASE RestoreDrained
    BY <1>19 DEF RestoreDrained
  <1>20. CASE RestoreReplace
    BY <1>20 DEF RestoreReplace
  <1>21. CASE RestorePublished
    BY <1>21 DEF RestorePublished
  <1>22. CASE RestoreAbort
    BY <1>22 DEF RestoreAbort
  <1>23. CASE RestoreReloaded
    BY <1>23 DEF RestoreReloaded
  <1>24. CASE RestoreReadGeneration
    BY <1>24 DEF RestoreReadGeneration
  <1>25. CASE RestoreEnd
    BY <1>25 DEF RestoreEnd, Resume
  <1>26. CASE UNCHANGED vars
    BY <1>26 DEF vars
  <1>27. QED
    BY <1>1, <1>2, <1>3, <1>4, <1>5, <1>6, <1>7, <1>8, <1>9, <1>10, <1>11, <1>12, <1>13,
       <1>14, <1>15, <1>16, <1>17, <1>18, <1>19, <1>20, <1>21, <1>22, <1>23, <1>24,
       <1>25, <1>26
    DEF Next, WorkerStep, WriterStep, ReloadStep, RestoreStep

(* Every step admits only samples of the database as it is. *)
LEMMA NextAdmittedInv ==
  ASSUME TypeInv, StopInv, PauseInv, GenerationInv, SettledInv, AdmittedInv, [Next]_vars
  PROVE  AdmittedInv'
  <1> USE DEF TypeInv, StopInv, PauseInv, GenerationInv, SettledInv, Settled, AdmittedInv, Reloading, Writing,
              workerVars, queueVars, flagVars, runtimeVars, jobVars, Go
  <1>1. ASSUME NEW k \in Workers, Evaluate(k) PROVE AdmittedInv'
    BY <1>1 DEF Evaluate
  <1>2. ASSUME NEW k \in Workers, SubmitBusy(k) PROVE AdmittedInv'
    BY <1>2, NoneType, RefusedEffect DEF SubmitBusy
  <1>3. ASSUME NEW k \in Workers, SubmitRefused(k) PROVE AdmittedInv'
    BY <1>3, NoneType, RefusedEffect DEF SubmitRefused
  <1>4. ASSUME NEW k \in Workers, SubmitAccepted(k) PROVE AdmittedInv'
    BY <1>4, NoneType DEF SubmitAccepted
  <1>5. CASE WriterDrain
    <2>1. /\ \A i \in 1 .. Len(batch') : i \in 1 .. Len(queue) /\ batch'[i] = queue[i]
          /\ \A i \in 1 .. Len(queue') : \E j \in 1 .. Len(queue) : queue'[i] = queue[j]
      BY <1>5, DrainEffect
    <2>2. UNCHANGED <<pending, paused, cgen, database, recovered>>
      BY <1>5 DEF WriterDrain
    <2>3. recovered => \A i \in 1 .. Len(queue) : queue[i].db = database
      OBVIOUS
    <2>4. recovered => \A i \in 1 .. Len(batch') : batch'[i].db = database
      BY <2>1, <2>3
    <2>5. ASSUME recovered, NEW i \in 1 .. Len(queue') PROVE queue'[i].db = database
      <3>1. PICK j \in 1 .. Len(queue) : queue'[i] = queue[j]
        BY <2>1
      <3>2. queue[j].db = database
        BY <2>3, <2>5
      <3>3. QED
        BY <3>1, <3>2
    <2>6. QED
      BY <2>2, <2>4, <2>5
  <1>6. CASE WriterWrite
    BY <1>6 DEF WriterWrite
  <1>7. CASE WriterFinish
    BY <1>7 DEF WriterFinish
  <1>8. CASE RequestStop
    BY <1>8 DEF RequestStop
  <1>9. ASSUME NEW t \in Threads, ReloadLock(t) PROVE AdmittedInv'
    BY <1>9 DEF ReloadLock
  <1>10. ASSUME NEW t \in Threads, ReloadPause(t) PROVE AdmittedInv'
    BY <1>10 DEF ReloadPause, PauseBegin
  <1>11. ASSUME NEW t \in Threads, ReloadDrained(t) PROVE AdmittedInv'
    BY <1>11 DEF ReloadDrained
  <1>12. ASSUME NEW t \in Threads, ReloadLoad(t) PROVE AdmittedInv'
    BY <1>12 DEF ReloadLoad
  <1>13. ASSUME NEW t \in Threads, ReloadPublish(t) PROVE AdmittedInv'
    BY <1>13 DEF ReloadPublish
  <1>14. ASSUME NEW t \in Threads, ReloadStore(t) PROVE AdmittedInv'
    BY <1>14 DEF ReloadStore
  <1>15. ASSUME NEW t \in Threads, ReloadResume(t) PROVE AdmittedInv'
    BY <1>15 DEF ReloadResume, Resume
  <1>16. ASSUME NEW o \in Operations, ControlBegin(o) PROVE AdmittedInv'
    BY <1>16 DEF ControlBegin
  <1>17. CASE RestoreBegin
    BY <1>17 DEF RestoreBegin
  <1>18. CASE RestoreGate
    <2>1. CASE paused
      BY <1>18, <2>1 DEF RestoreGate
    <2>2. CASE PauseBegin(TRUE)
      <3>1. paused' /\ Len(queue') = 0 /\ UNCHANGED <<batch, wpc>>
        BY <2>2, PauseEffect
      <3>2. UNCHANGED <<pending, database, recovered>>
        BY <1>18 DEF RestoreGate
      <3>3. QED
        BY <3>1, <3>2
    <2>3. QED
      BY <1>18, <2>1, <2>2 DEF RestoreGate
  <1>19. CASE RestoreDrained
    BY <1>19 DEF RestoreDrained
  <1>20. CASE RestoreReplace
    BY <1>20 DEF RestoreReplace
  <1>21. CASE RestorePublished
    BY <1>21 DEF RestorePublished
  <1>22. CASE RestoreAbort
    BY <1>22 DEF RestoreAbort
  <1>23. CASE RestoreReloaded
    BY <1>23 DEF RestoreReloaded
  <1>24. CASE RestoreReadGeneration
    BY <1>24 DEF RestoreReadGeneration
  <1>25. CASE RestoreEnd
    BY <1>25 DEF RestoreEnd, Resume
  <1>26. CASE UNCHANGED vars
    BY <1>26 DEF vars
  <1>27. QED
    BY <1>1, <1>2, <1>3, <1>4, <1>5, <1>6, <1>7, <1>8, <1>9, <1>10, <1>11, <1>12, <1>13,
       <1>14, <1>15, <1>16, <1>17, <1>18, <1>19, <1>20, <1>21, <1>22, <1>23, <1>24,
       <1>25, <1>26
    DEF Next, WorkerStep, WriterStep, ReloadStep, RestoreStep

StatisticsInv == TypeInv /\ StopInv /\ PauseInv /\ SampleInv

LEMMA InitStatisticsInv == Init => StatisticsInv
  <1> SUFFICES ASSUME Init PROVE StatisticsInv
    OBVIOUS
  <1> USE DEF Init
  <1>1. TypeInv
    BY NoneType DEF TypeInv, Sample, Counters
  <1>2. StopInv
    BY DEF StopInv
  <1>3. PauseInv
    BY DEF PauseInv, Reloading, Writing
  <1>4. GenerationInv /\ ReloadInv
    BY NoneType DEF GenerationInv, ReloadInv
  <1>5. SettledInv /\ AdmittedInv
    BY NoneType DEF SettledInv, AdmittedInv
  <1>6. QED
    BY <1>1, <1>2, <1>3, <1>4, <1>5 DEF StatisticsInv, SampleInv

LEMMA NextStatisticsInv == StatisticsInv /\ [Next]_vars => StatisticsInv'
  BY NextTypeInv, NextStopInv, NextPauseInv, NextGenerationInv, NextReloadInv,
     NextSettledInv, NextAdmittedInv
  DEF StatisticsInv, SampleInv

LEMMA StatisticsInvHolds == Spec => []StatisticsInv
  BY InitStatisticsInv, NextStatisticsInv, PTL DEF Spec

(* EveryEventIsAccounted: for any number of packet workers and any          *)
(* capacities, every sample that a worker offered to                       *)
(* jg_policy_stats_collector_submit is recorded, lost, dropped with a      *)
(* counter or still in hand, and the writer leaves collector_main with an  *)
(* empty queue only.                                                       *)
THEOREM EveryEventIsAccountedHolds == Spec => []EveryEventIsAccounted
  <1>1. Init => EveryEventIsAccounted
    BY DEF Init, EveryEventIsAccounted, Offered, Disposed, InHand
  <1>2. StatisticsInv /\ EveryEventIsAccounted /\ [Next]_vars => EveryEventIsAccounted'
    BY NextAccounted DEF StatisticsInv
  <1>3. QED
    BY <1>1, <1>2, StatisticsInvHolds, PTL DEF Spec

(* PauseQuiesces: between the return of jg_policy_stats_collector_pause and *)
(* the resume, the thread that paused has the collector to itself.         *)
THEOREM PauseQuiescesHolds == Spec => []PauseQuiesces
  <1>1. StatisticsInv => PauseQuiesces
    BY DEF StatisticsInv, StopInv, PauseInv, PauseQuiesces, Reloading, Writing
  <1>2. QED
    BY <1>1, StatisticsInvHolds, PTL

(* NoSampleCrossesRestore: write_batch records samples only in the         *)
(* database whose policy they were evaluated with, as long as each restore *)
(* succeeds or its recovery does.                                          *)
THEOREM NoSampleCrossesRestoreHolds == Spec => NoSampleCrossesRestore
  <1>1. StatisticsInv /\ [Next]_vars =>
          [recovered /\ stats'.recorded # stats.recorded => OwnDatabase]_vars
    <2> SUFFICES ASSUME StatisticsInv, Next, recovered, stats'.recorded # stats.recorded
                 PROVE  OwnDatabase
      OBVIOUS
    <2>1. TypeInv /\ AdmittedInv
      BY DEF StatisticsInv, SampleInv
    <2>2. WriterWrite
      <3> USE DEF PauseBegin
      <3>1. ASSUME NEW k \in Workers, WorkerStep(k) PROVE FALSE
        BY <2>1, <3>1, RefusedEffect, AcceptEffect DEF WorkerStep, Evaluate
      <3>2. ASSUME NEW t \in Threads, ReloadStep(t) PROVE FALSE
        <4>1. CASE ReloadPause(t)
          BY <2>1, <4>1, PauseEffect DEF ReloadPause
        <4>2. QED
          BY <3>2, <4>1 DEF ReloadStep, ReloadLock, ReloadDrained, ReloadLoad, ReloadPublish,
             ReloadStore, ReloadResume
      <3>3. CASE RestoreStep
        <4>1. CASE RestoreGate
          BY <2>1, <4>1, PauseEffect DEF RestoreGate
        <4>2. QED
          BY <3>3, <4>1 DEF RestoreStep, RestoreDrained, RestoreReplace, RestorePublished,
             RestoreAbort, RestoreReloaded, RestoreReadGeneration, RestoreEnd
      <3>4. CASE RequestStop \/ RestoreBegin \/ WriterDrain \/ WriterFinish
        BY <3>4 DEF RequestStop, RestoreBegin, WriterDrain, WriterFinish
      <3>5. ASSUME NEW o \in Operations, ControlBegin(o) PROVE FALSE
        BY <3>5 DEF ControlBegin
      <3>6. QED
        BY <3>1, <3>2, <3>3, <3>4, <3>5 DEF Next, WriterStep
    <2>3. wpc = "write"
      BY <2>2 DEF WriterWrite
    <2>4. batch \in Seq(Sample)
      BY <2>1 DEF TypeInv
    <2>5. QED
      BY <2>1, <2>3, <2>4 DEF AdmittedInv, OwnDatabase
  <1>2. QED
    BY <1>1, StatisticsInvHolds, PTL DEF Spec, NoSampleCrossesRestore

===============================================================================
