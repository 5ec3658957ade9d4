------------------------ MODULE ManagementJobsProofs -------------------------
(***************************************************************************)
(* Proofs about the job queue (ManagementJobs) for every set of            *)
(* credentials and sources, every capacity and every bound, and about the  *)
(* job that works outside of any transaction, the update of blocklist      *)
(* sources (BlocklistSources), for every set of servers, documents and     *)
(* configurations.                                                         *)
(***************************************************************************)
EXTENDS ManagementJobs, BlocklistSources, FiniteSetTheorems, SequenceTheorems,
        WellFoundedInduction, TLAPS

Job ==
  [id : Nat, kind : Kinds \cup {None}, cred : Credentials \cup {Local, None},
   source : Sources \cup {None}, content : Nat,
   state : {None, "queued", "running", "completed"},
   observed : BOOLEAN, done : Nat, lost : BOOLEAN]

TypeInv ==
  /\ slots \in [Slots -> Job] /\ work \in Job
  /\ next \in Nat /\ next >= 1 /\ next <= MaxJobs + 1
  /\ wpc \in {"wait", "reauthorize", "start", "run", "exited", "joined"}
  /\ verdict \in {"ok", "refused"}
  /\ stopping \in BOOLEAN /\ degraded \in BOOLEAN /\ clock \in Nat
  /\ valid \subseteq Credentials \cup {Local}

(* A slot is clear or holds a job with a number that was given out.  Only  *)
(* a waiting job has an upload, whose name is the job's number; a result   *)
(* that counts as read was in a response; a job that lost its credential   *)
(* is not running, and its credential stays invalid.                       *)
SlotInv ==
  \A s \in Slots :
    /\ slots[s] # Empty => slots[s].id \in 1 .. next - 1 /\ slots[s].state # None
    /\ slots[s].content # 0 => slots[s].content = slots[s].id /\ slots[s].state = "queued"
    /\ slots[s].observed => slots[s].id \in delivered
    /\ System(slots[s]) => slots[s].cred = None
    /\ slots[s].lost => slots[s].cred \notin valid /\ ~System(slots[s])
    /\ slots[s].state = "running" => ~slots[s].lost

UniqueInv ==
  \A s, t \in Slots : s # t /\ slots[s].id = slots[t].id => slots[s].id = 0

(* The worker's copy agrees with the slot it was taken from, which no one  *)
(* else touches: until Start both name the same upload, after it only the  *)
(* copy does.                                                              *)
Agrees(s) ==
  /\ slots[s].kind = work.kind /\ slots[s].cred = work.cred
  /\ slots[s].state \in {"queued", "running"}
  /\ wpc # "run" => slots[s].state = "queued" /\ slots[s].content = work.content
  /\ wpc = "run" => slots[s].content = 0
  /\ wpc = "start" /\ verdict = "ok" => ~slots[s].lost

Busy == wpc \in {"reauthorize", "start", "run"}

WorkInv ==
  /\ ~Busy => work = Empty
  /\ Busy =>
       /\ work.id \in 1 .. next - 1 /\ work.content \in {0, work.id}
       /\ \A s \in Slots : slots[s].id = work.id => Agrees(s)

CapInv == Cardinality(UserJobs) <= UserCapacity

IndInv ==
  /\ TypeInv /\ SlotInv /\ UniqueInv /\ WorkInv
  /\ UploadsHaveOwner /\ ExclusiveJobs /\ CapInv

USE ActorAssumption, CapacityAssumption, BoundAssumption DEF Slots, None

(* A cleared slot is a job record. *)
LEMMA EmptyType == Empty \in Job
  BY DEF Empty, Job

(* The fields of a cleared slot. *)
LEMMA EmptyFields ==
  /\ Empty.id = 0 /\ Empty.kind = None /\ Empty.cred = None /\ Empty.content = 0
  /\ Empty.state = None /\ ~Empty.observed /\ ~Empty.lost
  BY DEF Empty

(* The slots are finitely many, Capacity of them. *)
LEMMA SlotsFinite == IsFiniteSet(Slots) /\ Cardinality(Slots) = Capacity
  BY FS_Interval DEF Slots

(* Init establishes the inductive invariant. *)
LEMMA InitIndInv == Init => IndInv
  <1> SUFFICES ASSUME Init PROVE IndInv
    OBVIOUS
  <1>1. TypeInv
    <2>1. slots \in [Slots -> Job] /\ work \in Job
      BY EmptyType DEF Init
    <2>2. stopping \in BOOLEAN /\ degraded \in BOOLEAN
      BY Zenon DEF Init
    <2>3. QED
      BY <2>1, <2>2 DEF Init, TypeInv
  <1>2. SlotInv /\ UniqueInv /\ WorkInv
    BY DEF Init, SlotInv, UniqueInv, WorkInv, Busy, Empty, System
  <1>3. UploadsHaveOwner
    BY DEF Init, UploadsHaveOwner, Empty
  <1>4. ExclusiveJobs
    BY DEF Init, ExclusiveJobs, Empty
  <1>5. UserJobs = {}
    BY DEF Init, UserJobs, Reusable, Occupied
  <1>6. CapInv
    BY <1>5, FS_EmptySet DEF CapInv, UserCapacity
  <1>7. QED
    BY <1>1, <1>2, <1>3, <1>4, <1>6 DEF IndInv

(* What the queue holds after a job was put into a reusable slot. *)
LEMMA AcceptPreserves ==
  ASSUME IndInv, NEW s \in Slots, NEW j \in Job, Reusable(s), Accept(s, j),
         next <= MaxJobs, j.id = next, j.state = "queued", j.content \in {0, next},
         ~j.observed, ~j.lost, System(j) => j.cred = None,
         UNCHANGED <<workerVars, worldVars, stopping, delivered>>
  PROVE  /\ TypeInv' /\ SlotInv' /\ UniqueInv' /\ WorkInv'
         /\ slots[s].content = 0
         /\ slots'[s] = j /\ \A t \in Slots \ {s} : slots'[t] = slots[t]
  <1> USE DEF IndInv, workerVars, worldVars
  <1>1. slots \in [Slots -> Job] /\ next \in Nat /\ next >= 1
    BY DEF TypeInv
  <1>2. slots'[s] = j /\ (\A t \in Slots \ {s} : slots'[t] = slots[t]) /\ next' = next + 1
    BY <1>1 DEF Accept
  <1>3. slots' \in [Slots -> Job]
    BY <1>1 DEF Accept
  <1>4. TypeInv'
    BY <1>1, <1>2, <1>3 DEF TypeInv
  <1>5. slots[s].content = 0
    BY <1>1 DEF Reusable, Occupied, SlotInv, Empty
  <1>6. SlotInv'
    <2> SUFFICES ASSUME NEW t \in Slots PROVE SlotInv!(t)'
      BY DEF SlotInv
    <2>1. CASE t = s
      <3>1. slots'[t] = j
        BY <2>1, <1>2
      <3>2. ~slots'[t].observed /\ ~slots'[t].lost
        BY <3>1, Zenon
      <3>3. QED
        BY <3>1, <3>2, <1>1, <1>2, j.content # 0 => j.content = j.id DEF System
    <2>2. CASE t # s
      <3>1. slots'[t] = slots[t]
        BY <2>2, <1>2
      <3>2. SlotInv!(t)
        BY DEF SlotInv
      <3>3. QED
        BY <3>1, <3>2, <1>1, <1>2 DEF System
    <2>3. QED
      BY <2>1, <2>2
  <1>7. UniqueInv'
    <2>1. \A t \in Slots : slots[t].id # next
      BY <1>1 DEF SlotInv, Empty
    <2>2. QED
      BY <2>1, <1>1, <1>2 DEF UniqueInv
  <1>8. WorkInv'
    <2>1. CASE ~Busy
      BY <2>1 DEF WorkInv, Busy
    <2>2. CASE Busy
      <3>1. work.id \in 1 .. next - 1 /\ work.content \in {0, work.id}
        BY <2>2 DEF WorkInv
      <3>2. ASSUME NEW t \in Slots, slots'[t].id = work.id PROVE Agrees(t)'
        <4>1. slots'[t] = slots[t] /\ slots[t].id = work.id
          BY <3>1, <3>2, <1>1, <1>2
        <4>2. Agrees(t)
          BY <4>1, <2>2 DEF WorkInv
        <4>3. QED
          BY <4>1, <4>2 DEF Agrees
      <3>3. QED
        BY <2>2, <3>1, <3>2, <1>1, <1>2 DEF WorkInv, Busy
    <2>3. QED
      BY <2>1, <2>2
  <1>9. QED
    BY <1>2, <1>4, <1>5, <1>6, <1>7, <1>8

(* A step that adds no unread job of a user keeps the bound on them. *)
LEMMA CapacityKept ==
  ASSUME CapInv, UserJobs' \subseteq UserJobs
  PROVE  CapInv'
  <1>1. IsFiniteSet(UserJobs)
    BY SlotsFinite, FS_Subset DEF UserJobs
  <1>2. Cardinality(UserJobs') <= Cardinality(UserJobs)
    BY <1>1, FS_Subset
  <1>3. Cardinality(UserJobs') \in Nat /\ Cardinality(UserJobs) \in Nat
    BY <1>1, FS_Subset, FS_CardinalityType
  <1>4. QED
    BY <1>2, <1>3 DEF CapInv, UserCapacity

(* The jobs that count against a user's capacity after a submission. *)
LEMMA CapacityGrows ==
  ASSUME CapInv, NEW s \in Slots, UserJobs' \subseteq UserJobs \cup {s},
         Cardinality(UserJobs) < UserCapacity
  PROVE  CapInv'
  <1>1. IsFiniteSet(UserJobs)
    BY SlotsFinite, FS_Subset DEF UserJobs
  <1>2. /\ IsFiniteSet(UserJobs \cup {s})
        /\ Cardinality(UserJobs \cup {s}) <= Cardinality(UserJobs) + 1
    <2>1. Cardinality(UserJobs) \in Nat
      BY <1>1, FS_CardinalityType
    <2>2. /\ IsFiniteSet(UserJobs \cup {s})
          /\ Cardinality(UserJobs \cup {s}) =
               IF s \in UserJobs THEN Cardinality(UserJobs) ELSE Cardinality(UserJobs) + 1
      BY <1>1, FS_AddElement
    <2>3. QED
      BY <2>1, <2>2
  <1>3. Cardinality(UserJobs') <= Cardinality(UserJobs \cup {s})
    BY <1>2, FS_Subset
  <1>4. /\ Cardinality(UserJobs') \in Nat /\ Cardinality(UserJobs) \in Nat
        /\ Cardinality(UserJobs \cup {s}) \in Nat
    BY <1>1, <1>2, FS_Subset, FS_CardinalityType
  <1>5. QED
    BY <1>2, <1>3, <1>4 DEF CapInv, UserCapacity

(* The uploads after a job was accepted with or without one. *)
LEMMA AcceptUploads ==
  ASSUME TypeInv, UploadsHaveOwner, NEW s \in Slots, NEW j \in Job,
         slots[s].content = 0, slots'[s] = j,
         \A t \in Slots \ {s} : slots'[t] = slots[t],
         heap' = IF j.content # 0 THEN heap \cup {j.content} ELSE heap, work' = work
  PROVE  UploadsHaveOwner'
  <1>1. \A x : x # 0 => (x \in heap' <=> x \in heap \/ x = j.content)
    OBVIOUS
  <1>2. 0 \notin heap
    BY DEF UploadsHaveOwner
  <1>3. 0 \notin heap'
    BY <1>2
  <1>4. ASSUME NEW x, x # 0
        PROVE  x \in heap' <=> (\E t \in Slots : slots'[t].content = x) \/ work'.content = x
    <2>1. x \in heap <=> (\E t \in Slots : slots[t].content = x) \/ work.content = x
      BY <1>4 DEF UploadsHaveOwner
    <2>2. (\E t \in Slots : slots'[t].content = x)
            <=> (\E t \in Slots : slots[t].content = x) \/ x = j.content
      BY <1>4
    <2>3. QED
      BY <1>1, <1>4, <2>1, <2>2
  <1>5. QED
    BY <1>3, <1>4 DEF UploadsHaveOwner

(* submit_management_job preserves the inductive invariant. *)
LEMMA SubmitPreserves ==
  ASSUME IndInv, NEW j \in Job, j.id = next, j.state = "queued", ~System(j),
         j.content \in {0, next}, ~j.observed, ~j.lost, Submit(j)
  PROVE  IndInv'
  <1>1. CASE UNCHANGED queueVars
    <2>1. UNCHANGED vars
      BY <1>1 DEF Submit, vars
    <2>2. QED
      BY <2>1 DEF vars, queueVars, workerVars, worldVars, IndInv, TypeInv, SlotInv, UniqueInv,
         WorkInv, Busy, Agrees, UploadsHaveOwner, ExclusiveJobs, CapInv, UserJobs, Reusable, Occupied
  <1>2. CASE /\ SameRefresh(j) = {} /\ ~Conflicts(j)
             /\ CapacityLeft(Actor(j.cred))
             /\ \E s \in Slots : Selected(s) /\ Accept(s, j)
             /\ heap' = IF j.content # 0 THEN heap \cup {j.content} ELSE heap
    <2>1. PICK s \in Slots : Reusable(s) /\ Accept(s, j)
      BY <1>2 DEF Selected
    <2>2. UNCHANGED <<workerVars, worldVars, stopping, delivered>> /\ next <= MaxJobs
      BY DEF Submit
    <2>3. /\ TypeInv' /\ SlotInv' /\ UniqueInv' /\ WorkInv' /\ slots[s].content = 0
          /\ slots'[s] = j /\ \A t \in Slots \ {s} : slots'[t] = slots[t]
      BY <2>1, <2>2, AcceptPreserves
    <2>4. UploadsHaveOwner'
      BY <1>2, <2>2, <2>3, AcceptUploads DEF IndInv, workerVars
    <2>5. clock' = clock
      BY <2>2 DEF worldVars
    <2>6. \A t \in Slots \ {s} : Reusable(t)' <=> Reusable(t)
      BY <2>3, <2>5 DEF Reusable, Occupied
    <2>7. ExclusiveJobs'
      <3> SUFFICES ASSUME NEW a \in Slots, NEW b \in Slots, a # b,
                          slots'[a].kind = slots'[b].kind
                   PROVE  ExclusiveJobs!(a, b)!2'
        BY DEF ExclusiveJobs
      <3>1. CASE a # s /\ b # s
        BY <3>1, <2>3, <2>6 DEF IndInv, ExclusiveJobs
      <3>2. CASE a = s
        BY <3>2, <1>2, <2>3, <2>6 DEF SameRefresh, Conflicts, System
      <3>3. CASE b = s
        BY <3>3, <1>2, <2>3, <2>6 DEF SameRefresh, Conflicts, System
      <3>4. QED
        BY <3>1, <3>2, <3>3
    <2>8. UserJobs' \subseteq UserJobs \cup {s}
      BY <2>3, <2>6 DEF UserJobs
    <2>9. CapInv'
      BY <1>2, <2>8, CapacityGrows DEF CapacityLeft, IndInv
    <2>10. QED
      BY <2>3, <2>4, <2>7, <2>9 DEF IndInv
  <1>3. QED
    BY <1>1, <1>2 DEF Submit

(* submit_scheduled_source_job preserves the inductive invariant. *)
LEMMA ScheduledPreserves ==
  ASSUME IndInv, SubmitScheduled
  PROVE  IndInv'
  <1>1. PICK j : j = NewJob("scheduled", None, None, 0)
    OBVIOUS
  <1>2. PICK s \in Slots : Reusable(s) /\ Accept(s, NewJob("scheduled", None, None, 0))
    BY DEF SubmitScheduled, Selected
  <1>3. /\ j \in Job /\ j.id = next /\ j.state = "queued" /\ j.content = 0
        /\ System(j) /\ j.cred = None
    BY <1>1 DEF NewJob, Empty, Job, Kinds, System, IndInv, TypeInv
  <1>4. ~j.observed /\ ~j.lost
    BY <1>1 DEF NewJob, Empty
  <1>5. Accept(s, j)
    BY <1>1, <1>2 DEF Accept
  <1>6. /\ UNCHANGED <<workerVars, worldVars, stopping, delivered>> /\ next <= MaxJobs
        /\ heap' = heap /\ \A t \in Slots : ~System(slots[t])
    BY DEF SubmitScheduled
  <1>7. /\ TypeInv' /\ SlotInv' /\ UniqueInv' /\ WorkInv' /\ slots[s].content = 0
        /\ slots'[s] = j /\ \A t \in Slots \ {s} : slots'[t] = slots[t]
    BY <1>2, <1>3, <1>4, <1>5, <1>6, AcceptPreserves
  <1>8. UploadsHaveOwner'
    BY <1>3, <1>6, <1>7, AcceptUploads DEF IndInv, workerVars
  <1>9. \A t \in Slots \ {s} : Reusable(t)' <=> Reusable(t)
    BY <1>6, <1>7 DEF Reusable, Occupied, worldVars
  <1>10. ExclusiveJobs'
    <2> SUFFICES ASSUME NEW a \in Slots, NEW b \in Slots, a # b,
                        slots'[a].kind = slots'[b].kind
                 PROVE  ExclusiveJobs!(a, b)!2'
      BY DEF ExclusiveJobs
    <2>1. a # s /\ b # s
      BY <1>3, <1>6, <1>7 DEF System
    <2>2. QED
      BY <2>1, <1>7, <1>9 DEF IndInv, ExclusiveJobs
  <1>11. UserJobs' \subseteq UserJobs
    BY <1>3, <1>7, <1>9 DEF UserJobs, System
  <1>12. CapInv'
    BY <1>11, CapacityKept DEF IndInv
  <1>13. QED
    BY <1>7, <1>8, <1>10, <1>12 DEF IndInv

(* A step that leaves the slots and the clock alone keeps what is said of  *)
(* them alone.                                                             *)
LEMMA QueueUntouched ==
  ASSUME IndInv, UNCHANGED <<slots, clock>>
  PROVE  UniqueInv' /\ ExclusiveJobs' /\ CapInv'
  BY DEF IndInv, UniqueInv, ExclusiveJobs, CapInv, UserJobs, Reusable, Occupied, System

(* A result that was read. *)
ObservedJob(q) == [q EXCEPT !.observed = TRUE]

(* Reading a result changes nothing else of its slot. *)
LEMMA ObservedJobFields ==
  ASSUME NEW q \in Job
  PROVE  /\ ObservedJob(q) \in Job
         /\ ObservedJob(q).id = q.id /\ ObservedJob(q).kind = q.kind
         /\ ObservedJob(q).cred = q.cred /\ ObservedJob(q).source = q.source
         /\ ObservedJob(q).content = q.content /\ ObservedJob(q).state = q.state
         /\ ObservedJob(q).done = q.done /\ ObservedJob(q).lost = q.lost
         /\ ObservedJob(q).observed
  BY DEF ObservedJob, Job

(* A reading of a result preserves the inductive invariant. *)
LEMMA GetPreserves ==
  ASSUME IndInv, NEW c, Get(c)
  PROVE  IndInv'
  <1> USE DEF IndInv
  <1>1. PICK s \in Slots :
          /\ slots[s].state = "completed" /\ ~System(slots[s])
          /\ slots' = [slots EXCEPT ![s].observed = TRUE]
          /\ delivered' = delivered \cup {slots[s].id}
    BY DEF Get
  <1>2. UNCHANGED <<next, heap, workerVars, worldVars, stopping>>
    BY DEF Get
  <1>0. slots \in [Slots -> Job]
    BY DEF TypeInv
  <1>3. /\ slots' \in [Slots -> Job]
        /\ \A t \in Slots \ {s} : slots'[t] = slots[t]
        /\ slots'[s] = ObservedJob(slots[s])
    <2>1. slots' = [slots EXCEPT ![s] = ObservedJob(slots[s])]
      BY <1>1, <1>0 DEF ObservedJob
    <2>2. QED
      BY <2>1, <1>0, ObservedJobFields
  <1>4. \A t \in Slots :
          /\ slots'[t].id = slots[t].id /\ slots'[t].kind = slots[t].kind
          /\ slots'[t].cred = slots[t].cred /\ slots'[t].source = slots[t].source
          /\ slots'[t].content = slots[t].content /\ slots'[t].state = slots[t].state
          /\ slots'[t].done = slots[t].done /\ slots'[t].lost = slots[t].lost
    BY <1>0, <1>3, ObservedJobFields
  <1>5. TypeInv'
    BY <1>2, <1>3 DEF TypeInv, workerVars, worldVars
  <1>6. SlotInv'
    <2> SUFFICES ASSUME NEW t \in Slots PROVE SlotInv!(t)'
      BY DEF SlotInv
    <2>1. SlotInv!(t)
      BY DEF SlotInv
    <2>2. slots'[t] # Empty => slots[t] # Empty
      BY <1>1, <1>3, EmptyFields
    <2>3. slots'[t].observed => slots'[t].id \in delivered'
      BY <1>1, <1>3, <1>4, <2>1
    <2>4. QED
      BY <1>2, <1>4, <2>1, <2>2, <2>3 DEF System, worldVars
  <1>7. UniqueInv'
    BY <1>4 DEF UniqueInv
  <1>8. WorkInv'
    <2>1. \A t \in Slots : Agrees(t) => Agrees(t)'
      BY <1>2, <1>4 DEF Agrees, workerVars
    <2>2. QED
      BY <1>2, <1>4, <2>1 DEF WorkInv, Busy, workerVars
  <1>9. UploadsHaveOwner'
    BY <1>2, <1>4 DEF UploadsHaveOwner, workerVars
  <1>10. \A t \in Slots : Reusable(t) => Reusable(t)'
    <2>1. slots'[s].state = "completed" /\ slots'[s].observed
      BY <1>0, <1>1, <1>3, ObservedJobFields
    <2>2. Reusable(s)'
      BY <2>1 DEF Reusable
    <2>3. \A t \in Slots \ {s} : Reusable(t) => Reusable(t)'
      BY <1>2, <1>3 DEF Reusable, Occupied, worldVars
    <2>4. QED
      BY <2>2, <2>3
  <1>11. ExclusiveJobs'
    BY <1>4, <1>10 DEF ExclusiveJobs
  <1>12. UserJobs' \subseteq UserJobs
    BY <1>4, <1>10 DEF UserJobs, System
  <1>13. QED
    BY <1>5, <1>6, <1>7, <1>8, <1>9, <1>11, <1>12, CapacityKept

(* The worker takes the oldest job. *)
LEMMA TakePreserves ==
  ASSUME IndInv, Take
  PROVE  IndInv'
  <1> USE DEF IndInv
  <1>1. PICK s \in Slots : slots[s].state = "queued" /\ work' = slots[s]
    BY DEF Take, Oldest, InState
  <1>2. /\ wpc = "wait" /\ wpc' = "reauthorize"
        /\ UNCHANGED <<slots, next, heap, verdict, valid, degraded, clock, stopping, delivered>>
    BY DEF Take, queueVars, worldVars
  <1>3. TypeInv'
    BY <1>1, <1>2 DEF TypeInv
  <1>4. SlotInv'
    BY <1>2 DEF SlotInv, System
  <1>5. slots[s].id \in 1 .. next - 1 /\ slots[s].content \in {0, slots[s].id}
    BY <1>1 DEF SlotInv, Empty
  <1>6. \A t \in Slots : slots[t].id = slots[s].id => t = s
    BY <1>5 DEF UniqueInv, TypeInv
  <1>7. WorkInv'
    BY <1>1, <1>2, <1>5, <1>6 DEF WorkInv, Busy, Agrees
  <1>8. UploadsHaveOwner'
    <2>1. work.content = 0
      BY <1>2 DEF WorkInv, Busy, Empty
    <2>2. QED
      BY <1>1, <1>2, <2>1 DEF UploadsHaveOwner
  <1>9. QED
    BY <1>2, <1>3, <1>4, <1>7, <1>8, QueueUntouched

(* The second authorization finds every credential that fell. *)
LEMMA ReauthorizePreserves ==
  ASSUME IndInv, Reauthorize
  PROVE  IndInv'
  <1> USE DEF IndInv
  <1>1. /\ wpc = "reauthorize" /\ wpc' = "start"
        /\ verdict' = IF Authorized(work) THEN "ok" ELSE "refused"
        /\ UNCHANGED <<slots, next, heap, work, valid, degraded, clock, stopping, delivered>>
    BY DEF Reauthorize, queueVars, worldVars
  <1>2. TypeInv'
    BY <1>1 DEF TypeInv
  <1>3. SlotInv'
    BY <1>1 DEF SlotInv, System
  <1>4. WorkInv'
    <2>1. ASSUME NEW t \in Slots, slots[t].id = work.id PROVE Agrees(t)'
      <3>1. Agrees(t)
        BY <1>1, <2>1 DEF WorkInv, Busy
      <3>2. verdict' = "ok" => ~slots[t].lost
        BY <1>1, <3>1 DEF Agrees, Authorized, SlotInv, System
      <3>3. QED
        BY <1>1, <3>1, <3>2 DEF Agrees
    <2>2. QED
      BY <1>1, <2>1 DEF WorkInv, Busy
  <1>5. UploadsHaveOwner'
    BY <1>1 DEF UploadsHaveOwner
  <1>6. QED
    BY <1>1, <1>2, <1>3, <1>4, <1>5, QueueUntouched

(* What Start makes of the slot of the job. *)
StartedJob(q) ==
  [q EXCEPT !.state = IF verdict = "ok" THEN "running" ELSE @, !.content = 0]

(* The fields of a slot after Start. *)
LEMMA StartedJobFields ==
  ASSUME NEW q \in Job
  PROVE  /\ StartedJob(q) \in Job
         /\ StartedJob(q).id = q.id /\ StartedJob(q).kind = q.kind
         /\ StartedJob(q).cred = q.cred /\ StartedJob(q).source = q.source
         /\ StartedJob(q).content = 0
         /\ StartedJob(q).state = IF verdict = "ok" THEN "running" ELSE q.state
         /\ StartedJob(q).done = q.done /\ StartedJob(q).lost = q.lost
         /\ StartedJob(q).observed = q.observed
  BY DEF StartedJob, Job

(* The upload passes from the slot to the worker's copy. *)
LEMMA StartPreserves ==
  ASSUME IndInv, Start
  PROVE  IndInv'
  <1> USE DEF IndInv
  <1>0. slots \in [Slots -> Job] /\ verdict \in {"ok", "refused"} /\ next \in Nat
    BY DEF TypeInv
  <1>01. PICK s \in Slots :
          /\ slots[s].id = work.id
          /\ slots' = [slots EXCEPT ![s].state = IF verdict = "ok" THEN "running" ELSE @,
                                     ![s].content = 0]
    BY Zenon DEF Start, Held
  <1>1. slots[s].id = work.id /\ slots' = [slots EXCEPT ![s] = StartedJob(slots[s])]
    BY <1>0, <1>01 DEF StartedJob
  <1>2. /\ wpc = "start" /\ wpc' = "run"
        /\ UNCHANGED <<next, heap, work, verdict, valid, degraded, clock, stopping, delivered>>
    BY DEF Start, worldVars
  <1>3. /\ slots' \in [Slots -> Job]
        /\ \A t \in Slots \ {s} : slots'[t] = slots[t]
        /\ slots'[s] = StartedJob(slots[s])
    BY <1>0, <1>1, StartedJobFields
  <1>4. /\ slots'[s].id = slots[s].id /\ slots'[s].kind = slots[s].kind
        /\ slots'[s].cred = slots[s].cred /\ slots'[s].source = slots[s].source
        /\ slots'[s].content = 0
        /\ slots'[s].state = IF verdict = "ok" THEN "running" ELSE slots[s].state
        /\ slots'[s].lost = slots[s].lost /\ slots'[s].observed = slots[s].observed
    BY <1>0, <1>3, StartedJobFields
  <1>5. Agrees(s) /\ work.id \in 1 .. next - 1
    BY <1>1, <1>2 DEF WorkInv, Busy
  <1>6. /\ slots[s].state = "queued" /\ slots[s].content = work.content
        /\ slots[s].kind = work.kind /\ slots[s].cred = work.cred
        /\ verdict = "ok" => ~slots[s].lost
    BY <1>2, <1>5 DEF Agrees
  <1>7. slots[s] # Empty /\ slots'[s] # Empty
    BY <1>4, <1>6, EmptyFields
  <1>8. TypeInv'
    BY <1>2, <1>3 DEF TypeInv
  <1>9. SlotInv'
    <2> SUFFICES ASSUME NEW t \in Slots PROVE SlotInv!(t)'
      BY DEF SlotInv
    <2>1. SlotInv!(t)
      BY DEF SlotInv
    <2>2. CASE t # s
      BY <2>1, <2>2, <1>2, <1>3 DEF System
    <2>3. CASE t = s
      <3>1. slots'[t].state = "running" => ~slots'[t].lost
        BY <2>3, <1>0, <1>4, <1>6
      <3>2. slots'[t].state # None
        BY <2>3, <1>4, <1>6
      <3>3. slots'[t].observed => slots'[t].id \in delivered'
        BY <2>1, <2>3, <1>2, <1>4
      <3>4. slots'[t].lost => slots'[t].cred \notin valid' /\ ~System(slots'[t])
        BY <2>1, <2>3, <1>2, <1>4 DEF System
      <3>5. QED
        BY <2>1, <2>3, <3>1, <3>2, <3>3, <3>4, <1>2, <1>4, <1>7 DEF System
    <2>4. QED
      BY <2>2, <2>3
  <1>10. UniqueInv'
    BY <1>3, <1>4 DEF UniqueInv
  <1>11. WorkInv'
    <2>1. ASSUME NEW t \in Slots, slots'[t].id = work.id PROVE t = s
      BY <2>1, <1>1, <1>3, <1>4, <1>5 DEF UniqueInv
    <2>2. Agrees(s)'
      BY <1>0, <1>2, <1>4, <1>6 DEF Agrees
    <2>3. work.content \in {0, work.id}
      BY <1>2 DEF WorkInv, Busy
    <2>4. QED
      BY <1>2, <1>5, <2>1, <2>2, <2>3 DEF WorkInv, Busy
  <1>12. UploadsHaveOwner'
    <2>1. ASSUME NEW x, x # 0
          PROVE  (\E t \in Slots : slots'[t].content = x) \/ work.content = x
                   <=> (\E t \in Slots : slots[t].content = x) \/ work.content = x
      BY <2>1, <1>3, <1>4, <1>6
    <2>2. QED
      BY <2>1, <1>2 DEF UploadsHaveOwner
  <1>13. /\ ~Reusable(s) /\ ~Reusable(s)'
         /\ \A t \in Slots \ {s} : Reusable(t)' <=> Reusable(t)
    BY <1>0, <1>2, <1>3, <1>4, <1>6, <1>7 DEF Reusable, Occupied
  <1>14. ExclusiveJobs'
    <2> SUFFICES ASSUME NEW a \in Slots, NEW b \in Slots, a # b,
                        slots'[a].kind = slots'[b].kind
                 PROVE  ExclusiveJobs!(a, b)!2'
      BY DEF ExclusiveJobs
    <2>1. slots[a].kind = slots[b].kind
      BY <1>3, <1>4
    <2>2. ExclusiveJobs!(a, b)!2
      BY <2>1 DEF ExclusiveJobs
    <2>3. \A t \in Slots : /\ slots'[t].kind = slots[t].kind
                           /\ slots'[t].source = slots[t].source
                           /\ slots'[t].state = "completed" <=> slots[t].state = "completed"
                           /\ Reusable(t)' <=> Reusable(t)
      BY <1>0, <1>3, <1>4, <1>6, <1>13
    <2>4. QED
      BY <2>2, <2>3
  <1>15. UserJobs' \subseteq UserJobs
    BY <1>3, <1>4, <1>13 DEF UserJobs, System
  <1>16. QED
    BY <1>8, <1>9, <1>10, <1>11, <1>12, <1>14, <1>15, CapacityKept

(* What Complete leaves in the slot of a job that is not the scan's. *)
CompletedJob(q) == [q EXCEPT !.state = "completed", !.done = clock]

(* The fields of a slot after Complete. *)
LEMMA CompletedJobFields ==
  ASSUME NEW q \in Job, clock \in Nat
  PROVE  /\ CompletedJob(q) \in Job
         /\ CompletedJob(q).id = q.id /\ CompletedJob(q).kind = q.kind
         /\ CompletedJob(q).cred = q.cred /\ CompletedJob(q).source = q.source
         /\ CompletedJob(q).content = q.content /\ CompletedJob(q).state = "completed"
         /\ CompletedJob(q).lost = q.lost /\ CompletedJob(q).observed = q.observed
  BY DEF CompletedJob, Job

(* The worker frees the upload of its copy, to which nothing else refers. *)
LEMMA CompletePreserves ==
  ASSUME IndInv, Complete
  PROVE  IndInv'
  <1> USE DEF IndInv
  <1>0. slots \in [Slots -> Job] /\ clock \in Nat /\ next \in Nat
    BY DEF TypeInv
  <1>01. PICK s \in Slots :
           /\ slots[s].id = work.id
           /\ slots' = [slots EXCEPT ![s] =
                IF System(@) THEN Empty ELSE [@ EXCEPT !.state = "completed", !.done = clock]]
    BY Zenon DEF Complete, Held
  <1>1. slots' = [slots EXCEPT ![s] = IF System(slots[s]) THEN Empty ELSE CompletedJob(slots[s])]
    BY <1>01, Zenon DEF CompletedJob
  <1>2. /\ wpc = "run" /\ wpc' = "wait" /\ work' = Empty /\ verdict' = "ok"
        /\ heap' = heap \ {work.content}
        /\ UNCHANGED <<next, valid, degraded, clock, stopping, delivered>>
    BY DEF Complete, worldVars
  <1>3. /\ slots' \in [Slots -> Job]
        /\ \A t \in Slots \ {s} : slots'[t] = slots[t]
        /\ System(slots[s]) => slots'[s] = Empty
        /\ ~System(slots[s]) => slots'[s] = CompletedJob(slots[s])
    BY <1>0, <1>1, CompletedJobFields, EmptyType
  <1>4. ~System(slots[s]) =>
          /\ slots'[s].id = slots[s].id /\ slots'[s].kind = slots[s].kind
          /\ slots'[s].cred = slots[s].cred /\ slots'[s].source = slots[s].source
          /\ slots'[s].content = slots[s].content /\ slots'[s].state = "completed"
          /\ slots'[s].lost = slots[s].lost /\ slots'[s].observed = slots[s].observed
    BY <1>0, <1>3, CompletedJobFields
  <1>5. Agrees(s) /\ work.id \in 1 .. next - 1 /\ work.content \in {0, work.id}
    BY <1>01, <1>2 DEF WorkInv, Busy
  <1>6. slots[s].state \in {"queued", "running"} /\ slots[s].content = 0
    BY <1>2, <1>5 DEF Agrees
  <1>7. slots[s] # Empty
    BY <1>6, EmptyFields
  <1>8. TypeInv'
    BY <1>2, <1>3, EmptyType DEF TypeInv
  <1>9. SlotInv'
    <2> SUFFICES ASSUME NEW t \in Slots PROVE SlotInv!(t)'
      BY DEF SlotInv
    <2>1. SlotInv!(t)
      BY DEF SlotInv
    <2>2. CASE t # s
      BY <2>1, <2>2, <1>2, <1>3 DEF System
    <2>3. CASE t = s /\ System(slots[s])
      <3>1. slots'[t] = Empty
        BY <2>3, <1>3
      <3>2. QED
        BY <3>1, EmptyFields DEF System
    <2>4. CASE t = s /\ ~System(slots[s])
      <3>1. slots'[t].observed => slots'[t].id \in delivered'
        BY <2>1, <2>4, <1>2, <1>4
      <3>2. slots'[t].lost => slots'[t].cred \notin valid' /\ ~System(slots'[t])
        BY <2>1, <2>4, <1>2, <1>4 DEF System
      <3>3. QED
        BY <2>1, <2>4, <3>1, <3>2, <1>2, <1>4, <1>6, <1>7 DEF System
    <2>5. QED
      BY <2>2, <2>3, <2>4
  <1>10. UniqueInv'
    <2>1. \A t \in Slots : slots'[t].id = slots[t].id \/ slots'[t].id = 0
      BY <1>3, <1>4, EmptyFields
    <2>2. QED
      BY <2>1 DEF UniqueInv
  <1>11. WorkInv'
    BY <1>2 DEF WorkInv, Busy
  <1>12. UploadsHaveOwner'
    <2>1. \A t \in Slots : slots'[t].content = slots[t].content
      BY <1>3, <1>4, <1>6, EmptyFields
    <2>2. ASSUME NEW t \in Slots, slots[t].content = work.content, work.content # 0
          PROVE  FALSE
      <3>1. slots[t].id = work.id
        BY <2>2, <1>5 DEF SlotInv
      <3>2. slots[t].content = 0
        BY <3>1, <1>2 DEF WorkInv, Busy, Agrees
      <3>3. QED
        BY <2>2, <3>2
    <2>3. ASSUME NEW x, x # 0
          PROVE  x \in heap' <=> (\E t \in Slots : slots'[t].content = x) \/ work'.content = x
      <3>1. x \in heap <=> (\E t \in Slots : slots[t].content = x) \/ work.content = x
        BY <2>3 DEF UploadsHaveOwner
      <3>2. work'.content # x
        BY <2>3, <1>2, EmptyFields
      <3>3. QED
        BY <2>1, <2>2, <2>3, <3>1, <3>2, <1>2
    <2>4. 0 \notin heap'
      BY <1>2 DEF UploadsHaveOwner
    <2>5. QED
      BY <2>3, <2>4 DEF UploadsHaveOwner
  <1>13. /\ ~Reusable(s)
         /\ \A t \in Slots \ {s} : Reusable(t)' <=> Reusable(t)
    BY <1>2, <1>3, <1>6, <1>7 DEF Reusable, Occupied
  <1>14. ExclusiveJobs'
    <2> SUFFICES ASSUME NEW a \in Slots, NEW b \in Slots, a # b,
                        slots'[a].kind = slots'[b].kind
                 PROVE  ExclusiveJobs!(a, b)!2'
      BY DEF ExclusiveJobs
    <2>1. CASE System(slots[s]) /\ s \in {a, b}
      <3>1. slots'[a].kind = None
        BY <2>1, <1>3, EmptyFields
      <3>2. QED
        BY <3>1
    <2>2. CASE ~(System(slots[s]) /\ s \in {a, b})
      <3>1. slots[a].kind = slots[b].kind
        BY <2>2, <1>3, <1>4
      <3>2. ExclusiveJobs!(a, b)!2
        BY <3>1 DEF ExclusiveJobs
      <3>3. \A t \in {a, b} : /\ slots'[t].kind = slots[t].kind
                              /\ slots'[t].source = slots[t].source
                              /\ slots[t].state = "completed" => slots'[t].state = "completed"
                              /\ Reusable(t) => Reusable(t)'
        BY <2>2, <1>3, <1>4, <1>6, <1>13
      <3>4. QED
        BY <3>2, <3>3
    <2>3. QED
      BY <2>1, <2>2
  <1>15. UserJobs' \subseteq UserJobs
    <2>1. System(slots[s]) => Reusable(s)'
      BY <1>3 DEF Reusable, Occupied
    <2>2. QED
      BY <2>1, <1>3, <1>13 DEF UserJobs
  <1>16. QED
    BY <1>8, <1>9, <1>10, <1>11, <1>12, <1>14, <1>15, CapacityKept

(* management_jobs_destroy frees the uploads that still wait. *)
LEMMA DestroyPreserves ==
  ASSUME IndInv, Destroy
  PROVE  IndInv'
  <1> USE DEF IndInv
  <1>1. /\ wpc = "exited" /\ wpc' = "joined"
        /\ heap' = heap \ {slots[s].content : s \in Slots}
        /\ slots' = [s \in Slots |-> Empty]
        /\ UNCHANGED <<next, work, verdict, valid, degraded, clock, stopping, delivered>>
    BY DEF Destroy, worldVars
  <1>2. work = Empty
    BY <1>1 DEF WorkInv, Busy
  <1>3. TypeInv'
    BY <1>1, EmptyType DEF TypeInv
  <1>4. SlotInv' /\ UniqueInv'
    BY <1>1, EmptyFields DEF SlotInv, UniqueInv, System
  <1>5. WorkInv'
    BY <1>1, <1>2 DEF WorkInv, Busy
  <1>6. UploadsHaveOwner'
    <2>1. heap' = {}
      BY <1>1, <1>2, EmptyFields DEF UploadsHaveOwner
    <2>2. \A s \in Slots : slots'[s].content = 0
      BY <1>1, EmptyFields
    <2>3. QED
      BY <1>1, <1>2, <2>1, <2>2, EmptyFields DEF UploadsHaveOwner
  <1>7. ExclusiveJobs'
    BY <1>1, EmptyFields DEF ExclusiveJobs
  <1>8. UserJobs' \subseteq UserJobs
    BY <1>1 DEF UserJobs, Reusable, Occupied
  <1>9. QED
    BY <1>3, <1>4, <1>5, <1>6, <1>7, <1>8, CapacityKept

(* A waiting job whose credential fell. *)
LostJob(q) == [q EXCEPT !.lost = TRUE]

(* A fallen credential changes nothing else of the slot. *)
LEMMA LostJobFields ==
  ASSUME NEW q \in Job
  PROVE  /\ LostJob(q) \in Job
         /\ LostJob(q).id = q.id /\ LostJob(q).kind = q.kind
         /\ LostJob(q).cred = q.cred /\ LostJob(q).source = q.source
         /\ LostJob(q).content = q.content /\ LostJob(q).state = q.state
         /\ LostJob(q).done = q.done /\ LostJob(q).observed = q.observed
  BY DEF LostJob, Job

(* A revocation never reaches the job that passed its second authorization. *)
LEMMA RevokePreserves ==
  ASSUME IndInv, NEW c \in Credentials, Revoke(c)
  PROVE  IndInv'
  <1> USE DEF IndInv
  <1> DEFINE Hit(t) == /\ slots[t].cred = c /\ slots[t].state = "queued"
                       /\ slots[t].id = work.id => wpc = "reauthorize"
  <1>0. slots \in [Slots -> Job]
    BY DEF TypeInv
  <1>1. /\ slots' = [s \in Slots |-> IF Hit(s) THEN LostJob(slots[s]) ELSE slots[s]]
        /\ valid' = valid \ {c}
        /\ UNCHANGED <<next, heap, wpc, work, verdict, degraded, clock, stopping, delivered>>
    BY Zenon DEF Revoke, LostJob, workerVars
  <1>2. \A t \in Slots :
          /\ slots'[t] \in Job
          /\ slots'[t].id = slots[t].id /\ slots'[t].kind = slots[t].kind
          /\ slots'[t].cred = slots[t].cred /\ slots'[t].source = slots[t].source
          /\ slots'[t].content = slots[t].content /\ slots'[t].state = slots[t].state
          /\ slots'[t].done = slots[t].done /\ slots'[t].observed = slots[t].observed
          /\ ~Hit(t) => slots'[t] = slots[t]
    BY <1>0, <1>1, LostJobFields
  <1>3. TypeInv'
    BY <1>1, <1>2 DEF TypeInv
  <1>4. \A t \in Slots : Hit(t) => slots[t] # Empty /\ slots'[t] # Empty
    BY <1>2, EmptyFields
  <1>5. SlotInv'
    <2> SUFFICES ASSUME NEW t \in Slots PROVE SlotInv!(t)'
      BY DEF SlotInv
    <2>1. SlotInv!(t)
      BY DEF SlotInv
    <2>2. slots'[t].lost => slots'[t].cred \notin valid' /\ ~System(slots'[t])
      <3>1. CASE Hit(t)
        BY <3>1, <2>1, <1>1, <1>2 DEF System
      <3>2. CASE ~Hit(t)
        BY <3>2, <2>1, <1>1, <1>2 DEF System
      <3>3. QED
        BY <3>1, <3>2
    <2>3. slots'[t].state = "running" => ~slots'[t].lost
      BY <2>1, <1>2
    <2>4. slots'[t] # Empty => slots[t] # Empty
      BY <1>2, <1>4
    <2>5. slots'[t].observed => slots'[t].id \in delivered'
      BY <2>1, <1>1, <1>2
    <2>6. QED
      BY <2>1, <2>2, <2>3, <2>4, <2>5, <1>1, <1>2 DEF System
  <1>6. UniqueInv'
    BY <1>2 DEF UniqueInv
  <1>7. WorkInv'
    <2>1. ASSUME NEW t \in Slots, slots[t].id = work.id, Agrees(t) PROVE Agrees(t)'
      <3>1. CASE wpc = "reauthorize"
        BY <2>1, <3>1, <1>1, <1>2 DEF Agrees
      <3>2. CASE wpc # "reauthorize"
        <4>1. slots'[t] = slots[t]
          BY <2>1, <3>2, <1>2
        <4>2. QED
          BY <2>1, <4>1, <1>1 DEF Agrees
      <3>3. QED
        BY <3>1, <3>2
    <2>2. QED
      BY <2>1, <1>1, <1>2 DEF WorkInv, Busy
  <1>8. UploadsHaveOwner'
    BY <1>1, <1>2 DEF UploadsHaveOwner
  <1>9. \A t \in Slots : Reusable(t)' <=> Reusable(t)
    <2> SUFFICES ASSUME NEW t \in Slots PROVE Reusable(t)' <=> Reusable(t)
      OBVIOUS
    <2>1. CASE Hit(t)
      BY <2>1, <1>1, <1>2, <1>4 DEF Reusable, Occupied
    <2>2. CASE ~Hit(t)
      BY <2>2, <1>1, <1>2 DEF Reusable, Occupied
    <2>3. QED
      BY <2>1, <2>2
  <1>10. ExclusiveJobs'
    BY <1>2, <1>9 DEF ExclusiveJobs
  <1>11. UserJobs' \subseteq UserJobs
    BY <1>2, <1>9 DEF UserJobs, System
  <1>12. QED
    BY <1>3, <1>5, <1>6, <1>7, <1>8, <1>10, <1>11, CapacityKept

(* A waiting job whose credential came back. *)
FoundJob(q) == [q EXCEPT !.lost = FALSE]

(* A credential that came back changes nothing else of the slot. *)
LEMMA FoundJobFields ==
  ASSUME NEW q \in Job
  PROVE  /\ FoundJob(q) \in Job
         /\ FoundJob(q).id = q.id /\ FoundJob(q).kind = q.kind
         /\ FoundJob(q).cred = q.cred /\ FoundJob(q).source = q.source
         /\ FoundJob(q).content = q.content /\ FoundJob(q).state = q.state
         /\ FoundJob(q).done = q.done /\ FoundJob(q).observed = q.observed
         /\ ~FoundJob(q).lost
  BY DEF FoundJob, Job

(* A credential given back absolves the jobs that lost it. *)
LEMMA RegrantPreserves ==
  ASSUME IndInv, NEW c \in Credentials, Regrant(c)
  PROVE  IndInv'
  <1> USE DEF IndInv
  <1> DEFINE Hit(t) == slots[t].lost /\ slots[t].cred = c
  <1>0. slots \in [Slots -> Job]
    BY DEF TypeInv
  <1>1. /\ slots' = [s \in Slots |-> IF Hit(s) THEN FoundJob(slots[s]) ELSE slots[s]]
        /\ valid' = valid \cup {c}
        /\ UNCHANGED <<next, heap, wpc, work, verdict, degraded, clock, stopping, delivered>>
    BY Zenon DEF Regrant, FoundJob, workerVars
  <1>2. \A t \in Slots :
          /\ slots'[t] \in Job
          /\ slots'[t].id = slots[t].id /\ slots'[t].kind = slots[t].kind
          /\ slots'[t].cred = slots[t].cred /\ slots'[t].source = slots[t].source
          /\ slots'[t].content = slots[t].content /\ slots'[t].state = slots[t].state
          /\ slots'[t].done = slots[t].done /\ slots'[t].observed = slots[t].observed
          /\ Hit(t) => ~slots'[t].lost
          /\ ~Hit(t) => slots'[t] = slots[t]
    BY <1>0, <1>1, FoundJobFields
  <1>3. TypeInv'
    BY <1>1, <1>2 DEF TypeInv
  <1>4. \A t \in Slots : Hit(t) => slots[t] # Empty /\ slots'[t] # Empty
    <2> SUFFICES ASSUME NEW t \in Slots, Hit(t)
                 PROVE  slots[t] # Empty /\ slots'[t] # Empty
      OBVIOUS
    <2>1. slots[t] # Empty
      BY EmptyFields
    <2>2. slots[t].id # 0
      BY <2>1 DEF SlotInv
    <2>3. QED
      BY <2>1, <2>2, <1>2, EmptyFields
  <1>5. SlotInv'
    <2> SUFFICES ASSUME NEW t \in Slots PROVE SlotInv!(t)'
      BY DEF SlotInv
    <2>1. SlotInv!(t)
      BY DEF SlotInv
    <2>2. slots'[t].lost => slots'[t].cred \notin valid' /\ ~System(slots'[t])
      <3>1. CASE Hit(t)
        BY <3>1, <2>1, <1>1, <1>2 DEF System
      <3>2. CASE ~Hit(t)
        BY <3>2, <2>1, <1>1, <1>2 DEF System
      <3>3. QED
        BY <3>1, <3>2
    <2>3. slots'[t].state = "running" => ~slots'[t].lost
      BY <2>1, <1>2
    <2>4. slots'[t] # Empty => slots[t] # Empty
      BY <1>2, <1>4
    <2>5. slots'[t].observed => slots'[t].id \in delivered'
      BY <2>1, <1>1, <1>2
    <2>6. QED
      BY <2>1, <2>2, <2>3, <2>4, <2>5, <1>1, <1>2 DEF System
  <1>6. UniqueInv'
    BY <1>2 DEF UniqueInv
  <1>7. WorkInv'
    <2>1. ASSUME NEW t \in Slots, slots[t].id = work.id, Agrees(t) PROVE Agrees(t)'
      BY <2>1, <1>1, <1>2 DEF Agrees
    <2>2. QED
      BY <2>1, <1>1, <1>2 DEF WorkInv, Busy
  <1>8. UploadsHaveOwner'
    BY <1>1, <1>2 DEF UploadsHaveOwner
  <1>9. \A t \in Slots : Reusable(t)' <=> Reusable(t)
    <2> SUFFICES ASSUME NEW t \in Slots PROVE Reusable(t)' <=> Reusable(t)
      OBVIOUS
    <2>1. CASE Hit(t)
      BY <2>1, <1>1, <1>2, <1>4 DEF Reusable, Occupied
    <2>2. CASE ~Hit(t)
      BY <2>2, <1>1, <1>2 DEF Reusable, Occupied
    <2>3. QED
      BY <2>1, <2>2
  <1>10. ExclusiveJobs'
    BY <1>2, <1>9 DEF ExclusiveJobs
  <1>11. UserJobs' \subseteq UserJobs
    BY <1>2, <1>9 DEF UserJobs, System
  <1>12. QED
    BY <1>3, <1>5, <1>6, <1>7, <1>8, <1>10, <1>11, CapacityKept

(* Time makes more slots reusable, never fewer. *)
LEMMA TickPreserves ==
  ASSUME IndInv, Tick
  PROVE  IndInv'
  <1> USE DEF IndInv
  <1>1. /\ clock' = clock + 1
        /\ UNCHANGED <<slots, next, heap, wpc, work, verdict, valid, degraded, stopping, delivered>>
    BY DEF Tick, queueVars, workerVars
  <1>2. TypeInv' /\ SlotInv' /\ UniqueInv' /\ UploadsHaveOwner'
    BY <1>1 DEF TypeInv, SlotInv, UniqueInv, UploadsHaveOwner, System
  <1>3. WorkInv'
    BY <1>1 DEF WorkInv, Busy, Agrees
  <1>4. \A t \in Slots : Reusable(t) => Reusable(t)'
    <2> SUFFICES ASSUME NEW t \in Slots, Reusable(t) PROVE Reusable(t)'
      OBVIOUS
    <2>1. slots[t].done \in Nat /\ clock \in Nat
      BY DEF TypeInv, Job
    <2>2. clock - slots[t].done >= Retention => clock' - slots[t].done >= Retention
      BY <1>1, <2>1
    <2>3. QED
      BY <1>1, <2>2 DEF Reusable, Occupied
  <1>5. ExclusiveJobs'
    BY <1>1, <1>4 DEF ExclusiveJobs
  <1>6. UserJobs' \subseteq UserJobs
    BY <1>1, <1>4 DEF UserJobs, System
  <1>7. QED
    BY <1>2, <1>3, <1>5, <1>6, CapacityKept

(* Shutting down, the exit of the worker and changes of health touch       *)
(* nothing the invariant speaks of but the worker's place.                 *)
LEMMA OthersPreserve ==
  ASSUME IndInv, Stop \/ WorkerExit \/ Health
  PROVE  IndInv'
  <1> USE DEF IndInv
  <1>1. /\ UNCHANGED <<slots, next, heap, work, verdict, valid, clock, delivered>>
        /\ wpc' = wpc \/ (wpc = "wait" /\ wpc' = "exited")
    BY DEF Stop, WorkerExit, Health, queueVars, workerVars, worldVars
  <1>2. stopping' \in BOOLEAN /\ degraded' \in BOOLEAN
    BY Zenon DEF Stop, WorkerExit, Health, worldVars, TypeInv
  <1>3. TypeInv'
    BY <1>1, <1>2 DEF TypeInv
  <1>4. SlotInv' /\ UploadsHaveOwner'
    BY <1>1 DEF SlotInv, UploadsHaveOwner, System
  <1>5. WorkInv'
    BY <1>1 DEF WorkInv, Busy, Agrees
  <1>6. QED
    BY <1>1, <1>3, <1>4, <1>5, QueueUntouched

(* The job a request builds. *)
LEMMA NewJobFields ==
  ASSUME TypeInv, NEW kind \in Kinds, NEW c \in Credentials \cup {Local},
         NEW source \in Sources \cup {None}, NEW content \in Nat,
         NEW j, j = NewJob(kind, c, source, content)
  PROVE  /\ j \in Job /\ j.id = next /\ j.kind = kind /\ j.state = "queued"
         /\ j.content = content /\ ~j.observed /\ ~j.lost
  BY DEF TypeInv, NewJob, Empty, Job

(* A request without an upload preserves the inductive invariant. *)
LEMMA RequestPreserves ==
  ASSUME IndInv, NEW kind \in Kinds \ {"scheduled"}, NEW c \in Credentials \cup {Local},
         NEW source \in Sources \cup {None}, Submit(NewJob(kind, c, source, 0))
  PROVE  IndInv'
  <1>1. PICK j : j = NewJob(kind, c, source, 0)
    OBVIOUS
  <1>2. Submit(j)
    BY <1>1
  <1>3. /\ j \in Job /\ j.id = next /\ j.kind = kind /\ j.state = "queued"
        /\ j.content = 0 /\ ~j.observed /\ ~j.lost
    BY <1>1, NewJobFields DEF IndInv
  <1>4. QED
    BY <1>2, <1>3, SubmitPreserves DEF System

(* An upload preserves the inductive invariant. *)
LEMMA ImportPreserves ==
  ASSUME IndInv, NEW c \in Credentials \cup {Local}, SubmitImport(c)
  PROVE  IndInv'
  <1>1. PICK j : j = NewJob("import", c, None, next)
    OBVIOUS
  <1>2. Submit(j)
    BY <1>1 DEF SubmitImport
  <1>3. PICK content : content = next
    OBVIOUS
  <1>4. /\ j \in Job /\ j.id = next /\ j.kind = "import" /\ j.state = "queued"
        /\ j.content = next /\ ~j.observed /\ ~j.lost
    <2>1. content \in Nat /\ "import" \in Kinds /\ None \in Sources \cup {None}
      BY <1>3 DEF IndInv, TypeInv, Kinds
    <2>2. j = NewJob("import", c, None, content)
      BY <1>1, <1>3
    <2>3. QED
      BY <1>3, <2>1, <2>2, NewJobFields DEF IndInv
  <1>5. QED
    BY <1>2, <1>4, SubmitPreserves DEF System

(* Every step preserves the inductive invariant. *)
LEMMA NextPreserves ==
  ASSUME IndInv, [Next]_vars
  PROVE  IndInv'
  <1>1. ASSUME NEW c \in Credentials \cup {Local}, NEW source \in Sources, SubmitRefresh(c, source)
        PROVE  IndInv'
    BY <1>1, RequestPreserves DEF SubmitRefresh, Kinds
  <1>2. ASSUME NEW c \in Credentials \cup {Local},
               SubmitBackup(c) \/ SubmitRestore(c) \/ SubmitDiagnostics(c) \/ SubmitCsr(c)
        PROVE  IndInv'
    <2>1. CASE SubmitBackup(c)
      BY <2>1, RequestPreserves DEF SubmitBackup, Kinds
    <2>2. CASE SubmitRestore(c)
      BY <2>2, RequestPreserves DEF SubmitRestore, Kinds
    <2>3. CASE SubmitDiagnostics(c)
      BY <2>3, RequestPreserves DEF SubmitDiagnostics, Kinds
    <2>4. CASE SubmitCsr(c)
      BY <2>4, RequestPreserves DEF SubmitCsr, Kinds
    <2>5. QED
      BY <1>2, <2>1, <2>2, <2>3, <2>4
  <1>3. CASE UNCHANGED vars
    BY <1>3 DEF vars, queueVars, workerVars, worldVars, IndInv, TypeInv, SlotInv, UniqueInv,
       WorkInv, Busy, Agrees, UploadsHaveOwner, ExclusiveJobs, CapInv, UserJobs, Reusable, Occupied
  <1>4. CASE Worker
    BY <1>4, TakePreserves, ReauthorizePreserves, StartPreserves, CompletePreserves,
       OthersPreserve
       DEF Worker
  <1>5. QED
    BY <1>1, <1>2, <1>3, <1>4, ImportPreserves, GetPreserves, ScheduledPreserves,
       OthersPreserve,
       DestroyPreserves, RevokePreserves, RegrantPreserves, TickPreserves DEF Next

(* The inductive invariant holds in every reachable state. *)
LEMMA Invariance == Spec => []IndInv
  BY InitIndInv, NextPreserves, PTL DEF Spec

(* The types of the queue and of the worker. *)
THEOREM TypeCorrect == Spec => []TypeOK
  <1>1. IndInv => TypeOK
    <2> SUFFICES ASSUME IndInv PROVE TypeOK
      OBVIOUS
    <2> USE DEF IndInv
    <2>1. ASSUME NEW s \in Slots PROVE Occupied(s) <=> slots[s].id \in 1 .. next - 1
      BY EmptyFields DEF Occupied, SlotInv, TypeInv
    <2>2. ASSUME NEW s \in Slots
          PROVE  /\ slots[s].kind \in Kinds \cup {None}
                 /\ slots[s].state \in {None, "queued", "running", "completed"}
      BY DEF TypeInv, Job
    <2>3. heap \subseteq 1 .. MaxJobs
      <3> SUFFICES ASSUME NEW x \in heap PROVE x \in 1 .. MaxJobs
        OBVIOUS
      <3>1. x # 0 /\ ((\E s \in Slots : slots[s].content = x) \/ work.content = x)
        BY DEF UploadsHaveOwner
      <3>2. next \in Nat /\ next <= MaxJobs + 1
        BY DEF TypeInv
      <3>3. ASSUME NEW s \in Slots, slots[s].content = x PROVE x \in 1 .. next - 1
        BY <3>1, <3>3, EmptyFields DEF SlotInv
      <3>4. ASSUME work.content = x PROVE x \in 1 .. next - 1
        BY <3>1, <3>4, EmptyFields DEF WorkInv
      <3>5. QED
        BY <3>1, <3>2, <3>3, <3>4
    <2>4. QED
      BY <2>1, <2>2, <2>3 DEF TypeOK, TypeInv
  <1>2. QED
    BY <1>1, Invariance, PTL

(* An uploaded list is allocated exactly as long as a slot or the worker's *)
(* copy names it: run_management_jobs and management_jobs_destroy free     *)
(* each once.                                                              *)
THEOREM UploadsFreedOnce == Spec => []UploadsHaveOwner
  <1>1. IndInv => UploadsHaveOwner
    BY DEF IndInv
  <1>2. QED
    BY <1>1, Invariance, PTL

(* Two jobs that check_job_conflict keeps apart are never both unfinished, *)
(* whatever the worker does between the two submissions.                   *)
THEOREM Exclusion == Spec => []ExclusiveJobs
  <1>1. IndInv => ExclusiveJobs
    BY DEF IndInv
  <1>2. QED
    BY <1>1, Invariance, PTL

(* A job whose session, account or permission fell while it waited is      *)
(* stopped by reauthorize_management_job: it never runs.                   *)
THEOREM NoRevokedJobRuns == Spec => []RevokedJobsNeverRun
  <1>1. IndInv => RevokedJobsNeverRun
    BY DEF IndInv, SlotInv, RevokedJobsNeverRun
  <1>2. QED
    BY <1>1, Invariance, PTL

(* check_job_capacity counts the jobs of users so that select_job_slot     *)
(* always finds a slot for the scheduled scan.                             *)
THEOREM SlotForTheScan == Spec => []SystemSlotReserved
  <1>1. IndInv => SystemSlotReserved
    <2> SUFFICES ASSUME IndInv, \A s \in Slots : ~System(slots[s])
                 PROVE  \E s \in Slots : Reusable(s)
      BY DEF SystemSlotReserved
    <2>1. Cardinality(UserJobs) # Cardinality(Slots)
      BY SlotsFinite, FS_Subset, FS_CardinalityType DEF IndInv, CapInv, UserCapacity, UserJobs
    <2>2. UserJobs # Slots
      BY <2>1
    <2>3. QED
      BY <2>2 DEF UserJobs
  <1>2. QED
    BY <1>1, Invariance, PTL

(* select_job_slot gives up a slot only when its job is done and its       *)
(* result was read by handle_job_get or is older than the retention.       *)
THEOREM ResultsKept == Spec => ResultsAreKept
  <1> DEFINE Kept(s) ==
        /\ Occupied(s) /\ slots'[s].id # slots[s].id
        /\ ~System(slots[s]) /\ ~Destroy
        => /\ slots[s].state = "completed"
           /\ slots[s].id \in delivered \/ clock - slots[s].done >= Retention
  <1>1. ASSUME IndInv, Next PROVE \A s \in Slots : Kept(s)
    <2> USE <1>1 DEF IndInv
    <2>0. slots \in [Slots -> Job]
      BY DEF TypeInv
    <2>1. ASSUME NEW s \in Slots, NEW j, Selected(s), Accept(s, j)
          PROVE  \A t \in Slots : Kept(t)
      <3>1. \A t \in Slots \ {s} : slots'[t] = slots[t]
        BY <2>0, <2>1 DEF Accept
      <3>2. Occupied(s) => /\ slots[s].state = "completed"
                           /\ slots[s].observed \/ clock - slots[s].done >= Retention
        BY <2>1 DEF Selected, Reusable
      <3>3. slots[s].observed => slots[s].id \in delivered
        BY DEF SlotInv
      <3>4. QED
        BY <3>1, <3>2, <3>3
    <2>2. ASSUME \A t \in Slots : slots'[t].id = slots[t].id
          PROVE  \A t \in Slots : Kept(t)
      BY <2>2
    <2>3. ASSUME NEW c \in Credentials \cup {Local}, NEW kind, NEW src, NEW content,
                 Submit(NewJob(kind, c, src, content))
          PROVE  \A t \in Slots : Kept(t)
      <3>1. CASE UNCHANGED queueVars
        BY <3>1, <2>2 DEF queueVars
      <3>2. CASE \E s \in Slots : Selected(s) /\ Accept(s, NewJob(kind, c, src, content))
        BY <3>2, <2>1
      <3>3. QED
        BY <2>3, <3>1, <3>2 DEF Submit
    <2>4. ASSUME NEW c \in Credentials \cup {Local}, NEW source \in Sources, SubmitRefresh(c, source)
          PROVE  \A t \in Slots : Kept(t)
      BY <2>3, <2>4 DEF SubmitRefresh
    <2>5. ASSUME NEW c \in Credentials \cup {Local},
                 \/ SubmitBackup(c) \/ SubmitRestore(c)
                 \/ SubmitDiagnostics(c) \/ SubmitCsr(c)
          PROVE  \A t \in Slots : Kept(t)
      BY <2>3, <2>5 DEF SubmitBackup, SubmitRestore, SubmitDiagnostics, SubmitCsr
    <2>6. ASSUME NEW c \in Credentials \cup {Local}, SubmitImport(c)
          PROVE  \A t \in Slots : Kept(t)
      <3>1. PICK content : content = next
        OBVIOUS
      <3>2. Submit(NewJob("import", c, None, content))
        BY <2>6, <3>1 DEF SubmitImport
      <3>3. QED
        BY <2>3, <3>2
    <2>7. CASE SubmitScheduled
      <3>1. PICK s \in Slots : Selected(s) /\ Accept(s, NewJob("scheduled", None, None, 0))
        BY <2>7 DEF SubmitScheduled
      <3>2. QED
        BY <2>1, <3>1
    <2>8. ASSUME NEW c, Get(c) PROVE \A t \in Slots : Kept(t)
      <3>1. PICK s \in Slots : slots' = [slots EXCEPT ![s].observed = TRUE]
        BY <2>8 DEF Get
      <3>2. slots' = [slots EXCEPT ![s] = ObservedJob(slots[s])]
        BY <2>0, <3>1 DEF ObservedJob
      <3>3. \A t \in Slots : slots'[t].id = slots[t].id
        BY <2>0, <3>2, ObservedJobFields
      <3>4. QED
        BY <2>2, <3>3
    <2>9. CASE Start
      <3>1. PICK s \in Slots :
              slots' = [slots EXCEPT ![s].state = IF verdict = "ok" THEN "running" ELSE @,
                                     ![s].content = 0]
        BY <2>9, Zenon DEF Start, Held
      <3>2. slots' = [slots EXCEPT ![s] = StartedJob(slots[s])]
        BY <2>0, <3>1 DEF StartedJob
      <3>3. \A t \in Slots : slots'[t].id = slots[t].id
        BY <2>0, <3>2, StartedJobFields
      <3>4. QED
        BY <2>2, <3>3
    <2>10. CASE Complete
      <3>1. PICK s \in Slots :
              slots' = [slots EXCEPT ![s] =
                 IF System(@) THEN Empty ELSE [@ EXCEPT !.state = "completed", !.done = clock]]
        BY <2>10, Zenon DEF Complete, Held
      <3>2. slots' = [slots EXCEPT ![s] =
                 IF System(slots[s]) THEN Empty ELSE CompletedJob(slots[s])]
        BY <3>1, Zenon DEF CompletedJob
      <3>3. \A t \in Slots : ~System(slots[t]) => slots'[t].id = slots[t].id
        BY <2>0, <3>2, CompletedJobFields DEF TypeInv
      <3>4. QED
        BY <3>3
    <2>11. ASSUME NEW c \in Credentials, Revoke(c) PROVE \A t \in Slots : Kept(t)
      <3>1. \A t \in Slots : slots'[t] = slots[t] \/ slots'[t] = LostJob(slots[t])
        BY <2>11, Zenon DEF Revoke, LostJob
      <3>2. \A t \in Slots : slots'[t].id = slots[t].id
        BY <2>0, <3>1, LostJobFields
      <3>3. QED
        BY <2>2, <3>2
    <2>12. CASE Destroy
      BY <2>12
    <2>15. ASSUME NEW c \in Credentials, Regrant(c) PROVE \A t \in Slots : Kept(t)
      <3>1. \A t \in Slots : slots'[t] = slots[t] \/ slots'[t] = FoundJob(slots[t])
        BY <2>15, Zenon DEF Regrant, FoundJob
      <3>2. \A t \in Slots : slots'[t].id = slots[t].id
        BY <2>0, <3>1, FoundJobFields
      <3>3. QED
        BY <2>2, <3>2
    <2>13. CASE Take \/ Reauthorize \/ WorkerExit \/ Stop \/ Health \/ Tick
      BY <2>2, <2>13 DEF Take, Reauthorize, WorkerExit, Stop, Health, Tick, queueVars
    <2>14. QED
      BY <2>4, <2>5, <2>6, <2>7, <2>8, <2>9, <2>10, <2>11, <2>12, <2>13, <2>15
         DEF Next, Worker
  <1>2. ASSUME IndInv, [Next]_vars PROVE [\A s \in Slots : Kept(s)]_vars
    BY <1>1, <1>2
  <1>3. QED
    BY <1>2, Invariance, PTL DEF Spec, ResultsAreKept


-----------------------------------------------------------------------------
(* The blocklist sources *)

(* A row of blocklist_sources as the statements of database_blocklist.c    *)
(* leave it: all its columns, and an origin no newer than the row.         *)
RowFields ==
  {"config", "revision", "etag", "modified", "success", "next", "failures", "active",
   "health", "entries", "born", "origin", "checked"}

IsRow(row) ==
  /\ row = [field \in RowFields |-> row[field]]
  /\ row.revision \in Nat \ {0} /\ row.modified \in Nat /\ row.born \in Int
  /\ row.config.server \in Servers \cup {LocalServer}
  /\ row.active \in BOOLEAN /\ row.origin.own \in BOOLEAN
  /\ row.origin.revision \in 0 .. row.revision

(* Validators that go with a body: an entity tag is that of the body, a    *)
(* date alone is that of a version no newer than the one there is, and of  *)
(* the body if it is that version.                                         *)
ValidatorsOf(state, config, body) ==
  /\ state.etag # NoTag => state.etag = body
  /\ state.etag = NoTag /\ state.modified # NoDate =>
       /\ state.modified <= served[config.server].version
       /\ state.modified = served[config.server].version
            => served[config.server].document.body = body

(* What ListIsWhatWasServed says of a row, and the validators it needs for *)
(* the next conditional request.                                           *)
ListOf(row) ==
  /\ row.origin.config = row.config
  /\ row.entries = Import(row.checked, row.config.mode).entries
  /\ Import(row.checked, row.config.mode).result = "ok"
  /\ Remote(row) => Verified(row.config, row.checked)

SoundRow(row) ==
  Untouched(row) =>
    ListOf(row) /\ (Remote(row) => ValidatorsOf(row, row.config, row.checked))

RowsInv ==
  /\ rows = [id \in Ids |-> rows[id]]
  /\ \A id \in Ids : rows[id] = NoRow \/ (IsRow(rows[id]) /\ SoundRow(rows[id]))

ServedInv ==
  /\ served = [s \in Servers |-> served[s]]
  /\ \A s \in Servers :
       /\ served[s] = [document |-> served[s].document, version |-> served[s].version]
       /\ served[s].version \in Nat \ {0}

SourceJobs ==
  [kind : {"round"}] \cup [kind : {"refresh"}, id : Ids, revision : Nat]
    \cup [kind : {"import"}, id : Ids, revision : Nat, body : Uploads]

SourceTargets == [id : Ids, revision : Nat]

JobsInv ==
  /\ queue \in Seq(SourceJobs)
  /\ worker.phase \in {"idle", "load", "fetch", "store"}
  /\ worker.phase # "idle" => worker.targets \in Seq(SourceTargets) /\ worker.targets # <<>>

(* While a download runs, the row that was read is the row there is, or an *)
(* older revision of it, or the row there is was created since and has no  *)
(* list yet.                                                               *)
LoadedInv ==
  worker.phase \in {"fetch", "store"} =>
    LET source == worker.source
        row == rows[Target.id]
    IN /\ IsRow(source) /\ SoundRow(source)
       /\ source.revision = Target.revision
       /\ worker.kind = "import" <=> ~Remote(source)
       /\ row # NoRow =>
            IF row.born = source.born
            THEN source.revision <= row.revision /\ (source.revision = row.revision => row = source)
            ELSE ~row.active

(* What an attempt brings to its transaction. *)
OutcomeInv ==
  worker.phase = "store" =>
    LET source == worker.source
        state == worker.state
    IN /\ worker.status \in {"updated", "not_modified", "failed"}
       /\ state.modified \in Nat
       /\ worker.status = "updated" =>
            /\ worker.checked = worker.body
            /\ Import(worker.body, source.config.mode).result = "ok"
            /\ Remote(source) => /\ Verified(source.config, worker.body)
                                 /\ ValidatorsOf(state, source.config, worker.body)
       /\ worker.status = "not_modified" =>
            /\ Remote(source)
            /\ Untouched(source) => /\ worker.checked = source.checked
                                    /\ ValidatorsOf(state, source.config, source.checked)
       /\ worker.status = "failed" /\ Remote(source) =>
            state.etag = source.etag /\ state.modified = source.modified

SourcesInv == RowsInv /\ ServedInv /\ JobsInv /\ LoadedInv /\ OutcomeInv

-----------------------------------------------------------------------------
(* Rows *)

(* A source that was just created is well formed and has no list. *)
LEMMA NewSourceIsRow ==
  ASSUME NEW config, config.server \in Servers \cup {LocalServer}, NEW born \in Int
  PROVE  IsRow(NewSource(config, born)) /\ ~NewSource(config, born).active
  <1>1. PICK row : row = NewSource(config, born)
    OBVIOUS
  <1>2. /\ row.config = config /\ row.revision = 1 /\ row.modified = 0
        /\ row.born = born /\ row.active = FALSE
        /\ row.origin = [config |-> config, own |-> FALSE, revision |-> 0]
    BY <1>1 DEF NewSource, NoDate
  <1>3. row.origin.own = FALSE /\ row.origin.revision = 0
    BY <1>2
  <1>4. row = [field \in RowFields |-> row[field]]
    BY <1>1 DEF NewSource, RowFields
  <1>5. row.active \in BOOLEAN /\ row.origin.own \in BOOLEAN
    BY <1>2, <1>3, Zenon
  <1>6. /\ row.revision \in Nat \ {0} /\ row.modified \in Nat /\ row.born \in Int
        /\ row.origin.revision \in 0 .. row.revision
    BY <1>2, <1>3
  <1>7. IsRow(row)
    BY <1>2, <1>4, <1>5, <1>6 DEF IsRow
  <1>8. QED
    BY <1>1, <1>2, <1>7

(* What the columns are after an outcome was stored. *)
LEMMA StatusIs ==
  ASSUME NEW row, IsRow(row), NEW state, NEW stored, stored = Status(row, state)
  PROVE  /\ stored = [field \in RowFields |-> stored[field]]
         /\ stored.etag = state.etag /\ stored.modified = state.modified
         /\ stored.config = row.config /\ stored.revision = row.revision
         /\ stored.active = row.active /\ stored.entries = row.entries
         /\ stored.born = row.born /\ stored.origin = row.origin
         /\ stored.checked = row.checked
  <1>1. row = [field \in RowFields |-> row[field]]
    BY DEF IsRow
  <1>2. QED
    BY <1>1 DEF Status, RowFields

(* The validators of a body stay its validators when the server has a new  *)
(* document, whose version has a later date.                               *)
LEMMA ValidatorsStay ==
  ASSUME ServedInv, Republish \/ UNCHANGED served,
         NEW state, state.modified \in Nat, NEW config, config.server \in Servers, NEW body,
         ValidatorsOf(state, config, body)
  PROVE  ValidatorsOf(state, config, body)'
  <1>1. CASE UNCHANGED served
    BY <1>1 DEF ValidatorsOf
  <1>2. CASE Republish
    <2>1. PICK s \in Servers, d \in UNION {Documents[t] : t \in Servers} :
            served' = [served EXCEPT ![s] = [document |-> d, version |-> @.version + 1]]
      BY <1>2 DEF Republish
    <2>2. CASE config.server = s
      <3>1. served'[s] = [document |-> d, version |-> served[s].version + 1]
        BY <2>1 DEF ServedInv
      <3>2. served'[s].version = served[s].version + 1 /\ served[s].version \in Nat
        BY <3>1 DEF ServedInv
      <3>3. QED
        BY <2>2, <3>2 DEF ValidatorsOf
    <2>3. CASE config.server # s
      <3>1. served'[config.server] = served[config.server]
        BY <2>1, <2>3 DEF ServedInv
      <3>2. QED
        BY <3>1 DEF ValidatorsOf
    <2>4. QED
      BY <2>2, <2>3
  <1>3. QED
    BY <1>1, <1>2

(* ... so a sound row stays sound. *)
LEMMA SoundStays ==
  ASSUME ServedInv, Republish \/ UNCHANGED served, NEW row, IsRow(row), SoundRow(row)
  PROVE  SoundRow(row)'
  <1>1. CASE ~Untouched(row)
    BY <1>1 DEF SoundRow, Untouched
  <1>2. CASE Untouched(row) /\ ~Remote(row)
    BY <1>2 DEF SoundRow, Untouched, Remote, ListOf, Verified
  <1>3. CASE Untouched(row) /\ Remote(row)
    <2>1. ListOf(row) /\ ValidatorsOf(row, row.config, row.checked)
      BY <1>3 DEF SoundRow
    <2>2. row.config.server \in Servers /\ row.modified \in Nat
      BY <1>3 DEF IsRow, Remote
    <2>3. ValidatorsOf(row, row.config, row.checked)'
      BY <2>1, <2>2, ValidatorsStay
    <2>4. QED
      BY <2>1, <2>3 DEF SoundRow, ListOf
  <1>4. QED
    BY <1>1, <1>2, <1>3

(* The versions of documents only grow. *)
LEMMA ServedInvStays ==
  ASSUME ServedInv, Republish \/ UNCHANGED served
  PROVE  ServedInv'
  <1>1. CASE UNCHANGED served
    BY <1>1 DEF ServedInv
  <1>2. CASE Republish
    <2>1. PICK s \in Servers, d \in UNION {Documents[t] : t \in Servers} :
            served' = [served EXCEPT ![s] = [document |-> d, version |-> @.version + 1]]
      BY <1>2 DEF Republish
    <2>2. served'[s] = [document |-> d, version |-> served[s].version + 1]
      BY <2>1 DEF ServedInv
    <2>3. \A t \in Servers : t # s => served'[t] = served[t]
      BY <2>1 DEF ServedInv
    <2>4. served' = [t \in Servers |-> served'[t]]
      BY <2>1 DEF ServedInv
    <2>5. served'[s].version \in Nat \ {0}
      BY <2>2 DEF ServedInv
    <2>6. served'[s] = [document |-> served'[s].document, version |-> served'[s].version]
      BY <2>2
    <2>7. QED
      BY <2>3, <2>4, <2>5, <2>6 DEF ServedInv
  <1>3. QED
    BY <1>1, <1>2

-----------------------------------------------------------------------------
(* Edits of the control thread *)

(* The job thread is at a target unless it is idle. *)
LEMMA TargetIs ==
  ASSUME JobsInv, worker.phase # "idle"
  PROVE  Target \in SourceTargets /\ Target.id \in Ids /\ Target.revision \in Nat
  <1>1. PICK targets : targets = worker.targets
    OBVIOUS
  <1>2. targets \in Seq(SourceTargets) /\ targets # <<>>
    BY <1>1 DEF JobsInv
  <1>3. Head(targets) \in SourceTargets
    BY <1>2, HeadTailProperties
  <1>4. QED
    BY <1>1, <1>3 DEF Target, SourceTargets

(* A row is put in place of another: the running download was for another  *)
(* source, or for an older revision, or for one that is gone.              *)
LEMMA EditPreserves ==
  ASSUME SourcesInv, NEW id \in Ids, NEW row, Edit(id, row),
         row = NoRow \/ (IsRow(row) /\ SoundRow(row)),
         worker.phase \in {"fetch", "store"} /\ Target.id = id /\ row # NoRow =>
           IF row.born = worker.source.born THEN worker.source.revision < row.revision
           ELSE ~row.active
  PROVE  SourcesInv'
  <1>1. rows' = [rows EXCEPT ![id] = row] /\ UNCHANGED <<served, queue, worker>>
    BY DEF Edit
  <1>2. ServedInv' /\ JobsInv'
    BY <1>1 DEF SourcesInv, ServedInv, JobsInv
  <1>3. rows' = [i \in Ids |-> rows'[i]] /\ rows'[id] = row
        /\ \A i \in Ids : i # id => rows'[i] = rows[i]
    BY <1>1 DEF SourcesInv, RowsInv
  <1>4. \A r : IsRow(r) /\ SoundRow(r) => SoundRow(r)'
    BY <1>1, SoundStays DEF SourcesInv
  <1>5. RowsInv'
    BY <1>3, <1>4 DEF SourcesInv, RowsInv, IsRow
  <1>6. LoadedInv'
    <2> SUFFICES ASSUME worker.phase \in {"fetch", "store"} PROVE LoadedInv'
      BY <1>1 DEF LoadedInv
    <2>1. Target' = Target /\ worker' = worker /\ Target.id \in Ids
      <3>1. worker' = worker
        BY <1>1
      <3>2. Target.id \in Ids
        BY TargetIs DEF SourcesInv
      <3>3. QED
        BY <3>1, <3>2 DEF Target
    <2>2. PICK source : source = worker.source
      OBVIOUS
    <2>3. /\ IsRow(source) /\ SoundRow(source) /\ source.revision = Target.revision
          /\ worker.kind = "import" <=> ~Remote(source)
      BY <2>2 DEF SourcesInv, LoadedInv
    <2>4. SoundRow(source)'
      BY <2>3, <1>4
    <2>5. rows'[Target.id] # NoRow =>
            IF rows'[Target.id].born = source.born
            THEN /\ source.revision <= rows'[Target.id].revision
                 /\ source.revision = rows'[Target.id].revision => rows'[Target.id] = source
            ELSE ~rows'[Target.id].active
      <3>1. CASE Target.id = id
        BY <3>1, <1>3, <2>2, <2>3 DEF IsRow
      <3>2. CASE Target.id # id
        BY <3>2, <1>3, <2>1, <2>2 DEF SourcesInv, LoadedInv
      <3>3. QED
        BY <3>1, <3>2
    <2>6. QED
      BY <2>1, <2>2, <2>3, <2>4, <2>5 DEF LoadedInv
  <1>7. OutcomeInv'
    BY <1>1 DEF SourcesInv, OutcomeInv, ValidatorsOf, Untouched, Remote, Verified
  <1>8. QED
    BY <1>2, <1>5, <1>6, <1>7 DEF SourcesInv

(* A new source has a mark that tells it from the one a download is for.   *)
LEMMA CreatePreserves == SourcesInv /\ Create => SourcesInv'
  <1> SUFFICES ASSUME SourcesInv, Create PROVE SourcesInv'
    OBVIOUS
  <1>0. PICK born :
          born = IF worker.phase \in {"fetch", "store"} /\ Head(worker.targets).id = NewId
                 THEN 1 - worker.source.born ELSE 0
    OBVIOUS
  <1>1. PICK config \in Configs : NewId \in Ids /\ Edit(NewId, NewSource(config, born))
    BY <1>0 DEF Create
  <1>2. config.server \in Servers \cup {LocalServer}
    BY <1>1, SourcesValid
  <1>3. born \in Int /\
        (worker.phase \in {"fetch", "store"} /\ Target.id = NewId => born # worker.source.born)
    <2>1. CASE worker.phase \in {"fetch", "store"}
      <3>1. worker.source.born \in Int
        BY <2>1 DEF SourcesInv, LoadedInv, IsRow
      <3>2. QED
        BY <1>0, <3>1 DEF Target
    <2>2. CASE worker.phase \notin {"fetch", "store"}
      BY <1>0, <2>2
    <2>3. QED
      BY <2>1, <2>2
  <1>4. PICK row : row = NewSource(config, born)
    OBVIOUS
  <1>5. IsRow(row) /\ ~row.active /\ row.born = born
    BY <1>2, <1>3, <1>4, NewSourceIsRow DEF NewSource
  <1>6. SoundRow(row)
    BY <1>5 DEF SoundRow, Untouched
  <1>7. QED
    BY <1>1, <1>3, <1>4, <1>5, <1>6, EditPreserves

(* An edit leaves the status alone, but no list is that of the new         *)
(* revision.                                                               *)
LEMMA UpdatePreserves == SourcesInv /\ Update => SourcesInv'
  <1> SUFFICES ASSUME SourcesInv, Update PROVE SourcesInv'
    OBVIOUS
  <1>1. PICK id \in Ids, config \in Configs :
          /\ Exists(id)
          /\ Edit(id, [rows[id] EXCEPT !.config = config, !.revision = @ + 1])
    BY Zenon DEF Update
  <1>2. config.server \in Servers \cup {LocalServer}
    BY <1>1, SourcesValid
  <1>3. IsRow(rows[id])
    BY <1>1 DEF SourcesInv, RowsInv, Exists, NoRow
  <1>4. PICK row : row = [rows[id] EXCEPT !.config = config, !.revision = @ + 1]
    OBVIOUS
  <1>5. rows[id] = [field \in RowFields |-> rows[id][field]]
    BY <1>3 DEF IsRow
  <1>6. /\ row = [field \in RowFields |-> row[field]]
        /\ row.config = config /\ row.revision = rows[id].revision + 1
        /\ row.modified = rows[id].modified /\ row.born = rows[id].born
        /\ row.active = rows[id].active /\ row.origin = rows[id].origin
    BY <1>4, <1>5 DEF RowFields
  <1>7. IsRow(row) /\ row.origin.revision # row.revision
    BY <1>2, <1>3, <1>6 DEF IsRow
  <1>8. SoundRow(row)
    BY <1>7 DEF SoundRow, Untouched
  <1>9. worker.phase \in {"fetch", "store"} /\ Target.id = id =>
          IF row.born = worker.source.born THEN worker.source.revision < row.revision
          ELSE ~row.active
    BY <1>3, <1>6 DEF SourcesInv, LoadedInv, IsRow, NoRow
  <1>10. QED
    BY <1>1, <1>4, <1>7, <1>8, <1>9, EditPreserves

LEMMA DeletePreserves == SourcesInv /\ Delete => SourcesInv'
  BY EditPreserves DEF Delete

-----------------------------------------------------------------------------
(* Jobs *)

(* What neither the job thread nor the rows take part in. *)
LEMMA EnvironmentPreserves ==
  ASSUME SourcesInv, UNCHANGED <<rows, worker>>, Republish \/ UNCHANGED served,
         queue' \in Seq(SourceJobs)
  PROVE  SourcesInv'
  <1>1. rows' = rows /\ worker' = worker
    OBVIOUS
  <1>2. \A r : IsRow(r) /\ SoundRow(r) => SoundRow(r)'
    BY SoundStays DEF SourcesInv
  <1>3. RowsInv'
    BY <1>1, <1>2 DEF SourcesInv, RowsInv
  <1>4. ServedInv'
    BY ServedInvStays DEF SourcesInv
  <1>5. JobsInv'
    BY <1>1 DEF SourcesInv, JobsInv
  <1>6. LoadedInv'
    BY <1>1, <1>2 DEF SourcesInv, LoadedInv, Target, Remote
  <1>7. OutcomeInv'
    <2> SUFFICES ASSUME worker.phase = "store" PROVE OutcomeInv'
      BY <1>1 DEF OutcomeInv
    <2>1. PICK source, state : source = worker.source /\ state = worker.state
      OBVIOUS
    <2>2. IsRow(source) /\ state.modified \in Nat
      BY <2>1 DEF SourcesInv, LoadedInv, OutcomeInv
    <2>3. Remote(source) => source.config.server \in Servers
      BY <2>2 DEF IsRow, Remote
    <2>4. \A body : Remote(source) /\ ValidatorsOf(state, source.config, body)
                      => ValidatorsOf(state, source.config, body)'
      BY <2>2, <2>3, ValidatorsStay DEF SourcesInv
    <2>5. QED
      BY <1>1, <2>1, <2>4 DEF SourcesInv, OutcomeInv, Untouched, Remote, Verified
  <1>8. QED
    BY <1>3, <1>4, <1>5, <1>6, <1>7 DEF SourcesInv

LEMMA SubmitJobPreserves ==
  ASSUME SourcesInv, NEW job \in SourceJobs, SubmitJob(job)
  PROVE  SourcesInv'
  <1>1. queue' \in Seq(SourceJobs)
    BY DEF SubmitJob, SourcesInv, JobsInv
  <1>2. QED
    BY <1>1, EnvironmentPreserves DEF SubmitJob

LEMMA RevisionIs ==
  ASSUME SourcesInv, NEW id \in Ids, Exists(id)
  PROVE  rows[id].revision \in Nat
  BY DEF SourcesInv, RowsInv, IsRow, Exists, NoRow

LEMMA RequestJobPreserves == SourcesInv /\ (RequestRefresh \/ RequestImport \/ Schedule) => SourcesInv'
  <1> SUFFICES ASSUME SourcesInv, RequestRefresh \/ RequestImport \/ Schedule PROVE SourcesInv'
    OBVIOUS
  <1>1. CASE RequestRefresh
    <2>1. PICK id \in Ids : /\ Exists(id)
            /\ SubmitJob([kind |-> "refresh", id |-> id, revision |-> rows[id].revision])
      BY <1>1 DEF RequestRefresh
    <2>2. [kind |-> "refresh", id |-> id, revision |-> rows[id].revision] \in SourceJobs
      BY <2>1, RevisionIs DEF SourceJobs
    <2>3. QED
      BY <2>1, <2>2, SubmitJobPreserves
  <1>2. CASE RequestImport
    <2>1. PICK id \in Ids, body \in Uploads : /\ Exists(id)
            /\ SubmitJob([kind |-> "import", id |-> id, revision |-> rows[id].revision,
                          body |-> body])
      BY <1>2 DEF RequestImport
    <2>2. [kind |-> "import", id |-> id, revision |-> rows[id].revision, body |-> body]
            \in SourceJobs
      BY <2>1, RevisionIs DEF SourceJobs
    <2>3. QED
      BY <2>1, <2>2, SubmitJobPreserves
  <1>3. CASE Schedule
    <2>1. [kind |-> "round"] \in SourceJobs
      BY DEF SourceJobs
    <2>2. QED
      BY <1>3, <2>1, SubmitJobPreserves DEF Schedule
  <1>4. QED
    BY <1>1, <1>2, <1>3

LEMMA OutsidePreserves ==
  ASSUME SourcesInv, Second \/ Republish \/ Desynchronize \/ Reload
  PROVE  SourcesInv'
  <1>1. UNCHANGED <<rows, worker, queue>> /\ (Republish \/ UNCHANGED served)
    BY DEF Second, Republish, Desynchronize, Reload
  <1>2. queue' \in Seq(SourceJobs)
    BY <1>1 DEF SourcesInv, JobsInv
  <1>3. QED
    BY <1>1, <1>2, EnvironmentPreserves

(* Between two downloads the job thread holds nothing of any row. *)
LEMMA IdlePreserves ==
  ASSUME SourcesInv, RowsInv', UNCHANGED served, queue' \in Seq(SourceJobs),
         worker'.phase \in {"idle", "load"},
         worker'.phase = "load" =>
           worker'.targets \in Seq(SourceTargets) /\ worker'.targets # <<>>
  PROVE  SourcesInv'
  <1>1. ServedInv'
    BY ServedInvStays DEF SourcesInv
  <1>2. JobsInv'
    BY DEF JobsInv
  <1>3. LoadedInv' /\ OutcomeInv'
    BY DEF LoadedInv, OutcomeInv
  <1>4. QED
    BY <1>1, <1>2, <1>3 DEF SourcesInv

LEMMA RowsStay ==
  ASSUME SourcesInv, UNCHANGED <<rows, served>>
  PROVE  RowsInv'
  <1>1. \A r : IsRow(r) /\ SoundRow(r) => SoundRow(r)'
    BY SoundStays DEF SourcesInv
  <1>2. QED
    BY <1>1 DEF SourcesInv, RowsInv

LEMMA CrashPreserves == SourcesInv /\ Crash => SourcesInv'
  <1> SUFFICES ASSUME SourcesInv, Crash PROVE SourcesInv'
    OBVIOUS
  <1>1. queue' = <<>> /\ worker' = Idle /\ UNCHANGED <<rows, served>>
    BY DEF Crash
  <1>2. worker'.phase = "idle" /\ queue' \in Seq(SourceJobs)
    BY <1>1 DEF Idle
  <1>3. QED
    BY <1>1, <1>2, RowsStay, IdlePreserves

-----------------------------------------------------------------------------
(* The listing of a round *)

(* A set of numbers that is not empty has a least member. *)
LEMMA LeastNumber ==
  ASSUME NEW N \in SUBSET Nat, N # {}
  PROVE  \E n \in N : \A m \in N : n <= m
  <1>1. PICK n \in N : \A m \in N : ~ (<<m, n>> \in OpToRel(<, Nat))
    BY WFMin, NatLessThanWellFounded
  <1>2. \A m \in N : ~ (m < n)
    BY <1>1 DEF OpToRel
  <1>3. QED
    BY <1>2

UpTo(S, n) == {e \in S : e <= n}

(* Every place of the listing has its member. *)
LEMMA RankExists ==
  ASSUME NEW m \in Nat, NEW S, S \subseteq 1 .. m,
         NEW i \in Nat, i # 0, i <= Cardinality(S)
  PROVE  \E d \in S : Cardinality(UpTo(S, d)) = i
  <1> DEFINE upto(n) == {e \in S : e <= n}
             size(n) == Cardinality(upto(n))
  <1>1. \A e \in S : e \in Nat /\ 1 <= e /\ e <= m
    OBVIOUS
  <1>2. IsFiniteSet(S)
    <2>1. IsFiniteSet(1 .. m)
      BY FS_Interval
    <2>2. QED
      BY <2>1, FS_Subset
  <1>3. \A n \in Nat : IsFiniteSet(upto(n)) /\ size(n) \in Nat
    <2>1. \A n : upto(n) \subseteq S
      OBVIOUS
    <2>2. QED
      BY <1>2, <2>1, FS_Subset, FS_CardinalityType
  <1>4. upto(m) = S
    BY <1>1
  <1>5. upto(0) = {}
    <2>1. \A e \in S : ~(e <= 0)
      BY <1>1
    <2>2. QED
      BY <2>1, Zenon
  <1>6. size(0) = 0
    BY <1>5, FS_EmptySet
  <1>7. ASSUME NEW n \in Nat, n # 0
        PROVE  /\ n - 1 \in Nat
               /\ n \notin S => size(n) = size(n - 1)
               /\ size(n) <= size(n - 1) + 1
    <2>1. n - 1 \in Nat
      BY <1>7
    <2>2. CASE n \notin S
      <3>1. \A e \in S : e <= n <=> e <= n - 1
        BY <1>1, <2>2
      <3>2. upto(n) = upto(n - 1)
        BY <3>1
      <3>3. QED
        BY <1>3, <2>1, <2>2, <3>2
    <2>3. CASE n \in S
      <3>1. \A e \in S : e <= n <=> e <= n - 1 \/ e = n
        BY <1>1
      <3>2. upto(n) = upto(n - 1) \cup {n}
        BY <3>1, <2>3
      <3>3. n \notin upto(n - 1)
        OBVIOUS
      <3>4. size(n) = size(n - 1) + 1
        <4>1. IsFiniteSet(upto(n - 1))
          BY <1>3, <2>1
        <4> HIDE DEF upto
        <4>2. QED
          BY <3>2, <3>3, <4>1, FS_AddElement
      <3>5. QED
        BY <1>3, <2>1, <2>3, <3>4
    <2>4. QED
      BY <2>2, <2>3
  <1> HIDE DEF upto, size
  <1>8. PICK N : N = {n \in Nat : size(n) >= i}
    OBVIOUS
  <1>9. m \in N
    BY <1>4, <1>8 DEF size
  <1>10. PICK n \in N : \A k \in N : n <= k
    BY <1>8, <1>9, LeastNumber
  <1>11. n \in Nat /\ size(n) >= i
    BY <1>8
  <1>12. n # 0
    BY <1>6, <1>11
  <1>13. n - 1 \in Nat /\ n - 1 \notin N
    BY <1>10, <1>11, <1>12
  <1>14. ~(size(n - 1) >= i)
    BY <1>8, <1>13
  <1>15. n \in S /\ size(n) = i
    BY <1>3, <1>7, <1>11, <1>12, <1>13, <1>14
  <1>16. QED
    BY <1>15 DEF size, upto, UpTo

LEMMA ListingIs ==
  ASSUME SourcesInv
  PROVE  Listing \in Seq(SourceTargets)
  <1>1. PICK S : S = {id \in Ids : Due(id)}
    OBVIOUS
  <1>2. MaxId \in Nat
    BY SourcesValid
  <1>3. S \subseteq 1 .. MaxId /\ IsFiniteSet(S) /\ Cardinality(S) \in Nat
    <2>1. S \subseteq 1 .. MaxId
      BY <1>1 DEF Ids
    <2>2. IsFiniteSet(1 .. MaxId)
      BY <1>2, FS_Interval
    <2>3. QED
      BY <2>1, <2>2, FS_Subset, FS_CardinalityType
  <1> DEFINE at(i) == CHOOSE d \in Ids : Due(d) /\ Cardinality({e \in Ids : Due(e) /\ e <= d}) = i
  <1>4. ASSUME NEW i \in 1 .. Cardinality(S)
        PROVE  at(i) \in Ids /\ Due(at(i))
    <2>1. PICK d \in S : Cardinality(UpTo(S, d)) = i
      <3>1. i \in Nat /\ i # 0 /\ i <= Cardinality(S)
        BY <1>3
      <3>2. QED
        BY <1>2, <1>3, <3>1, RankExists
    <2>2. UpTo(S, d) = {e \in Ids : Due(e) /\ e <= d}
      BY <1>1 DEF UpTo
    <2>3. \E d2 \in Ids : Due(d2) /\ Cardinality({e \in Ids : Due(e) /\ e <= d2}) = i
      BY <1>1, <2>1, <2>2
    <2>4. QED
      BY <2>3
  <1>5. ASSUME NEW i \in 1 .. Cardinality(S)
        PROVE  [id |-> at(i), revision |-> rows[at(i)].revision] \in SourceTargets
    <2>1. at(i) \in Ids /\ Exists(at(i))
      BY <1>4 DEF Due
    <2> HIDE DEF at
    <2>2. rows[at(i)].revision \in Nat
      BY <2>1, RevisionIs
    <2>3. QED
      BY <2>1, <2>2 DEF SourceTargets
  <1>6. Listing = [i \in 1 .. Cardinality(S) |-> [id |-> at(i), revision |-> rows[at(i)].revision]]
    BY <1>1 DEF Listing
  <1> HIDE DEF at
  <1>7. QED
    BY <1>3, <1>5, <1>6

LEMMA TakeJobPreserves == SourcesInv /\ TakeJob => SourcesInv'
  <1> SUFFICES ASSUME SourcesInv, TakeJob PROVE SourcesInv'
    OBVIOUS
  <1>1. queue \in Seq(SourceJobs) /\ queue # <<>> /\ UNCHANGED <<rows, served>>
        /\ queue' = Tail(queue)
    BY DEF TakeJob, SourcesInv, JobsInv
  <1>2. PICK job : job = Head(queue)
    OBVIOUS
  <1>3. job \in SourceJobs /\ queue' \in Seq(SourceJobs)
    BY <1>1, <1>2, HeadTailProperties
  <1>4. PICK targets : targets = IF unsynced THEN <<>>
                                 ELSE IF job.kind = "round" THEN Listing
                                 ELSE << [id |-> job.id, revision |-> job.revision] >>
    OBVIOUS
  <1>5. targets \in Seq(SourceTargets)
    <2>0. CASE unsynced
      BY <1>4, <2>0
    <2>1. CASE ~unsynced /\ job.kind = "round"
      BY <1>4, <2>1, ListingIs
    <2>2. CASE ~unsynced /\ job.kind # "round"
      <3>1. job.id \in Ids /\ job.revision \in Nat
        BY <1>3, <2>2 DEF SourceJobs
      <3>2. [id |-> job.id, revision |-> job.revision] \in SourceTargets
        BY <3>1 DEF SourceTargets
      <3>3. QED
        BY <1>4, <2>2, <3>2
    <2>3. QED
      BY <2>0, <2>1, <2>2
  <1>6. worker' = IF targets = <<>> THEN Idle
                  ELSE [kind |-> job.kind, phase |-> "load", started |-> now,
                        targets |-> targets,
                        body |-> IF job.kind = "import" THEN job.body ELSE <<>>]
    BY <1>2, <1>4, Zenon DEF TakeJob
  <1>7. /\ worker'.phase \in {"idle", "load"}
        /\ worker'.phase = "load" =>
             worker'.targets \in Seq(SourceTargets) /\ worker'.targets # <<>>
    BY <1>5, <1>6 DEF Idle
  <1>8. QED
    BY <1>1, <1>3, <1>7, RowsStay, IdlePreserves

-----------------------------------------------------------------------------
(* One update *)

(* After a target comes the next one or none. *)
LEMMA AfterIs ==
  ASSUME JobsInv, worker.phase # "idle", NEW result, NEW after, after = After(result)
  PROVE  /\ after.phase \in {"idle", "load"}
         /\ after.phase = "load" =>
              after.targets \in Seq(SourceTargets) /\ after.targets # <<>>
  <1>1. PICK targets : targets = worker.targets
    OBVIOUS
  <1>2. targets \in Seq(SourceTargets) /\ targets # <<>>
    BY <1>1 DEF JobsInv
  <1>3. CASE result # "ok" \/ Len(targets) = 1
    BY <1>1, <1>3 DEF After, Idle
  <1>4. CASE result = "ok" /\ Len(targets) # 1
    <2>1. Len(targets) \in Nat /\ Len(targets) > 1
      <3>1. Len(targets) \in Nat /\ Len(targets) # 0
        BY <1>2, EmptySeq, LenProperties
      <3>2. Len(targets) # 1
        BY <1>4
      <3>3. \A n \in Nat : n # 0 /\ n # 1 => n > 1
        OBVIOUS
      <3>4. QED
        BY <3>1, <3>2, <3>3
    <2>2. Tail(targets) \in Seq(SourceTargets) /\ Len(Tail(targets)) = Len(targets) - 1
      BY <1>2, HeadTailProperties
    <2>3. Tail(targets) # <<>>
      <3>1. Len(Tail(targets)) # 0
        BY <2>1, <2>2
      <3>2. QED
        BY <2>2, <3>1, EmptySeq
    <2>4. QED
      BY <1>1, <1>4, <2>2, <2>3 DEF After
  <1>5. QED
    BY <1>3, <1>4

(* update_source and import_source begin with the row there is. *)
LEMMA LoadPreserves == SourcesInv /\ Load => SourcesInv'
  <1> SUFFICES ASSUME SourcesInv, Load PROVE SourcesInv'
    OBVIOUS
  <1>1. worker.phase = "load" /\ UNCHANGED <<rows, served, queue>>
    BY DEF Load
  <1>2. Target.id \in Ids /\ Target.revision \in Nat
    BY <1>1, TargetIs DEF SourcesInv
  <1>3. queue' \in Seq(SourceJobs)
    BY <1>1 DEF SourcesInv, JobsInv
  <1>4. PICK row, result :
          /\ row = rows[Target.id]
          /\ result = IF ~Exists(Target.id) THEN "ENOENT"
                      ELSE IF row.revision # Target.revision THEN "EAGAIN"
                      ELSE IF Remote(row) = (worker.kind = "import") THEN "EINVAL"
                      ELSE "ok"
    OBVIOUS
  <1>5. worker' = IF result # "ok" THEN After(result)
                  ELSE [kind |-> worker.kind, phase |-> "fetch",
                        started |-> worker.started, targets |-> worker.targets,
                        body |-> worker.body, source |-> row]
    BY <1>4 DEF Load
  <1>6. CASE result # "ok"
    <2>1. worker' = After(result)
      BY <1>5, <1>6
    <2>2. /\ worker'.phase \in {"idle", "load"}
          /\ worker'.phase = "load" =>
               worker'.targets \in Seq(SourceTargets) /\ worker'.targets # <<>>
      BY <1>1, <2>1, AfterIs DEF SourcesInv
    <2>3. QED
      BY <1>1, <1>3, <2>2, RowsStay, IdlePreserves
  <1>7. CASE result = "ok"
    <2>1. Exists(Target.id) /\ row.revision = Target.revision
          /\ (worker.kind = "import" <=> ~Remote(row))
      BY <1>4, <1>7 DEF Remote
    <2>2. row # NoRow /\ IsRow(row) /\ SoundRow(row)
      BY <1>2, <1>4, <2>1 DEF SourcesInv, RowsInv, Exists, NoRow
    <2>3. /\ worker'.kind = worker.kind /\ worker'.phase = "fetch"
          /\ worker'.targets = worker.targets /\ worker'.source = row
      BY <1>5, <1>7
    <2>4. RowsInv' /\ ServedInv' /\ SoundRow(row)'
      BY <1>1, <2>2, RowsStay, ServedInvStays, SoundStays DEF SourcesInv
    <2>5. JobsInv'
      BY <1>1, <1>3, <2>3 DEF SourcesInv, JobsInv
    <2>6. Target' = Target /\ rows' = rows
      BY <1>1, <2>3 DEF Target
    <2>7. LoadedInv'
      <3>1. rows'[Target'.id] = row /\ row.revision \in Nat
        BY <1>4, <2>2, <2>6 DEF IsRow
      <3>2. worker'.kind = "import" <=> ~Remote(row)'
        BY <2>1, <2>3 DEF Remote
      <3>3. IsRow(row)' /\ row.revision = Target'.revision
        BY <2>1, <2>2, <2>6 DEF IsRow
      <3>4. QED
        BY <2>3, <2>4, <3>1, <3>2, <3>3 DEF LoadedInv
    <2>8. OutcomeInv'
      BY <2>3 DEF OutcomeInv
    <2>9. QED
      BY <2>4, <2>5, <2>7, <2>8 DEF SourcesInv
  <1>8. QED
    BY <1>6, <1>7

(* What an outcome has to be. *)
LEMMA OutcomePreserves ==
  ASSUME SourcesInv, worker.phase = "fetch", UNCHANGED <<rows, served, queue>>,
         NEW status \in {"updated", "not_modified", "failed"}, NEW state, NEW body, NEW checked,
         worker' = Outcome(status, state, body, checked), state.modified \in Nat,
         NEW source, source = worker.source,
         status = "updated" =>
           /\ checked = body
           /\ Import(body, source.config.mode).result = "ok"
           /\ Remote(source) =>
                Verified(source.config, body) /\ ValidatorsOf(state, source.config, body),
         status = "not_modified" =>
           /\ Remote(source)
           /\ Untouched(source) =>
                checked = source.checked /\ ValidatorsOf(state, source.config, source.checked),
         status = "failed" /\ Remote(source) =>
           state.etag = source.etag /\ state.modified = source.modified
  PROVE  SourcesInv'
  <1>1. /\ worker'.kind = worker.kind /\ worker'.phase = "store"
        /\ worker'.targets = worker.targets /\ worker'.source = source
        /\ worker'.status = status /\ worker'.state = state
        /\ worker'.body = body /\ worker'.checked = checked
    BY DEF Outcome
  <1>2. IsRow(source) /\ SoundRow(source)
    BY DEF SourcesInv, LoadedInv
  <1>3. RowsInv' /\ ServedInv' /\ SoundRow(source)'
    BY <1>2, RowsStay, ServedInvStays, SoundStays DEF SourcesInv
  <1>4. JobsInv'
    BY <1>1 DEF SourcesInv, JobsInv
  <1>5. Target' = Target /\ rows' = rows /\ served' = served
    BY <1>1 DEF Target
  <1>6. LoadedInv'
    BY <1>1, <1>2, <1>3, <1>5 DEF SourcesInv, LoadedInv, Remote
  <1>7. \A b : ValidatorsOf(state, source.config, b) => ValidatorsOf(state, source.config, b)'
    BY <1>5 DEF ValidatorsOf
  <1>8. OutcomeInv'
    BY <1>1, <1>7 DEF OutcomeInv, Remote, Verified, Untouched
  <1>9. QED
    BY <1>3, <1>4, <1>6, <1>8 DEF SourcesInv

(* A failure keeps the validators. *)
LEMMA FailurePreserves ==
  ASSUME SourcesInv, worker.phase = "fetch", UNCHANGED <<rows, served, queue>>, Failed
  PROVE  SourcesInv'
  <1>1. PICK source : source = worker.source
    OBVIOUS
  <1>2. IsRow(source)
    BY <1>1 DEF SourcesInv, LoadedInv
  <1>3. PICK state \in RecordFailure(source, worker.started) :
          worker' = Outcome("failed", state, <<>>, <<>>)
    BY <1>1 DEF Failed
  <1>4. PICK delay : state = [source EXCEPT !.failures = @ + 1, !.next = worker.started + delay]
    BY <1>3 DEF RecordFailure
  <1>5. source = [field \in RowFields |-> source[field]] /\ source.modified \in Nat
    BY <1>2 DEF IsRow
  <1>6. state.etag = source.etag /\ state.modified = source.modified
    BY <1>4, <1>5 DEF RowFields
  <1>7. QED
    BY <1>1, <1>3, <1>5, <1>6, OutcomePreserves

LEMMA TransferFailsPreserves == SourcesInv /\ TransferFails => SourcesInv'
  BY FailurePreserves DEF TransferFails

(* record_success: the validators a source has after an answer. *)
LEMMA SuccessIs ==
  ASSUME NEW source, IsRow(source), NEW answer, NEW time, NEW state,
         state = RecordSuccess(source, answer, time)
  PROVE  /\ state.etag = IF answer.status = 200 \/ answer.etag # NoTag
                         THEN answer.etag ELSE source.etag
         /\ state.modified = IF answer.status = 200 \/ answer.modified # NoDate
                             THEN answer.modified ELSE source.modified
  <1>1. source = [field \in RowFields |-> source[field]]
    BY DEF IsRow
  <1>2. PICK etag, modified, later :
          /\ etag = IF answer.status = 200 \/ answer.etag # NoTag
                    THEN answer.etag ELSE source.etag
          /\ modified = IF answer.status = 200 \/ answer.modified # NoDate
                        THEN answer.modified ELSE source.modified
          /\ later = time + Interval
    OBVIOUS
  <1>3. state = [source EXCEPT !.etag = etag, !.modified = modified, !.success = time,
                               !.next = later, !.failures = 0]
    BY <1>2 DEF RecordSuccess
  <1>4. state.etag = etag /\ state.modified = modified
    BY <1>1, <1>3 DEF RowFields
  <1>5. QED
    BY <1>2, <1>4

(* The date of a document is that of its version. *)
LEMMA DatedIs ==
  ASSUME ServedInv, NEW s \in Servers
  PROVE  Dated(s) \in Nat /\ (Dated(s) # NoDate => Dated(s) = served[s].version)
  BY DEF ServedInv, Dated, NoDate

(* A conditional request: 304 only for the document whose list there is. *)
LEMMA NotModifiedIsServed ==
  ASSUME ServedInv, NEW source, IsRow(source), SoundRow(source), Remote(source),
         Untouched(source), NEW s, s = source.config.server, Unmodified(s, source),
         NEW state, NEW time, state = RecordSuccess(source, Answer(s, source), time)
  PROVE  /\ served[s].document.body = source.checked
         /\ ValidatorsOf(state, source.config, source.checked)
  <1>1. s \in Servers /\ source.modified \in Nat
    BY DEF IsRow, Remote
  <1>2. ValidatorsOf(source, source.config, source.checked)
    BY DEF SoundRow
  <1>3. served[s].version \in Nat
    BY <1>1 DEF ServedInv
  <1>4. PICK etag, dated, body : /\ etag = Etag(served[s].document) /\ dated = Dated(s)
                                 /\ body = served[s].document.body
    OBVIOUS
  <1>5. dated \in Nat /\ (dated # NoDate => dated = served[s].version)
    BY <1>1, <1>4, DatedIs
  <1>6. etag # NoTag => etag = body
    BY <1>4 DEF Etag
  <1>7. body = source.checked
    <2>1. CASE source.etag # NoTag
      BY <1>2, <1>4, <1>6, <2>1 DEF Unmodified, ValidatorsOf
    <2>2. CASE source.etag = NoTag
      <3>1. source.modified # NoDate /\ dated # NoDate /\ dated <= source.modified
        BY <1>4, <2>2 DEF Unmodified
      <3>2. source.modified <= served[s].version
            /\ (source.modified = served[s].version => body = source.checked)
        BY <1>2, <1>4, <2>2, <3>1 DEF ValidatorsOf
      <3>3. QED
        BY <1>1, <1>3, <1>5, <3>1, <3>2
    <2>3. QED
      BY <2>1, <2>2
  <1>8. PICK answer : answer = Answer(s, source)
    OBVIOUS
  <1>9. answer.status = 304 /\ answer.etag = etag /\ answer.modified = dated
    BY <1>4, <1>8 DEF Answer
  <1>10. /\ state.etag = IF etag # NoTag THEN etag ELSE source.etag
         /\ state.modified = IF dated # NoDate THEN dated ELSE source.modified
    BY <1>8, <1>9, SuccessIs
  <1>11. state.etag # NoTag => state.etag = source.checked
    BY <1>2, <1>6, <1>7, <1>10 DEF ValidatorsOf
  <1>12. state.etag = NoTag /\ state.modified # NoDate =>
           /\ state.modified <= served[s].version
           /\ state.modified = served[s].version => served[s].document.body = source.checked
    <2> SUFFICES ASSUME state.etag = NoTag, state.modified # NoDate
                 PROVE  state.modified <= served[s].version
      BY <1>4, <1>7
    <2>1. CASE dated # NoDate
      BY <1>3, <1>5, <1>10, <2>1
    <2>2. CASE dated = NoDate
      <3>1. source.etag = NoTag /\ source.modified # NoDate /\ state.modified = source.modified
        BY <1>10, <2>2
      <3>2. QED
        BY <1>2, <3>1 DEF ValidatorsOf
    <2>3. QED
      BY <2>1, <2>2
  <1>13. QED
    BY <1>4, <1>7, <1>11, <1>12 DEF ValidatorsOf

LEMMA FetchPreserves == SourcesInv /\ Fetch => SourcesInv'
  <1> SUFFICES ASSUME SourcesInv, Fetch PROVE SourcesInv'
    OBVIOUS
  <1>1. worker.phase = "fetch" /\ worker.kind # "import" /\ UNCHANGED <<rows, served, queue>>
    BY DEF Fetch
  <1>2. PICK source : source = worker.source
    OBVIOUS
  <1>3. IsRow(source) /\ SoundRow(source) /\ Remote(source) /\ source.modified \in Nat
    BY <1>1, <1>2 DEF SourcesInv, LoadedInv, IsRow
  <1>4. PICK s, body, answer, state :
          /\ s = source.config.server /\ body = served[s].document.body
          /\ answer = Answer(s, source)
          /\ state = RecordSuccess(source, answer, worker.started)
    OBVIOUS
  <1>5. s \in Servers
    BY <1>3, <1>4 DEF IsRow, Remote
  <1>6. /\ answer.status = IF Unmodified(s, source) THEN 304 ELSE 200
        /\ answer.etag = Etag(served[s].document) /\ answer.modified = Dated(s)
    BY <1>4 DEF Answer
  <1>7. Dated(s) \in Nat /\ (Dated(s) # NoDate => Dated(s) = served[s].version)
    BY <1>5, DatedIs DEF SourcesInv
  <1>8. /\ state.etag = IF answer.status = 200 \/ answer.etag # NoTag
                        THEN answer.etag ELSE source.etag
        /\ state.modified = IF answer.status = 200 \/ answer.modified # NoDate
                            THEN answer.modified ELSE source.modified
    BY <1>3, <1>4, SuccessIs
  <1>9. state.modified \in Nat
    BY <1>3, <1>6, <1>7, <1>8
  <1>10. \/ answer.status = 304 /\ worker' = Outcome("not_modified", state, <<>>, body)
         \/ /\ answer.status = 200 /\ Verified(source.config, body)
            /\ Import(body, source.config.mode).result = "ok"
            /\ worker' = Outcome("updated", state, body, body)
         \/ Failed
    BY <1>2, <1>4 DEF Fetch
  <1>11. CASE answer.status = 304 /\ worker' = Outcome("not_modified", state, <<>>, body)
    <2>1. Unmodified(s, source)
      BY <1>6, <1>11
    <2>2. Untouched(source) =>
            body = source.checked /\ ValidatorsOf(state, source.config, source.checked)
      BY <1>3, <1>4, <2>1, NotModifiedIsServed DEF SourcesInv
    <2>3. QED
      BY <1>1, <1>2, <1>3, <1>9, <1>11, <2>2, OutcomePreserves
  <1>12. CASE /\ answer.status = 200 /\ Verified(source.config, body)
              /\ Import(body, source.config.mode).result = "ok"
              /\ worker' = Outcome("updated", state, body, body)
    <2>1. state.etag = Etag(served[s].document) /\ state.modified = Dated(s)
      BY <1>6, <1>8, <1>12
    <2>2. state.etag # NoTag => state.etag = body
      BY <1>4, <2>1 DEF Etag
    <2>3. served[s].version \in Nat
      BY <1>5 DEF SourcesInv, ServedInv
    <2>4. ValidatorsOf(state, source.config, body)
      BY <1>4, <1>7, <2>1, <2>2, <2>3 DEF ValidatorsOf
    <2>5. QED
      BY <1>1, <1>2, <1>3, <1>9, <1>12, <2>4, OutcomePreserves
  <1>13. CASE Failed
    BY <1>1, <1>13, FailurePreserves
  <1>14. QED
    BY <1>10, <1>11, <1>12, <1>13

LEMMA ImportUploadPreserves == SourcesInv /\ ImportUpload => SourcesInv'
  <1> SUFFICES ASSUME SourcesInv, ImportUpload PROVE SourcesInv'
    OBVIOUS
  <1>1. worker.phase = "fetch" /\ worker.kind = "import" /\ UNCHANGED <<rows, served, queue>>
    BY DEF ImportUpload
  <1>2. PICK source : source = worker.source
    OBVIOUS
  <1>3. IsRow(source) /\ ~Remote(source) /\ source = [field \in RowFields |-> source[field]]
    BY <1>1, <1>2 DEF SourcesInv, LoadedInv, IsRow
  <1>4. PICK cleared, passed, refused :
          /\ cleared = [source EXCEPT !.etag = NoTag, !.modified = NoDate,
                                      !.next = worker.started]
          /\ passed = [cleared EXCEPT !.success = worker.started, !.failures = 0]
          /\ refused = [cleared EXCEPT !.failures = @ + 1]
    OBVIOUS
  <1>5. cleared = [field \in RowFields |-> cleared[field]] /\ cleared.modified = NoDate
    BY <1>3, <1>4 DEF RowFields
  <1>6. passed.modified \in Nat /\ refused.modified \in Nat
    BY <1>4, <1>5 DEF RowFields, NoDate
  <1>7. worker' = IF Import(worker.body, source.config.mode).result = "ok"
                  THEN Outcome("updated", passed, worker.body, worker.body)
                  ELSE Outcome("failed", refused, <<>>, <<>>)
    BY <1>2, <1>4 DEF ImportUpload
  <1>8. CASE Import(worker.body, source.config.mode).result = "ok"
    <2>1. worker' = Outcome("updated", passed, worker.body, worker.body)
      BY <1>7, <1>8
    <2>2. QED
      BY <1>1, <1>2, <1>3, <1>6, <1>8, <2>1, OutcomePreserves
  <1>9. CASE Import(worker.body, source.config.mode).result # "ok"
    <2>1. worker' = Outcome("failed", refused, <<>>, <<>>)
      BY <1>7, <1>9
    <2>2. QED
      BY <1>1, <1>2, <1>3, <1>6, <2>1, OutcomePreserves
  <1>10. QED
    BY <1>8, <1>9

(* What the transaction leaves of a row: jg_database_activate_blocklist or *)
(* jg_database_record_blocklist_attempt.                                   *)
LEMMA StoredIsSound ==
  ASSUME SourcesInv, worker.phase = "store", NEW row, row = rows[Target.id],
         StoreResult(row) = "ok", NEW stored,
         stored = IF worker.status = "updated" THEN Activated(row)
                  ELSE Attempted(row, worker.status = "not_modified")
  PROVE  IsRow(stored) /\ SoundRow(stored)
  <1>1. PICK source, state : source = worker.source /\ state = worker.state
    OBVIOUS
  <1>2. Target.id \in Ids
    BY TargetIs DEF SourcesInv
  <1>3. /\ row # NoRow /\ row.revision = Target.revision
        /\ worker.status = "not_modified" => row.active
    BY DEF StoreResult
  <1>4. IsRow(row) /\ SoundRow(row)
    BY <1>2, <1>3 DEF SourcesInv, RowsInv
  <1>5. IsRow(source) /\ SoundRow(source) /\ source.revision = Target.revision
    BY <1>1 DEF SourcesInv, LoadedInv
  <1>6. IF row.born = source.born THEN row = source ELSE ~row.active
    BY <1>1, <1>3, <1>5 DEF SourcesInv, LoadedInv
  <1>7. /\ worker.status \in {"updated", "not_modified", "failed"} /\ state.modified \in Nat
        /\ worker.status = "updated" =>
             /\ worker.checked = worker.body
             /\ Import(worker.body, source.config.mode).result = "ok"
             /\ Remote(source) => /\ Verified(source.config, worker.body)
                                  /\ ValidatorsOf(state, source.config, worker.body)
        /\ worker.status = "not_modified" =>
             /\ Remote(source)
             /\ Untouched(source) => /\ worker.checked = source.checked
                                     /\ ValidatorsOf(state, source.config, source.checked)
        /\ worker.status = "failed" /\ Remote(source) =>
             state.etag = source.etag /\ state.modified = source.modified
    BY <1>1 DEF SourcesInv, OutcomeInv
  <1>8. PICK base : base = Status(row, state)
    OBVIOUS
  <1>9. /\ base = [field \in RowFields |-> base[field]]
        /\ base.etag = state.etag /\ base.modified = state.modified
        /\ base.config = row.config /\ base.revision = row.revision
        /\ base.active = row.active /\ base.entries = row.entries
        /\ base.born = row.born /\ base.origin = row.origin
        /\ base.checked = row.checked
    BY <1>4, <1>8, StatusIs
  <1>10. /\ row.revision \in Nat \ {0} /\ row.born \in Int
         /\ row.config.server \in Servers \cup {LocalServer}
         /\ row.active \in BOOLEAN /\ row.origin.own \in BOOLEAN
         /\ row.origin.revision \in 0 .. row.revision
    BY <1>4 DEF IsRow
  <1>11. CASE worker.status = "updated"
    <2>1. PICK own \in BOOLEAN : own = (row.born = source.born)
      OBVIOUS
    <2>2. PICK entries, origin, checked, active :
            /\ entries = Import(worker.body, source.config.mode).entries
            /\ origin = [config |-> source.config, revision |-> row.revision, own |-> own]
            /\ checked = worker.checked /\ active = TRUE
      OBVIOUS
    <2>3. stored = [base EXCEPT !.active = active, !.health = "healthy", !.entries = entries,
                                !.origin = origin, !.checked = checked]
      BY <1>1, <1>8, <1>11, <2>1, <2>2, Zenon DEF Activated
    <2>4. /\ stored = [field \in RowFields |-> stored[field]]
          /\ stored.etag = state.etag /\ stored.modified = state.modified
          /\ stored.config = row.config /\ stored.revision = row.revision
          /\ stored.active = TRUE /\ stored.entries = entries
          /\ stored.born = row.born /\ stored.origin = origin
          /\ stored.checked = worker.checked
      <3>1. stored = [field \in RowFields |-> stored[field]]
        BY <1>9, <2>3 DEF RowFields
      <3>2. /\ stored.etag = base.etag /\ stored.modified = base.modified
            /\ stored.config = base.config /\ stored.revision = base.revision
            /\ stored.born = base.born
        BY <1>9, <2>3 DEF RowFields
      <3>3. /\ stored.active = active /\ stored.entries = entries
            /\ stored.origin = origin /\ stored.checked = checked
        BY <1>9, <2>3 DEF RowFields
      <3>4. QED
        BY <1>9, <2>2, <3>1, <3>2, <3>3, Zenon
    <2>5. origin.config = source.config /\ origin.revision = row.revision
          /\ origin.own = own
      BY <2>2
    <2>6. stored.active \in BOOLEAN /\ stored.origin.own \in BOOLEAN
      BY <2>1, <2>4, <2>5, Zenon
    <2>7. IsRow(stored)
      BY <1>7, <1>10, <2>4, <2>5, <2>6 DEF IsRow
    <2>8. CASE row.born # source.born
      BY <2>1, <2>4, <2>5, <2>7, <2>8 DEF SoundRow, Untouched
    <2>9. CASE row.born = source.born
      <3>1. row = source
        BY <1>6, <2>9
      <3>2. ListOf(stored)
        BY <1>7, <1>11, <2>2, <2>4, <2>5, <3>1 DEF ListOf, Remote, Verified
      <3>3. Remote(stored) => ValidatorsOf(stored, stored.config, stored.checked)
        BY <1>7, <1>11, <2>4, <3>1 DEF ValidatorsOf, Remote
      <3>4. QED
        BY <2>7, <3>2, <3>3 DEF SoundRow
    <2>10. QED
      BY <2>7, <2>8, <2>9
  <1>12. CASE worker.status # "updated"
    <2>1. PICK health, checked :
            /\ health = IF worker.status = "not_modified" THEN "healthy"
                        ELSE IF row.active THEN "degraded" ELSE "failed"
            /\ checked = IF worker.status = "not_modified" THEN worker.checked ELSE row.checked
      OBVIOUS
    <2>2. stored = [base EXCEPT !.health = health, !.checked = checked]
      BY <1>1, <1>8, <1>9, <1>12, <2>1 DEF Attempted
    <2>3. /\ stored = [field \in RowFields |-> stored[field]]
          /\ stored.etag = state.etag /\ stored.modified = state.modified
          /\ stored.config = row.config /\ stored.revision = row.revision
          /\ stored.active = row.active /\ stored.entries = row.entries
          /\ stored.born = row.born /\ stored.origin = row.origin
          /\ stored.checked = checked
      BY <1>9, <2>2 DEF RowFields
    <2>4. IsRow(stored)
      BY <1>7, <1>10, <2>3 DEF IsRow
    <2>5. SoundRow(stored)
      <3> SUFFICES ASSUME Untouched(stored)
                   PROVE  ListOf(stored) /\
                          (Remote(stored) => ValidatorsOf(stored, stored.config, stored.checked))
        BY DEF SoundRow
      <3>1. row.active
        BY <2>3 DEF Untouched
      <3>2. row = source /\ Untouched(source)
        BY <1>6, <2>3, <3>1 DEF Untouched
      <3>3. ListOf(source) /\ (Remote(source) => ValidatorsOf(source, source.config, source.checked))
        BY <1>5, <3>2 DEF SoundRow
      <3>4. stored.checked = source.checked
        BY <1>7, <1>12, <2>1, <2>3, <3>2
      <3>5. ListOf(stored)
        BY <2>3, <3>2, <3>3, <3>4 DEF ListOf, Remote, Verified
      <3>6. Remote(source) => ValidatorsOf(state, source.config, source.checked)
        BY <1>7, <1>12, <3>2, <3>3 DEF ValidatorsOf
      <3>7. Remote(stored) => ValidatorsOf(stored, stored.config, stored.checked)
        BY <2>3, <3>2, <3>4, <3>6 DEF ValidatorsOf, Remote
      <3>8. QED
        BY <3>5, <3>7
    <2>6. QED
      BY <2>4, <2>5
  <1>13. QED
    BY <1>11, <1>12

LEMMA StorePreserves == SourcesInv /\ Store => SourcesInv'
  <1> SUFFICES ASSUME SourcesInv, Store PROVE SourcesInv'
    OBVIOUS
  <1>1. worker.phase = "store" /\ UNCHANGED <<served, queue>>
    BY DEF Store
  <1>2. PICK id, row, result, stored :
          /\ id = Target.id /\ row = rows[id] /\ result = StoreResult(row)
          /\ stored = IF worker.status = "updated" THEN Activated(row)
                      ELSE Attempted(row, worker.status = "not_modified")
    OBVIOUS
  <1>3. /\ rows' = IF result # "ok" THEN rows ELSE [rows EXCEPT ![id] = stored]
        /\ worker' \in {After(result), After("EIO")}
    BY <1>2 DEF Store
  <1>4. id \in Ids
    BY <1>1, <1>2, TargetIs DEF SourcesInv
  <1>5. /\ worker'.phase \in {"idle", "load"}
        /\ worker'.phase = "load" =>
             worker'.targets \in Seq(SourceTargets) /\ worker'.targets # <<>>
    BY <1>1, <1>3, AfterIs DEF SourcesInv
  <1>6. queue' \in Seq(SourceJobs)
    BY <1>1 DEF SourcesInv, JobsInv
  <1>7. RowsInv'
    <2>1. CASE result # "ok"
      BY <1>1, <1>3, <2>1, RowsStay
    <2>2. CASE result = "ok"
      <3>1. rows' = [rows EXCEPT ![id] = stored]
        BY <1>3, <2>2
      <3>2. rows' = [i \in Ids |-> rows'[i]] /\ rows'[id] = stored
            /\ \A i \in Ids : i # id => rows'[i] = rows[i]
        BY <1>4, <3>1 DEF SourcesInv, RowsInv
      <3>3. IsRow(stored) /\ SoundRow(stored)
        BY <1>1, <1>2, <2>2, StoredIsSound
      <3>4. \A r : IsRow(r) /\ SoundRow(r) => SoundRow(r)'
        BY <1>1, SoundStays DEF SourcesInv
      <3>5. QED
        BY <3>2, <3>3, <3>4 DEF SourcesInv, RowsInv, IsRow
    <2>3. QED
      BY <2>1, <2>2
  <1>8. QED
    BY <1>1, <1>5, <1>6, <1>7, IdlePreserves

LEMMA StoreFailsPreserves == SourcesInv /\ StoreFails => SourcesInv'
  <1> SUFFICES ASSUME SourcesInv, StoreFails PROVE SourcesInv'
    OBVIOUS
  <1>1. /\ worker.phase = "store" /\ worker' = After("EIO")
        /\ UNCHANGED <<rows, served, queue>>
    BY DEF StoreFails
  <1>2. /\ worker'.phase \in {"idle", "load"}
        /\ worker'.phase = "load" =>
             worker'.targets \in Seq(SourceTargets) /\ worker'.targets # <<>>
    BY <1>1, AfterIs DEF SourcesInv
  <1>3. queue' \in Seq(SourceJobs)
    BY <1>1 DEF SourcesInv, JobsInv
  <1>4. QED
    BY <1>1, <1>2, <1>3, RowsStay, IdlePreserves

-----------------------------------------------------------------------------
LEMMA SourcesInitInv == SourcesInit => SourcesInv
  <1> SUFFICES ASSUME SourcesInit PROVE SourcesInv
    OBVIOUS
  <1>1. PICK b \in Beginnings :
          rows = [id \in Ids |-> IF id \in DOMAIN b.configs
                                 THEN NewSource(b.configs[id], 0) ELSE NoRow]
    BY DEF SourcesInit
  <1>2. ASSUME NEW id \in DOMAIN b.configs
        PROVE  IsRow(NewSource(b.configs[id], 0)) /\ SoundRow(NewSource(b.configs[id], 0))
    <2>1. b.configs[id] \in Range(b.configs)
      BY DEF Range
    <2>2. b.configs[id].server \in Servers \cup {LocalServer}
      BY <2>1, SourcesValid
    <2>3. IsRow(NewSource(b.configs[id], 0)) /\ ~NewSource(b.configs[id], 0).active
      BY <2>2, NewSourceIsRow
    <2>4. QED
      BY <2>3 DEF SoundRow, Untouched
  <1>3. RowsInv
    BY <1>1, <1>2 DEF RowsInv
  <1>4. ServedInv
    BY DEF SourcesInit, ServedInv
  <1>5. queue = <<>> /\ worker.phase = "idle"
    BY DEF SourcesInit, Idle
  <1>6. JobsInv /\ LoadedInv /\ OutcomeInv
    BY <1>5 DEF JobsInv, LoadedInv, OutcomeInv
  <1>7. QED
    BY <1>3, <1>4, <1>6 DEF SourcesInv

LEMMA SourcesNextInv == SourcesInv /\ [SourcesNext]_sourcesVars => SourcesInv'
  <1> SUFFICES ASSUME SourcesInv, [SourcesNext]_sourcesVars PROVE SourcesInv'
    OBVIOUS
  <1>1. CASE Create \/ Update \/ Delete
    BY <1>1, CreatePreserves, UpdatePreserves, DeletePreserves
  <1>2. CASE RequestRefresh \/ RequestImport \/ Schedule
    BY <1>2, RequestJobPreserves
  <1>3. CASE TakeJob \/ Load
    BY <1>3, TakeJobPreserves, LoadPreserves
  <1>4. CASE TransferFails \/ Fetch \/ ImportUpload
    BY <1>4, TransferFailsPreserves, FetchPreserves, ImportUploadPreserves
  <1>5. CASE Store \/ StoreFails
    BY <1>5, StorePreserves, StoreFailsPreserves
  <1>6. CASE Second \/ Republish \/ Desynchronize \/ Reload \/ Crash
    BY <1>6, OutsidePreserves, CrashPreserves
  <1>7. CASE UNCHANGED sourcesVars
    <2>1. UNCHANGED <<rows, worker, served, queue>>
      BY <1>7 DEF sourcesVars
    <2>2. queue' \in Seq(SourceJobs)
      BY <2>1 DEF SourcesInv, JobsInv
    <2>3. QED
      BY <2>1, <2>2, EnvironmentPreserves
  <1>8. QED
    BY <1>1, <1>2, <1>3, <1>4, <1>5, <1>6, <1>7 DEF SourcesNext

(* A source that was not edited since its list was activated has the list  *)
(* its configuration makes of the document that was at its server when an  *)
(* attempt last succeeded, whatever edits, deletions and re-creations the  *)
(* control thread made and whatever documents the servers published while  *)
(* downloads ran (update_source, record_success,                           *)
(* jg_database_activate_blocklist, jg_database_record_blocklist_attempt).  *)
THEOREM SourcesListIsWhatWasServed == SourcesSpec => []ListIsWhatWasServed
  <1>1. SourcesInv => ListIsWhatWasServed
    <2> SUFFICES ASSUME SourcesInv, NEW id \in Ids, Exists(id), Untouched(rows[id])
                 PROVE  ListOf(rows[id])
      BY DEF ListIsWhatWasServed, ListOf
    <2>1. SoundRow(rows[id])
      BY DEF SourcesInv, RowsInv, Exists, NoRow
    <2>2. QED
      BY <2>1 DEF SoundRow
  <1>2. QED
    BY <1>1, SourcesInitInv, SourcesNextInv, PTL DEF SourcesSpec
=============================================================================
