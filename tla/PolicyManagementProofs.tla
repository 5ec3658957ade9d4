------------------------ MODULE PolicyManagementProofs ------------------------
(***************************************************************************)
(* Proofs about PolicyManagement, for every set of operators and values    *)
(* and every bound: what was acknowledged is stored unless a transaction   *)
(* was lost that both threads took part in, and an appliance that does not *)
(* call itself degraded runs the policy it has stored unless it went       *)
(* astray.  Any call of any thread may fail.                               *)
(***************************************************************************)
EXTENDS PolicyManagement, TLAPS

Databases ==
  [rows : [Tables -> [Ids -> Row]], desired : Nat, applied : Nat]

(* What is applied is at most what is desired. *)
Sound(d) == d \in Databases /\ d.applied <= d.desired

Requests ==
  [op : {"create", "update", "delete", "activate"}, table : Tables,
   id : Ids \cup {0}, value : Values \cup {None}, seen : Row]
Screens == [table : Tables \cup {None}, id : Ids \cup {0}, row : Row]

Labels ==
  InChange \cup InReload
    \cup {"idle", "mutate", "refresh", "abort", "reload.begin", "reload.done"}

(* The thread believes to be in a transaction on "main". *)
InMain(t) ==
  \/ pc[t] \in InReload
  \/ t = "control" /\ pc[t] \in InChange
  \/ t = "control" /\ pc[t] = "abort" /\ t \in users

TypeInv ==
  /\ pc \in [Threads -> Labels] /\ depth \in [Conns -> Nat] /\ users \subseteq Threads
  /\ DOMAIN view = Conns /\ DOMAIN why = Threads /\ DOMAIN ticket = Threads
  /\ ok \in [Threads -> BOOLEAN] /\ degraded \in BOOLEAN
  /\ astray \in BOOLEAN /\ broken \in BOOLEAN

(* Who is in a transaction.  The levels of "main" are those of the threads *)
(* that believe to be in it; the job thread has "peer" to itself.          *)
LockInv ==
  /\ depth["main"] = 0 \/ depth["peer"] = 0
  /\ pc["job"] \in InChange => depth["peer"] = 1
  /\ depth["peer"] # 0 => depth["peer"] = 1 /\ pc["job"] \in InChange \cup {"abort"}
  /\ users = {} <=> depth["main"] = 0
  /\ depth["main"] \in {0, 1, 2}
  /\ depth["main"] = 1 =>
       \/ InMain("control") /\ "control" \in users
       \/ InMain("job") /\ "job" \in users
  /\ depth["main"] = 2 => users = Threads /\ InMain("control") /\ InMain("job")

RequestInv ==
  /\ screen \in [Operators -> Screens]
  /\ \A o \in Operators : screen[o].table # None => screen[o].id \in Ids
  /\ DOMAIN request = Threads
  /\ \A t \in Threads : pc[t] = "mutate" =>
       /\ request[t] \in Requests
       /\ request[t].op # "create" => request[t].id \in Ids

(* The database and what a transaction sees of it.  A reload that is alone *)
(* in its transaction loads what is stored.                                *)
DataInv ==
  /\ Sound(disk) /\ Sound(view["main"]) /\ Sound(view["peer"])
  /\ \A t \in Threads : users = {t} /\ pc[t] = "reload.load" => view["main"] = disk

(* As long as no shared transaction was lost, a thread takes part in the   *)
(* transaction it believes to be in, and what the transaction holds is     *)
(* what was promised, or will be once the control thread has finished.     *)
DurableInv ==
  /\ InMain("control") => "control" \in users
  /\ InMain("job") => "job" \in users
  /\ InMain("control") /\ InMain("job") => depth["main"] = 2
  /\ users # Threads => disk.rows = promised
  /\ pc["control"] \in InChange => view["main"].rows = Acknowledged("control")
  /\ depth["main"] # 0 /\ (pc["control"] \notin InChange \cup {"abort"} \/ ~InMain("control")) =>
       view["main"].rows = promised
  /\ pc["job"] \in InChange => view["peer"].rows = Acknowledged("job")

(* A change that was published is what its transaction holds. *)
ChangeOf(t) ==
  LET d == view[Own(t)]
  IN  /\ pc[t] = "record" => d.desired = ticket[t] /\ Mismatch(d)
      /\ pc[t] \in {"record", "commit"} /\ ok[t] => runtime = Policy(d)
      /\ pc[t] = "commit" => (ok[t] <=> ~Mismatch(d))

(* A reload sees what is stored, and records it as applied if it runs. *)
ReloadOf(t) ==
  /\ pc[t] \in {"reload.load", "reload.record"} => view["main"] = disk
  /\ pc[t] = "reload.commit" => view["main"] = Recorded(disk, ok[t])
  /\ pc[t] \in {"reload.record", "reload.commit"} /\ ok[t] => runtime = Policy(disk)

(* The thread is going to compare the stored revisions. *)
Comparing(t) ==
  \/ pc[t] \in InChange \cup InReload \cup {"abort", "refresh"}
  \/ pc[t] \in {"reload.begin", "reload.done"} /\ why[t] = "abort"

(* The thread is going to publish what will be stored. *)
Repairing(t) ==
  \/ pc[t] \in InChange \cup {"abort"}
  \/ pc[t] \in {"reload.begin", "reload.load"} /\ why[t] = "abort"

(* Unless astray, a thread has its transaction on "main" to itself; the    *)
(* runtime has the stored policy, or the difference is on record or about  *)
(* to be repaired; and what is on record is reported or about to be.       *)
HealthInv ==
  /\ users # Threads
  /\ \A t \in Threads : InMain(t) => t \in users
  /\ \A t \in Threads : ChangeOf(t) /\ ReloadOf(t)
  /\ Mismatch(disk) => degraded \/ Comparing("control") \/ Comparing("job")
  /\ runtime = Policy(disk) \/ Mismatch(disk) \/ Repairing("control") \/ Repairing("job")

-----------------------------------------------------------------------------
(* Databases. *)

LEMMA NewRowType ==
  ASSUME NEW r \in Requests, NEW row \in Row PROVE NewRow(r, row) \in Row
  <1>1. NoRow \in Row
    BY DEF NoRow, Row
  <1>2. InsertedRow(r) \in Row
    BY DEF InsertedRow, Row, Requests
  <1>3. UpdatedRow(r, row) \in Row
    <2>1. row.revision + 1 \in Nat /\ r.value \in Values \cup {None}
      BY DEF Row, Requests
    <2>2. [row EXCEPT !.value = r.value] \in Row
      BY <2>1 DEF Row
    <2>3. [row EXCEPT !.value = r.value].revision = row.revision
      BY DEF Row
    <2>4. \A old \in Row : old.revision + 1 \in Nat => [old EXCEPT !.revision = @ + 1] \in Row
      BY DEF Row
    <2>5. QED
      BY <2>1, <2>2, <2>3, <2>4 DEF UpdatedRow
  <1>4. ActivatedRow(r, row) \in Row
    BY DEF ActivatedRow, Row, Requests
  <1>5. QED
    BY <1>1, <1>2, <1>3, <1>4 DEF NewRow, Requests

LEMMA TargetType ==
  ASSUME NEW r \in Requests, r.op # "create" => r.id \in Ids, NEW rows, Accepted(r, rows)
  PROVE  Target(r, rows) \in Ids
  BY DEF Accepted, Target

LEMMA MutatedDatabase ==
  ASSUME NEW d, Sound(d), NEW r \in Requests, r.op # "create" => r.id \in Ids,
         Accepted(r, d.rows[r.table])
  PROVE  Sound(Mutated(d, r)) /\ Mutated(d, r).rows = MutatedRows(d.rows, r)
  <1> DEFINE i0 == Target(r, d.rows[r.table])
             new == NewRow(r, d.rows[r.table][i0])
             rows == MutatedRows(d.rows, r)
  <1>1. i0 \in Ids /\ r.table \in Tables
    BY TargetType DEF Requests
  <1>2. d.rows \in [Tables -> [Ids -> Row]] /\ d.rows[r.table][i0] \in Row
    BY <1>1 DEF Sound, Databases
  <1>3. new \in Row
    BY <1>2, NewRowType
  <1>4. rows = [d.rows EXCEPT ![r.table][i0] = new]
    BY <1>1, <1>2 DEF MutatedRows
  <1> HIDE DEF i0, new
  <1>5. rows \in [Tables -> [Ids -> Row]]
    BY <1>1, <1>2, <1>3, <1>4
  <1> HIDE DEF rows
  <1>6. Mutated(d, r) = [d EXCEPT !.rows = rows]
    BY DEF Mutated, rows
  <1>7. QED
    BY <1>5, <1>6 DEF Sound, Databases, rows

LEMMA AdvancedDatabase ==
  ASSUME NEW d, Sound(d), NEW e, e = [d EXCEPT !.desired = @ + 1]
  PROVE  /\ Sound(e) /\ Mismatch(e) /\ e.rows = d.rows /\ e.applied = d.applied
         /\ e.desired = d.desired + 1
  BY DEF Sound, Databases, Mismatch

LEMMA RecordedDatabase ==
  ASSUME NEW d, Sound(d), NEW applied \in BOOLEAN, NEW e, e = Recorded(d, applied)
  PROVE  /\ Sound(e) /\ e.rows = d.rows
         /\ applied => ~Mismatch(e)
         /\ ~applied => e = d
  <1>1. CASE applied
    <2>1. e = [d EXCEPT !.applied = d.desired]
      BY <1>1 DEF Recorded
    <2>2. e = [rows |-> d.rows, desired |-> d.desired, applied |-> d.desired]
      BY <2>1 DEF Sound, Databases
    <2>3. d.rows \in [Tables -> [Ids -> Row]] /\ d.desired \in Nat
      BY DEF Sound, Databases
    <2>4. e \in Databases /\ e.applied <= e.desired
      BY <2>2, <2>3 DEF Databases
    <2>5. Sound(e) /\ e.rows = d.rows /\ ~Mismatch(e)
      BY <2>2, <2>4 DEF Sound, Mismatch
    <2>6. QED
      BY <1>1, <2>5, Zenon
  <1>2. CASE ~applied
    <2>1. e = [d EXCEPT !.applied = d.applied]
      BY <1>2 DEF Recorded
    <2>2. e = d
      BY <2>1 DEF Sound, Databases
    <2>3. QED
      BY <1>2, <2>2
  <1>3. QED
    BY <1>1, <1>2

LEMMA SamePolicy ==
  ASSUME NEW d, NEW e, d.rows = e.rows PROVE Policy(d) = Policy(e)
  BY DEF Policy

-----------------------------------------------------------------------------
(* Threads and connections, one step at a time. *)

Elsewhere == {"idle", "mutate", "refresh", "reload.begin", "reload.done"}

LEMMA Moved ==
  ASSUME TypeInv, NEW t \in Threads, NEW l, Goto(t, l)
  PROVE  pc'[t] = l /\ \A u \in Threads \ {t} : pc'[u] = pc[u]
  BY DEF TypeInv, Goto

LEMMA BeginShape ==
  ASSUME TypeInv, NEW t \in Threads, NEW c \in Conns, NEW d, BeginWith(t, c, d)
  PROVE  /\ depth'[c] = depth[c] + 1 /\ view'[c] = d
         /\ \A e \in Conns \ {c} : depth[e] = 0 /\ depth'[e] = 0 /\ view'[e] = view[e]
         /\ users' = (IF c = "main" THEN users \cup {t} ELSE users)
         /\ disk' = disk /\ broken' = broken /\ (astray' <=> astray \/ users' = Threads)
  BY DEF TypeInv, BeginWith, CanWrite, Using

LEMMA RollbackShape ==
  ASSUME TypeInv, NEW t \in Threads, NEW c \in Conns, Rollback(t, c)
  PROVE  /\ depth'[c] = 0 /\ view'[c] = disk
         /\ \A e \in Conns \ {c} : depth'[e] = depth[e] /\ view'[e] = view[e]
         /\ users' = (IF c = "main" THEN {} ELSE users)
         /\ disk' = disk
         /\ (broken' <=> broken \/ (c = "main" /\ users \ {t} # {}))
         /\ (astray' <=> astray \/ (c = "main" /\ users \ {t} # {}))
  BY DEF TypeInv, Rollback

LEMMA CommitShape ==
  ASSUME TypeInv, NEW c \in Conns, Commit(c)
  PROVE  /\ depth[c] > 0 /\ depth'[c] = depth[c] - 1 /\ view' = view /\ broken' = broken
         /\ disk' = (IF depth[c] = 1 THEN view[c] ELSE disk)
         /\ \A e \in Conns \ {c} : depth'[e] = depth[e]
         /\ users' = (IF c = "main" /\ depth[c] = 1 THEN {} ELSE users)
  BY DEF TypeInv, Commit

LEMMA PutShape ==
  ASSUME TypeInv, NEW t \in Threads, NEW c \in Conns, NEW d, Put(t, c, d)
  PROVE  /\ depth' = depth /\ broken' = broken
         /\ \A e \in Conns \ {c} : depth[e] = 0 /\ view'[e] = view[e]
         /\ depth[c] > 0 => /\ disk' = disk /\ view'[c] = d
                            /\ users' = (IF c = "main" THEN users \cup {t} ELSE users)
         /\ ~(depth[c] > 0) => disk' = d /\ view' = view /\ users' = users
  BY DEF TypeInv, Put, CanWrite, Using

-----------------------------------------------------------------------------
(* Who is in a transaction. *)

LEMMA StayLock ==
  ASSUME TypeInv, LockInv, NEW t \in Threads, NEW l, Goto(t, l), depth' = depth,
         \/ users' = users
         \/ depth["main"] > 0 /\ users' = users \cup {t},
         pc[t] # "abort" /\ (pc[t] \in Elsewhere => l \in Elsewhere),
         pc[t] \in InChange => l \in InChange \cup {"abort"},
         pc[t] \in InReload => l \in InReload
  PROVE  LockInv'
  <1>1. pc'[t] = l /\ \A u \in Threads \ {t} : pc'[u] = pc[u]
    BY Moved
  <1>2. users' = {} <=> users = {}
    BY DEF LockInv
  <1>3. CASE t = "control"
    BY <1>1, <1>2, <1>3 DEF TypeInv, LockInv, InMain, InChange, InReload, Elsewhere, Threads,
       Labels
  <1>4. CASE t = "job"
    BY <1>1, <1>2, <1>4 DEF TypeInv, LockInv, InMain, InChange, InReload, Elsewhere, Threads,
       Labels
  <1>5. QED
    BY <1>3, <1>4 DEF Threads

LEMMA BeginLock ==
  ASSUME TypeInv, LockInv, NEW t \in Threads, NEW c, NEW d, NEW l, Goto(t, l),
         BeginWith(t, c, d), pc[t] \in Elsewhere,
         \/ c = Own(t) /\ l \in InChange
         \/ c = "main" /\ l \in InReload
  PROVE  LockInv'
  <1>1. pc'[t] = l /\ \A u \in Threads \ {t} : pc'[u] = pc[u]
    BY Moved
  <1>2. c \in Conns
    BY DEF Own, Conns
  <1>3. CASE c = "main"
    <2>1. /\ depth'["main"] = depth["main"] + 1 /\ depth["peer"] = 0 /\ depth'["peer"] = 0
          /\ users' = users \cup {t}
      BY <1>2, <1>3, BeginShape DEF Conns
    <2>2. pc[t] \notin InChange \cup InReload \cup {"abort"} /\ ~InMain(t)
      BY DEF InMain, InChange, InReload, Elsewhere
    <2>3. InMain(t)' /\ t \in users' /\ (t = "job" => l \in InReload)
      BY <1>1, <1>3, <2>1 DEF InMain, Own, Threads
    <2>4. depth["main"] # 2
      BY <2>2 DEF LockInv, Threads
    <2>5. pc'["job"] \in InChange => FALSE
      BY <1>1, <2>1, <2>3 DEF LockInv, Threads, InChange, InReload
    <2>6. CASE depth["main"] = 0
      BY <2>1, <2>3, <2>5, <2>6 DEF LockInv, Threads
    <2>7. CASE depth["main"] = 1
      <3>1. PICK u \in Threads \ {t} : InMain(u) /\ u \in users
        BY <2>2, <2>7 DEF LockInv, Threads
      <3>2. users' = Threads /\ t # u
        BY <2>1, <3>1 DEF Threads, TypeInv
      <3>3. InMain(u)'
        BY <1>1, <2>1, <3>1 DEF InMain
      <3>4. InMain("control")' /\ InMain("job")'
        BY <2>3, <3>2, <3>3 DEF Threads
      <3>5. QED
        BY <2>1, <2>5, <2>7, <3>2, <3>4 DEF LockInv, Threads
    <2>8. QED
      BY <2>4, <2>6, <2>7 DEF LockInv
  <1>4. CASE c # "main"
    <2>1. t = "job" /\ c = "peer" /\ l \in InChange
      BY <1>4 DEF Own, Threads
    <2>2. /\ depth'["peer"] = depth["peer"] + 1 /\ depth["main"] = 0 /\ depth'["main"] = 0
          /\ users' = users
      BY <1>2, <2>1, BeginShape DEF Conns
    <2>3. depth["peer"] = 0
      BY <2>1 DEF LockInv, Elsewhere, InChange
    <2>4. QED
      BY <1>1, <2>1, <2>2, <2>3 DEF TypeInv, LockInv, InMain, InChange, InReload, Threads
  <1>5. QED
    BY <1>3, <1>4

LEMMA RollbackLock ==
  ASSUME TypeInv, LockInv, NEW t \in Threads, NEW c, NEW l, Goto(t, l), Rollback(t, c),
         l \in Elsewhere \cup {"abort"},
         IF pc[t] \in InReload THEN c = "main" ELSE c = Own(t)
  PROVE  LockInv'
  <1>1. pc'[t] = l /\ \A u \in Threads \ {t} : pc'[u] = pc[u]
    BY Moved
  <1>2. c \in Conns
    BY DEF Own, Conns
  <1>3. CASE c = "main"
    <2>1. depth'["main"] = 0 /\ depth'["peer"] = depth["peer"] /\ users' = {}
      BY <1>2, <1>3, RollbackShape DEF Conns
    <2>2. t = "job" => pc[t] \in InReload
      BY <1>3 DEF Own
    <2>3. QED
      BY <1>1, <2>1, <2>2 DEF TypeInv, LockInv, InMain, InChange, InReload, Elsewhere, Threads
  <1>4. CASE c # "main"
    <2>1. t = "job" /\ c = "peer"
      BY <1>4 DEF Own, Threads
    <2>2. depth'["peer"] = 0 /\ depth'["main"] = depth["main"] /\ users' = users
      BY <1>2, <2>1, RollbackShape DEF Conns
    <2>3. QED
      BY <1>1, <2>1, <2>2 DEF TypeInv, LockInv, InMain, InChange, InReload, Elsewhere, Threads
  <1>5. QED
    BY <1>3, <1>4

LEMMA CommitLock ==
  ASSUME TypeInv, LockInv, NEW t \in Threads, NEW c, NEW l, Goto(t, l), Commit(c),
         l \in Elsewhere,
         \/ c = Own(t) /\ pc[t] \in InChange
         \/ c = "main" /\ pc[t] \in InReload
  PROVE  LockInv'
  <1>1. pc'[t] = l /\ \A u \in Threads \ {t} : pc'[u] = pc[u]
    BY Moved
  <1>2. c \in Conns
    BY DEF Own, Conns
  <1>3. CASE c = "main"
    <2>1. /\ depth["main"] > 0 /\ depth'["main"] = depth["main"] - 1
          /\ depth'["peer"] = depth["peer"]
          /\ users' = (IF depth["main"] = 1 THEN {} ELSE users)
      BY <1>2, <1>3, CommitShape DEF Conns
    <2>2. t = "job" => pc[t] \in InReload
      BY <1>3 DEF Own
    <2>3. CASE t = "control"
      BY <1>1, <2>1, <2>3 DEF TypeInv, LockInv, InMain, InChange, InReload, Elsewhere, Threads
    <2>4. CASE t = "job"
      BY <1>1, <2>1, <2>2, <2>4 DEF TypeInv, LockInv, InMain, InChange, InReload, Elsewhere,
         Threads
    <2>5. QED
      BY <2>3, <2>4 DEF Threads
  <1>4. CASE c # "main"
    <2>1. t = "job" /\ c = "peer"
      BY <1>4 DEF Own, Threads
    <2>2. /\ depth'["peer"] = depth["peer"] - 1 /\ depth["peer"] > 0
          /\ depth'["main"] = depth["main"] /\ users' = users
      BY <1>2, <2>1, CommitShape DEF Conns
    <2>3. QED
      BY <1>1, <2>1, <2>2 DEF TypeInv, LockInv, InMain, InChange, InReload, Elsewhere, Threads
  <1>5. QED
    BY <1>3, <1>4

-----------------------------------------------------------------------------
(* What was promised. *)

LEMMA StayDurable ==
  ASSUME TypeInv, LockInv, DurableInv, NEW t \in Threads, NEW l, Goto(t, l), depth' = depth,
         \/ users' = users
         \/ depth["main"] > 0 /\ users' = users \cup {t} /\ InMain(t),
         UNCHANGED promised, disk'.rows = disk.rows,
         \A c \in Conns : view'[c].rows = view[c].rows,
         \A u \in Threads : pc[u] \in InChange => request'[u] = request[u],
         pc[t] # "abort" /\ (pc[t] \in Elsewhere => l \in Elsewhere),
         pc[t] \in InChange => l \in InChange \cup {"abort"},
         pc[t] \in InReload => l \in InReload
  PROVE  DurableInv'
  <1>1. pc'[t] = l /\ \A u \in Threads \ {t} : pc'[u] = pc[u]
    BY Moved
  <1>2. users' = users
    BY DEF DurableInv, Threads
  <1>3. \A u \in Threads : pc'[u] \in InChange =>
          pc[u] \in InChange /\ Acknowledged(u)' = Acknowledged(u)
    BY <1>1 DEF Acknowledged, InChange, InReload, Elsewhere, TypeInv, Labels
  <1>4. \A u \in Threads : InMain(u)' <=> InMain(u)
    BY <1>1, <1>2 DEF InMain, InChange, InReload, Elsewhere, TypeInv, Labels,
       DurableInv, Threads
  <1>5. view'["main"].rows = view["main"].rows /\ view'["peer"].rows = view["peer"].rows
    BY DEF Conns
  <1>6. pc'["control"] \notin InChange \cup {"abort"} => pc["control"] \notin InChange \cup {"abort"}
    BY <1>1 DEF InChange, Elsewhere, Threads, TypeInv, Labels, InReload
  <1>7. QED
    BY <1>2, <1>3, <1>4, <1>5, <1>6 DEF DurableInv, Threads

(* A change begins. *)
LEMMA MutateDurable ==
  ASSUME TypeInv, LockInv, DurableInv, NEW t \in Threads, NEW d, pc[t] = "mutate",
         Goto(t, "publish"), BeginWith(t, Own(t), d),
         d.rows = MutatedRows(Seen(Own(t)).rows, request[t]),
         UNCHANGED <<promised, request>>
  PROVE  DurableInv'
  <1>1. pc'[t] = "publish" /\ \A u \in Threads \ {t} : pc'[u] = pc[u]
    BY Moved
  <1>2. \A u \in Threads : Acknowledged(u)' = Acknowledged(u)
    BY DEF Acknowledged
  <1>3. CASE t = "control"
    <2>1. /\ depth'["main"] = depth["main"] + 1 /\ depth["peer"] = 0 /\ view'["main"] = d
          /\ users' = users \cup {t} /\ disk' = disk
      BY <1>3, BeginShape DEF Own, Conns
    <2>2. Seen("main").rows = promised
      BY <1>3 DEF Seen, DurableInv, LockInv, Threads, InChange, TypeInv, Conns
    <2>3. d.rows = Acknowledged("control")
      BY <1>3, <2>2 DEF Acknowledged, Own
    <2>4. pc["job"] \notin InChange /\ pc'["job"] = pc["job"]
      BY <1>1, <1>3, <2>1 DEF LockInv, Threads
    <2>5. ~InMain("control") /\ InMain("control")' /\ (InMain("job")' <=> InMain("job"))
      BY <1>1, <1>3, <2>4 DEF InMain, InChange, InReload, Threads
    <2>6. InMain("job") => depth["main"] = 1
      BY <2>5 DEF DurableInv, LockInv
    <2>7. users' # Threads => disk.rows = promised
      BY <2>1 DEF DurableInv
    <2>8. QED
      BY <1>1, <1>2, <1>3, <2>1, <2>3, <2>4, <2>5, <2>6, <2>7 DEF DurableInv, InChange
  <1>4. CASE t = "job"
    <2>1. /\ depth["main"] = 0 /\ depth'["main"] = 0 /\ view'["peer"] = d /\ users' = users
          /\ view'["main"] = view["main"] /\ disk' = disk
          /\ depth'["peer"] = depth["peer"] + 1
      BY <1>4, BeginShape DEF Own, Conns
    <2>2. users = {} /\ disk.rows = promised /\ Seen("peer") = disk
      BY <1>4, <2>1 DEF DurableInv, LockInv, Threads, Seen, InChange, TypeInv, Conns
    <2>3. d.rows = Acknowledged("job")
      BY <1>4, <2>2 DEF Acknowledged, Own
    <2>4. ~InMain("control") /\ ~InMain("job")
      BY <2>2 DEF DurableInv
    <2>5. pc'["control"] = pc["control"]
      BY <1>1, <1>4 DEF Threads
    <2>6. ~InMain("control")' /\ ~InMain("job")' /\ pc'["control"] \notin InChange
      BY <1>1, <1>4, <2>1, <2>2, <2>4, <2>5 DEF InMain, InReload
    <2>7. QED
      BY <1>2, <2>1, <2>2, <2>3, <2>6 DEF DurableInv, Threads
  <1>5. QED
    BY <1>3, <1>4 DEF Threads

(* A reload begins. *)
LEMMA ReloadBeginDurable ==
  ASSUME TypeInv, LockInv, DurableInv, NEW t \in Threads, pc[t] = "reload.begin",
         Goto(t, "reload.load"), BeginWith(t, "main", Seen("main")),
         UNCHANGED <<promised, request>>
  PROVE  DurableInv'
  <1>1. pc'[t] = "reload.load" /\ \A u \in Threads \ {t} : pc'[u] = pc[u]
    BY Moved
  <1>2. /\ depth'["main"] = depth["main"] + 1 /\ depth["peer"] = 0
        /\ users' = users \cup {t} /\ disk' = disk /\ view'["main"] = Seen("main")
    BY BeginShape DEF Conns
  <1>3. \A u \in Threads : Acknowledged(u)' = Acknowledged(u)
    BY DEF Acknowledged
  <1>4. InMain(t)' /\ ~InMain(t) /\ pc["job"] \notin InChange /\ pc'["job"] \notin InChange
    BY <1>1, <1>2 DEF InMain, InReload, InChange, LockInv, Threads
  <1>5. \A u \in Threads \ {t} : InMain(u)' <=> InMain(u)
    BY <1>1, <1>2 DEF InMain
  <1>6. \A u \in Threads : InMain(u) => depth["main"] = 1
    BY <1>4 DEF DurableInv, LockInv, Threads
  <1>7. \A u \in Threads : InMain(u)' => u \in users'
    BY <1>2, <1>4, <1>5 DEF DurableInv, Threads
  <1>8. InMain("control")' /\ InMain("job")' => depth'["main"] = 2
    BY <1>2, <1>4, <1>5, <1>6 DEF Threads
  <1>9. users' # Threads => disk'.rows = promised'
    BY <1>2 DEF DurableInv, TypeInv, Threads
  <1>10. pc'["control"] \in InChange => view'["main"].rows = Acknowledged("control")'
    <2>1. SUFFICES ASSUME pc'["control"] \in InChange
                   PROVE  view'["main"].rows = Acknowledged("control")'
      OBVIOUS
    <2>2. t # "control" /\ pc["control"] \in InChange
      BY <1>1, <2>1 DEF InChange, Threads
    <2>3. depth["main"] > 0
      BY <1>6, <2>2 DEF InMain, Threads
    <2>4. QED
      BY <1>2, <1>3, <2>2, <2>3 DEF DurableInv, Seen, Threads
  <1>11. pc'["control"] \notin InChange \cup {"abort"} \/ ~InMain("control")' =>
           view'["main"].rows = promised'
    <2>1. SUFFICES ASSUME pc'["control"] \notin InChange \cup {"abort"} \/ ~InMain("control")'
                   PROVE  view'["main"].rows = promised
      OBVIOUS
    <2>2. CASE depth["main"] = 0
      BY <1>2, <2>2 DEF DurableInv, LockInv, Seen, Threads
    <2>3. CASE depth["main"] # 0
      <3>1. pc["control"] \notin InChange \cup {"abort"} \/ ~InMain("control")
        BY <1>1, <1>4, <1>5, <2>1 DEF Threads, InChange
      <3>2. depth["main"] > 0
        BY <2>3 DEF LockInv
      <3>3. QED
        BY <1>2, <2>3, <3>1, <3>2 DEF DurableInv, Seen
    <2>4. QED
      BY <2>2, <2>3
  <1>12. QED
    BY <1>4, <1>7, <1>8, <1>9, <1>10, <1>11 DEF DurableInv, Threads

(* Nobody else takes part in what is rolled back. *)
LEMMA RollbackDurable ==
  ASSUME TypeInv, LockInv, DurableInv, NEW t \in Threads, NEW c, NEW l, Goto(t, l),
         Rollback(t, c), ~broken', l \in Elsewhere \cup {"abort"},
         IF pc[t] \in InReload THEN c = "main" ELSE c = Own(t),
         UNCHANGED <<promised, request>>
  PROVE  DurableInv'
  <1>1. pc'[t] = l /\ \A u \in Threads \ {t} : pc'[u] = pc[u]
    BY Moved
  <1>2. c \in Conns
    BY DEF Own, Conns
  <1>3. \A u \in Threads : Acknowledged(u)' = Acknowledged(u)
    BY DEF Acknowledged
  <1>4. pc'[t] \notin InChange \cup InReload
    BY <1>1 DEF InChange, InReload, Elsewhere
  <1>5. CASE c = "main"
    <2>1. /\ depth'["main"] = 0 /\ users' = {} /\ users \ {t} = {} /\ disk' = disk
          /\ view'["peer"] = view["peer"]
      BY <1>2, <1>5, RollbackShape DEF Conns
    <2>2. \A u \in Threads : ~InMain(u)'
      BY <1>1, <1>4, <2>1 DEF InMain, DurableInv, Threads
    <2>3. disk.rows = promised
      BY <2>1 DEF DurableInv, Threads
    <2>4. pc'["control"] \notin InChange
      BY <2>2 DEF InMain, Threads
    <2>5. QED
      BY <1>1, <1>3, <1>4, <2>1, <2>2, <2>3, <2>4 DEF DurableInv, Threads
  <1>6. CASE c # "main"
    <2>1. t = "job" /\ c = "peer" /\ pc[t] \notin InReload
      BY <1>6 DEF Own, Threads
    <2>2. /\ depth'["main"] = depth["main"] /\ users' = users /\ disk' = disk
          /\ view'["main"] = view["main"]
      BY <1>2, <2>1, RollbackShape DEF Conns
    <2>3. \A u \in Threads : InMain(u)' <=> InMain(u)
      BY <1>1, <1>4, <2>1, <2>2 DEF InMain, Threads
    <2>4. QED
      BY <1>1, <1>3, <1>4, <2>1, <2>2, <2>3 DEF DurableInv, Threads
  <1>7. QED
    BY <1>5, <1>6

(* A change is acknowledged. *)
LEMMA FinishDurable ==
  ASSUME TypeInv, LockInv, DurableInv, NEW t \in Threads, pc[t] = "commit",
         Goto(t, "refresh"), Commit(Own(t)), promised' = Acknowledged(t), UNCHANGED request
  PROVE  DurableInv'
  <1>1. pc'[t] = "refresh" /\ \A u \in Threads \ {t} : pc'[u] = pc[u]
    BY Moved
  <1>2. CASE t = "control"
    <2>1. /\ depth["main"] > 0 /\ depth'["main"] = depth["main"] - 1 /\ view' = view
          /\ disk' = (IF depth["main"] = 1 THEN view["main"] ELSE disk)
          /\ users' = (IF depth["main"] = 1 THEN {} ELSE users)
      BY <1>2, CommitShape DEF Own, Conns
    <2>2. InMain("control") /\ ~InMain("control")' /\ (InMain("job")' <=> InMain("job"))
      BY <1>1, <1>2 DEF InMain, InChange, InReload, Threads
    <2>3. view["main"].rows = promised' /\ pc'["job"] \notin InChange
      BY <1>1, <1>2, <2>1 DEF DurableInv, InChange, LockInv, Threads
    <2>4. InMain("job") => depth["main"] = 2
      BY <2>2 DEF DurableInv
    <2>5. depth["main"] = 2 => users = Threads
      BY DEF LockInv
    <2>6. depth["main"] \in {1, 2}
      BY <2>1 DEF LockInv
    <2>7. QED
      BY <1>1, <1>2, <2>1, <2>2, <2>3, <2>4, <2>5, <2>6 DEF DurableInv, InChange, Threads
  <1>3. CASE t = "job"
    <2>1. /\ depth["peer"] = 1 /\ depth["main"] = 0 /\ depth'["main"] = 0 /\ users = {}
          /\ disk' = view["peer"] /\ users' = users /\ view' = view
      BY <1>3, CommitShape DEF Own, Conns, LockInv, InChange
    <2>2. disk'.rows = promised'
      BY <1>3, <2>1 DEF DurableInv, InChange
    <2>3. ~InMain("control") /\ ~InMain("job")
      BY <2>1 DEF DurableInv
    <2>4. ~InMain("control")' /\ ~InMain("job")' /\ pc'["job"] \notin InChange
      BY <1>1, <1>3, <2>1, <2>3 DEF InMain, InReload, InChange, Threads
    <2>5. pc'["control"] \notin InChange
      BY <2>4 DEF InMain
    <2>6. QED
      BY <2>1, <2>2, <2>4, <2>5 DEF DurableInv
  <1>4. QED
    BY <1>2, <1>3 DEF Threads

(* A reload commits its record, or its level of another's change. *)
LEMMA ReloadCommitDurable ==
  ASSUME TypeInv, LockInv, DurableInv, NEW t \in Threads, pc[t] = "reload.commit",
         Goto(t, "reload.done"), Commit("main"), UNCHANGED <<promised, request>>
  PROVE  DurableInv'
  <1>1. pc'[t] = "reload.done" /\ \A u \in Threads \ {t} : pc'[u] = pc[u]
    BY Moved
  <1>2. /\ depth["main"] > 0 /\ depth'["main"] = depth["main"] - 1 /\ view' = view
        /\ disk' = (IF depth["main"] = 1 THEN view["main"] ELSE disk)
        /\ users' = (IF depth["main"] = 1 THEN {} ELSE users)
    BY CommitShape DEF Conns
  <1>3. InMain(t) /\ ~InMain(t)' /\ depth["main"] \in {1, 2} /\ (depth["main"] = 2 => users = Threads)
    BY <1>1, <1>2 DEF InMain, InChange, InReload, LockInv
  <1>4. \A u \in Threads : Acknowledged(u)' = Acknowledged(u)
    BY DEF Acknowledged
  <1>5. pc["job"] \notin InChange /\ pc'["job"] \notin InChange
    BY <1>1, <1>2 DEF LockInv, InChange, Threads
  <1>6. CASE depth["main"] = 1
    <2>1. \A u \in Threads \ {t} : ~InMain(u)
      BY <1>3, <1>6 DEF DurableInv, Threads
    <2>2. view["main"].rows = promised
      BY <1>3, <1>6, <2>1 DEF DurableInv, Threads, InMain, InReload, InChange
    <2>3. \A u \in Threads : ~InMain(u)'
      BY <1>1, <1>2, <1>3, <1>6, <2>1 DEF InMain, Threads
    <2>4. pc'["control"] \notin InChange
      BY <2>3 DEF InMain, Threads
    <2>5. QED
      BY <1>2, <1>5, <1>6, <2>2, <2>3, <2>4 DEF DurableInv, Threads
  <1>7. CASE depth["main"] = 2
    <2>1. \A u \in Threads \ {t} : InMain(u)' <=> InMain(u)
      BY <1>1, <1>2, <1>7 DEF InMain
    <2>2. users' = users /\ users = Threads /\ disk' = disk /\ depth'["main"] = 1
      BY <1>2, <1>3, <1>7
    <2>3. pc'["control"] \in InChange => view'["main"].rows = Acknowledged("control")'
      BY <1>1, <1>2, <1>4 DEF DurableInv, InChange, Threads
    <2>4. pc'["control"] \notin InChange \cup {"abort"} \/ ~InMain("control")' =>
            view'["main"].rows = promised'
      BY <1>1, <1>2, <1>3, <1>7, <2>1 DEF DurableInv, InChange, InReload, Threads, InMain
    <2>5. QED
      BY <1>3, <1>5, <2>1, <2>2, <2>3, <2>4 DEF DurableInv, Threads
  <1>8. QED
    BY <1>3, <1>6, <1>7

-----------------------------------------------------------------------------
(* The database and what the connections see of it. *)

LEMMA DataKept ==
  ASSUME DataInv, NEW t \in Threads, UNCHANGED <<disk, view, users>>,
         \A u \in Threads : pc'[u] = "reload.load" => pc[u] = "reload.load"
  PROVE  DataInv'
  BY DEF DataInv, Sound

LEMMA SeenSound ==
  ASSUME DataInv, NEW c \in Conns PROVE Sound(Seen(c))
  BY DEF DataInv, Seen, Conns

LEMMA PutData ==
  ASSUME TypeInv, LockInv, DataInv, NEW t \in Threads, NEW c \in Conns, NEW d, Sound(d),
         NEW l, Goto(t, l), l # "reload.load", Put(t, c, d)
  PROVE  DataInv'
  <1>1. pc'[t] = l /\ \A u \in Threads \ {t} : pc'[u] = pc[u]
    BY Moved
  <1>2. /\ \A e \in Conns \ {c} : depth[e] = 0 /\ view'[e] = view[e]
        /\ depth[c] > 0 => /\ disk' = disk /\ view'[c] = d
                           /\ users' = (IF c = "main" THEN users \cup {t} ELSE users)
        /\ ~(depth[c] > 0) => disk' = d /\ view' = view /\ users' = users
    BY PutShape
  <1>3. Sound(disk') /\ Sound(view'["main"]) /\ Sound(view'["peer"])
    BY <1>2 DEF DataInv, Conns
  <1>4. ASSUME NEW u \in Threads, users' = {u}, pc'[u] = "reload.load"
        PROVE  view'["main"] = disk'
    <2>1. u # t /\ pc[u] = "reload.load"
      BY <1>1, <1>4
    <2>2. depth[c] > 0
      BY <1>2, <1>4 DEF LockInv, Conns, TypeInv
    <2>3. c # "main"
      BY <1>2, <1>4, <2>1, <2>2
    <2>4. QED
      BY <1>2, <1>4, <2>1, <2>2, <2>3 DEF DataInv, Conns
  <1>5. QED
    BY <1>3, <1>4 DEF DataInv, Sound

LEMMA BeginData ==
  ASSUME TypeInv, LockInv, DataInv, NEW t \in Threads, NEW c \in Conns, NEW d, Sound(d),
         NEW l, Goto(t, l), BeginWith(t, c, d), pc[t] \in Elsewhere,
         l = "reload.load" => d = Seen("main") /\ c = "main"
  PROVE  DataInv'
  <1>1. pc'[t] = l /\ \A u \in Threads \ {t} : pc'[u] = pc[u]
    BY Moved
  <1>2. /\ view'[c] = d /\ disk' = disk
        /\ \A e \in Conns \ {c} : depth[e] = 0 /\ view'[e] = view[e]
        /\ users' = (IF c = "main" THEN users \cup {t} ELSE users)
    BY BeginShape
  <1>3. Sound(disk') /\ Sound(view'["main"]) /\ Sound(view'["peer"])
    BY <1>2 DEF DataInv, Conns
  <1>4. ASSUME NEW u \in Threads, users' = {u}, pc'[u] = "reload.load"
        PROVE  view'["main"] = disk'
    <2>1. c = "main"
      BY <1>2, <1>4 DEF LockInv, Conns
    <2>2. u = t /\ users \subseteq {t} /\ l = "reload.load"
      BY <1>1, <1>2, <1>4, <2>1
    <2>3. ~InMain(t)
      BY DEF InMain, Elsewhere, InChange, InReload
    <2>4. depth["main"] = 0
      BY <2>2, <2>3 DEF LockInv, Threads
    <2>5. QED
      BY <1>2, <2>1, <2>2, <2>4 DEF Seen
  <1>5. QED
    BY <1>3, <1>4 DEF DataInv, Sound

LEMMA RollbackData ==
  ASSUME TypeInv, LockInv, DataInv, NEW t \in Threads, NEW c \in Conns,
         NEW l, Goto(t, l), l # "reload.load", Rollback(t, c)
  PROVE  DataInv'
  <1>1. pc'[t] = l /\ \A u \in Threads \ {t} : pc'[u] = pc[u]
    BY Moved
  <1>2. /\ view'[c] = disk /\ disk' = disk
        /\ \A e \in Conns \ {c} : view'[e] = view[e]
        /\ users' = (IF c = "main" THEN {} ELSE users)
    BY RollbackShape
  <1>3. Sound(disk') /\ Sound(view'["main"]) /\ Sound(view'["peer"])
    BY <1>2 DEF DataInv, Conns
  <1>4. ASSUME NEW u \in Threads, users' = {u}, pc'[u] = "reload.load"
        PROVE  view'["main"] = disk'
    BY <1>1, <1>2, <1>4 DEF DataInv, Conns
  <1>5. QED
    BY <1>3, <1>4 DEF DataInv, Sound

LEMMA CommitData ==
  ASSUME TypeInv, LockInv, DataInv, NEW t \in Threads, NEW c \in Conns,
         NEW l, Goto(t, l), l # "reload.load", Commit(c)
  PROVE  DataInv'
  <1>1. pc'[t] = l /\ \A u \in Threads \ {t} : pc'[u] = pc[u]
    BY Moved
  <1>2. /\ depth[c] > 0 /\ view' = view
        /\ disk' = (IF depth[c] = 1 THEN view[c] ELSE disk)
        /\ users' = (IF c = "main" /\ depth[c] = 1 THEN {} ELSE users)
    BY CommitShape
  <1>3. Sound(disk') /\ Sound(view'["main"]) /\ Sound(view'["peer"])
    BY <1>2 DEF DataInv, Conns
  <1>4. ASSUME NEW u \in Threads PROVE users' # {u}
    <2>1. CASE c = "main"
      BY <1>2, <2>1 DEF LockInv, Threads
    <2>2. CASE c = "peer"
      BY <1>2, <2>2 DEF LockInv
    <2>3. QED
      BY <2>1, <2>2 DEF Conns
  <1>5. QED
    BY <1>3, <1>4 DEF DataInv, Sound

-----------------------------------------------------------------------------
(* What the runtime has, and whether it is known. *)

(* The connection of a thread's transaction. *)
Conn(t) == IF pc[t] \in InReload THEN "main" ELSE Own(t)

LEMMA InsideAlone ==
  ASSUME TypeInv, LockInv, HealthInv, NEW t \in Threads, pc[t] \in InChange \cup InReload
  PROVE  Alone(t, Conn(t))
  <1>1. CASE Conn(t) = "main"
    <2>1. InMain(t) /\ t \in users
      BY <1>1 DEF Conn, Own, InMain, HealthInv, Threads
    <2>2. users = {t} /\ depth["peer"] = 0
      BY <2>1 DEF HealthInv, TypeInv, Threads, LockInv
    <2>3. ASSUME NEW u \in Threads \ {t} PROVE pc[u] \notin InChange \cup InReload
      BY <2>2 DEF HealthInv, InMain, LockInv, Threads
    <2>4. QED
      BY <1>1, <2>2, <2>3 DEF Alone
  <1>2. CASE Conn(t) # "main"
    <2>1. t = "job" /\ pc["job"] \in InChange /\ depth["main"] = 0 /\ users = {}
      BY <1>2 DEF Conn, Own, Threads, LockInv
    <2>2. QED
      BY <1>2, <2>1 DEF Alone, HealthInv, InMain, Threads
  <1>3. QED
    BY <1>1, <1>2

LEMMA AloneShape ==
  ASSUME TypeInv, LockInv, NEW t \in Threads, pc[t] \in InChange \cup InReload,
         Alone(t, Conn(t))
  PROVE  /\ Conn(t) \in Conns /\ depth[Conn(t)] = 1 /\ Seen(Conn(t)) = view[Conn(t)]
         /\ CanWrite(Conn(t)) /\ users \subseteq {t}
         /\ Conn(t) = "main" => users = {t}
  <1>1. CASE Conn(t) = "main"
    <2>1. users = {t}
      BY <1>1 DEF Alone
    <2>2. depth["main"] = 1 /\ depth["peer"] = 0
      BY <2>1 DEF LockInv, Threads
    <2>3. QED
      BY <1>1, <2>1, <2>2 DEF Seen, CanWrite, Conns
  <1>2. CASE Conn(t) # "main"
    <2>1. t = "job" /\ Conn(t) = "peer" /\ pc["job"] \in InChange
      BY <1>2 DEF Conn, Own, Threads
    <2>2. depth["peer"] = 1 /\ depth["main"] = 0 /\ users = {}
      BY <2>1 DEF LockInv
    <2>3. QED
      BY <2>1, <2>2 DEF Seen, CanWrite, Conns
  <1>3. QED
    BY <1>1, <1>2

LEMMA ChangeKept ==
  ASSUME NEW u \in Threads, ChangeOf(u), pc'[u] = pc[u], ok'[u] = ok[u],
         view'[Own(u)] = view[Own(u)], ticket'[u] = ticket[u], runtime' = runtime
  PROVE  ChangeOf(u)'
  BY DEF ChangeOf, Mismatch

LEMMA ReloadKept ==
  ASSUME NEW u \in Threads, ReloadOf(u), pc'[u] = pc[u], ok'[u] = ok[u],
         view'["main"] = view["main"], disk' = disk, runtime' = runtime
  PROVE  ReloadOf(u)'
  BY DEF ReloadOf, Recorded

LEMMA NoneOf ==
  ASSUME NEW u \in Threads, pc'[u] \notin InChange \cup InReload
  PROVE  ChangeOf(u)' /\ ReloadOf(u)'
  BY DEF ChangeOf, ReloadOf, InChange, InReload

(* A thread by itself is in a change. *)
LEMMA ChangeHealth ==
  ASSUME NEW t \in Threads, pc'[t] \in InChange \cup {"abort"}, ChangeOf(t)',
         users' \subseteq {t}, InMain(t)' => t \in users',
         \A u \in Threads \ {t} : pc'[u] \notin InChange \cup InReload
  PROVE  HealthInv'
  <1>1. users' # Threads
    BY DEF Threads
  <1>2. \A u \in Threads : InMain(u)' => u \in users'
    BY DEF InMain
  <1>3. pc'[t] \notin InReload
    BY DEF InReload, InChange
  <1>4. \A u \in Threads : ChangeOf(u)' /\ ReloadOf(u)'
    BY <1>3, NoneOf DEF ReloadOf, InReload
  <1>5. Comparing(t)' /\ Repairing(t)'
    BY DEF Comparing, Repairing
  <1>6. QED
    BY <1>1, <1>2, <1>4, <1>5 DEF HealthInv, Threads

(* A thread elsewhere does not disturb the other one. *)
LEMMA ElsewhereHealth ==
  ASSUME TypeInv, HealthInv, NEW t \in Threads, NEW l \in Elsewhere \cup {"abort"},
         pc'[t] = l, \A u \in Threads \ {t} : pc'[u] = pc[u],
         \A u \in Threads \ {t} : ok'[u] = ok[u] /\ ticket'[u] = ticket[u],
         \A u \in Threads \ {t} : InMain(u) => u \in users',
         \A u \in Threads \ {t} : pc[u] \in InReload => view'["main"] = view["main"],
         \A u \in Threads \ {t} : pc[u] \in InChange => view'[Own(u)] = view[Own(u)],
         users' \subseteq users, l # "abort" \/ t \notin users',
         UNCHANGED <<disk, runtime>>,
         Mismatch(disk) => degraded' \/ Comparing("control")' \/ Comparing("job")',
         Repairing(t) => Repairing(t)' \/ runtime = Policy(disk)
                           \/ (\E u \in Threads \ {t} : Repairing(u)'),
         \A u \in Threads \ {t} : why'[u] = why[u]
  PROVE  HealthInv'
  <1>1. users' # Threads
    BY DEF TypeInv, HealthInv, Threads
  <1>2. ~InMain(t)' /\ pc'[t] \notin InChange \cup InReload
    BY DEF InMain, InChange, InReload, Elsewhere
  <1>3. \A u \in Threads \ {t} : InMain(u)' => InMain(u)
    BY DEF InMain
  <1>4. ASSUME NEW u \in Threads \ {t} PROVE ChangeOf(u)' /\ ReloadOf(u)'
    <2>1. CASE pc[u] \in InReload
      <3>1. ReloadOf(u)'
        BY <2>1, ReloadKept DEF HealthInv
      <3>2. ChangeOf(u)'
        BY <2>1 DEF ChangeOf, InReload
      <3>3. QED
        BY <3>1, <3>2
    <2>2. CASE pc[u] \in InChange
      <3>1. ChangeOf(u)'
        BY <2>2, ChangeKept DEF HealthInv
      <3>2. ReloadOf(u)'
        BY <2>2 DEF ReloadOf, InChange
      <3>3. QED
        BY <3>1, <3>2
    <2>3. CASE pc[u] \notin InChange \cup InReload
      BY <2>3, NoneOf
    <2>4. QED
      BY <2>1, <2>2, <2>3
  <1>5. ChangeOf(t)' /\ ReloadOf(t)'
    BY <1>2, NoneOf
  <1>6. \A u \in Threads \ {t} : Repairing(u) => Repairing(u)'
    BY DEF Repairing
  <1>7. runtime' = Policy(disk)' \/ Mismatch(disk)' \/ Repairing("control")' \/ Repairing("job")'
    <2>1. Policy(disk)' = Policy(disk) /\ (Mismatch(disk)' <=> Mismatch(disk))
      BY DEF Policy, Mismatch
    <2>2. QED
      BY <1>6, <2>1 DEF HealthInv, Threads
  <1>8. Mismatch(disk)' => degraded' \/ Comparing("control")' \/ Comparing("job")'
    BY DEF Mismatch
  <1>9. QED
    BY <1>1, <1>2, <1>3, <1>4, <1>5, <1>7, <1>8 DEF HealthInv

-----------------------------------------------------------------------------
(* Every step keeps the invariant. *)

ManagementInv ==
  /\ TypeInv /\ LockInv /\ RequestInv /\ DataInv
  /\ ~broken => DurableInv
  /\ ~astray => HealthInv

LEMMA RequestKept ==
  ASSUME RequestInv, UNCHANGED <<screen, request>>,
         \A u \in Threads : pc'[u] = "mutate" => pc[u] = "mutate"
  PROVE  RequestInv'
  BY DEF RequestInv

(* The refusals of Mutate, and the ends of Abort and of a failed reload *)
LEMMA RollbackPreserves ==
  ASSUME ManagementInv, NEW t \in Threads, NEW c, NEW l, Goto(t, l), Rollback(t, c),
         l \in Elsewhere, l # "mutate",
         IF pc[t] \in InReload THEN c = "main" ELSE c = Own(t),
         TypeInv', UNCHANGED <<runtime, screen, request, ticket, promised>>,
         \A u \in Threads \ {t} : ok'[u] = ok[u] /\ why'[u] = why[u],
         ~astray => (Mismatch(disk) => degraded' \/ Comparing("control")' \/ Comparing("job")'),
         Repairing(t) => Repairing(t)'
  PROVE  ManagementInv'
  <1> USE DEF ManagementInv
  <1>1. pc'[t] = l /\ \A u \in Threads \ {t} : pc'[u] = pc[u]
    BY Moved
  <1>2. c \in Conns
    BY DEF Own, Conns
  <1>3. LockInv' /\ DataInv'
    BY <1>2, RollbackLock, RollbackData DEF Elsewhere
  <1>4. RequestInv'
    BY <1>1, RequestKept
  <1>5. ASSUME ~broken' PROVE DurableInv'
    <2>1. ~broken
      BY <1>2, <1>5, RollbackShape
    <2>2. QED
      BY <1>5, <2>1, RollbackDurable
  <1>6. ASSUME ~astray' PROVE HealthInv'
    <2>1. /\ ~astray /\ (c = "main" => users \subseteq {t}) /\ disk' = disk
          /\ users' = (IF c = "main" THEN {} ELSE users)
          /\ \A e \in Conns \ {c} : view'[e] = view[e]
      BY <1>2, <1>6, RollbackShape
    <2>2. HealthInv
      BY <2>1
    <2>3. \A u \in Threads \ {t} : InMain(u) => u \in users'
      BY <2>1, <2>2 DEF HealthInv
    <2>4. \A u \in Threads \ {t} : pc[u] \in InReload => view'["main"] = view["main"]
      BY <2>1, <2>2 DEF HealthInv, InMain, Conns
    <2>5. \A u \in Threads \ {t} : pc[u] \in InChange => view'[Own(u)] = view[Own(u)]
      <3>1. SUFFICES ASSUME NEW u \in Threads \ {t}, pc[u] \in InChange PROVE Own(u) # c
        BY <2>1 DEF Own, Conns
      <3>2. CASE u = "control"
        <4>1. "control" \in users
          BY <2>2, <3>1, <3>2 DEF HealthInv, InMain
        <4>2. QED
          BY <2>1, <3>1, <3>2, <4>1 DEF Own
      <3>3. CASE u = "job"
        BY <3>1, <3>3 DEF Own, Threads
      <3>4. QED
        BY <3>2, <3>3 DEF Threads
    <2>6. users' \subseteq users /\ l # "abort"
      BY <2>1 DEF Elsewhere
    <2>7. Mismatch(disk) => degraded' \/ Comparing("control")' \/ Comparing("job")'
      BY <2>1
    <2>8. \A u \in Threads \ {t} : ok'[u] = ok[u] /\ ticket'[u] = ticket[u]
      OBVIOUS
    <2>9. QED
      BY <1>1, <2>1, <2>2, <2>3, <2>4, <2>5, <2>6, <2>7, <2>8, ElsewhereHealth
  <1>7. QED
    BY <1>3, <1>4, <1>5, <1>6

(* A step that leaves the database and the runtime alone *)
LEMMA IdlePreserves ==
  ASSUME ManagementInv, NEW t \in Threads, NEW l \in Elsewhere, Goto(t, l),
         pc[t] \in Elsewhere, UNCHANGED <<dbVars, runtime, promised>>, TypeInv', RequestInv',
         \A u \in Threads : pc[u] \in InChange => request'[u] = request[u],
         \A u \in Threads \ {t} : ok'[u] = ok[u] /\ ticket'[u] = ticket[u] /\ why'[u] = why[u],
         ~astray' =>
           /\ ~astray /\ (Repairing(t) => Repairing(t)')
           /\ Mismatch(disk) => degraded' \/ Comparing("control")' \/ Comparing("job")'
  PROVE  ManagementInv'
  <1> USE DEF ManagementInv
  <1>1. pc'[t] = l /\ \A u \in Threads \ {t} : pc'[u] = pc[u]
    BY Moved
  <1>2. UNCHANGED <<disk, depth, view, users, broken>>
    BY DEF dbVars
  <1>3. LockInv'
    BY <1>2, StayLock DEF Elsewhere, InChange, InReload
  <1>4. DataInv'
    BY <1>1, <1>2, DataKept DEF Elsewhere
  <1>5. ASSUME ~broken' PROVE DurableInv'
    BY <1>2, <1>5, StayDurable DEF Elsewhere, InChange, InReload
  <1>6. ASSUME ~astray' PROVE HealthInv'
    <2>1. HealthInv
      BY <1>6
    <2>2. Mismatch(disk) => degraded' \/ Comparing("control")' \/ Comparing("job")'
      BY <1>6
    <2>3. \A u \in Threads \ {t} : InMain(u) => u \in users'
      BY <1>2, <2>1 DEF HealthInv
    <2>4. Repairing(t) => Repairing(t)'
      BY <1>6
    <2>5. QED
      BY <1>1, <1>2, <2>1, <2>2, <2>3, <2>4, ElsewhereHealth DEF Elsewhere
  <1>7. QED
    BY <1>3, <1>4, <1>5, <1>6

LEMMA MutatePreserves ==
  ASSUME ManagementInv, NEW t \in Threads, Mutate(t) PROVE ManagementInv'
  <1> USE DEF ManagementInv
  <1> DEFINE r == request[t]
             c == Own(t)
  <1>1. /\ pc[t] = "mutate" /\ c \in Conns
        /\ UNCHANGED <<runtime, degraded, screen, request, ticket, ok, why, promised>>
    BY DEF Mutate, Own, Conns
  <1>2. pc[t] \in Elsewhere /\ pc[t] \notin InReload /\ ~Repairing(t)
    BY <1>1 DEF Elsewhere, InReload, Repairing, InChange
  <1>3. CASE /\ CanWrite(c) /\ Accepted(r, Seen(c).rows[r.table])
             /\ BeginWith(t, c, Mutated(Seen(c), r)) /\ Goto(t, "publish")
    <2>1. TypeInv'
      BY <1>1, <1>3 DEF TypeInv, BeginWith, Goto, Labels, InChange, Using, Conns
    <2>2. pc'[t] = "publish" /\ \A u \in Threads \ {t} : pc'[u] = pc[u]
      BY <1>3, Moved
    <2>3. r \in Requests /\ (r.op # "create" => r.id \in Ids)
      BY <1>1 DEF RequestInv
    <2>4. /\ Sound(Mutated(Seen(c), r))
          /\ Mutated(Seen(c), r).rows = MutatedRows(Seen(c).rows, r)
      BY <1>1, <1>3, <2>3, SeenSound, MutatedDatabase
    <2>5. LockInv'
      BY <1>2, <1>3, BeginLock DEF InChange
    <2>6. DataInv'
      BY <1>1, <1>2, <1>3, <2>4, BeginData
    <2>7. RequestInv'
      BY <1>1, <2>2, RequestKept
    <2>8. ASSUME ~broken' PROVE DurableInv'
      <3>1. ~broken
        BY <1>1, <1>3, <2>8, BeginShape
      <3>2. QED
        BY <1>1, <1>3, <2>4, <3>1, MutateDurable
    <2>9. ASSUME ~astray' PROVE HealthInv'
      <3>1. /\ ~astray /\ users' # Threads
            /\ users' = (IF c = "main" THEN users \cup {t} ELSE users)
            /\ \A e \in Conns \ {c} : depth[e] = 0
        BY <1>1, <1>3, <2>9, BeginShape
      <3>2. users = {}
        <4>1. CASE c = "main"
          <5>1. ~InMain(t)
            BY <1>2 DEF InMain, Elsewhere, InChange, InReload
          <5>2. users \subseteq {t}
            BY <3>1, <4>1 DEF TypeInv, Threads
          <5>3. depth["main"] = 0
            BY <5>1, <5>2 DEF LockInv, Threads
          <5>4. QED
            BY <5>3 DEF LockInv
        <4>2. CASE c # "main"
          BY <3>1, <4>2 DEF LockInv, Conns
        <4>3. QED
          BY <4>1, <4>2
      <3>3. \A u \in Threads \ {t} : pc'[u] \notin InChange \cup InReload
        BY <2>2, <3>1, <3>2 DEF HealthInv, InMain, LockInv, Threads, Own, Conns
      <3>4. ChangeOf(t)' /\ users' \subseteq {t} /\ (InMain(t)' => t \in users')
        BY <2>2, <3>1, <3>2 DEF ChangeOf, InMain, InReload, Own, Threads
      <3>5. QED
        BY <2>2, <3>3, <3>4, ChangeHealth DEF InChange
    <2>10. QED
      BY <2>1, <2>5, <2>6, <2>7, <2>8, <2>9
  <1>4. CASE Rollback(t, c) /\ Goto(t, "idle")
    <2>1. TypeInv'
      BY <1>1, <1>4 DEF TypeInv, Rollback, Goto, Labels, Conns
    <2>2. pc'[t] = "idle" /\ \A u \in Threads \ {t} : pc'[u] = pc[u]
      BY <1>4, Moved
    <2>3. \A u \in Threads : Comparing(u) => Comparing(u)'
      BY <1>1, <2>2 DEF Comparing, InChange, InReload
    <2>4. ~astray => (Mismatch(disk) => degraded' \/ Comparing("control")' \/ Comparing("job")')
      BY <1>1, <2>3 DEF HealthInv, Threads
    <2>5. QED
      BY <1>1, <1>2, <1>4, <2>1, <2>4, RollbackPreserves DEF Elsewhere
  <1>5. CASE Goto(t, "idle") /\ UNCHANGED <<dbVars, astray>>
    <2>1. TypeInv'
      BY <1>1, <1>5 DEF TypeInv, Goto, Labels, dbVars
    <2>2. pc'[t] = "idle" /\ \A u \in Threads \ {t} : pc'[u] = pc[u]
      BY <1>5, Moved
    <2>3. RequestInv'
      BY <1>1, <2>2, RequestKept
    <2>4. \A u \in Threads : Comparing(u) => Comparing(u)'
      BY <1>1, <2>2 DEF Comparing, InChange, InReload
    <2>5. ~astray' => (Mismatch(disk) => degraded' \/ Comparing("control")' \/ Comparing("job")')
      BY <1>1, <1>5, <2>4 DEF HealthInv, Threads
    <2>6. QED
      BY <1>1, <1>2, <1>5, <2>1, <2>3, <2>5, IdlePreserves DEF Elsewhere
  <1>6. QED
    BY <1>3, <1>4, <1>5 DEF Mutate

(* A change is given up. *)
LEMMA AbandonPreserves ==
  ASSUME ManagementInv, NEW t \in Threads, pc[t] \in InChange, Goto(t, "abort"),
         UNCHANGED <<dbVars, astray, runtime, degraded, screen, request, ticket, ok, why, promised>>
  PROVE  ManagementInv'
  <1> USE DEF ManagementInv
  <1>1. UNCHANGED <<disk, depth, view, users, broken>>
    BY DEF dbVars
  <1>2. pc'[t] = "abort" /\ \A u \in Threads \ {t} : pc'[u] = pc[u]
    BY Moved
  <1>3. TypeInv'
    BY <1>1 DEF TypeInv, Goto, Labels
  <1>4. pc[t] \notin Elsewhere \cup InReload \cup {"abort"}
    BY DEF InChange, InReload, Elsewhere
  <1>5. LockInv' /\ DataInv' /\ RequestInv'
    BY <1>1, <1>2, <1>4, StayLock, DataKept, RequestKept DEF InChange
  <1>6. ASSUME ~broken' PROVE DurableInv'
    BY <1>1, <1>4, <1>6, StayDurable
  <1>7. ASSUME ~astray' PROVE HealthInv'
    <2>1. HealthInv /\ Alone(t, Conn(t))
      BY <1>7, InsideAlone
    <2>2. users' = users /\ users \subseteq {t} /\ (InMain(t)' => t \in users')
      BY <1>1, <1>2, <2>1, AloneShape DEF InMain, InChange, InReload
    <2>3. ChangeOf(t)'
      BY <1>2 DEF ChangeOf
    <2>4. QED
      BY <1>2, <2>1, <2>2, <2>3, ChangeHealth DEF Alone
  <1>8. QED
    BY <1>3, <1>5, <1>6, <1>7

LEMMA PublishPreserves ==
  ASSUME ManagementInv, NEW t \in Threads, Publish(t) PROVE ManagementInv'
  <1> USE DEF ManagementInv
  <1> DEFINE c == Own(t)
             d == [Seen(c) EXCEPT !.desired = @ + 1]
  <1>1. /\ pc[t] = "publish" /\ c \in Conns /\ c = Conn(t)
        /\ UNCHANGED <<degraded, screen, request, why, promised>>
    BY DEF Publish, Own, Conns, Conn, InReload
  <1>2. pc[t] \in InChange /\ pc[t] \notin Elsewhere \cup InReload
    BY <1>1 DEF InChange, InReload, Elsewhere
  <1>3. Sound(d) /\ Mismatch(d) /\ d.rows = Seen(c).rows
    BY <1>1, SeenSound, AdvancedDatabase
  <1> HIDE DEF d
  <1>4. CASE /\ Put(t, c, d) /\ Goto(t, "record")
             /\ ticket' = [ticket EXCEPT ![t] = d.desired]
             /\ \/ Runs(t, c, d) /\ ok' = [ok EXCEPT ![t] = TRUE]
                \/ ok' = [ok EXCEPT ![t] = FALSE] /\ UNCHANGED <<runtime, astray>>
    <2>1. TypeInv'
      BY <1>1, <1>4 DEF TypeInv, Put, Goto, Labels, InChange, Using, Runs, Conns
    <2>2. pc'[t] = "record" /\ \A u \in Threads \ {t} : pc'[u] = pc[u]
      BY <1>4, Moved
    <2>3. /\ depth' = depth /\ broken' = broken
          /\ \A e \in Conns \ {c} : depth[e] = 0 /\ view'[e] = view[e]
          /\ depth[c] > 0 => /\ disk' = disk /\ view'[c] = d
                             /\ users' = (IF c = "main" THEN users \cup {t} ELSE users)
          /\ ~(depth[c] > 0) => disk' = d /\ view' = view /\ users' = users
      BY <1>1, <1>4, PutShape
    <2>4. users' = users \/ (depth["main"] > 0 /\ users' = users \cup {t} /\ InMain(t))
      BY <1>2, <2>3 DEF InMain, Own, Threads
    <2>5. LockInv'
      BY <1>2, <1>4, <2>3, <2>4, StayLock DEF InChange
    <2>6. DataInv' /\ RequestInv'
      BY <1>1, <1>3, <1>4, <2>2, PutData, RequestKept
    <2>7. ASSUME ~broken' PROVE DurableInv'
      <3>1. DurableInv
        BY <2>3, <2>7
      <3>2. disk'.rows = disk.rows /\ \A e \in Conns : view'[e].rows = view[e].rows
        BY <1>3, <2>3 DEF Seen
      <3>3. QED
        BY <1>1, <1>2, <1>4, <2>3, <2>4, <3>1, <3>2, StayDurable DEF InChange
    <2>8. ASSUME ~astray' PROVE HealthInv'
      <3>1. Alone(t, c)
        <4>1. Alone(t, c) \/ ~astray
          BY <1>4, <2>8 DEF Runs
        <4>2. HealthInv => Alone(t, c)
          BY <1>1, <1>2, InsideAlone
        <4>3. QED
          BY <4>1, <4>2
      <3>2. depth[c] = 1 /\ users \subseteq {t} /\ (c = "main" => users = {t})
        BY <1>1, <1>2, <3>1, AloneShape
      <3>3. view'[c] = d /\ users' = users
        BY <2>3, <3>2
      <3>4. ticket'[t] = d.desired /\ (ok'[t] => runtime' = Policy(d))
        BY <1>4 DEF Runs, TypeInv
      <3>5. ChangeOf(t)'
        BY <1>3, <2>2, <3>3, <3>4 DEF ChangeOf, Mismatch, Policy
      <3>6. InMain(t)' => t \in users'
        BY <2>2, <3>2, <3>3 DEF InMain, InReload, Own
      <3>7. \A u \in Threads \ {t} : pc'[u] \notin InChange \cup InReload
        BY <2>2, <3>1 DEF Alone
      <3>8. QED
        BY <2>2, <3>2, <3>3, <3>5, <3>6, <3>7, ChangeHealth DEF InChange
    <2>9. QED
      BY <2>1, <2>5, <2>6, <2>7, <2>8
  <1>5. CASE Goto(t, "abort") /\ UNCHANGED <<dbVars, runtime, astray, ticket, ok>>
    BY <1>1, <1>2, <1>5, AbandonPreserves
  <1>6. QED
    BY <1>4, <1>5 DEF Publish, d

LEMMA RecordPreserves ==
  ASSUME ManagementInv, NEW t \in Threads, Record(t) PROVE ManagementInv'
  <1> USE DEF ManagementInv
  <1> DEFINE c == Own(t)
             d == Recorded(Seen(c), ok[t])
  <1>1. /\ pc[t] = "record" /\ c \in Conns /\ c = Conn(t)
        /\ UNCHANGED <<runtime, degraded, screen, request, ticket, ok, why, promised, astray>>
    BY DEF Record, Own, Conns, Conn, InReload, ghostVars
  <1>2. pc[t] \in InChange /\ pc[t] \notin Elsewhere \cup InReload
    BY <1>1 DEF InChange, InReload, Elsewhere
  <1>3. /\ Sound(d) /\ d.rows = Seen(c).rows
        /\ ok[t] => ~Mismatch(d)
        /\ ~ok[t] => d = Seen(c)
    BY <1>1, SeenSound, RecordedDatabase DEF TypeInv
  <1> HIDE DEF d
  <1>4. CASE Put(t, c, d) /\ Goto(t, "commit")
    <2>1. TypeInv'
      BY <1>1, <1>4 DEF TypeInv, Put, Goto, Labels, InChange, Using, Conns
    <2>2. pc'[t] = "commit" /\ \A u \in Threads \ {t} : pc'[u] = pc[u]
      BY <1>4, Moved
    <2>3. /\ depth' = depth /\ broken' = broken
          /\ \A e \in Conns \ {c} : depth[e] = 0 /\ view'[e] = view[e]
          /\ depth[c] > 0 => /\ disk' = disk /\ view'[c] = d
                             /\ users' = (IF c = "main" THEN users \cup {t} ELSE users)
          /\ ~(depth[c] > 0) => disk' = d /\ view' = view /\ users' = users
      BY <1>1, <1>4, PutShape
    <2>4. users' = users \/ (depth["main"] > 0 /\ users' = users \cup {t} /\ InMain(t))
      BY <1>2, <2>3 DEF InMain, Own, Threads
    <2>5. LockInv'
      BY <1>2, <1>4, <2>3, <2>4, StayLock DEF InChange
    <2>6. DataInv' /\ RequestInv'
      BY <1>1, <1>3, <1>4, <2>2, PutData, RequestKept
    <2>7. ASSUME ~broken' PROVE DurableInv'
      <3>1. DurableInv
        BY <2>3, <2>7
      <3>2. disk'.rows = disk.rows /\ \A e \in Conns : view'[e].rows = view[e].rows
        BY <1>3, <2>3 DEF Seen
      <3>3. QED
        BY <1>1, <1>2, <1>4, <2>3, <2>4, <3>1, <3>2, StayDurable DEF InChange
    <2>8. ASSUME ~astray' PROVE HealthInv'
      <3>1. HealthInv /\ Alone(t, c)
        BY <1>1, <1>2, <2>8, InsideAlone
      <3>2. /\ depth[c] = 1 /\ users \subseteq {t} /\ (c = "main" => users = {t})
            /\ Seen(c) = view[c]
        BY <1>1, <1>2, <3>1, AloneShape
      <3>3. view'[c] = d /\ users' = users
        BY <2>3, <3>2
      <3>4. Mismatch(view[c]) /\ (ok[t] => runtime = Policy(view[c]))
        BY <1>1, <3>1 DEF HealthInv, ChangeOf
      <3>5. Policy(d) = Policy(view[c])
        BY <1>3, <3>2, SamePolicy
      <3>6. ChangeOf(t)'
        BY <1>1, <1>3, <2>2, <3>2, <3>3, <3>4, <3>5 DEF ChangeOf, Mismatch, Policy
      <3>7. InMain(t)' => t \in users'
        BY <2>2, <3>2, <3>3 DEF InMain, InReload, Own
      <3>8. \A u \in Threads \ {t} : pc'[u] \notin InChange \cup InReload
        BY <2>2, <3>1 DEF Alone
      <3>9. QED
        BY <2>2, <3>2, <3>3, <3>6, <3>7, <3>8, ChangeHealth DEF InChange
    <2>9. QED
      BY <2>1, <2>5, <2>6, <2>7, <2>8
  <1>5. CASE Goto(t, "abort") /\ UNCHANGED dbVars
    BY <1>1, <1>2, <1>5, AbandonPreserves
  <1>6. QED
    BY <1>4, <1>5 DEF Record, d

LEMMA FinishPreserves ==
  ASSUME ManagementInv, NEW t \in Threads, Finish(t) PROVE ManagementInv'
  <1> USE DEF ManagementInv
  <1> DEFINE c == Own(t)
  <1>1. /\ pc[t] = "commit" /\ c \in Conns /\ c = Conn(t)
        /\ UNCHANGED <<runtime, degraded, screen, request, ticket, ok, why>>
    BY DEF Finish, Own, Conns, Conn, InReload
  <1>2. pc[t] \in InChange /\ pc[t] \notin Elsewhere \cup InReload
    BY <1>1 DEF InChange, InReload, Elsewhere
  <1>3. CASE Commit(c) /\ promised' = Acknowledged(t) /\ Goto(t, "refresh") /\ UNCHANGED astray
    <2>1. TypeInv'
      BY <1>1, <1>3 DEF TypeInv, Commit, Goto, Labels, Conns
    <2>2. pc'[t] = "refresh" /\ \A u \in Threads \ {t} : pc'[u] = pc[u]
      BY <1>3, Moved
    <2>3. /\ view' = view /\ broken' = broken
          /\ disk' = (IF depth[c] = 1 THEN view[c] ELSE disk)
          /\ users' = (IF c = "main" /\ depth[c] = 1 THEN {} ELSE users)
      BY <1>1, <1>3, CommitShape
    <2>4. LockInv' /\ DataInv' /\ RequestInv'
      BY <1>1, <1>2, <1>3, <2>2, CommitLock, CommitData, RequestKept DEF Elsewhere
    <2>5. ASSUME ~broken' PROVE DurableInv'
      BY <1>1, <1>3, <2>3, <2>5, FinishDurable
    <2>6. ASSUME ~astray' PROVE HealthInv'
      <3>1. HealthInv /\ Alone(t, c)
        BY <1>1, <1>2, <1>3, <2>6, InsideAlone
      <3>2. depth[c] = 1 /\ users \subseteq {t} /\ (c = "main" => users = {t})
        BY <1>1, <1>2, <3>1, AloneShape
      <3>3. disk' = view[c] /\ users' = {}
        BY <2>3, <3>1, <3>2 DEF Alone
      <3>4. \A u \in Threads : pc'[u] \notin InChange \cup InReload
        BY <2>2, <3>1 DEF Alone, InChange, InReload
      <3>5. \A u \in Threads : ~InMain(u)' /\ ChangeOf(u)' /\ ReloadOf(u)'
        BY <3>3, <3>4, NoneOf DEF InMain
      <3>6. Comparing(t)'
        BY <2>2 DEF Comparing
      <3>7. runtime' = Policy(disk)' \/ Mismatch(disk)'
        <4>1. runtime = Policy(view[c]) \/ Mismatch(view[c])
          BY <1>1, <3>1 DEF HealthInv, ChangeOf
        <4>2. QED
          BY <1>1, <3>3, <4>1 DEF Policy, Mismatch
      <3>8. QED
        BY <3>3, <3>5, <3>6, <3>7 DEF HealthInv, Threads
    <2>7. QED
      BY <2>1, <2>4, <2>5, <2>6
  <1>4. CASE depth[c] = 0 /\ Goto(t, "abort") /\ UNCHANGED <<dbVars, ghostVars>>
    BY <1>1, <1>2, <1>4, AbandonPreserves DEF ghostVars
  <1>5. CASE Rollback(t, c) /\ Goto(t, "abort") /\ UNCHANGED promised
    <2>1. TypeInv'
      BY <1>1, <1>5 DEF TypeInv, Rollback, Goto, Labels, Conns
    <2>2. pc'[t] = "abort" /\ \A u \in Threads \ {t} : pc'[u] = pc[u]
      BY <1>5, Moved
    <2>3. LockInv' /\ DataInv' /\ RequestInv'
      BY <1>1, <1>2, <1>5, <2>2, RollbackLock, RollbackData, RequestKept
    <2>4. /\ disk' = disk /\ users' = (IF c = "main" THEN {} ELSE users)
          /\ (broken => broken') /\ (astray => astray')
      BY <1>1, <1>5, RollbackShape
    <2>5. ASSUME ~broken' PROVE DurableInv'
      BY <1>1, <1>2, <1>5, <2>4, <2>5, RollbackDurable
    <2>6. ASSUME ~astray' PROVE HealthInv'
      <3>1. HealthInv /\ Alone(t, c)
        BY <1>1, <1>2, <2>4, <2>6, InsideAlone
      <3>2. users' = {}
        BY <2>4, <3>1 DEF Alone
      <3>3. \A u \in Threads : pc'[u] \notin InChange \cup InReload
        BY <2>2, <3>1 DEF Alone, InChange, InReload
      <3>4. \A u \in Threads : ~InMain(u)' /\ ChangeOf(u)' /\ ReloadOf(u)'
        BY <3>2, <3>3, NoneOf DEF InMain
      <3>5. Comparing(t)' /\ Repairing(t)'
        BY <2>2 DEF Comparing, Repairing
      <3>6. QED
        BY <3>2, <3>4, <3>5 DEF HealthInv, Threads
    <2>7. QED
      BY <2>1, <2>3, <2>5, <2>6
  <1>6. QED
    BY <1>3, <1>4, <1>5 DEF Finish

(* What a thread elsewhere reads of the revisions is what is stored, or    *)
(* the other thread is going to compare them itself.                       *)
LEMMA ElsewhereReads ==
  ASSUME TypeInv, LockInv, HealthInv, NEW t \in Threads, pc[t] \in Elsewhere
  PROVE  Seen(Own(t)) = disk \/ \E u \in Threads \ {t} : pc[u] \in InReload
  <1>1. CASE t = "control"
    <2>1. CASE depth["main"] > 0
      <3>1. ~InMain("control")
        BY <1>1 DEF InMain, Elsewhere, InChange, InReload
      <3>2. InMain("job")
        BY <2>1, <3>1 DEF LockInv
      <3>3. QED
        BY <1>1, <3>2 DEF InMain, Threads
    <2>2. CASE ~(depth["main"] > 0)
      BY <1>1, <2>2 DEF Seen, Own
    <2>3. QED
      BY <2>1, <2>2
  <1>2. CASE t = "job"
    BY <1>2 DEF LockInv, Elsewhere, InChange, Seen, Own
  <1>3. QED
    BY <1>1, <1>2 DEF Threads

LEMMA RefreshHealthPreserves ==
  ASSUME ManagementInv, NEW t \in Threads, RefreshHealth(t) PROVE ManagementInv'
  <1> USE DEF ManagementInv
  <1>1. /\ pc[t] = "refresh" /\ Goto(t, "idle") /\ degraded' = Mismatch(Seen(Own(t)))
        /\ UNCHANGED <<dbVars, runtime, screen, request, ticket, ok, why, promised, astray>>
    BY DEF RefreshHealth, ghostVars
  <1>2. pc'[t] = "idle" /\ \A u \in Threads \ {t} : pc'[u] = pc[u]
    BY <1>1, Moved
  <1>3. TypeInv'
    BY <1>1 DEF TypeInv, Goto, Labels, dbVars, Mismatch
  <1>4. RequestInv'
    BY <1>1, <1>2, RequestKept
  <1>5. pc[t] \in Elsewhere /\ ~Repairing(t)
    BY <1>1 DEF Elsewhere, Repairing, InChange
  <1>6. ~astray' => (Mismatch(disk) => degraded' \/ Comparing("control")' \/ Comparing("job")')
    <2>1. SUFFICES ASSUME ~astray, Mismatch(disk)
                   PROVE  degraded' \/ \E u \in Threads : Comparing(u)'
      BY <1>1 DEF Threads
    <2>2. CASE Seen(Own(t)) = disk
      BY <1>1, <2>1, <2>2
    <2>3. CASE \E u \in Threads \ {t} : pc[u] \in InReload
      BY <1>2, <2>3 DEF Comparing
    <2>4. QED
      BY <1>5, <2>1, <2>2, <2>3, ElsewhereReads
  <1>7. QED
    BY <1>1, <1>3, <1>4, <1>5, <1>6, IdlePreserves DEF Elsewhere

LEMMA AbortPreserves ==
  ASSUME ManagementInv, NEW t \in Threads, Abort(t) PROVE ManagementInv'
  <1> USE DEF ManagementInv
  <1>1. /\ pc[t] = "abort" /\ Goto(t, "reload.begin") /\ Rollback(t, Own(t))
        /\ why' = [why EXCEPT ![t] = "abort"]
        /\ UNCHANGED <<runtime, degraded, screen, request, ticket, ok, promised>>
    BY DEF Abort
  <1>2. /\ pc'[t] = "reload.begin" /\ \A u \in Threads \ {t} : pc'[u] = pc[u]
        /\ why'[t] = "abort" /\ \A u \in Threads \ {t} : why'[u] = why[u]
    BY <1>1, Moved DEF TypeInv
  <1>3. TypeInv'
    BY <1>1 DEF TypeInv, Rollback, Goto, Labels, Conns
  <1>4. Comparing(t)' /\ Repairing(t)'
    BY <1>2 DEF Comparing, Repairing
  <1>5. Comparing("control")' \/ Comparing("job")'
    BY <1>4 DEF Threads
  <1>6. pc[t] \notin InReload
    BY <1>1 DEF InReload
  <1>7. QED
    BY <1>1, <1>2, <1>3, <1>4, <1>5, <1>6, RollbackPreserves DEF Elsewhere

LEMMA ReloadDonePreserves ==
  ASSUME ManagementInv, NEW t \in Threads, ReloadDone(t) PROVE ManagementInv'
  <1> USE DEF ManagementInv
  <1>1. /\ pc[t] = "reload.done" /\ Goto(t, "idle")
        /\ UNCHANGED <<dbVars, runtime, screen, request, ticket, ok, why, promised, astray>>
    BY DEF ReloadDone, ghostVars
  <1>2. pc'[t] = "idle" /\ \A u \in Threads \ {t} : pc'[u] = pc[u]
    BY <1>1, Moved
  <1>3. \/ degraded' = degraded /\ why[t] = "ipc"
        \/ degraded' = TRUE
        \/ degraded' = Mismatch(Seen(Own(t)))
    BY DEF ReloadDone
  <1>4. degraded' \in BOOLEAN
    BY <1>3 DEF TypeInv, Mismatch
  <1>5. TypeInv'
    BY <1>1, <1>4 DEF TypeInv, Goto, Labels, dbVars
  <1>6. RequestInv'
    BY <1>1, <1>2, RequestKept
  <1>7. pc[t] \in Elsewhere /\ ~Repairing(t)
    BY <1>1 DEF Elsewhere, Repairing, InChange
  <1>8. ~astray' => (Mismatch(disk) => degraded' \/ Comparing("control")' \/ Comparing("job")')
    <2>1. SUFFICES ASSUME ~astray, Mismatch(disk)
                   PROVE  degraded' \/ \E u \in Threads : Comparing(u)'
      BY <1>1 DEF Threads
    <2>2. CASE degraded' = degraded /\ why[t] = "ipc"
      <3>1. ~Comparing(t)
        BY <1>1, <2>2 DEF Comparing, InChange, InReload
      <3>2. \A u \in Threads \ {t} : Comparing(u) => Comparing(u)'
        BY <1>1, <1>2 DEF Comparing
      <3>3. QED
        BY <2>1, <2>2, <3>1, <3>2 DEF HealthInv, Threads
    <2>3. CASE degraded' = Mismatch(Seen(Own(t)))
      <3>1. CASE Seen(Own(t)) = disk
        BY <2>1, <2>3, <3>1
      <3>2. CASE \E u \in Threads \ {t} : pc[u] \in InReload
        BY <1>2, <3>2 DEF Comparing
      <3>3. QED
        BY <1>7, <2>1, <3>1, <3>2, ElsewhereReads
    <2>4. QED
      BY <1>3, <2>2, <2>3
  <1>9. QED
    BY <1>1, <1>5, <1>6, <1>7, <1>8, IdlePreserves DEF Elsewhere

LEMMA ReloadBeginPreserves ==
  ASSUME ManagementInv, NEW t \in Threads, ReloadBegin(t) PROVE ManagementInv'
  <1> USE DEF ManagementInv
  <1>1. /\ pc[t] = "reload.begin" /\ "main" \in Conns
        /\ UNCHANGED <<runtime, degraded, screen, request, ticket, why, promised>>
    BY DEF ReloadBegin, Conns
  <1>2. pc[t] \in Elsewhere
    BY <1>1 DEF Elsewhere
  <1>3. CASE BeginWith(t, "main", Seen("main")) /\ Goto(t, "reload.load") /\ UNCHANGED ok
    <2>1. TypeInv'
      BY <1>1, <1>3 DEF TypeInv, BeginWith, Goto, Labels, InReload, Using, Conns
    <2>2. pc'[t] = "reload.load" /\ \A u \in Threads \ {t} : pc'[u] = pc[u]
      BY <1>3, Moved
    <2>3. LockInv'
      BY <1>2, <1>3, BeginLock DEF InReload
    <2>4. DataInv' /\ RequestInv'
      BY <1>1, <1>2, <1>3, <2>2, BeginData, SeenSound, RequestKept
    <2>5. /\ disk' = disk /\ users' = users \cup {t} /\ broken' = broken
          /\ (astray' <=> astray \/ users' = Threads) /\ view'["main"] = Seen("main")
          /\ depth["peer"] = 0
      BY <1>1, <1>3, BeginShape DEF Conns
    <2>6. ASSUME ~broken' PROVE DurableInv'
      BY <1>1, <1>3, <2>5, <2>6, ReloadBeginDurable
    <2>7. ASSUME ~astray' PROVE HealthInv'
      <3>1. HealthInv /\ users' # Threads
        BY <2>5, <2>7
      <3>2. ~InMain(t)
        BY <1>2 DEF InMain, Elsewhere, InChange, InReload
      <3>3. users \subseteq {t}
        BY <2>5, <3>1 DEF TypeInv, Threads
      <3>4. depth["main"] = 0
        BY <3>2, <3>3 DEF LockInv, Threads
      <3>5. users = {} /\ users' = {t} /\ view'["main"] = disk
        BY <2>5, <3>4 DEF LockInv, Seen
      <3>6. \A u \in Threads \ {t} : pc'[u] \notin InChange \cup InReload /\ ~InMain(u)'
        BY <2>2, <2>5, <3>1, <3>5 DEF HealthInv, InMain, LockInv, Threads
      <3>7. ChangeOf(t)' /\ ReloadOf(t)' /\ \A u \in Threads \ {t} : ChangeOf(u)' /\ ReloadOf(u)'
        BY <2>2, <2>5, <3>5, <3>6, NoneOf DEF ChangeOf, ReloadOf
      <3>8. Comparing(t)' /\ \A u \in Threads : Repairing(u) => Repairing(u)'
        BY <1>1, <2>2 DEF Comparing, Repairing, InReload, InChange
      <3>9. Comparing("control")' \/ Comparing("job")'
        BY <3>8 DEF Threads
      <3>10. runtime' = Policy(disk)' \/ Mismatch(disk)' \/ Repairing("control")' \/ Repairing("job")'
        <4>1. Policy(disk)' = Policy(disk) /\ (Mismatch(disk)' <=> Mismatch(disk))
          BY <2>5 DEF Policy, Mismatch
        <4>2. QED
          BY <1>1, <3>1, <3>8, <4>1 DEF HealthInv, Threads
      <3>11. QED
        BY <3>1, <3>5, <3>6, <3>7, <3>9, <3>10 DEF HealthInv
    <2>8. QED
      BY <2>1, <2>3, <2>4, <2>6, <2>7
  <1>4. CASE NotLoaded(t) /\ Goto(t, "reload.done") /\ UNCHANGED dbVars
    <2>1. /\ (astray' <=> astray \/ why[t] = "abort") /\ ok' \in [Threads -> BOOLEAN]
          /\ \A u \in Threads \ {t} : ok'[u] = ok[u]
      BY <1>4 DEF NotLoaded, TypeInv
    <2>2. TypeInv'
      BY <1>1, <1>4, <2>1 DEF TypeInv, Goto, Labels, dbVars, NotLoaded
    <2>3. pc'[t] = "reload.done" /\ \A u \in Threads \ {t} : pc'[u] = pc[u]
      BY <1>4, Moved
    <2>4. RequestInv'
      BY <1>1, <2>3, RequestKept
    <2>5. ~astray' =>
            /\ ~astray /\ (Repairing(t) => Repairing(t)')
            /\ Mismatch(disk) => degraded' \/ Comparing("control")' \/ Comparing("job")'
      <3>1. SUFFICES ASSUME ~astray'
                     PROVE  /\ ~astray /\ ~Repairing(t)
                            /\ Mismatch(disk) => degraded' \/ Comparing("control")' \/ Comparing("job")'
        OBVIOUS
      <3>2. ~astray /\ why[t] # "abort" /\ ~Repairing(t) /\ ~Comparing(t)
        BY <1>1, <2>1, <3>1 DEF Repairing, Comparing, InChange, InReload
      <3>3. \A u \in Threads \ {t} : Comparing(u) => Comparing(u)'
        BY <1>1, <2>3 DEF Comparing
      <3>4. QED
        BY <1>1, <3>2, <3>3 DEF HealthInv, Threads
    <2>6. QED
      BY <1>1, <1>2, <1>4, <2>1, <2>2, <2>4, <2>5, IdlePreserves DEF Elsewhere
  <1>5. QED
    BY <1>3, <1>4 DEF ReloadBegin

(* A reload by itself, between its load and its commit *)
LEMMA ReloadHealth ==
  ASSUME NEW t \in Threads, pc'[t] \in InReload, ReloadOf(t)', users' = {t},
         \A u \in Threads \ {t} : pc'[u] \notin InChange \cup InReload,
         runtime' = Policy(disk)' \/ Mismatch(disk)' \/ Repairing("control")' \/ Repairing("job")'
  PROVE  HealthInv'
  <1>1. users' # Threads
    BY DEF Threads
  <1>2. \A u \in Threads : InMain(u)' => u \in users'
    BY DEF InMain
  <1>3. pc'[t] \notin InChange
    BY DEF InReload, InChange
  <1>4. \A u \in Threads : ChangeOf(u)' /\ ReloadOf(u)'
    BY <1>3, NoneOf DEF ChangeOf, InChange
  <1>5. Comparing(t)'
    BY DEF Comparing
  <1>6. QED
    BY <1>1, <1>2, <1>4, <1>5 DEF HealthInv, Threads

LEMMA ReloadLoadPreserves ==
  ASSUME ManagementInv, NEW t \in Threads, ReloadLoad(t) PROVE ManagementInv'
  <1> USE DEF ManagementInv
  <1>1. /\ pc[t] = "reload.load" /\ "main" \in Conns /\ Conn(t) = "main" /\ Goto(t, "reload.record")
        /\ UNCHANGED <<disk, depth, view, users, broken>>
        /\ UNCHANGED <<degraded, screen, request, ticket, why, promised>>
    BY DEF ReloadLoad, Conns, Conn, InReload, dbVars
  <1>2. pc[t] \in InReload /\ pc[t] \notin Elsewhere \cup InChange \cup {"abort"}
    BY <1>1 DEF InChange, InReload, Elsewhere
  <1>3. pc'[t] = "reload.record" /\ \A u \in Threads \ {t} : pc'[u] = pc[u]
    BY <1>1, Moved
  <1>4. \/ Runs(t, "main", Seen("main")) /\ ok' = [ok EXCEPT ![t] = TRUE]
        \/ NotLoaded(t) /\ UNCHANGED runtime
    BY DEF ReloadLoad
  <1>5. TypeInv'
    BY <1>1, <1>4 DEF TypeInv, Goto, Labels, InReload, Runs, NotLoaded
  <1>6. LockInv' /\ DataInv' /\ RequestInv'
    BY <1>1, <1>2, <1>3, StayLock, DataKept, RequestKept DEF InReload
  <1>7. ASSUME ~broken' PROVE DurableInv'
    BY <1>1, <1>2, <1>7, StayDurable DEF InReload
  <1>8. ASSUME ~astray' PROVE HealthInv'
    <2>1. Alone(t, "main")
      <3>1. Alone(t, "main") \/ ~astray
        BY <1>4, <1>8 DEF Runs, NotLoaded
      <3>2. HealthInv => Alone(t, "main")
        BY <1>1, <1>2, InsideAlone
      <3>3. QED
        BY <3>1, <3>2
    <2>2. users = {t} /\ Seen("main") = view["main"]
      BY <1>1, <1>2, <2>1, AloneShape
    <2>3. view["main"] = disk
      BY <1>1, <2>2 DEF DataInv
    <2>4. \A u \in Threads \ {t} : pc'[u] \notin InChange \cup InReload
      BY <1>3, <2>1 DEF Alone
    <2>5. Policy(disk)' = Policy(disk) /\ (Mismatch(disk)' <=> Mismatch(disk))
      BY <1>1 DEF Policy, Mismatch
    <2>6. CASE Runs(t, "main", Seen("main")) /\ ok' = [ok EXCEPT ![t] = TRUE]
      <3>1. runtime' = Policy(disk)'
        BY <2>2, <2>3, <2>5, <2>6 DEF Runs
      <3>2. ReloadOf(t)'
        BY <1>1, <1>3, <2>3, <3>1 DEF ReloadOf
      <3>3. QED
        BY <1>1, <1>3, <2>2, <2>4, <3>1, <3>2, ReloadHealth DEF InReload
    <2>7. CASE NotLoaded(t) /\ UNCHANGED runtime
      <3>1. ~astray /\ why[t] # "abort" /\ ~ok'[t]
        BY <1>8, <2>7 DEF NotLoaded, TypeInv
      <3>2. ReloadOf(t)'
        BY <1>1, <1>3, <2>3, <3>1 DEF ReloadOf
      <3>3. \A u \in Threads : Repairing(u) => Repairing(u)'
        BY <1>1, <1>3, <3>1 DEF Repairing, InChange
      <3>4. runtime' = Policy(disk)' \/ Mismatch(disk)' \/ Repairing("control")' \/ Repairing("job")'
        BY <2>5, <2>7, <3>1, <3>3 DEF HealthInv, Threads
      <3>5. QED
        BY <1>1, <1>3, <2>2, <2>4, <3>2, <3>4, ReloadHealth DEF InReload
    <2>8. QED
      BY <1>4, <2>6, <2>7
  <1>9. QED
    BY <1>5, <1>6, <1>7, <1>8

(* A reload that could not be recorded *)
LEMMA ReloadFailsPreserves ==
  ASSUME ManagementInv, NEW t \in Threads, pc[t] \in {"reload.record", "reload.commit"},
         Rollback(t, "main"), degraded' = Mismatch(disk), ok' = [ok EXCEPT ![t] = FALSE],
         Goto(t, "reload.done"), UNCHANGED <<runtime, screen, request, ticket, why, promised>>
  PROVE  ManagementInv'
  <1> USE DEF ManagementInv
  <1>1. pc[t] \in InReload /\ ~Repairing(t)
    BY DEF InReload, Repairing, InChange
  <1>2. TypeInv'
    BY DEF TypeInv, Rollback, Goto, Labels, Conns, Mismatch
  <1>3. \A u \in Threads \ {t} : ok'[u] = ok[u]
    BY DEF TypeInv
  <1>4. QED
    BY <1>1, <1>2, <1>3, RollbackPreserves DEF Elsewhere

LEMMA ReloadRecordPreserves ==
  ASSUME ManagementInv, NEW t \in Threads, ReloadRecord(t) PROVE ManagementInv'
  <1> USE DEF ManagementInv
  <1> DEFINE d == Recorded(Seen("main"), ok[t])
  <1>1. /\ pc[t] = "reload.record" /\ "main" \in Conns /\ Conn(t) = "main"
        /\ UNCHANGED <<runtime, screen, request, ticket, why, promised>>
    BY DEF ReloadRecord, Conns, Conn, InReload
  <1>2. pc[t] \in InReload /\ pc[t] \notin Elsewhere \cup InChange \cup {"abort"}
    BY <1>1 DEF InChange, InReload, Elsewhere
  <1>3. Sound(d) /\ d.rows = Seen("main").rows
    BY <1>1, SeenSound, RecordedDatabase DEF TypeInv
  <1>4. CASE Put(t, "main", d) /\ Goto(t, "reload.commit") /\ UNCHANGED <<degraded, ok, astray>>
    <2>1. TypeInv'
      BY <1>1, <1>4 DEF TypeInv, Put, Goto, Labels, InReload, Using, Conns
    <2>2. pc'[t] = "reload.commit" /\ \A u \in Threads \ {t} : pc'[u] = pc[u]
      BY <1>4, Moved
    <2>3. /\ depth' = depth /\ broken' = broken
          /\ \A e \in Conns \ {"main"} : depth[e] = 0 /\ view'[e] = view[e]
          /\ depth["main"] > 0 => disk' = disk /\ view'["main"] = d /\ users' = users \cup {t}
          /\ ~(depth["main"] > 0) => disk' = d /\ view' = view /\ users' = users
      BY <1>1, <1>4, PutShape
    <2>4. users' = users \/ (depth["main"] > 0 /\ users' = users \cup {t} /\ InMain(t))
      BY <1>2, <2>3 DEF InMain
    <2>5. LockInv'
      BY <1>2, <1>4, <2>3, <2>4, StayLock DEF InReload
    <2>6. DataInv' /\ RequestInv'
      BY <1>1, <1>3, <1>4, <2>2, PutData, RequestKept
    <2>7. ASSUME ~broken' PROVE DurableInv'
      <3>1. DurableInv
        BY <2>3, <2>7
      <3>2. disk'.rows = disk.rows /\ \A e \in Conns : view'[e].rows = view[e].rows
        BY <1>3, <2>3 DEF Seen
      <3>3. QED
        BY <1>1, <1>2, <1>4, <2>3, <2>4, <3>1, <3>2, StayDurable DEF InReload
    <2>8. ASSUME ~astray' PROVE HealthInv'
      <3>1. HealthInv /\ Alone(t, "main")
        BY <1>1, <1>2, <1>4, <2>8, InsideAlone
      <3>2. depth["main"] = 1 /\ users = {t} /\ Seen("main") = view["main"]
        BY <1>1, <1>2, <3>1, AloneShape
      <3>3. view'["main"] = d /\ users' = {t} /\ disk' = disk
        BY <2>3, <3>2
      <3>4. view["main"] = disk /\ (ok[t] => runtime = Policy(disk))
        BY <1>1, <3>1 DEF HealthInv, ReloadOf
      <3>5. Policy(disk)' = Policy(disk) /\ (Mismatch(disk)' <=> Mismatch(disk))
        BY <3>3 DEF Policy, Mismatch
      <3>6. ReloadOf(t)'
        BY <1>1, <1>4, <2>2, <3>2, <3>3, <3>4, <3>5 DEF ReloadOf, Recorded
      <3>7. \A u \in Threads : Repairing(u) => Repairing(u)'
        BY <1>1, <2>2 DEF Repairing, InChange
      <3>8. runtime' = Policy(disk)' \/ Mismatch(disk)' \/ Repairing("control")' \/ Repairing("job")'
        BY <1>1, <3>1, <3>5, <3>7 DEF HealthInv, Threads
      <3>9. QED
        BY <2>2, <3>1, <3>3, <3>6, <3>8, ReloadHealth DEF InReload, Alone
    <2>9. QED
      BY <2>1, <2>5, <2>6, <2>7, <2>8
  <1>5. CASE /\ Rollback(t, "main") /\ degraded' = Mismatch(disk)
             /\ ok' = [ok EXCEPT ![t] = FALSE] /\ Goto(t, "reload.done")
    BY <1>1, <1>5, ReloadFailsPreserves
  <1>6. QED
    BY <1>4, <1>5 DEF ReloadRecord

LEMMA ReloadCommitPreserves ==
  ASSUME ManagementInv, NEW t \in Threads, ReloadCommit(t) PROVE ManagementInv'
  <1> USE DEF ManagementInv
  <1>1. /\ pc[t] = "reload.commit" /\ "main" \in Conns /\ Conn(t) = "main" /\ Goto(t, "reload.done")
        /\ UNCHANGED <<runtime, screen, request, ticket, why, promised>>
    BY DEF ReloadCommit, Conns, Conn, InReload
  <1>2. pc[t] \in InReload /\ pc[t] \notin Elsewhere \cup InChange \cup {"abort"}
    BY <1>1 DEF InChange, InReload, Elsewhere
  <1>3. CASE Commit("main") /\ degraded' = Mismatch(view["main"]) /\ UNCHANGED <<ok, astray>>
    <2>1. TypeInv'
      BY <1>1, <1>3 DEF TypeInv, Commit, Goto, Labels, Conns, Mismatch
    <2>2. pc'[t] = "reload.done" /\ \A u \in Threads \ {t} : pc'[u] = pc[u]
      BY <1>1, Moved
    <2>3. /\ view' = view /\ broken' = broken
          /\ disk' = (IF depth["main"] = 1 THEN view["main"] ELSE disk)
          /\ users' = (IF depth["main"] = 1 THEN {} ELSE users)
      BY <1>1, <1>3, CommitShape
    <2>4. LockInv' /\ DataInv' /\ RequestInv'
      BY <1>1, <1>2, <1>3, <2>2, CommitLock, CommitData, RequestKept DEF Elsewhere
    <2>5. ASSUME ~broken' PROVE DurableInv'
      BY <1>1, <1>3, <2>3, <2>5, ReloadCommitDurable
    <2>6. ASSUME ~astray' PROVE HealthInv'
      <3>1. HealthInv /\ Alone(t, "main")
        BY <1>1, <1>2, <1>3, <2>6, InsideAlone
      <3>2. depth["main"] = 1
        BY <1>1, <1>2, <3>1, AloneShape
      <3>3. disk' = view["main"] /\ users' = {}
        BY <2>3, <3>2
      <3>4. \A u \in Threads : pc'[u] \notin InChange \cup InReload
        BY <2>2, <3>1 DEF Alone, InChange, InReload
      <3>5. \A u \in Threads : ~InMain(u)' /\ ChangeOf(u)' /\ ReloadOf(u)'
        BY <3>3, <3>4, NoneOf DEF InMain
      <3>6. Mismatch(disk)' => degraded'
        BY <1>3, <3>3 DEF Mismatch
      <3>7. disk' = Recorded(disk, ok[t]) /\ (ok[t] => runtime = Policy(disk))
        BY <1>1, <3>1, <3>3 DEF HealthInv, ReloadOf
      <3>8. disk'.rows = disk.rows /\ (~ok[t] => disk' = disk)
        BY <3>7, RecordedDatabase DEF TypeInv, DataInv
      <3>9. Policy(disk)' = Policy(disk)
        BY <3>8 DEF Policy
      <3>10. \A u \in Threads : Repairing(u) => Repairing(u)'
        BY <1>1, <2>2 DEF Repairing, InChange
      <3>11. runtime' = Policy(disk)' \/ Mismatch(disk)' \/ Repairing("control")' \/ Repairing("job")'
        <4>1. CASE ok[t]
          BY <1>1, <3>7, <3>9, <4>1
        <4>2. CASE ~ok[t]
          <5>1. Mismatch(disk)' <=> Mismatch(disk)
            BY <3>8, <4>2 DEF Mismatch
          <5>2. QED
            BY <1>1, <3>1, <3>9, <3>10, <5>1 DEF HealthInv, Threads
        <4>3. QED
          BY <4>1, <4>2
      <3>12. QED
        BY <3>3, <3>5, <3>6, <3>11 DEF HealthInv, Threads
    <2>7. QED
      BY <2>1, <2>4, <2>5, <2>6
  <1>4. CASE /\ Rollback(t, "main") /\ degraded' = Mismatch(disk)
             /\ ok' = [ok EXCEPT ![t] = FALSE]
    BY <1>1, <1>4, ReloadFailsPreserves
  <1>5. QED
    BY <1>3, <1>4 DEF ReloadCommit

LEMMA RestartPreserves ==
  ASSUME ManagementInv, Restart PROVE ManagementInv'
  <1> USE DEF ManagementInv
  <1>1. PICK d \in {disk, Recorded(disk, TRUE)} :
          disk' = d /\ view' = [c \in Conns |-> d] /\ degraded' = Mismatch(d)
    BY DEF Restart
  <1>2. Sound(d) /\ d.rows = disk.rows
    BY RecordedDatabase DEF DataInv
  <1>3. /\ runtime' = Policy(disk) /\ users' = {} /\ astray' = FALSE
        /\ (broken' <=> broken \/ users = Threads)
        /\ depth' = [c \in Conns |-> 0] /\ pc' = [u \in Threads |-> "idle"]
        /\ UNCHANGED <<screen, request, ticket, ok, why, promised>>
    BY DEF Restart, TypeInv
  <1>4. TypeInv'
    <2>1. degraded' \in BOOLEAN /\ broken' \in BOOLEAN /\ DOMAIN view' = Conns
      BY <1>1 DEF Restart, Mismatch
    <2>2. depth' \in [Conns -> Nat] /\ pc' \in [Threads -> Labels] /\ users' \subseteq Threads
      BY <1>3 DEF Labels
    <2>3. QED
      BY <1>3, <2>1, <2>2 DEF TypeInv
  <1>5. /\ depth'["main"] = 0 /\ depth'["peer"] = 0 /\ view'["main"] = d /\ view'["peer"] = d
        /\ \A u \in Threads : pc'[u] = "idle"
    BY <1>1, <1>3 DEF Conns
  <1>6. \A u \in Threads : pc'[u] \notin InChange \cup InReload /\ ~InMain(u)'
    BY <1>5 DEF InMain, InChange, InReload
  <1>7. LockInv'
    BY <1>3, <1>5, <1>6 DEF LockInv, Threads
  <1>8. RequestInv' /\ DataInv'
    BY <1>1, <1>2, <1>3, <1>5, RequestKept DEF DataInv, Sound
  <1>9. ASSUME ~broken' PROVE DurableInv'
    BY <1>1, <1>2, <1>3, <1>5, <1>6, <1>9 DEF DurableInv, Threads
  <1>10. HealthInv'
    <2>1. \A u \in Threads : ChangeOf(u)' /\ ReloadOf(u)'
      BY <1>6, NoneOf
    <2>2. runtime' = Policy(disk)'
      BY <1>1, <1>2, <1>3 DEF Policy
    <2>3. Mismatch(disk)' => degraded'
      BY <1>1 DEF Mismatch
    <2>4. QED
      BY <1>3, <1>6, <2>1, <2>2, <2>3 DEF HealthInv, Threads
  <1>11. QED
    BY <1>4, <1>7, <1>8, <1>9, <1>10

LEMMA BeginPreserves ==
  ASSUME ManagementInv, NEW t \in Threads, NEW r \in Requests,
         r.op # "create" => r.id \in Ids, Begin(t, r)
  PROVE  ManagementInv'
  <1> USE DEF ManagementInv
  <1>1. /\ pc[t] = "idle" /\ request' = [request EXCEPT ![t] = r] /\ Goto(t, "mutate")
        /\ UNCHANGED <<dbVars, runtime, degraded, screen, ticket, ok, why, promised, astray>>
    BY DEF Begin, ghostVars
  <1>2. pc'[t] = "mutate" /\ \A u \in Threads \ {t} : pc'[u] = pc[u]
    BY <1>1, Moved
  <1>3. TypeInv'
    BY <1>1 DEF TypeInv, Goto, Labels, dbVars
  <1>4. RequestInv'
    BY <1>1, <1>2 DEF RequestInv
  <1>5. pc[t] \in Elsewhere /\ ~Repairing(t) /\ ~Comparing(t)
    BY <1>1 DEF Elsewhere, Repairing, Comparing, InChange, InReload
  <1>6. \A u \in Threads : pc[u] \in InChange => request'[u] = request[u]
    BY <1>1 DEF InChange, RequestInv
  <1>7. \A u \in Threads : Comparing(u) => Comparing(u)'
    BY <1>1, <1>2, <1>5 DEF Comparing
  <1>8. ~astray' => (Mismatch(disk) => degraded' \/ Comparing("control")' \/ Comparing("job")')
    BY <1>1, <1>7 DEF HealthInv, Threads
  <1>9. QED
    BY <1>1, <1>3, <1>4, <1>5, <1>6, <1>8, IdlePreserves DEF Elsewhere

LEMMA ReloadRequestPreserves ==
  ASSUME ManagementInv, NEW reason \in {"config", "ipc"}, ReloadRequest(reason)
  PROVE  ManagementInv'
  <1> USE DEF ManagementInv
  <1> DEFINE t == "control"
  <1>1. /\ t \in Threads /\ pc[t] = "idle" /\ Goto(t, "reload.begin")
        /\ why' = [why EXCEPT ![t] = reason]
        /\ UNCHANGED <<dbVars, runtime, degraded, screen, request, ticket, ok, promised, astray>>
    BY DEF ReloadRequest, ghostVars, Threads
  <1> HIDE DEF t
  <1>2. /\ pc'[t] = "reload.begin" /\ \A u \in Threads \ {t} : pc'[u] = pc[u] /\ why'[u] = why[u]
    BY <1>1, Moved DEF TypeInv
  <1>3. TypeInv'
    BY <1>1 DEF TypeInv, Goto, Labels, dbVars
  <1>4. RequestInv'
    BY <1>1, <1>2, RequestKept
  <1>5. pc[t] \in Elsewhere /\ ~Repairing(t) /\ ~Comparing(t)
    BY <1>1 DEF Elsewhere, Repairing, Comparing, InChange, InReload
  <1>6. \A u \in Threads : Comparing(u) => Comparing(u)'
    BY <1>2, <1>5 DEF Comparing
  <1>7. ~astray' => (Mismatch(disk) => degraded' \/ Comparing("control")' \/ Comparing("job")')
    BY <1>1, <1>6 DEF HealthInv, Threads
  <1>8. QED
    BY <1>1, <1>2, <1>3, <1>4, <1>5, <1>7, IdlePreserves DEF Elsewhere

LEMMA ReadRowPreserves ==
  ASSUME ManagementInv, NEW o \in Operators, NEW table \in Tables, NEW i \in Ids,
         ReadRow(o, table, i)
  PROVE  ManagementInv'
  <1> USE DEF ManagementInv
  <1> DEFINE row == Seen("main").rows[table][i]
  <1>1. /\ pc' = pc /\ screen' = [screen EXCEPT ![o] = [table |-> table, id |-> i, row |-> row]]
        /\ pc["control"] = "idle" /\ "control" \in Threads
        /\ UNCHANGED <<dbVars, runtime, degraded, request, ticket, ok, why, promised, astray>>
    BY DEF ReadRow, threadVars, ghostVars, Threads
  <1>2. row \in Row
    BY SeenSound DEF Conns, Sound, Databases
  <1> HIDE DEF row
  <1>3. RequestInv'
    BY <1>1, <1>2 DEF RequestInv, Screens
  <1>4. TypeInv' /\ Goto("control", "idle")
    BY <1>1 DEF TypeInv, dbVars, Goto
  <1>5. pc["control"] \in Elsewhere /\ ~Repairing("control")
    BY <1>1 DEF Elsewhere, Repairing, InChange
  <1>6. \A u \in Threads : Comparing(u) => Comparing(u)'
    BY <1>1 DEF Comparing
  <1>7. ~astray' => (Mismatch(disk) => degraded' \/ Comparing("control")' \/ Comparing("job")')
    BY <1>1, <1>6 DEF HealthInv, Threads
  <1>8. QED
    BY <1>1, <1>3, <1>4, <1>5, <1>7, IdlePreserves DEF Elsewhere

(* The requests that begin a change are well-formed. *)
LEMMA CreatePreserves ==
  ASSUME ManagementInv, NEW table \in Tables, NEW v \in Values, Create(table, v)
  PROVE  ManagementInv'
  <1>1. NoRow \in Row
    BY DEF NoRow, Row
  <1>2. PICK r : r = [op |-> "create", table |-> table, id |-> 0, value |-> v, seen |-> NoRow]
    OBVIOUS
  <1>3. r \in Requests /\ r.op = "create" /\ Begin("control", r)
    BY <1>1, <1>2 DEF Requests, Create
  <1>4. QED
    BY <1>3, BeginPreserves DEF Threads

LEMMA EditPreserves ==
  ASSUME ManagementInv, NEW o \in Operators, NEW table \in Tables,
         Remove(o, table) \/ \E v \in Values : Replace(o, table, v)
  PROVE  ManagementInv'
  <1>1. screen[o].table = table
    BY DEF Remove, Replace
  <1>2. screen[o].id \in Ids /\ screen[o].row \in Row
    BY <1>1 DEF ManagementInv, RequestInv, Screens, Tables, None
  <1>3. PICK op \in {"update", "delete"}, v \in Values \cup {None} :
          Begin("control", [op |-> op, table |-> table, id |-> screen[o].id,
                            value |-> v, seen |-> screen[o].row])
    BY DEF Remove, Replace
  <1>4. PICK r : r = [op |-> op, table |-> table, id |-> screen[o].id,
                      value |-> v, seen |-> screen[o].row]
    OBVIOUS
  <1>5. r \in Requests /\ r.id \in Ids /\ Begin("control", r)
    BY <1>2, <1>3, <1>4 DEF Requests
  <1>6. QED
    BY <1>5, BeginPreserves DEF Threads

LEMMA RefreshPreserves ==
  ASSUME ManagementInv, NEW i \in Ids, Refresh(i) PROVE ManagementInv'
  <1>1. PICK row : row = Seen("peer").rows["source"][i]
    OBVIOUS
  <1>2. row \in Row
    BY <1>1, SeenSound DEF ManagementInv, Sound, Databases, Conns, Tables
  <1>3. PICK r : r = [op |-> "activate", table |-> "source", id |-> i,
                      value |-> row.value, seen |-> row]
    OBVIOUS
  <1>4. r \in Requests /\ r.id \in Ids
    BY <1>2, <1>3 DEF Requests, Row, Tables
  <1>5. Begin("job", r)
    BY <1>1, <1>3 DEF Refresh
  <1>6. QED
    BY <1>4, <1>5, BeginPreserves DEF Threads

-----------------------------------------------------------------------------
(* The theorems. *)

LEMMA InitManagement ==
  ASSUME Init PROVE ManagementInv
  <1>1. PICK v \in Values :
          disk = [rows |-> [t \in Tables |-> [i \in Ids |->
                    IF i = 1 THEN [value |-> v, revision |-> 1, loaded |-> None] ELSE NoRow]],
                  desired |-> 1, applied |-> 1]
    BY DEF Init
  <1>2. NoRow \in Row /\ [value |-> v, revision |-> 1, loaded |-> None] \in Row
    BY DEF NoRow, Row
  <1>3. disk.rows \in [Tables -> [Ids -> Row]]
    BY <1>1, <1>2
  <1>4. Sound(disk) /\ ~Mismatch(disk)
    BY <1>1, <1>3 DEF Sound, Databases, Mismatch
  <1>5. TypeInv
    BY DEF Init, TypeInv, Labels
  <1>6. \A t \in Threads : pc[t] \notin InChange \cup InReload /\ ~InMain(t)
    BY DEF Init, InMain, InChange, InReload
  <1>7. depth["main"] = 0 /\ depth["peer"] = 0 /\ view["main"] = disk /\ view["peer"] = disk
    BY DEF Init, Conns
  <1>8. LockInv
    BY <1>6, <1>7 DEF Init, LockInv, Threads
  <1>9. NoScreen \in Screens /\ NoScreen.table = None
    BY <1>2 DEF NoScreen, Screens
  <1>10. RequestInv
    BY <1>9 DEF Init, RequestInv
  <1>11. DataInv
    BY <1>4, <1>7 DEF Init, DataInv
  <1>12. DurableInv
    BY <1>6, <1>7 DEF Init, DurableInv, Threads
  <1>13. HealthInv
    <2>1. \A t \in Threads : ChangeOf(t) /\ ReloadOf(t)
      BY <1>6 DEF ChangeOf, ReloadOf, InChange, InReload
    <2>2. QED
      BY <1>4, <1>6, <2>1 DEF Init, HealthInv, Threads
  <1>14. QED
    BY <1>5, <1>8, <1>10, <1>11, <1>12, <1>13 DEF ManagementInv

LEMMA NextManagement ==
  ASSUME ManagementInv, [Next]_vars PROVE ManagementInv'
  <1>1. CASE \E v \in Values : CreateRule(v) \/ CreateSource(v)
    BY <1>1, CreatePreserves DEF CreateRule, CreateSource, Tables
  <1>2. CASE \E o \in Operators :
               \/ \E v \in Values : UpdateRule(o, v) \/ UpdateSource(o, v)
               \/ DeleteRule(o) \/ DeleteSource(o)
    BY <1>2, EditPreserves DEF UpdateRule, UpdateSource, DeleteRule, DeleteSource, Tables
  <1>3. CASE \E i \in Ids : Refresh(i)
    BY <1>3, RefreshPreserves
  <1>4. ASSUME NEW t \in Threads, Step(t) PROVE ManagementInv'
    BY <1>4, MutatePreserves, PublishPreserves, RecordPreserves, FinishPreserves,
       RefreshHealthPreserves, AbortPreserves, ReloadBeginPreserves, ReloadLoadPreserves,
       ReloadRecordPreserves, ReloadCommitPreserves, ReloadDonePreserves DEF Step
  <1>5. CASE UNCHANGED vars
    <2>1. UNCHANGED <<disk, depth, view, users, broken, runtime, degraded, screen, pc, request,
                      ticket, ok, why, promised, astray>>
      BY <1>5 DEF vars, dbVars, threadVars, ghostVars
    <2>2. TypeInv' /\ LockInv' /\ RequestInv' /\ DataInv'
      BY <2>1 DEF ManagementInv, TypeInv, LockInv, InMain, RequestInv, DataInv, Sound
    <2>3. DurableInv => DurableInv'
      BY <2>1 DEF DurableInv, InMain, Acknowledged
    <2>4. HealthInv => HealthInv'
      <3>1. \A u \in Threads : (ChangeOf(u) => ChangeOf(u)') /\ (ReloadOf(u) => ReloadOf(u)')
        BY <2>1, ChangeKept, ReloadKept
      <3>2. Policy(disk)' = Policy(disk) /\ (Mismatch(disk)' <=> Mismatch(disk))
        BY <2>1 DEF Policy, Mismatch
      <3>3. QED
        BY <2>1, <3>1, <3>2 DEF HealthInv, InMain, Comparing, Repairing
    <2>5. QED
      BY <2>1, <2>2, <2>3, <2>4 DEF ManagementInv
  <1>6. QED
    BY <1>1, <1>2, <1>3, <1>4, <1>5, ReadRowPreserves, ReloadRequestPreserves, RestartPreserves
    DEF Next

(* The threads hold SQLite's lock, the transactions and the tickets as     *)
(* ManagementInv says, whatever fails and whichever thread it fails on.    *)
THEOREM ManagementInvariant == Spec => []ManagementInv
  <1>1. Init => ManagementInv
    BY InitManagement
  <1>2. ManagementInv /\ [Next]_vars => ManagementInv'
    BY NextManagement
  <1>3. QED
    BY <1>1, <1>2, PTL DEF Spec

(* audited_mutation_finish acknowledges what is committed and nothing      *)
(* else: with no transaction open the rows are those with every change     *)
(* that was acknowledged, also after failed changes, reloads and crashes   *)
(* of either thread, unless a transaction on "main" was lost in which the  *)
(* other thread took part.                                                 *)
THEOREM AcknowledgedIsDurableHolds == Spec => []AcknowledgedIsDurable
  <1>1. ManagementInv => AcknowledgedIsDurable
    BY DEF ManagementInv, LockInv, DurableInv, AcknowledgedIsDurable, Conns, Threads, TypeInv
  <1>2. QED
    BY <1>1, ManagementInvariant, PTL

(* An appliance at rest that does not call itself degraded runs the policy *)
(* it has stored, whatever failed on either thread, reloads included; only *)
(* one that went astray may differ, until a thread by itself publishes.    *)
THEOREM HonestHealthHolds == Spec => []HonestHealth
  <1>1. ManagementInv => HonestHealth
    <2>1. SUFFICES ASSUME ManagementInv, Quiet, ~degraded, ~astray PROVE runtime = Policy(disk)
      BY DEF HonestHealth
    <2>2. \A t \in Threads : ~Comparing(t) /\ ~Repairing(t)
      BY <2>1 DEF Quiet, Comparing, Repairing, InChange, InReload
    <2>3. QED
      BY <2>1, <2>2 DEF ManagementInv, HealthInv, Threads
  <1>2. QED
    BY <1>1, ManagementInvariant, PTL
=============================================================================
