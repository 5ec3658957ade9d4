---------------------------- MODULE RecoveryProofs ----------------------------
(***************************************************************************)
(* Proofs about Recovery, for every bound and every set of names and       *)
(* whatever overlaps, fails or crashes: what is durable changes only when  *)
(* a whole operation commits, but for the two lapses that Recovery names   *)
(* (Recovery implements AtomicAppliance), and what a daemon at rest is     *)
(* like.                                                                   *)
(***************************************************************************)
EXTENDS Recovery, TLAPS

Values == Generations \cup {Absent}
Effects ==
  [target : {"archive"}, value : A!Contents]
    \cup [target : {"database"}, value : Generations]
    \cup [target : Files, value : Values]

Labels ==
  {"idle", "gate", "prepare", "snapshot", "unwind", "apply", "cleanup"}
    \cup Recovering

(* Labels of an operation that has the journal row; the start-up may find  *)
(* none when it reconciles.                                                *)
Holding ==
  {"snapshot", "unwind", "apply", "reconcile", "checkpoint", "rearm", "files",
   "settle"}
Waits == {"idle", "gate", "prepare", "cleanup", "sweep"}
Holds(t) == pc[t] \in Holding /\ ~(t = "boot" /\ pc[t] = "reconcile")

(* What the disk and the memory hold, and what a row says of its files. *)
DiskInv ==
  /\ db \in Databases
  /\ files \in [Files -> Values] /\ snapshots \in [Files -> Values]
  /\ archives \in [Names -> A!Contents \cup {Absent}]
  /\ checkpoint \in Databases \cup {Absent}
  /\ memoryKey = files["totpKey"]
  /\ fresh \in Nat /\ previous \in Saved \cup {Absent}
  /\ \A n \in db.backups : archives[n] # Absent
  /\ db.row # NoRow => /\ db.row.existing \subseteq db.row.tracked
                       /\ db.row.kind \in BackupKinds => db.row.tracked = {}

(* The threads: the start-up is alone. *)
ThreadInv ==
  /\ pc \in [Threads -> Labels] /\ DOMAIN job = Threads /\ DOMAIN todo = Threads
  /\ restoring \in BOOLEAN /\ degraded \in BOOLEAN
  /\ \A t \in Threads :
       /\ job[t].tracked \subseteq Files
       /\ job[t].existing \subseteq job[t].tracked
       /\ pc[t] = "idle" => job[t] = NoJob
  /\ pc["boot"] \in {"idle"} \cup Recovering
  /\ pc["boot"] # "idle" =>
       pc["worker"] = "idle" /\ pc["server"] = "idle" /\ ~restoring
  /\ pc["server"] # "gate"

(* A restore has the gate, and the other thread is at rest by the time     *)
(* anything is done.                                                       *)
Restores(t) == job[t].kind \in {"restore_checkpoint", "backup_restore"}

GateInv ==
  /\ pc["worker"] = "gate" \/ Restores("worker") => restoring
  /\ Restores("worker") => pc["server"] = "idle"
  /\ ~Restores("server")

(* The row of an operation. *)
RowFor(t) ==
  /\ db.row # NoRow
  /\ db.row.kind = job[t].kind
  /\ db.row.tracked = job[t].tracked
  /\ db.row.existing = job[t].existing

(* One thread has the row and knows what it says and whether it is armed. *)
RowOf(t) ==
  /\ Holds(t) => RowFor(t) /\ \A u \in Others(t) : pc[u] \notin Holding
  /\ pc[t] \in {"snapshot", "unwind", "rearm"} => ~db.row.ready
  /\ pc[t] \in {"apply", "checkpoint", "files"} => db.row.ready
  /\ pc[t] = "reconcile" /\ t # "boot" => db.row.ready
  /\ pc[t] = "settle" => ~db.row.ready \/ db.row.kind \in BackupKinds
  /\ pc[t] \in {"checkpoint", "rearm"} => db.row.kind = "backup_restore"
  /\ pc[t] = "files" => db.row.kind \notin BackupKinds
  /\ pc[t] \in {"snapshot", "unwind"} => ~Armed
  /\ pc[t] = "rearm" => Armed

(* The row and what it was armed over.  A row that came back with the        *)
(* database of its checkpoint says that it is not armed.                     *)
JournalInv ==
  /\ Armed => db.row # NoRow
  /\ db.row # NoRow /\ db.row.ready => Armed
  /\ Armed /\ ~db.row.ready =>
       db.row.kind = "backup_restore" /\ db.data = previous.data

(* An armed row that no thread works on is one that management reports, or  *)
(* one that has changed nothing.                                            *)
ArmedInv ==
  Armed =>
    \/ degraded
    \/ \E t \in Threads : pc[t] \in Holding \ {"snapshot", "unwind"}
    \/ /\ db.row.kind # "backup_restore"
       /\ \A f \in db.row.tracked : files[f] = previous.files[f]

(* What an archive puts back. *)
Brings(c, f) ==
  \/ f = "certificate" /\ c.certificate # Absent
  \/ f \in {"totpKey", "clientCa"} /\ c.portable

(* The effects of a restore of c, and what is already as in the archive. *)
RestorePlan(j, c) ==
  /\ j.effects \in Seq(Effects)
  /\ Range(j.effects) = {DatabaseReplaced(c.data)} \cup {Effect(f, c[f]) : f \in j.tracked}
  /\ \A f \in j.tracked : Brings(c, f)
  /\ \A f \in Files \ j.tracked : Brings(c, f) => files[f] = c[f]

Plan(j) ==
  \/ /\ j.kind \in BackupKinds /\ j.tracked = {}
     /\ j.name \in Names
     /\ \E c \in A!Contents : j.effects = <<ArchiveStored(c)>>
  \/ /\ j.kind = "certificate_csr" /\ j.tracked = {"pending"}
     /\ \E g \in Generations : j.effects = <<PendingStored(g)>>
  \/ /\ j.kind = "certificate_install" /\ j.tracked = {"certificate", "pending"}
     /\ \E g \in Generations : j.effects = <<CertificateStored(g), PendingRemoved>>
  \/ /\ j.kind = "mtls_authorities" /\ j.tracked = {"clientCa"}
     /\ \E v \in Values : j.effects = <<Effect("clientCa", v)>>
  \/ /\ j.kind = "backup_restore"
     /\ \E n \in db.backups : RestorePlan(j, archives[n])

Working == {"prepare", "snapshot", "apply"}

(* What an operation is going to do, from its start to its commit. *)
PlanOf(t) ==
  /\ pc[t] \in Working => Plan(job[t])
  /\ pc[t] \in Working /\ job[t].kind \in BackupKinds =>
       /\ job[t].name \notin db.backups /\ job[t].name # Absent
       /\ \A u \in Others(t) : job[u].name # job[t].name
  /\ pc[t] = "gate" \/ (pc[t] \in Working /\ job[t].kind = "restore_checkpoint") =>
       \E n \in db.backups : job[t].next = archives[n]

Performed(j, e) ==
  /\ e.target = "archive" => archives[j.name] = e.value
  /\ e.target = "database" => db.data = e.value
  /\ e.target \in Files => files[e.target] = e.value

(* How far an operation is: what is copied, what is done, what is back. *)
ProgressOf(t) ==
  /\ pc[t] = "snapshot" =>
       /\ todo[t] \in Seq(Files \cup {"database"})
       /\ \A f \in job[t].existing :
            f \in Range(todo[t]) \/ snapshots[f] \in {files[f], Absent}
       /\ job[t].kind = "backup_restore" =>
            "database" \in Range(todo[t]) \/ checkpoint \in {db, Absent}
  /\ pc[t] = "apply" =>
       /\ todo[t] \in Seq(Effects) /\ Range(todo[t]) \subseteq Range(job[t].effects)
       /\ \A e \in Range(job[t].effects) : e \in Range(todo[t]) \/ Performed(job[t], e)
       /\ Len(todo[t]) <= Len(job[t].effects)
       /\ todo[t] = job[t].effects =>
            \A f \in job[t].tracked : files[f] = previous.files[f]
  /\ pc[t] \in {"checkpoint", "rearm", "files"} =>
       todo[t] \in Seq(Files) /\ Range(todo[t]) \subseteq job[t].tracked
  /\ pc[t] \in {"checkpoint", "rearm"} => Range(todo[t]) = job[t].tracked
  /\ pc[t] = "files" =>
       \A f \in job[t].tracked :
         \/ f \in Range(todo[t])
         \/ files[f] = IF f \in job[t].existing THEN previous.files[f] ELSE Absent
  /\ pc[t] \in {"rearm", "files"} /\ job[t].kind = "backup_restore" =>
       db.data = previous.data

OperationInv == \A t \in Threads : RowOf(t) /\ PlanOf(t) /\ ProgressOf(t)

(* A snapshot of an armed row is gone, by the clean-up of another thread,   *)
(* or it is what the row was armed over.                                     *)
SnapshotInv ==
  Armed =>
    /\ \A f \in db.row.existing : snapshots[f] \in {previous.files[f], Absent}
    /\ db.row.kind = "backup_restore" /\ checkpoint # Absent =>
         /\ checkpoint.data = previous.data
         /\ checkpoint.backups = db.backups
         /\ checkpoint.row # NoRow /\ ~checkpoint.row.ready
         /\ checkpoint.row.kind = db.row.kind
         /\ checkpoint.row.tracked = db.row.tracked
         /\ checkpoint.row.existing = db.row.existing

(* An archive without a record is on its way in or on its way out. *)
ArchiveInv ==
  \A n \in Names :
    archives[n] # Absent /\ n \notin db.backups =>
      \/ degraded
      \/ \E t \in Threads :
           \/ pc[t] = "reconcile"
           \/ pc[t] = "apply" /\ job[t].kind \in BackupKinds /\ job[t].name = n

(* A file that a running operation or a row takes for a new one is new, but *)
(* for the pending key, which both threads may work on at a time.           *)
Unnoticed(t) ==
  \A f \in job[t].tracked \ job[t].existing : f = "pending" \/ files[f] = Absent

LookupInv ==
  /\ Restores("worker") \/ job["worker"].tracked \subseteq {"pending"}
  /\ \A t \in Threads : pc[t] \in {"prepare", "snapshot"} => Unnoticed(t)
  /\ Armed => \A f \in db.row.tracked \ db.row.existing :
                f = "pending" \/ previous.files[f] = Absent

RecoveryInv ==
  /\ DiskInv /\ ThreadInv /\ GateInv /\ OperationInv
  /\ JournalInv /\ ArmedInv /\ SnapshotInv /\ ArchiveInv

-----------------------------------------------------------------------------
(* Sequences. *)

LEMMA RangeSplits ==
  ASSUME NEW S, NEW s \in Seq(S), s # <<>>
  PROVE  /\ Head(s) \in S /\ Tail(s) \in Seq(S)
         /\ Range(s) = {Head(s)} \cup Range(Tail(s))
  <1>1. Len(s) \in Nat \ {0} /\ DOMAIN s = 1 .. Len(s)
    OBVIOUS
  <1>2. /\ Tail(s) \in Seq(S) /\ DOMAIN Tail(s) = 1 .. Len(s) - 1
        /\ \A i \in 1 .. Len(s) - 1 : Tail(s)[i] = s[i + 1]
    BY <1>1
  <1>3. Head(s) = s[1] /\ Head(s) \in S
    BY <1>1
  <1>4. ASSUME NEW x \in Range(s) PROVE x \in {Head(s)} \cup Range(Tail(s))
    <2>1. PICK i \in 1 .. Len(s) : x = s[i]
      BY <1>1, <1>4 DEF Range
    <2>2. CASE i = 1
      BY <1>3, <2>1, <2>2
    <2>3. CASE i # 1
      <3>1. i - 1 \in DOMAIN Tail(s) /\ x = Tail(s)[i - 1]
        BY <1>1, <1>2, <2>1, <2>3
      <3>2. QED
        BY <3>1 DEF Range
    <2>4. QED
      BY <2>2, <2>3
  <1>5. ASSUME NEW x \in Range(Tail(s)) PROVE x \in Range(s)
    <2>1. PICK i \in 1 .. Len(s) - 1 : x = s[i + 1]
      BY <1>2, <1>5 DEF Range
    <2>2. i + 1 \in DOMAIN s
      BY <1>1, <2>1
    <2>3. QED
      BY <2>1, <2>2 DEF Range
  <1>6. Head(s) \in Range(s)
    BY <1>1, <1>3 DEF Range
  <1>7. QED
    BY <1>2, <1>3, <1>4, <1>5, <1>6

LEMMA RangeEmpty == Range(<<>>) = {}
  BY DEF Range

LEMMA RangeOne == ASSUME NEW a PROVE Range(<<a>>) = {a}
  BY DEF Range

LEMMA RangeTwo == ASSUME NEW a, NEW b PROVE Range(<<a, b>>) = {a, b}
  BY DEF Range

LEMMA RangeConcatenation ==
  ASSUME NEW S, NEW s \in Seq(S), NEW r \in Seq(S)
  PROVE  s \o r \in Seq(S) /\ Range(s \o r) = Range(s) \cup Range(r)
  <1>1. /\ s \o r \in Seq(S) /\ DOMAIN s = 1 .. Len(s) /\ DOMAIN r = 1 .. Len(r)
        /\ DOMAIN (s \o r) = 1 .. Len(s) + Len(r) /\ Len(s) \in Nat /\ Len(r) \in Nat
        /\ \A i \in 1 .. Len(s) : (s \o r)[i] = s[i]
        /\ \A i \in 1 .. Len(r) : (s \o r)[Len(s) + i] = r[i]
    OBVIOUS
  <1>2. ASSUME NEW x \in Range(s \o r) PROVE x \in Range(s) \cup Range(r)
    <2>1. PICK i \in 1 .. Len(s) + Len(r) : x = (s \o r)[i]
      BY <1>1, <1>2 DEF Range
    <2>2. CASE i <= Len(s)
      BY <1>1, <2>1, <2>2 DEF Range
    <2>3. CASE i > Len(s)
      <3>1. i - Len(s) \in 1 .. Len(r) /\ i = Len(s) + (i - Len(s))
        BY <1>1, <2>1, <2>3
      <3>2. x = r[i - Len(s)]
        BY <1>1, <2>1, <3>1
      <3>3. QED
        BY <1>1, <3>1, <3>2 DEF Range
    <2>4. QED
      BY <1>1, <2>1, <2>2, <2>3
  <1>3. ASSUME NEW x \in Range(s) PROVE x \in Range(s \o r)
    BY <1>1, <1>3 DEF Range
  <1>4. ASSUME NEW x \in Range(r) PROVE x \in Range(s \o r)
    <2>1. PICK i \in 1 .. Len(r) : x = r[i]
      BY <1>1, <1>4 DEF Range
    <2>2. Len(s) + i \in 1 .. Len(s) + Len(r) /\ x = (s \o r)[Len(s) + i]
      BY <1>1, <2>1
    <2>3. QED
      BY <1>1, <2>2 DEF Range
  <1>5. QED
    BY <1>1, <1>2, <1>3, <1>4

LEMMA FileNames == Files = {"certificate", "pending", "clientCa", "totpKey"}
  BY DEF Files, A!Files

LEMMA RangeIf ==
  ASSUME NEW S, NEW x \in S, NEW set
  PROVE  If(x \in set, x) \in Seq(S) /\ Range(If(x \in set, x)) = set \cap {x}
  <1> DEFINE s == If(x \in set, x)
  <1>1. (x \in set => s = <<x>>) /\ (x \notin set => s = <<>>)
    BY DEF If
  <1> HIDE DEF s
  <1>2. s \in Seq(S)
    <2>1. <<x>> \in Seq(S) /\ <<>> \in Seq(S)
      OBVIOUS
    <2>2. s \in {<<x>>, <<>>}
      BY <1>1
    <2>3. QED
      BY <2>1, <2>2, Zenon
  <1>3. Range(s) = set \cap {x}
    BY <1>1, RangeOne, RangeEmpty
  <1>4. QED
    BY <1>2, <1>3 DEF s

LEMMA InOrderRange ==
  ASSUME NEW set, set \subseteq Files
  PROVE  InOrder(set) \in Seq(Files) /\ Range(InOrder(set)) = set
  <1> DEFINE a == If("certificate" \in set, "certificate")
  <1> DEFINE b == If("pending" \in set, "pending")
  <1> DEFINE c == If("clientCa" \in set, "clientCa")
  <1> DEFINE d == If("totpKey" \in set, "totpKey")
  <1> DEFINE ab == a \o b
  <1> DEFINE abc == ab \o c
  <1>1. /\ a \in Seq(Files) /\ Range(a) = set \cap {"certificate"}
        /\ b \in Seq(Files) /\ Range(b) = set \cap {"pending"}
        /\ c \in Seq(Files) /\ Range(c) = set \cap {"clientCa"}
        /\ d \in Seq(Files) /\ Range(d) = set \cap {"totpKey"}
    BY RangeIf, FileNames
  <1>2. InOrder(set) = abc \o d
    BY DEF InOrder
  <1> HIDE DEF a, b, c, d
  <1>3. ab \in Seq(Files) /\ Range(ab) = Range(a) \cup Range(b)
    BY <1>1, RangeConcatenation
  <1> HIDE DEF ab
  <1>4. abc \in Seq(Files) /\ Range(abc) = Range(ab) \cup Range(c)
    <2>1. ab \in Seq(Files) /\ c \in Seq(Files)
      BY <1>1, <1>3
    <2>2. QED
      BY <2>1, RangeConcatenation
  <1> HIDE DEF abc
  <1>5. /\ abc \o d \in Seq(Files)
        /\ Range(abc \o d) = Range(abc) \cup Range(d)
    BY <1>1, <1>4, RangeConcatenation
  <1>6. QED
    BY <1>1, <1>2, <1>3, <1>4, <1>5, FileNames

LEMMA NoRowIsNone == NoRow \notin Rows
  BY AbsenceAssumption

LEMMA AbsentIsNone == Absent \notin A!Contents /\ Absent \notin Databases /\ Absent \notin Saved
  BY AbsenceAssumption

-----------------------------------------------------------------------------
(* What is planned. *)

LEMMA PlanEffects ==
  ASSUME DiskInv, NEW j, j.tracked \subseteq Files, Plan(j)
  PROVE  /\ j.kind \in Kinds
         /\ j.kind \in BackupKinds => j.tracked = {}
         /\ j.effects \in Seq(Effects)
         /\ \A e \in Range(j.effects) :
              /\ e \in Effects
              /\ e.target = "archive" => j.kind \in BackupKinds /\ j.name \in Names
              /\ e.target = "database" => j.kind = "backup_restore"
              /\ e.target \in Files => e.target \in j.tracked
         /\ \A e, d \in Range(j.effects) : e.target = d.target => e = d
  <1>1. CASE j.kind \in BackupKinds
    <2>1. PICK c \in A!Contents : j.effects = <<ArchiveStored(c)>>
      BY <1>1 DEF Plan, BackupKinds
    <2>2. ArchiveStored(c) \in Effects /\ ArchiveStored(c).target = "archive"
      BY DEF Effects, ArchiveStored, Effect
    <2>3. Range(j.effects) = {ArchiveStored(c)} /\ j.effects \in Seq(Effects)
      BY <2>1, <2>2, RangeOne
    <2>4. j.tracked = {} /\ j.name \in Names
      BY <1>1 DEF Plan, BackupKinds
    <2>5. QED
      BY <1>1, <2>2, <2>3, <2>4, FileNames DEF Kinds
  <1>2. CASE j.kind = "certificate_csr"
    <2>1. PICK g \in Generations : j.effects = <<PendingStored(g)>>
      BY <1>2 DEF Plan, BackupKinds
    <2>2. PendingStored(g) \in Effects /\ PendingStored(g).target = "pending"
      BY FileNames DEF Effects, PendingStored, Effect, Values
    <2>3. Range(j.effects) = {PendingStored(g)} /\ j.effects \in Seq(Effects)
      BY <2>1, <2>2, RangeOne
    <2>4. j.tracked = {"pending"}
      BY <1>2 DEF Plan, BackupKinds
    <2>5. QED
      BY <1>2, <2>2, <2>3, <2>4, FileNames DEF Kinds, BackupKinds
  <1>3. CASE j.kind = "certificate_install"
    <2>1. PICK g \in Generations : j.effects = <<CertificateStored(g), PendingRemoved>>
      BY <1>3 DEF Plan, BackupKinds
    <2>2. /\ CertificateStored(g) \in Effects /\ CertificateStored(g).target = "certificate"
          /\ PendingRemoved \in Effects /\ PendingRemoved.target = "pending"
      BY FileNames DEF Effects, CertificateStored, PendingRemoved, Effect, Values
    <2>3. /\ Range(j.effects) = {CertificateStored(g), PendingRemoved}
          /\ j.effects \in Seq(Effects)
      BY <2>1, <2>2, RangeTwo
    <2>4. j.tracked = {"certificate", "pending"}
      BY <1>3 DEF Plan, BackupKinds
    <2>5. QED
      BY <1>3, <2>2, <2>3, <2>4, FileNames DEF Kinds, BackupKinds
  <1>4. CASE j.kind = "mtls_authorities"
    <2>1. PICK v \in Values : j.effects = <<Effect("clientCa", v)>>
      BY <1>4 DEF Plan, BackupKinds
    <2>2. Effect("clientCa", v) \in Effects /\ Effect("clientCa", v).target = "clientCa"
      BY FileNames DEF Effects, Effect
    <2>3. Range(j.effects) = {Effect("clientCa", v)} /\ j.effects \in Seq(Effects)
      BY <2>1, <2>2, RangeOne
    <2>4. j.tracked = {"clientCa"}
      BY <1>4 DEF Plan, BackupKinds
    <2>5. QED
      BY <1>4, <2>2, <2>3, <2>4, FileNames DEF Kinds, BackupKinds
  <1>5. CASE j.kind = "backup_restore"
    <2>1. PICK n \in db.backups : RestorePlan(j, archives[n])
      BY <1>5 DEF Plan, BackupKinds
    <2> DEFINE c == archives[n]
    <2>2. /\ j.effects \in Seq(Effects)
          /\ Range(j.effects) = {DatabaseReplaced(c.data)} \cup {Effect(f, c[f]) : f \in j.tracked}
      BY <2>1 DEF RestorePlan
    <2> HIDE DEF c
    <2>3. Range(j.effects) \subseteq Effects
      BY <2>2 DEF Range
    <2>4. /\ DatabaseReplaced(c.data).target = "database"
          /\ \A f \in j.tracked : Effect(f, c[f]).target = f
      BY DEF DatabaseReplaced, Effect
    <2>5. QED
      BY <1>5, <2>2, <2>3, <2>4, FileNames DEF Kinds, BackupKinds
  <1>6. QED
    BY <1>1, <1>2, <1>3, <1>4, <1>5 DEF Plan

-----------------------------------------------------------------------------
(* What a thread that does not act keeps. *)

LEMMA PlanOfKept ==
  ASSUME NEW u \in Threads, PlanOf(u), job'[u] = job[u],
         pc'[u] = "gate" => pc[u] = "gate",
         pc'[u] \in Working => pc[u] \in Working,
         db.backups \subseteq db'.backups,
         \A n \in db.backups : archives'[n] = archives[n],
         \A v \in Others(u) :
           job'[v].name \in {job[v].name, Absent} \/ job'[v].name # job[u].name,
         pc[u] \in Working /\ job[u].kind = "backup_restore" =>
           \A f \in Files \ job[u].tracked : files'[f] = files[f],
         pc[u] \in Working /\ job[u].kind \in BackupKinds => job[u].name \notin db'.backups
  PROVE  PlanOf(u)'
  <1>1. ASSUME pc'[u] \in Working PROVE Plan(job[u])'
    <2>1. Plan(job[u])
      BY <1>1 DEF PlanOf
    <2>2. CASE job[u].kind = "backup_restore"
      <3>1. PICK n \in db.backups : RestorePlan(job[u], archives[n])
        BY <2>1, <2>2 DEF Plan, BackupKinds
      <3>2. RestorePlan(job[u], archives[n])'
        BY <1>1, <2>2, <3>1 DEF RestorePlan
      <3>3. QED
        BY <2>2, <3>1, <3>2 DEF Plan
    <2>3. CASE job[u].kind # "backup_restore"
      BY <2>1, <2>3 DEF Plan
    <2>4. QED
      BY <2>2, <2>3
  <1>3. pc'[u] \in Working /\ job[u].kind \in BackupKinds =>
          /\ job'[u].name \notin db'.backups /\ job'[u].name # Absent
          /\ \A v \in Others(u) : job'[v].name # job'[u].name
    BY DEF PlanOf
  <1>4. pc'[u] = "gate" \/ (pc'[u] \in Working /\ job[u].kind = "restore_checkpoint") =>
          \E n \in db'.backups : job'[u].next = archives'[n]
    BY DEF PlanOf
  <1>5. QED
    BY <1>1, <1>3, <1>4 DEF PlanOf

(* A thread without the row has made no progress. *)
LEMMA WaitingOf ==
  ASSUME NEW u, pc'[u] \in Waits
  PROVE  RowOf(u)' /\ ProgressOf(u)'
  <1>1. RowOf(u)'
    BY DEF RowOf, Holds, Holding, Waits
  <1>2. ProgressOf(u)'
    BY DEF ProgressOf, Waits
  <1>3. QED
    BY <1>1, <1>2

(* While one thread has the row the others wait, and no restore is one of *)
(* them.                                                                  *)
LEMMA OthersWait ==
  ASSUME RecoveryInv, NEW t \in Threads, pc[t] \in Holding, NEW u \in Others(t)
  PROVE  pc[u] \in Waits /\ job[u].kind # "backup_restore"
  <1>1. u \in Threads /\ u # t /\ pc[u] \in Labels
    BY DEF Others, RecoveryInv, ThreadInv
  <1>2. RowOf(t) /\ RowOf(u)
    BY <1>1 DEF RecoveryInv, OperationInv
  <1>3. CASE t = "boot"
    BY <1>1, <1>3 DEF RecoveryInv, ThreadInv, Threads, Holding, NoJob, Waits
  <1>4. CASE t # "boot"
    <2>1. pc[u] \notin Holding
      BY <1>2, <1>4 DEF RowOf, Holds
    <2>2. pc[u] \in Waits
      BY <1>1, <2>1 DEF Labels, Holding, Recovering, Waits
    <2>3. job[u].kind # "backup_restore"
      <3>1. CASE u = "worker"
        BY <1>1, <1>4, <3>1 DEF RecoveryInv, GateInv, Restores, Threads, Holding
      <3>2. CASE u = "server"
        BY <3>2 DEF RecoveryInv, GateInv, Restores
      <3>3. CASE u = "boot"
        BY <1>1, <1>4, <3>3 DEF RecoveryInv, ThreadInv, Recovering, NoJob, Threads, Holding
      <3>4. QED
        BY <1>1, <3>1, <3>2, <3>3 DEF Threads
    <2>4. QED
      BY <2>2, <2>3
  <1>5. QED
    BY <1>3, <1>4

(* The others, when the thread with the row acts. *)
LEMMA OthersKept ==
  ASSUME RecoveryInv, NEW t \in Threads, pc[t] \in Holding,
         \A u \in Others(t) : pc'[u] = pc[u] /\ job'[u] = job[u],
         job'[t].name \in {job[t].name, Absent},
         db.backups \subseteq db'.backups,
         \/ db'.backups = db.backups
         \/ /\ db'.backups = db.backups \cup {job[t].name}
            /\ pc[t] \in Working /\ job[t].kind \in BackupKinds,
         \A n \in db.backups : archives'[n] = archives[n]
  PROVE  \A u \in Others(t) : RowOf(u)' /\ PlanOf(u)' /\ ProgressOf(u)'
  <1> SUFFICES ASSUME NEW u \in Others(t) PROVE RowOf(u)' /\ PlanOf(u)' /\ ProgressOf(u)'
    OBVIOUS
  <1>1. pc[u] \in Waits /\ job[u].kind # "backup_restore"
    BY OthersWait
  <1>2. u \in Threads /\ u # t /\ PlanOf(u) /\ PlanOf(t)
    BY DEF Others, RecoveryInv, OperationInv
  <1>3. \A v \in Others(u) : job'[v].name \in {job[v].name, Absent}
    BY <1>2 DEF Others
  <1>5. pc[u] \in Working /\ job[u].kind \in BackupKinds => job[u].name \notin db'.backups
    BY <1>2 DEF PlanOf, Others
  <1>6. PlanOf(u)'
    BY <1>1, <1>2, <1>3, <1>5, PlanOfKept
  <1>7. QED
    BY <1>1, <1>6, WaitingOf

-----------------------------------------------------------------------------
(* What the parts that are common to the threads keep. *)

(* A thread that goes on with the operation it has. *)
LEMMA GoingOn ==
  ASSUME RecoveryInv, NEW t \in Threads, pc[t] # "idle", NEW l \in Labels, l \notin {"idle", "gate"},
         t = "boot" => l \in Recovering,
         pc' = [pc EXCEPT ![t] = l], DOMAIN job' = Threads, DOMAIN todo' = Threads,
         \A u \in Others(t) : job'[u] = job[u],
         job'[t].tracked = job[t].tracked, job'[t].existing = job[t].existing,
         job'[t].kind = job[t].kind, restoring' = restoring, degraded' = degraded
  PROVE  ThreadInv' /\ GateInv'
  <1>1. ThreadInv /\ GateInv
    BY DEF RecoveryInv
  <1>2. ThreadInv'
    <2>1. ASSUME NEW u \in Threads
          PROVE  /\ job'[u].tracked \subseteq Files /\ job'[u].existing \subseteq job'[u].tracked
                 /\ pc'[u] = "idle" => job'[u] = NoJob
      BY <1>1 DEF ThreadInv, Others
    <2>2. /\ pc'["boot"] \in {"idle"} \cup Recovering /\ pc'["server"] # "gate"
          /\ pc'["boot"] # "idle" =>
               pc'["worker"] = "idle" /\ pc'["server"] = "idle" /\ ~restoring'
      BY <1>1 DEF ThreadInv, Threads
    <2>3. QED
      BY <1>1, <2>1, <2>2 DEF ThreadInv
  <1>3. GateInv'
    BY <1>1 DEF GateInv, Restores, Threads, Others, ThreadInv
  <1>4. QED
    BY <1>2, <1>3

(* A thread that is done. *)
LEMMA Ending ==
  ASSUME RecoveryInv, NEW t \in Threads, End(t), degraded' \in BOOLEAN
  PROVE  ThreadInv' /\ GateInv'
  <1>1. ThreadInv /\ GateInv
    BY DEF RecoveryInv
  <1>2. /\ pc' = [pc EXCEPT ![t] = "idle"] /\ job' = [job EXCEPT ![t] = NoJob]
        /\ todo' = [todo EXCEPT ![t] = <<>>] /\ restoring' = (restoring /\ t # "worker")
    BY DEF End, Goto
  <1>3. ThreadInv'
    <2>1. ASSUME NEW u \in Threads
          PROVE  /\ job'[u].tracked \subseteq Files /\ job'[u].existing \subseteq job'[u].tracked
                 /\ pc'[u] = "idle" => job'[u] = NoJob
      BY <1>1, <1>2 DEF ThreadInv, Others, NoJob
    <2>2. /\ pc'["boot"] \in {"idle"} \cup Recovering /\ pc'["server"] # "gate"
          /\ pc'["boot"] # "idle" =>
               pc'["worker"] = "idle" /\ pc'["server"] = "idle" /\ ~restoring'
      BY <1>1, <1>2 DEF ThreadInv, Threads
    <2>3. /\ pc' \in [Threads -> Labels] /\ DOMAIN job' = Threads /\ DOMAIN todo' = Threads
          /\ restoring' \in BOOLEAN
      BY <1>1, <1>2 DEF ThreadInv, Labels
    <2>4. QED
      BY <2>1, <2>2, <2>3 DEF ThreadInv
  <1>4. GateInv'
    BY <1>1, <1>2 DEF GateInv, Restores, Threads, ThreadInv, NoJob
  <1>5. QED
    BY <1>3, <1>4

(* What is durable. *)
Same == UNCHANGED <<DurableData, DurableFiles, DurableCatalogue>>

LEMMA DurableKept ==
  ASSUME previous' = previous,
         ~Armed => db'.data = db.data /\ \A f \in Files : files'[f] = files[f],
         Armed => /\ db'.row.kind = db.row.kind /\ db'.row.tracked = db.row.tracked
                  /\ \A f \in Files \ db.row.tracked : files'[f] = files[f]
                  /\ db.row.kind # "backup_restore" => db'.data = db.data,
         db'.backups = db.backups, \A n \in db.backups : archives'[n] = archives[n]
  PROVE  Same
  <1>0. Armed' <=> Armed
    BY DEF Armed
  <1>1. DurableData' = DurableData
    BY <1>0 DEF DurableData
  <1>2. DurableFiles' = DurableFiles
    <2>1. ASSUME NEW f \in Files PROVE DurableFiles'[f] = DurableFiles[f]
      BY <1>0 DEF DurableFiles
    <2>2. QED
      BY <2>1 DEF DurableFiles
  <1>3. DurableCatalogue' = DurableCatalogue
    BY DEF DurableCatalogue, RecordedArchives
  <1>4. QED
    BY <1>1, <1>2, <1>3 DEF Same

(* The journal, when its row stays as it is. *)
LEMMA JournalKept ==
  ASSUME JournalInv, previous' = previous, db'.row = db.row,
         Armed /\ db.row.kind = "backup_restore" /\ ~db.row.ready => db'.data = db.data
  PROVE  JournalInv' /\ (Armed' <=> Armed)
  BY DEF JournalInv, Armed

(* The snapshots, when nothing but a clean-up happens to them. *)
Shrunk ==
  /\ \A f \in Files : snapshots'[f] \in {snapshots[f], Absent}
  /\ checkpoint' \in {checkpoint, Absent}

LEMMA SnapshotsKept ==
  ASSUME DiskInv, SnapshotInv, JournalInv, previous' = previous, Shrunk, db'.backups = db.backups,
         Armed => /\ db'.row # NoRow /\ db'.row.kind = db.row.kind
                  /\ db'.row.tracked = db.row.tracked /\ db'.row.existing = db.row.existing
  PROVE  SnapshotInv'
  <1> SUFFICES ASSUME Armed PROVE SnapshotInv'
    BY DEF SnapshotInv, Armed
  <1>1. db.row # NoRow /\ db.row.existing \subseteq Files
    BY DEF JournalInv, DiskInv, Databases, Rows
  <1>2. \A f \in db'.row.existing : snapshots'[f] \in {previous'.files[f], Absent}
    BY <1>1 DEF SnapshotInv, Shrunk
  <1>3. QED
    BY <1>2 DEF SnapshotInv, Shrunk

-----------------------------------------------------------------------------
(* An operation that ends, and what it leaves behind. *)

LEMMA NotArmed ==
  ASSUME RecoveryInv, NEW t \in Threads, pc[t] \in {"snapshot", "unwind"}
  PROVE  ~Armed
  BY DEF RecoveryInv, OperationInv, RowOf

LEMMA IsArmed ==
  ASSUME RecoveryInv, NEW t \in Threads, pc[t] \in {"apply", "checkpoint", "rearm", "files"}
  PROVE  Armed
  BY DEF RecoveryInv, OperationInv, RowOf, Holds, Holding, RowFor, JournalInv

LEMMA StillOf ==
  ASSUME NEW u \in Threads, RowOf(u), ProgressOf(u), pc'[u] = pc[u], job'[u] = job[u],
         todo'[u] = todo[u], db' = db, files' = files, archives' = archives,
         previous' = previous, Shrunk, job[u].existing \subseteq Files,
         \A v \in Others(u) : pc'[v] \in Holding => pc[v] \in Holding
  PROVE  RowOf(u)' /\ ProgressOf(u)'
  <1>1. RowOf(u)'
    BY DEF RowOf, Holds, RowFor, Armed
  <1>2. ProgressOf(u)'
    BY DEF ProgressOf, Performed, Shrunk
  <1>3. QED
    BY <1>1, <1>2

LEMMA Leaving ==
  ASSUME RecoveryInv, NEW t \in Threads, pc[t] # "idle", End(t),
         db' = db, files' = files, archives' = archives, memoryKey' = memoryKey, fresh' = fresh,
         previous' = previous, degraded' \in BOOLEAN, degraded => degraded',
         \/ degraded'
         \/ pc[t] \in Waits \cup {"unwind"}
         \/ /\ pc[t] = "apply" /\ job[t].kind \notin BackupKinds \cup {"backup_restore"}
            /\ \A f \in job[t].tracked : files[f] = previous.files[f],
         snapshots' \in [Files -> Values], checkpoint' \in Databases \cup {Absent}, Shrunk
  PROVE  RecoveryInv' /\ Same
  <1>0. /\ DiskInv /\ ThreadInv /\ OperationInv /\ JournalInv /\ ArmedInv /\ SnapshotInv
        /\ ArchiveInv
    BY DEF RecoveryInv
  <1>1. /\ pc' = [pc EXCEPT ![t] = "idle"] /\ job' = [job EXCEPT ![t] = NoJob]
        /\ todo' = [todo EXCEPT ![t] = <<>>]
    BY DEF End, Goto
  <1>a. /\ pc'[t] = "idle" /\ job'[t] = NoJob
        /\ \A u \in Others(t) : pc'[u] = pc[u] /\ job'[u] = job[u] /\ todo'[u] = todo[u]
    BY <1>0, <1>1 DEF ThreadInv, Others
  <1>3. JournalInv' /\ (Armed' <=> Armed)
    BY <1>0, JournalKept
  <1>4. DiskInv'
    BY <1>0 DEF DiskInv
  <1>5. ThreadInv' /\ GateInv'
    BY Ending
  <1>6. OperationInv'
    <2> SUFFICES ASSUME NEW u \in Threads PROVE RowOf(u)' /\ PlanOf(u)' /\ ProgressOf(u)'
      BY DEF OperationInv
    <2>1. CASE u = t
      <3>1. PlanOf(u)'
        BY <1>a, <2>1 DEF PlanOf, Working
      <3>2. QED
        BY <1>a, <2>1, <3>1, WaitingOf DEF Waits
    <2>2. CASE u # t
      <3>1. /\ u \in Others(t) /\ RowOf(u) /\ PlanOf(u) /\ ProgressOf(u)
            /\ job[u].existing \subseteq Files
        BY <1>0, <2>2 DEF Others, OperationInv, ThreadInv
      <3>2. \A v \in Others(u) : job'[v].name \in {job[v].name, Absent}
        BY <1>a DEF Others, NoJob
      <3>3. pc[u] \in Working /\ job[u].kind \in BackupKinds => job[u].name \notin db'.backups
        BY <3>1 DEF PlanOf
      <3>4. PlanOf(u)'
        BY <1>a, <3>1, <3>2, <3>3, PlanOfKept
      <3>6. \A v \in Others(u) : pc'[v] \in Holding => pc[v] \in Holding
        BY <1>a DEF Others, Holding
      <3>7. QED
        BY <1>a, <3>1, <3>4, <3>6, StillOf
    <2>3. QED
      BY <2>1, <2>2
  <1>7. ArmedInv'
    <2>1. CASE pc[t] = "apply" /\ ~degraded'
      <3>1. RowFor(t)
        BY <1>0, <2>1 DEF OperationInv, RowOf, Holds, Holding
      <3>2. QED
        BY <2>1, <3>1 DEF ArmedInv, RowFor, Waits
    <2>2. CASE pc[t] # "apply" \/ degraded'
      <3> SUFFICES ASSUME Armed, ~degraded',
                          ~ /\ db.row.kind # "backup_restore"
                            /\ \A f \in db.row.tracked : files[f] = previous.files[f]
                   PROVE  \E v \in Threads : pc'[v] \in Holding \ {"snapshot", "unwind"}
        BY <1>3 DEF ArmedInv
      <3>1. PICK v \in Threads : pc[v] \in Holding \ {"snapshot", "unwind"}
        BY <1>0 DEF ArmedInv
      <3>2. v # t
        BY <2>2, <3>1 DEF Holding, Waits
      <3>3. QED
        BY <1>a, <3>1, <3>2 DEF Others
    <2>3. QED
      BY <2>1, <2>2
  <1>8. SnapshotInv'
    BY <1>0, SnapshotsKept DEF JournalInv
  <1>9. ArchiveInv'
    <2> SUFFICES ASSUME NEW n \in Names, archives[n] # Absent, n \notin db.backups, ~degraded'
                 PROVE  \E v \in Threads :
                          \/ pc'[v] = "reconcile"
                          \/ pc'[v] = "apply" /\ job'[v].kind \in BackupKinds /\ job'[v].name = n
      BY DEF ArchiveInv
    <2>1. PICK v \in Threads :
                 \/ pc[v] = "reconcile"
                 \/ pc[v] = "apply" /\ job[v].kind \in BackupKinds /\ job[v].name = n
      BY <1>0 DEF ArchiveInv
    <2>2. v # t
      BY <2>1 DEF Waits
    <2>3. QED
      BY <1>a, <2>1, <2>2 DEF Others
  <1>10. Same
    BY DurableKept
  <1>11. QED
    BY <1>3, <1>4, <1>5, <1>6, <1>7, <1>8, <1>9, <1>10 DEF RecoveryInv

-----------------------------------------------------------------------------
(* Requests. *)

(* A thread that gets an operation and waits for the row. *)
LEMMA Waiting ==
  ASSUME RecoveryInv, NEW t \in Threads, pc[t] \in {"idle", "gate"}, NEW l \in {"gate", "prepare"},
         pc' = [pc EXCEPT ![t] = l], \A u \in Others(t) : job'[u] = job[u] /\ todo'[u] = todo[u],
         UNCHANGED diskVars, memoryKey' = memoryKey, degraded' = degraded, fresh' \in Nat,
         previous' = previous,
         ThreadInv', GateInv', PlanOf(t)',
         job'[t].name # Absent => \A u \in Others(t) : job'[t].name # job[u].name
  PROVE  RecoveryInv' /\ Same
  <1>0. /\ DiskInv /\ ThreadInv /\ OperationInv /\ JournalInv /\ ArmedInv /\ SnapshotInv
        /\ ArchiveInv
    BY DEF RecoveryInv
  <1>1. /\ db' = db /\ files' = files /\ archives' = archives /\ snapshots' = snapshots
        /\ checkpoint' = checkpoint /\ Shrunk
    BY DEF diskVars, Shrunk
  <1>2. pc'[t] = l /\ \A u \in Others(t) : pc'[u] = pc[u]
    BY <1>0 DEF ThreadInv, Others
  <1>3. JournalInv' /\ (Armed' <=> Armed)
    BY <1>0, <1>1, JournalKept
  <1>4. DiskInv'
    BY <1>0, <1>1 DEF DiskInv
  <1>5. OperationInv'
    <2> SUFFICES ASSUME NEW u \in Threads PROVE RowOf(u)' /\ PlanOf(u)' /\ ProgressOf(u)'
      BY DEF OperationInv
    <2>1. CASE u = t
      BY <1>2, <2>1, WaitingOf DEF Waits
    <2>2. CASE u # t
      <3>1. /\ u \in Others(t) /\ RowOf(u) /\ PlanOf(u) /\ ProgressOf(u)
            /\ job[u].existing \subseteq Files
        BY <1>0, <2>2 DEF Others, OperationInv, ThreadInv
      <3>2. \A v \in Others(u) :
              job'[v].name \in {job[v].name, Absent} \/ job'[v].name # job[u].name
        BY <2>2 DEF Others
      <3>3. pc[u] \in Working /\ job[u].kind \in BackupKinds => job[u].name \notin db'.backups
        BY <1>1, <3>1 DEF PlanOf
      <3>4. PlanOf(u)'
        BY <1>1, <1>2, <3>1, <3>2, <3>3, PlanOfKept
      <3>5. \A v \in Others(u) : pc'[v] \in Holding => pc[v] \in Holding
        BY <1>2 DEF Others, Holding
      <3>6. QED
        BY <1>1, <1>2, <3>1, <3>4, <3>5, StillOf
    <2>3. QED
      BY <2>1, <2>2
  <1>6. ArmedInv'
    BY <1>0, <1>1, <1>2, <1>3 DEF ArmedInv, Holding, Others
  <1>7. SnapshotInv'
    BY <1>0, <1>1, SnapshotsKept DEF JournalInv
  <1>8. ArchiveInv'
    <2> SUFFICES ASSUME NEW n \in Names, archives[n] # Absent, n \notin db.backups, ~degraded
                 PROVE  \E v \in Threads :
                          \/ pc'[v] = "reconcile"
                          \/ pc'[v] = "apply" /\ job'[v].kind \in BackupKinds /\ job'[v].name = n
      BY <1>1 DEF ArchiveInv
    <2>1. PICK v \in Threads :
                 \/ pc[v] = "reconcile"
                 \/ pc[v] = "apply" /\ job[v].kind \in BackupKinds /\ job[v].name = n
      BY <1>0 DEF ArchiveInv
    <2>2. QED
      BY <1>2, <2>1 DEF Others
  <1>9. Same
    BY <1>1, DurableKept
  <1>10. QED
    BY <1>3, <1>4, <1>5, <1>6, <1>7, <1>8, <1>9 DEF RecoveryInv

LEMMA Starting ==
  ASSUME RecoveryInv, NEW t \in {"worker", "server"}, NEW j, Start(t, j),
         fresh' \in Nat, j.tracked \subseteq Files, j.existing = Present(j.tracked), Plan(j),
         j.kind \notin {"restore_checkpoint", "backup_restore"},
         j.kind \in BackupKinds => UnusedName(j.name),
         j.kind \notin BackupKinds => j.name = Absent
  PROVE  RecoveryInv' /\ Same
  <1>0. ThreadInv /\ GateInv /\ t \in Threads
    BY DEF RecoveryInv, Threads
  <1>1. /\ pc["boot"] = "idle" /\ pc[t] = "idle" /\ ~restoring /\ ~degraded
        /\ pc' = [pc EXCEPT ![t] = "prepare"] /\ job' = [job EXCEPT ![t] = j]
        /\ UNCHANGED <<diskVars, todo, memoryVars, previous>>
    BY DEF Start, MayStart, Goto
  <1>2. /\ job'[t] = j /\ pc'[t] = "prepare"
        /\ \A u \in Others(t) : job'[u] = job[u] /\ pc'[u] = pc[u]
    BY <1>0, <1>1 DEF ThreadInv, Others
  <1>3. ThreadInv'
    <2>1. ASSUME NEW u \in Threads
          PROVE  /\ job'[u].tracked \subseteq Files /\ job'[u].existing \subseteq job'[u].tracked
                 /\ pc'[u] = "idle" => job'[u] = NoJob
      BY <1>0, <1>1, <1>2 DEF ThreadInv, Others, Present
    <2>2. /\ pc'["boot"] = "idle" /\ pc'["server"] # "gate"
      BY <1>0, <1>1 DEF ThreadInv, Threads
    <2>3. /\ pc' \in [Threads -> Labels] /\ DOMAIN job' = Threads /\ DOMAIN todo' = Threads
          /\ restoring' \in BOOLEAN /\ degraded' \in BOOLEAN
      BY <1>0, <1>1 DEF ThreadInv, Labels, memoryVars
    <2>4. QED
      BY <2>1, <2>2, <2>3 DEF ThreadInv
  <1>4. GateInv'
    BY <1>0, <1>1, <1>2 DEF GateInv, Restores, Threads, ThreadInv, memoryVars
  <1>5. job[t] = NoJob /\ job["boot"] = NoJob
    BY <1>0, <1>1 DEF ThreadInv, Threads
  <1>6. PlanOf(t)'
    <2>1. Plan(job[t])'
      BY <1>2 DEF Plan
    <2>3. j.kind \in BackupKinds =>
            j.name \notin db.backups /\ j.name # Absent /\ \A u \in Others(t) : job[u].name # j.name
      BY <1>5 DEF UnusedName, NoJob, Others, Threads
    <2>4. QED
      BY <1>1, <1>2, <2>1, <2>3 DEF PlanOf, Working, diskVars
  <1>7. job'[t].name # Absent => \A u \in Others(t) : job'[t].name # job[u].name
    BY <1>2 DEF UnusedName, Others
  <1>8. memoryKey' = memoryKey /\ degraded' = degraded /\ todo' = todo /\ UNCHANGED diskVars
        /\ previous' = previous
    BY <1>1 DEF memoryVars
  <1>9. QED
    BY <1>0, <1>1, <1>2, <1>3, <1>4, <1>6, <1>7, <1>8, Waiting

LEMMA FreshGeneration ==
  ASSUME RecoveryInv, NewGeneration PROVE fresh \in Generations /\ fresh' \in Nat
  BY BoundAssumption DEF RecoveryInv, DiskInv, NewGeneration, Generations

LEMMA ArchiveContents ==
  ASSUME RecoveryInv, NEW full \in BOOLEAN, NEW withKey \in BOOLEAN
  PROVE  ArchiveOf(full, withKey) \in A!Contents
  <1>1. /\ db.data \in Generations /\ files["certificate"] \in Values
        /\ files["clientCa"] \in Values /\ memoryKey \in Values
    BY FileNames DEF RecoveryInv, DiskInv, Databases
  <1>2. (full /\ withKey) \in BOOLEAN /\ TRUE \in BOOLEAN
    OBVIOUS
  <1>3. (IF full THEN memoryKey ELSE Absent) \in Values /\ (IF full THEN files["clientCa"] ELSE Absent) \in Values
    BY <1>1 DEF Values
  <1>4. QED
    BY <1>1, <1>2, <1>3 DEF ArchiveOf, A!Contents, Values

LEMMA RecordedPlan ==
  ASSUME NEW kind \in BackupKinds, NEW n \in Names, NEW c \in A!Contents, NEW next,
         NEW j, j = RecordArchive(kind, n, c, next)
  PROVE  /\ Plan(j) /\ j.kind = kind /\ j.tracked = {} /\ j.existing = Present(j.tracked)
         /\ j.name = n /\ j.next = next
  BY DEF RecordArchive, Operation, Plan

LEMMA BackupCreateStep ==
  ASSUME RecoveryInv, BackupCreate PROVE RecoveryInv' /\ Same
  <1>1. PICK n \in Names, full \in BOOLEAN, withKey \in BOOLEAN :
          /\ UnusedName(n)
          /\ Start("worker", RecordArchive("backup_create", n, ArchiveOf(full, withKey), Absent))
          /\ UNCHANGED fresh
    BY DEF BackupCreate
  <1> DEFINE j == RecordArchive("backup_create", n, ArchiveOf(full, withKey), Absent)
  <1>2. ArchiveOf(full, withKey) \in A!Contents
    BY ArchiveContents
  <1>3. /\ Plan(j) /\ j.kind = "backup_create" /\ j.tracked = {} /\ j.existing = Present(j.tracked)
        /\ j.name = n
    BY <1>2, RecordedPlan DEF BackupKinds
  <1> HIDE DEF j
  <1>4. Start("worker", j) /\ fresh' \in Nat
    BY <1>1 DEF j, RecoveryInv, DiskInv
  <1>5. QED
    BY <1>1, <1>3, <1>4, Starting DEF BackupKinds

LEMMA BackupImportStep ==
  ASSUME RecoveryInv, BackupImport PROVE RecoveryInv' /\ Same
  <1>1. PICK n \in Names, portable \in BOOLEAN, supported \in BOOLEAN,
             certificate \in {fresh, Absent}, clientCa \in {fresh, Absent} :
          /\ NewGeneration /\ UnusedName(n)
          /\ Start("server",
               RecordArchive("backup_import", n,
                 [data |-> fresh, certificate |-> certificate,
                  withKey |-> portable, portable |-> portable,
                  totpKey |-> IF portable THEN fresh ELSE Absent,
                  clientCa |-> IF portable THEN clientCa ELSE Absent,
                  supported |-> supported], Absent))
    BY DEF BackupImport
  <1> DEFINE c == [data |-> fresh, certificate |-> certificate,
                   withKey |-> portable, portable |-> portable,
                   totpKey |-> IF portable THEN fresh ELSE Absent,
                   clientCa |-> IF portable THEN clientCa ELSE Absent,
                   supported |-> supported]
  <1> DEFINE j == RecordArchive("backup_import", n, c, Absent)
  <1>2. fresh \in Generations /\ fresh' \in Nat
    BY <1>1, FreshGeneration
  <1>3. c \in A!Contents
    BY <1>2 DEF A!Contents
  <1> HIDE DEF c
  <1>4. /\ Plan(j) /\ j.kind = "backup_import" /\ j.tracked = {} /\ j.existing = Present(j.tracked)
        /\ j.name = n
    BY <1>3, RecordedPlan DEF BackupKinds
  <1> HIDE DEF j
  <1>5. Start("server", j)
    BY <1>1 DEF j, c
  <1>6. QED
    BY <1>1, <1>2, <1>4, <1>5, Starting DEF BackupKinds

LEMMA CertificateCsrStep ==
  ASSUME RecoveryInv, CertificateCsr PROVE RecoveryInv' /\ Same
  <1> DEFINE j == Operation("certificate_csr", {"pending"}, <<PendingStored(fresh)>>, Absent, Absent)
  <1>1. fresh \in Generations /\ fresh' \in Nat /\ Start("worker", j)
    BY FreshGeneration DEF CertificateCsr
  <1>2. /\ j.kind = "certificate_csr" /\ j.tracked = {"pending"}
        /\ j.effects = <<PendingStored(fresh)>> /\ j.name = Absent /\ j.existing = Present(j.tracked)
    BY DEF Operation
  <1> HIDE DEF j
  <1>3. Plan(j)
    BY <1>1, <1>2 DEF Plan, Values
  <1>4. QED
    BY <1>1, <1>2, <1>3, Starting, FileNames DEF BackupKinds

LEMMA AuthoritiesInstallStep ==
  ASSUME RecoveryInv, AuthoritiesInstall PROVE RecoveryInv' /\ Same
  <1> DEFINE j == Operation("mtls_authorities", {"clientCa"}, <<AuthoritiesStored(fresh)>>, Absent, Absent)
  <1>1. fresh \in Generations /\ fresh' \in Nat /\ Start("server", j)
    BY FreshGeneration DEF AuthoritiesInstall
  <1>2. /\ j.kind = "mtls_authorities" /\ j.tracked = {"clientCa"}
        /\ j.effects = <<AuthoritiesStored(fresh)>> /\ j.name = Absent /\ j.existing = Present(j.tracked)
    BY DEF Operation
  <1> HIDE DEF j
  <1>3. Plan(j)
    BY <1>1, <1>2 DEF Plan, Values, AuthoritiesStored, AuthoritiesRemoved
  <1>4. QED
    BY <1>1, <1>2, <1>3, Starting, FileNames DEF BackupKinds

LEMMA AuthoritiesRemoveStep ==
  ASSUME RecoveryInv, AuthoritiesRemove PROVE RecoveryInv' /\ Same
  <1> DEFINE j == Operation("mtls_authorities", {"clientCa"}, <<AuthoritiesRemoved>>, Absent, Absent)
  <1>1. fresh \in Generations /\ fresh' \in Nat /\ Start("server", j)
    BY FreshGeneration DEF AuthoritiesRemove
  <1>2. /\ j.kind = "mtls_authorities" /\ j.tracked = {"clientCa"}
        /\ j.effects = <<AuthoritiesRemoved>> /\ j.name = Absent /\ j.existing = Present(j.tracked)
    BY DEF Operation
  <1> HIDE DEF j
  <1>3. Plan(j)
    BY <1>1, <1>2 DEF Plan, Values, AuthoritiesStored, AuthoritiesRemoved
  <1>4. QED
    BY <1>1, <1>2, <1>3, Starting, FileNames DEF BackupKinds

LEMMA CertificateInstallStep ==
  ASSUME RecoveryInv, CertificateInstall PROVE RecoveryInv' /\ Same
  <1> DEFINE j == Operation("certificate_install", {"certificate", "pending"}, <<CertificateStored(fresh), PendingRemoved>>, Absent, Absent)
  <1>1. fresh \in Generations /\ fresh' \in Nat /\ Start("server", j)
    BY FreshGeneration DEF CertificateInstall
  <1>2. /\ j.kind = "certificate_install" /\ j.tracked = {"certificate", "pending"}
        /\ j.effects = <<CertificateStored(fresh), PendingRemoved>> /\ j.name = Absent /\ j.existing = Present(j.tracked)
    BY DEF Operation
  <1> HIDE DEF j
  <1>3. Plan(j)
    BY <1>1, <1>2 DEF Plan, Values
  <1>4. QED
    BY <1>1, <1>2, <1>3, Starting, FileNames DEF BackupKinds

(* An audited mutation while other operations run; a restore would have the *)
(* gate.                                                                    *)
LEMMA OrdinaryWriteStep ==
  ASSUME RecoveryInv, OrdinaryWrite
  PROVE  RecoveryInv' /\ DurableData' \in Generations
         /\ UNCHANGED <<DurableFiles, DurableCatalogue>>
  <1>0. /\ DiskInv /\ ThreadInv /\ GateInv /\ OperationInv /\ JournalInv /\ ArmedInv /\ SnapshotInv
        /\ ArchiveInv
    BY DEF RecoveryInv
  <1>1. /\ pc["boot"] = "idle" /\ ~restoring /\ ~degraded
        /\ db' = [db EXCEPT !.data = fresh] /\ fresh \in Generations /\ fresh' \in Nat
        /\ files' = files /\ archives' = archives /\ snapshots' = snapshots
        /\ checkpoint' = checkpoint /\ pc' = pc /\ job' = job /\ todo' = todo
        /\ memoryKey' = memoryKey /\ restoring' = restoring /\ degraded' = degraded
        /\ previous' = previous
    BY FreshGeneration DEF OrdinaryWrite, MayStart, threadVars, memoryVars
  <1>2. /\ db' \in Databases /\ db'.row = db.row /\ db'.backups = db.backups
        /\ db'.data = fresh
    BY <1>0, <1>1 DEF DiskInv, Databases
  <1>3. ASSUME NEW t \in Threads, pc[t] # "idle" PROVE job[t].kind # "backup_restore"
    BY <1>0, <1>1, <1>3 DEF GateInv, Restores, Threads
  <1>5. Armed => db.row.kind # "backup_restore"
    <2> SUFFICES ASSUME Armed, NEW t \in Threads, pc[t] \in Holding \ {"snapshot", "unwind"}
                 PROVE  db.row.kind # "backup_restore"
      BY <1>0, <1>1 DEF ArmedInv
    <2>1. RowFor(t)
      BY <1>0, <1>1 DEF OperationInv, RowOf, Holds, Holding
    <2>2. QED
      BY <1>3, <2>1 DEF RowFor, Holding
  <1>4. JournalInv' /\ (Armed' <=> Armed)
    BY <1>0, <1>1, <1>2, <1>5, JournalKept
  <1>6. DiskInv'
    BY <1>0, <1>1, <1>2 DEF DiskInv
  <1>7. ThreadInv' /\ GateInv'
    BY <1>0, <1>1 DEF ThreadInv, GateInv, Restores
  <1>8. OperationInv'
    <2> SUFFICES ASSUME NEW u \in Threads PROVE RowOf(u)' /\ PlanOf(u)' /\ ProgressOf(u)'
      BY DEF OperationInv
    <2>1. RowOf(u) /\ PlanOf(u) /\ ProgressOf(u)
      BY <1>0 DEF OperationInv
    <2>2. RowOf(u)'
      BY <1>1, <1>2, <2>1 DEF RowOf, Holds, RowFor, Armed
    <2>3. pc[u] \in Working /\ job[u].kind \in BackupKinds => job[u].name \notin db'.backups
      BY <1>2, <2>1 DEF PlanOf
    <2>4. PlanOf(u)'
      BY <1>1, <1>2, <2>1, <2>3, PlanOfKept
    <2>5. ProgressOf(u)'
      <3>1. CASE pc[u] = "apply"
        <4>1. Plan(job[u]) /\ job[u].tracked \subseteq Files
          BY <1>0, <2>1, <3>1 DEF PlanOf, Working, ThreadInv
        <4>2. \A e \in Range(job[u].effects) : e.target # "database"
          BY <1>0, <1>3, <3>1, <4>1, PlanEffects
        <4>3. QED
          BY <1>1, <2>1, <3>1, <4>2 DEF ProgressOf, Performed
      <3>2. CASE pc[u] # "apply"
        BY <1>1, <1>3, <2>1, <3>2 DEF ProgressOf
      <3>3. QED
        BY <3>1, <3>2
    <2>6. QED
      BY <2>2, <2>4, <2>5
  <1>9. ArmedInv'
    BY <1>0, <1>1, <1>2, <1>4 DEF ArmedInv
  <1>10. SnapshotInv'
    BY <1>0, <1>1, <1>2, SnapshotsKept DEF JournalInv, Shrunk
  <1>11. ArchiveInv'
    BY <1>0, <1>1, <1>2 DEF ArchiveInv
  <1>12. DurableData' \in Generations
    BY <1>2, <1>4, <1>5, <1>1 DEF DurableData
  <1>13. DurableFiles' = DurableFiles
    BY <1>1, <1>2, <1>4 DEF DurableFiles
  <1>14. DurableCatalogue' = DurableCatalogue
    BY <1>1, <1>2 DEF DurableCatalogue, RecordedArchives
  <1>15. QED
    BY <1>4, <1>6, <1>7, <1>8, <1>9, <1>10, <1>11, <1>12, <1>13, <1>14 DEF RecoveryInv

(* A restore takes the gate, *)
LEMMA RestoreEnterStep ==
  ASSUME RecoveryInv, RestoreEnter PROVE RecoveryInv' /\ Same
  <1>0. ThreadInv /\ GateInv /\ fresh \in Nat
    BY DEF RecoveryInv, DiskInv
  <1>1. PICK n \in Names :
          /\ pc["boot"] = "idle" /\ pc["worker"] = "idle" /\ n \in db.backups
          /\ pc' = [pc EXCEPT !["worker"] = "gate"]
          /\ job' = [job EXCEPT !["worker"] = [NoJob EXCEPT !.next = archives[n]]]
          /\ restoring' = TRUE
          /\ UNCHANGED <<diskVars, todo, memoryKey, degraded, boundVars, previous>>
    BY DEF RestoreEnter, MayStart, LoadBackup, Goto
  <1> DEFINE j == [NoJob EXCEPT !.next = archives[n]]
  <1>2. /\ j.kind = "none" /\ j.tracked = {} /\ j.existing = {} /\ j.name = Absent
        /\ j.next = archives[n]
    BY DEF NoJob
  <1>3. /\ job'["worker"] = j /\ pc'["worker"] = "gate"
        /\ \A u \in Others("worker") : job'[u] = job[u] /\ pc'[u] = pc[u]
    BY <1>0, <1>1 DEF ThreadInv, Others, Threads
  <1> HIDE DEF j
  <1>4. ThreadInv'
    <2>1. ASSUME NEW u \in Threads
          PROVE  /\ job'[u].tracked \subseteq Files /\ job'[u].existing \subseteq job'[u].tracked
                 /\ pc'[u] = "idle" => job'[u] = NoJob
      BY <1>0, <1>1, <1>2, <1>3 DEF ThreadInv, Others
    <2>2. /\ pc'["boot"] = "idle" /\ pc'["server"] # "gate"
      BY <1>0, <1>1 DEF ThreadInv, Threads
    <2>3. /\ pc' \in [Threads -> Labels] /\ DOMAIN job' = Threads /\ DOMAIN todo' = Threads
          /\ restoring' \in BOOLEAN /\ degraded' \in BOOLEAN
      BY <1>0, <1>1 DEF ThreadInv, Labels
    <2>4. QED
      BY <2>1, <2>2, <2>3 DEF ThreadInv
  <1>5. GateInv'
    BY <1>0, <1>1, <1>2, <1>3 DEF GateInv, Restores, Threads, Others
  <1>6. PlanOf("worker")'
    BY <1>1, <1>2, <1>3 DEF PlanOf, Working, diskVars
  <1>7. fresh' \in Nat
    BY <1>0, <1>1 DEF boundVars
  <1>8. "worker" \in Threads /\ todo' = todo
    BY <1>1 DEF Threads
  <1>9. QED
    BY <1>1, <1>2, <1>3, <1>4, <1>5, <1>6, <1>7, <1>8, Waiting

(* and has its automatic backup planned once nobody else works. *)
LEMMA RestoreProceedStep ==
  ASSUME RecoveryInv, RestoreProceed PROVE RecoveryInv' /\ Same
  <1> DEFINE c == job["worker"].next
  <1>0. ThreadInv /\ GateInv /\ DiskInv /\ PlanOf("worker") /\ "worker" \in Threads
    BY DEF RecoveryInv, DiskInv, OperationInv, Threads
  <1>1. /\ pc["worker"] = "gate" /\ pc["server"] = "idle"
        /\ UNCHANGED <<diskVars, memoryKey, degraded, boundVars, previous>>
    BY DEF RestoreProceed
  <1>2. /\ db' = db /\ files' = files /\ archives' = archives /\ snapshots' = snapshots
        /\ checkpoint' = checkpoint /\ fresh' = fresh /\ memoryKey' = memoryKey
        /\ degraded' = degraded /\ previous' = previous /\ Shrunk
    BY <1>1 DEF diskVars, boundVars, Shrunk
  <1>3. CASE End("worker")
    BY <1>0, <1>1, <1>2, <1>3, Leaving DEF DiskInv, ThreadInv, Waits
  <1>4. ASSUME NEW n \in Names, UnusedName(n), pc' = [pc EXCEPT !["worker"] = "prepare"],
               job' = [job EXCEPT !["worker"] =
                         RecordArchive("restore_checkpoint", n,
                                       ArchiveOf(c.portable, c.portable), c)],
               UNCHANGED <<todo, restoring>>
        PROVE  RecoveryInv' /\ Same
    <2>1. PICK m \in db.backups : c = archives[m]
      BY <1>0, <1>1 DEF PlanOf
    <2>2. c \in A!Contents
      BY <1>0, <2>1 DEF DiskInv, Databases
    <2>3. c.portable \in BOOLEAN
      BY <2>2 DEF A!Contents
    <2>4. ArchiveOf(c.portable, c.portable) \in A!Contents
      BY <2>3, ArchiveContents
    <2> DEFINE j == RecordArchive("restore_checkpoint", n, ArchiveOf(c.portable, c.portable), c)
    <2>5. /\ Plan(j) /\ j.kind = "restore_checkpoint" /\ j.tracked = {} /\ j.name = n /\ j.next = c
          /\ j.existing = Present(j.tracked)
      BY <2>4, RecordedPlan DEF BackupKinds
    <2>6. /\ job'["worker"] = j /\ pc'["worker"] = "prepare"
          /\ \A u \in Others("worker") : job'[u] = job[u] /\ pc'[u] = pc[u]
      BY <1>0, <1>4 DEF ThreadInv, Others, Threads
    <2> HIDE DEF j
    <2>7. pc["boot"] = "idle" /\ job["boot"] = NoJob /\ job["server"] = NoJob /\ restoring
      BY <1>0, <1>1 DEF ThreadInv, GateInv, Threads
    <2>8. ThreadInv'
      <3>1. ASSUME NEW u \in Threads
            PROVE  /\ job'[u].tracked \subseteq Files /\ job'[u].existing \subseteq job'[u].tracked
                   /\ pc'[u] = "idle" => job'[u] = NoJob
        BY <1>0, <2>5, <2>6 DEF ThreadInv, Others, Present
      <3>2. /\ pc'["boot"] = "idle" /\ pc'["server"] # "gate"
        BY <1>0, <1>1, <2>6, <2>7 DEF ThreadInv, Threads, Others
      <3>3. /\ pc' \in [Threads -> Labels] /\ DOMAIN job' = Threads /\ DOMAIN todo' = Threads
            /\ restoring' \in BOOLEAN /\ degraded' \in BOOLEAN
        BY <1>0, <1>2, <1>4 DEF ThreadInv, Labels
      <3>4. QED
        BY <3>1, <3>2, <3>3 DEF ThreadInv
    <2>9. GateInv'
      BY <1>0, <1>1, <1>4, <2>5, <2>6, <2>7 DEF GateInv, Restores, Threads, Others
    <2>10. \A u \in Others("worker") : n # job[u].name
      BY <1>4 DEF UnusedName, Others
    <2>11. PlanOf("worker")'
      <3>1. Plan(job["worker"])'
        BY <2>5, <2>6 DEF Plan
      <3>3. n \notin db.backups /\ n # Absent
        BY <1>4, <2>7 DEF UnusedName, NoJob, Threads
      <3>4. QED
        BY <1>2, <2>1, <2>5, <2>6, <2>10, <3>1, <3>3 DEF PlanOf, Working
    <2>12. fresh' \in Nat /\ todo' = todo
      BY <1>0, <1>2, <1>4 DEF DiskInv
    <2>13. QED
      BY <1>0, <1>1, <1>2, <1>4, <2>5, <2>6, <2>8, <2>9, <2>10, <2>11, <2>12, Waiting
  <1>5. \/ End("worker")
        \/ \E n \in Names :
             /\ UnusedName(n) /\ pc' = [pc EXCEPT !["worker"] = "prepare"]
             /\ job' = [job EXCEPT !["worker"] =
                          RecordArchive("restore_checkpoint", n,
                                        ArchiveOf(c.portable, c.portable), c)]
             /\ UNCHANGED <<todo, restoring>>
    BY DEF RestoreProceed, Goto
  <1>6. QED
    BY <1>3, <1>4, <1>5

-----------------------------------------------------------------------------
(* The journal. *)

LEMMA PrepareStep ==
  ASSUME RecoveryInv, NEW t \in Threads, Prepare(t) PROVE RecoveryInv' /\ Same
  <1>0. /\ DiskInv /\ ThreadInv /\ GateInv /\ OperationInv /\ JournalInv /\ ArmedInv /\ SnapshotInv
        /\ ArchiveInv
    BY DEF RecoveryInv
  <1>1. /\ pc[t] = "prepare" /\ files' = files /\ archives' = archives /\ snapshots' = snapshots
        /\ checkpoint' = checkpoint /\ memoryKey' = memoryKey /\ degraded' = degraded
        /\ fresh' = fresh /\ previous' = previous /\ Shrunk
    BY DEF Prepare, boundVars, Shrunk
  <1>2. CASE End(t) /\ UNCHANGED db
    BY <1>0, <1>1, <1>2, Leaving DEF DiskInv, ThreadInv, Waits
  <1>3. ASSUME db.row = NoRow, db' = RowPrepared(job[t]), pc' = [pc EXCEPT ![t] = "snapshot"],
               todo' = [todo EXCEPT ![t] =
                          InOrder(job[t].existing) \o
                          (IF job[t].kind = "backup_restore" THEN <<"database">> ELSE <<>>)],
               UNCHANGED <<job, restoring>>
        PROVE  RecoveryInv' /\ Same
    <2>0. PlanOf(t) /\ Plan(job[t]) /\ job[t].tracked \subseteq Files /\ job' = job
          /\ job[t].existing \subseteq job[t].tracked
      BY <1>0, <1>1, <1>3 DEF OperationInv, PlanOf, Working, ThreadInv
    <2>1. job[t].kind \in Kinds /\ (job[t].kind \in BackupKinds => job[t].tracked = {})
      BY <1>0, <2>0, PlanEffects
    <2>2. /\ db' \in Databases /\ db'.data = db.data /\ db'.backups = db.backups
          /\ db'.row = Row(job[t]) /\ db'.row \in Rows
      BY <1>0, <1>3, <2>0, <2>1 DEF RowPrepared, Row, Rows, DiskInv, Databases
    <2>3. /\ db'.row # NoRow /\ db'.row.kind = job[t].kind /\ ~db'.row.ready
          /\ db'.row.tracked = job[t].tracked /\ db'.row.existing = job[t].existing
      <3>1. db'.row # NoRow
        BY <2>2, NoRowIsNone
      <3>2. Row(job[t]).ready = FALSE
        BY DEF Row
      <3>3. QED
        BY <2>2, <3>1, <3>2 DEF Row
    <2>4. pc'[t] = "snapshot" /\ \A u \in Others(t) : pc'[u] = pc[u] /\ todo'[u] = todo[u]
      BY <1>0, <1>3 DEF ThreadInv, Others
    <2>5. t # "boot"
      BY <1>0, <1>1 DEF ThreadInv, Recovering
    <2>6. ASSUME NEW u \in Others(t) PROVE pc[u] \in Waits
      <3>1. u \in Threads /\ RowOf(u) /\ pc[u] \in Labels
        BY <1>0 DEF Others, OperationInv, ThreadInv
      <3>3. ~Holds(u)
        BY <1>3, <3>1 DEF RowOf, RowFor
      <3>4. ~(u = "boot" /\ pc[u] = "reconcile")
        BY <1>0, <1>1, <2>5 DEF ThreadInv, Threads
      <3>5. QED
        BY <3>1, <3>3, <3>4 DEF Holds, Labels, Holding, Recovering, Waits
    <2>7. ~Armed /\ ~Armed' /\ JournalInv'
      BY <1>0, <1>1, <1>3, <2>3 DEF Armed, JournalInv
    <2>8. DiskInv'
      BY <1>0, <1>1, <2>0, <2>1, <2>2, <2>3 DEF DiskInv
    <2>9. ThreadInv' /\ GateInv'
      <3>1. DOMAIN job' = Threads /\ DOMAIN todo' = Threads
        BY <1>0, <1>3 DEF ThreadInv
      <3>2. "snapshot" \in Labels
        BY DEF Labels
      <3>3. QED
        BY <1>1, <1>3, <2>0, <2>5, <3>1, <3>2, GoingOn
    <2>10. OperationInv'
      <3> SUFFICES ASSUME NEW u \in Threads PROVE RowOf(u)' /\ PlanOf(u)' /\ ProgressOf(u)'
        BY DEF OperationInv
      <3>1. PlanOf(u) /\ (u # t => u \in Others(t))
        BY <1>0 DEF OperationInv, Others
      <3>2. pc[u] \in Working /\ job[u].kind \in BackupKinds => job[u].name \notin db'.backups
        BY <2>2, <3>1 DEF PlanOf
      <3>3. pc'[u] = pc[u] \/ (pc'[u] = "snapshot" /\ pc[u] = "prepare")
        BY <1>1, <2>4, <3>1
      <3>4. PlanOf(u)'
        BY <1>1, <2>0, <2>2, <3>1, <3>2, <3>3, PlanOfKept DEF Working
      <3>5. CASE u # t
        BY <2>4, <2>6, <3>1, <3>4, <3>5, WaitingOf
      <3>6. CASE u = t
        <4>1. RowOf(u)'
          BY <2>0, <2>3, <2>4, <2>6, <2>7, <3>6 DEF RowOf, Holds, RowFor, Holding, Waits
        <4> DEFINE a == InOrder(job[t].existing)
        <4> DEFINE b == IF job[t].kind = "backup_restore" THEN <<"database">> ELSE <<>>
        <4> DEFINE S == Files \cup {"database"}
        <4>2. a \in Seq(Files) /\ Range(a) = job[t].existing
          BY <2>0, InOrderRange
        <4>3. a \in Seq(S)
          BY <4>2
        <4>4. /\ b \in Seq(S)
              /\ job[t].kind = "backup_restore" => Range(b) = {"database"}
          <5>1. <<"database">> \in Seq(S) /\ <<>> \in Seq(S)
            OBVIOUS
          <5>2. b \in {<<"database">>, <<>>}
            OBVIOUS
          <5>3. b \in Seq(S)
            BY <5>1, <5>2, Zenon
          <5>4. job[t].kind = "backup_restore" => b = <<"database">>
            OBVIOUS
          <5>5. QED
            BY <5>3, <5>4, RangeOne
        <4>5. todo'[t] = a \o b
          BY <1>0, <1>3 DEF ThreadInv
        <4> HIDE DEF a, b, S
        <4>6. a \o b \in Seq(S) /\ Range(a \o b) = Range(a) \cup Range(b)
          BY <4>3, <4>4, RangeConcatenation
        <4>7. ProgressOf(u)'
          BY <2>0, <2>4, <3>6, <4>2, <4>4, <4>5, <4>6 DEF ProgressOf, S
        <4>8. QED
          BY <3>4, <4>1, <4>7
      <3>7. QED
        BY <3>5, <3>6
    <2>11. ArmedInv' /\ SnapshotInv'
      BY <2>7 DEF ArmedInv, SnapshotInv
    <2>12. ArchiveInv'
      BY <1>0, <1>1, <2>0, <2>2, <2>4 DEF ArchiveInv, Others
    <2>13. Same
      BY <1>1, <2>2, <2>7, DurableKept
    <2>14. QED
      BY <2>7, <2>8, <2>9, <2>10, <2>11, <2>12, <2>13 DEF RecoveryInv
  <1>4. QED
    BY <1>2, <1>3 DEF Prepare, Goto

(* The thread that has the row goes on with its operation. *)
LEMMA Acting ==
  ASSUME RecoveryInv, NEW t \in Threads, pc[t] \in Holding, NEW l \in Labels,
         l \notin {"idle", "gate"}, t = "boot" => l \in Recovering,
         pc' = [pc EXCEPT ![t] = l], job' = job, DOMAIN todo' = Threads,
         restoring' = restoring, degraded' = degraded,
         db'.backups = db.backups, \A n \in db.backups : archives'[n] = archives[n],
         RowOf(t)', PlanOf(t)', ProgressOf(t)'
  PROVE  ThreadInv' /\ GateInv' /\ OperationInv'
  <1>0. ThreadInv
    BY DEF RecoveryInv
  <1>1. ThreadInv' /\ GateInv'
    <2>1. pc[t] # "idle" /\ DOMAIN job' = Threads
      BY <1>0 DEF Holding, ThreadInv
    <2>2. QED
      BY <2>1, GoingOn
  <1>2. \A u \in Others(t) : pc'[u] = pc[u] /\ job'[u] = job[u]
    BY <1>0 DEF ThreadInv, Others
  <1>3. \A u \in Others(t) : RowOf(u)' /\ PlanOf(u)' /\ ProgressOf(u)'
    BY <1>2, OthersKept
  <1>4. OperationInv'
    BY <1>3 DEF OperationInv, Others
  <1>5. QED
    BY <1>1, <1>4

(* Before its row is armed: nothing is durable but what is there. *)
LEMMA UnarmedStep ==
  ASSUME RecoveryInv, NEW t \in Threads, pc[t] = "snapshot", NEW l \in {"snapshot", "unwind"},
         pc' = [pc EXCEPT ![t] = l], job' = job, DOMAIN todo' = Threads,
         restoring' = restoring, degraded' = degraded, db' = db, files' = files,
         archives' = archives, memoryKey' = memoryKey, fresh' = fresh, previous' = previous,
         snapshots' \in [Files -> Values], checkpoint' \in Databases \cup {Absent},
         ProgressOf(t)'
  PROVE  RecoveryInv' /\ Same
  <1>0. /\ DiskInv /\ ThreadInv /\ OperationInv /\ JournalInv /\ ArchiveInv /\ RowOf(t) /\ PlanOf(t)
        /\ \A u \in Threads : RowOf(u)
    BY DEF RecoveryInv, OperationInv
  <1>1. pc'[t] = l /\ \A u \in Others(t) : pc'[u] = pc[u]
    BY <1>0 DEF ThreadInv, Others
  <1>2. t # "boot" /\ pc[t] \in Holding /\ l \in Labels
    BY <1>0 DEF ThreadInv, Recovering, Holding, Labels
  <1>3. ~Armed
    BY NotArmed
  <1>4. JournalInv' /\ ~Armed'
    BY <1>0, <1>3, JournalKept
  <1>5. RowOf(t)'
    BY <1>0, <1>1, <1>2, <1>4 DEF RowOf, Holds, RowFor, Holding, Others
  <1>6. pc[t] \in Working /\ job[t].kind \in BackupKinds => job[t].name \notin db'.backups
    BY <1>0 DEF PlanOf
  <1>7. PlanOf(t)'
    BY <1>0, <1>1, <1>6, PlanOfKept DEF Working
  <1>8. ThreadInv' /\ GateInv' /\ OperationInv'
    BY <1>2, <1>5, <1>7, Acting
  <1>9. DiskInv'
    BY <1>0 DEF DiskInv
  <1>10. ArmedInv' /\ SnapshotInv'
    BY <1>4 DEF ArmedInv, SnapshotInv
  <1>11. ArchiveInv'
    BY <1>0, <1>1 DEF ArchiveInv, Others
  <1>12. Same
    BY <1>3, <1>4, DurableKept
  <1>13. QED
    BY <1>4, <1>8, <1>9, <1>10, <1>11, <1>12 DEF RecoveryInv

LEMMA SnapshotStep ==
  ASSUME RecoveryInv, NEW t \in Threads, Snapshot(t) PROVE RecoveryInv' /\ Same
  <1> DEFINE f == Head(todo[t])
  <1>0. /\ DiskInv /\ ThreadInv /\ ProgressOf(t) /\ pc \in [Threads -> Labels]
        /\ job[t].existing \subseteq Files /\ todo[t] # <<>> /\ pc[t] = "snapshot"
    BY DEF RecoveryInv, OperationInv, ThreadInv, Snapshot
  <1>1. /\ job' = job /\ restoring' = restoring /\ degraded' = degraded /\ db' = db
        /\ files' = files /\ archives' = archives /\ memoryKey' = memoryKey /\ fresh' = fresh
        /\ previous' = previous
    BY DEF Snapshot, memoryVars, boundVars
  <1>2. todo[t] \in Seq(Files \cup {"database"})
    BY <1>0 DEF ProgressOf
  <1>3. /\ f \in Files \cup {"database"} /\ Tail(todo[t]) \in Seq(Files \cup {"database"})
        /\ Range(todo[t]) = {f} \cup Range(Tail(todo[t]))
    BY <1>0, <1>2, RangeSplits
  <1>4. \/ f = "database" /\ checkpoint' = db /\ Pop(t) /\ UNCHANGED <<snapshots, pc>>
        \/ /\ f # "database" /\ snapshots' = Copied(f) /\ Pop(t) /\ UNCHANGED <<checkpoint, pc>>
        \/ pc' = [pc EXCEPT ![t] = "unwind"] /\ UNCHANGED <<snapshots, checkpoint, todo>>
    BY <1>3, FileNames DEF Snapshot, Goto
  <1> HIDE DEF f
  <1>5. CASE f = "database" /\ checkpoint' = db /\ Pop(t) /\ UNCHANGED <<snapshots, pc>>
    <2>1. pc' = [pc EXCEPT ![t] = "snapshot"] /\ DOMAIN todo' = Threads
      BY <1>0, <1>5 DEF Pop, ThreadInv
    <2>2. todo'[t] = Tail(todo[t])
      BY <1>0, <1>5 DEF Pop, ThreadInv
    <2>3. ProgressOf(t)'
      BY <1>0, <1>1, <1>3, <1>5, <2>2, FileNames DEF ProgressOf
    <2>4. QED
      BY <1>0, <1>1, <1>5, <2>1, <2>3, UnarmedStep DEF DiskInv
  <1>6. CASE f # "database" /\ snapshots' = Copied(f) /\ Pop(t) /\ UNCHANGED <<checkpoint, pc>>
    <2>1. pc' = [pc EXCEPT ![t] = "snapshot"] /\ DOMAIN todo' = Threads
      BY <1>0, <1>6 DEF Pop, ThreadInv
    <2>2. todo'[t] = Tail(todo[t])
      BY <1>0, <1>6 DEF Pop, ThreadInv
    <2>3. /\ snapshots' \in [Files -> Values] /\ snapshots'[f] = files[f]
          /\ \A g \in Files : g # f => snapshots'[g] = snapshots[g]
      BY <1>0, <1>3, <1>6 DEF Copied, DiskInv
    <2>4. ProgressOf(t)'
      BY <1>0, <1>1, <1>3, <1>6, <2>2, <2>3 DEF ProgressOf
    <2>5. QED
      BY <1>0, <1>1, <1>6, <2>1, <2>3, <2>4, UnarmedStep DEF DiskInv
  <1>7. CASE pc' = [pc EXCEPT ![t] = "unwind"] /\ UNCHANGED <<snapshots, checkpoint, todo>>
    <2>1. pc'[t] = "unwind" /\ DOMAIN todo' = Threads
      BY <1>0, <1>7 DEF ThreadInv
    <2>2. ProgressOf(t)'
      BY <2>1 DEF ProgressOf
    <2>3. QED
      BY <1>0, <1>1, <1>7, <2>1, <2>2, UnarmedStep DEF DiskInv
  <1>8. QED
    BY <1>4, <1>5, <1>6, <1>7

(* The row is armed: what is there is what the snapshots hold. *)
LEMMA MarkReadyStep ==
  ASSUME RecoveryInv, NEW t \in Threads, MarkReady(t) PROVE RecoveryInv' /\ Same
  <1>0. /\ DiskInv /\ ThreadInv /\ OperationInv /\ ArchiveInv /\ RowOf(t) /\ PlanOf(t)
        /\ ProgressOf(t) /\ \A u \in Threads : RowOf(u)
    BY DEF RecoveryInv, OperationInv
  <1>1. /\ pc[t] = "snapshot" /\ todo[t] = <<>> /\ db' = RowReady
        /\ pc' = [pc EXCEPT ![t] = "apply"] /\ todo' = [todo EXCEPT ![t] = job[t].effects]
        /\ files' = files /\ archives' = archives /\ snapshots' = snapshots
        /\ checkpoint' = checkpoint /\ job' = job /\ memoryKey' = memoryKey
        /\ restoring' = restoring /\ degraded' = degraded /\ fresh' = fresh
        /\ previous' = [data |-> db.data, files |-> files]
    BY DEF MarkReady, Goto, memoryVars, boundVars
  <1>2. /\ pc'[t] = "apply" /\ todo'[t] = job[t].effects /\ DOMAIN todo' = Threads
        /\ \A u \in Others(t) : pc'[u] = pc[u]
    BY <1>0, <1>1 DEF ThreadInv, Others
  <1>3. t # "boot" /\ pc[t] \in Holding /\ "apply" \in Labels
    BY <1>0, <1>1 DEF ThreadInv, Recovering, Holding, Labels
  <1>4. RowFor(t) /\ ~db.row.ready
    BY <1>0, <1>1, <1>3 DEF RowOf, Holds
  <1>5. db.row \in Rows
    BY <1>0, <1>4 DEF RowFor, DiskInv, Databases
  <1>6. /\ db' \in Databases /\ db'.data = db.data /\ db'.backups = db.backups
        /\ db'.row \in Rows /\ db'.row.ready /\ db'.row.kind = db.row.kind
        /\ db'.row.tracked = db.row.tracked /\ db'.row.existing = db.row.existing
    BY <1>0, <1>1, <1>5 DEF RowReady, DiskInv, Databases, Rows
  <1>7. db'.row # NoRow
    BY <1>6, NoRowIsNone
  <1>8. /\ ~Armed /\ Armed' /\ previous' \in Saved
        /\ previous'.data = db.data /\ previous'.files = files
    <2>1. previous' \in Saved
      BY <1>0, <1>1 DEF Saved, DiskInv, Databases, Values
    <2>2. QED
      BY <1>1, <2>1, NotArmed, AbsentIsNone DEF Armed
  <1>9. Plan(job[t]) /\ job[t].tracked \subseteq Files
    BY <1>0, <1>1 DEF PlanOf, Working, ThreadInv
  <1>10. RowOf(t)'
    BY <1>0, <1>1, <1>2, <1>3, <1>4, <1>6, <1>7, <1>8 DEF RowOf, Holds, RowFor, Holding, Others
  <1>11. pc[t] \in Working /\ job[t].kind \in BackupKinds => job[t].name \notin db'.backups
    BY <1>0, <1>6 DEF PlanOf
  <1>12. PlanOf(t)'
    BY <1>0, <1>1, <1>2, <1>6, <1>11, PlanOfKept DEF Working
  <1>13. job[t].effects \in Seq(Effects)
    BY <1>0, <1>9, PlanEffects
  <1>14. ProgressOf(t)'
    BY <1>1, <1>2, <1>8, <1>13 DEF ProgressOf
  <1>15. ThreadInv' /\ GateInv' /\ OperationInv'
    BY <1>1, <1>2, <1>3, <1>6, <1>10, <1>12, <1>14, Acting
  <1>16. DiskInv'
    BY <1>0, <1>1, <1>4, <1>6, <1>8 DEF DiskInv, RowFor
  <1>17. ArmedInv'
    BY <1>2 DEF ArmedInv, Holding
  <1>18. /\ \A f \in job[t].existing : snapshots[f] \in {files[f], Absent}
         /\ job[t].kind = "backup_restore" => checkpoint \in {db, Absent}
    BY <1>0, <1>1, RangeEmpty DEF ProgressOf
  <1>19. SnapshotInv'
    BY <1>1, <1>4, <1>6, <1>8, <1>18 DEF SnapshotInv, RowFor
  <1>20. ArchiveInv'
    BY <1>0, <1>1, <1>2, <1>6 DEF ArchiveInv, Others
  <1>21. DurableData' = DurableData
    BY <1>6, <1>8 DEF DurableData
  <1>22. DurableFiles' = DurableFiles
    BY <1>1, <1>8 DEF DurableFiles
  <1>23. DurableCatalogue' = DurableCatalogue
    BY <1>1, <1>6 DEF DurableCatalogue, RecordedArchives
  <1>24. JournalInv'
    BY <1>6, <1>7, <1>8 DEF JournalInv
  <1>25. QED
    BY <1>15, <1>16, <1>17, <1>19, <1>20, <1>21, <1>22, <1>23, <1>24 DEF RecoveryInv, Same

LEMMA ClearedRow ==
  ASSUME DiskInv
  PROVE  /\ RowCleared \in Databases /\ RowCleared.row = NoRow
         /\ RowCleared.data = db.data /\ RowCleared.backups = db.backups
  BY DEF DiskInv, Databases, RowCleared

(* The row of an operation that could not be armed goes; its snapshots may  *)
(* stay.                                                                     *)
LEMMA Unwinding ==
  ASSUME RecoveryInv, NEW t \in Threads, pc[t] = "unwind", db' = RowCleared, End(t),
         snapshots' \in [Files -> Values], checkpoint' \in Databases \cup {Absent},
         files' = files, archives' = archives, memoryKey' = memoryKey, degraded' = degraded,
         fresh' = fresh, previous' = previous
  PROVE  RecoveryInv' /\ Same
  <1>0. /\ DiskInv /\ ThreadInv /\ OperationInv /\ ArchiveInv
    BY DEF RecoveryInv
  <1>1. pc' = [pc EXCEPT ![t] = "idle"] /\ job' = [job EXCEPT ![t] = NoJob]
    BY DEF End, Goto
  <1>2. /\ pc'[t] = "idle" /\ job'[t] = NoJob /\ pc[t] \in Holding
        /\ \A u \in Others(t) : pc'[u] = pc[u] /\ job'[u] = job[u]
    BY <1>0, <1>1 DEF ThreadInv, Others, Holding
  <1>3. db' \in Databases /\ db'.row = NoRow /\ db'.data = db.data /\ db'.backups = db.backups
    BY <1>0, ClearedRow
  <1>4. ~Armed /\ ~Armed'
    BY NotArmed DEF Armed
  <1>5. DiskInv'
    BY <1>0, <1>3 DEF DiskInv
  <1>6. ThreadInv' /\ GateInv'
    BY <1>0, Ending DEF ThreadInv
  <1>7. \A u \in Others(t) : RowOf(u)' /\ PlanOf(u)' /\ ProgressOf(u)'
    BY <1>2, <1>3, OthersKept DEF NoJob
  <1>8. OperationInv'
    <2>1. PlanOf(t)'
      BY <1>2 DEF PlanOf, Working
    <2>2. QED
      BY <1>2, <1>7, <2>1, WaitingOf DEF OperationInv, Others, Waits
  <1>9. JournalInv' /\ ArmedInv' /\ SnapshotInv'
    BY <1>3, <1>4 DEF JournalInv, ArmedInv, SnapshotInv
  <1>10. ArchiveInv'
    BY <1>0, <1>2, <1>3 DEF ArchiveInv, Others
  <1>11. Same
    BY <1>3, <1>4, DurableKept
  <1>12. QED
    BY <1>5, <1>6, <1>8, <1>9, <1>10, <1>11 DEF RecoveryInv

LEMMA UnwindStep ==
  ASSUME RecoveryInv, NEW t \in Threads, Unwind(t) PROVE RecoveryInv' /\ Same
  <1>1. /\ pc[t] = "unwind" /\ snapshots' = NoSnapshots /\ checkpoint' = Absent
        /\ db' = RowCleared /\ End(t) /\ files' = files /\ archives' = archives
        /\ memoryKey' = memoryKey /\ degraded' = degraded /\ fresh' = fresh
        /\ previous' = previous
    BY DEF Unwind, RemoveSnapshots, boundVars
  <1>2. NoSnapshots \in [Files -> Values]
    BY DEF NoSnapshots, Values
  <1>3. QED
    BY <1>1, <1>2, Unwinding

-----------------------------------------------------------------------------
(* The operation itself. *)

(* One effect is performed and keeps the ones before it. *)
LEMMA ApplyStep ==
  ASSUME RecoveryInv, NEW t \in Threads, Apply(t) PROVE RecoveryInv' /\ Same
  <1> DEFINE e == Head(todo[t])
  <1> DEFINE j == job[t]
  <1>0. /\ DiskInv /\ ThreadInv /\ OperationInv /\ ArchiveInv /\ RowOf(t) /\ PlanOf(t)
        /\ ProgressOf(t) /\ SnapshotInv /\ JournalInv
    BY DEF RecoveryInv, OperationInv
  <1>1. /\ pc[t] = "apply" /\ todo[t] # <<>> /\ todo' = [todo EXCEPT ![t] = Tail(@)]
        /\ snapshots' = snapshots /\ checkpoint' = checkpoint /\ pc' = pc /\ job' = job
        /\ restoring' = restoring /\ degraded' = degraded /\ fresh' = fresh
        /\ previous' = previous /\ Shrunk
    BY DEF Apply, Pop, boundVars, Shrunk
  <1>2. /\ e.target = "archive" =>
             /\ archives' = [archives EXCEPT ![j.name] = e.value]
             /\ UNCHANGED <<db, files, memoryKey>>
        /\ e.target = "database" =>
             db' = [db EXCEPT !.data = e.value] /\ UNCHANGED <<files, archives, memoryKey>>
        /\ e.target \in Files =>
             /\ files' = [files EXCEPT ![e.target] = e.value]
             /\ memoryKey' = IF e.target = "totpKey" THEN e.value ELSE memoryKey
             /\ UNCHANGED <<db, archives>>
    BY FileNames DEF Apply, ReplaceDatabase, StoreFile
  <1>3. t # "boot" /\ pc[t] \in Holding /\ "apply" \in Labels /\ pc' = [pc EXCEPT ![t] = "apply"]
        /\ DOMAIN todo' = Threads /\ todo'[t] = Tail(todo[t])
    BY <1>0, <1>1 DEF ThreadInv, Recovering, Holding, Labels
  <1>4. RowFor(t) /\ db.row.ready /\ Armed
    BY <1>0, <1>1, <1>3, IsArmed DEF RowOf, Holds
  <1>5. /\ Plan(j) /\ j.tracked \subseteq Files
        /\ j.kind \in BackupKinds => j.name \notin db.backups
    BY <1>0, <1>1 DEF PlanOf, Working, ThreadInv
  <1>6. /\ \A d \in Range(j.effects) :
             /\ d \in Effects
             /\ d.target = "archive" => j.kind \in BackupKinds /\ j.name \in Names
             /\ d.target = "database" => j.kind = "backup_restore"
             /\ d.target \in Files => d.target \in j.tracked
        /\ \A d \in Range(j.effects) : d.target = e.target /\ e \in Range(j.effects) => d = e
        /\ j.effects \in Seq(Effects)
    BY <1>0, <1>5, PlanEffects
  <1>7. /\ todo[t] \in Seq(Effects) /\ Range(todo[t]) \subseteq Range(j.effects)
        /\ \A d \in Range(j.effects) : d \in Range(todo[t]) \/ Performed(j, d)
        /\ Len(todo[t]) <= Len(j.effects)
    BY <1>0, <1>1 DEF ProgressOf
  <1>8. /\ Tail(todo[t]) \in Seq(Effects) /\ Range(todo[t]) = {e} \cup Range(Tail(todo[t]))
    BY <1>1, <1>7, RangeSplits
  <1>9. e \in Range(j.effects) /\ e \in Effects
    BY <1>6, <1>7, <1>8
  <1> HIDE DEF e, j
  <1>10. \/ e.target = "archive" /\ e.value \in A!Contents
         \/ e.target = "database" /\ e.value \in Generations
         \/ e.target \in Files /\ e.value \in Values
    BY <1>9 DEF Effects
  <1>11. /\ DiskInv'
         /\ \A d \in Range(j.effects) : d = e => Performed(j, d)'
         /\ \A d \in Range(j.effects) :
              d.target # e.target /\ Performed(j, d) => Performed(j, d)'
         /\ \A f \in Files \ j.tracked : files'[f] = files[f]
         /\ db'.row = db.row /\ db'.backups = db.backups
         /\ db.row.kind # "backup_restore" => db'.data = db.data
         /\ \A n \in Names : archives'[n] = archives[n] \/ (j.kind \in BackupKinds /\ n = j.name)
         /\ \A n \in db.backups : archives'[n] = archives[n]
    <2>0. j' = j
      BY <1>1 DEF j
    <2>1. CASE e.target = "archive"
      <3>1. /\ archives' = [archives EXCEPT ![j.name] = e.value] /\ db' = db /\ files' = files
            /\ memoryKey' = memoryKey /\ j.kind \in BackupKinds /\ j.name \in Names
            /\ e.value \in A!Contents
        BY <1>2, <1>6, <1>9, <1>10, <2>1, FileNames
      <3>2. /\ archives' \in [Names -> A!Contents \cup {Absent}] /\ archives'[j.name] = e.value
            /\ \A n \in Names : n # j.name => archives'[n] = archives[n]
            /\ j.name \notin db.backups /\ db.backups \subseteq Names
        BY <1>0, <1>5, <3>1 DEF DiskInv, Databases
      <3>3. DiskInv'
        BY <1>0, <1>1, <3>1, <3>2 DEF DiskInv
      <3>4. \A d \in Range(j.effects) : d = e => Performed(j, d)'
        BY <2>0, <2>1, <3>2, FileNames DEF Performed
      <3>5. \A d \in Range(j.effects) :
              d.target # e.target /\ Performed(j, d) => Performed(j, d)'
        BY <2>0, <2>1, <3>1 DEF Performed
      <3>6. QED
        BY <3>1, <3>2, <3>3, <3>4, <3>5
    <2>2. CASE e.target = "database"
      <3>1. /\ db' = [db EXCEPT !.data = e.value] /\ files' = files /\ archives' = archives
            /\ memoryKey' = memoryKey /\ j.kind = "backup_restore" /\ e.value \in Generations
        BY <1>2, <1>6, <1>9, <1>10, <2>2, FileNames
      <3>2. db' \in Databases /\ db'.row = db.row /\ db'.backups = db.backups /\ db'.data = e.value
        BY <1>0, <3>1 DEF DiskInv, Databases
      <3>3. DiskInv'
        BY <1>0, <1>1, <3>1, <3>2 DEF DiskInv
      <3>4. \A d \in Range(j.effects) : d = e => Performed(j, d)'
        BY <2>0, <2>2, <3>2, FileNames DEF Performed
      <3>5. \A d \in Range(j.effects) :
              d.target # e.target /\ Performed(j, d) => Performed(j, d)'
        BY <2>0, <2>2, <3>1 DEF Performed
      <3>6. db.row.kind = "backup_restore"
        BY <1>4, <3>1 DEF RowFor, j
      <3>7. QED
        BY <3>1, <3>2, <3>3, <3>4, <3>5, <3>6
    <2>3. CASE e.target \in Files
      <3>1. /\ files' = [files EXCEPT ![e.target] = e.value] /\ db' = db /\ archives' = archives
            /\ memoryKey' = (IF e.target = "totpKey" THEN e.value ELSE memoryKey)
            /\ e.target \in j.tracked /\ e.value \in Values
        BY <1>2, <1>6, <1>9, <1>10, <2>3, FileNames
      <3>2. /\ files' \in [Files -> Values] /\ files'[e.target] = e.value
            /\ \A f \in Files : f # e.target => files'[f] = files[f]
        BY <1>0, <2>3, <3>1 DEF DiskInv
      <3>3. memoryKey' = files'["totpKey"]
        BY <1>0, <3>1, <3>2, FileNames DEF DiskInv
      <3>4. DiskInv'
        BY <1>0, <1>1, <3>1, <3>2, <3>3 DEF DiskInv
      <3>5. \A d \in Range(j.effects) : d = e => Performed(j, d)'
        BY <2>0, <2>3, <3>2, FileNames DEF Performed
      <3>6. \A d \in Range(j.effects) :
              d.target # e.target /\ Performed(j, d) => Performed(j, d)'
        BY <2>0, <2>3, <3>1, <3>2 DEF Performed
      <3>7. QED
        BY <3>1, <3>2, <3>4, <3>5, <3>6
    <2>4. QED
      BY <1>10, <2>1, <2>2, <2>3
  <1>12. JournalInv' /\ Armed'
    BY <1>0, <1>1, <1>4, <1>11, JournalKept
  <1>13. RowOf(t)'
    BY <1>0, <1>1, <1>11, <1>12 DEF RowOf, Holds, RowFor
  <1>14. PlanOf(t)'
    <2>1. pc[t] \in Working /\ job[t].kind \in BackupKinds => job[t].name \notin db'.backups
      BY <1>0, <1>11 DEF PlanOf
    <2>2. QED
      BY <1>0, <1>1, <1>11, <2>1, PlanOfKept DEF j
  <1>15. ProgressOf(t)'
    <2>1. \A d \in Range(j.effects) : d \in Range(Tail(todo[t])) \/ Performed(j, d)'
      BY <1>6, <1>7, <1>8, <1>9, <1>11
    <2>2. Len(Tail(todo[t])) < Len(j.effects)
      BY <1>1, <1>6, <1>7
    <2>3. Len(Tail(todo[t])) <= Len(j.effects) /\ Tail(todo[t]) # j.effects
      <3>1. Len(Tail(todo[t])) \in Nat /\ Len(j.effects) \in Nat
        BY <1>6, <1>8
      <3>2. Len(Tail(todo[t])) <= Len(j.effects) /\ Len(Tail(todo[t])) # Len(j.effects)
        BY <2>2, <3>1
      <3>3. Tail(todo[t]) = j.effects => Len(Tail(todo[t])) = Len(j.effects)
        BY Zenon
      <3>4. QED
        BY <3>2, <3>3, Zenon
    <2>4. QED
      BY <1>1, <1>3, <1>7, <1>8, <2>1, <2>3 DEF ProgressOf, j
  <1>16. ThreadInv' /\ GateInv' /\ OperationInv'
    BY <1>1, <1>3, <1>11, <1>13, <1>14, <1>15, Acting DEF j
  <1>17. ArmedInv'
    BY <1>1 DEF ArmedInv, Holding
  <1>18. SnapshotInv'
    BY <1>0, <1>1, <1>4, <1>11, SnapshotsKept DEF RowFor
  <1>19. ArchiveInv'
    BY <1>0, <1>1, <1>11 DEF ArchiveInv, j
  <1>20. Same
    <2>1. \A f \in Files \ db.row.tracked : files'[f] = files[f]
      BY <1>4, <1>11 DEF RowFor, j
    <2>2. QED
      BY <1>1, <1>4, <1>11, <2>1, DurableKept
  <1>21. QED
    BY <1>11, <1>12, <1>16, <1>17, <1>18, <1>19, <1>20 DEF RecoveryInv

(* The snapshots go; another thread may rely on them by now. *)
LEMMA CleanupStep ==
  ASSUME RecoveryInv, NEW t \in Threads, Cleanup(t) \/ Sweep(t) PROVE RecoveryInv' /\ Same
  <1>1. /\ pc[t] \in {"cleanup", "sweep"} /\ snapshots' = NoSnapshots /\ checkpoint' = Absent
        /\ End(t) /\ db' = db /\ files' = files /\ archives' = archives
        /\ memoryKey' = memoryKey /\ degraded' = degraded /\ fresh' = fresh
        /\ previous' = previous
    BY DEF Cleanup, Sweep, RemoveSnapshots, boundVars
  <1>2. NoSnapshots \in [Files -> Values] /\ degraded \in BOOLEAN /\ Shrunk
    BY <1>1 DEF NoSnapshots, Values, RecoveryInv, ThreadInv, Shrunk
  <1>3. QED
    BY <1>1, <1>2, Leaving DEF Waits

-----------------------------------------------------------------------------
(* Recovery. *)

(* The archives that are not recorded go and the row is loaded. *)
LEMMA ReconcileStep ==
  ASSUME RecoveryInv, NEW t \in Threads, Reconcile(t) PROVE RecoveryInv' /\ Same
  <1>0. /\ DiskInv /\ ThreadInv /\ GateInv /\ OperationInv /\ ArmedInv /\ SnapshotInv /\ ArchiveInv
        /\ RowOf(t) /\ JournalInv
    BY DEF RecoveryInv, OperationInv
  <1>1. /\ pc[t] = "reconcile" /\ archives' = RecordedArchives /\ db' = db /\ files' = files
        /\ snapshots' = snapshots /\ checkpoint' = checkpoint /\ memoryKey' = memoryKey
        /\ restoring' = restoring /\ degraded' = degraded /\ fresh' = fresh
        /\ previous' = previous /\ Shrunk
    BY DEF Reconcile, memoryVars, boundVars, Shrunk
  <1>2. /\ archives' \in [Names -> A!Contents \cup {Absent}]
        /\ \A n \in db.backups : archives'[n] = archives[n]
        /\ \A n \in Names : n \notin db.backups => archives'[n] = Absent
    BY <1>0, <1>1 DEF RecordedArchives, DiskInv, Databases
  <1>3. DiskInv' /\ ArchiveInv'
    BY <1>0, <1>1, <1>2 DEF DiskInv, ArchiveInv
  <1>4. pc[t] \in Holding
    BY <1>1 DEF Holding
  <1>5. \A u \in Others(t) : pc[u] \notin Holding
    BY <1>4, OthersWait DEF Holding, Waits
  <1>6. CASE db.row = NoRow
    <2>1. t = "boot"
      BY <1>0, <1>1, <1>6 DEF RowOf, Holds, RowFor, Holding
    <2>2. pc' = [pc EXCEPT ![t] = "sweep"] /\ job' = job /\ todo' = todo
      BY <1>6 DEF Reconcile, Goto
    <2>3. pc'[t] = "sweep" /\ DOMAIN todo' = Threads /\ "sweep" \in Recovering /\ "sweep" \in Labels
      BY <1>0, <2>2 DEF ThreadInv, Recovering, Labels
    <2>4. RowOf(t)' /\ PlanOf(t)' /\ ProgressOf(t)'
      BY <1>1, <1>6, <2>3 DEF RowOf, PlanOf, ProgressOf, Holds, Holding, Working
    <2>5. ThreadInv' /\ GateInv' /\ OperationInv'
      BY <1>1, <1>2, <1>4, <2>2, <2>3, <2>4, Acting
    <2>6. ~Armed /\ ~Armed' /\ JournalInv'
      BY <1>0, <1>1, <1>6 DEF Armed, JournalInv
    <2>7. Same
      BY <1>1, <1>2, <2>6, DurableKept
    <2>8. QED
      BY <1>3, <2>5, <2>6, <2>7 DEF RecoveryInv, ArmedInv, SnapshotInv
  <1>7. CASE db.row # NoRow
    <2> DEFINE j == LoadedOperation
    <2> DEFINE l == IF ~db.row.ready \/ db.row.kind \in BackupKinds
                      THEN "settle"
                      ELSE IF db.row.kind = "backup_restore" THEN "checkpoint" ELSE "files"
    <2>1. /\ job' = [job EXCEPT ![t] = j] /\ todo' = [todo EXCEPT ![t] = InOrder(db.row.tracked)]
          /\ pc' = [pc EXCEPT ![t] = l]
      BY <1>7 DEF Reconcile, Goto
    <2>2. /\ j.kind = db.row.kind /\ j.tracked = db.row.tracked /\ j.existing = db.row.existing
          /\ j.name = Absent
      BY DEF LoadedOperation, NoJob
    <2>3. /\ l \in {"settle", "checkpoint", "files"}
          /\ l = "settle" => ~db.row.ready \/ db.row.kind \in BackupKinds
          /\ l # "settle" => db.row.ready
          /\ l = "checkpoint" => db.row.kind = "backup_restore"
          /\ l = "files" => db.row.kind \notin BackupKinds \cup {"backup_restore"}
      OBVIOUS
    <2> HIDE DEF j, l
    <2>4. /\ db.row.tracked \subseteq Files /\ db.row.existing \subseteq db.row.tracked
      BY <1>0, <1>7 DEF DiskInv, Databases, Rows
    <2>5. /\ pc'[t] = l /\ job'[t] = j /\ todo'[t] = InOrder(db.row.tracked)
          /\ DOMAIN todo' = Threads /\ DOMAIN job' = Threads
          /\ \A u \in Others(t) : pc'[u] = pc[u] /\ job'[u] = job[u]
      BY <1>0, <2>1 DEF ThreadInv, Others
    <2>6. todo'[t] \in Seq(Files) /\ Range(todo'[t]) = db.row.tracked
      BY <2>4, <2>5, InOrderRange
    <2>7. ThreadInv' /\ GateInv'
      <3>1. l \in Recovering /\ l \in Labels
        BY <2>3 DEF Recovering, Labels
      <3>2. CASE t = "boot"
        <4>1. /\ pc["worker"] = "idle" /\ pc["server"] = "idle" /\ job["worker"] = NoJob
              /\ job["server"] = NoJob /\ ~restoring
          BY <1>0, <1>1, <3>2 DEF ThreadInv, Threads
        <4>2. ASSUME NEW u \in Threads
              PROVE  /\ job'[u].tracked \subseteq Files /\ job'[u].existing \subseteq job'[u].tracked
                     /\ pc'[u] = "idle" => job'[u] = NoJob
          BY <2>2, <2>3, <2>4, <2>5, <3>2, <4>1 DEF Threads, Others, NoJob
        <4>3. pc' \in [Threads -> Labels]
          BY <1>0, <2>1, <3>1 DEF ThreadInv
        <4>4. pc'["worker"] = "idle" /\ pc'["server"] = "idle" /\ pc'["boot"] = l
          BY <2>5, <3>2, <4>1 DEF Others, Threads
        <4>5. ThreadInv'
          BY <1>0, <1>1, <2>5, <3>1, <4>1, <4>2, <4>3, <4>4 DEF ThreadInv
        <4>6. GateInv'
          BY <2>5, <3>2, <4>1, <4>4 DEF GateInv, Restores, Others, Threads, NoJob
        <4>7. QED
          BY <4>5, <4>6
      <3>3. CASE t # "boot"
        <4>1. RowFor(t)
          BY <1>0, <1>1, <1>4, <3>3 DEF RowOf, Holds
        <4>2. /\ job'[t].kind = job[t].kind /\ job'[t].tracked = job[t].tracked
              /\ job'[t].existing = job[t].existing
          BY <2>2, <2>5, <4>1 DEF RowFor
        <4>3. pc[t] # "idle" /\ l \notin {"idle", "gate"}
          BY <1>1, <2>3
        <4>4. QED
          BY <1>1, <2>1, <2>5, <3>1, <3>3, <4>2, <4>3, GoingOn
      <3>4. QED
        BY <3>2, <3>3
    <2>8. RowOf(t)'
      <3>1. RowFor(t)'
        BY <1>1, <1>7, <2>2, <2>5 DEF RowFor
      <3>2. QED
        BY <1>1, <1>5, <2>3, <2>5, <3>1 DEF RowOf
    <2>9. PlanOf(t)'
      BY <2>3, <2>5 DEF PlanOf, Working
    <2>10. ProgressOf(t)'
      BY <2>2, <2>3, <2>5, <2>6 DEF ProgressOf
    <2>11. OperationInv'
      <3>1. \A u \in Others(t) : RowOf(u)' /\ PlanOf(u)' /\ ProgressOf(u)'
        BY <1>1, <1>2, <1>4, <2>2, <2>5, OthersKept
      <3>2. QED
        BY <2>8, <2>9, <2>10, <3>1 DEF OperationInv, Others
    <2>12. JournalInv' /\ (Armed' <=> Armed)
      BY <1>0, <1>1, JournalKept
    <2>13. ArmedInv'
      BY <2>3, <2>5 DEF ArmedInv, Holding
    <2>14. SnapshotInv'
      BY <1>0, <1>1, <1>7, SnapshotsKept
    <2>15. Same
      BY <1>1, <1>2, DurableKept
    <2>16. QED
      BY <1>3, <2>7, <2>11, <2>12, <2>13, <2>14, <2>15 DEF RecoveryInv
  <1>8. QED
    BY <1>6, <1>7

(* The database comes back as it was before its row was armed, with a row   *)
(* that says so until it is armed again.                                    *)
LEMMA RestoreCheckpointStep ==
  ASSUME RecoveryInv, NEW t \in Threads, RestoreCheckpoint(t) PROVE RecoveryInv' /\ Same
  <1>0. /\ DiskInv /\ ThreadInv /\ OperationInv /\ SnapshotInv /\ ArchiveInv /\ JournalInv
        /\ RowOf(t) /\ ProgressOf(t)
    BY DEF RecoveryInv, OperationInv
  <1>1. /\ pc[t] = "checkpoint" /\ pc[t] \in Holding /\ Armed
        /\ files' = files /\ archives' = archives /\ snapshots' = snapshots
        /\ checkpoint' = checkpoint /\ memoryKey' = memoryKey /\ fresh' = fresh
        /\ previous' = previous /\ Shrunk
    BY IsArmed DEF RestoreCheckpoint, Holding, boundVars, Shrunk
  <1>2. RowFor(t) /\ db.row.kind = "backup_restore"
    BY <1>0, <1>1 DEF RowOf, Holds
  <1>a. CASE checkpoint = Absent
    <2>1. degraded' = TRUE /\ End(t) /\ db' = db
      BY <1>a DEF RestoreCheckpoint, Unrecoverable
    <2>2. QED
      BY <1>0, <1>1, <2>1, Leaving DEF DiskInv
  <1>b. CASE checkpoint # Absent
    <2>3. /\ checkpoint \in Databases /\ checkpoint.backups = db.backups
          /\ checkpoint.data = previous.data
          /\ checkpoint.row # NoRow /\ ~checkpoint.row.ready
          /\ checkpoint.row.kind = db.row.kind /\ checkpoint.row.tracked = db.row.tracked
          /\ checkpoint.row.existing = db.row.existing
      BY <1>0, <1>1, <1>2, <1>b DEF SnapshotInv, DiskInv
    <2>4. /\ db' = checkpoint /\ pc' = [pc EXCEPT ![t] = "rearm"] /\ job' = job /\ todo' = todo
          /\ restoring' = restoring /\ degraded' = degraded
      BY <1>b DEF RestoreCheckpoint, Goto
    <2>5. /\ pc'[t] = "rearm" /\ DOMAIN todo' = Threads /\ "rearm" \in Labels
          /\ "rearm" \in Recovering /\ \A u \in Others(t) : pc'[u] = pc[u]
      BY <1>0, <2>4 DEF ThreadInv, Labels, Recovering, Others
    <2>6. Armed' /\ JournalInv'
      BY <1>1, <1>2, <2>3, <2>4 DEF Armed, JournalInv
    <2>7. DiskInv'
      BY <1>0, <1>1, <1>2, <2>3, <2>4 DEF DiskInv, RowFor
    <2>8. RowOf(t)'
      <3>1. RowFor(t)'
        BY <1>2, <2>3, <2>4 DEF RowFor
      <3>2. \A u \in Others(t) : pc'[u] \notin Holding
        BY <1>0, <1>1, <2>5 DEF RowOf, Holds
      <3>3. QED
        BY <1>2, <2>3, <2>4, <2>5, <2>6, <3>1, <3>2 DEF RowOf
    <2>9. PlanOf(t)' /\ ProgressOf(t)'
      BY <1>0, <1>1, <2>3, <2>4, <2>5 DEF PlanOf, Working, ProgressOf
    <2>10. ThreadInv' /\ GateInv' /\ OperationInv'
      BY <1>1, <2>3, <2>4, <2>5, <2>8, <2>9, Acting
    <2>11. ArmedInv'
      BY <2>5 DEF ArmedInv, Holding
    <2>12. SnapshotInv'
      BY <1>0, <1>1, <2>3, <2>4, SnapshotsKept
    <2>13. ArchiveInv'
      BY <1>0, <1>1, <2>3, <2>4, <2>5 DEF ArchiveInv, Others
    <2>14. Same
      BY <1>1, <1>2, <2>3, <2>4, DurableKept
    <2>15. QED
      BY <2>6, <2>7, <2>10, <2>11, <2>12, <2>13, <2>14 DEF RecoveryInv
  <1>c. QED
    BY <1>a, <1>b

LEMMA RearmStep ==
  ASSUME RecoveryInv, NEW t \in Threads, Rearm(t) PROVE RecoveryInv' /\ Same
  <1>0. /\ DiskInv /\ ThreadInv /\ OperationInv /\ SnapshotInv /\ ArchiveInv /\ JournalInv
        /\ RowOf(t) /\ ProgressOf(t)
    BY DEF RecoveryInv, OperationInv
  <1>1. /\ pc[t] = "rearm" /\ db' = RowReady /\ pc' = [pc EXCEPT ![t] = "files"]
        /\ job' = job /\ todo' = todo /\ restoring' = restoring /\ degraded' = degraded
        /\ files' = files /\ archives' = archives /\ snapshots' = snapshots
        /\ checkpoint' = checkpoint /\ memoryKey' = memoryKey /\ fresh' = fresh
        /\ previous' = previous /\ Shrunk
    BY DEF Rearm, Goto, memoryVars, boundVars, Shrunk
  <1>2. pc[t] \in Holding /\ Armed
    BY <1>1, IsArmed DEF Holding
  <1>3. RowFor(t) /\ db.row.kind = "backup_restore" /\ db.row \in Rows
        /\ db.data = previous.data
    BY <1>0, <1>1, <1>2 DEF RowOf, Holds, RowFor, DiskInv, Databases, JournalInv
  <1>4. /\ db' \in Databases /\ db'.data = db.data /\ db'.backups = db.backups
        /\ db'.row \in Rows /\ db'.row.ready /\ db'.row.kind = db.row.kind
        /\ db'.row.tracked = db.row.tracked /\ db'.row.existing = db.row.existing
    BY <1>0, <1>1, <1>3 DEF RowReady, DiskInv, Databases, Rows
  <1>5. db'.row # NoRow
    BY <1>4, NoRowIsNone
  <1>6. /\ pc'[t] = "files" /\ DOMAIN todo' = Threads /\ "files" \in Labels /\ "files" \in Recovering
        /\ \A u \in Others(t) : pc'[u] = pc[u]
    BY <1>0, <1>1 DEF ThreadInv, Labels, Recovering, Others
  <1>7. Armed' /\ JournalInv'
    BY <1>1, <1>2, <1>4, <1>5 DEF Armed, JournalInv
  <1>8. DiskInv'
    BY <1>0, <1>1, <1>3, <1>4 DEF DiskInv, RowFor
  <1>9. RowOf(t)'
    <2>1. RowFor(t)'
      BY <1>1, <1>3, <1>4, <1>5 DEF RowFor
    <2>2. \A u \in Others(t) : pc'[u] \notin Holding
      BY <1>0, <1>1, <1>2, <1>6 DEF RowOf, Holds
    <2>3. QED
      BY <1>3, <1>4, <1>6, <1>7, <2>1, <2>2 DEF RowOf, BackupKinds
  <1>10. PlanOf(t)' /\ ProgressOf(t)'
    BY <1>0, <1>1, <1>3, <1>4, <1>6 DEF PlanOf, Working, ProgressOf
  <1>11. ThreadInv' /\ GateInv' /\ OperationInv'
    BY <1>1, <1>2, <1>4, <1>6, <1>9, <1>10, Acting
  <1>12. ArmedInv'
    BY <1>6 DEF ArmedInv, Holding
  <1>13. SnapshotInv'
    BY <1>0, <1>1, <1>4, <1>5, SnapshotsKept
  <1>14. ArchiveInv'
    BY <1>0, <1>1, <1>4, <1>6 DEF ArchiveInv, Others
  <1>15. Same
    BY <1>1, <1>2, <1>3, <1>4, DurableKept
  <1>16. QED
    BY <1>7, <1>8, <1>11, <1>12, <1>13, <1>14, <1>15 DEF RecoveryInv

LEMMA RestoreFileStep ==
  ASSUME RecoveryInv, NEW t \in Threads, RestoreFile(t) PROVE RecoveryInv' /\ Same
  <1> DEFINE f == Head(todo[t])
  <1> DEFINE Back(g) == IF g \in job[t].existing THEN previous.files[g] ELSE Absent
  <1>0. /\ DiskInv /\ ThreadInv /\ OperationInv /\ SnapshotInv /\ ArchiveInv /\ JournalInv
        /\ RowOf(t) /\ ProgressOf(t)
    BY DEF RecoveryInv, OperationInv
  <1>1. /\ pc[t] = "files" /\ todo[t] # <<>> /\ pc[t] \in Holding /\ Armed
        /\ db' = db /\ archives' = archives /\ snapshots' = snapshots
        /\ checkpoint' = checkpoint /\ fresh' = fresh /\ previous' = previous /\ Shrunk
    BY IsArmed DEF RestoreFile, Holding, boundVars, Shrunk
  <1>2. RowFor(t)
    BY <1>0, <1>1 DEF RowOf, Holds
  <1>3. /\ todo[t] \in Seq(Files) /\ Range(todo[t]) \subseteq job[t].tracked
        /\ \A g \in job[t].tracked : g \in Range(todo[t]) \/ files[g] = Back(g)
    BY <1>0, <1>1 DEF ProgressOf
  <1>4. f \in Files /\ Tail(todo[t]) \in Seq(Files) /\ Range(todo[t]) = {f} \cup Range(Tail(todo[t]))
    BY <1>1, <1>3, RangeSplits
  <1>5. CASE f \in job[t].existing /\ snapshots[f] = Absent
    <2>1. degraded' = TRUE /\ End(t) /\ files' = files /\ memoryKey' = memoryKey
      BY <1>5 DEF RestoreFile, Unrecoverable
    <2>2. QED
      BY <1>0, <1>1, <2>1, Leaving DEF DiskInv
  <1>6. CASE ~(f \in job[t].existing /\ snapshots[f] = Absent)
    <2> DEFINE v == IF f \in job[t].existing THEN snapshots[f] ELSE Absent
    <2>1. /\ files' = [files EXCEPT ![f] = v]
          /\ memoryKey' = (IF f = "totpKey" THEN v ELSE memoryKey)
          /\ todo' = [todo EXCEPT ![t] = Tail(@)] /\ pc' = pc /\ job' = job
          /\ restoring' = restoring /\ degraded' = degraded
      BY <1>6 DEF RestoreFile, StoreFile, Pop
    <2>2. v \in Values /\ v = Back(f)
      BY <1>0, <1>1, <1>2, <1>4, <1>6 DEF DiskInv, Values, SnapshotInv, RowFor
    <2> HIDE DEF f, v
    <2>3. /\ files' \in [Files -> Values] /\ files'[f] = v
          /\ \A g \in Files : g # f => files'[g] = files[g]
      BY <1>0, <1>4, <2>1, <2>2 DEF DiskInv
    <2>4. /\ pc'[t] = "files" /\ todo'[t] = Tail(todo[t]) /\ DOMAIN todo' = Threads
          /\ "files" \in Labels /\ "files" \in Recovering /\ pc' = [pc EXCEPT ![t] = "files"]
      BY <1>0, <1>1, <2>1 DEF ThreadInv, Labels, Recovering
    <2>5. memoryKey' = files'["totpKey"]
      BY <1>0, <2>1, <2>3, FileNames DEF DiskInv
    <2>6. DiskInv'
      BY <1>0, <1>1, <2>1, <2>3, <2>5 DEF DiskInv
    <2>7. JournalInv' /\ Armed'
      BY <1>0, <1>1, JournalKept
    <2>8. RowOf(t)' /\ PlanOf(t)'
      BY <1>0, <1>1, <2>1 DEF RowOf, Holds, RowFor, PlanOf, Working
    <2>9. ProgressOf(t)'
      <3>1. \A g \in job[t].tracked : g \in Range(Tail(todo[t])) \/ files'[g] = Back(g)
        <4> SUFFICES ASSUME NEW g \in job[t].tracked, g \notin Range(Tail(todo[t]))
                     PROVE  files'[g] = Back(g)
          OBVIOUS
        <4>1. CASE g = f
          BY <2>2, <2>3, <4>1
        <4>2. CASE g # f
          <5>1. g \in Files /\ g \notin Range(todo[t])
            BY <1>0, <1>4, <4>2 DEF ThreadInv
          <5>2. QED
            BY <1>3, <2>3, <4>2, <5>1
        <4>3. QED
          BY <4>1, <4>2
      <3>2. QED
        BY <1>0, <1>1, <1>3, <1>4, <2>1, <2>4, <3>1 DEF ProgressOf
    <2>10. \A g \in Files \ job[t].tracked : files'[g] = files[g]
      BY <1>3, <1>4, <2>3
    <2>11. ThreadInv' /\ GateInv' /\ OperationInv'
      BY <1>1, <2>1, <2>4, <2>8, <2>9, Acting
    <2>12. ArmedInv'
      BY <2>4 DEF ArmedInv, Holding
    <2>13. SnapshotInv'
      BY <1>0, <1>1, <1>2, SnapshotsKept DEF RowFor
    <2>14. ArchiveInv'
      BY <1>0, <1>1, <2>1 DEF ArchiveInv
    <2>15. Same
      <3>1. \A g \in Files \ db.row.tracked : files'[g] = files[g]
        BY <1>2, <2>10 DEF RowFor
      <3>2. QED
        BY <1>1, <3>1, DurableKept
    <2>16. QED
      BY <2>6, <2>7, <2>11, <2>12, <2>13, <2>14, <2>15 DEF RecoveryInv
  <1>7. QED
    BY <1>5, <1>6

(* The row goes when everything is as it was before the operation, but for *)
(* the lapses.                                                             *)
LEMMA SettleStep ==
  ASSUME RecoveryInv, LookupInv, NEW t \in Threads, Settle(t)
  PROVE  RecoveryInv' /\ (Same \/ Lapse)
  <1>0. /\ DiskInv /\ ThreadInv /\ OperationInv /\ SnapshotInv /\ ArchiveInv /\ JournalInv
        /\ RowOf(t) /\ ProgressOf(t) /\ \A u \in Threads : RowOf(u)
    BY DEF RecoveryInv, OperationInv
  <1>1. /\ pc[t] = "settle" \/ (pc[t] = "files" /\ todo[t] = <<>>)
        /\ db' = RowCleared /\ pc' = [pc EXCEPT ![t] = "sweep"] /\ job' = job /\ todo' = todo
        /\ restoring' = restoring /\ degraded' = degraded /\ files' = files
        /\ archives' = archives /\ snapshots' = snapshots /\ checkpoint' = checkpoint
        /\ memoryKey' = memoryKey /\ fresh' = fresh /\ previous' = Absent
    BY DEF Settle, Goto, memoryVars, boundVars
  <1>2. pc[t] \in Holding /\ RowFor(t) /\ \A u \in Others(t) : pc[u] \notin Holding
    BY <1>0, <1>1 DEF RowOf, Holds, Holding
  <1>3. db' \in Databases /\ db'.row = NoRow /\ db'.data = db.data /\ db'.backups = db.backups
    BY <1>0, <1>1, ClearedRow
  <1>4. /\ pc'[t] = "sweep" /\ DOMAIN todo' = Threads /\ "sweep" \in Labels /\ "sweep" \in Recovering
        /\ \A u \in Others(t) : pc'[u] = pc[u]
    BY <1>0, <1>1 DEF ThreadInv, Labels, Recovering, Others
  <1>5. ~Armed' /\ JournalInv'
    BY <1>1, <1>3 DEF Armed, JournalInv
  <1>6. DiskInv'
    BY <1>0, <1>1, <1>3 DEF DiskInv
  <1>7. RowOf(t)' /\ PlanOf(t)' /\ ProgressOf(t)'
    BY <1>3, <1>4 DEF RowOf, Holds, Holding, PlanOf, Working, ProgressOf
  <1>8. ThreadInv' /\ GateInv' /\ OperationInv'
    BY <1>1, <1>2, <1>3, <1>4, <1>7, Acting
  <1>9. ArmedInv' /\ SnapshotInv'
    BY <1>5 DEF ArmedInv, SnapshotInv
  <1>10. ArchiveInv'
    BY <1>0, <1>1, <1>3, <1>4 DEF ArchiveInv, Others
  <1>11. DurableCatalogue' = DurableCatalogue
    BY <1>1, <1>3 DEF DurableCatalogue, RecordedArchives
  <1>12. DurableData' = db.data /\ \A f \in Files : DurableFiles'[f] = files[f]
    BY <1>1, <1>3, <1>5 DEF DurableData, DurableFiles
  <1> SUFFICES Same \/ Lapse
    BY <1>5, <1>6, <1>8, <1>9, <1>10 DEF RecoveryInv
  <1>13. CASE ~Armed
    <2>1. DurableData = db.data /\ \A f \in Files : DurableFiles[f] = files[f]
      BY <1>13 DEF DurableData, DurableFiles
    <2>2. DurableFiles' = DurableFiles
      BY <1>12, <2>1 DEF DurableFiles
    <2>3. QED
      BY <1>11, <1>12, <2>1, <2>2 DEF Same
  <1>14. CASE Armed
    <2>1. DurableData' = DurableData
      <3>1. db.row.kind = "backup_restore" => db.data = previous.data
        <4>1. CASE pc[t] = "settle"
          BY <1>0, <1>14, <4>1 DEF RowOf, JournalInv, BackupKinds
        <4>2. CASE pc[t] = "files"
          BY <1>0, <1>2, <4>2 DEF ProgressOf, RowFor
        <4>3. QED
          BY <1>1, <4>1, <4>2
      <3>2. QED
        BY <1>12, <3>1 DEF DurableData
    <2>2. CASE Unarmed
      BY <1>14, <2>1, <2>2 DEF Lapse
    <2>3. CASE ~Unarmed
      <3>1. \A f \in db.row.tracked :
              files[f] = IF f \in db.row.existing THEN previous.files[f] ELSE Absent
        <4>1. CASE pc[t] = "settle"
          <5>1. db.row.kind \in BackupKinds
            BY <1>0, <1>14, <2>3, <4>1 DEF RowOf, JournalInv, Unarmed
          <5>2. QED
            BY <1>0, <1>2, <5>1 DEF DiskInv, RowFor
        <4>2. CASE pc[t] = "files" /\ todo[t] = <<>>
          BY <1>0, <1>2, <4>2, RangeEmpty DEF ProgressOf, RowFor
        <4>3. QED
          BY <1>1, <4>1, <4>2
      <3>2. ASSUME NEW f \in Files
            PROVE  DurableFiles'[f] = IF f = "pending" /\ Missed THEN Absent ELSE DurableFiles[f]
        <4>1. DurableFiles[f] = IF f \in db.row.tracked THEN previous.files[f] ELSE files[f]
          BY <1>14 DEF DurableFiles
        <4>2. f \in db.row.tracked \ db.row.existing =>
                f = "pending" \/ previous.files[f] = Absent
          BY <1>14 DEF LookupInv
        <4>3. QED
          BY <1>12, <3>1, <4>1, <4>2 DEF Missed
      <3>3. DurableFiles' = [f \in Files |-> DurableFiles'[f]]
            /\ DurableFiles = [f \in Files |-> DurableFiles[f]]
        BY DEF DurableFiles
      <3>4. CASE ~Missed
        <4>1. DurableFiles' = DurableFiles
          BY <3>2, <3>3, <3>4
        <4>2. QED
          BY <1>11, <2>1, <4>1 DEF Same
      <3>5. CASE Missed
        <4>1. DurableFiles' = [DurableFiles EXCEPT !.pending = Absent]
          BY <3>2, <3>3, <3>5
        <4>2. QED
          BY <1>14, <2>1, <3>5, <4>1 DEF Lapse
      <3>6. QED
        BY <3>4, <3>5
    <2>4. QED
      BY <2>2, <2>3
  <1>15. QED
    BY <1>13, <1>14

-----------------------------------------------------------------------------
(* Failures. *)

LEMMA FailStep ==
  ASSUME RecoveryInv, NEW t \in Threads, Fail(t) PROVE RecoveryInv' /\ Same
  <1>0. /\ DiskInv /\ ThreadInv /\ OperationInv /\ SnapshotInv /\ ArchiveInv /\ JournalInv
        /\ RowOf(t)
        /\ degraded \in BOOLEAN /\ snapshots \in [Files -> Values]
        /\ checkpoint \in Databases \cup {Absent}
    BY DEF RecoveryInv, OperationInv, ThreadInv, DiskInv
  <1>1. /\ files' = files /\ archives' = archives /\ memoryKey' = memoryKey
        /\ fresh' = fresh /\ previous' = previous
    BY DEF Fail
  <1>2. LeaveSome => snapshots' \in [Files -> Values] /\ checkpoint' \in Databases \cup {Absent}
                     /\ Shrunk
    BY <1>0 DEF LeaveSome, Values, Shrunk
  <1>3. CASE /\ pc[t] = "prepare" /\ End(t)
             /\ UNCHANGED <<db, snapshots, checkpoint, degraded>>
    BY <1>0, <1>1, <1>3, Leaving DEF Waits, Shrunk
  <1>4. CASE /\ pc[t] = "snapshot" /\ pc' = [pc EXCEPT ![t] = "unwind"]
             /\ UNCHANGED <<db, snapshots, checkpoint, degraded, job, todo, restoring>>
    <2>1. pc'[t] = "unwind" /\ DOMAIN todo' = Threads
      BY <1>0, <1>4 DEF ThreadInv
    <2>2. ProgressOf(t)'
      BY <2>1 DEF ProgressOf
    <2>3. QED
      BY <1>0, <1>1, <1>4, <2>1, <2>2, UnarmedStep
  <1>5. CASE /\ pc[t] \in {"unwind", "cleanup"} /\ LeaveSome /\ End(t) /\ UNCHANGED degraded
             /\ db' = db \/ (pc[t] = "unwind" /\ db' = RowCleared)
    <2>1. CASE db' = db
      BY <1>0, <1>1, <1>2, <1>5, <2>1, Leaving DEF Waits
    <2>2. CASE pc[t] = "unwind" /\ db' = RowCleared
      BY <1>1, <1>2, <1>5, <2>2, Unwinding
    <2>3. QED
      BY <1>5, <2>1, <2>2
  <1>6. CASE /\ pc[t] = "apply" /\ pc' = [pc EXCEPT ![t] = "reconcile"]
             /\ UNCHANGED <<db, snapshots, checkpoint, degraded, job, todo, restoring>>
    <2>1. /\ pc'[t] = "reconcile" /\ DOMAIN todo' = Threads /\ pc[t] \in Holding
          /\ "reconcile" \in Recovering /\ "reconcile" \in Labels
          /\ \A u \in Others(t) : pc'[u] = pc[u]
      BY <1>0, <1>6 DEF ThreadInv, Holding, Recovering, Labels, Others
    <2>2. RowOf(t)'
      BY <1>0, <1>1, <1>6, <2>1 DEF RowOf, Holds, RowFor, Holding
    <2>3. PlanOf(t)' /\ ProgressOf(t)'
      BY <2>1 DEF PlanOf, Working, ProgressOf
    <2>4. ThreadInv' /\ GateInv' /\ OperationInv'
      BY <1>1, <1>6, <2>1, <2>2, <2>3, Acting
    <2>5. DiskInv'
      BY <1>0, <1>1, <1>6 DEF DiskInv
    <2>6. JournalInv' /\ (Armed' <=> Armed) /\ Shrunk
      BY <1>0, <1>1, <1>6, JournalKept DEF Shrunk
    <2>7. ArmedInv' /\ ArchiveInv'
      BY <2>1 DEF ArmedInv, ArchiveInv, Holding
    <2>8. SnapshotInv'
      BY <1>0, <1>1, <1>6, <2>6, SnapshotsKept DEF JournalInv
    <2>9. Same
      BY <1>1, <1>6, DurableKept
    <2>10. QED
      BY <2>4, <2>5, <2>6, <2>7, <2>8, <2>9 DEF RecoveryInv
  <1>7. CASE /\ pc[t] \in Recovering
             /\ UNCHANGED db
             /\ IF pc[t] = "sweep" THEN LeaveSome ELSE UNCHANGED <<snapshots, checkpoint>>
             /\ Unrecoverable(t)
    <2>1. degraded' = TRUE /\ End(t) /\ pc[t] # "idle"
      BY <1>7 DEF Unrecoverable, Recovering
    <2>2. /\ snapshots' \in [Files -> Values] /\ checkpoint' \in Databases \cup {Absent}
          /\ Shrunk
      BY <1>0, <1>2, <1>7 DEF Shrunk
    <2>3. QED
      BY <1>1, <1>7, <2>1, <2>2, Leaving
  <1>8. QED
    BY <1>3, <1>4, <1>5, <1>6, <1>7 DEF Fail, Goto

(* The early returns: nothing has been applied yet. *)
LEMMA AbandonStep ==
  ASSUME RecoveryInv, NEW t \in Threads, Abandon(t) PROVE RecoveryInv' /\ Same
  <1>1. /\ pc[t] = "apply" /\ job[t].kind \in {"certificate_csr", "certificate_install"}
        /\ todo[t] = job[t].effects /\ End(t) /\ db' = db /\ files' = files
        /\ archives' = archives /\ snapshots' = snapshots /\ checkpoint' = checkpoint
        /\ memoryKey' = memoryKey /\ degraded' = degraded /\ fresh' = fresh
        /\ previous' = previous /\ Shrunk
    BY DEF Abandon, diskVars, Shrunk
  <1>2. \A f \in job[t].tracked : files[f] = previous.files[f]
    BY <1>1 DEF RecoveryInv, OperationInv, ProgressOf
  <1>3. /\ degraded \in BOOLEAN /\ snapshots \in [Files -> Values]
        /\ checkpoint \in Databases \cup {Absent}
    BY DEF RecoveryInv, ThreadInv, DiskInv
  <1>4. QED
    BY <1>1, <1>2, <1>3, Leaving DEF BackupKinds

(* After a crash the start-up recovers from what is on the disk. *)
LEMMA CrashStep ==
  ASSUME RecoveryInv, Crash PROVE RecoveryInv' /\ Same
  <1>0. DiskInv /\ ThreadInv /\ SnapshotInv /\ JournalInv
    BY DEF RecoveryInv
  <1>1. /\ pc' = [t \in Threads |-> IF t = "boot" THEN "reconcile" ELSE "idle"]
        /\ job' = [t \in Threads |-> NoJob] /\ todo' = [t \in Threads |-> <<>>]
        /\ memoryKey' = files["totpKey"] /\ restoring' = FALSE /\ degraded' = FALSE
        /\ db' = db /\ files' = files /\ archives' = archives /\ snapshots' = snapshots
        /\ checkpoint' = checkpoint /\ fresh' = fresh /\ previous' = previous /\ Shrunk
    BY DEF Crash, diskVars, Shrunk
  <1>2. /\ pc'["boot"] = "reconcile" /\ pc'["worker"] = "idle" /\ pc'["server"] = "idle"
        /\ \A t \in Threads : job'[t] = NoJob
    BY <1>1 DEF Threads
  <1>3. JournalInv' /\ (Armed' <=> Armed)
    BY <1>0, <1>1, JournalKept
  <1>4. DiskInv'
    BY <1>0, <1>1 DEF DiskInv
  <1>5. ThreadInv'
    <2>1. pc' \in [Threads -> Labels] /\ DOMAIN job' = Threads /\ DOMAIN todo' = Threads
      BY <1>1 DEF Labels, Recovering
    <2>2. QED
      BY <1>1, <1>2, <2>1 DEF ThreadInv, NoJob, Recovering
  <1>6. GateInv'
    BY <1>2 DEF GateInv, Restores, Threads, NoJob
  <1>7. OperationInv'
    <2> SUFFICES ASSUME NEW t \in Threads PROVE RowOf(t)' /\ PlanOf(t)' /\ ProgressOf(t)'
      BY DEF OperationInv
    <2>1. (t = "boot" /\ pc'[t] = "reconcile") \/ (t # "boot" /\ pc'[t] = "idle")
      BY <1>2 DEF Threads
    <2>2. RowOf(t)'
      BY <2>1 DEF RowOf, Holds, Holding
    <2>3. PlanOf(t)' /\ ProgressOf(t)'
      BY <2>1 DEF PlanOf, Working, ProgressOf
    <2>4. QED
      BY <2>2, <2>3
  <1>8. ArmedInv' /\ ArchiveInv'
    BY <1>2 DEF ArmedInv, ArchiveInv, Holding, Threads
  <1>9. SnapshotInv'
    BY <1>0, <1>1, SnapshotsKept DEF JournalInv
  <1>10. Same
    BY <1>1, DurableKept
  <1>11. QED
    BY <1>3, <1>4, <1>5, <1>6, <1>7, <1>8, <1>9, <1>10 DEF RecoveryInv

-----------------------------------------------------------------------------
(* The commit. *)

(* The restore of a recorded archive: what it changes is what it tracks. *)
LEMMA RestoreIsPlanned ==
  ASSUME DiskInv, NEW c \in A!Contents, NEW j, j = RestoreOperation(c)
  PROVE  /\ j.kind = "backup_restore" /\ j.name = Absent /\ j.tracked \subseteq Files
         /\ j.existing = Present(j.tracked) /\ RestorePlan(j, c)
  <1> DEFINE e1 == CertificateStored(c.certificate)
  <1> DEFINE e2 == KeyStored(c.totpKey)
  <1> DEFINE e3 == IF c.clientCa = Absent THEN AuthoritiesRemoved ELSE AuthoritiesStored(c.clientCa)
  <1> DEFINE s1 == If(CertificateChanges(c), e1)
  <1> DEFINE s2 == If(KeyChanges(c), e2)
  <1> DEFINE s3 == If(AuthoritiesChange(c), e3)
  <1> DEFINE s12 == s1 \o s2
  <1> DEFINE s == s12 \o s3
  <1> DEFINE e0 == DatabaseReplaced(c.data)
  <1>1. /\ c.data \in Generations /\ c.certificate \in Values /\ c.totpKey \in Values
        /\ c.clientCa \in Values
    BY DEF A!Contents, Values
  <1>2. /\ e1 = Effect("certificate", c["certificate"]) /\ e2 = Effect("totpKey", c["totpKey"])
        /\ e3 = Effect("clientCa", c["clientCa"])
    BY DEF CertificateStored, KeyStored, AuthoritiesRemoved, AuthoritiesStored
  <1>3. /\ e0 \in Effects /\ e1 \in Effects /\ e2 \in Effects /\ e3 \in Effects
    BY <1>1, <1>2, FileNames DEF Effects, Effect, DatabaseReplaced
  <1>4. /\ e1.target = "certificate" /\ e2.target = "totpKey" /\ e3.target = "clientCa"
    BY <1>2 DEF Effect
  <1> HIDE DEF e0, e1, e2, e3
  <1>5. /\ CertificateChanges(c) => s1 = <<e1>>
        /\ ~CertificateChanges(c) => s1 = <<>>
    BY DEF If
  <1>6. /\ KeyChanges(c) => s2 = <<e2>>
        /\ ~KeyChanges(c) => s2 = <<>>
    BY DEF If
  <1>7. /\ AuthoritiesChange(c) => s3 = <<e3>>
        /\ ~AuthoritiesChange(c) => s3 = <<>>
    BY DEF If
  <1>8. RestoreFileEffects(c) = s /\ RestoreEffects(c) = <<e0>> \o s
    BY DEF RestoreFileEffects, RestoreEffects, e0, e1, e2, e3
  <1> HIDE DEF s1, s2, s3
  <1>9. s1 \in {<<e1>>, <<>>} /\ s2 \in {<<e2>>, <<>>} /\ s3 \in {<<e3>>, <<>>}
    BY <1>5, <1>6, <1>7, Zenon
  <1>10. s1 \in Seq(Effects) /\ Range(s1) \subseteq {e1} /\ (s1 = <<e1>> => e1 \in Range(s1))
    <2>1. <<e1>> \in Seq(Effects) /\ <<>> \in Seq(Effects)
      BY <1>3
    <2>2. s1 \in Seq(Effects)
      BY <1>9, <2>1, Zenon
    <2>3. Range(s1) \subseteq {e1} /\ (s1 = <<e1>> => e1 \in Range(s1))
      BY <1>9, RangeOne, RangeEmpty
    <2>4. QED
      BY <2>2, <2>3
  <1>11. s2 \in Seq(Effects) /\ Range(s2) \subseteq {e2} /\ (s2 = <<e2>> => e2 \in Range(s2))
    <2>1. <<e2>> \in Seq(Effects) /\ <<>> \in Seq(Effects)
      BY <1>3
    <2>2. s2 \in Seq(Effects)
      BY <1>9, <2>1, Zenon
    <2>3. Range(s2) \subseteq {e2} /\ (s2 = <<e2>> => e2 \in Range(s2))
      BY <1>9, RangeOne, RangeEmpty
    <2>4. QED
      BY <2>2, <2>3
  <1>12. s3 \in Seq(Effects) /\ Range(s3) \subseteq {e3} /\ (s3 = <<e3>> => e3 \in Range(s3))
    <2>1. <<e3>> \in Seq(Effects) /\ <<>> \in Seq(Effects)
      BY <1>3
    <2>2. s3 \in Seq(Effects)
      BY <1>9, <2>1, Zenon
    <2>3. Range(s3) \subseteq {e3} /\ (s3 = <<e3>> => e3 \in Range(s3))
      BY <1>9, RangeOne, RangeEmpty
    <2>4. QED
      BY <2>2, <2>3
  <1>13. s12 \in Seq(Effects) /\ Range(s12) = Range(s1) \cup Range(s2)
    BY <1>10, <1>11, RangeConcatenation
  <1> HIDE DEF s12
  <1>14. s \in Seq(Effects) /\ Range(s) = Range(s12) \cup Range(s3)
    BY <1>12, <1>13, RangeConcatenation
  <1> HIDE DEF s
  <1>15. <<e0>> \o s \in Seq(Effects) /\ Range(<<e0>> \o s) = {e0} \cup Range(s)
    <2> DEFINE d == <<e0>>
    <2>1. d \in Seq(Effects) /\ Range(d) = {e0}
      BY <1>3, RangeOne
    <2> HIDE DEF d
    <2>2. d \o s \in Seq(Effects) /\ Range(d \o s) = Range(d) \cup Range(s)
      BY <1>14, <2>1, RangeConcatenation
    <2>3. QED
      BY <2>1, <2>2 DEF d
  <1>16. /\ j.kind = "backup_restore" /\ j.name = Absent /\ j.effects = <<e0>> \o s
         /\ j.tracked = {e.target : e \in Range(s)} /\ j.existing = Present(j.tracked)
    BY <1>8 DEF RestoreOperation, Operation
  <1>17. /\ CertificateChanges(c) <=> "certificate" \in j.tracked
         /\ KeyChanges(c) <=> "totpKey" \in j.tracked
         /\ AuthoritiesChange(c) <=> "clientCa" \in j.tracked
    <2>1. /\ CertificateChanges(c) => e1 \in Range(s)
          /\ KeyChanges(c) => e2 \in Range(s)
          /\ AuthoritiesChange(c) => e3 \in Range(s)
      BY <1>5, <1>6, <1>7, <1>10, <1>11, <1>12, <1>13, <1>14
    <2>2. /\ ~CertificateChanges(c) => Range(s1) = {}
          /\ ~KeyChanges(c) => Range(s2) = {}
          /\ ~AuthoritiesChange(c) => Range(s3) = {}
      BY <1>5, <1>6, <1>7, RangeEmpty
    <2>3. \A e \in Range(s) : e \in Range(s1) \/ e \in Range(s2) \/ e \in Range(s3)
      BY <1>13, <1>14
    <2>4. QED
      BY <1>4, <1>10, <1>11, <1>12, <1>16, <2>1, <2>2, <2>3
  <1>18. \A e \in Range(s) : e \in {e1, e2, e3}
    BY <1>10, <1>11, <1>12, <1>13, <1>14
  <1>19. j.tracked \subseteq {"certificate", "totpKey", "clientCa"}
    BY <1>4, <1>16, <1>18
  <1>20. Range(s) = {Effect(f, c[f]) : f \in j.tracked}
    <2>1. \A e \in Range(s) : e = Effect(e.target, c[e.target])
      BY <1>2, <1>4, <1>18
    <2>2. QED
      BY <1>16, <2>1
  <1>21. \A f \in j.tracked : Brings(c, f)
    BY <1>17, <1>19 DEF Brings, CertificateChanges, KeyChanges, AuthoritiesChange
  <1>22. \A f \in Files \ j.tracked : Brings(c, f) => files[f] = c[f]
    BY <1>17 DEF Brings, CertificateChanges, KeyChanges, AuthoritiesChange, DiskInv
  <1>23. RestorePlan(j, c)
    BY <1>15, <1>16, <1>20, <1>21, <1>22 DEF RestorePlan, e0
  <1>24. QED
    BY <1>16, <1>19, <1>23, FileNames

(* A backup is recorded: durable from here on. *)
LEMMA Recording ==
  ASSUME RecoveryInv, NEW t \in Threads, pc[t] = "apply", todo[t] = <<>>,
         job[t].kind \in BackupKinds, db' = BackupRecorded(job[t].name),
         files' = files, archives' = archives, snapshots' = snapshots,
         checkpoint' = checkpoint, memoryKey' = memoryKey, fresh' = fresh,
         previous' = Absent
  PROVE  /\ DiskInv' /\ ~Armed' /\ JournalInv' /\ db'.row = NoRow
         /\ db'.backups = db.backups \cup {job[t].name}
         /\ Durable!Record
  <1> DEFINE n == job[t].name
  <1>0. /\ DiskInv /\ ThreadInv /\ RowOf(t) /\ PlanOf(t) /\ ProgressOf(t)
    BY DEF RecoveryInv, OperationInv
  <1>1. pc[t] \in Holding /\ t # "boot" /\ Armed
    BY <1>0, IsArmed DEF Holding, ThreadInv, Recovering
  <1>2. RowFor(t)
    BY <1>0, <1>1 DEF RowOf, Holds
  <1>3. Plan(job[t]) /\ n \notin db.backups
    BY <1>0 DEF PlanOf, Working
  <1>4. n \in Names /\ job[t].tracked = {}
    BY <1>3 DEF Plan, BackupKinds
  <1>5. PICK c \in A!Contents : job[t].effects = <<ArchiveStored(c)>>
    BY <1>3 DEF Plan, BackupKinds
  <1>6. archives[n] = c /\ c # Absent
    <2>1. ArchiveStored(c) \in Range(job[t].effects)
      BY <1>5, RangeOne
    <2>2. Performed(job[t], ArchiveStored(c))
      BY <1>0, <2>1, RangeEmpty DEF ProgressOf
    <2>3. QED
      BY <2>2, AbsentIsNone DEF Performed, ArchiveStored, Effect
  <1>7. /\ db' \in Databases /\ db'.row = NoRow /\ db'.data = db.data
        /\ db'.backups = db.backups \cup {n}
    BY <1>0, <1>4 DEF BackupRecorded, RowCleared, DiskInv, Databases
  <1>8. DiskInv'
    BY <1>0, <1>6, <1>7 DEF DiskInv
  <1>9. ~Armed' /\ JournalInv'
    BY <1>7 DEF Armed, JournalInv
  <1>10. db.row.kind # "backup_restore" /\ db.row.tracked = {}
    BY <1>2, <1>4 DEF RowFor, BackupKinds
  <1>11. DurableData' = DurableData
    BY <1>7, <1>9, <1>10 DEF DurableData
  <1>12. DurableFiles' = DurableFiles
    BY <1>9, <1>10 DEF DurableFiles
  <1>13. DurableCatalogue[n] = Absent /\ DurableCatalogue' = [DurableCatalogue EXCEPT ![n] = c]
    <2>1. DurableCatalogue[n] = Absent
      BY <1>3, <1>4 DEF DurableCatalogue, RecordedArchives
    <2>2. DurableCatalogue' = [m \in Names |-> IF m \in db'.backups THEN archives[m] ELSE Absent]
      BY DEF DurableCatalogue, RecordedArchives
    <2>3. [DurableCatalogue EXCEPT ![n] = c] =
            [m \in Names |-> IF m = n THEN c ELSE IF m \in db.backups THEN archives[m] ELSE Absent]
      BY DEF DurableCatalogue, RecordedArchives
    <2>4. QED
      BY <1>6, <1>7, <2>1, <2>2, <2>3
  <1>14. c \in Durable!Contents
    BY DEF A!Contents, Durable!Contents
  <1>15. Durable!Record
    BY <1>4, <1>11, <1>12, <1>13, <1>14 DEF Durable!Record
  <1>16. QED
    BY <1>7, <1>8, <1>9, <1>15

LEMMA RecordStep ==
  ASSUME RecoveryInv, NEW t \in Threads, Commit(t), job[t].kind \in BackupKinds \ {"restore_checkpoint"}
  PROVE  RecoveryInv' /\ Durable!Record
  <1>0. /\ ThreadInv /\ OperationInv /\ ArchiveInv
    BY DEF RecoveryInv
  <1>1. /\ pc[t] = "apply" /\ todo[t] = <<>> /\ db' = BackupRecorded(job[t].name) /\ End(t)
        /\ files' = files /\ archives' = archives /\ snapshots' = snapshots
        /\ checkpoint' = checkpoint /\ memoryKey' = memoryKey /\ degraded' = degraded
        /\ fresh' = fresh /\ previous' = Absent
    BY DEF Commit, boundVars
  <1>2. /\ pc' = [pc EXCEPT ![t] = "idle"] /\ job' = [job EXCEPT ![t] = NoJob]
    BY <1>1 DEF End, Goto
  <1>3. /\ pc'[t] = "idle" /\ job'[t] = NoJob /\ pc[t] \in Holding
        /\ \A u \in Others(t) : pc'[u] = pc[u] /\ job'[u] = job[u]
    BY <1>0, <1>1, <1>2 DEF ThreadInv, Others, Holding
  <1>4. /\ DiskInv' /\ ~Armed' /\ JournalInv' /\ db'.row = NoRow
        /\ db'.backups = db.backups \cup {job[t].name} /\ Durable!Record
    BY <1>1, Recording
  <1>5. ThreadInv' /\ GateInv'
    BY <1>0, <1>1, Ending DEF ThreadInv
  <1>6. \A u \in Others(t) : RowOf(u)' /\ PlanOf(u)' /\ ProgressOf(u)'
    <2>1. pc[t] \in Working /\ job[t].kind \in BackupKinds /\ job'[t].name = Absent
      BY <1>1, <1>3 DEF Working, NoJob
    <2>2. db.backups \subseteq db'.backups
      BY <1>4
    <2>3. QED
      BY <1>1, <1>3, <1>4, <2>1, <2>2, OthersKept
  <1>7. OperationInv'
    <2>1. PlanOf(t)'
      BY <1>3 DEF PlanOf, Working
    <2>2. QED
      BY <1>3, <1>6, <2>1, WaitingOf DEF OperationInv, Others, Waits
  <1>8. ArmedInv' /\ SnapshotInv'
    BY <1>4 DEF ArmedInv, SnapshotInv
  <1>9. ArchiveInv'
    BY <1>0, <1>1, <1>3, <1>4 DEF ArchiveInv, Others
  <1>10. QED
    BY <1>4, <1>5, <1>7, <1>8, <1>9 DEF RecoveryInv

(* The automatic backup of a restore, which then has the appliance to       *)
(* itself.                                                                  *)
LEMMA CheckpointRecordStep ==
  ASSUME RecoveryInv, NEW t \in Threads, Commit(t), job[t].kind = "restore_checkpoint"
  PROVE  RecoveryInv' /\ Durable!Record
  <1>0. /\ DiskInv /\ ThreadInv /\ GateInv /\ OperationInv /\ ArchiveInv /\ PlanOf(t)
    BY DEF RecoveryInv, OperationInv
  <1>1. /\ pc[t] = "apply" /\ todo[t] = <<>> /\ db' = BackupRecorded(job[t].name)
        /\ pc' = [pc EXCEPT ![t] = "prepare"]
        /\ job' = [job EXCEPT ![t] = RestoreOperation(job[t].next)]
        /\ todo' = todo /\ restoring' = restoring
        /\ files' = files /\ archives' = archives /\ snapshots' = snapshots
        /\ checkpoint' = checkpoint /\ memoryKey' = memoryKey /\ degraded' = degraded
        /\ fresh' = fresh /\ previous' = Absent
    BY DEF Commit, Goto, boundVars, BackupKinds
  <1>2. t = "worker"
    BY <1>0, <1>1 DEF GateInv, Restores, ThreadInv, Threads, Recovering
  <1>3. /\ restoring /\ pc["server"] = "idle" /\ pc["boot"] = "idle"
        /\ job["server"] = NoJob /\ job["boot"] = NoJob
    BY <1>0, <1>1, <1>2 DEF GateInv, Restores, ThreadInv, Threads
  <1>4. /\ DiskInv' /\ ~Armed' /\ JournalInv' /\ db'.row = NoRow
        /\ db'.backups = db.backups \cup {job[t].name} /\ Durable!Record
    BY <1>1, Recording DEF BackupKinds
  <1>5. PICK n \in db.backups : job[t].next = archives[n]
    BY <1>0, <1>1 DEF PlanOf, Working
  <1>6. archives[n] \in A!Contents
    BY <1>0, <1>5 DEF DiskInv, Databases
  <1> DEFINE j == RestoreOperation(archives[n])
  <1>7. /\ j.kind = "backup_restore" /\ j.name = Absent /\ j.tracked \subseteq Files
        /\ j.existing = Present(j.tracked) /\ RestorePlan(j, archives[n])
    BY <1>0, <1>6, RestoreIsPlanned
  <1>8. /\ pc'["worker"] = "prepare" /\ job'["worker"] = j
        /\ pc'["server"] = "idle" /\ pc'["boot"] = "idle"
        /\ job'["server"] = NoJob /\ job'["boot"] = NoJob
    BY <1>0, <1>1, <1>2, <1>3, <1>5 DEF ThreadInv, Threads
  <1> HIDE DEF j
  <1>9. ThreadInv'
    <2>1. ASSUME NEW u \in Threads
          PROVE  /\ job'[u].tracked \subseteq Files /\ job'[u].existing \subseteq job'[u].tracked
                 /\ pc'[u] = "idle" => job'[u] = NoJob
      BY <1>7, <1>8 DEF Threads, Others, NoJob, Present
    <2>2. pc' \in [Threads -> Labels] /\ DOMAIN job' = Threads /\ DOMAIN todo' = Threads
      BY <1>0, <1>1 DEF ThreadInv, Labels
    <2>3. QED
      BY <1>0, <1>1, <1>8, <2>1, <2>2 DEF ThreadInv
  <1>10. GateInv'
    BY <1>1, <1>3, <1>8 DEF GateInv, Restores, NoJob
  <1>11. PlanOf("worker")'
    <2>1. RestorePlan(job["worker"], archives[n])'
      BY <1>1, <1>7, <1>8 DEF RestorePlan
    <2>2. n \in db'.backups
      BY <1>4, <1>5
    <2>3. Plan(job["worker"])'
      BY <1>7, <1>8, <2>1, <2>2 DEF Plan
    <2>4. QED
      BY <1>7, <1>8, <2>3 DEF PlanOf, BackupKinds
  <1>12. PlanOf("server")' /\ PlanOf("boot")'
    BY <1>8 DEF PlanOf, Working
  <1>13. OperationInv'
    <2> SUFFICES ASSUME NEW u \in Threads PROVE RowOf(u)' /\ PlanOf(u)' /\ ProgressOf(u)'
      BY DEF OperationInv
    <2>1. pc'[u] \in {"idle", "prepare"} /\ PlanOf(u)'
      BY <1>8, <1>11, <1>12 DEF Threads
    <2>2. QED
      BY <2>1, WaitingOf DEF Waits
  <1>14. ArmedInv' /\ SnapshotInv'
    BY <1>4 DEF ArmedInv, SnapshotInv
  <1>15. ArchiveInv'
    BY <1>0, <1>1, <1>2, <1>3, <1>4 DEF ArchiveInv, Threads
  <1>16. QED
    BY <1>4, <1>9, <1>10, <1>13, <1>14, <1>15 DEF RecoveryInv

(* Any other operation is complete: what its snapshots held is history. *)
LEMMA Completed ==
  ASSUME RecoveryInv, NEW t \in Threads, pc[t] = "apply", todo[t] = <<>>,
         job[t].kind \notin BackupKinds, db' = RowCleared, files' = files, archives' = archives,
         previous' = Absent
  PROVE  /\ DurableFiles \in [Files -> Values] /\ DurableFiles' = files
         /\ \A f \in Files \ job[t].tracked : DurableFiles[f] = files[f]
         /\ DurableData' = db.data
         /\ job[t].kind # "backup_restore" => DurableData = db.data
         /\ DurableCatalogue' = DurableCatalogue
         /\ \A e \in Range(job[t].effects) : Performed(job[t], e)
  <1>0. /\ DiskInv /\ ThreadInv /\ RowOf(t) /\ ProgressOf(t)
    BY DEF RecoveryInv, OperationInv
  <1>1. pc[t] \in Holding /\ t # "boot"
    BY <1>0 DEF Holding, ThreadInv, Recovering
  <1>2. RowFor(t) /\ db.row.existing \subseteq db.row.tracked
    BY <1>0, <1>1 DEF RowOf, Holds, RowFor, ThreadInv
  <1>3. db'.row = NoRow /\ db'.data = db.data /\ db'.backups = db.backups
    BY <1>0, ClearedRow
  <1>4. ~Armed'
    BY DEF Armed
  <1>5. DurableFiles' = files
    <2>1. DurableFiles' = [f \in Files |-> files[f]]
      BY <1>4 DEF DurableFiles
    <2>2. QED
      BY <1>0, <2>1 DEF DiskInv
  <1>6. \A f \in Files \ job[t].tracked : DurableFiles[f] = files[f]
    BY <1>2 DEF DurableFiles, RowFor
  <1>7. DurableFiles \in [Files -> Values]
    <2>1. ASSUME NEW f \in Files PROVE DurableFiles[f] \in Values
      <3>1. files[f] \in Values /\ (Armed => previous.files[f] \in Values)
        BY <1>0 DEF DiskInv, Values, Saved, Armed
      <3>2. QED
        BY <3>1 DEF DurableFiles
    <2>2. QED
      BY <2>1 DEF DurableFiles
  <1>8. DurableData' = db.data /\ (job[t].kind # "backup_restore" => DurableData = db.data)
    BY <1>2, <1>3, <1>4 DEF DurableData, RowFor
  <1>9. DurableCatalogue' = DurableCatalogue
    BY <1>3 DEF DurableCatalogue, RecordedArchives
  <1>10. \A e \in Range(job[t].effects) : Performed(job[t], e)
    BY <1>0, RangeEmpty DEF ProgressOf
  <1>11. QED
    BY <1>5, <1>6, <1>7, <1>8, <1>9, <1>10

(* A performed effect on a file. *)
LEMMA Stored ==
  ASSUME NEW j, NEW f \in Files, NEW v, Performed(j, Effect(f, v)) PROVE files[f] = v
  BY FileNames DEF Performed, Effect

LEMMA CompleteStep ==
  ASSUME RecoveryInv, NEW t \in Threads, Commit(t), job[t].kind \notin BackupKinds
  PROVE  RecoveryInv' /\ Durable!Next
  <1> DEFINE j == job[t]
  <1>0. /\ DiskInv /\ ThreadInv /\ OperationInv /\ ArchiveInv /\ PlanOf(t)
    BY DEF RecoveryInv, OperationInv
  <1>1. /\ pc[t] = "apply" /\ todo[t] = <<>> /\ db' = RowCleared
        /\ pc' = [pc EXCEPT ![t] = "cleanup"] /\ job' = job /\ todo' = todo
        /\ restoring' = restoring /\ files' = files /\ archives' = archives
        /\ snapshots' = snapshots /\ checkpoint' = checkpoint /\ memoryKey' = memoryKey
        /\ degraded' = degraded /\ fresh' = fresh /\ previous' = Absent
    BY DEF Commit, Goto, boundVars, BackupKinds
  <1>2. /\ pc'[t] = "cleanup" /\ pc[t] \in Holding /\ t # "boot" /\ "cleanup" \in Labels
        /\ DOMAIN todo' = Threads /\ \A u \in Others(t) : pc'[u] = pc[u]
    BY <1>0, <1>1 DEF ThreadInv, Holding, Recovering, Labels, Others
  <1>3. db' \in Databases /\ db'.row = NoRow /\ db'.data = db.data /\ db'.backups = db.backups
    BY <1>0, <1>1, ClearedRow
  <1>4. ~Armed' /\ JournalInv'
    BY <1>1, <1>3 DEF Armed, JournalInv
  <1>5. DiskInv'
    BY <1>0, <1>1, <1>3 DEF DiskInv
  <1>6. RowOf(t)' /\ PlanOf(t)' /\ ProgressOf(t)'
    BY <1>2, <1>3 DEF RowOf, Holds, Holding, PlanOf, Working, ProgressOf
  <1>7. ThreadInv' /\ GateInv' /\ OperationInv'
    BY <1>1, <1>2, <1>3, <1>6, Acting
  <1>8. ArmedInv' /\ SnapshotInv'
    BY <1>4 DEF ArmedInv, SnapshotInv
  <1>9. ArchiveInv'
    BY <1>0, <1>1, <1>2, <1>3 DEF ArchiveInv, Others
  <1>10. /\ DurableFiles \in [Files -> Values] /\ DurableFiles' = files
         /\ \A f \in Files \ j.tracked : DurableFiles[f] = files[f]
         /\ DurableData' = db.data
         /\ j.kind # "backup_restore" => DurableData = db.data
         /\ DurableCatalogue' = DurableCatalogue
         /\ \A e \in Range(j.effects) : Performed(j, e)
    BY <1>1, Completed
  <1>11. Plan(j) /\ j.tracked \subseteq Files /\ files \in [Files -> Values]
    BY <1>0, <1>1 DEF PlanOf, Working, ThreadInv, DiskInv
  <1> HIDE DEF j
  <1>12. Durable!Next
    <2>1. CASE j.kind = "certificate_csr"
      <3>1. PICK g \in Generations : j.tracked = {"pending"} /\ j.effects = <<PendingStored(g)>>
        BY <1>11, <2>1 DEF Plan, BackupKinds
      <3>2. files["pending"] = g
        BY <1>10, <3>1, RangeOne, FileNames, Stored DEF PendingStored
      <3>3. files = [DurableFiles EXCEPT !["pending"] = g]
        BY <1>10, <1>11, <3>1, <3>2
      <3>4. Durable!RequestCertificate
        BY <1>10, <2>1, <3>3 DEF Durable!RequestCertificate
      <3>5. QED
        BY <3>4 DEF Durable!Next
    <2>2. CASE j.kind = "certificate_install"
      <3>1. PICK g \in Generations :
              j.tracked = {"certificate", "pending"} /\ j.effects = <<CertificateStored(g), PendingRemoved>>
        BY <1>11, <2>2 DEF Plan, BackupKinds
      <3>2. CertificateStored(g) \in Range(j.effects) /\ PendingRemoved \in Range(j.effects)
        BY <3>1, RangeTwo
      <3>3. files["certificate"] = g /\ files["pending"] = Absent
        BY <1>10, <3>2, FileNames, Stored DEF CertificateStored, PendingRemoved
      <3>4. files = [DurableFiles EXCEPT !["certificate"] = g, !["pending"] = Absent]
        BY <1>10, <1>11, <3>1, <3>3
      <3>5. Durable!InstallCertificate
        <4>1. /\ DurableFiles' = [DurableFiles EXCEPT !.certificate = g, !.pending = Absent]
              /\ DurableData' = DurableData /\ DurableCatalogue' = DurableCatalogue
          BY <1>10, <2>2, <3>4
        <4>2. QED
          BY <4>1, Zenon DEF Durable!InstallCertificate
      <3>6. QED
        BY <3>5 DEF Durable!Next
    <2>3. CASE j.kind = "mtls_authorities"
      <3>1. PICK v \in Values : j.tracked = {"clientCa"} /\ j.effects = <<Effect("clientCa", v)>>
        BY <1>11, <2>3 DEF Plan, BackupKinds
      <3>2. files["clientCa"] = v
        BY <1>10, <3>1, RangeOne, FileNames, Stored
      <3>3. files = [DurableFiles EXCEPT !["clientCa"] = v]
        BY <1>10, <1>11, <3>1, <3>2
      <3>4. Durable!ChangeAuthorities
        BY <1>10, <2>3, <3>1, <3>3 DEF Durable!ChangeAuthorities, Values
      <3>5. QED
        BY <3>4 DEF Durable!Next
    <2>4. CASE j.kind = "backup_restore"
      <3>1. PICK n \in db.backups : RestorePlan(j, archives[n])
        BY <1>11, <2>4 DEF Plan, BackupKinds
      <3> DEFINE c == archives[n]
      <3>2. n \in Names /\ c # Absent /\ c \in A!Contents
        BY <1>0, <3>1 DEF DiskInv, Databases
      <3>3. DurableCatalogue[n] = c
        BY <3>1, <3>2 DEF DurableCatalogue, RecordedArchives
      <3>4. /\ Range(j.effects) = {DatabaseReplaced(c.data)} \cup {Effect(f, c[f]) : f \in j.tracked}
            /\ \A f \in j.tracked : Brings(c, f)
            /\ \A f \in Files \ j.tracked : Brings(c, f) => files[f] = c[f]
        BY <3>1 DEF RestorePlan
      <3> HIDE DEF c
      <3>5. db.data = c.data
        <4>1. Performed(j, DatabaseReplaced(c.data))
          BY <1>10, <3>4
        <4>2. QED
          BY <4>1 DEF Performed, DatabaseReplaced, Effect
      <3>6. \A f \in j.tracked : files[f] = c[f]
        <4> SUFFICES ASSUME NEW f \in j.tracked PROVE files[f] = c[f]
          OBVIOUS
        <4>1. Performed(j, Effect(f, c[f])) /\ f \in Files
          BY <1>10, <1>11, <3>4
        <4>2. QED
          BY <4>1, Stored
      <3>7. \A f \in Files : files[f] = IF Brings(c, f) THEN c[f] ELSE DurableFiles[f]
        BY <1>10, <3>4, <3>6
      <3>8. files = Durable!RestoredFiles(c, DurableFiles)
        <4> DEFINE r == Durable!RestoredFiles(c, DurableFiles)
        <4>1. /\ r["pending"] = DurableFiles["pending"]
              /\ r["certificate"] = IF c.certificate = Absent THEN DurableFiles["certificate"] ELSE c.certificate
              /\ r["totpKey"] = IF c.portable THEN c.totpKey ELSE DurableFiles["totpKey"]
              /\ r["clientCa"] = IF c.portable THEN c.clientCa ELSE DurableFiles["clientCa"]
              /\ DOMAIN r = Files /\ r = [f \in Files |-> r[f]]
          BY <1>10, FileNames DEF Durable!RestoredFiles
        <4> HIDE DEF r
        <4>2. \A f \in Files : files[f] = r[f]
          BY <3>7, <4>1, FileNames DEF Brings
        <4>3. files = [f \in Files |-> r[f]]
          BY <1>11, <4>2
        <4>4. QED
          BY <4>1, <4>3 DEF r
      <3>9. Durable!Restore
        BY <1>10, <3>2, <3>3, <3>5, <3>8 DEF Durable!Restore
      <3>10. QED
        BY <3>9 DEF Durable!Next
    <2>5. QED
      BY <1>11, <2>1, <2>2, <2>3, <2>4 DEF Plan, j
  <1>13. QED
    BY <1>4, <1>5, <1>7, <1>8, <1>9, <1>12 DEF RecoveryInv

-----------------------------------------------------------------------------
(* The specification. *)

LEMMA InitRecoveryInv ==
  ASSUME Init PROVE RecoveryInv /\ Durable!Init
  <1>1. /\ db = [data |-> 0, row |-> NoRow, backups |-> {}] /\ snapshots = NoSnapshots
        /\ files = [f \in Files |-> IF f \in {"certificate", "totpKey"} THEN 0 ELSE Absent]
        /\ archives = [n \in Names |-> Absent] /\ checkpoint = Absent /\ memoryKey = 0
        /\ pc = [t \in Threads |-> "idle"] /\ job = [t \in Threads |-> NoJob]
        /\ todo = [t \in Threads |-> <<>>] /\ restoring = FALSE /\ degraded = FALSE
        /\ fresh = 1 /\ previous = Absent
    BY DEF Init
  <1>2. 0 \in Generations
    BY BoundAssumption DEF Generations
  <1>3. DiskInv
    BY <1>1, <1>2, FileNames DEF DiskInv, Databases, Values, NoSnapshots
  <1>4. ThreadInv
    <2>1. \A t \in Threads : job[t] = NoJob /\ pc[t] = "idle"
      BY <1>1
    <2>2. pc \in [Threads -> Labels] /\ DOMAIN job = Threads /\ DOMAIN todo = Threads
      BY <1>1 DEF Labels
    <2>3. QED
      BY <1>1, <2>1, <2>2 DEF ThreadInv, NoJob, Others, Threads
  <1>5. GateInv
    BY <1>1 DEF GateInv, Restores, Threads, NoJob
  <1>6. OperationInv
    BY <1>1 DEF OperationInv, RowOf, PlanOf, ProgressOf, Holds, Holding, Working
  <1>7. ~Armed /\ JournalInv
    BY <1>1 DEF Armed, JournalInv
  <1>8. ArmedInv /\ SnapshotInv /\ ArchiveInv
    BY <1>1, <1>7 DEF ArmedInv, SnapshotInv, ArchiveInv
  <1>9. Durable!Init
    <2>1. DurableData = 0
      BY <1>1, <1>7 DEF DurableData
    <2>2. DurableFiles = [f \in Files |-> files[f]]
      BY <1>7 DEF DurableFiles
    <2>3. DurableFiles \in [Durable!Files -> Generations \cup {Absent}]
      BY <1>1, <1>2, <2>2 DEF Files, A!Files, Durable!Files
    <2>4. DurableCatalogue = [n \in Names |-> Absent]
      BY <1>1 DEF DurableCatalogue, RecordedArchives
    <2>5. QED
      BY <1>2, <2>1, <2>3, <2>4 DEF Durable!Init
  <1>10. QED
    BY <1>3, <1>4, <1>5, <1>6, <1>7, <1>8, <1>9 DEF RecoveryInv

LEMMA Stuttering ==
  ASSUME RecoveryInv, UNCHANGED vars PROVE RecoveryInv' /\ Same
  <1>0. DiskInv /\ ThreadInv /\ GateInv /\ OperationInv /\ JournalInv /\ ArmedInv
        /\ SnapshotInv /\ ArchiveInv
    BY DEF RecoveryInv
  <1>1. /\ db' = db /\ files' = files /\ archives' = archives /\ snapshots' = snapshots
        /\ checkpoint' = checkpoint /\ memoryKey' = memoryKey /\ pc' = pc /\ job' = job
        /\ todo' = todo /\ restoring' = restoring /\ degraded' = degraded /\ fresh' = fresh
        /\ previous' = previous /\ Shrunk
    BY DEF vars, diskVars, threadVars, memoryVars, boundVars, Shrunk
  <1>2. DiskInv' /\ ThreadInv' /\ GateInv'
    BY <1>0, <1>1 DEF DiskInv, ThreadInv, GateInv, Restores
  <1>3. OperationInv'
    <2> SUFFICES ASSUME NEW u \in Threads PROVE RowOf(u)' /\ PlanOf(u)' /\ ProgressOf(u)'
      BY DEF OperationInv
    <2>1. RowOf(u) /\ PlanOf(u) /\ ProgressOf(u)
      BY <1>0 DEF OperationInv
    <2>2. pc[u] \in Working /\ job[u].kind \in BackupKinds => job[u].name \notin db'.backups
      BY <1>1, <2>1 DEF PlanOf
    <2>3. PlanOf(u)'
      BY <1>1, <2>1, <2>2, PlanOfKept
    <2>4. RowOf(u)' /\ ProgressOf(u)'
      BY <1>0, <1>1, <2>1, StillOf DEF ThreadInv
    <2>5. QED
      BY <2>3, <2>4
  <1>4. JournalInv' /\ (Armed' <=> Armed)
    BY <1>0, <1>1, JournalKept
  <1>5. ArmedInv' /\ SnapshotInv' /\ ArchiveInv'
    BY <1>0, <1>1, <1>4 DEF ArmedInv, SnapshotInv, ArchiveInv
  <1>6. Same
    BY <1>1, DurableKept
  <1>7. QED
    BY <1>2, <1>3, <1>4, <1>5, <1>6 DEF RecoveryInv

-----------------------------------------------------------------------------
(* Lookups. *)

(* Most steps leave the files and the lookups alone. *)
LEMMA LookupKept ==
  ASSUME LookupInv, NEW t \in Threads, files' = files,
         \A u \in Others(t) : pc'[u] = pc[u] /\ job'[u] = job[u],
         job'[t] \in {job[t], NoJob},
         pc'[t] \in {"prepare", "snapshot"} => pc[t] \in {"prepare", "snapshot"},
         Armed' => /\ Armed /\ previous' = previous
                   /\ db'.row.tracked = db.row.tracked
                   /\ db'.row.existing = db.row.existing
  PROVE  LookupInv'
  <1>1. \A u \in Threads : job'[u] \in {job[u], NoJob}
    BY DEF Others
  <1>2. NoJob.tracked = {}
    BY DEF NoJob
  <1>3. (Restores("worker") \/ job["worker"].tracked \subseteq {"pending"})'
    BY <1>1, <1>2 DEF LookupInv, Restores, Threads
  <1>4. ASSUME NEW u \in Threads, pc'[u] \in {"prepare", "snapshot"}
        PROVE  Unnoticed(u)'
    <2>1. pc[u] \in {"prepare", "snapshot"}
      BY <1>4 DEF Others
    <2>2. Unnoticed(u)
      BY <2>1 DEF LookupInv
    <2>3. QED
      BY <1>1, <1>2, <2>2 DEF Unnoticed
  <1>5. QED
    BY <1>3, <1>4 DEF LookupInv

(* An operation looks its files up as it starts. *)
LEMMA LookupStart ==
  ASSUME LookupInv, ThreadInv, NEW t \in Threads, files' = files, db'.row = db.row,
         previous' = previous,
         \A u \in Others(t) : pc'[u] = pc[u] /\ job'[u] = job[u],
         NEW kind, NEW tracked, NEW effects, NEW name, NEW next,
         job'[t] = Operation(kind, tracked, effects, name, next),
         t = "worker" => kind \in {"restore_checkpoint", "backup_restore"}
                         \/ tracked \subseteq {"pending"}
  PROVE  LookupInv'
  <1>1. /\ job'[t].kind = kind /\ job'[t].tracked = tracked
        /\ job'[t].existing = {f \in tracked : files[f] # Absent}
    BY DEF Operation, Present
  <1>2. (Restores("worker") \/ job["worker"].tracked \subseteq {"pending"})'
    BY <1>1 DEF LookupInv, Restores, Threads, Others
  <1>3. Unnoticed(t)'
    BY <1>1 DEF Unnoticed
  <1>4. \A u \in Others(t) : pc'[u] \in {"prepare", "snapshot"} => Unnoticed(u)'
    BY DEF LookupInv, Unnoticed, Others
  <1>5. (Armed => \A f \in db.row.tracked \ db.row.existing :
                    f = "pending" \/ previous.files[f] = Absent)'
    BY DEF LookupInv, Armed
  <1>6. QED
    BY <1>2, <1>3, <1>4, <1>5 DEF LookupInv, Others

(* The two threads have at most the pending key in common. *)
LEMMA LookupStored ==
  ASSUME RecoveryInv, LookupInv, NEW t \in Threads, pc[t] \in {"apply", "files"},
         NEW f \in job[t].tracked, NEW value, files' = [files EXCEPT ![f] = value],
         pc' = pc, job' = job, db'.row = db.row, previous' = previous
  PROVE  LookupInv'
  <1>1. /\ DiskInv /\ ThreadInv /\ GateInv
    BY DEF RecoveryInv
  <1>2. ASSUME NEW u \in Threads, pc[u] \in {"prepare", "snapshot"}
        PROVE  Unnoticed(u)'
    <2>1. Unnoticed(u) /\ u # t
      BY <1>2 DEF LookupInv
    <2>2. t # "boot" /\ u # "boot"
      BY <1>1, <1>2, <2>1 DEF ThreadInv, Threads, Recovering
    <2>3. ~Restores("worker")
      BY <1>1, <1>2, <2>1, <2>2 DEF GateInv, Threads
    <2>4. job["worker"].tracked \subseteq {"pending"}
      BY <2>3 DEF LookupInv
    <2>5. \A g \in job[u].tracked : g = "pending" \/ g # f
      BY <2>1, <2>2, <2>4 DEF Threads
    <2>6. \A g \in job[u].tracked : g = "pending" \/ files'[g] = files[g]
      BY <1>1, <2>5 DEF DiskInv, ThreadInv
    <2>7. QED
      BY <2>1, <2>6 DEF Unnoticed
  <1>3. QED
    BY <1>2 DEF LookupInv, Restores, Armed

LEMMA InitLookupInv == Init => LookupInv
  BY DEF Init, LookupInv, NoJob, Threads, Armed

LEMMA EndKeeps ==
  ASSUME RecoveryInv, LookupInv, NEW t \in Threads, End(t), files' = files,
         Armed' => /\ Armed /\ previous' = previous
                   /\ db'.row.tracked = db.row.tracked
                   /\ db'.row.existing = db.row.existing
  PROVE  LookupInv'
  <1>1. DOMAIN pc = Threads /\ DOMAIN job = Threads
    BY DEF RecoveryInv, ThreadInv
  <1>2. pc'[t] = "idle" /\ job'[t] = NoJob
        /\ \A u \in Others(t) : pc'[u] = pc[u] /\ job'[u] = job[u]
    BY <1>1 DEF End, Goto, Others
  <1>3. QED
    BY <1>2, LookupKept

LEMMA RequestLookup ==
  ASSUME RecoveryInv, LookupInv, Request PROVE LookupInv'
  <1>1. /\ DOMAIN pc = Threads /\ DOMAIN job = Threads /\ ThreadInv
        /\ "worker" \in Threads /\ "server" \in Threads
    BY DEF RecoveryInv, ThreadInv, Threads
  <1>2. ASSUME NEW t \in Threads, NEW kind, NEW tracked, NEW effects, NEW name, NEW next,
               Start(t, Operation(kind, tracked, effects, name, next)),
               t = "worker" => tracked \subseteq {"pending"}
        PROVE  LookupInv'
    <2>1. job'[t] = Operation(kind, tracked, effects, name, next)
      BY <1>1, <1>2 DEF Start
    <2>2. /\ files' = files /\ db' = db /\ previous' = previous
          /\ \A u \in Others(t) : pc'[u] = pc[u] /\ job'[u] = job[u]
      BY <1>1, <1>2 DEF Start, Goto, Others, diskVars
    <2>3. QED
      BY <1>1, <1>2, <2>1, <2>2, LookupStart
  <1>3. CASE BackupCreate
    BY <1>1, <1>2, <1>3 DEF BackupCreate, RecordArchive
  <1>4. CASE BackupImport
    BY <1>1, <1>2, <1>4 DEF BackupImport, RecordArchive
  <1>5. CASE CertificateCsr
    BY <1>1, <1>2, <1>5 DEF CertificateCsr
  <1>6. CASE CertificateInstall
    BY <1>1, <1>2, <1>6 DEF CertificateInstall
  <1>7. CASE AuthoritiesInstall
    BY <1>1, <1>2, <1>7 DEF AuthoritiesInstall
  <1>8. CASE AuthoritiesRemove
    BY <1>1, <1>2, <1>8 DEF AuthoritiesRemove
  <1>9. CASE OrdinaryWrite
    <2>1. /\ db' = [db EXCEPT !.data = fresh] /\ files' = files /\ pc' = pc /\ job' = job
          /\ previous' = previous
      BY <1>9 DEF OrdinaryWrite, threadVars
    <2>2. db'.row = db.row
      BY <2>1 DEF RecoveryInv, DiskInv, Databases
    <2>3. QED
      BY <1>1, <2>1, <2>2, LookupKept DEF Armed
  <1>10. CASE RestoreEnter
    <2>1. PICK n \in Names :
            /\ job' = [job EXCEPT !["worker"] = [NoJob EXCEPT !.next = archives[n]]]
            /\ pc' = [pc EXCEPT !["worker"] = "gate"]
      BY <1>10 DEF RestoreEnter, Goto
    <2>2. files' = files /\ db' = db /\ previous' = previous
      BY <1>10 DEF RestoreEnter, diskVars
    <2>3. job'["worker"].tracked = {} /\ pc'["worker"] = "gate"
          /\ \A u \in Others("worker") : pc'[u] = pc[u] /\ job'[u] = job[u]
      BY <1>1, <2>1 DEF NoJob, Others
    <2>4. QED
      BY <2>2, <2>3 DEF LookupInv, Unnoticed, Others, Armed
  <1>11. QED
    BY <1>3, <1>4, <1>5, <1>6, <1>7, <1>8, <1>9, <1>10 DEF Request

LEMMA RestoreProceedLookup ==
  ASSUME RecoveryInv, LookupInv, RestoreProceed PROVE LookupInv'
  <1>1. /\ DOMAIN pc = Threads /\ DOMAIN job = Threads /\ ThreadInv /\ "worker" \in Threads
        /\ files' = files /\ db' = db /\ previous' = previous
    BY DEF RecoveryInv, ThreadInv, Threads, RestoreProceed, diskVars
  <1>2. CASE End("worker")
    BY <1>1, <1>2, EndKeeps DEF Armed
  <1>3. CASE ~End("worker")
    <2>1. PICK n \in Names :
            /\ job' = [job EXCEPT !["worker"] =
                         RecordArchive("restore_checkpoint", n,
                            ArchiveOf(job["worker"].next.portable, job["worker"].next.portable),
                            job["worker"].next)]
            /\ pc' = [pc EXCEPT !["worker"] = "prepare"]
      BY <1>3 DEF RestoreProceed, Goto
    <2>2. \E effects : job'["worker"] = Operation("restore_checkpoint", {}, effects, n,
                                                  job["worker"].next)
      BY <1>1, <2>1 DEF RecordArchive
    <2>3. \A u \in Others("worker") : pc'[u] = pc[u] /\ job'[u] = job[u]
      BY <1>1, <2>1 DEF Others
    <2>4. QED
      BY <1>1, <2>2, <2>3, LookupStart
  <1>4. QED
    BY <1>2, <1>3

LEMMA StepLookup ==
  ASSUME RecoveryInv, LookupInv, NEW t \in Threads, Step(t) PROVE LookupInv'
  <1>0. /\ DOMAIN pc = Threads /\ DOMAIN job = Threads
        /\ DiskInv /\ ThreadInv /\ GateInv /\ JournalInv /\ SnapshotInv
        /\ RowOf(t) /\ PlanOf(t) /\ ProgressOf(t)
    BY DEF RecoveryInv, ThreadInv, OperationInv
  <1>1. CASE Prepare(t)
    <2>1. files' = files /\ previous' = previous
      BY <1>1 DEF Prepare
    <2>2. CASE db.row # NoRow
      <3>1. End(t) /\ db' = db
        BY <1>1, <2>2 DEF Prepare
      <3>2. QED
        BY <2>1, <3>1, EndKeeps DEF Armed
    <2>3. CASE db.row = NoRow
      <3>1. ~Armed' /\ pc[t] = "prepare" /\ job' = job /\ pc' = [pc EXCEPT ![t] = "snapshot"]
        BY <1>0, <1>1, <2>1, <2>3 DEF JournalInv, Armed, Prepare, Goto
      <3>2. QED
        BY <1>0, <2>1, <3>1, LookupKept DEF Others
    <2>4. QED
      BY <2>2, <2>3
  <1>2. CASE Snapshot(t)
    <2>1. pc[t] = "snapshot" /\ job' = job /\ files' = files /\ db' = db /\ previous' = previous
      BY <1>2 DEF Snapshot
    <2>2. \A u \in Others(t) : pc'[u] = pc[u]
      BY <1>0, <1>2 DEF Snapshot, Goto, Others
    <2>3. QED
      BY <2>1, <2>2, LookupKept DEF Armed, Others
  <1>3. CASE MarkReady(t)
    <2>1. /\ pc[t] = "snapshot" /\ db' = RowReady /\ job' = job /\ files' = files
          /\ previous' = [data |-> db.data, files |-> files]
          /\ pc' = [pc EXCEPT ![t] = "apply"]
      BY <1>3 DEF MarkReady, Goto
    <2>2. RowFor(t) /\ Unnoticed(t)
      BY <1>0, <2>1 DEF RowOf, Holds, Holding, LookupInv
    <2>3. db'.row.tracked = job[t].tracked /\ db'.row.existing = job[t].existing
      BY <1>0, <2>1, <2>2 DEF RowReady, DiskInv, Databases, RowFor, Rows
    <2>4. \A f \in db'.row.tracked \ db'.row.existing : f = "pending" \/ previous'.files[f] = Absent
      BY <2>1, <2>2, <2>3 DEF Unnoticed
    <2>5. \A u \in Threads : pc'[u] \in {"prepare", "snapshot"} => pc'[u] = pc[u]
      BY <1>0, <2>1
    <2>6. QED
      BY <2>1, <2>4, <2>5 DEF LookupInv, Unnoticed, Restores
  <1>4. CASE Unwind(t)
    <2>1. End(t) /\ files' = files /\ previous' = previous /\ ~Armed
      BY <1>0, <1>4 DEF Unwind, RowOf
    <2>2. QED
      BY <2>1, EndKeeps DEF Armed
  <1>5. CASE Apply(t)
    <2> DEFINE e == Head(todo[t])
    <2>1. /\ pc[t] = "apply" /\ todo[t] # <<>> /\ pc' = pc /\ job' = job /\ previous' = previous
      BY <1>5 DEF Apply
    <2>2. e \in Range(job[t].effects)
      BY <1>0, <2>1, RangeSplits DEF ProgressOf
    <2>3. Plan(job[t]) /\ job[t].tracked \subseteq Files
      BY <1>0, <2>1 DEF PlanOf, Working, ThreadInv
    <2>4. e.target \in Files => e.target \in job[t].tracked
      BY <1>0, <2>2, <2>3, PlanEffects
    <2>5. e.target \in {"archive", "database"} \cup Files
      BY <1>0, <2>2, <2>3, PlanEffects DEF Effects
    <2>6. /\ e.target \in {"archive", "database"} => files' = files /\ db'.row = db.row
          /\ e.target \in Files => files' = [files EXCEPT ![e.target] = e.value] /\ db' = db
      BY <1>0, <1>5, FileNames DEF Apply, StoreFile, ReplaceDatabase, DiskInv, Databases
    <2> HIDE DEF e
    <2>7. CASE e.target \in {"archive", "database"}
      BY <2>1, <2>6, <2>7, LookupKept DEF Armed, Others
    <2>8. CASE e.target \in Files
      BY <2>1, <2>4, <2>6, <2>8, LookupStored
    <2>9. QED
      BY <2>5, <2>7, <2>8
  <1>6. CASE Commit(t)
    <2>1. /\ pc[t] = "apply" /\ files' = files /\ ~Armed'
      BY <1>6 DEF Commit, Armed
    <2>2. CASE job[t].kind = "restore_checkpoint"
      <3>1. /\ job' = [job EXCEPT ![t] = RestoreOperation(job[t].next)]
            /\ pc' = [pc EXCEPT ![t] = "prepare"]
        BY <1>6, <2>2 DEF Commit, Goto
      <3>2. job'[t] = RestoreOperation(job[t].next)
            /\ \A u \in Others(t) : pc'[u] = pc[u] /\ job'[u] = job[u]
        BY <1>0, <3>1 DEF Others
      <3>3. /\ job'[t].kind = "backup_restore"
            /\ job'[t].existing = {f \in job'[t].tracked : files[f] # Absent}
        BY <3>2 DEF RestoreOperation, Operation, Present
      <3>4. (Restores("worker") \/ job["worker"].tracked \subseteq {"pending"})'
        BY <3>2, <3>3 DEF LookupInv, Restores, Threads, Others
      <3>5. Unnoticed(t)'
        BY <2>1, <3>3 DEF Unnoticed
      <3>6. \A u \in Others(t) : pc'[u] \in {"prepare", "snapshot"} => Unnoticed(u)'
        BY <2>1, <3>2 DEF LookupInv, Unnoticed, Others
      <3>7. QED
        BY <2>1, <3>4, <3>5, <3>6 DEF LookupInv, Others
    <2>3. CASE job[t].kind \in BackupKinds \ {"restore_checkpoint"}
      <3>1. End(t)
        BY <1>6, <2>3 DEF Commit
      <3>2. QED
        BY <2>1, <3>1, EndKeeps
    <2>4. CASE job[t].kind \notin BackupKinds
      <3>1. job' = job /\ pc' = [pc EXCEPT ![t] = "cleanup"]
        BY <1>6, <2>4 DEF Commit, Goto, BackupKinds
      <3>2. QED
        BY <1>0, <2>1, <3>1, LookupKept DEF Others
    <2>5. QED
      BY <2>2, <2>3, <2>4
  <1>7. CASE Cleanup(t) \/ Sweep(t)
    <2>1. End(t) /\ files' = files /\ previous' = previous /\ db' = db
      BY <1>7 DEF Cleanup, Sweep
    <2>2. QED
      BY <2>1, EndKeeps DEF Armed
  <1>8. CASE Reconcile(t)
    <2>1. /\ pc[t] = "reconcile" /\ files' = files /\ db' = db /\ previous' = previous
          /\ job' = job \/ job' = [job EXCEPT ![t] = LoadedOperation]
      BY <1>8 DEF Reconcile
    <2>2. \E label : label \notin {"prepare", "snapshot"} /\ pc' = [pc EXCEPT ![t] = label]
      BY <1>8 DEF Reconcile, Goto
    <2>3. \A u \in Threads : pc'[u] \in {"prepare", "snapshot"} => pc'[u] = pc[u] /\ u # t
      BY <1>0, <2>2
    <2>4. \A u \in Others(t) : job'[u] = job[u]
      BY <1>0, <2>1 DEF Others
    <2>5. t = "worker" => job'[t].tracked = job[t].tracked /\ job'[t].kind = job[t].kind
      <3>1. t = "worker" => RowFor(t)
        BY <1>0, <2>1 DEF RowOf, Holds, Holding
      <3>2. LoadedOperation.kind = db.row.kind /\ LoadedOperation.tracked = db.row.tracked
        BY DEF LoadedOperation, NoJob
      <3>3. QED
        BY <1>0, <2>1, <3>1, <3>2 DEF RowFor
    <2>6. QED
      BY <2>1, <2>3, <2>4, <2>5 DEF LookupInv, Restores, Unnoticed, Others, Threads, Armed
  <1>9. CASE RestoreCheckpoint(t)
    <2>1. pc[t] = "checkpoint" /\ files' = files /\ previous' = previous
      BY <1>9 DEF RestoreCheckpoint
    <2>2. CASE checkpoint = Absent
      <3>1. End(t) /\ db' = db
        BY <1>9, <2>2 DEF RestoreCheckpoint, Unrecoverable
      <3>2. QED
        BY <2>1, <3>1, EndKeeps DEF Armed
    <2>3. CASE checkpoint # Absent
      <3>1. db' = checkpoint /\ job' = job /\ pc' = [pc EXCEPT ![t] = "rearm"]
        BY <1>9, <2>3 DEF RestoreCheckpoint, Goto
      <3>2. Armed => /\ db'.row.tracked = db.row.tracked /\ db'.row.existing = db.row.existing
        BY <1>0, <2>1, <2>3, <3>1 DEF SnapshotInv, RowOf
      <3>3. QED
        BY <1>0, <2>1, <3>1, <3>2, LookupKept DEF Armed, Others
    <2>4. QED
      BY <2>2, <2>3
  <1>10. CASE Rearm(t)
    <2>1. /\ pc[t] = "rearm" /\ db' = RowReady /\ files' = files /\ previous' = previous
          /\ job' = job /\ pc' = [pc EXCEPT ![t] = "files"]
      BY <1>10 DEF Rearm, Goto
    <2>2. RowFor(t)
      BY <1>0, <2>1 DEF RowOf, Holds, Holding
    <2>3. db'.row.tracked = db.row.tracked /\ db'.row.existing = db.row.existing
      BY <1>0, <2>1, <2>2 DEF RowReady, DiskInv, Databases, RowFor, Rows
    <2>4. QED
      BY <1>0, <2>1, <2>3, LookupKept DEF Armed, Others
  <1>11. CASE RestoreFile(t)
    <2> DEFINE f == Head(todo[t])
    <2>1. pc[t] = "files" /\ todo[t] # <<>> /\ db' = db /\ previous' = previous
      BY <1>11 DEF RestoreFile
    <2>2. f \in job[t].tracked
      BY <1>0, <2>1, RangeSplits DEF ProgressOf
    <2>3. CASE End(t) /\ files' = files
      BY <2>1, <2>3, EndKeeps DEF Armed
    <2>4. CASE pc' = pc /\ job' = job /\ \E v : files' = [files EXCEPT ![f] = v]
      <3> HIDE DEF f
      <3>1. QED
        BY <2>1, <2>2, <2>4, LookupStored
    <2>5. QED
      BY <1>11, <2>3, <2>4 DEF RestoreFile, Unrecoverable, StoreFile
  <1>12. CASE Settle(t)
    <2>1. /\ ~Armed' /\ files' = files /\ job' = job /\ pc' = [pc EXCEPT ![t] = "sweep"]
      BY <1>12 DEF Settle, Goto, Armed
    <2>2. QED
      BY <1>0, <2>1, LookupKept DEF Others
  <1>13. QED
    BY <1>1, <1>2, <1>3, <1>4, <1>5, <1>6, <1>7, <1>8, <1>9, <1>10, <1>11, <1>12 DEF Step

LEMMA FailLookup ==
  ASSUME RecoveryInv, LookupInv, NEW t \in Threads, Fail(t) \/ Abandon(t) PROVE LookupInv'
  <1>0. DOMAIN pc = Threads /\ DOMAIN job = Threads /\ RowOf(t)
    BY DEF RecoveryInv, ThreadInv, OperationInv
  <1>1. files' = files /\ previous' = previous
    BY DEF Fail, Abandon, diskVars
  <1>2. CASE Abandon(t)
    <2>1. End(t) /\ db' = db
      BY <1>2 DEF Abandon, diskVars
    <2>2. QED
      BY <1>1, <2>1, EndKeeps DEF Armed
  <1>3. CASE Fail(t) /\ End(t)
    <2>1. CASE pc[t] = "unwind"
      BY <1>0, <1>1, <1>3, <2>1, EndKeeps DEF RowOf, Armed
    <2>2. CASE pc[t] # "unwind"
      <3>1. db' = db
        BY <1>3, <2>2 DEF Fail
      <3>2. QED
        BY <1>1, <1>3, <3>1, EndKeeps DEF Armed
    <2>3. QED
      BY <2>1, <2>2
  <1>4. CASE Fail(t) /\ ~End(t)
    <2>1. /\ db' = db /\ job' = job
          /\ \E label : label \notin {"prepare", "snapshot"} /\ pc' = [pc EXCEPT ![t] = label]
      BY <1>4 DEF Fail, Goto, Unrecoverable
    <2>2. QED
      BY <1>0, <1>1, <2>1, LookupKept DEF Armed, Others
  <1>5. QED
    BY <1>2, <1>3, <1>4

LEMMA NextLookupInv ==
  ASSUME RecoveryInv, LookupInv, [Next]_vars PROVE LookupInv'
  <1>1. CASE Crash
    <2>1. /\ \A t \in Threads : pc'[t] \notin {"prepare", "snapshot"}
          /\ job' = [t \in Threads |-> NoJob] /\ db' = db /\ previous' = previous
      BY <1>1 DEF Crash, diskVars
    <2>2. job'["worker"].tracked = {}
      BY <2>1 DEF NoJob, Threads
    <2>3. QED
      BY <2>1, <2>2 DEF LookupInv, Armed
  <1>2. CASE UNCHANGED vars
    BY <1>2 DEF vars, diskVars, threadVars, LookupInv, Unnoticed, Restores, Armed
  <1>3. QED
    BY <1>1, <1>2, RequestLookup, RestoreProceedLookup, StepLookup, FailLookup DEF Next

(* A step of the abstract appliance, at the step that commits it, a lapse, *)
(* or none.                                                                *)
Whole == [(Durable!Next /\ Committed) \/ Lapse]_(Durable!vars)

(* Every step keeps the invariant and is one of these. *)
LEMMA NextRecoveryInv ==
  ASSUME RecoveryInv, LookupInv, [Next]_vars PROVE RecoveryInv' /\ Whole
  <1>1. Same => Whole
    BY DEF Same, Whole, Durable!vars
  <1>2. (Durable!Next /\ Committed) \/ Lapse => Whole
    BY DEF Whole
  <1>3. CASE Request
    <2>1. CASE OrdinaryWrite
      <3>1. RecoveryInv' /\ Durable!Write
        BY <2>1, OrdinaryWriteStep DEF Durable!Write
      <3>2. QED
        BY <1>2, <2>1, <3>1 DEF Durable!Next, Committed
    <2>2. CASE ~OrdinaryWrite
      BY <1>1, <1>3, <2>2, BackupCreateStep, BackupImportStep, CertificateCsrStep,
         CertificateInstallStep, AuthoritiesInstallStep, AuthoritiesRemoveStep, RestoreEnterStep
         DEF Request
    <2>3. QED
      BY <2>1, <2>2
  <1>4. CASE RestoreProceed
    BY <1>1, <1>4, RestoreProceedStep
  <1>5. ASSUME NEW t \in Threads, Step(t) PROVE RecoveryInv' /\ Whole
    <2>1. CASE Commit(t)
      <3>1. CASE job[t].kind = "restore_checkpoint"
        BY <1>2, <2>1, <3>1, CheckpointRecordStep DEF Durable!Next, Committed
      <3>2. CASE job[t].kind \in BackupKinds \ {"restore_checkpoint"}
        BY <1>2, <2>1, <3>2, RecordStep DEF Durable!Next, Committed
      <3>3. CASE job[t].kind \notin BackupKinds
        BY <1>2, <2>1, <3>3, CompleteStep DEF Committed
      <3>4. QED
        BY <3>1, <3>2, <3>3
    <2>2. CASE Settle(t)
      BY <1>1, <1>2, <2>2, SettleStep
    <2>3. CASE ~Commit(t) /\ ~Settle(t)
      BY <1>1, <1>5, <2>3, PrepareStep, SnapshotStep, MarkReadyStep, UnwindStep, ApplyStep,
         CleanupStep, ReconcileStep, RestoreCheckpointStep, RearmStep, RestoreFileStep DEF Step
    <2>4. QED
      BY <2>1, <2>2, <2>3
  <1>6. ASSUME NEW t \in Threads, Fail(t) \/ Abandon(t) PROVE RecoveryInv' /\ Same
    BY <1>6, FailStep, AbandonStep
  <1>7. CASE Crash
    BY <1>1, <1>7, CrashStep
  <1>8. CASE UNCHANGED vars
    BY <1>1, <1>8, Stuttering
  <1>9. QED
    BY <1>1, <1>3, <1>4, <1>5, <1>6, <1>7, <1>8 DEF Next

(* The journal row, its snapshots, what it was armed over and the threads  *)
(* that work on it fit together in every state, whatever overlapped,       *)
(* failed or crashed before.                                               *)
THEOREM RecoveryInvariant == Spec => [](RecoveryInv /\ LookupInv)
  <1>1. Init => RecoveryInv /\ LookupInv
    BY InitRecoveryInv, InitLookupInv
  <1>2. RecoveryInv /\ LookupInv /\ [Next]_vars => (RecoveryInv /\ LookupInv)'
    BY NextRecoveryInv, NextLookupInv
  <1>3. QED
    BY <1>1, <1>2, PTL DEF Spec

(* Whatever overlaps, fails or crashes between two steps of prepare,         *)
(* snapshot, apply, commit and recovery, what is durable changes by whole    *)
(* operations, each at its commit, or by one of the two lapses: a pending    *)
(* key that a stale lookup missed is removed, or a recovery that was stopped before   *)
(* mark_ready keeps the files of the restore.                                *)
THEOREM ImplementsAtomicApplianceHolds == Spec => ImplementsAtomicAppliance
  <1>1. Init => Durable!Init
    BY InitRecoveryInv
  <1>2. RecoveryInv /\ LookupInv /\ [Next]_vars => [(Durable!Next /\ Committed) \/ Lapse]_(Durable!vars)
    BY NextRecoveryInv DEF Whole
  <1>3. Spec => [](RecoveryInv /\ LookupInv)
    BY RecoveryInvariant
  <1>4. QED
    BY <1>1, <1>2, <1>3, PTL DEF Spec, ImplementsAtomicAppliance

(* A daemon at rest that reports no degradation has nothing half applied,    *)
(* also under a row that an early return left armed, keeps exactly the       *)
(* archives that it has on record and serves the TOTP key of its file.       *)
THEOREM HealthyAtRestHolds == Spec => []HealthyAtRest
  <1>1. RecoveryInv => HealthyAtRest
    <2> SUFFICES ASSUME RecoveryInv, Idle, ~degraded
                 PROVE  /\ files = DurableFiles /\ db.data = DurableData
                        /\ \A n \in Names : archives[n] # Absent <=> n \in db.backups
                        /\ memoryKey = files.totpKey
      BY DEF HealthyAtRest
    <2>1. \A t \in Threads : pc[t] = "idle"
      BY DEF Idle
    <2>2. Armed => /\ db.row.kind # "backup_restore"
                   /\ \A f \in db.row.tracked : files[f] = previous.files[f]
      BY <2>1 DEF RecoveryInv, ArmedInv, Holding
    <2>3. DurableFiles = [f \in Files |-> files[f]]
      BY <2>2 DEF DurableFiles
    <2>4. files = DurableFiles
      BY <2>3 DEF RecoveryInv, DiskInv
    <2>5. db.data = DurableData
      BY <2>2 DEF DurableData
    <2>6. \A n \in Names : archives[n] # Absent <=> n \in db.backups
      BY <2>1 DEF RecoveryInv, ArchiveInv, DiskInv
    <2>7. memoryKey = files.totpKey
      BY DEF RecoveryInv, DiskInv
    <2>8. QED
      BY <2>4, <2>5, <2>6, <2>7
  <1>2. Spec => [](RecoveryInv /\ LookupInv)
    BY RecoveryInvariant
  <1>3. QED
    BY <1>1, <1>2, PTL

(* A recovery never puts back another generation than the one its row was    *)
(* armed over: a snapshot that it relies on is of that generation or it has  *)
(* gone, by the clean-up of another thread, and the recovery then stops      *)
(* degraded.                                                                 *)
NoOtherGeneration ==
  Armed =>
    /\ \A f \in db.row.existing : snapshots[f] \in {previous.files[f], Absent}
    /\ db.row.kind = "backup_restore" /\ checkpoint # Absent =>
         checkpoint.data = previous.data /\ checkpoint.backups = db.backups

(* What SnapshotInv says of them holds in every state: create_recovery_snapshots *)
(* copies before mark_ready, and nothing writes to a snapshot of an armed row.   *)
THEOREM NoOtherGenerationHolds == Spec => []NoOtherGeneration
  <1>1. RecoveryInv => NoOtherGeneration
    BY DEF RecoveryInv, SnapshotInv, NoOtherGeneration
  <1>2. Spec => [](RecoveryInv /\ LookupInv)
    BY RecoveryInvariant
  <1>3. QED
    BY <1>1, <1>2, PTL

===============================================================================
