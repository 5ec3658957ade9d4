------------------------- MODULE NetworkTransaction -------------------------
(***************************************************************************)
(* A network change from its provisional application to its confirmation:  *)
(* the privileged helper with its one transaction (src/src/netd/           *)
(* transaction.c, bridge.c, nftables.c, server.c) and the daemon that      *)
(* drives it through the network handlers (management_network.c), the      *)
(* durable journal of management_recovery.c and its own start-up           *)
(* (daemon_runtime.c).                                                     *)
(*                                                                         *)
(* The helper serves one request at a time.  A request may not reach it,   *)
(* its answer may be lost, SQLite may refuse a transaction and the daemon  *)
(* may be killed between any two of its steps; Faults of these happen.     *)
(***************************************************************************)
EXTENDS Naturals

CONSTANTS
  Configs,         \* network configurations
  Faults,          \* bound on failures and crashes
  MaxRevision,     \* bound on the revision of the stored configuration
  HelperMayCrash,  \* whether the helper may be killed and restarted
  KernelMayFail    \* whether a restoration in the kernel may fail half-way

None == "none"
Absent == "absent"    \* no JanusGate table in the packet filter
Partial == "partial"  \* a bridge that is neither the old nor the new one

ASSUME ConfigAssumption ==
  Configs # {} /\ Configs \cap {None, Absent, Partial} = {}
ASSUME BoundAssumption == Faults \in Nat /\ MaxRevision \in Nat \ {0}
ASSUME ChoiceAssumption == {HelperMayCrash, KernelMayFail} \subseteq BOOLEAN

VARIABLES
  bridge, rules,  \* the kernel's bridge and packet-filter table
  current,        \* transaction.current, None when not current_valid
  pending,        \* transaction.pending, None when not pending_valid
  checkpoint,     \* the bridge captured before the pending configuration
  due,            \* whether expires_at has passed
  prior,          \* ghost: kernel state when the pending one was applied
  intact,         \* ghost: no helper was killed, no restoration failed so far
  stored,         \* the network configuration row: config and revision
  journal,        \* the pending management operation
  dpc,            \* where the daemon is
  after,          \* where it goes on after a recovery
  target,         \* the pending configuration that it saw
  degraded,       \* MANAGEMENT_DEGRADED_EXTERNAL_RECOVERY
  faults          \* failures that may still happen

kernelVars == <<bridge, rules>>
ghostVars == <<prior, intact>>
helperVars == <<kernelVars, current, pending, checkpoint, due, ghostVars>>
diskVars == <<stored, journal>>
daemonVars == <<dpc, after, target, degraded>>
networkVars == <<helperVars, diskVars, daemonVars, faults>>

NoJournal == [state |-> None, previous |-> None, replacement |-> None]

(* A daemon that has started on its stored configuration. *)
NetworkInit ==
  /\ \E c \in Configs :
       /\ bridge = c /\ rules = c /\ current = c
       /\ stored = [config |-> c, revision |-> 1]
       /\ prior = <<c, c>>
  /\ pending = None /\ checkpoint = None /\ due = FALSE /\ intact = TRUE
  /\ journal = NoJournal
  /\ dpc = "idle" /\ after = "idle" /\ target = None
  /\ degraded = FALSE
  /\ faults = Faults

Fault == faults > 0 /\ faults' = faults - 1

-----------------------------------------------------------------------------
(* The helper *)

Cleared == pending' = None /\ checkpoint' = None /\ due' = FALSE

(* jg_netd_apply_network that succeeds *)
HelperApply(c) ==
  /\ pending = None
  /\ bridge' = c /\ rules' = c
  /\ pending' = c /\ checkpoint' = bridge /\ due' = FALSE
  /\ prior' = kernelVars
  /\ UNCHANGED <<current, intact>>

(* ... whose rules failed and whose bridge could not be restored *)
HelperApplyBroken(c) ==
  /\ KernelMayFail
  /\ pending = None
  /\ bridge' = Partial /\ intact' = FALSE
  /\ UNCHANGED <<rules, current, pending, checkpoint, due, prior>>

(* Mutant: the confirmed configuration is not remembered. *)
HelperConfirmForgets ==
  /\ pending # None
  /\ Cleared
  /\ UNCHANGED <<kernelVars, current, ghostVars>>

HelperConfirm ==
  /\ pending # None
  /\ current' = pending
  /\ Cleared
  /\ UNCHANGED <<kernelVars, ghostVars>>

(* Mutant: the rules of the pending configuration are left in place. *)
HelperRollbackBridgeOnly ==
  /\ pending # None
  /\ bridge' = checkpoint
  /\ Cleared
  /\ UNCHANGED <<rules, current, ghostVars>>

HelperRollback ==
  /\ pending # None
  /\ rules' = IF current # None THEN current ELSE Absent
  /\ bridge' = checkpoint
  /\ Cleared
  /\ UNCHANGED <<current, ghostVars>>

(* One of the two restorations failed: with the bridge restored the        *)
(* transaction ends and no rules count as confirmed, otherwise it stays.   *)
HelperRollbackBroken ==
  /\ KernelMayFail
  /\ pending # None
  /\ \/ /\ bridge' = checkpoint
        /\ current' = None
        /\ Cleared
        /\ UNCHANGED rules
     \/ /\ bridge' = Partial
        /\ rules' \in {rules, IF current # None THEN current ELSE Absent}
        /\ UNCHANGED <<current, pending, checkpoint, due>>
  /\ intact' = FALSE
  /\ UNCHANGED prior

(* The confirmation timeout elapses: while an operator may still confirm,  *)
(* while the daemon is down, while a confirmation races it or, a failure,  *)
(* while a daemon that has just applied a configuration itself stalls.     *)
Stalled == dpc \in {"apply.verify", "recover.store", "recover.confirm", "start.confirm"}

DeadlinePasses ==
  /\ pending # None /\ ~due
  /\ due' = TRUE
  /\ IF Stalled THEN Fault ELSE UNCHANGED faults
  /\ UNCHANGED <<kernelVars, current, pending, checkpoint, ghostVars, diskVars, daemonVars>>

(* Mutant: the deadline is only looked at while a request is served. *)
ExpireOnRequest ==
  /\ dpc # "idle"
  /\ pending # None /\ due
  /\ HelperRollback
  /\ UNCHANGED <<diskVars, daemonVars, faults>>

(* jg_netd_expire_network between two requests; its failure ends the helper. *)
Expire ==
  /\ pending # None /\ due
  /\ \/ HelperRollback
     \/ /\ KernelMayFail
        /\ bridge' \in {checkpoint, Partial}
        /\ rules' \in {rules, IF current # None THEN current ELSE Absent}
        /\ current' = None
        /\ Cleared
        /\ intact' = FALSE
        /\ UNCHANGED prior
  /\ UNCHANGED <<diskVars, daemonVars, faults>>

(* The helper is killed and started again: the kernel keeps its state, the *)
(* transaction is gone.                                                    *)
HelperCrash ==
  /\ HelperMayCrash
  /\ Fault
  /\ current' = None
  /\ Cleared
  /\ intact' = FALSE
  /\ UNCHANGED <<kernelVars, prior, diskVars, daemonVars>>

-----------------------------------------------------------------------------
(* The daemon.  Call is one exchange with the helper: it did what was      *)
(* asked and the answer arrived, or it did it and the answer was lost, or  *)
(* it refused, failed cleanly or was not reached, or it failed with -EIO   *)
(* and left Broken.                                                        *)
Call(Effect, Broken, ok, err) ==
  \/ Effect /\ dpc' = ok /\ UNCHANGED faults
  \/ Effect /\ dpc' = err /\ Fault
  \/ UNCHANGED helperVars /\ dpc' = err /\ Fault
  \/ Broken /\ dpc' = err /\ Fault

(* An answer of -EBUSY *)
Busy(refused, err) ==
  refused /\ dpc' = err /\ UNCHANGED <<helperVars, faults>>

ApplyCall(c) ==
  Call(HelperApply(c), HelperApplyBroken(c), "apply.verify", "idle")

(* handle_network_apply *)
NetworkApply(c) ==
  /\ dpc = "idle" /\ ~degraded
  /\ ApplyCall(c) \/ Busy(pending # None, "idle")
  /\ UNCHANGED <<diskVars, after, target, degraded>>

(* jg_netd_client_state must show the transaction; then it is audited. *)
NetworkApplyVerify ==
  /\ dpc = "apply.verify"
  /\ \/ pending # None /\ dpc' = "idle" /\ UNCHANGED faults
     \/ pending = None /\ dpc' = "apply.undo" /\ UNCHANGED faults
     \/ dpc' = "apply.undo" /\ Fault
  /\ UNCHANGED <<helperVars, diskVars, after, target, degraded>>

RollbackCall(ok, err) ==
  \/ Call(HelperRollback, HelperRollbackBroken, ok, err)
  \/ Busy(pending = None, err)

NetworkApplyUndo ==
  /\ dpc = "apply.undo"
  /\ RollbackCall("idle", "idle")
  /\ UNCHANGED <<diskVars, after, target, degraded>>

(* handle_network_rollback *)
NetworkRollback ==
  /\ dpc = "idle"
  /\ pending # None
  /\ RollbackCall("idle", "idle")
  /\ UNCHANGED <<diskVars, after, target, degraded>>

(* handle_network_confirm: the pending configuration is read, *)
NetworkConfirm ==
  /\ dpc = "idle" /\ ~degraded
  /\ pending # None
  /\ journal = NoJournal
  /\ stored.revision < MaxRevision
  /\ target' = pending
  /\ dpc' = "confirm.prepare"
  /\ UNCHANGED <<helperVars, diskVars, after, degraded, faults>>

(* journalled in two transactions, *)
ConfirmPrepare ==
  /\ dpc = "confirm.prepare"
  /\ \/ /\ journal' = [state |-> "prepared", previous |-> stored.config,
                       replacement |-> target]
        /\ dpc' = "confirm.ready"
        /\ UNCHANGED faults
     \/ /\ Fault /\ dpc' = "idle" /\ UNCHANGED journal
  /\ UNCHANGED <<helperVars, stored, after, target, degraded>>

(* (a journal that cannot be armed is cleared again, or left as it is)     *)
ConfirmReady ==
  /\ dpc = "confirm.ready"
  /\ \/ /\ journal' = [journal EXCEPT !.state = "ready"]
        /\ dpc' = "confirm.store"
        /\ UNCHANGED faults
     \/ /\ Fault /\ dpc' = "idle" /\ journal' \in {NoJournal, journal}
  /\ UNCHANGED <<helperVars, stored, after, target, degraded>>

Store(c) == stored' = [config |-> c, revision |-> stored.revision + 1]
StoreIfOther(c) == IF stored.config = c THEN UNCHANGED stored ELSE Store(c)

RecoverThen(where) == dpc' = "recover" /\ after' = where

(* stored, *)
ConfirmStore ==
  /\ dpc = "confirm.store"
  /\ \/ Store(target) /\ dpc' = "confirm.call" /\ UNCHANGED <<after, faults>>
     \/ Fault /\ RecoverThen("idle") /\ UNCHANGED stored
  /\ UNCHANGED <<helperVars, journal, target, degraded>>

(* Mutant: an error of the helper is answered without a recovery. *)
ConfirmCallUnrecovered ==
  /\ dpc = "confirm.call"
  /\ \/ Call(HelperConfirm, FALSE, "confirm.finish", "confirm.finish")
     \/ Busy(pending = None, "confirm.finish")
  /\ UNCHANGED <<diskVars, after, target, degraded>>

(* confirmed by the helper, *)
ConfirmCall ==
  /\ dpc = "confirm.call"
  /\ \/ Call(HelperConfirm, FALSE, "confirm.finish", "recover")
     \/ Busy(pending = None, "recover")
  /\ after' = "idle"
  /\ UNCHANGED <<diskVars, target, degraded>>

(* and its audit event commits with the end of the journal entry.          *)
ConfirmFinish ==
  /\ dpc = "confirm.finish"
  /\ \/ journal' = NoJournal /\ dpc' = "idle" /\ UNCHANGED <<after, faults>>
     \/ Fault /\ RecoverThen("idle") /\ UNCHANGED journal
  /\ UNCHANGED <<helperVars, stored, target, degraded>>

-----------------------------------------------------------------------------
(* recover_pending_operation and restore_recovery_network *)

Recover ==
  /\ dpc = "recover"
  /\ \/ /\ journal = NoJournal
        /\ dpc' = after /\ UNCHANGED faults
     \/ /\ journal.state = "prepared"
        /\ dpc' = "recover.finish" /\ UNCHANGED faults
     \/ /\ journal.state = "ready"
        /\ dpc' = IF pending # None THEN "recover.rollback" ELSE "recover.apply"
        /\ UNCHANGED faults
     \/ /\ journal.state = "ready"
        /\ Fault /\ dpc' = "recover.fail"
  /\ UNCHANGED <<helperVars, diskVars, after, target, degraded>>

RecoverRollback ==
  /\ dpc = "recover.rollback"
  /\ \/ Call(HelperRollback, HelperRollbackBroken, "recover.apply", "recover.fail")
     \/ Busy(pending = None, "recover.apply")
  /\ UNCHANGED <<diskVars, after, target, degraded>>

RecoverApply ==
  /\ dpc = "recover.apply"
  /\ \/ Call(HelperApply(journal.previous), HelperApplyBroken(journal.previous),
             "recover.store", "recover.fail")
     \/ Busy(pending # None, "recover.fail")
  /\ UNCHANGED <<diskVars, after, target, degraded>>

(* Mutant: the stored configuration is left as the operation wrote it. *)
RecoverStoreSkipped ==
  /\ dpc = "recover.store"
  /\ dpc' = "recover.confirm"
  /\ UNCHANGED <<helperVars, diskVars, after, target, degraded, faults>>

RecoverStore ==
  /\ dpc = "recover.store"
  /\ \/ StoreIfOther(journal.previous) /\ dpc' = "recover.confirm" /\ UNCHANGED faults
     \/ Fault /\ dpc' = "recover.undo" /\ UNCHANGED stored
  /\ UNCHANGED <<helperVars, journal, after, target, degraded>>

RecoverUndo ==
  /\ dpc = "recover.undo"
  /\ RollbackCall("recover.fail", "recover.fail")
  /\ UNCHANGED <<diskVars, after, target, degraded>>

RecoverConfirm ==
  /\ dpc = "recover.confirm"
  /\ \/ Call(HelperConfirm, FALSE, "recover.finish", "recover.fail")
     \/ Busy(pending = None, "recover.fail")
  /\ UNCHANGED <<diskVars, after, target, degraded>>

(* The compensation of a recovery that failed: roll back what is pending,  *)
RecoverFail ==
  /\ dpc = "recover.fail"
  /\ RollbackCall("recover.restore", "recover.restore")
  /\ UNCHANGED <<diskVars, after, target, degraded>>

(* and store the replacement again; the journal entry stays.               *)
RecoverRestore ==
  /\ dpc = "recover.restore"
  /\ \/ StoreIfOther(journal.replacement) /\ UNCHANGED faults
     \/ Fault /\ UNCHANGED stored
  /\ degraded' = TRUE
  /\ dpc' = after
  /\ UNCHANGED <<helperVars, journal, after, target>>

RecoverFinish ==
  /\ dpc = "recover.finish"
  /\ \/ journal' = NoJournal /\ UNCHANGED <<degraded, faults>>
     \/ Fault /\ degraded' = TRUE /\ UNCHANGED journal
  /\ dpc' = after
  /\ UNCHANGED <<helperVars, stored, after, target>>

-----------------------------------------------------------------------------
(* The daemon is killed, or its start-up fails, and the service manager    *)
(* starts it again: jg_management_create recovers, then                    *)
(* jg_daemon_runtime_prepare applies and confirms the stored configuration. *)

DaemonCrash ==
  /\ dpc # "down"
  /\ Fault
  /\ dpc' = "down"
  /\ UNCHANGED <<helperVars, diskVars, after, target, degraded>>

(* POST /api/v1/service/restart, also served while degraded *)
ServiceRestart ==
  /\ dpc = "idle"
  /\ dpc' = "down"
  /\ UNCHANGED <<helperVars, diskVars, after, target, degraded, faults>>

DaemonStart ==
  /\ dpc = "down"
  /\ RecoverThen("start.apply")
  /\ target' = None
  /\ degraded' = FALSE
  /\ UNCHANGED <<helperVars, diskVars, faults>>

(* Mutant: -EBUSY from the helper is taken for a configuration in place. *)
StartApplyTolerant ==
  /\ dpc = "start.apply"
  /\ \/ Call(HelperApply(stored.config), FALSE, "start.confirm", "down")
     \/ Busy(pending # None, "start.confirm")
  /\ UNCHANGED <<diskVars, after, target, degraded>>

StartApply ==
  /\ dpc = "start.apply"
  /\ \/ Call(HelperApply(stored.config), HelperApplyBroken(stored.config),
             "start.confirm", "down")
     \/ Busy(pending # None, "down")
  /\ UNCHANGED <<diskVars, after, target, degraded>>

StartConfirm ==
  /\ dpc = "start.confirm"
  /\ \/ Call(HelperConfirm, FALSE, "idle", "start.undo")
     \/ Busy(pending = None, "start.undo")
  /\ UNCHANGED <<diskVars, after, target, degraded>>

StartUndo ==
  /\ dpc = "start.undo"
  /\ RollbackCall("down", "down")
  /\ UNCHANGED <<diskVars, after, target, degraded>>

-----------------------------------------------------------------------------
(* What the daemon does once it has begun, and what it begins when an      *)
(* operator asks for it.                                                   *)
DaemonStep ==
  \/ NetworkApplyVerify \/ NetworkApplyUndo
  \/ ConfirmPrepare \/ ConfirmReady \/ ConfirmStore \/ ConfirmCall \/ ConfirmFinish
  \/ Recover \/ RecoverRollback \/ RecoverApply \/ RecoverStore \/ RecoverUndo
  \/ RecoverConfirm \/ RecoverFail \/ RecoverRestore \/ RecoverFinish
  \/ DaemonStart \/ StartApply \/ StartConfirm \/ StartUndo

NetworkNext ==
  \/ \E c \in Configs : NetworkApply(c)
  \/ NetworkRollback
  \/ NetworkConfirm
  \/ DaemonStep
  \/ DaemonCrash
  \/ ServiceRestart
  \/ DeadlinePasses
  \/ Expire
  \/ HelperCrash

NetworkSpec == NetworkInit /\ [][NetworkNext]_networkVars

(* Time passes, the helper's loop polls every second, and the service      *)
(* manager restarts a daemon that ended; no operator has to act.           *)
Fairness ==
  /\ WF_networkVars(DaemonStep)
  /\ WF_networkVars(DeadlinePasses)
  /\ WF_networkVars(Expire)

FairSpec == NetworkSpec /\ Fairness

-----------------------------------------------------------------------------
(* Types.  The bridge may be left half-way, the packet filter may not: its *)
(* table is replaced by one netlink transaction.                           *)
TypeOK ==
  /\ bridge \in Configs \cup {Partial}
  /\ rules \in Configs \cup {Absent}
  /\ {current, pending, target} \subseteq Configs \cup {None}
  /\ checkpoint \in Configs \cup {None, Partial}
  /\ due \in BOOLEAN /\ degraded \in BOOLEAN
  /\ stored.config \in Configs /\ stored.revision \in Nat
  /\ journal.state \in {None, "prepared", "ready"}
  /\ faults \in 0 .. Faults

Settled == dpc = "idle" /\ ~degraded /\ journal.state # "ready" /\ pending = None

(* Whenever nothing is under way, the bridge, the packet filter and the    *)
(* database hold one configuration, whatever was lost before.              *)
SettledIsConsistent ==
  Settled => bridge = stored.config /\ rules = stored.config

(* ... which crashes of the daemon, timeouts, lost requests and answers    *)
(* and refused transactions do not disturb while the helper lives and the  *)
(* kernel restores what it is asked to.                                    *)
ConsistentWhileHelperLives == intact => SettledIsConsistent

(* A pending configuration that the helper gives up unconfirmed, by        *)
(* request or at its deadline, leaves the bridge and the packet filter as  *)
(* they were when it was applied (jg_netd_rollback_network).               *)
RollbackRestoresPrior ==
  [][intact' /\ pending # None /\ pending' = None /\ current' # pending =>
       kernelVars' = prior]_networkVars

(* A ready journal entry outlives every crash until the operation or its   *)
(* recovery has brought the helper and the database to agree on one of its *)
(* two configurations.                                                     *)
JournalEndsInAgreement ==
  [][intact /\ journal.state = "ready" /\ journal' = NoJournal =>
       /\ stored.config \in {journal.previous, journal.replacement}
       /\ current = stored.config /\ pending = None]_networkVars

(* An unfinished transaction is given up only when it was confirmed, when  *)
(* the captured bridge is back, or when the helper itself ends.            *)
CheckpointIsKept ==
  [][pending # None /\ pending' = None =>
       \/ current' = pending
       \/ bridge' = checkpoint
       \/ current' = None]_networkVars

(* A provisional configuration is confirmed or rolled back whether or not  *)
(* an operator acts, and a daemon that cannot start while a transaction is *)
(* pending starts after it: again and again the daemon is idle with        *)
(* nothing pending in the helper.                                          *)
EventuallySettles == []<>(dpc = "idle" /\ pending = None)
=============================================================================
