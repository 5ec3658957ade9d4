---------------------------- MODULE PolicyStore -----------------------------
(***************************************************************************)
(* The hazard-pointer store of immutable policy snapshots                  *)
(* (src/src/daemon/policy_store.c) with the two reload paths of            *)
(* src/src/daemon/daemon_runtime.c that write it.  Every access to         *)
(* store->current and to a reader slot is memory_order_seq_cst, so a step  *)
(* is one such access and the steps of the threads interleave.             *)
(*                                                                         *)
(* A snapshot is an address of the heap.  Addresses are reused after       *)
(* jg_policy_snapshot_destroy, as malloc may do, so the comparison of two  *)
(* pointers in jg_policy_store_acquire can meet an address that was freed  *)
(* and allocated again in between.                                         *)
(***************************************************************************)
EXTENDS Naturals

CONSTANTS
  ReaderCount,    \* store->reader_count: the packet workers and one manager
  Writers,        \* threads that reload policy
  Addresses,      \* heap addresses a snapshot may have
  MaxGeneration,  \* UINT64_MAX, the last value of policy_generation
  NULL

ASSUME ReaderAssumption == ReaderCount \in Nat \ {0}
ASSUME GenerationAssumption == MaxGeneration \in Nat \ {0}
ASSUME NullAssumption == NULL \notin Addresses /\ NULL \notin Writers

VARIABLES
  heap,        \* generation of the snapshot at an address, 0 when it is free
  current,     \* store->current
  hazard,      \* store->readers[i].snapshot
  rpc,         \* where a reader is in acquire .. release
  snap,        \* a reader's local copy of the pointer
  seen,        \* generation a reader evaluated with most recently
  generation,  \* runtime->policy_generation
  mutex,       \* owner of runtime->policy_mutex
  wpc,         \* where a writer is in its reload
  replacement, \* a writer's freshly loaded snapshot
  previous,    \* the snapshot a writer took out of store->current
  index        \* a writer's position in the scan of the reader slots

readerVars == <<hazard, rpc, snap, seen>>
writerVars == <<mutex, wpc, replacement, previous, index>>
vars == <<heap, current, generation, readerVars, writerVars>>

Slots == 0 .. (ReaderCount - 1)

TypeOK ==
  /\ heap \in [Addresses -> 0 .. MaxGeneration]
  /\ current \in Addresses
  /\ hazard \in [Slots -> Addresses \cup {NULL}]
  /\ rpc \in [Slots -> {"idle", "retry", "loaded", "guarded", "reading"}]
  /\ snap \in [Slots -> Addresses \cup {NULL}]
  /\ seen \in [Slots -> 0 .. MaxGeneration]
  /\ generation \in 1 .. MaxGeneration
  /\ mutex \in Writers \cup {NULL}
  /\ wpc \in [Writers -> {"idle", "load", "exchange", "scan", "store", "unlock"}]
  /\ replacement \in [Writers -> Addresses \cup {NULL}]
  /\ previous \in [Writers -> Addresses \cup {NULL}]
  /\ index \in [Writers -> 0 .. ReaderCount]

(* jg_policy_store_create on the snapshot of generation 1. *)
Init ==
  /\ current \in Addresses
  /\ heap = [a \in Addresses |-> IF a = current THEN 1 ELSE 0]
  /\ hazard = [i \in Slots |-> NULL]
  /\ rpc = [i \in Slots |-> "idle"]
  /\ snap = [i \in Slots |-> NULL]
  /\ seen = [i \in Slots |-> 0]
  /\ generation = 1
  /\ mutex = NULL
  /\ wpc = [w \in Writers |-> "idle"]
  /\ replacement = [w \in Writers |-> NULL]
  /\ previous = [w \in Writers |-> NULL]
  /\ index = [w \in Writers |-> 0]

-----------------------------------------------------------------------------
(* Readers: jg_policy_store_acquire, one evaluation, jg_policy_store_release *)

AcquireLoad(i) ==
  /\ rpc[i] \in {"idle", "retry"}
  /\ snap' = [snap EXCEPT ![i] = current]
  /\ rpc' = [rpc EXCEPT ![i] = "loaded"]
  /\ UNCHANGED <<heap, current, generation, hazard, seen, writerVars>>

AcquireGuard(i) ==
  /\ rpc[i] = "loaded"
  /\ hazard' = [hazard EXCEPT ![i] = snap[i]]
  /\ rpc' = [rpc EXCEPT ![i] = "guarded"]
  /\ UNCHANGED <<heap, current, generation, snap, seen, writerVars>>

(* Mutant: the loop condition is not evaluated. *)
AcquireCheckTrusting(i) ==
  /\ rpc[i] = "guarded"
  /\ rpc' = [rpc EXCEPT ![i] = "reading"]
  /\ seen' = [seen EXCEPT ![i] = heap[snap[i]]]
  /\ UNCHANGED <<heap, current, generation, hazard, snap, writerVars>>

(* The condition of the do-while loop. *)
AcquireCheck(i) ==
  /\ rpc[i] = "guarded"
  /\ \/ /\ snap[i] = current
        /\ rpc' = [rpc EXCEPT ![i] = "reading"]
        /\ seen' = [seen EXCEPT ![i] = heap[snap[i]]]
     \/ /\ snap[i] # current
        /\ rpc' = [rpc EXCEPT ![i] = "retry"]
        /\ UNCHANGED seen
  /\ UNCHANGED <<heap, current, generation, hazard, snap, writerVars>>

(* Mutant: the slot keeps its pointer. *)
ReleaseKeepsSlot(i) ==
  /\ rpc[i] = "reading"
  /\ snap' = [snap EXCEPT ![i] = NULL]
  /\ rpc' = [rpc EXCEPT ![i] = "idle"]
  /\ UNCHANGED <<heap, current, generation, hazard, seen, writerVars>>

(* The caller's pointer goes out of scope with the slot. *)
Release(i) ==
  /\ rpc[i] = "reading"
  /\ hazard' = [hazard EXCEPT ![i] = NULL]
  /\ snap' = [snap EXCEPT ![i] = NULL]
  /\ rpc' = [rpc EXCEPT ![i] = "idle"]
  /\ UNCHANGED <<heap, current, generation, seen, writerVars>>

-----------------------------------------------------------------------------
(* Writers: a reload under policy_mutex *)

ReloadLock(w) ==
  /\ wpc[w] = "idle"
  /\ mutex = NULL
  /\ mutex' = w
  /\ wpc' = [wpc EXCEPT ![w] = "load"]
  /\ UNCHANGED <<heap, current, generation, readerVars,
                 replacement, previous, index>>

(* jg_database_load_policy_snapshot at the next generation. *)
ReloadLoad(w) ==
  /\ wpc[w] = "load"
  /\ generation < MaxGeneration
  /\ \E a \in Addresses :
       /\ heap[a] = 0
       /\ heap' = [heap EXCEPT ![a] = generation + 1]
       /\ replacement' = [replacement EXCEPT ![w] = a]
  /\ wpc' = [wpc EXCEPT ![w] = "exchange"]
  /\ UNCHANGED <<current, generation, readerVars, mutex, previous, index>>

(* -EOVERFLOW at the last generation, or a load that failed and left nothing. *)
ReloadFail(w) ==
  /\ wpc[w] = "load"
  /\ wpc' = [wpc EXCEPT ![w] = "unlock"]
  /\ UNCHANGED <<heap, current, generation, readerVars,
                 mutex, replacement, previous, index>>

(* The atomic exchange of jg_policy_store_replace.  ReplacementIsPrivate   *)
(* shows that its -EALREADY return before the exchange cannot happen.      *)
ReplaceExchange(w) ==
  /\ wpc[w] = "exchange"
  /\ current # replacement[w]
  /\ previous' = [previous EXCEPT ![w] = current]
  /\ current' = replacement[w]
  /\ index' = [index EXCEPT ![w] = 0]
  /\ wpc' = [wpc EXCEPT ![w] = "scan"]
  /\ UNCHANGED <<heap, generation, readerVars, mutex, replacement>>

(* Mutant: wait_for_readers tests the slots once and does not loop. *)
ReplaceScanOnce(w) ==
  /\ wpc[w] = "scan"
  /\ index[w] < ReaderCount
  /\ index' = [index EXCEPT ![w] =
                 IF hazard[index[w]] = previous[w] THEN ReaderCount ELSE index[w] + 1]
  /\ UNCHANGED <<heap, current, generation, readerVars,
                 mutex, wpc, replacement, previous>>

(* One load of snapshot_in_use; a match ends the pass, and wait_for_readers *)
(* yields and starts the next one.                                          *)
ReplaceScan(w) ==
  /\ wpc[w] = "scan"
  /\ index[w] < ReaderCount
  /\ index' = [index EXCEPT ![w] =
                 IF hazard[index[w]] = previous[w] THEN 0 ELSE index[w] + 1]
  /\ UNCHANGED <<heap, current, generation, readerVars,
                 mutex, wpc, replacement, previous>>

(* wait_for_readers returned: jg_policy_snapshot_destroy(previous). *)
ReplaceDestroy(w) ==
  /\ wpc[w] = "scan"
  /\ index[w] = ReaderCount
  /\ heap' = [heap EXCEPT ![previous[w]] = 0]
  /\ wpc' = [wpc EXCEPT ![w] = "store"]
  /\ UNCHANGED <<current, generation, readerVars,
                 mutex, replacement, previous, index>>

ReloadStore(w) ==
  /\ wpc[w] = "store"
  /\ generation' = generation + 1
  /\ wpc' = [wpc EXCEPT ![w] = "unlock"]
  /\ UNCHANGED <<heap, current, readerVars, mutex, replacement, previous, index>>

(* The writer's locals go out of scope. *)
ReloadUnlock(w) ==
  /\ wpc[w] = "unlock"
  /\ mutex' = NULL
  /\ wpc' = [wpc EXCEPT ![w] = "idle"]
  /\ replacement' = [replacement EXCEPT ![w] = NULL]
  /\ previous' = [previous EXCEPT ![w] = NULL]
  /\ index' = [index EXCEPT ![w] = 0]
  /\ UNCHANGED <<heap, current, generation, readerVars>>

-----------------------------------------------------------------------------
ReaderStep(i) ==
  \/ AcquireLoad(i)
  \/ AcquireGuard(i)
  \/ AcquireCheck(i)
  \/ Release(i)

WriterStep(w) ==
  \/ ReloadLock(w)
  \/ ReloadLoad(w)
  \/ ReloadFail(w)
  \/ ReplaceExchange(w)
  \/ ReplaceScan(w)
  \/ ReplaceDestroy(w)
  \/ ReloadStore(w)
  \/ ReloadUnlock(w)

Next ==
  \/ \E i \in Slots : ReaderStep(i)
  \/ \E w \in Writers : WriterStep(w)

Spec == Init /\ [][Next]_vars

(* The kernel runs every thread that can run.  A packet may never come, so *)
(* nothing makes an idle reader start; a reader that has started goes on   *)
(* until it has released its slot, and a writer until it has unlocked.     *)
Fairness ==
  /\ \A i \in Slots : WF_vars(rpc[i] # "idle" /\ ReaderStep(i))
  /\ \A w \in Writers : WF_vars(wpc[w] # "idle" /\ WriterStep(w))

FairSpec == Spec /\ Fairness

-----------------------------------------------------------------------------
(* No use after free: the snapshot a reader evaluates with is the one it   *)
(* validated in jg_policy_store_acquire, still allocated and unchanged,    *)
(* whatever reloads ran since.                                             *)
ReadersSeeStableSnapshot ==
  \A i \in Slots :
    rpc[i] = "reading" => /\ heap[snap[i]] # 0
                          /\ heap[snap[i]] = seen[i]

(* A freshly loaded snapshot belongs to its writer alone until the         *)
(* exchange: it is not published and no reader slot evaluates it, so       *)
(* jg_policy_store_replace never returns -EALREADY and the destroy on its  *)
(* failure path never frees the published snapshot.                        *)
ReplacementIsPrivate ==
  \A w \in Writers :
    wpc[w] = "exchange" =>
      /\ replacement[w] # current
      /\ heap[replacement[w]] = generation + 1
      /\ \A i \in Slots : rpc[i] = "reading" => snap[i] # replacement[w]

(* Nothing leaks: when no reload is under way exactly one snapshot is      *)
(* allocated, the published one, and its generation is policy_generation.  *)
OneSnapshotAtRest ==
  (\A w \in Writers : wpc[w] = "idle") =>
    \A a \in Addresses : heap[a] = (IF a = current THEN generation ELSE 0)

(* A reader never goes back to an older policy, although the address that  *)
(* it loads may be one that it has used before.                            *)
GenerationsNeverGoBack ==
  [][\A i \in Slots : seen'[i] >= seen[i]]_seen

(* jg_policy_store_replace returns: readers that keep acquiring cannot     *)
(* hold the writer in wait_for_readers for ever.                           *)
ReplaceTerminates ==
  \A w \in Writers : wpc[w] = "scan" ~> wpc[w] = "idle"

(* The store implements the abstract cell. *)
Cell == INSTANCE SnapshotCell WITH
  Readers <- Slots,
  published <- heap[current],
  held <- [i \in Slots |-> IF rpc[i] = "reading" THEN heap[snap[i]] ELSE 0],
  draining <- {heap[previous[w]] : w \in {v \in Writers : wpc[v] = "scan"}}

(* Every step of the store is a step of SnapshotCell: an acquisition takes *)
(* the generation published at one instant of the loop in                  *)
(* jg_policy_store_acquire, and jg_policy_store_replace gives a generation *)
(* back only when no reader holds it.                                      *)
ImplementsCell == Cell!CellSpec
=============================================================================
