---------------------------- MODULE DataplaneWorker ----------------------------
(* One packet worker with its trackers (jg_dataplane_worker_process): a        *)
(* fragment goes to the fragment tracker, a segment of a watched port to a     *)
(* stream tracker.  The segment of a completed datagram is a segment like any  *)
(* other, so the trackers are looked at one at a time.                         *)
EXTENDS StreamTracker, FragmentTracker

VARIABLE input     \* whether the packets are "segments" or "fragments"

workerVars == <<vars, fragmentVars, input>>

WorkerInit ==
  /\ Init /\ FragmentInit
  /\ \/ input = "segments"
     \/ /\ input = "fragments"
        /\ protocol = (CHOOSE p \in Protocols : TRUE)
        /\ \A k \in Keys : conn[k].stream = (CHOOSE s \in Streams[k] : TRUE)

(* jg_dataplane_worker_process *)
Process ==
  /\ \/ input = "segments" /\ Next /\ UNCHANGED fragmentVars
     \/ input = "fragments" /\ FragmentNext /\ UNCHANGED vars
  /\ UNCHANGED input

WorkerSpec == WorkerInit /\ [][Process]_workerVars
================================================================================
