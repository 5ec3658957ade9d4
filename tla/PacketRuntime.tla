---------------------------- MODULE PacketRuntime ----------------------------
(***************************************************************************)
(* The runtime of janusgated: the life of its threads (Daemon) and the     *)
(* policy store that the packet workers and the reloading threads share    *)
(* (PolicyStore).  The two meet in one assumption: the store's steps are   *)
(* those of threads that live while the store does, which is what          *)
(* ThreadsHoldWhatTheyUse of Daemon says.  So each is followed while the   *)
(* other rests: the store while main() waits and nothing reaches the       *)
(* daemon, the daemon from its start to its end with no reload under way.  *)
(***************************************************************************)
EXTENDS PolicyStore, Daemon

VARIABLE followed  \* which of the two moves

runtimeVars == <<followed, vars, daemonVars>>

(* The daemon when jg_daemon_runtime_wait blocks and nobody asks anything.    *)
Serving ==
  /\ main = "wait" /\ starting = QueueCount + 1 /\ stage = 1 /\ status = 0
  /\ held = {Created[i] : i \in 1 .. Len(Created)} \cup {"server"}
  /\ freed = {} /\ asked = {}
  /\ thread = [t \in AllThreads |-> "running"]
  /\ failed = {}
  /\ stop = FALSE /\ groupJoined = FALSE /\ controlStop = FALSE
  /\ term = FALSE /\ wake = FALSE
  /\ queue = NoPackets
  /\ serving = "nobody" /\ pending = "none"
  /\ faults = 0 /\ requests = 0

RuntimeInit ==
  /\ Init
  /\ \/ followed = "store" /\ Serving
     \/ followed = "daemon" /\ DaemonInit /\ current = CHOOSE a \in Addresses : TRUE

RuntimeNext ==
  /\ UNCHANGED followed
  /\ \/ followed = "store" /\ Next /\ UNCHANGED daemonVars
     \/ followed = "daemon" /\ DaemonNext /\ UNCHANGED vars

(* The part that rests has no fair step enabled: no reader or writer is under *)
(* way in Init, and no thread has anything to do in Serving.                  *)
RuntimeSpec == RuntimeInit /\ [][RuntimeNext]_runtimeVars /\ Fairness /\ DaemonFairness
===============================================================================
