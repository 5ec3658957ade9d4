---------------------------- MODULE SnapshotCell ----------------------------
(***************************************************************************)
(* What src/src/daemon/policy_store.h promises its callers: one cell that  *)
(* holds the published policy generation, readers that take the generation *)
(* published at one instant and keep it until they release it, and a       *)
(* publisher that gives a superseded generation back only when no reader   *)
(* holds it any more, and publishes nothing else before that.              *)
(***************************************************************************)
EXTENDS Naturals

CONSTANT Readers

VARIABLES
  published,  \* the generation an acquisition returns
  held,       \* per reader, the generation it holds; 0 when it holds none
  draining    \* superseded generations that are not reclaimed yet

cellVars == <<published, held, draining>>

CellInit ==
  /\ published = 1
  /\ held = [r \in Readers |-> 0]
  /\ draining = {}

(* jg_policy_store_acquire, seen as one instant. *)
Take(r) ==
  /\ held[r] = 0
  /\ held' = [held EXCEPT ![r] = published]
  /\ UNCHANGED <<published, draining>>

(* jg_policy_store_release. *)
GiveBack(r) ==
  /\ held[r] # 0
  /\ held' = [held EXCEPT ![r] = 0]
  /\ UNCHANGED <<published, draining>>

(* The exchange inside jg_policy_store_replace. *)
Supersede ==
  /\ draining = {}
  /\ published' = published + 1
  /\ draining' = {published}
  /\ UNCHANGED held

(* The destruction that ends jg_policy_store_replace. *)
Reclaim(g) ==
  /\ g \in draining
  /\ \A r \in Readers : held[r] # g
  /\ draining' = draining \ {g}
  /\ UNCHANGED <<published, held>>

CellNext ==
  \/ \E r \in Readers : Take(r) \/ GiveBack(r)
  \/ Supersede
  \/ \E g \in draining : Reclaim(g)

CellSpec == CellInit /\ [][CellNext]_cellVars
=============================================================================
