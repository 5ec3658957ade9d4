---------------------------- MODULE PolicyHistory ----------------------------
(***************************************************************************)
(* The statistics tables of the policy (database_policy_stats.c,           *)
(* database_policy_retention.c and the triggers of schema version 20 in    *)
(* database.c) as operators on a record h:                                 *)
(*                                                                         *)
(*   lifetime   rows of policy_rule_stats, one per dimension and identity, *)
(*   impact     rows of policy_impact_buckets, one per hour, identity,     *)
(*              path, client and name,                                     *)
(*   traffic    rows of policy_traffic_buckets,                            *)
(*   rows       policy_statistics_storage.detail_rows,                     *)
(*   hourly     policy_statistics_rule_hour_budget, a bag of its keys,     *)
(*   names      policy_statistics_domain_budget, a bag of its keys.        *)
(*                                                                         *)
(* The counts in the rows are left out; "meanings" is a history variable   *)
(* of a lifetime row, what the rules meant whose matches it has counted.   *)
(* An empty name is the empty sequence.                                    *)
(***************************************************************************)
EXTENDS Naturals, Sequences, FiniteSets, Bags, FiniteSetsExt, SequencesExt

NoHistory ==
  [lifetime |-> {}, impact |-> {}, traffic |-> {},
   rows |-> 0, hourly |-> EmptyBag, names |-> EmptyBag]

-----------------------------------------------------------------------------
(* Keys *)

ImpactKey(row) == [row EXCEPT !.rule = 0]

HourKey(row) == [hour |-> row.hour, dimension |-> row.dimension, sid |-> row.sid]

NameKey(row) ==
  [hour |-> row.hour, dimension |-> row.dimension, sid |-> row.sid, domain |-> row.domain]

(* What a budget counts for a key; a key without rows is not in the bag. *)
Copies(key, budget) == IF BagIn(key, budget) THEN budget[key] ELSE 0

NameKeysOf(row) == IF row.domain = <<>> THEN EmptyBag ELSE SetToBag({NameKey(row)})

-----------------------------------------------------------------------------
(* Triggers *)

(* policy_impact_cardinality_guard: a row that is new must fit. *)
Fits(h, config, row) ==
  /\ h.rows < config.rows
  /\ Copies(HourKey(row), h.hourly) < config.perHour
  /\ \/ row.domain = <<>>
     \/ BagIn(NameKey(row), h.names)
     \/ Cardinality({k \in BagToSet(h.names) :
           [hour |-> k.hour, dimension |-> k.dimension, sid |-> k.sid] = HourKey(row)})
          < config.domains

(* policy_impact_count_insert *)
CountInsert(h, row) ==
  [h EXCEPT !.impact = @ \cup {row}, !.rows = @ + 1,
            !.hourly = @ (+) SetToBag({HourKey(row)}),
            !.names = @ (+) NameKeysOf(row)]

(* Mutant: the budget of names is not given back. *)
CountDeleteKeepingNames(h, row) ==
  [h EXCEPT !.impact = @ \ {row}, !.rows = IF @ = 0 THEN 0 ELSE @ - 1,
            !.hourly = @ (-) SetToBag({HourKey(row)})]

(* policy_impact_count_delete *)
CountDelete(h, row) ==
  [h EXCEPT !.impact = @ \ {row}, !.rows = IF @ = 0 THEN 0 ELSE @ - 1,
            !.hourly = @ (-) SetToBag({HourKey(row)}),
            !.names = @ (-) NameKeysOf(row)]

DeleteImpact(h, rows) == FoldSet(LAMBDA row, rest : CountDelete(rest, row), h, rows)

-----------------------------------------------------------------------------
(* jg_database_record_policy_stats *)

ImpactRow(sample) ==
  [hour |-> sample.hour, dimension |-> sample.dimension, sid |-> sample.sid,
   rule |-> sample.rule, path |-> sample.path, client |-> sample.client,
   domain |-> sample.domain]

(* What the rules meant that lifetime rows have counted *)
Meant(lifetime) == UNION {r.meanings : r \in lifetime}

(* The upsert of one rule's lifetime row takes the rule's identifier. *)
RecordLifetime(h, sample) ==
  LET same == {r \in h.lifetime : r.dimension = sample.dimension /\ r.sid = sample.sid}
      meanings == Meant(same) \cup {sample.meaning}
  IN  [h EXCEPT !.lifetime = (@ \ same) \cup
         {[dimension |-> sample.dimension, sid |-> sample.sid, rule |-> sample.rule,
           meanings |-> meanings]}]

(* A row that is there is only counted up and takes the rule's identifier; *)
(* a new one has to fit.                                                   *)
RecordImpact(h, config, sample) ==
  LET row == ImpactRow(sample)
      same == {r \in h.impact : ImpactKey(r) = ImpactKey(row)}
  IN  IF same # {} THEN [h EXCEPT !.impact = (@ \ same) \cup {row}]
      ELSE IF Fits(h, config, row) THEN CountInsert(h, row)
      ELSE h

(* One request with the samples of its rules in turn; the detail is        *)
(* written only when it is enabled and the storage is not full.            *)
RecordStats(h, config, full, request, samples) ==
  LET detail == config.detail /\ ~full
      counted == [h EXCEPT !.traffic = IF detail THEN @ \cup {request} ELSE @]
      Write(rest, sample) ==
        IF detail THEN RecordImpact(RecordLifetime(rest, sample), config, sample)
        ELSE RecordLifetime(rest, sample)
  IN  FoldLeft(Write, counted, samples)

-----------------------------------------------------------------------------
(* Rules that are deleted or replaced *)

(* delete_rule_statistics *)
DeleteRuleStatistics(h, dimension, sid) ==
  DeleteImpact([h EXCEPT !.lifetime = {r \in @ : r.dimension # dimension \/ r.sid # sid}],
               {r \in h.impact : r.dimension = dimension /\ r.sid = sid})

(* The end of a list's activation or deletion: the statistics of domain    *)
(* rules follow the identity to its new row, those without a rule go.      *)
FollowDomainRules(h, rules) ==
  LET Lost(r) == r.dimension = "domain" /\ ~\E d \in rules : d.sid = r.sid
      Moved(r) == IF r.dimension # "domain" THEN r
                  ELSE [r EXCEPT !.rule = (CHOOSE d \in rules : d.sid = r.sid).id]
      kept == DeleteImpact(h, {r \in h.impact : Lost(r)})
  IN  [kept EXCEPT !.lifetime = {Moved(r) : r \in {l \in @ : ~Lost(l)}},
                   !.impact = {Moved(r) : r \in @}]

-----------------------------------------------------------------------------
(* Retention *)

(* retention_cutoff *)
Cutoff(now, config) == IF now > config.keep THEN now - config.keep ELSE 0

Expired(rows, cutoff) == {r \in rows : r.hour < cutoff}

(* delete_expired: the oldest rows, "limit" of them at the most *)
OldestExpired(rows, cutoff, limit) ==
  LET expired == Expired(rows, cutoff)
  IN  {batch \in SUBSET expired :
         /\ Cardinality(batch) = Min({limit, Cardinality(expired)})
         /\ \A r \in batch, other \in expired \ batch : r.hour <= other.hour}

(* jg_database_cleanup_policy_stats: what one batch may leave.  Impact     *)
(* rows go first, traffic rows with what is left of the batch.             *)
CleanedUp(h, now, config, limit) ==
  LET cutoff == Cutoff(now, config)
  IN  UNION {
        {[DeleteImpact(h, rows) EXCEPT !.traffic = @ \ requests] :
           requests \in OldestExpired(h.traffic, cutoff, limit - Cardinality(rows))} :
        rows \in OldestExpired(h.impact, cutoff, limit)}

-----------------------------------------------------------------------------
(* Readers *)

(* What the readers show for a rule: lifetime rows are found by the rule's *)
(* identifier (jg_database_list_policy_rule_stats, load_lifetime_stats).   *)
LifetimeOf(h, dimension, rule) ==
  {r \in h.lifetime : r.dimension = dimension /\ r.rule = rule}
=============================================================================
