----------------------------- MODULE PolicyRows -----------------------------
(***************************************************************************)
(* The stored policy and what happens to it: domain and destination rules, *)
(* groups, blocklist sources, observed scopes and the global mode          *)
(* (database_policy*.c, database_blocklist.c), the management handlers     *)
(* that change them and publish the change (management_policy*.c,          *)
(* management_blocklist.c), and the statistics of the decisions that the   *)
(* published snapshot takes.                                               *)
(*                                                                         *)
(* A mutation changes its rows, builds a snapshot of the changed rows and  *)
(* commits either way; when the snapshot could not be published the old    *)
(* one stays active and "suspended" refuses further mutations.  The        *)
(* revisions of the rows are in PolicyManagement; names, descriptions,     *)
(* attributions and the audit are left out here.                           *)
(*                                                                         *)
(* An identity (statistics_id) is a random one, told apart by its serial   *)
(* number, or the hash of a source and a name.                             *)
(***************************************************************************)
EXTENDS PolicyAnalysis, PolicyHistory

CONSTANTS
  Scenarios,             \* stored policies to start from, each with its bounds
  DomainRequests,        \* bodies of requests for domain rules
  DestinationRequests,   \* bodies of requests for destination rules
  GroupConfigs,          \* configurations of groups and of sources
  ModeConfigs,           \* configurations of observed scopes
  ListContents,          \* names a download of a source may hold
  StatsConfigs,          \* configurations of the statistics
  Clients, Names, Destinations,  \* what a decision may be about
  Requests,              \* the requests that are counted
  CleanupBatch,          \* rows that one batch of the retention deletes
  MaxHour                \* bound: the last hour

VARIABLES
  rows,        \* the tables of the policy
  history,     \* the tables of the statistics
  active,      \* the published snapshot
  suspended,   \* the last publication failed, mutations are refused
  now,         \* the hour
  bounds       \* steps and failures left, identities given out, sizes of tables

vars == <<rows, history, active, suspended, now, bounds>>

-----------------------------------------------------------------------------
(* Rows *)

RandomIdentity(serial) == [list |-> 0, name |-> <<>>, serial |-> serial]
ListIdentity(list, name) == [list |-> list, name |-> name, serial |-> 0]

(* INTEGER PRIMARY KEY: one more than the greatest in use *)
NextRowId(table) == Max({0} \cup {row.id : row \in table}) + 1

RowOf(table, id) == CHOOSE row \in table : row.id = id
HasRow(table, id) == \E row \in table : row.id = id
Without(table, id) == {row \in table : row.id # id}

(* A domain rule as the request and the store have it, normalized *)
DomainRow(id, sid, request) ==
  [id |-> id, sid |-> sid, list |-> 0, source |-> "explicit",
   group |-> request.group, enabled |-> request.enabled,
   domain |-> request.domain, subdomains |-> request.subdomains,
   effect |-> request.effect, enforcement |-> request.enforcement,
   target |-> request.target, scope |-> ScopeNormalize(request.scope)]

DestinationRow(id, sid, request) ==
  [id |-> id, sid |-> sid, source |-> "explicit",
   group |-> request.group, enabled |-> request.enabled,
   effect |-> request.effect, enforcement |-> request.enforcement,
   transport |-> request.transport, port |-> request.port,
   net |-> {AddressNormalize(n) : n \in request.net},
   scope |-> ScopeNormalize(request.scope)]

(* insert_blocklist_entry *)
EntryRow(id, sid, list, name) ==
  [id |-> id, sid |-> sid, list |-> list, source |-> "blocklist",
   group |-> 0, enabled |-> TRUE, domain |-> name, subdomains |-> TRUE,
   effect |-> "block", enforcement |-> "enforce", target |-> "dns", scope |-> Global]

(* What a rule means to a request, as far as its identity is concerned *)
DomainMeaning(rule) ==
  [domain |-> rule.domain, subdomains |-> rule.subdomains, effect |-> rule.effect,
   source |-> rule.source, target |-> rule.target, scope |-> rule.scope]

DestinationMeaning(rule) ==
  [effect |-> rule.effect, source |-> rule.source, transport |-> rule.transport,
   port |-> rule.port, net |-> rule.net, scope |-> rule.scope]

DomainSemanticsEqual(a, b) == DomainMeaning(a) = DomainMeaning(b) /\ a.group = b.group

DestinationSemanticsEqual(a, b) ==
  DestinationMeaning(a) = DestinationMeaning(b) /\ a.group = b.group

-----------------------------------------------------------------------------
(* Loading: jg_database_load_policy_snapshot *)

InEnabledGroup(r, rule) == rule.group = 0 \/ RowOf(r.groups, rule.group).enabled

GroupObserves(r, rule) ==
  rule.group # 0 /\ RowOf(r.groups, rule.group).enforcement = "observe"

ListObserves(r, rule) ==
  rule.list # 0 /\ RowOf(r.lists, rule.list).enforcement = "observe"

(* read_domain_rules: any layer that observes makes the rule observe. *)
LoadedRule(r, rule) ==
  [id |-> rule.id, sid |-> rule.sid, domain |-> rule.domain,
   subdomains |-> rule.subdomains, effect |-> rule.effect, source |-> rule.source,
   target |-> rule.target, scope |-> rule.scope,
   enforcement |-> IF rule.enforcement = "observe" \/ ListObserves(r, rule)
                      \/ GroupObserves(r, rule)
                   THEN "observe" ELSE "enforce"]

LoadsRule(r, rule) ==
  /\ rule.enabled /\ InEnabledGroup(r, rule)
  /\ rule.source # "blocklist" \/ rule.list = 0 \/ RowOf(r.lists, rule.list).enabled

(* read_destination_rules *)
LoadedDestination(r, rule) ==
  [id |-> rule.id, sid |-> rule.sid, effect |-> rule.effect, source |-> rule.source,
   transport |-> rule.transport, port |-> rule.port, net |-> rule.net,
   scope |-> rule.scope,
   enforcement |-> IF rule.enforcement = "observe" \/ GroupObserves(r, rule)
                   THEN "observe" ELSE "enforce"]

LoadsDestination(r, rule) == rule.enabled /\ InEnabledGroup(r, rule)

(* read_policy_enforcement *)
ObservedScopes(r) ==
  {m.scope : m \in {s \in r.modes : s.enabled /\ s.enforcement = "observe"}}

Loaded(r) ==
  [rules |-> {LoadedRule(r, d) : d \in {x \in r.rules : LoadsRule(r, x)}},
   destinations |-> {LoadedDestination(r, d) :
                       d \in {x \in r.destinations : LoadsDestination(r, x)}},
   global |-> r.global,
   scopes |-> ObservedScopes(r)]

-----------------------------------------------------------------------------
(* What the columns of the tables may hold, and what requests may ask for  *)

IsScope(scope) ==
  \/ scope = Global
  \/ scope \in [type : {"mac", "vlan"} \cup Networks, key : Nat, prefix : Nat]

IsNet(n) == n \in [family : Networks, key : Nat, prefix : Nat]

Decides(rule) ==
  /\ rule.effect \in {"allow", "block"} /\ rule.enforcement \in {"enforce", "observe"}
  /\ rule.enabled \in BOOLEAN /\ IsScope(rule.scope)

AsksForNames(rule) == IsName(rule.domain) /\ rule.subdomains \in BOOLEAN

AsksForDestinations(rule) ==
  /\ rule.port \in Nat
  /\ rule.net = {} \/ \E n \in rule.net : rule.net = {n} /\ IsNet(n)

StoredDomainRule(row) ==
  /\ row = [id |-> row.id, sid |-> row.sid, list |-> row.list, source |-> row.source,
            group |-> row.group, enabled |-> row.enabled, domain |-> row.domain,
            subdomains |-> row.subdomains, effect |-> row.effect,
            enforcement |-> row.enforcement, target |-> row.target, scope |-> row.scope]
  /\ row.id \in Nat \ {0} /\ Decides(row) /\ AsksForNames(row)
  /\ ScopeNormalize(row.scope) = row.scope

StoredDestinationRule(row) ==
  /\ row = [id |-> row.id, sid |-> row.sid, source |-> row.source, group |-> row.group,
            enabled |-> row.enabled, effect |-> row.effect, enforcement |-> row.enforcement,
            transport |-> row.transport, port |-> row.port, net |-> row.net,
            scope |-> row.scope]
  /\ row.id \in Nat \ {0} /\ Decides(row) /\ AsksForDestinations(row)
  /\ ScopeNormalize(row.scope) = row.scope
  /\ {AddressNormalize(n) : n \in row.net} = row.net

IsTable(table) == IsFiniteSet(table) /\ \A a, b \in table : a.id = b.id => a = b

StoredPolicy(r) ==
  /\ r = [rules |-> r.rules, destinations |-> r.destinations, groups |-> r.groups,
          lists |-> r.lists, modes |-> r.modes, global |-> r.global, config |-> r.config]
  /\ IsTable(r.rules) /\ \A row \in r.rules : StoredDomainRule(row)
  /\ IsTable(r.destinations) /\ \A row \in r.destinations : StoredDestinationRule(row)
  /\ r.global \in {"enforce", "observe"}

ASSUME PolicyAssumption ==
  /\ \A s \in Scenarios : StoredPolicy(s.rows) /\ BuildAccepts(Loaded(s.rows))
  /\ \A q \in DomainRequests : Decides(q) /\ AsksForNames(q)
  /\ \A q \in DestinationRequests : Decides(q) /\ AsksForDestinations(q)
  /\ \A names \in ListContents :
       names \in Seq(Range(names)) /\ \A i \in DOMAIN names : IsName(names[i])
  /\ \A name \in Names : IsName(name)

(* The columns statistics_id are UNIQUE, an entry of a source was written  *)
(* by its activation, and a source has a name once (its packed entries are *)
(* sorted and unique, and stage_blocklist_rule_identities insists).  An    *)
(* identity was given out at random or is the hash of the entry.           *)
GivenOut(sid, serial) == \E k \in 0 .. serial - 1 : sid = RandomIdentity(k)

RuleIdentities(rules, serial) ==
  /\ \A a, b \in rules : a.sid = b.sid => a = b
  /\ \A a, b \in rules : a.list # 0 /\ a.list = b.list /\ a.domain = b.domain => a = b
  /\ \A d \in rules : d.list # 0 => d = EntryRow(d.id, d.sid, d.list, d.domain)
  /\ \A d \in rules : \/ GivenOut(d.sid, serial)
                      \/ d.list # 0 /\ d.sid = ListIdentity(d.list, d.domain)

DestinationIdentities(destinations, serial) ==
  /\ \A a, b \in destinations : a.sid = b.sid => a = b
  /\ \A d \in destinations : GivenOut(d.sid, serial)

StoredIdentities(r, serial) ==
  /\ serial \in Nat
  /\ RuleIdentities(r.rules, serial) /\ DestinationIdentities(r.destinations, serial)
  /\ IsTable(r.lists) /\ \A list \in r.lists : list.id \in Nat \ {0}

ASSUME IdentityAssumption ==
  /\ \A s \in Scenarios : StoredIdentities(s.rows, s.serial)
  /\ \A names \in ListContents : IsInjective(names)
  /\ \A q \in Requests : IsName(q.name)

-----------------------------------------------------------------------------
(* A scenario is a stored policy that was published. *)

Init ==
  \E s \in Scenarios :
    /\ rows = s.rows
    /\ active = Build(Loaded(s.rows))
    /\ bounds = [steps |-> s.steps, failures |-> s.failures, serial |-> s.serial,
                 room |-> s.room]
    /\ history = NoHistory
    /\ suspended = FALSE
    /\ now = 0

Step == bounds.steps > 0
Spend == bounds' = [bounds EXCEPT !.steps = @ - 1]

(* management_publish_policy_change at the end of a mutation: the rows are *)
(* committed, published or not.  A snapshot that could be built may still  *)
(* not be published, for want of memory for example.                       *)
Publish(r, h, identities) ==
  /\ rows' = r /\ history' = h
  /\ LET left == [bounds EXCEPT !.steps = @ - 1, !.serial = @ + identities]
     IN  \/ /\ BuildAccepts(Loaded(r))
            /\ active' = Build(Loaded(r))
            /\ suspended' = FALSE
            /\ bounds' = left
         \/ /\ ~BuildAccepts(Loaded(r))
            /\ suspended' = TRUE
            /\ bounds' = left
            /\ UNCHANGED active
         \/ /\ BuildAccepts(Loaded(r)) /\ bounds.failures > 0
            /\ suspended' = TRUE
            /\ bounds' = [left EXCEPT !.failures = @ - 1]
            /\ UNCHANGED active
  /\ UNCHANGED now

(* The dispatcher refuses mutations while the policy is inconsistent. *)
MayMutate == Step /\ ~suspended

(* Bound: no table grows past what the scenario has room for. *)
Room(table) == Cardinality(rows[table]) < bounds.room[table]

GroupExists(r, group) == group = 0 \/ HasRow(r.groups, group)

-----------------------------------------------------------------------------
(* Domain rules *)

(* jg_database_create_domain_rule *)
InsertedDomainRule(r, row) == [r EXCEPT !.rules = @ \cup {row}]

CreateDomainRule ==
  /\ MayMutate /\ Room("rules")
  /\ \E request \in DomainRequests :
       LET row == DomainRow(NextRowId(rows.rules), RandomIdentity(bounds.serial), request)
       IN  /\ GroupExists(rows, request.group)
           /\ DomainRuleValid(row)
           /\ Publish(InsertedDomainRule(rows, row), history, 1)

(* The row that jg_database_update_domain_rule writes *)
(* Mutant: a rule keeps its identity when its effect changes. *)
ReplacementDomainRuleSameIdentity(current, request, serial) ==
  DomainRow(current.id, current.sid, request)

ReplacementDomainRule(current, request, serial) ==
  LET kept == DomainRow(current.id, current.sid, request)
  IN  IF DomainSemanticsEqual(current, kept) THEN kept
      ELSE [kept EXCEPT !.sid = RandomIdentity(serial)]

UpdatedDomainRule(r, row) == [r EXCEPT !.rules = Without(@, row.id) \cup {row}]

UpdateDomainRule ==
  /\ MayMutate
  /\ \E current \in rows.rules, request \in DomainRequests :
       LET row == ReplacementDomainRule(current, request, bounds.serial)
       IN  /\ current.source = "explicit"
           /\ GroupExists(rows, request.group)
           /\ DomainRuleValid(row)
           /\ Publish(UpdatedDomainRule(rows, row),
                      IF row.sid = current.sid THEN history
                      ELSE DeleteRuleStatistics(history, "domain", current.sid),
                      IF row.sid = current.sid THEN 0 ELSE 1)

DeletedDomainRule(r, row) == [r EXCEPT !.rules = @ \ {row}]

DeleteDomainRule ==
  /\ MayMutate
  /\ \E row \in rows.rules :
       /\ row.source = "explicit"
       /\ Publish(DeletedDomainRule(rows, row),
                  DeleteRuleStatistics(history, "domain", row.sid), 0)

-----------------------------------------------------------------------------
(* Destination rules *)

InsertedDestinationRule(r, row) == [r EXCEPT !.destinations = @ \cup {row}]

CreateDestinationRule ==
  /\ MayMutate /\ Room("destinations")
  /\ \E request \in DestinationRequests :
       LET row == DestinationRow(NextRowId(rows.destinations),
                                 RandomIdentity(bounds.serial), request)
       IN  /\ GroupExists(rows, request.group)
           /\ DestinationRuleValid(row)
           /\ Publish(InsertedDestinationRule(rows, row), history, 1)

ReplacementDestinationRule(current, request, serial) ==
  LET kept == DestinationRow(current.id, current.sid, request)
  IN  IF DestinationSemanticsEqual(current, kept) THEN kept
      ELSE [kept EXCEPT !.sid = RandomIdentity(serial)]

UpdatedDestinationRule(r, row) ==
  [r EXCEPT !.destinations = Without(@, row.id) \cup {row}]

UpdateDestinationRule ==
  /\ MayMutate
  /\ \E current \in rows.destinations, request \in DestinationRequests :
       LET row == ReplacementDestinationRule(current, request, bounds.serial)
       IN  /\ current.source = "explicit"
           /\ GroupExists(rows, request.group)
           /\ DestinationRuleValid(row)
           /\ Publish(UpdatedDestinationRule(rows, row),
                      IF row.sid = current.sid THEN history
                      ELSE DeleteRuleStatistics(history, "destination", current.sid),
                      IF row.sid = current.sid THEN 0 ELSE 1)

DeletedDestinationRule(r, row) == [r EXCEPT !.destinations = @ \ {row}]

DeleteDestinationRule ==
  /\ MayMutate
  /\ \E row \in rows.destinations :
       /\ row.source = "explicit"
       /\ Publish(DeletedDestinationRule(rows, row),
                  DeleteRuleStatistics(history, "destination", row.sid), 0)

-----------------------------------------------------------------------------
(* Groups *)

GroupRow(id, config) ==
  [id |-> id, enabled |-> config.enabled, enforcement |-> config.enforcement]

InsertedGroup(r, row) == [r EXCEPT !.groups = @ \cup {row}]
UpdatedGroup(r, row) == [r EXCEPT !.groups = Without(@, row.id) \cup {row}]

(* The foreign keys delete the rules of the group with it. *)
DeletedGroup(r, group) ==
  [r EXCEPT !.groups = Without(@, group),
            !.rules = {d \in @ : d.group # group},
            !.destinations = {d \in @ : d.group # group}]

CreateGroup ==
  /\ MayMutate /\ Room("groups")
  /\ \E config \in GroupConfigs :
       Publish(InsertedGroup(rows, GroupRow(NextRowId(rows.groups), config)), history, 0)

UpdateGroup ==
  /\ MayMutate
  /\ \E group \in rows.groups, config \in GroupConfigs :
       Publish(UpdatedGroup(rows, GroupRow(group.id, config)), history, 0)

(* The statistics of the deleted rules stay. *)
DeleteGroup ==
  /\ MayMutate
  /\ \E group \in rows.groups : Publish(DeletedGroup(rows, group.id), history, 0)

-----------------------------------------------------------------------------
(* Modes *)

ModeRow(id, config) ==
  [id |-> id, enabled |-> config.enabled, enforcement |-> config.enforcement,
   scope |-> ScopeNormalize(config.scope)]

ModeValid(config) == config.scope.type # "global" /\ ScopeValid(config.scope)

InsertedMode(r, row) == [r EXCEPT !.modes = @ \cup {row}]
UpdatedMode(r, row) == [r EXCEPT !.modes = Without(@, row.id) \cup {row}]
DeletedMode(r, row) == [r EXCEPT !.modes = @ \ {row}]

CreateScopeMode ==
  /\ MayMutate /\ Room("modes")
  /\ \E config \in ModeConfigs :
       /\ ModeValid(config)
       /\ Publish(InsertedMode(rows, ModeRow(NextRowId(rows.modes), config)), history, 0)

UpdateScopeMode ==
  /\ MayMutate
  /\ \E mode \in rows.modes, config \in ModeConfigs :
       /\ ModeValid(config)
       /\ Publish(UpdatedMode(rows, ModeRow(mode.id, config)), history, 0)

DeleteScopeMode ==
  /\ MayMutate
  /\ \E mode \in rows.modes : Publish(DeletedMode(rows, mode), history, 0)

SetGlobalMode ==
  /\ MayMutate
  /\ \E enforcement \in {"enforce", "observe"} :
       Publish([rows EXCEPT !.global = enforcement], history, 0)

-----------------------------------------------------------------------------
(* Blocklist sources *)

InsertedList(r, row) == [r EXCEPT !.lists = @ \cup {row}]
UpdatedList(r, row) == [r EXCEPT !.lists = Without(@, row.id) \cup {row}]
DeletedList(r, list) ==
  [r EXCEPT !.lists = Without(@, list), !.rules = {d \in @ : d.list # list}]

CreateList ==
  /\ MayMutate /\ Room("lists")
  /\ \E config \in GroupConfigs :
       Publish(InsertedList(rows, GroupRow(NextRowId(rows.lists), config)), history, 0)

UpdateList ==
  /\ MayMutate
  /\ \E list \in rows.lists, config \in GroupConfigs :
       Publish(UpdatedList(rows, GroupRow(list.id, config)), history, 0)

DeleteList ==
  /\ MayMutate
  /\ \E list \in rows.lists :
       LET left == DeletedList(rows, list.id)
       IN  Publish(left, FollowDomainRules(history, left.rules), 0)

(* stage_blocklist_rule_identities: a name that the source had already     *)
(* keeps its identity.                                                     *)
(* Mutant: identities are not staged. *)
UnstagedIdentity(table, list, name) == ListIdentity(list, name)

EntryIdentity(table, list, name) ==
  LET had == {d \in table : d.list = list /\ d.domain = name}
  IN  IF had = {} THEN ListIdentity(list, name) ELSE (CHOOSE d \in had : TRUE).sid

(* jg_database_activate_blocklist: every row of the source is new. *)
ActivatedList(r, list, names) ==
  LET others == {d \in r.rules : d.list # list}
  IN  [r EXCEPT !.rules = others \cup
        {EntryRow(NextRowId(others) + i - 1,
                  EntryIdentity(r.rules, list, names[i]), list, names[i]) :
           i \in DOMAIN names}]

(* An update job or an import; the scheduled update is refused as well     *)
(* while mutations are.                                                    *)
ActivateList ==
  /\ MayMutate
  /\ \E list \in rows.lists, names \in ListContents :
       LET activated == ActivatedList(rows, list.id, names)
       IN  Publish(activated, FollowDomainRules(history, activated.rules), 0)

-----------------------------------------------------------------------------
(* Reload, statistics, time *)

(* The reload of the configuration is allowed while mutations are refused; *)
(* it publishes what is stored or leaves everything as it is.              *)
Reload ==
  /\ BuildAccepts(Loaded(rows))
  /\ active' = Build(Loaded(rows))
  /\ suspended' = FALSE
  /\ UNCHANGED <<rows, history, now, bounds>>

UdpQuery(client, name, to) ==
  [parse |-> "ok", client |-> client, to |-> to, fragmented |-> FALSE,
   complete |-> TRUE, dns |-> [ok |-> TRUE, questions |-> <<name>>]]

SampleOf(counted, client, name, path) ==
  LET domain == counted.dimension = "domain"
  IN  [hour |-> now, dimension |-> counted.dimension, sid |-> counted.rule.sid,
       rule |-> counted.rule.id, client |-> client,
       path |-> IF domain THEN path ELSE "destination",
       domain |-> IF domain THEN name ELSE <<>>,
       meaning |-> IF domain THEN DomainMeaning(counted.rule)
                   ELSE DestinationMeaning(counted.rule)]

(* A request is decided by the active snapshot and counted.  A publication *)
(* waits for the writer and discards what is queued (PolicyStatistics), so *)
(* nothing comes between the decision and the rows it is written to, and   *)
(* the two are one step here.                                              *)
CountRequest ==
  /\ Step /\ Spend
  /\ \E request \in Requests :
       LET packet == UdpQuery(request.client, request.name, request.to)
           udp == request.to.transport = "udp"
           path == IF udp THEN "dns" ELSE "tls_sni"
           counted == CountedFor(IF udp THEN Evaluate(active, packet)
                                 ELSE EvaluateVisibleSni(active, packet, request.name))
           samples == [i \in DOMAIN counted |->
                         SampleOf(counted[i], request.client, request.name, path)]
       IN  history' = RecordStats(history, rows.config, request.full,
                                  [hour |-> now, path |-> path], samples)
  /\ UNCHANGED <<rows, active, suspended, now>>

(* Bound: time passes only when there is detail that can expire. *)
Hour ==
  /\ now < MaxHour /\ history.impact \cup history.traffic # {}
  /\ now' = now + 1
  /\ UNCHANGED <<rows, history, active, suspended, bounds>>

(* The collector's own batch, and the one that a request asks for *)
AutomaticCleanup ==
  /\ Step /\ Spend
  /\ rows.config.retention
  /\ history' \in CleanedUp(history, now, rows.config, CleanupBatch)
  /\ UNCHANGED <<rows, active, suspended, now>>

CleanupRequest ==
  /\ MayMutate /\ Spend
  /\ history' \in CleanedUp(history, now, rows.config, CleanupBatch)
  /\ UNCHANGED <<rows, active, suspended, now>>

UpdateStatsConfig ==
  /\ MayMutate /\ Spend
  /\ \E config \in StatsConfigs : rows' = [rows EXCEPT !.config = config]
  /\ UNCHANGED <<history, active, suspended, now>>

-----------------------------------------------------------------------------

Next ==
  \/ CreateDomainRule \/ UpdateDomainRule \/ DeleteDomainRule
  \/ CreateDestinationRule \/ UpdateDestinationRule \/ DeleteDestinationRule
  \/ CreateGroup \/ UpdateGroup \/ DeleteGroup
  \/ CreateScopeMode \/ UpdateScopeMode \/ DeleteScopeMode \/ SetGlobalMode
  \/ CreateList \/ UpdateList \/ DeleteList \/ ActivateList
  \/ Reload \/ CountRequest \/ Hour
  \/ AutomaticCleanup \/ CleanupRequest \/ UpdateStatsConfig

Spec == Init /\ [][Next]_vars

-----------------------------------------------------------------------------
(* Properties: decisions *)

Reflects == ~suspended

(* The classes of rules, the strongest first *)
Classes ==
  << [source |-> "emergency", effect |-> "allow", all |-> FALSE],
     [source |-> "emergency", effect |-> "allow", all |-> TRUE],
     [source |-> "explicit", effect |-> "allow", all |-> FALSE],
     [source |-> "explicit", effect |-> "allow", all |-> TRUE],
     [source |-> "explicit", effect |-> "block", all |-> FALSE],
     [source |-> "explicit", effect |-> "block", all |-> TRUE],
     [source |-> "blocklist", effect |-> "block", all |-> FALSE],
     [source |-> "blocklist", effect |-> "block", all |-> TRUE] >>

(* Rules of these two sources rank alike for some clients and for all. *)
ClassOf(rule) ==
  CHOOSE i \in DOMAIN Classes :
    Classes[i] = [source |-> rule.source, effect |-> rule.effect,
                  all |-> rule.source # "explicit" \/ rule.scope = Global]

NameMatches(rule, name) ==
  IF rule.subdomains THEN Below(name, rule.domain) ELSE name = rule.domain

(* Observation in the words of the documentation: a rule, a scope or the   *)
(* whole policy observes instead of blocking.                              *)
Blocks(rule, client) ==
  /\ rule.effect = "block" /\ rule.enforcement = "enforce"
  /\ active.global = "enforce"
  /\ \A scope \in active.scopes : ~ScopeMatches(scope, client)

IsDomainChoice(chosen, rules) ==
  IF rules = {} THEN ~Found(chosen)
  ELSE /\ chosen \in rules
       /\ \A r \in rules \ {chosen} :
            \/ ClassOf(chosen) < ClassOf(r)
            \/ /\ ClassOf(chosen) = ClassOf(r)
               /\ \/ Len(chosen.domain) > Len(r.domain)
                  \/ Len(chosen.domain) = Len(r.domain) /\ chosen.id < r.id

IsDestinationChoice(chosen, rules) ==
  LET Detail(r) == << IF r.transport = "any" THEN 0 ELSE 1, IF r.port = 0 THEN 0 ELSE 1,
                      SumSet({n.prefix + 1 : n \in r.net}) >>
      Finer(a, b) == \E i \in 1 .. 3 : a[i] > b[i] /\ \A j \in 1 .. i - 1 : a[j] = b[j]
  IN  IF rules = {} THEN ~Found(chosen)
      ELSE /\ chosen \in rules
           /\ \A r \in rules \ {chosen} :
                \/ ClassOf(chosen) < ClassOf(r)
                \/ /\ ClassOf(chosen) = ClassOf(r)
                   /\ \/ Finer(Detail(chosen), Detail(r))
                      \/ Detail(chosen) = Detail(r) /\ chosen.id < r.id

(* The walk from a name up to its top-level label, the index of names and  *)
(* the scan of the destination rules (match_domain_target, match_slot,     *)
(* jg_policy_match_destination) choose the rule that a comparison of all   *)
(* matching rules chooses: the stronger class, then the longer name or the *)
(* more specific destination, then the older rule; with observation, among *)
(* the allow rules and the blocks that are enforced.                       *)
DecisionFollowsPrecedence ==
  /\ \A client \in Clients, name \in Names, target \in {"dns", "tls_sni"} :
       LET match == MatchDomain(active, name, client, target)
           rules == {r \in active.rules :
                       r.target = target /\ NameMatches(r, name)
                       /\ ScopeMatches(r.scope, client)}
       IN  /\ IsDomainChoice(match.selected, rules)
           /\ IsDomainChoice(match.enforcing,
                             {r \in rules : r.effect = "allow" \/ Blocks(r, client)})
  /\ \A client \in Clients, to \in Destinations :
       LET match == MatchDestination(active, to, client)
           rules == {r \in active.destinations : DestinationRuleMatches(r, to, client)}
       IN  /\ IsDestinationChoice(match.selected, rules)
           /\ IsDestinationChoice(match.enforcing,
                                  {r \in rules : r.effect = "allow" \/ Blocks(r, client)})

(* The policy with every observation lifted *)
Lifted(snapshot) ==
  [snapshot EXCEPT !.global = "enforce", !.scopes = {},
                   !.rules = {[r EXCEPT !.enforcement = "enforce"] : r \in @},
                   !.destinations = {[r EXCEPT !.enforcement = "enforce"] : r \in @}]

(* Observation only ever turns a block into an allow, and what the         *)
(* simulation calls the configured effect is what would happen if nothing  *)
(* observed (jg_policy_simulate, effective_enforcement).                   *)
ObservationOnlyWeakens ==
  \A client \in Clients, name \in Names, target \in {"dns", "tls_sni"},
     to \in {{}} \cup {{d} : d \in Destinations} :
    LET simulation == Simulate(active, target, name, client, to)
        enforced == Simulate(Lifted(active), target, name, client, to)
    IN  /\ simulation.effect = "block" => enforced.effect = "block"
        /\ simulation.configured = enforced.effect
        /\ enforced.effect # simulation.effect => simulation.would

(* What a simulation announces is what becomes of the packet, on every     *)
(* path a name takes: a UDP query, one put together from fragments, a      *)
(* query over TCP and a visible server name (jg_policy_simulate against    *)
(* the evaluators of dataplane.c).                                         *)
SimulationAgreesWithPackets ==
  \A client \in Clients, name \in Names, to \in Destinations :
    LET packet == UdpQuery(client, name, to)
        Simulated(target) == Simulate(active, target, name, client, {to}).effect
        Drops(result) == result.verdict = "drop"
    IN  /\ to.transport = "udp" /\ to.port = 53 =>
             /\ Drops(Evaluate(active, packet)) <=> Simulated("dns") = "block"
             /\ Drops(EvaluateReassembledUdp(active, packet)) <=> Simulated("dns") = "block"
        /\ to.transport = "tcp" /\ to.port = 53 =>
             (Drops(EvaluateTcpDns(active, packet)) <=> Simulated("dns") = "block")
        /\ to.transport = "tcp" /\ to.port \in {443, 853} =>
             (Drops(EvaluateVisibleSni(active, packet, name))
                <=> Simulated("tls_sni") = "block")

(* What the analysis reports of the stored rules is true of the decisions: *)
(* a rule that is unreachable decides nothing, a rule that is shadowed by  *)
(* a loaded one is never the selected one, and a block is not selected     *)
(* where one of its loaded allow exceptions matches                        *)
(* (jg_database_analyze_policy_rule against the matchers).                 *)
AnalysisIsSound ==
  Reflects =>
    /\ \A rule \in rows.rules, client \in Clients, name \in Names :
         LET relations == DomainRelations(rule, rows.rules)
             match == MatchDomain(active, name, client, rule.target)
         IN  /\ relations.unreachable => rule.id \notin {match.selected.id, match.enforcing.id}
             /\ (\E c \in relations.shadowing : LoadsRule(rows, c))
                  => rule.id # match.selected.id
             /\ (rule.effect = "block"
                 /\ \E c \in relations.exceptions :
                      LoadsRule(rows, c) /\ NameMatches(c, name) /\ ScopeMatches(c.scope, client))
                  => rule.id # match.selected.id
    /\ \A rule \in rows.destinations, client \in Clients, to \in Destinations :
         LET relations == DestinationRelations(rule, rows.destinations)
             match == MatchDestination(active, to, client)
         IN  /\ relations.unreachable => rule.id \notin {match.selected.id, match.enforcing.id}
             /\ (\E c \in relations.shadowing : LoadsDestination(rows, c))
                  => rule.id # match.selected.id

-----------------------------------------------------------------------------
(* Properties: statistics *)

(* An identity stands for one meaning: whatever is edited, refreshed or    *)
(* published in between, the matches counted under it are matches of rules *)
(* that mean the same, and a rule that has the identity means that too     *)
(* (assign_statistics_id, domain_semantics_equal).                         *)
IdentityMeansOneRule ==
  \A l \in history.lifetime :
    /\ Cardinality(l.meanings) = 1
    /\ l.dimension = "domain" =>
         \A d \in rows.rules : d.sid = l.sid => l.meanings = {DomainMeaning(d)}
    /\ l.dimension = "destination" =>
         \A d \in rows.destinations : d.sid = l.sid => l.meanings = {DestinationMeaning(d)}

(* The same rule before and after a step, perhaps in a new row *)
Stays(before, after) ==
  /\ before.list = after.list /\ DomainSemanticsEqual(before, after)
  /\ before.list = 0 => before.id = after.id

(* A rule that stays what it is keeps its history: an edit that leaves the *)
(* meaning alone, and the refresh of the source it came from, which gives  *)
(* it a new row (jg_database_update_domain_rule,                           *)
(* jg_database_activate_blocklist).  While the policy is suspended the     *)
(* matches are counted with the row identifiers of the old snapshot, and   *)
(* the lifetime row goes back to the row that the refresh has replaced.    *)
HistoryFollowsRule ==
  [][Reflects =>
       \A before \in rows.rules, after \in rows'.rules :
         Stays(before, after) =>
           \A l \in LifetimeOf(history, "domain", before.id) :
             l.sid = before.sid =>
               \E m \in LifetimeOf(history', "domain", after.id) :
                 m.sid = after.sid /\ l.meanings \subseteq m.meanings]_vars

(* The counters that the triggers keep equal the rows they count, through  *)
(* every insert, upsert, deletion of a rule, refresh and batch of the      *)
(* retention (schema version 20).                                          *)
BudgetsAreExact ==
  /\ history.rows = Cardinality(history.impact)
  /\ \A key \in BagToSet(history.hourly) \cup {HourKey(r) : r \in history.impact} :
       Copies(key, history.hourly)
         = Cardinality({r \in history.impact : HourKey(r) = key})
  /\ \A key \in BagToSet(history.names)
                \cup {NameKey(r) : r \in {i \in history.impact : i.domain # <<>>}} :
       Copies(key, history.names)
         = Cardinality({r \in history.impact : NameKey(r) = key})

(* docs/administration.md: the reload of the configuration clears an       *)
(* inconsistency.  It can only if the policy that the mutations have       *)
(* stored can be published at all.                                         *)
StoredPolicyPublishes == BuildAccepts(Loaded(rows))

(* CHANGELOG.md: lifetime history cannot be inherited by an unrelated      *)
(* rule.  What the readers show for a rule is the history of matches of    *)
(* what it means (jg_database_list_policy_rule_stats).                     *)
HistoryIsOwn ==
  /\ \A d \in rows.rules : \A l \in LifetimeOf(history, "domain", d.id) :
       l.meanings = {DomainMeaning(d)}
  /\ \A d \in rows.destinations : \A l \in LifetimeOf(history, "destination", d.id) :
       l.meanings = {DestinationMeaning(d)}
=============================================================================
