-------------------------- MODULE PolicyEvaluation --------------------------
(***************************************************************************)
(* What a policy snapshot decides: how jg_policy_snapshot_build_configured *)
(* makes a snapshot of rules (policy.c), how it matches a name and a       *)
(* destination for a client, what a simulation answers, and the verdicts   *)
(* of the packet path (dataplane.c).  Operators only, no state.            *)
(*                                                                         *)
(* A name is the sequence of its labels, the leftmost first, and is        *)
(* normalized already.  An address is a number of AddressBits bits.  What  *)
(* may be absent (a client's MAC or VLAN, a rule's network) is a set of at *)
(* most one element.  A rule that is absent is NoRule, with the identifier *)
(* zero that no rule may have.                                             *)
(***************************************************************************)
EXTENDS Naturals, Sequences, FiniteSets, FiniteSetsExt, SequencesExt

CONSTANTS
  AddressBits,   \* bits of an address (32 and 128 in the code)
  VlanLimit      \* greatest VLAN identifier (4094 in the code)

ASSUME WidthAssumption == AddressBits \in 0 .. 128 /\ VlanLimit \in Nat

IsName(name) == name \in Seq(Range(name)) /\ name # <<>>

NoRule == [id |-> 0]
Found(rule) == rule.id # 0

-----------------------------------------------------------------------------
(* Scopes and addresses *)

Networks == {"ipv4", "ipv6"}

Global == [type |-> "global", key |-> 0, prefix |-> 0]

(* The address without the bits behind the prefix *)
Masked(address, prefix) ==
  (address \div 2^(AddressBits - prefix)) * 2^(AddressBits - prefix)

ScopeValid(scope) ==
  /\ scope.type \in Networks => scope.prefix <= AddressBits
  /\ scope.type = "vlan" => scope.key <= VlanLimit

(* jg_policy_scope_normalize *)
ScopeNormalize(scope) ==
  IF scope.type \in Networks THEN [scope EXCEPT !.key = Masked(@, scope.prefix)] ELSE scope

AddressNormalize(net) == [net EXCEPT !.key = Masked(@, net.prefix)]

AddressMatches(address, network, prefix) == Masked(address, prefix) = network

ScopeMatches(scope, client) ==
  \/ scope.type = "global"
  \/ scope.type = "mac" /\ scope.key \in client.mac
  \/ scope.type \in Networks /\ client.family = scope.type
     /\ AddressMatches(client.address, scope.key, scope.prefix)
  \/ scope.type = "vlan" /\ scope.key \in client.vlan

-----------------------------------------------------------------------------
(* Rules that may enter a snapshot *)

EffectSourceValid(effect, source) ==
  \/ source = "blocklist" /\ effect = "block"
  \/ source = "explicit"
  \/ source = "emergency" /\ effect = "allow"

EnforcementValid(effect, enforcement) ==
  enforcement = "enforce" \/ effect = "block"

RuleClassValid(rule) ==
  /\ EffectSourceValid(rule.effect, rule.source)
  /\ EnforcementValid(rule.effect, rule.enforcement)
  /\ rule.target = "tls_sni" => rule.source = "explicit"

DomainRuleValid(rule) ==
  Found(rule) /\ RuleClassValid(rule) /\ ScopeValid(rule.scope)

DestinationRuleValid(rule) ==
  /\ Found(rule)
  /\ EffectSourceValid(rule.effect, rule.source)
  /\ EnforcementValid(rule.effect, rule.enforcement)
  /\ rule.net # {} \/ rule.port # 0
  /\ \A net \in rule.net : net.prefix <= AddressBits
  /\ ScopeValid(rule.scope)

PrepareRule(rule) == [rule EXCEPT !.scope = ScopeNormalize(@)]

PrepareDestinationRule(rule) ==
  [rule EXCEPT !.scope = ScopeNormalize(@), !.net = {AddressNormalize(n) : n \in @}]

(* Rules that differ only by identifier and statistics identity *)
SameContent(a, b) == [a EXCEPT !.id = b.id, !.sid = b.sid] = b

(* After the sort the first of equal rules, the one with the lowest        *)
(* identifier, is retained.                                                *)
Retained(rules) ==
  {r \in rules : \A other \in rules : SameContent(other, r) => r.id <= other.id}

(* One rule that is not valid refuses the whole snapshot. *)
BuildAccepts(input) ==
  /\ \A r \in input.rules : DomainRuleValid(r)
  /\ \A r \in input.destinations : DestinationRuleValid(r)
  /\ \A s \in input.scopes : s.type # "global" /\ ScopeValid(s)

ObserveScopes(scopes) == {ScopeNormalize(s) : s \in scopes}

(* jg_policy_snapshot_build_configured, for input it accepts *)
Build(input) ==
  [rules |-> Retained({PrepareRule(r) : r \in input.rules}),
   destinations |-> Retained({PrepareDestinationRule(r) : r \in input.destinations}),
   global |-> input.global,
   scopes |-> ObserveScopes(input.scopes)]

-----------------------------------------------------------------------------
(* Precedence *)

(* policy_priority *)
Priority(rule) ==
  CASE rule.source = "emergency" -> 6
    [] rule.source = "explicit" /\ rule.effect = "allow" ->
         IF rule.scope.type = "global" THEN 4 ELSE 5
    [] rule.source = "explicit" /\ rule.effect = "block" ->
         IF rule.scope.type = "global" THEN 2 ELSE 3
    [] OTHER -> 1

ClientIsObserved(snapshot, client) ==
  \/ snapshot.global = "observe"
  \/ \E scope \in snapshot.scopes : ScopeMatches(scope, client)

(* effective_enforcement: observation weakens blocks only. *)
Enforced(snapshot, rule, client) ==
  rule.effect = "allow"
  \/ (rule.enforcement = "enforce" /\ ~ClientIsObserved(snapshot, client))

-----------------------------------------------------------------------------
(* Names *)

DomainRulePrecedes(candidate, current) ==
  \/ ~Found(current)
  \/ Priority(candidate) > Priority(current)
  \/ Priority(candidate) = Priority(current) /\ candidate.id < current.id

BestDomainRule(rules) ==
  FoldSet(LAMBDA r, best : IF DomainRulePrecedes(r, best) THEN r ELSE best, NoRule, rules)

(* The rules of one name: the one that is configured to decide, and the    *)
(* one among those enforced.                                               *)
MatchSlot(snapshot, name, client, exact, target) ==
  LET rules == {r \in snapshot.rules :
                  /\ r.domain = name /\ r.target = target
                  /\ exact \/ r.subdomains
                  /\ ScopeMatches(r.scope, client)}
  IN  [selected |-> BestDomainRule(rules),
       enforcing |-> BestDomainRule({r \in rules : Enforced(snapshot, r, client)})]

(* A parent's rule replaces the one found below it only with a higher      *)
(* priority.                                                               *)
(* Mutant: with the same priority too. *)
PreferParent(above, below) ==
  IF Found(above) /\ (~Found(below) \/ Priority(above) >= Priority(below)) THEN above ELSE below

Prefer(above, below) ==
  IF Found(above) /\ (~Found(below) \/ Priority(above) > Priority(below)) THEN above ELSE below

(* match_domain_target: from the name up to its top-level label *)
MatchDomain(snapshot, name, client, target) ==
  LET Step(best, start) ==
        LET here == MatchSlot(snapshot, SubSeq(name, start, Len(name)), client,
                              start = 1, target)
        IN  [selected |-> Prefer(here.selected, best.selected),
             enforcing |-> Prefer(here.enforcing, best.enforcing)]
  IN  FoldLeft(Step, [selected |-> NoRule, enforcing |-> NoRule],
               [start \in 1 .. Len(name) |-> start])

(* What a match says: the effect is allowed by default. *)
RuleEffect(rule) == IF Found(rule) THEN rule.effect ELSE "allow"
Effect(match) == RuleEffect(match.enforcing)
(* Mutant: the configured effect is taken from the rule that is enforced. *)
ConfiguredFromEnforcing(match) == RuleEffect(match.enforcing)
ConfiguredEffect(match) == RuleEffect(match.selected)
WouldHaveBlocked(snapshot, match, client) ==
  ConfiguredEffect(match) = "block" /\ ~Enforced(snapshot, match.selected, client)

-----------------------------------------------------------------------------
(* Destinations *)

DestinationRuleMatches(rule, to, client) ==
  /\ rule.transport \in {"any", to.transport}
  /\ rule.port \in {0, to.port}
  /\ \A net \in rule.net :
       net.family = to.family /\ AddressMatches(to.address, net.key, net.prefix)
  /\ ScopeMatches(rule.scope, client)

(* Transport, then port, then the length of the prefix *)
Specificity(rule) ==
  LET prefix == {net.prefix + 1 : net \in rule.net}
  IN  SumSet(prefix) + (IF rule.port # 0 THEN 256 ELSE 0)
        + (IF rule.transport # "any" THEN 512 ELSE 0)

DestinationRulePrecedes(candidate, current) ==
  \/ ~Found(current)
  \/ Priority(candidate) > Priority(current)
  \/ /\ Priority(candidate) = Priority(current)
     /\ \/ Specificity(candidate) > Specificity(current)
        \/ Specificity(candidate) = Specificity(current) /\ candidate.id < current.id

BestDestinationRule(rules) ==
  FoldSet(LAMBDA r, best : IF DestinationRulePrecedes(r, best) THEN r ELSE best, NoRule, rules)

(* jg_policy_match_destination *)
MatchDestination(snapshot, to, client) ==
  LET rules == {r \in snapshot.destinations : DestinationRuleMatches(r, to, client)}
  IN  [selected |-> BestDestinationRule(rules),
       enforcing |-> BestDestinationRule({r \in rules : Enforced(snapshot, r, client)})]

NoMatch == [selected |-> NoRule, enforcing |-> NoRule]

-----------------------------------------------------------------------------
(* Simulation *)

(* jg_policy_simulate: "to" holds the destination if one was given; a      *)
(* destination that is blocked decides alone.  "configured" is what the    *)
(* rules say before observation, "effect" what becomes of the request.     *)
Simulate(snapshot, target, name, client, to) ==
  LET destination == IF to = {} THEN NoMatch
                     ELSE MatchDestination(snapshot, CHOOSE d \in to : TRUE, client)
      domain == MatchDomain(snapshot, name, client, target)
      decided == Effect(destination) = "block"
      planned == ConfiguredEffect(destination) = "block"
      selected == IF planned \/ decided \/ ~Found(domain.selected)
                  THEN destination ELSE domain
  IN  [configured |-> ConfiguredEffect(selected),
       would |-> WouldHaveBlocked(snapshot, selected, client),
       effect |-> IF decided \/ ~Found(domain.enforcing) THEN Effect(destination)
                  ELSE Effect(domain)]

-----------------------------------------------------------------------------
(* Packets.  A packet is what the parsers make of a frame: a malformed     *)
(* frame or DNS message, a frame that is not IP, or the fields below.      *)

SourceRank(rule) ==
  IF ~Found(rule) THEN 0
  ELSE CASE rule.source = "blocklist" -> 1
         [] rule.source = "explicit" -> 2
         [] rule.source = "emergency" -> 3

Result(verdict, reason, policy, destination) ==
  [verdict |-> verdict, reason |-> reason, policy |-> policy, destination |-> destination]

Dropped(destination) == Result("drop", "malformed", NoMatch, destination)
Passed(reason, destination) == Result("accept", reason, NoMatch, destination)
Blocked(policy, destination) == Result("drop", "policy_block", policy, destination)

(* Every question in turn: the first that is blocked decides; otherwise    *)
(* the match of the most privileged source is reported.                    *)
EvaluateDns(snapshot, questions, client, destination) ==
  LET matches == [i \in 1 .. Len(questions) |->
                    MatchDomain(snapshot, questions[i], client, "dns")]
      blocked == {i \in 1 .. Len(questions) : Effect(matches[i]) = "block"}
      Report(best, match) ==
        IF Found(match.selected)
           /\ (~Found(best.selected) \/ SourceRank(match.selected) > SourceRank(best.selected))
        THEN match ELSE best
  IN  IF blocked # {}
      THEN Blocked(matches[Min(blocked)], destination)
      ELSE Result("accept", "policy_allow", FoldLeft(Report, NoMatch, matches), destination)

(* A whole message: the destination, the parser, the questions *)
EvaluateDnsMessage(snapshot, packet) ==
  LET destination == MatchDestination(snapshot, packet.to, packet.client)
  IN  IF Effect(destination) = "block" THEN Blocked(NoMatch, destination)
      ELSE IF ~packet.dns.ok THEN Dropped(destination)
      ELSE EvaluateDns(snapshot, packet.dns.questions, packet.client, destination)

(* jg_dataplane_evaluate: one frame without the state of streams and       *)
(* fragments *)
Evaluate(snapshot, packet) ==
  LET destination == MatchDestination(snapshot, packet.to, packet.client)
  IN  CASE packet.parse = "non_ip" -> Passed("pass", NoMatch)
        [] packet.parse = "malformed" -> Dropped(NoMatch)
        [] packet.parse = "ok" /\ Effect(destination) = "block" ->
             Blocked(NoMatch, destination)
        [] packet.parse = "ok" /\ Effect(destination) = "allow" ->
             IF packet.fragmented THEN Passed("fragment_pending", destination)
             ELSE IF packet.to.transport = "tcp" /\ packet.to.port \in {53, 443, 853}
             THEN Passed("stream_pending", destination)
             ELSE IF packet.to.transport # "udp" \/ packet.to.port # 53
             THEN Passed("pass", destination)
             ELSE IF ~packet.complete THEN Dropped(destination)
             ELSE EvaluateDnsMessage(snapshot, packet)

(* Mutant: a reassembled query is not asked for its destination. *)
EvaluateQuestionsOnly(snapshot, packet) ==
  IF ~packet.complete THEN Dropped(NoMatch)
  ELSE IF packet.to.port # 53 THEN Passed("pass", NoMatch)
  ELSE EvaluateDns(snapshot, packet.dns.questions, packet.client, NoMatch)

(* jg_dataplane_evaluate_reassembled_udp: a datagram put together from its *)
(* fragments; another port than 53 is not asked for its destination again. *)
EvaluateReassembledUdp(snapshot, packet) ==
  IF ~packet.complete THEN Dropped(NoMatch)
  ELSE IF packet.to.port # 53 THEN Passed("pass", NoMatch)
  ELSE EvaluateDnsMessage(snapshot, packet)

(* jg_dataplane_evaluate_tcp_dns *)
EvaluateTcpDns(snapshot, packet) == EvaluateDnsMessage(snapshot, packet)

(* jg_dataplane_evaluate_visible_sni *)
EvaluateVisibleSni(snapshot, packet, name) ==
  LET destination == MatchDestination(snapshot, packet.to, packet.client)
      match == MatchDomain(snapshot, name, packet.client, "tls_sni")
  IN  IF Effect(destination) = "block" THEN Blocked(NoMatch, destination)
      ELSE IF Effect(match) = "block" THEN Blocked(match, destination)
      ELSE Result("accept", "policy_allow", match, destination)

(* The rules a decision is counted for (submit_policy_stats), domain rules *)
(* first: of each match the selected one and, when it is another, the      *)
(* enforcing one.                                                          *)
CountedRules(dimension, match) ==
  LET rules == IF ~Found(match.selected) THEN <<>>
               ELSE IF match.enforcing.id \in {0, match.selected.id}
               THEN <<match.selected>>
               ELSE <<match.selected, match.enforcing>>
  IN  [i \in DOMAIN rules |-> [dimension |-> dimension, rule |-> rules[i]]]

CountedFor(result) ==
  IF result.reason \in {"malformed", "fragment_pending", "stream_pending"} THEN <<>>
  ELSE CountedRules("domain", result.policy)
         \o CountedRules("destination", result.destination)
=============================================================================
