--------------------------- MODULE PolicyAnalysis ---------------------------
(***************************************************************************)
(* The static relations between stored rules that the analysis reports     *)
(* (database_policy_analysis.c): duplicates, conflicts, rules that shadow  *)
(* another, allow exceptions, and whether a rule is unreachable.  The      *)
(* queries read the rows of the tables, not the snapshot, and keep at most *)
(* sixteen identifiers of each relation; that limit is left out.           *)
(***************************************************************************)
EXTENDS PolicyEvaluation

(* Rows that differ in nothing but the identifier and the identity *)
DuplicatesOf(rule, table) ==
  {c \in table : c.id # rule.id /\ SameContent(c, rule)}

SameDomainMatch(a, b) ==
  /\ a.domain = b.domain /\ a.subdomains = b.subdomains
  /\ a.target = b.target /\ a.scope = b.scope

(* exact_predicate of the destination queries *)
SameDestinationMatch(a, b) ==
  /\ a.transport = b.transport /\ a.net = b.net /\ a.port = b.port /\ a.scope = b.scope

Rivals(rule, table) == {c \in table : c.id # rule.id /\ c.enabled /\ rule.enabled}

(* The enabled rules that match exactly what the rule matches *)
DomainPeersOf(rule, table) == {c \in Rivals(rule, table) : SameDomainMatch(c, rule)}
DestinationPeersOf(rule, table) == {c \in Rivals(rule, table) : SameDestinationMatch(c, rule)}

ConflictsOf(rule, peers) == {c \in peers : c.effect # rule.effect}

ShadowingOf(rule, peers) ==
  {c \in peers : \/ Priority(c) > Priority(rule)
                 \/ Priority(c) = Priority(rule) /\ c.id < rule.id}

(* The name is the parent or a name below it. *)
Below(name, parent) ==
  /\ Len(name) >= Len(parent)
  /\ SubSeq(name, Len(name) - Len(parent) + 1, Len(name)) = parent

(* An allow rule for a name that a block rule covers, seen from either *)
AllowExceptionsOf(rule, table) ==
  {c \in Rivals(rule, table) :
     /\ c.target = rule.target /\ c.scope = rule.scope
     /\ \/ /\ rule.effect = "allow" /\ c.effect = "block"
           /\ c.subdomains /\ Below(rule.domain, c.domain)
        \/ /\ rule.effect = "block" /\ c.effect = "allow"
           /\ rule.subdomains /\ Below(c.domain, rule.domain)}

(* Mutant: the oldest of several duplicates is taken for one as well. *)
UnreachableDuplicate(rule, table) == ~rule.enabled \/ DuplicatesOf(rule, table) # {}

Unreachable(rule, table) ==
  ~rule.enabled \/ \E c \in DuplicatesOf(rule, table) : c.id < rule.id

(* jg_database_analyze_policy_rule for a domain rule *)
DomainRelations(rule, table) ==
  LET peers == DomainPeersOf(rule, table)
  IN  [duplicates |-> DuplicatesOf(rule, table),
       conflicts |-> ConflictsOf(rule, peers),
       shadowing |-> ShadowingOf(rule, peers),
       exceptions |-> AllowExceptionsOf(rule, table),
       unreachable |-> Unreachable(rule, table)]

(* ... and for a destination rule, whose exceptions are its conflicts *)
DestinationRelations(rule, table) ==
  LET peers == DestinationPeersOf(rule, table)
  IN  [duplicates |-> DuplicatesOf(rule, table),
       conflicts |-> ConflictsOf(rule, peers),
       shadowing |-> ShadowingOf(rule, peers),
       exceptions |-> ConflictsOf(rule, peers),
       unreachable |-> Unreachable(rule, table)]
=============================================================================
