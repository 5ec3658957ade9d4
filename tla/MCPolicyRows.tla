---------------------------- MODULE MCPolicyRows ----------------------------
(***************************************************************************)
(* Small instances of PolicyRows.  Two kinds of scenarios: stored policies *)
(* of every combination of a few rules, whose decisions are compared with  *)
(* no step taken, and small policies that a few steps change.              *)
(***************************************************************************)
EXTENDS PolicyRows

(* Addresses have two bits; the second client is in the upper half. *)
MCAddressBits == 2
MCVlanLimit == 3

top == <<"net">>
site == <<"site", "net">>
page == <<"page", "site", "net">>

inner == [mac |-> {1}, family |-> "ipv4", address |-> 1, vlan |-> {}]
outer == [mac |-> {}, family |-> "ipv4", address |-> 3, vlan |-> {2}]

MCClients == {inner, outer}
MCNames == {site, page}

resolver == [family |-> "ipv4", address |-> 2, transport |-> "udp", port |-> 53]
streamed == [family |-> "ipv4", address |-> 2, transport |-> "tcp", port |-> 53]
server == [family |-> "ipv4", address |-> 2, transport |-> "tcp", port |-> 443]
MCDestinations == {resolver, streamed, server}

MCRequests ==
  {[client |-> inner, name |-> site, to |-> resolver, full |-> FALSE],
   [client |-> outer, name |-> site, to |-> resolver, full |-> FALSE],
   [client |-> inner, name |-> page, to |-> resolver, full |-> FALSE],
   [client |-> inner, name |-> site, to |-> server, full |-> TRUE]}

(* Host bits of a network are given and have to be masked. *)
upper == [type |-> "ipv4", key |-> 3, prefix |-> 1]
mac1 == [type |-> "mac", key |-> 1, prefix |-> 0]
vlan2 == [type |-> "vlan", key |-> 2, prefix |-> 0]

Domain(group, domain, subdomains, effect, enforcement, target, scope) ==
  [group |-> group, enabled |-> TRUE, domain |-> domain, subdomains |-> subdomains,
   effect |-> effect, enforcement |-> enforcement, target |-> target, scope |-> scope]

Destination(group, effect, enforcement, transport, port, net, scope) ==
  [group |-> group, enabled |-> TRUE, effect |-> effect, enforcement |-> enforcement,
   transport |-> transport, port |-> port, net |-> net, scope |-> scope]

lookup == [detail |-> TRUE, rows |-> 3, perHour |-> 2, domains |-> 1,
           keep |-> 1, retention |-> TRUE]

Rows(rules, destinations, groups, lists, modes, global) ==
  [rules |-> rules, destinations |-> destinations, groups |-> groups,
   lists |-> lists, modes |-> modes, global |-> global, config |-> lookup]

on == [enabled |-> TRUE, enforcement |-> "enforce"]
observed == [enabled |-> TRUE, enforcement |-> "observe"]

-----------------------------------------------------------------------------
(* Policies to decide with *)

(* The rules of one policy, in the order they were created *)
DomainPool ==
  << Domain(0, site, TRUE, "block", "enforce", "dns", Global),
     Domain(0, page, FALSE, "allow", "enforce", "dns", Global),
     Domain(0, top, TRUE, "block", "observe", "dns", mac1),
     Domain(0, page, TRUE, "block", "enforce", "dns", upper),
     Domain(0, site, TRUE, "allow", "enforce", "dns", upper),
     Domain(0, site, TRUE, "block", "enforce", "dns", Global),
     Domain(0, site, TRUE, "block", "enforce", "tls_sni", vlan2),
     Domain(1, site, TRUE, "block", "enforce", "dns", mac1) >>

DestinationPool ==
  << Destination(0, "block", "enforce", "any", 0,
                 {[family |-> "ipv4", key |-> 3, prefix |-> 1]}, Global),
     Destination(0, "allow", "enforce", "udp", 53, {}, upper),
     Destination(0, "block", "observe", "any", 53,
                 {[family |-> "ipv4", key |-> 2, prefix |-> 2]}, Global) >>

DomainRows(chosen) ==
  {DomainRow(i, RandomIdentity(i), DomainPool[i]) : i \in chosen}
DestinationRows(chosen) ==
  {DestinationRow(i, RandomIdentity(i), DestinationPool[i]) : i \in chosen}
ListRows == {EntryRow(20, ListIdentity(1, top), 1, top)}

NoRoom == [table \in {"rules", "destinations", "groups", "lists", "modes"} |-> 0]

Decisions ==
  {[rows |-> Rows(DomainRows(chosen) \cup listed, DestinationRows(targets),
                  {GroupRow(1, group)}, {GroupRow(1, on)},
                  modes, global),
    steps |-> 0, failures |-> 0, serial |-> 30,
    room |-> NoRoom] :
     chosen \in {c \in SUBSET DOMAIN DomainPool : Cardinality(c) <= 3},
     listed \in {{}, ListRows},
     targets \in {{}, {1}, {2, 3}},
     group \in {on, observed},
     modes \in {{}, {ModeRow(1, [enabled |-> TRUE, enforcement |-> "observe",
                                 scope |-> upper])}},
     global \in {"enforce"}}

-----------------------------------------------------------------------------
(* Policies to change *)

first == Domain(0, site, TRUE, "block", "enforce", "dns", Global)
grouped == Domain(1, site, TRUE, "block", "enforce", "dns", Global)
excepted == Domain(0, site, FALSE, "allow", "enforce", "dns", upper)
weakened == Domain(0, site, TRUE, "block", "observe", "dns", Global)
aimed == Destination(0, "block", "observe", "udp", 53, {}, Global)

Start(rules, destinations, groups, lists, steps, failures, room) ==
  [rows |-> Rows(rules, destinations, groups, lists, {}, "enforce"),
   steps |-> steps, failures |-> failures, serial |-> 3, room |-> room]

(* The entry of the source is older than the hashed identities. *)
migrated == EntryRow(1, RandomIdentity(1), 1, site)

(* A rule that belongs to a group, an entry of a source, and a policy      *)
(* without either; in the last two a publication may fail.                 *)
InGroup ==
  Start({DomainRow(1, RandomIdentity(1), grouped)}, {}, {GroupRow(1, on)}, {}, 4, 0,
        [NoRoom EXCEPT !["rules"] = 2, !["groups"] = 1])
InList ==
  Start({migrated}, {}, {}, {GroupRow(1, on)}, 4, 1,
        [NoRoom EXCEPT !["rules"] = 1, !["lists"] = 1])
Plain ==
  Start({DomainRow(1, RandomIdentity(1), first)},
        {DestinationRow(1, RandomIdentity(2), aimed)}, {}, {}, 3, 1,
        [NoRoom EXCEPT !["rules"] = 2, !["modes"] = 1, !["destinations"] = 1])
AllowInGroup ==
  Start({DomainRow(1, RandomIdentity(1), [excepted EXCEPT !.group = 1])}, {},
        {GroupRow(1, on)}, {}, 3, 0, [NoRoom EXCEPT !["rules"] = 2])

MCScenarios == Decisions \cup {InGroup, InList, Plain, AllowInGroup}
MCGroupScenarios == {InGroup}
MCAllowScenarios == {AllowInGroup}
MCDomainRequests == {first, excepted, weakened}
MCDestinationRequests == {aimed}
MCGroupConfigs == {on, observed}
MCModeConfigs ==
  {[enabled |-> TRUE, enforcement |-> "observe", scope |-> scope] : scope \in {upper, mac1}}
MCListContents == {<<page>>, <<page, site>>}
MCStatsConfigs == {[lookup EXCEPT !.detail = FALSE, !.retention = FALSE]}
MCCleanupBatch == 1
MCMaxHour == 2
=============================================================================
