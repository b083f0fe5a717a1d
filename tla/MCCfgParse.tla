----------------------------- MODULE MCCfgParse -----------------------------
(***************************************************************************)
(* The documents of the instance: a base document with one section varied  *)
(* at a time, each by lists of up to two entries, so that two entries meet *)
(* in every order.                                                         *)
(***************************************************************************)
EXTENDS CfgParse

UpTo2(S) == {<<>>} \cup {<<x>> : x \in S} \cup (S \X S)

Eth(names) == [select_ports |-> names, duplex |-> "full", speed |-> 1000, enabled |-> TRUE]
Poe == [admin_mode |-> TRUE, power_limit |-> 15, priority |-> "high"]
Dot1x == [is_authenticator |-> TRUE, authentication_mode |-> "auto", guest_vlan |-> 2]

EthEntries ==
  {Eth(<<1>>), Eth(<<2>>), Eth(<<AllPorts>>), Eth(<<1, 2>>), Eth(<<65537>>),
   Eth(<<255>>), Eth(<<AllPorts, 9>>),
   [Eth(<<1>>) EXCEPT !.speed = 10000] @@ [poe |-> Poe],
   [Eth(<<2, 2>>) EXCEPT !.enabled = FALSE] @@ [ieee8021x |-> Dot1x],
   [select_ports |-> <<1>>, duplex |-> "full"],
   \* Refused, or fatal.
   Eth(<<>>), Eth(<<1, 9>>), Eth(<<1, Wrong>>), [Eth(<<1>>) EXCEPT !.speed = 0],
   [select_ports |-> <<1>>, speed |-> 100], [duplex |-> "half", speed |-> 100],
   Eth(<<1>>) @@ [poe |-> [admin_mode |-> Wrong]],
   Eth(<<1>>) @@ [ieee8021x |-> [host_mode |-> Wrong]], Eth(<<1>>) @@ [poe |-> Wrong]}

Member(names, tag) == [select_ports |-> names, vlan_tag |-> tag]
Vlan(id) == [vlan |-> [id |-> id], ethernet |-> <<Member(<<1>>, "tagged")>>]
Addressed(prefix) == [ipv4 |-> [subnet |-> <<[prefix |-> prefix], [prefix |-> "other"]>>]]
Igmp(igmp) == [ipv4 |-> [multicast |-> [igmp |-> igmp]]]
Dhcp(dhcp) == [ipv4 |-> [dhcp |-> dhcp]]

Interfaces ==
  {Vlan(1), Vlan(2) @@ Addressed("net2"), [vlan |-> [id |-> 2]],
   [vlan |-> [name |-> "none"], ethernet |-> <<Member(<<2>>, "un-tagged")>>],
   [Vlan(2) EXCEPT !.ethernet = <<Member(<<AllPorts>>, "un-tagged"), Member(<<2>>, "tagged")>>],
   Vlan(2) @@ Igmp([version |-> 2, querier_enable |-> TRUE, groups |-> <<"g1", "g2">>]),
   Vlan(2) @@ Igmp([snooping_enable |-> FALSE]), Vlan(2) @@ [ipv4 |-> [multicast |-> <<>>]],
   Vlan(2) @@ Dhcp([relay_server |-> "server", circuit_id_format |-> "{VLAN-ID}"]),
   [ethernet |-> <<[select_ports |-> <<1>>]>>] @@ Addressed("port1"),
   [ethernet |-> <<[select_ports |-> <<2>>]>>] @@ Addressed("port2"),
   [ethernet |-> <<[select_ports |-> <<2>>]>>],
   \* Refused, or fatal.
   Vlan(0), Vlan(4096), [Vlan(1) EXCEPT !.ethernet = <<Member(<<2>>, Wrong)>>],
   [Vlan(1) EXCEPT !.ethernet = <<[select_ports |-> <<2>>]>>],
   [Vlan(1) EXCEPT !.ethernet = <<Member(<<>>, "tagged")>>], Vlan(1) @@ Addressed(Wrong),
   Vlan(2) @@ Igmp([version |-> Wrong]), Vlan(2) @@ Igmp([groups |-> <<"g1", Wrong>>]),
   Vlan(2) @@ Dhcp([relay_server |-> "server"]),
   [ethernet |-> <<[select_ports |-> <<AllPorts>>]>>],
   [ethernet |-> <<Member(<<1>>, "tagged"), Member(<<2>>, "tagged")>>]}

Links == [uplink |-> [interface_list |-> <<"Ethernet1">>],
          downlink |-> [interface_list |-> <<"Ethernet2">>]]

Switches ==
  {Wrong}
  \cup {[ieee8021x |-> x] : x \in {Wrong, [radius |-> Wrong]}
          \cup {[auth_control_enable |-> TRUE, radius |-> hosts] : hosts \in UpTo2(
                  {[host |-> "h1"], [host |-> "h2", port |-> 1645, prio |-> 5],
                   [host |-> "h2", prio |-> 3], [port |-> 1812]})}}
  \cup {[loop_detection |-> [protocol |-> "rpvstp", instances |-> list]] :
          list \in UpTo2({[id |-> 1, priority |-> 4096], [id |-> 2, enabled |-> TRUE],
                          [enabled |-> TRUE], [id |-> 4096]})}
  \cup {[loop_detection |-> [protocol |-> Wrong]]}
  \cup {[port_isolation |-> [sessions |-> list]] :
          list \in UpTo2({[id |-> 1] @@ Links, [id |-> 2] @@ Links, [id |-> 3], Links})}
  \cup {[port_isolation |-> [sessions |-> Wrong]]}

Others ==
  {[metrics |-> m] : m \in {Wrong, [health |-> [interval |-> 60]]}
     \cup {[statistics |-> [interval |-> i, types |-> t]] :
             i \in {0, 60}, t \in UpTo2({"clients", "lldp"})}}
  \cup {[services |-> s] : s \in {Wrong, [log |-> [port |-> 514, proto |-> "tcp"]],
          [log |-> [size |-> 10]], [log |-> [port |-> 514, host |-> Wrong]],
          [ssh |-> [enable |-> TRUE]], [http |-> [enable |-> Wrong]], [telnet |-> Wrong]}}
  \cup {[unit |-> u] : u \in {Wrong, [system_password |-> "secret"],
          [system_password |-> Wrong], [poe |-> [usage_threshold |-> 300]]}}
  \cup {[ethernet |-> Wrong], [interfaces |-> Wrong]}

\* Routes, prefixes given twice among them.
To(key) == [prefix |-> key]
Via(key, gw) == [prefix |-> key, nexthop |-> gw]
Gateways(list) == <<Vlan(2) @@ [ipv4 |-> [gateway |-> list]]>>

Routes ==
  {[globals |-> [ipv4_blackhole |-> holes], interfaces |-> Gateways(gateway)] :
     holes \in UpTo2({To(1), To(2)}), gateway \in {<<>>, <<Via(1, "gw1")>>}}
  \cup {[globals |-> [ipv4_blackhole |-> <<To(1)>>, ipv4_unreachable |-> <<To(2)>>]],
        [globals |-> [ipv4_blackhole |-> <<To(Wrong)>>]],
        [interfaces |-> Gateways(<<To(1)>>)],
        [interfaces |-> <<[ethernet |-> <<[select_ports |-> <<1>>]>>,
                           ipv4 |-> [gateway |-> <<Via(2, "gw1")>>,
                                     broadcast |-> <<To(1)>>]]>>]}

Base == [ethernet |-> <<Eth(<<AllPorts>>)>>, interfaces |-> <<Vlan(1)>>]

MCLateDocs == {r @@ Base : r \in Routes}

MCDocs ==
  {[Base EXCEPT !.ethernet = e] : e \in UpTo2(EthEntries)}
  \cup {[Base EXCEPT !.interfaces = i] : i \in UpTo2(Interfaces)}
  \cup {[switch |-> s] @@ Base : s \in Switches}
  \cup {o @@ Base : o \in Others}
  \cup MCLateDocs

=============================================================================
