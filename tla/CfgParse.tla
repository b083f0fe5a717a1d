------------------------------ MODULE CfgParse ------------------------------
(***************************************************************************)
(* cfg_parse() of proto.c: from the JSON document of a configure command   *)
(* to a struct plat_cfg, or to NULL; the route table of router-utils.c,    *)
(* and config_router_apply() of plat-gnma.c, which brings the switch from  *)
(* the table of one configuration to that of the next.                     *)
(*                                                                         *)
(* A JSON object is a record with the members that it has, a list is a     *)
(* sequence, a number is a natural number, and Wrong is a value that the   *)
(* parser does not take: of another type, or not among those it knows.     *)
(* Each parser returns the code of the C function and the configuration    *)
(* as it left it.                                                          *)
(***************************************************************************)
EXTENDS Integers, SequencesExt

CONSTANTS
  Ports,     \* the front panel ports of the platform
  Vids,      \* the VLAN ids in use, 0 included
  Keys,      \* the prefixes of routes, in the order of fib_key_cmp()
  Docs,      \* the documents that the gateway sends
  LateDocs,  \* bound: those it sends to a switch that has had routes
  Absent,    \* a member that is not there (a NULL cJSON pointer)
  Wrong,
  AllPorts,  \* "Ethernet*"
  Nan        \* what cJSON_GetNumberValue() makes of anything but a number

MAX_VLANS == 4096
MAX_NUM_OF_PORTS == 100
PORT_ID_SELECT_ALL_PORTS == 255
METRICS_WIRED_CLIENTS_MAX_NUM == 2000
RADIUS_CFG_DEFAULT_PORT == 1812
RADIUS_CFG_DEFAULT_PRIO == 1

ASSUME CfgParseAssumption ==
  /\ Ports \subseteq 0..(MAX_NUM_OF_PORTS - 1)
  /\ 0 \in Vids /\ Vids \subseteq 0..(MAX_VLANS - 1)
  /\ Keys \subseteq Nat
  /\ LateDocs \subseteq Docs

VARIABLES
  doc,     \* the document to be parsed, or Absent
  newr,    \* the table being applied, or Absent
  ni, oi,  \* how far the comparison with the cached table is
  pc,      \* "idle", "routes": config_router_apply(), "later": the stages
           \* after it, or "restore"
  router,  \* plat_state.router, sorted
  fib,     \* the static routes of the switch: prefix -> info, or Absent
  saved,   \* those of its saved configuration
  unknown, \* prefixes that the client lost track of: it did not see, or did not
           \* notice, what became of their routes
  doubled  \* the cached table holds a prefix twice, or held one when applied

vars == <<doc, newr, ni, oi, pc, router, fib, saved, unknown, doubled>>

-----------------------------------------------------------------------------
(* cJSON *)

Missing(x) == x \in {Absent, Wrong}
Get(o, name) == IF Missing(o) \/ name \notin DOMAIN o THEN Absent ELSE o[name]
Number(x) == IF Missing(x) THEN Nan ELSE x
Elements(x) == IF Missing(x) THEN <<>> ELSE x
IsTrue(x) == IF Missing(x) THEN FALSE ELSE x
OrElse(x, default) == IF Missing(x) THEN default ELSE x
\* A conversion to an unsigned type of w bits; NaN becomes 0.
Unsigned(x, w) == IF x = Nan THEN 0 ELSE x % (2^w)

Ok(cfg) == [ret |-> "ok", cfg |-> cfg]
Err(cfg) == [ret |-> "err", cfg |-> cfg]
\* strcmp() or strncpy() with NULL.
Crash(cfg) == [ret |-> "crash", cfg |-> cfg]

AndThen(r, Op(_)) == IF r.ret = "ok" THEN Op(r.cfg) ELSE r

\* Op on each element; the first failure ends the loop.
ForEachOf(Op(_, _), cfg, list) ==
  FoldLeft(LAMBDA r, x : IF r.ret = "ok" THEN Op(r.cfg, x) ELSE r, Ok(cfg), list)

-----------------------------------------------------------------------------
(* ethernet *)

\* A name is AllPorts or the number after "Ethernet", taken as uint16_t.  A
\* name that ends before its number leaves whatever was on the stack, so that
\* it too stands for a number; one of another form is no port's number.
proto_port_name_to_num(name) ==
  IF name = AllPorts THEN PORT_ID_SELECT_ALL_PORTS ELSE name % (2^16)

\* The list ends at the wildcard.  A port named twice counts twice.
cfg_ethernet_select_ports_parse(select_ports) ==
  LET Step(r, name) ==
        IF r.ret # "ok" \/ r.all THEN r
        ELSE IF name = Wrong THEN [r EXCEPT !.ret = "crash"]
        ELSE LET id == proto_port_name_to_num(name)
             IN  CASE id = PORT_ID_SELECT_ALL_PORTS ->
                        [r EXCEPT !.bmap = Ports, !.num = Cardinality(Ports),
                                  !.all = TRUE]
                   [] id # PORT_ID_SELECT_ALL_PORTS /\ id \notin Ports ->
                        [r EXCEPT !.ret = "err"]
                   [] OTHER -> [r EXCEPT !.bmap = @ \cup {id}, !.num = @ + 1]
  IN  FoldLeft(Step, [ret |-> "ok", bmap |-> {}, num |-> 0, all |-> FALSE],
               Elements(select_ports))

ZeroPort ==
  [state |-> FALSE, speed |-> 10, admin |-> FALSE, reset |-> FALSE,
   detection |-> Absent, limit |-> Absent, priority |-> Absent,
   authenticator |-> FALSE, control |-> "force-authorized",
   host |-> "multi-auth", guest |-> 0, fail |-> 0]

\* Whether a member is there and is refused.
Refused(o) == ~Missing(o) /\ \E name \in DOMAIN o : o[name] = Wrong

cfg_ethernet_poe_parse(poe, port) ==
  [port EXCEPT !.admin     = IsTrue(Get(poe, "admin_mode")),
               !.reset     = IsTrue(Get(poe, "do_reset")),
               !.detection = Get(poe, "detection"),
               !.limit     = Get(poe, "power_limit"),
               !.priority  = Get(poe, "priority")]

cfg_ethernet_ieee8021x_parse(x, port) ==
  [port EXCEPT !.authenticator = IsTrue(Get(x, "is_authenticator")),
               !.control = OrElse(Get(x, "authentication_mode"), "force-authorized"),
               !.host    = OrElse(Get(x, "host_mode"), "multi-auth"),
               !.guest   = Unsigned(OrElse(Get(x, "guest_vlan"), 0), 16),
               !.fail    = Unsigned(OrElse(Get(x, "unauthenticated_vlan"), 0), 16)]

\* An unknown speed, like none, leaves the first of the enumeration.
proto_port_speed_to_num(speed) ==
  IF speed \in {10, 100, 1000, 2500, 5000, 10000, 25000, 100000} THEN speed ELSE 10

EthernetPort(eth) ==
  cfg_ethernet_ieee8021x_parse(Get(eth, "ieee8021x"),
    cfg_ethernet_poe_parse(Get(eth, "poe"),
      [ZeroPort EXCEPT !.state = IsTrue(Get(eth, "enabled")),
                       !.speed = proto_port_speed_to_num(Number(Get(eth, "speed")))]))

\* How the checks of an entry end.  The speed is tested with "!speed", which
\* NaN passes.
EthernetRet(eth) ==
  LET sel == cfg_ethernet_select_ports_parse(Get(eth, "select_ports"))
  IN  CASE \/ Missing(Get(eth, "duplex"))
           \/ Number(Get(eth, "speed")) = 0
           \/ Get(eth, "select_ports") = Absent
           \/ \E name \in {"poe", "ieee8021x"} :
                Get(eth, name) = Wrong \/ Refused(Get(eth, name)) -> "err"
        [] OTHER -> IF sel.ret = "ok" /\ sel.num = 0 THEN "err" ELSE sel.ret

\* Mutant: the entry leaves alone a port that an earlier one has set.
cfg_ethernet_parse_first(cfg, eth) ==
  LET sel == cfg_ethernet_select_ports_parse(Get(eth, "select_ports"))
  IN  IF EthernetRet(eth) # "ok" THEN [ret |-> EthernetRet(eth), cfg |-> cfg]
      ELSE Ok([cfg EXCEPT
                 !.ports_to_cfg = @ \cup sel.bmap,
                 !.ports = [p \in Ports |->
                    IF p \in sel.bmap /\ @[p] = ZeroPort THEN EthernetPort(eth)
                                                         ELSE @[p]]])

cfg_ethernet_parse(cfg, eth) ==
  LET sel == cfg_ethernet_select_ports_parse(Get(eth, "select_ports"))
  IN  IF EthernetRet(eth) # "ok" THEN [ret |-> EthernetRet(eth), cfg |-> cfg]
      ELSE Ok([cfg EXCEPT
                 !.ports_to_cfg = @ \cup sel.bmap,
                 !.ports = [p \in Ports |->
                    IF p \in sel.bmap THEN EthernetPort(eth) ELSE @[p]]])

-----------------------------------------------------------------------------
(* interfaces *)

\* 0 for an interface without a VLAN, or with one that has no id.
cfg_interface2vid(interface) ==
  LET id == Number(Get(Get(interface, "vlan"), "id"))
  IN  IF id = 0 \/ (id # Nan /\ id >= MAX_VLANS) THEN MAX_VLANS
                                                  ELSE Unsigned(id, 16)

\* The first subnet; one without a prefix is none.
__cfg_interface_parse_ipv4(subnet_list) ==
  IF Elements(subnet_list) = <<>> THEN Absent ELSE Get(subnet_list[1], "prefix")

NoIgmp == [exist |-> FALSE, snooping |-> FALSE, querier |-> FALSE, groups |-> {}]

__cfg_vlan_interface_parse_multicast(cfg, vid, multicast) ==
  LET igmp == Get(multicast, "igmp")
      groups == Elements(Get(igmp, "groups"))
      snooping == OrElse(Get(igmp, "snooping_enable"), TRUE)
      querier == IsTrue(Get(igmp, "querier_enable"))
  IN  CASE igmp = Absent -> Ok(cfg)
        [] igmp # Absent /\ (\/ Get(igmp, "version") = Wrong
                             \/ \E n \in DOMAIN groups : groups[n] = Wrong) -> Err(cfg)
        [] OTHER -> Ok([cfg EXCEPT !.vlans[vid].igmp =
                          [exist |-> snooping \/ querier, snooping |-> snooping,
                           querier |-> querier, groups |-> ToSet(groups)]])

DhcpRelay(cfg, vid, dhcp) ==
  LET server == Get(dhcp, "relay_server")
      format == Get(dhcp, "circuit_id_format")
  IN  CASE dhcp = Absent -> Ok(cfg)
        [] dhcp # Absent /\ (Missing(server) \/ Missing(format)) -> Err(cfg)
        [] OTHER -> Ok([cfg EXCEPT !.vlans[vid].relay =
                          [server |-> server,
                           circ |-> CASE format = "{VLAN-ID}" -> "%p"
                                      [] format = "{Interface}" -> "%i"
                                      [] OTHER -> "%h:%p"]])

VlanIpv4(cfg, vid, ipv4) ==
  LET prefix == __cfg_interface_parse_ipv4(Get(ipv4, "subnet"))
      Multicast(c) == __cfg_vlan_interface_parse_multicast(c, vid, Get(ipv4, "multicast"))
      Relay(c) == DhcpRelay(c, vid, Get(ipv4, "dhcp"))
  IN  IF prefix = Wrong THEN Err(cfg)
      ELSE AndThen(AndThen(Ok([cfg EXCEPT !.vlans[vid].ip = prefix]), Multicast), Relay)

\* strcmp() of a tag that is not there.
VlanMembers(cfg, vid, eth) ==
  LET sel == cfg_ethernet_select_ports_parse(Get(eth, "select_ports"))
      tag == Get(eth, "vlan_tag")
  IN  CASE sel.ret = "crash" -> Crash(cfg)
        [] sel.ret = "err" \/ (sel.ret = "ok" /\ sel.num = 0) -> Err(cfg)
        [] OTHER -> CASE tag = Absent -> Crash(cfg)
                      [] tag = Wrong  -> Err(cfg)
                      [] OTHER -> Ok([cfg EXCEPT !.vlans[vid].members = @ \cup (sel.bmap \X {tag})])

cfg_vlan_interface_parse(cfg, interface) ==
  LET vid == cfg_interface2vid(interface)
      Member(c, eth) == VlanMembers(c, vid, eth)
      Address(c) == VlanIpv4([c EXCEPT !.vlans[vid].ip = Absent,
                                       !.vlans[vid].relay = Absent],
                             vid, Get(interface, "ipv4"))
  IN  IF Get(interface, "vlan") = Absent \/ vid = MAX_VLANS THEN Err(cfg)
      ELSE AndThen(ForEachOf(Member, [cfg EXCEPT !.vlans_to_cfg = @ \cup {vid}],
                             Elements(Get(interface, "ethernet"))),
                   Address)

PortAddress(cfg, interface) ==
  LET ethernet == Elements(Get(interface, "ethernet"))
      sel == cfg_ethernet_select_ports_parse(Get(ethernet[1], "select_ports"))
      prefix == __cfg_interface_parse_ipv4(Get(Get(interface, "ipv4"), "subnet"))
  IN  IF Len(ethernet) # 1 THEN Err(cfg)
      ELSE CASE sel.ret = "crash" -> Crash(cfg)
             [] \/ sel.ret = "err"
                \/ sel.ret = "ok" /\ (sel.num # 1 \/ prefix = Wrong) -> Err(cfg)
             [] OTHER -> Ok(IF prefix = Absent THEN cfg
                            ELSE [cfg EXCEPT !.portsl2[Min(sel.bmap)] = prefix])

\* Mutant: a VLAN that could not be parsed is tried as a port.
cfg_port_interface_parse_any(cfg, interface) == PortAddress(cfg, interface)

cfg_port_interface_parse(cfg, interface) ==
  IF Get(interface, "vlan") # Absent THEN Err(cfg) ELSE PortAddress(cfg, interface)

cfg_interfaces_parse(cfg, interface) ==
  LET vlan == cfg_vlan_interface_parse(cfg, interface)
  IN  IF vlan.ret = "err" THEN cfg_port_interface_parse(vlan.cfg, interface) ELSE vlan

-----------------------------------------------------------------------------
(* switch *)

\* The priority is taken from the port, when there is one at all.
RadiusHost(x) ==
  LET port == Get(x, "port")
      number == Number(port)
  IN  [host |-> x.host,
       port |-> IF port = Absent \/ number = 0 THEN RADIUS_CFG_DEFAULT_PORT
                ELSE Unsigned(number, 16),
       key |-> OrElse(Get(x, "key"), ""),
       prio |-> IF Get(x, "prio") = Absent \/ Number(Get(x, "prio")) = 0
                THEN RADIUS_CFG_DEFAULT_PRIO ELSE Unsigned(number, 8)]

cfg_switch_ieee8021x_parse(cfg, ieee8021x) ==
  LET radius == Get(ieee8021x, "radius")
      Host(c, x) == IF x = Wrong \/ Missing(Get(x, "host")) THEN Err(c)
                    ELSE Ok([c EXCEPT !.radius_hosts_list = <<RadiusHost(x)>> \o @])
  IN  CASE ieee8021x = Absent -> Ok(cfg)
        [] ieee8021x = Wrong \/ radius = Wrong -> Err(cfg)
        [] OTHER -> ForEachOf(Host, [cfg EXCEPT !.is_auth_ctrl_enabled =
                                       IsTrue(Get(ieee8021x, "auth_control_enable"))],
                              Elements(radius))

DefaultInstance ==
  [enabled |-> FALSE, forward_delay |-> 15, hello_time |-> 2, max_age |-> 20,
   priority |-> 32768]

\* An instance without an id is instance 0; none may come twice.
StpInstances(cfg, instances) ==
  LET id(x) == OrElse(Get(x, "id"), 0)
      Instance(x) == [name \in DOMAIN DefaultInstance |->
                        OrElse(Get(x, name), DefaultInstance[name])]
      Parse(c, x) == IF id(x) >= MAX_VLANS \/ id(x) \in DOMAIN c.stp_instances
                     THEN Err(c)
                     ELSE Ok([c EXCEPT !.stp_instances = @ @@ (id(x) :> Instance(x))])
  IN  ForEachOf(Parse, cfg, instances)

cfg_ethernet_port_isolation_interface_parse(link) ==
  LET list == Elements(Get(link, "interface_list"))
  IN  list # <<>> /\ Wrong \notin ToSet(list)

cfg_switch_port_isolation_parse(cfg, port_isolation) ==
  LET sessions == Get(port_isolation, "sessions")
      Session(c, x) ==
        IF \/ Missing(Get(x, "id"))
           \/ \E n \in DOMAIN c.port_isolation : c.port_isolation[n].id = x.id
           \/ \E link \in {"uplink", "downlink"} :
                ~cfg_ethernet_port_isolation_interface_parse(Get(x, link))
        THEN Err(c) ELSE Ok([c EXCEPT !.port_isolation = Append(@, x)])
  IN  CASE port_isolation = Absent -> Ok(cfg)
        [] port_isolation # Absent /\ Missing(sessions) -> Err(cfg)
        [] OTHER -> ForEachOf(Session, cfg, sessions)

cfg_switch_parse(cfg, sw) ==
  LET loop_detection == Get(sw, "loop_detection")
      protocol == Get(loop_detection, "protocol")
      Stp(c) == IF protocol = Wrong THEN Err(c)
                ELSE StpInstances([c EXCEPT !.stp_mode = OrElse(protocol, "none")],
                                  Elements(Get(loop_detection, "instances")))
      Isolation(c) == cfg_switch_port_isolation_parse(c, Get(sw, "port_isolation"))
  IN  AndThen(AndThen(cfg_switch_ieee8021x_parse(cfg, Get(sw, "ieee8021x")), Stp),
              Isolation)

-----------------------------------------------------------------------------
(* metrics, services, unit *)

NoState == [enabled |-> FALSE, interval |-> 0, clients |-> FALSE, lldp |-> FALSE,
            max_mac_count |-> 0]

\* The state event of clients without LLDP is disabled.
cfg_metrics_parse(metrics) ==
  LET statistics == Get(metrics, "statistics")
      interval == Get(statistics, "interval")
      types == ToSet(Elements(Get(statistics, "types")))
      health == Get(Get(metrics, "health"), "interval")
      state == [enabled |-> interval > 0, interval |-> interval,
                clients |-> "clients" \in types, lldp |-> "lldp" \in types,
                max_mac_count |-> OrElse(Get(statistics, "max_num"),
                                         METRICS_WIRED_CLIENTS_MAX_NUM)]
  IN  [state |-> IF \/ interval = Absent \/ Get(statistics, "types") = Absent
                    \/ state.enabled /\ ~state.lldp /\ state.clients
                 THEN NoState ELSE state,
       healthcheck |-> OrElse(health, 0)]

cfg_service_log_parse(s) ==
  [port |-> s.port, priority |-> OrElse(Get(s, "priority"), 7),
   size |-> OrElse(Get(s, "size"), 1000),
   is_tcp |-> Get(s, "proto") = "tcp", host |-> OrElse(Get(s, "host"), "")]

cfg_services_parse(cfg, services) ==
  LET log == Get(services, "log")
      enable(name) == Get(Get(services, name), "enable")
  IN  IF \/ log # Absent /\ (Missing(Get(log, "port")) \/ Refused(log))
         \/ \E name \in {"ssh", "telnet", "http"} :
              Get(services, name) = Wrong \/ enable(name) = Wrong
      THEN Err(cfg)
      ELSE Ok([cfg EXCEPT
                 !.log_cfg = IF log = Absent THEN <<>> ELSE <<cfg_service_log_parse(log)>>,
                 !.services = {name \in {"ssh", "telnet", "http"} : IsTrue(enable(name))}])

\* strncpy() of a password that is no string.
cfg_unit_parse(cfg, unit) ==
  LET threshold == Get(Get(unit, "poe"), "usage_threshold")
  IN  IF Get(unit, "system_password") = Wrong THEN Crash(cfg)
      ELSE Ok([cfg EXCEPT !.unit =
             [power_mgmt |-> OrElse(Get(Get(unit, "poe"), "power_management"), Absent),
              usage_threshold |-> IF Missing(threshold) THEN Absent
                                  ELSE Unsigned(threshold, 8),
              password |-> Get(unit, "system_password"),
              mc_flood_control |-> IsTrue(Get(unit, "mc_flood_control")),
              querier_enable |-> IsTrue(Get(unit, "querier_enable"))]])

-----------------------------------------------------------------------------
(* The route table *)

ucentral_router_fib_db_alloc(max) == [arr |-> <<>>, max |-> max]

\* Beyond the size of the table a route is dropped, and nobody looks.
ucentral_router_fib_db_append(r, node) ==
  IF Len(r.arr) = r.max THEN r ELSE [r EXCEPT !.arr = Append(@, node)]

\* route_prefix_obj2node_key() and the next hop; Wrong if one is not an address.
RouteNode(x, info) ==
  IF \/ Missing(Get(x, "prefix"))
     \/ info.type = "nexthop" /\ Missing(Get(x, "nexthop"))
  THEN Wrong ELSE [key |-> x.prefix, info |-> info]

\* The routes of one list of the document.
RoutesOf(list, Info(_)) ==
  [n \in DOMAIN Elements(list) |-> RouteNode(list[n], Info(list[n]))]

InterfaceRoutes(interface) ==
  LET vid == cfg_interface2vid(interface)
      ipv4 == Get(interface, "ipv4")
      Nexthop(x) == [type |-> "nexthop", vid |-> vid, gw |-> Get(x, "nexthop")]
      Broadcast(x) == [type |-> "broadcast", vid |-> vid]
  IN  IF vid = MAX_VLANS THEN <<>>
      ELSE RoutesOf(Get(ipv4, "gateway"), Nexthop)
             \o RoutesOf(Get(ipv4, "broadcast"), Broadcast)

\* What both passes of cfg_process_prefixes() go through, in order.
cfg_process_prefixes(config) ==
  LET globals == Get(config, "globals")
      Blackhole(x) == [type |-> "blackhole"]
      Unreachable(x) == [type |-> "unreachable"]
  IN  RoutesOf(Get(globals, "ipv4_blackhole"), Blackhole)
        \o RoutesOf(Get(globals, "ipv4_unreachable"), Unreachable)
        \o FoldLeft(LAMBDA t, i : t \o InterfaceRoutes(i), <<>>, config.interfaces)

\* Mutant: the counting pass leaves out the unreachable routes.
CountPrefixes_short(config) ==
  Len(SelectSeq(cfg_process_prefixes(config),
                LAMBDA node : node = Wrong \/ node.info.type # "unreachable"))

\* The pass without a table: the number of routes.
CountPrefixes(config) == Len(cfg_process_prefixes(config))

cfg_router_parse(cfg, config) ==
  LET Node(c, node) ==
        IF node = Wrong THEN Err(c)
        ELSE Ok([c EXCEPT !.router = ucentral_router_fib_db_append(@, node)])
  IN  ForEachOf(Node, [cfg EXCEPT !.router =
                         ucentral_router_fib_db_alloc(CountPrefixes(config))],
                cfg_process_prefixes(config))

-----------------------------------------------------------------------------
EmptyCfg ==
  [ports |-> [p \in Ports |-> ZeroPort], ports_to_cfg |-> Ports,
   vlans |-> [v \in Vids |-> [members |-> {}, ip |-> Absent, igmp |-> NoIgmp,
                              relay |-> Absent]],
   vlans_to_cfg |-> {}, portsl2 |-> [p \in Ports |-> Absent],
   is_auth_ctrl_enabled |-> FALSE, radius_hosts_list |-> <<>>,
   stp_mode |-> "none", stp_instances |-> <<>>, port_isolation |-> <<>>,
   metrics |-> cfg_metrics_parse(Absent), log_cfg |-> <<>>, services |-> {},
   unit |-> Absent, router |-> ucentral_router_fib_db_alloc(0)]

cfg_parse(config) ==
  LET Interfaces(c) == ForEachOf(cfg_interfaces_parse, c, config.interfaces)
      Switch(c) == cfg_switch_parse(c, Get(config, "switch"))
      Metrics(c) == Ok([c EXCEPT !.metrics = cfg_metrics_parse(Get(config, "metrics"))])
      Services(c) == cfg_services_parse(c, Get(config, "services"))
      Unit(c) == IF Get(config, "unit") = Absent THEN Ok(c)
                 ELSE cfg_unit_parse(c, config.unit)
      Router(c) == cfg_router_parse(c, config)
  IN  IF \/ \E name \in {"ethernet", "interfaces"} : Missing(Get(config, name))
         \/ \E name \in {"services", "metrics", "unit"} : Get(config, name) = Wrong
      THEN Err(EmptyCfg)
      ELSE AndThen(AndThen(AndThen(AndThen(AndThen(AndThen(
             ForEachOf(cfg_ethernet_parse, EmptyCfg, config.ethernet),
             Interfaces), Switch), Metrics), Services), Unit), Router)

\* TLC parses each document once.
Parsed == [d \in Docs |-> cfg_parse(d)]

-----------------------------------------------------------------------------
(* config_router_apply() within plat_config_apply() *)

NoRoutes == [x \in Keys |-> Absent]

Init ==
  /\ doc = Absent /\ newr = Absent /\ ni = 1 /\ oi = 1 /\ pc = "idle"
  /\ router = <<>>
  /\ fib = NoRoutes /\ saved = NoRoutes
  /\ unknown = {} /\ doubled = FALSE

\* configure_handle() has a document.
Receive(d) ==
  /\ doc = Absent /\ pc = "idle"
  /\ d \in LateDocs \/ <<router, fib, saved>> = <<<<>>, NoRoutes, NoRoutes>>
  /\ doc' = d
  /\ UNCHANGED <<newr, ni, oi, pc, router, fib, saved, unknown, doubled>>

\* cfg_parse() returns NULL: for this document, or for want of memory or of
\* the list of ports.
Refuse ==
  /\ doc # Absent
  /\ Parsed[doc].ret # "crash"
  /\ doc' = Absent
  /\ UNCHANGED <<newr, ni, oi, pc, router, fib, saved, unknown, doubled>>

HasDouble(table) ==
  \E m, n \in DOMAIN table : m # n /\ table[m].key = table[n].key

\* qsort() puts equal keys in any order.
ucentral_router_fib_db_sort(arr) ==
  {table \in {[n \in DOMAIN arr |-> arr[f[n]]] : f \in Permutations(DOMAIN arr)} :
     \A n \in 1..(Len(arr) - 1) : table[n].key <= table[n + 1].key}

StartApply ==
  /\ doc # Absent
  /\ Parsed[doc].ret = "ok"
  /\ newr' \in ucentral_router_fib_db_sort(Parsed[doc].cfg.router.arr)
  /\ doc' = Absent /\ pc' = "routes"
  /\ doubled' = (doubled \/ HasDouble(newr'))
  /\ UNCHANGED <<ni, oi, router, fib, saved, unknown>>

router_db_diff_get ==
  CASE oi > Len(router) -> -1
    [] oi <= Len(router) /\ ni > Len(newr) -> 1
    [] OTHER -> newr[ni].key - router[oi].key

Applying == pc = "routes" /\ (ni <= Len(newr) \/ oi <= Len(router))

router_fib_info2gnma_attr(info) == info.type \in {"blackhole", "connected", "nexthop"}

Create(node) ==
  /\ router_fib_info2gnma_attr(node.info)
  /\ fib' = [fib EXCEPT ![node.key] = node.info]
  /\ unknown' = unknown \ {node.key}

Add ==
  /\ Applying /\ router_db_diff_get < 0
  /\ Create(newr[ni])
  /\ ni' = ni + 1
  /\ UNCHANGED <<doc, newr, oi, pc, router, saved, doubled>>

\* A route that could not be removed is forgotten.
Del ==
  /\ Applying /\ router_db_diff_get > 0
  /\ LET key == router[oi].key
     IN  \/ fib' = [fib EXCEPT ![key] = Absent] /\ unknown' = unknown \ {key}
         \/ UNCHANGED fib /\ unknown' = unknown \cup {key}
  /\ oi' = oi + 1
  /\ UNCHANGED <<doc, newr, ni, pc, router, saved, doubled>>

\* Mutant: the routes of a prefix are taken to be the same.
Upd_key ==
  /\ Applying /\ router_db_diff_get = 0
  /\ UNCHANGED <<fib, unknown>>
  /\ ni' = ni + 1 /\ oi' = oi + 1
  /\ UNCHANGED <<doc, newr, pc, router, saved, doubled>>

Upd ==
  /\ Applying /\ router_db_diff_get = 0
  /\ IF newr[ni].info = router[oi].info THEN UNCHANGED <<fib, unknown>>
                                        ELSE Create(newr[ni])
  /\ ni' = ni + 1 /\ oi' = oi + 1
  /\ UNCHANGED <<doc, newr, pc, router, saved, doubled>>

\* The end of the loop; the cache is replaced.
RoutesApplied ==
  /\ pc = "routes" /\ ~Applying
  /\ router' = newr
  /\ newr' = Absent /\ ni' = 1 /\ oi' = 1
  /\ pc' = "later"
  /\ UNCHANGED <<doc, fib, saved, unknown, doubled>>

\* Another route that gNMA has no attributes for, or that the switch refuses.  The
\* old one may be gone, or the request have been carried out all the same.
RouteFails ==
  /\ Applying /\ router_db_diff_get <= 0
  /\ router_db_diff_get = 0 => newr[ni].info # router[oi].info
  /\ LET node == newr[ni]
     IN  \/ UNCHANGED fib
         \/ router_db_diff_get = 0 /\ fib' = [fib EXCEPT ![node.key] = Absent]
         \/ /\ router_fib_info2gnma_attr(node.info)
            /\ fib' = [fib EXCEPT ![node.key] = node.info]
  /\ newr' = Absent /\ ni' = 1 /\ oi' = 1
  /\ pc' = "restore"
  /\ UNCHANGED <<doc, router, saved, unknown, doubled>>

\* A stage before or after the routes fails.
StageFails ==
  /\ (doc # Absent /\ Parsed[doc].ret = "ok") \/ pc = "later"
  /\ doc' = Absent
  /\ pc' = "restore"
  /\ UNCHANGED <<newr, ni, oi, router, fib, saved, unknown, doubled>>

\* plat_config_save(), which may fail and have saved or not.
plat_config_save ==
  /\ pc = "later"
  /\ saved' \in {fib, saved}
  /\ pc' = "idle"
  /\ UNCHANGED <<doc, newr, ni, oi, router, fib, unknown, doubled>>

\* plat_state_init() on a switch with the routes f: it reads the blackhole routes
\* only, or none when that read fails, or another before it.
ReadRoutes(f) ==
  LET blackholes == {x \in Keys : f[x] # Absent /\ f[x].type = "blackhole"}
  IN  /\ fib' = f
      /\ \E read \in {blackholes, {}} :
           /\ router' = [n \in 1..Cardinality(read) |->
                           LET x == SetToSortSeq(read, <)[n] IN [key |-> x, info |-> f[x]]]
           /\ unknown' = {x \in Keys : f[x] # Absent} \ read
      /\ doubled' = FALSE
      /\ doc' = Absent /\ newr' = Absent /\ ni' = 1 /\ oi' = 1
      /\ pc' = "idle"
      /\ UNCHANGED saved

\* The route of x in the cached table.
Cached(x) ==
  LET found == {n \in DOMAIN router : router[n].key = x}
  IN  IF found = {} THEN Absent ELSE router[Min(found)].info

\* plat_config_restore().  When the copy fails the cache stays as it is, and so
\* does the switch, or not.
plat_config_restore ==
  /\ pc = "restore"
  /\ \/ ReadRoutes(saved)
     \/ /\ fib' \in {fib, saved}
        /\ unknown' = {x \in Keys : fib'[x] # Cached(x)}
        /\ pc' = "idle"
        /\ UNCHANGED <<doc, newr, ni, oi, router, saved, doubled>>

\* The process ends, by itself or in cfg_parse(), and starts again, and the switch
\* with it or not.
Restart ==
  /\ doc # Absent \/ pc # "idle"
  /\ ReadRoutes(fib) \/ ReadRoutes(saved)

Next ==
  \/ \E d \in Docs : Receive(d)
  \/ Refuse
  \/ StartApply
  \/ Add \/ Del \/ Upd
  \/ RoutesApplied
  \/ RouteFails
  \/ StageFails
  \/ plat_config_save
  \/ plat_config_restore
  \/ Restart

Spec == Init /\ [][Next]_vars

-----------------------------------------------------------------------------
(* What an accepted document means, without the order of the parser *)

Accepted == doc # Absent /\ Parsed[doc].ret = "ok"
Cfg == Parsed[doc].cfg

SelectedBy(eth) ==
  LET ids == {proto_port_name_to_num(name) : name \in ToSet(eth.select_ports)}
  IN  IF PORT_ID_SELECT_ALL_PORTS \in ids THEN Ports ELSE ids

\* The last of the entries, or Absent.
LastOf(list, Test(_)) ==
  LET found == {n \in DOMAIN list : Test(list[n])}
  IN  IF found = {} THEN Absent ELSE list[Max(found)]

FirstPrefix(interface) ==
  LET subnet == Elements(Get(Get(interface, "ipv4"), "subnet"))
  IN  IF subnet = <<>> THEN Absent ELSE Get(subnet[1], "prefix")

(* Every port of the platform is configured: as the last "ethernet" entry    *)
(* that selects it says, with nothing left of an earlier one, and reset when *)
(* no entry selects it (cfg_ethernet_parse(), cfg_parse()).                  *)
PortsFollowEthernet ==
  Accepted =>
    /\ Cfg.ports_to_cfg = Ports
    /\ \A p \in Ports :
         LET last == LastOf(doc.ethernet, LAMBDA eth : p \in SelectedBy(eth))
         IN  Cfg.ports[p] = IF last = Absent THEN ZeroPort ELSE EthernetPort(last)

(* The VLANs that cfg_interfaces_parse() configures are those of the         *)
(* interfaces with a "vlan": with the members that all interfaces of the     *)
(* VLAN give it together, the address and the relay of the last one, and the *)
(* multicast groups of the last one with IGMP.  No interface is configured   *)
(* by halves, or as a port after it failed as a VLAN.                        *)
VlansFollowInterfaces ==
  Accepted =>
    LET OfVlan(v) == {i \in ToSet(doc.interfaces) :
                        "vlan" \in DOMAIN i /\ cfg_interface2vid(i) = v}
        LastWith(Test(_)) == LastOf(doc.interfaces, Test)
        Igmp(i) == Get(Get(Get(i, "ipv4"), "multicast"), "igmp")
    IN  /\ Cfg.vlans_to_cfg = {v \in Vids : OfVlan(v) # {}}
        /\ \A v \in Vids :
             LET last == LastWith(LAMBDA i : i \in OfVlan(v))
                 igmp == LastWith(LAMBDA i : i \in OfVlan(v) /\ Igmp(i) # Absent)
                 relay == Get(Get(Get(last, "ipv4"), "dhcp"), "relay_server")
             IN  /\ Cfg.vlans[v].members =
                      UNION {SelectedBy(eth) \X ({"tagged", "un-tagged"} \cap {eth.vlan_tag}) :
                               eth \in UNION {ToSet(Elements(Get(i, "ethernet"))) : i \in OfVlan(v)}}
                 /\ Cfg.vlans[v].ip = FirstPrefix(last)
                 /\ Get(Cfg.vlans[v].relay, "server") = relay
                 /\ Cfg.vlans[v].igmp.groups = ToSet(Elements(Get(Igmp(igmp), "groups")))
        /\ \A p \in Ports :
             Cfg.portsl2[p] =
               FirstPrefix(LastWith(LAMBDA i : /\ "vlan" \notin DOMAIN i
                                           /\ p \in SelectedBy(i.ethernet[1])
                                           /\ FirstPrefix(i) # Absent))

(* The table of an accepted document has room for every route that the       *)
(* document declares, and holds each of them once: the two passes of         *)
(* cfg_process_prefixes() agree.                                             *)
TableHoldsRoutes ==
  Accepted =>
    LET arr == Cfg.router.arr
        Globals(name) == Elements(Get(Get(doc, "globals"), name))
        OfInterface(n, name) == Elements(Get(Get(doc.interfaces[n], "ipv4"), name))
        declared ==
          {<<"blackhole", n, 0>> : n \in DOMAIN Globals("ipv4_blackhole")}
            \cup {<<"unreachable", n, 0>> : n \in DOMAIN Globals("ipv4_unreachable")}
            \cup UNION {{<<"nexthop", n, m>> : m \in DOMAIN OfInterface(n, "gateway")}
                        \cup {<<"broadcast", n, m>> : m \in DOMAIN OfInterface(n, "broadcast")} :
                          n \in DOMAIN doc.interfaces}
        Prefix(d) == CASE d[1] = "blackhole"   -> Globals("ipv4_blackhole")[d[2]].prefix
                       [] d[1] = "unreachable" -> Globals("ipv4_unreachable")[d[2]].prefix
                       [] d[1] = "nexthop"     -> OfInterface(d[2], "gateway")[d[3]].prefix
                       [] OTHER                -> OfInterface(d[2], "broadcast")[d[3]].prefix
    IN  /\ Len(arr) = Cardinality(declared)
        /\ \A d \in declared : \E n \in DOMAIN arr :
             arr[n].key = Prefix(d) /\ arr[n].info.type = d[1]

(* While no table is being applied the cached table tells, prefix by prefix, *)
(* which route the switch has, but for the prefixes that the client lost     *)
(* track of: it could not read or remove their route, or a restore failed.   *)
(* Later configurations pick these up again only as far as they change them. *)
(* It holds as long as no table with a prefix twice was applied:             *)
(* config_router_apply() takes the second of an old pair for a route to      *)
(* remove.                                                                   *)
SwitchHoldsTable ==
  pc \in {"idle", "later"} /\ ~doubled =>
    \A x \in Keys \ unknown : fib[x] = Cached(x)

=============================================================================
