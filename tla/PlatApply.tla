----------------------------- MODULE PlatApply ------------------------------
(***************************************************************************)
(* plat_config_apply() of platform/brcm-sonic/plat-gnma.c, the cache       *)
(* (plat_state) it compares a configuration with, and plat_state_init(),   *)
(* which fills the cache from the switch.                                  *)
(*                                                                         *)
(* The apply is a sequence of stages.  A stage is an operator from the     *)
(* configuration c, the switch s, the cache k and the feature states f to  *)
(* the requests that it makes if none of them fails.                       *)
(***************************************************************************)
EXTENDS Gnma, FiniteSetsExt

FIRST_VLAN == 1

PLAT_DHCP_RELAY_DEFAULT_MAXHOP_CNT == 10

PLAT_DHCP_RELAY_MAX_SERVERS == 1

Features == {"CORE", "POE", "AAA"}

CacheItems ==
  ({"relay", "circ", "hop", "policy", "stp"} \X Vlans)
    \cup ({"pae", "ctrl", "host", "guest", "fail", "l2ip"} \X Ports)
    \cup ({"detect", "prio", "limit", "poeadmin"} \X PoePorts)
    \cup ({"radius", "dac"} \X Hosts)
    \cup ({"route"} \X Routes)
    \cup {<<i>> : i \in {"stpmode", "stpattr", "mgmt", "thr", "authctrl"}}

\* The members of S in ascending order, and the lists in seqs one after another:
\* two operators of SequencesExt, a module too large for the proofs about this one.
Sorted(S) == CHOOSE q \in [1..Cardinality(S) -> S] :
               \A m, n \in DOMAIN q : m < n => q[m] < q[n]

Joined(seqs) ==
  LET join[n \in 0..Len(seqs)] == IF n = 0 THEN <<>> ELSE join[n - 1] \o seqs[n]
  IN  join[Len(seqs)]

\* The concatenation of Op(x) over the members of S in ascending order.
ForEach(S, Op(_)) == Joined([n \in 1..Cardinality(S) |-> Op(Sorted(S)[n])])

When(cond, reqs) == IF cond THEN reqs ELSE <<>>

CfgVlans(c) == {v \in Vlans : c[<<"vlan", v>>]}

-----------------------------------------------------------------------------
(* config_vlan_apply() *)

plat_vlan_rif_set(s, k, v, ip) ==
  LET old   == gnma_vlan_erif_attr_pref_list_get(s, v)
      relay == k[<<"relay", v>>]
  IN  <<Read>>
        \o When(relay # 0, <<gnma_vlan_dhcp_relay_server_remove(v, relay)>>)
        \o gnma_igmp_snooping_set(v, FALSE, FALSE)
        \o When(old # 0 /\ ip = 0,
                <<Local(<<"relay", v>> :> 0), gnma_vlan_erif_attr_pref_delete(v)>>)
        \o When(ip # 0 /\ ip # old,
                <<gnma_vlan_erif_attr_pref_update(v, ip)>>
                  \o When(relay # 0, <<gnma_vlan_dhcp_relay_server_add(v, relay)>>))

plat_vlan_list_set(c, s, k) ==
  LET gone == gnma_vlan_list_get(s) \ (CfgVlans(c) \cup {FIRST_VLAN})
      Delete(v) == plat_vlan_rif_set(s, k, v, 0) \o <<gnma_vlan_remove(v)>>
  IN  <<Read>> \o ForEach(gone, Delete)

\* What the VLAN's part of the one Set of all VLANs changes.
plat_vlan_memberlist_set(c, s, v) ==
  LET now  == gnma_vlan_member_bmap_get(s, v)
      Want(p) == c[<<"member", v, p>>]
      lost == {p \in Ports : now[p] # "none" /\ Want(p) = "none"}
      new  == {p \in Ports : Want(p) \notin {"none", now[p]}}
  IN  gnma_vlan_create(v)
        @@ [i \in {"member"} \X {v} \X lost |->
              gnma_vlan_member_remove(v, i[3])[i]]
        @@ [i \in {"member"} \X {v} \X new |->
              gnma_vlan_member_create(v, i[3], Want(i[3]))[i]]

config_vlan_members_apply(c, s) ==
  LET Part(v) == plat_vlan_memberlist_set(c, s, v)
  IN  <<Read,
        gnma_change_exec([i \in UNION {DOMAIN Part(v) : v \in CfgVlans(c)} |->
                            Part(i[2])[i]])>>

-----------------------------------------------------------------------------
(* plat_port_config_apply() and config_unit_apply() *)

config_port_ieee8021x_apply(c, k, p) ==
  LET Set(i, r) == When(k[<<i, p>>] # c[<<i, p>>], <<r>>)
  IN  Set("pae", gnma_port_ieee8021x_pae_mode_set(p, c[<<"pae", p>>]))
        \o Set("ctrl", gnma_port_ieee8021x_port_ctrl_set(p, c[<<"ctrl", p>>]))
        \o Set("host", gnma_port_ieee8021x_port_host_mode_set(p, c[<<"host", p>>]))
        \o Set("guest", gnma_port_ieee8021x_guest_vlan_set(p, c[<<"guest", p>>]))
        \o Set("fail", gnma_port_ieee8021x_unauthorized_vlan_set(p, c[<<"fail", p>>]))
        \o <<Local([i \in {"pae", "ctrl", "host", "guest", "fail"} \X {p} |-> c[i]])>>

\* The words of the configuration, with the default for an unknown one.
__poe_port_detection_mode_str2num(str) ==
  Decode([pt2_dot3af |-> "2pt-dot3af", pt2_dot3af_leg |-> "2pt-dot3af+legacy",
          pt4_dot3af |-> "4pt-dot3af", pt4_dot3af_leg |-> "4pt-dot3af+legacy",
          dot3bt |-> "dot3bt", dot3bt_leg |-> "dot3bt+legacy",
          leg |-> "legacy"], str, "pt4_dot3af")

__poe_port_priority_mode_str2num(str) ==
  Decode([low |-> "low", medium |-> "medium", high |-> "high",
          critical |-> "critical"], str, "low")

__poe_power_mgmt_str2num(str) ==
  Decode([class |-> "class", dynamic |-> "dynamic",
          dynamic_priority |-> "dynamic-priority", static |-> "static",
          static_priority |-> "static-priority"], str, "class")

\* "" and -1 stand for what the configuration leaves out (is_..._set).
config_poe_port_apply(c, k, p) ==
  LET mode  == __poe_port_detection_mode_str2num(c[<<"detect", p>>])
      prio  == __poe_port_priority_mode_str2num(c[<<"prio", p>>])
      user  == c[<<"limit", p>>] # -1
      limit == [user |-> user, limit |-> IF user THEN c[<<"limit", p>>] ELSE 0]
      up    == c[<<"poeadmin", p>>]
  IN  When(c[<<"detect", p>>] # "" /\ k[<<"detect", p>>] # mode,
           <<Then(gnma_poe_port_detection_mode_set(p, mode),
                  <<"detect", p>> :> mode)>>)
        \o When(c[<<"prio", p>>] # "" /\ k[<<"prio", p>>] # prio,
                <<Then(gnma_poe_port_priority_set(p, prio), <<"prio", p>> :> prio)>>)
        \o When(k[<<"limit", p>>] # limit,
                <<Then(gnma_poe_port_power_limit_set(p, user, limit.limit),
                       <<"limit", p>> :> limit)>>)
        \o When(k[<<"poeadmin", p>>] # up,
                <<Then(gnma_poe_port_admin_mode_set(p, up), <<"poeadmin", p>> :> up)>>)
        \o When(c[<<"poereset", p>>], <<gnma_poe_port_reset(p)>>)

\* SPEED_TO_STR() knows every speed but 0.
plat_port_speed_set(p, speed) ==
  IF speed = 0 THEN Abort ELSE gnma_port_speed_set(p, speed)

\* Mutant: 802.1X is applied whether or not the feature is initialized.
plat_port_config_apply_always(c, k, f) ==
  LET Port(p) ==
        <<gnma_port_admin_state_set(p, c[<<"admin", p>>])>>
          \o When(c[<<"admin", p>>], <<plat_port_speed_set(p, c[<<"speed", p>>])>>)
          \o config_port_ieee8021x_apply(c, k, p)
          \o When(p \in PoePorts /\ f["POE"] = "OK", config_poe_port_apply(c, k, p))
  IN  ForEach(Ports, Port)

\* The PoE ports are known only when plat_state_init() came that far.
plat_port_config_apply(c, k, f) ==
  LET Port(p) ==
        <<gnma_port_admin_state_set(p, c[<<"admin", p>>])>>
          \o When(c[<<"admin", p>>], <<plat_port_speed_set(p, c[<<"speed", p>>])>>)
          \o When(f["AAA"] = "OK", config_port_ieee8021x_apply(c, k, p))
          \o When(p \in PoePorts /\ f["POE"] = "OK", config_poe_port_apply(c, k, p))
  IN  ForEach(Ports, Port)

config_unit_apply(c, k) ==
  LET mode == __poe_power_mgmt_str2num(c[<<"mgmt">>])
      thr  == c[<<"thr">>]
  IN  IF c[<<"flood">>] THEN <<Abort>>
      ELSE When(c[<<"mgmt">>] # "" /\ k[<<"mgmt">>] # mode,
                <<Then(gnma_poe_power_mgmt_set(mode), <<"mgmt">> :> mode)>>)
             \o When(thr # -1 /\ k[<<"thr">>] # thr,
                     <<Then(gnma_poe_usage_threshold_set(thr), <<"thr">> :> thr)>>)

-----------------------------------------------------------------------------
(* config_stp_apply() *)

config_stp_apply_ports_enable_all == <<Read, Read, gnma_stp_ports_enable(Ports)>>

\* <<"stpattr">> is 0 when the cached mode attributes are all zero, which is
\* what the configuration asks for.
config_stp_apply(c, k) ==
  LET mode == c[<<"stpmode">>]
      fresh == k[<<"stpmode">>] = "rpvst" /\ k[<<"stpattr">>] = 0
      Vlan(v) ==
        LET attr == c[<<"stp", v>>]
        IN  When(k[<<"stp", v>>] # attr,
                 <<Then(gnma_stp_vid_set(v, attr), <<"stp", v>> :> attr)>>)
  IN  CASE mode = "none" ->
             When(k[<<"stpmode">>] # "none",
                  gnma_stp_mode_set("none")
                    \o <<Local((<<"stpmode">> :> "none")
                                 @@ [i \in {"stp"} \X Vlans |-> 0])>>)
        [] mode = "rpvst" ->
             When(~fresh,
                  gnma_stp_mode_set("rpvst")
                    \o config_stp_apply_ports_enable_all
                    \o <<Local((<<"stpmode">> :> "rpvst") @@ (<<"stpattr">> :> 0))>>)
               \o ForEach(Vlans, Vlan)
        [] OTHER -> <<Abort>>

-----------------------------------------------------------------------------
(* config_vlan_ipv4_apply(), config_portl2_ipv4_apply() *)

plat_vlan_igmp_set(c, v) ==
  gnma_igmp_snooping_set(v, c[<<"snoop", v>>], c[<<"querier", v>>])
    \o <<gnma_igmp_static_groups_set(v, c[<<"groups", v>>])>>

config_vlan_ipv4_apply(c, s, k) ==
  LET Vlan(v) == plat_vlan_rif_set(s, k, v, c[<<"ip", v>>])
                   \o plat_vlan_igmp_set(c, v)
  IN  ForEach(CfgVlans(c) \ {FIRST_VLAN}, Vlan)

plat_portl2_rif_set(k, p, ip) ==
  When(k[<<"l2ip", p>>] # 0 /\ ip = 0, <<gnma_portl2_erif_attr_pref_delete(p)>>)
    \o When(ip \notin {0, k[<<"l2ip", p>>]},
            <<gnma_portl2_erif_attr_pref_update(p, ip)>>)
    \o <<Local(<<"l2ip", p>> :> ip)>>

config_portl2_ipv4_apply(c, k) ==
  LET Port(p) == plat_portl2_rif_set(k, p, c[<<"l2ip", p>>])
  IN  ForEach(Ports, Port)

-----------------------------------------------------------------------------
(* config_vlan_dhcp_relay_apply() *)

\* cfg_parse() writes "%p", "%i" or "%h:%p"; the second is not known here.
RelayCircuitId(str) == CASE str = "%u" -> "i" [] str = "%p" -> "p" [] OTHER -> "h_p"

\* Mutant: a relay that the cache says is on is left alone, although
\* plat_vlan_rif_set() took it off the switch.
config_vlan_dhcp_relay_apply_cached(c, k) ==
  LET new == {v \in CfgVlans(c) \ {FIRST_VLAN} : c[<<"relay", v>>] \notin {0, k[<<"relay", v>>]}}
      Enable(v) == <<Then(gnma_vlan_dhcp_relay_server_add(v, c[<<"relay", v>>]),
                          <<"relay", v>> :> c[<<"relay", v>>])>>
  IN  ForEach(new, Enable)

config_vlan_dhcp_relay_apply(c, k) ==
  LET vlans == CfgVlans(c) \ {FIRST_VLAN}
      old == {v \in vlans : k[<<"relay", v>>] \notin {0, c[<<"relay", v>>]}}
      new == {v \in vlans : c[<<"relay", v>>] # 0}
      Clear(v) == <<Then(gnma_vlan_dhcp_relay_server_remove(v, k[<<"relay", v>>]),
                         <<"relay", v>> :> 0)>>
      Option(i, v, want, r) == When(k[<<i, v>>] # want, <<Then(r, <<i, v>> :> want)>>)
      Enable(v) ==
        LET hops == PLAT_DHCP_RELAY_DEFAULT_MAXHOP_CNT
            circ == RelayCircuitId(c[<<"circ", v>>])
        IN  <<gnma_vlan_dhcp_relay_server_add(v, c[<<"relay", v>>])>>
              \o Option("hop", v, hops, gnma_vlan_dhcp_relay_max_hop_cnt_set(v, hops))
              \o Option("policy", v, "replace",
                        gnma_vlan_dhcp_relay_policy_action_set(v, "replace"))
              \o Option("circ", v, circ, gnma_vlan_dhcp_relay_ciruit_id_set(v, circ))
              \o <<Local(<<"relay", v>> :> c[<<"relay", v>>])>>
  IN  ForEach(old, Clear) \o ForEach(new, Enable)

-----------------------------------------------------------------------------
(* config_router_apply() *)

router_fib_info2gnma_attr(x, info) ==
  IF info \in {"blackhole", "connected", "nexthop"}
    THEN gnma_route_create(x, info) ELSE Abort

\* Both tables are sorted, and walked together; the cache is replaced last.
config_router_apply(c, k) ==
  LET Diff(x) ==
        LET new == c[<<"route", x>>]
            old == k[<<"route", x>>]
        IN  When(old \notin {"none", new}, <<Ignored(gnma_route_remove(x))>>)
              \o When(new \notin {"none", old}, <<router_fib_info2gnma_attr(x, new)>>)
  IN  ForEach(Routes, Diff) \o <<Local([i \in {"route"} \X Routes |-> c[i]])>>

-----------------------------------------------------------------------------
(* config_ieee8021x_apply(), config_system_password_apply(), plat_syslog_set() *)

Reread(kind) == [kind |-> kind, w |-> Nothing, c |-> Nothing]

\* cfg_parse() never fills in das_dac_list: every client that is known goes.
plat_dac_list_set(k) ==
  LET gone == {h \in Hosts : k[<<"dac", h>>]}
      Delete(h) == <<gnma_ieee8021x_das_dac_host_remove(h)>>
  IN  ForEach(gone, Delete) \o When(gone # {}, <<Reread("dac")>>)

plat_radius_hosts_list_set(c, s, k) ==
  LET gone == {h \in Hosts : k[<<"radius", h>>] /\ c[<<"radius", h>>] # "key"}
      want == {h \in Hosts : c[<<"radius", h>>] # "absent"}
      Delete(h) == <<gnma_radius_host_remove(h)>>
      Create(h) == <<gnma_radius_host_add(s, h, c[<<"radius", h>>])>>
  IN  ForEach(gone, Delete) \o ForEach(want, Create)
        \o When(gone \cup want # {}, <<Reread("radius")>>)

config_ieee8021x_apply(c, s, k) ==
  LET on == c[<<"authctrl">>]
  IN  When(k[<<"authctrl">>] # on,
           <<Then(gnma_ieee8021x_system_auth_control_set(on), <<"authctrl">> :> on)>>)
        \o plat_dac_list_set(k)
        \o plat_radius_hosts_list_set(c, s, k)

config_system_password_apply(c) ==
  When(c[<<"password">>] # 0, <<gnma_system_password_set(c[<<"password">>])>>)

\* -1: one of the servers has a priority out of range.
plat_syslog_set(c) ==
  When(c[<<"syslog">>] # -1,
       <<gnma_syslog_cfg_clear, gnma_syslog_cfg_set(c[<<"syslog">>])>>)

\* Mutant: the password is set first.
Stages_password_first ==
  <<"password", "vlanlist", "vlanmembers", "ports", "unit", "stp", "vlanip", "portip",
    "relay", "router", "ieee8021x", "syslog">>

Stages == <<"vlanlist", "vlanmembers", "ports", "unit", "stp", "vlanip", "portip",
            "relay", "router", "ieee8021x", "password", "syslog">>

plat_config_apply(stage, c, s, k, f) ==
  CASE stage = "vlanlist"    -> plat_vlan_list_set(c, s, k)
    [] stage = "vlanmembers" -> config_vlan_members_apply(c, s)
    [] stage = "ports"       -> plat_port_config_apply(c, k, f)
    [] stage = "unit"        -> config_unit_apply(c, k)
    [] stage = "stp"         -> config_stp_apply(c, k)
    [] stage = "vlanip"      -> config_vlan_ipv4_apply(c, s, k)
    [] stage = "portip"      -> config_portl2_ipv4_apply(c, k)
    [] stage = "relay"       -> config_vlan_dhcp_relay_apply(c, k)
    [] stage = "router"      -> config_router_apply(c, k)
    [] stage = "ieee8021x"   -> When(f["AAA"] = "OK", config_ieee8021x_apply(c, s, k))
    [] stage = "password"    -> config_system_password_apply(c)
    [] stage = "syslog"      -> plat_syslog_set(c)

-----------------------------------------------------------------------------
(* plat_state_init() *)

\* The groups of reads in their order; a failure in one of CoreReads ends the
\* init at once, the others only mark their feature.
InitReads == <<"ieee8021x", "radius", "ports", "port8021x", "vlans", "stpmode",
               "stpvid", "relay", "poe", "portsl2", "routes">>

CoreReads == {"ports", "vlans", "stpmode", "stpvid", "relay", "portsl2", "routes"}

\* The memset: false, 0 and the first member of each enumeration.
ZeroCache ==
  [i \in CacheItems |->
     CASE i[1] \in {"pae", "poeadmin", "authctrl", "radius", "dac"} -> FALSE
       [] i[1] = "circ"    -> "h_p"
       [] i[1] = "policy"  -> "discard"
       [] i[1] = "ctrl"    -> "force_authorized"
       [] i[1] = "host"    -> "multi_auth"
       [] i[1] = "detect"  -> "pt2_dot3af"
       [] i[1] = "prio"    -> "low"
       [] i[1] = "mgmt"    -> "class"
       [] i[1] = "limit"   -> [user |-> FALSE, limit |-> 0]
       [] i[1] \in {"route", "stpmode"} -> "none"
       [] OTHER -> 0]

plat_state_ieee8021x_init(s) ==
  (<<"authctrl">> :> gnma_ieee8021x_system_auth_control_get(s))
    @@ [i \in {"dac"} \X Hosts |-> i[2] \in gnma_ieee8021x_das_dac_hosts_list_get(s)]

plat_state_radius_init(s) ==
  [i \in {"radius"} \X Hosts |-> i[2] \in gnma_radius_hosts_list_get(s)]

plat_state_port_ieee8021x_init(s) ==
  [i \in {"pae"} \X Ports |-> gnma_port_ieee8021x_pae_mode_get(s, i[2])]
    @@ [i \in {"ctrl"} \X Ports |-> gnma_port_ieee8021x_port_ctrl_get(s, i[2])]
    @@ [i \in {"host"} \X Ports |-> gnma_port_ieee8021x_port_host_mode_get(s, i[2])]
    @@ [i \in {"guest"} \X Ports |-> gnma_port_ieee8021x_guest_vlan_get(s, i[2])]
    @@ [i \in {"fail"} \X Ports |-> gnma_port_ieee8021x_unauthorized_vlan_get(s, i[2])]

\* attr: whether the switch reports timers or a priority beside its mode.
StpModeInit(s, attr) ==
  (<<"stpmode">> :> gnma_stp_mode_get(s))
    @@ (<<"stpattr">> :> IF gnma_stp_mode_get(s) = "none" THEN 0 ELSE attr)

StpVidInit(s) == [i \in {"stp"} \X Vlans |-> gnma_stp_vid_bulk_get(s, i[2])]

\* Room for one address.  A longer list is an error, and every list leaves room
\* for its own length to the VLAN after it.  A VLAN whose list gives an error, be
\* it that the read got no answer (unseen), counts as one without a relay.
RelayVlans(s, unseen) ==
  LET Count(v) == Cardinality(gnma_vlan_dhcp_relay_server_list_get(s, v))
      helped == {v \in gnma_vlan_list_get(s) \ unseen : Count(v) # 0}
      arr_size(v) == LET before == {u \in helped : u < v}
                     IN  IF before = {} THEN PLAT_DHCP_RELAY_MAX_SERVERS
                                        ELSE Count(Max(before))
  IN  {v \in helped : Count(v) <= arr_size(v)}

RelayInit(s, unseen) ==
  LET on == RelayVlans(s, unseen)
  IN  [i \in {"relay"} \X on |-> Min(gnma_vlan_dhcp_relay_server_list_get(s, i[2]))]
        @@ [i \in {"circ"} \X on |-> gnma_vlan_dhcp_relay_ciruit_id_get(s, i[2])]
        @@ [i \in {"policy"} \X on |-> gnma_vlan_dhcp_relay_policy_action_get(s, i[2])]
        @@ [i \in {"hop"} \X on |-> gnma_vlan_dhcp_relay_max_hop_cnt_get(s, i[2])]

plat_state_poe_init(s) ==
  [i \in {"poeadmin"} \X PoePorts |-> gnma_poe_port_admin_mode_get(s, i[2])]
    @@ [i \in {"detect"} \X PoePorts |-> gnma_poe_port_detection_mode_get(s, i[2])]
    @@ [i \in {"limit"} \X PoePorts |-> gnma_poe_port_power_limit_get(s, i[2])]
    @@ [i \in {"prio"} \X PoePorts |-> gnma_poe_port_priority_get(s, i[2])]
    @@ (<<"mgmt">> :> gnma_poe_power_mgmt_get(s))
    @@ (<<"thr">> :> gnma_poe_usage_threshold_get(s))

plat_state_portsl2_init(s) ==
  [i \in {"l2ip"} \X Ports |-> gnma_portl2_erif_attr_pref_list_get(s, i[2])]

RouterInit(s) == [i \in {"route"} \X Routes |-> gnma_route_list_get(s, i[2])]

Fill(read, s, unseen, attr) ==
  CASE read = "ieee8021x" -> plat_state_ieee8021x_init(s)
    [] read = "radius"    -> plat_state_radius_init(s)
    [] read = "port8021x" -> plat_state_port_ieee8021x_init(s)
    [] read = "stpmode"   -> StpModeInit(s, attr)
    [] read = "stpvid"    -> StpVidInit(s)
    [] read = "relay"     -> RelayInit(s, unseen)
    [] read = "poe"       -> plat_state_poe_init(s)
    [] read = "portsl2"   -> plat_state_portsl2_init(s)
    [] read = "routes"    -> RouterInit(s)
    [] OTHER              -> Nothing

\* A relay option that its getter does not know fails like an unanswered read.
Unreadable(s, unseen) ==
  IF \E v \in RelayVlans(s, unseen) :
       "error" \in {gnma_vlan_dhcp_relay_ciruit_id_get(s, v),
                    gnma_vlan_dhcp_relay_policy_action_get(s, v)}
    THEN {"relay"} ELSE {}

\* The cache and the feature states when the reads in failed, and those of the
\* relays of the VLANs in unseen, got no answer.  What a failed group had read so
\* far is left out of the cache.
plat_state_init(s, failed, unseen, attr) ==
  LET bad == failed \cup Unreadable(s, unseen)
      ended == {n \in DOMAIN InitReads : InitReads[n] \in bad \cap CoreReads}
      done == {n \in DOMAIN InitReads : \A m \in ended : n < m}
      read == {InitReads[n] : n \in done} \ bad
      Of(i) == {r \in read : i \in DOMAIN Fill(r, s, unseen, attr)}
      Reached(reads) == \E n \in done : InitReads[n] \in reads \cap bad
      Feature(reads) == CASE Reached(reads) -> "FAIL"
                          [] ended = {} -> "OK"
                          [] OTHER -> "NONE"
  IN  [cache |-> [i \in CacheItems |->
                    IF Of(i) = {} THEN ZeroCache[i]
                    ELSE LET r == CHOOSE r \in Of(i) : TRUE IN Fill(r, s, unseen, attr)[i]],
       feat  |-> [CORE |-> IF ended = {} THEN "OK" ELSE "FAIL",
                  AAA  |-> Feature({"ieee8021x", "radius", "port8021x"}),
                  POE  |-> Feature({"poe"})]]
=============================================================================
