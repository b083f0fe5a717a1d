-------------------------------- MODULE Gnma --------------------------------
(***************************************************************************)
(* The requests that platform/brcm-sonic/gnma/gnma_common.c sends to the   *)
(* switch's gNMI server, and what its getters read back.                   *)
(*                                                                         *)
(* The switch is a function from items such as <<"ip", vlan>> to values.   *)
(* A setter is a request: the items it writes (w), the items of the        *)
(* caller's cache that the caller assigns once the call returned (c), and  *)
(* how the caller treats a failure (kind):                                 *)
(*   "must"     the caller gives up                                        *)
(*   "ignored"  the result is never looked at                              *)
(*   "drop"     the rest of the stage is skipped, without an error         *)
(*   "local"    no request at all: an assignment to the cache              *)
(*   "abort"    no request at all: the caller gives up                     *)
(*   "dac", "radius"  the cache of these hosts is read again; a failure is *)
(*              ignored, and leaves the cache empty                        *)
(* Payloads are abstracted to small numbers; the enumerations are kept     *)
(* with the strings that stand for them on the switch.                     *)
(***************************************************************************)
EXTENDS Integers, Sequences, FiniteSets

CONSTANTS Vlans, Ports, PoePorts, Hosts, Routes, Addrs, Groups

ASSUME GnmaAssumption ==
  /\ Vlans \subseteq 1..4095
  /\ IsFiniteSet(Ports) /\ IsFiniteSet(Hosts) /\ IsFiniteSet(Routes)
  /\ PoePorts \subseteq Ports
  /\ Addrs \subseteq Nat \ {0}

SwItems ==
  ({"vlan", "ip", "snoop", "querier", "hop", "policy", "circ", "stp"}
      \X Vlans)
    \cup ({"member"} \X Vlans \X Ports)
    \cup ({"relay"} \X Vlans \X Addrs)
    \cup ({"group"} \X Vlans \X Groups)
    \cup ({"admin", "speed", "pae", "ctrl", "host", "guest", "fail", "l2ip",
           "stpport"} \X Ports)
    \cup ({"detect", "prio", "limittype", "limit", "poeadmin"} \X PoePorts)
    \cup ({"radius", "dac"} \X Hosts)
    \cup ({"route"} \X Routes)
    \cup {<<i>> : i \in {"stpmode", "mgmt", "thr", "authctrl", "password", "syslog"}}

Nothing == <<>>

\* The operators of the module TLC, for which the prover has no definition.
i :> x == [j \in {i} |-> x]

f @@ g == [i \in DOMAIN f \cup DOMAIN g |-> IF i \in DOMAIN f THEN f[i] ELSE g[i]]

Must(w) == [kind |-> "must", w |-> w, c |-> Nothing]

Ignored(w) == [kind |-> "ignored", w |-> w, c |-> Nothing]

Read == Must(Nothing)

Local(c) == [kind |-> "local", w |-> Nothing, c |-> c]

Abort == [kind |-> "abort", w |-> Nothing, c |-> Nothing]

\* A request after whose success the caller assigns c to its cache.
Then(r, c) == [r EXCEPT !.c = c]

\* The items of s after those of w are written.
Written(s, w) == [i \in DOMAIN s |-> IF i \in DOMAIN w THEN w[i] ELSE s[i]]

Encode(table, m) == table[m]

\* The reverse, for the getters that fall back on a default.
Decode(table, str, default) ==
  IF \E m \in DOMAIN table : table[m] = str
    THEN CHOOSE m \in DOMAIN table : table[m] = str
    ELSE default

-----------------------------------------------------------------------------
(* The enumerations and their strings. *)

CtrlMode == [force_authorized |-> "FORCE_AUTHORIZED",
             force_unauthorized |-> "FORCE_UNAUTHORIZED", auto |-> "AUTO"]

HostMode == [multi_auth |-> "MULTI_AUTH", multi_domain |-> "MULTI_DOMAIN",
             multi_host |-> "MULTI_HOST", single_host |-> "SINGLE_HOST"]

DetectionMode ==
  [pt2_dot3af |-> "TWO_PT_DOT3AF", pt2_dot3af_leg |-> "TWO_PT_DOT3AF_LEG",
   pt4_dot3af |-> "FOUR_PT_DOT3AF", pt4_dot3af_leg |-> "FOUR_PT_DOT3AF_LEG",
   dot3bt |-> "DOT3BT", dot3bt_leg |-> "DOT3BT_LEG", leg |-> "LEGACY"]

PoePriority == [low |-> "LOW", medium |-> "MEDIUM", high |-> "HIGH",
                critical |-> "CRITICAL"]

PowerMgmt == [class |-> "CLASS", dynamic |-> "DYNAMIC",
              dynamic_priority |-> "DYNAMIC_PRI", static |-> "STATIC",
              static_priority |-> "STATIC_PRI"]

PolicyAction == [discard |-> "DISCARD", append |-> "APPEND",
                 replace |-> "REPLACE"]

\* The setter and the getter disagree on the string of _CIRCUIT_ID_I.
CircuitIdSet == [h_p |-> "%h:%p", i |-> "%i", p |-> "%p"]

CircuitIdGet == [h_p |-> "%h:%p", i |-> "%u", p |-> "%p"]

-----------------------------------------------------------------------------
(* Ports. *)

gnma_port_admin_state_set(p, up) == Ignored(<<"admin", p>> :> up)

gnma_port_speed_set(p, speed) == Ignored(<<"speed", p>> :> speed)

gnma_port_ieee8021x_pae_mode_set(p, on) ==
  Must(<<"pae", p>> :> IF on THEN "AUTHENTICATOR" ELSE "NONE")

gnma_port_ieee8021x_port_ctrl_set(p, mode) ==
  Must(<<"ctrl", p>> :> Encode(CtrlMode, mode))

gnma_port_ieee8021x_port_host_mode_set(p, mode) ==
  Must(<<"host", p>> :> Encode(HostMode, mode))

gnma_port_ieee8021x_guest_vlan_set(p, vid) == Must(<<"guest", p>> :> vid)

gnma_port_ieee8021x_unauthorized_vlan_set(p, vid) == Must(<<"fail", p>> :> vid)

gnma_port_ieee8021x_pae_mode_get(s, p) == s[<<"pae", p>>] = "AUTHENTICATOR"

gnma_port_ieee8021x_port_ctrl_get(s, p) ==
  Decode(CtrlMode, s[<<"ctrl", p>>], "auto")

\* An unknown string is an error (state init then fails); no setter writes one.
gnma_port_ieee8021x_port_host_mode_get(s, p) ==
  Decode(HostMode, s[<<"host", p>>], "error")

gnma_port_ieee8021x_guest_vlan_get(s, p) == s[<<"guest", p>>]

gnma_port_ieee8021x_unauthorized_vlan_get(s, p) == s[<<"fail", p>>]

-----------------------------------------------------------------------------
(* Power over Ethernet. *)

gnma_poe_power_mgmt_set(mode) == Must(<<"mgmt">> :> Encode(PowerMgmt, mode))

gnma_poe_power_mgmt_get(s) == Decode(PowerMgmt, s[<<"mgmt">>], "error")

gnma_poe_usage_threshold_set(thr) == Must(<<"thr">> :> thr)

gnma_poe_usage_threshold_get(s) == s[<<"thr">>]

gnma_poe_port_admin_mode_set(p, up) == Must(<<"poeadmin", p>> :> up)

gnma_poe_port_admin_mode_get(s, p) == s[<<"poeadmin", p>>]

gnma_poe_port_detection_mode_set(p, mode) ==
  Must(<<"detect", p>> :> Encode(DetectionMode, mode))

gnma_poe_port_detection_mode_get(s, p) ==
  Decode(DetectionMode, s[<<"detect", p>>], "error")

gnma_poe_port_priority_set(p, prio) ==
  Must(<<"prio", p>> :> Encode(PoePriority, prio))

gnma_poe_port_priority_get(s, p) == Decode(PoePriority, s[<<"prio", p>>], "error")

\* The limit itself is sent for a user defined one only: the switch keeps the
\* old number beside CLASS_BASED.
gnma_poe_port_power_limit_set(p, user, limit) ==
  Must(IF user THEN (<<"limittype", p>> :> "USER") @@ (<<"limit", p>> :> limit)
               ELSE <<"limittype", p>> :> "CLASS_BASED")

gnma_poe_port_power_limit_get(s, p) ==
  IF s[<<"limittype", p>>] = "CLASS_BASED" THEN [user |-> FALSE, limit |-> 0]
  ELSE [user |-> TRUE, limit |-> s[<<"limit", p>>]]

gnma_poe_port_reset(p) == Must(Nothing)
-----------------------------------------------------------------------------
(* VLANs, their members and addresses. *)

gnma_vlan_list_get(s) == {v \in Vlans : s[<<"vlan", v>>]}

gnma_vlan_member_bmap_get(s, v) ==
  [p \in Ports |-> s[<<"member", v, p>>]]

\* The members go with their VLAN.
gnma_vlan_remove(v) ==
  Must((<<"vlan", v>> :> FALSE)
         @@ [i \in {"member"} \X {v} \X Ports |-> "none"])

\* These three only add to a struct gnma_change ...
gnma_vlan_create(v) == <<"vlan", v>> :> TRUE

gnma_vlan_member_remove(v, p) == <<"member", v, p>> :> "none"

gnma_vlan_member_create(v, p, tagged) == <<"member", v, p>> :> tagged

\* ... which is sent as one Set; gnmi_setrq_execute() returns 0 even when the
\* server refused it.
gnma_change_exec(change) == Ignored(change)

gnma_vlan_erif_attr_pref_list_get(s, v) == s[<<"ip", v>>]

gnma_vlan_erif_attr_pref_update(v, pref) == Must(<<"ip", v>> :> pref)

gnma_vlan_erif_attr_pref_delete(v) == Must(<<"ip", v>> :> 0)

gnma_portl2_erif_attr_pref_list_get(s, p) == s[<<"l2ip", p>>]

gnma_portl2_erif_attr_pref_update(p, pref) == Must(<<"l2ip", p>> :> pref)

gnma_portl2_erif_attr_pref_delete(p) == Must(<<"l2ip", p>> :> 0)

__gnma_igmp_disable(v) ==
  LET none == [i \in {"group"} \X {v} \X Groups |-> FALSE]
  IN <<Ignored(<<"querier", v>> :> FALSE),
       Ignored(none),
       Ignored((<<"snoop", v>> :> FALSE) @@ none)>>

\* __gnma_ip_igmp_set() and the Set of the snooping interface.
gnma_igmp_snooping_set(v, snoop, querier) ==
  IF snoop \/ querier
    THEN <<Must(<<"querier", v>> :> querier), Must(<<"snoop", v>> :> snoop)>>
    ELSE __gnma_igmp_disable(v)

\* The groups are merged into those that the interface has.
gnma_igmp_static_groups_set(v, groups) ==
  Must([i \in {"group"} \X {v} \X groups |-> TRUE])

-----------------------------------------------------------------------------
(* DHCP relay. *)

gnma_vlan_dhcp_relay_server_add(v, a) == Must(<<"relay", v, a>> :> TRUE)

gnma_vlan_dhcp_relay_server_remove(v, a) == Must(<<"relay", v, a>> :> FALSE)

\* Without a helper address the switch has no such node, and the read fails.
gnma_vlan_dhcp_relay_server_list_get(s, v) == {a \in Addrs : s[<<"relay", v, a>>]}

gnma_vlan_dhcp_relay_ciruit_id_set(v, id) ==
  Must(<<"circ", v>> :> Encode(CircuitIdSet, id))

gnma_vlan_dhcp_relay_ciruit_id_get(s, v) ==
  Decode(CircuitIdGet, s[<<"circ", v>>], "error")

gnma_vlan_dhcp_relay_policy_action_set(v, act) ==
  Must(<<"policy", v>> :> Encode(PolicyAction, act))

gnma_vlan_dhcp_relay_policy_action_get(s, v) ==
  Decode(PolicyAction, s[<<"policy", v>>], "error")

gnma_vlan_dhcp_relay_max_hop_cnt_set(v, cnt) == Must(<<"hop", v>> :> cnt)

gnma_vlan_dhcp_relay_max_hop_cnt_get(s, v) == s[<<"hop", v>>]

-----------------------------------------------------------------------------
(* Routes: "none", "blackhole", "connected" or "nexthop". *)

gnma_route_create(x, attr) == Must(<<"route", x>> :> attr)

gnma_route_remove(x) == <<"route", x>> :> "none"

\* "For now only blackhole supported": the others are left out of the list.
gnma_route_list_get(s, x) ==
  IF s[<<"route", x>>] = "blackhole" THEN "blackhole" ELSE "none"

-----------------------------------------------------------------------------
(* Spanning tree.  A VLAN's entry is 0 (none), StpOff (enabled: false) or a *)
(* number that stands for its priority and timers.                          *)

StpOff == -1

\* What the bulk read makes of any entry: enabled, with timers of 0.
StpListed == -2

\* The deletion of the GLOBAL entry takes all port and VLAN entries with it.
gnma_stp_mode_set(mode) ==
  <<Ignored((<<"stpmode">> :> "none")
              @@ [i \in {"stp"} \X Vlans |-> 0]
              @@ [i \in {"stpport"} \X Ports |-> FALSE])>>
    \o (IF mode = "none" THEN <<>> ELSE <<Must(<<"stpmode">> :> mode)>>)

gnma_stp_mode_get(s) == s[<<"stpmode">>]

gnma_stp_ports_enable(ps) == Must([i \in {"stpport"} \X ps |-> TRUE])

gnma_stp_vid_enable(v, attr) == Must(<<"stp", v>> :> attr)

\* gnma_stp_vids_set() with its result ignored.
gnma_stp_vid_disable(v) == Ignored(<<"stp", v>> :> StpOff)

gnma_stp_vid_set(v, attr) ==
  IF attr # 0 THEN gnma_stp_vid_enable(v, attr) ELSE gnma_stp_vid_disable(v)

\* "enabled" is not read: an entry that was disabled counts as well.
gnma_stp_vid_bulk_get(s, v) == IF s[<<"stp", v>>] = 0 THEN 0 ELSE StpListed

-----------------------------------------------------------------------------
(* 802.1X, RADIUS, DAS clients, password, syslog. *)

gnma_ieee8021x_system_auth_control_set(on) == Must(<<"authctrl">> :> on)

gnma_ieee8021x_system_auth_control_get(s) == s[<<"authctrl">>]

gnma_ieee8021x_das_dac_hosts_list_get(s) == {h \in Hosts : s[<<"dac", h>>]}

gnma_ieee8021x_das_dac_host_remove(h) == Must(<<"dac", h>> :> FALSE)

\* "absent", "nokey" or "key".
gnma_radius_hosts_list_get(s) == {h \in Hosts : s[<<"radius", h>>] # "absent"}

\* Without a passkey the leaf is left out of the Set, so one that the server
\* holds stays.
gnma_radius_host_add(s, h, key) ==
  Must(<<"radius", h>> :> IF s[<<"radius", h>>] = "key" THEN "key" ELSE key)

\* The path is the one of the DAS client, not the one of the RADIUS server.
gnma_radius_host_remove(h) == Must(<<"dac", h>> :> FALSE)

gnma_system_password_set(password) == Must(<<"password">> :> password)

gnma_syslog_cfg_clear == [kind |-> "drop", w |-> <<"syslog">> :> 0, c |-> Nothing]

gnma_syslog_cfg_set(servers) == Ignored(<<"syslog">> :> servers)
=============================================================================
