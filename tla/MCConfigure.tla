---------------------------- MODULE MCConfigure -----------------------------
(* A switch with two VLANs and one PoE port, and four configurations. *)
EXTENDS Configure

\* A configuration that leaves everything out.
Base ==
  [i \in ({"vlan", "ip", "snoop", "querier", "groups", "relay", "circ", "stp"}
            \X Vlans)
         \cup ({"member"} \X Vlans \X Ports)
         \cup ({"admin", "speed", "pae", "ctrl", "host", "guest", "fail", "l2ip",
                "detect", "prio", "limit", "poeadmin", "poereset"} \X Ports)
         \cup ({"route"} \X Routes) \cup ({"radius"} \X Hosts)
         \cup {<<x>> : x \in {"stpmode", "flood", "mgmt", "thr", "authctrl",
                              "password", "syslog"}} |->
     CASE i[1] \in {"snoop", "querier", "admin", "pae", "poeadmin", "poereset",
                    "flood", "authctrl"} -> FALSE
       [] i[1] = "vlan" -> i[2] = FIRST_VLAN
       [] i[1] = "groups" -> {}
       [] i[1] = "circ" -> "%h:%p"
       [] i[1] \in {"member", "stpmode", "route"} -> "none"
       [] i[1] = "ctrl" -> "auto"
       [] i[1] = "host" -> "multi_auth"
       [] i[1] \in {"detect", "prio", "mgmt"} -> ""
       [] i[1] \in {"limit", "thr"} -> -1
       [] i[1] = "radius" -> "absent"
       [] i[1] = "speed" -> 1
       [] OTHER -> 0]

\* VLAN 2 with everything, 802.1X, PoE, STP, a blackhole and a nexthop route.
Full ==
  (<<"vlan", 2>> :> TRUE) @@ (<<"member", 2, 1>> :> "tagged")
    @@ (<<"ip", 2>> :> 1) @@ (<<"snoop", 2>> :> TRUE) @@ (<<"groups", 2>> :> {1})
    @@ (<<"relay", 2>> :> 1) @@ (<<"circ", 2>> :> "%p")
    @@ (<<"stpmode">> :> "rpvst") @@ (<<"stp", 2>> :> 1)
    @@ (<<"admin", 1>> :> TRUE) @@ (<<"speed", 1>> :> 2)
    @@ (<<"pae", 1>> :> TRUE) @@ (<<"guest", 1>> :> 2) @@ (<<"authctrl">> :> TRUE)
    @@ (<<"detect", 1>> :> "dot3bt") @@ (<<"prio", 1>> :> "high")
    @@ (<<"limit", 1>> :> 7) @@ (<<"poeadmin", 1>> :> TRUE) @@ (<<"thr">> :> 9)
    @@ (<<"mgmt">> :> "static") @@ (<<"route", 1>> :> "blackhole")
    @@ (<<"route", 2>> :> "nexthop") @@ (<<"radius", 1>> :> "key")
    @@ (<<"password">> :> 5) @@ (<<"syslog">> :> 1) @@ Base

\* The same VLAN with another address, relay, priority and member mode.
Changed ==
  (<<"ip", 2>> :> 2) @@ (<<"relay", 2>> :> 2) @@ (<<"circ", 2>> :> "%i")
    @@ (<<"stp", 2>> :> 2) @@ (<<"member", 2, 1>> :> "untagged")
    @@ (<<"querier", 2>> :> TRUE) @@ (<<"groups", 2>> :> {2})
    @@ (<<"host", 1>> :> "single_host") @@ (<<"fail", 1>> :> 2)
    @@ (<<"limit", 1>> :> -1) @@ (<<"poereset", 1>> :> TRUE)
    @@ (<<"route", 1>> :> "connected") @@ (<<"radius", 1>> :> "absent")
    @@ (<<"radius", 2>> :> "nokey") @@ (<<"l2ip", 1>> :> 1)
    @@ (<<"password">> :> 6) @@ (<<"syslog">> :> -1) @@ Full

\* No VLAN 2; refused late, by its route.
Refused == (<<"route", 2>> :> "unreachable") @@ (<<"password">> :> 7)
             @@ (<<"l2ip", 1>> :> 2) @@ Base

MCConfigs == (2 :> Full) @@ (3 :> Changed) @@ (4 :> Refused) @@ (5 :> Base)

\* As shipped the switch has a VLAN 2, PVST, a DAS client and a RADIUS server.
MCFactory ==
  [i \in SwItems |->
     CASE i[1] = "vlan" -> TRUE
       [] i[1] \in {"snoop", "querier", "group", "relay", "stpport", "poeadmin",
                    "authctrl"} -> FALSE
       [] i[1] = "admin" -> TRUE
       [] i[1] = "dac" -> i[2] = 1
       [] i[1] = "radius" -> IF i[2] = 1 THEN "nokey" ELSE "absent"
       [] i[1] = "member" -> "untagged"
       [] i[1] = "stpmode" -> "pvst"
       [] i[1] = "route" -> "none"
       [] i[1] = "policy" -> "DISCARD"
       [] i[1] = "circ" -> "%p"
       [] i[1] = "pae" -> "NONE"
       [] i[1] = "ctrl" -> "FORCE_AUTHORIZED"
       [] i[1] = "host" -> "MULTI_HOST"
       [] i[1] = "detect" -> "FOUR_PT_DOT3AF"
       [] i[1] = "prio" -> "LOW"
       [] i[1] = "limittype" -> "CLASS_BASED"
       [] i[1] = "mgmt" -> "DYNAMIC"
       [] i[1] = "speed" -> 1
       [] i[1] = "stp" -> IF i[2] = 1 THEN 3 ELSE 0
       [] i[1] = "hop" -> 4
       [] OTHER -> 0]
=============================================================================
