----------------------------- MODULE Configure ------------------------------
(***************************************************************************)
(* The configure command from its arrival to its answer: configure_handle() *)
(* of proto.c, plat_config_apply(), _restore() and _save() of plat-gnma.c,  *)
(* with the running and the startup configuration of the switch, the file   *)
(* that holds the saved uuid, and the crashes and restarts in between.      *)
(*                                                                          *)
(* Every request to the switch may fail; one that failed may nevertheless   *)
(* have taken effect (the answer timed out).                                *)
(***************************************************************************)
EXTENDS PlatApply

CONSTANTS
  Factory,       \* the switch as shipped
  Configs,       \* uuid -> configuration, as cfg_parse() returns it
  MaxConfigures, \* bound: configure commands
  MaxFaults,     \* bound: failed requests
  MaxBoots       \* bound: crashes of the client and reboots of the switch

Uuids == DOMAIN Configs

ASSUME ConfigureAssumption ==
  /\ DOMAIN Factory = SwItems
  /\ Uuids \subseteq Nat \ {0, 1}
  /\ MaxConfigures \in Nat /\ MaxFaults \in Nat /\ MaxBoots \in Nat

VARIABLES
  pc,          \* where the client is
  sw,          \* the running configuration of the switch
  startup,     \* its startup configuration
  erase,       \* the startup configuration is to be erased by the next boot
  cache,       \* plat_state
  feat,        \* featsts
  stage,       \* the stage of plat_config_apply()
  todo,        \* the requests that the stage still has to make
  uuid_latest, uuid_active,
  savedId,     \* the content of the file cfgid_path, 0 when it has none
  result,      \* of the current configure command
  trusted,     \* no request and no read failed unnoticed, and no restore
               \* failed, since the cache was filled from the switch
  unsaved,     \* an apply began and neither its save nor a rollback is done
  split,       \* the last save did not write startup and savedId
  cut,         \* the client died with unsaved, and no whole startup was loaded since
  tainted,     \* startup was saved while not trusted, or cut
  password0,   \* the password when the current configure command came
  configures, faults, boots

swVars    == <<sw, startup, erase>>
cacheVars == <<cache, feat>>
uuidVars  == <<uuid_latest, uuid_active, savedId>>
ghostVars == <<trusted, unsaved, split, cut, tainted, password0>>
vars == <<pc, swVars, cacheVars, stage, todo, uuidVars, result, ghostVars,
          configures, faults, boots>>

\* The password is not part of a saved configuration.
Load(config) == [config EXCEPT ![<<"password">>] = sw[<<"password">>]]

TypeOK ==
  /\ pc \in {"init", "connect", "idle", "apply", "restore", "reinit", "save",
             "truncate", "store", "reply", "factory"}
  /\ DOMAIN sw = SwItems /\ DOMAIN startup = SwItems /\ DOMAIN cache = CacheItems
  /\ erase \in BOOLEAN
  /\ feat \in [Features -> {"NONE", "FAIL", "OK"}]
  /\ stage \in 0..Len(Stages)
  /\ \A n \in DOMAIN todo : /\ DOMAIN todo[n].w \subseteq SwItems
                            /\ DOMAIN todo[n].c \subseteq CacheItems
  /\ {uuid_latest, uuid_active, savedId} \subseteq Uuids \cup {0, 1}
  /\ pc \notin {"init", "connect"} => uuid_active # 0
  /\ result \in {"none", "applied", "rejected"}

Init ==
  /\ pc = "init"
  /\ sw = Factory /\ startup = Factory /\ erase = FALSE
  /\ cache = ZeroCache
  /\ feat = [x \in Features |-> "NONE"]
  /\ stage = 0 /\ todo = <<>>
  /\ uuid_latest = 0 /\ uuid_active = 0 /\ savedId = 0
  /\ result = "none"
  /\ trusted = FALSE /\ unsaved = FALSE /\ split = FALSE
  /\ cut = FALSE /\ tainted = FALSE
  /\ password0 = Factory[<<"password">>]
  /\ configures = 0 /\ faults = 0 /\ boots = 0

Fault == faults < MaxFaults /\ faults' = faults + 1

-----------------------------------------------------------------------------
(* Start of the client: plat_init(), and connect_send() on each connection. *)

\* No relay escapes plat_state_init().  It misses one with two helper addresses
\* or on a VLAN that does not exist, which a lost request can leave behind, and
\* one whose read fails: "It's possible that relay is not configured".
Readable(unseen) ==
  \A v \in Vlans : LET helpers == gnma_vlan_dhcp_relay_server_list_get(sw, v)
                   IN  \/ helpers = {}
                       \/ v \in RelayVlans(sw, unseen) /\ Cardinality(helpers) = 1

\* plat_state_init() with some reads unanswered.  The client starts whatever the
\* outcome is.
StateInit(failed, unseen, attr) ==
  LET r == plat_state_init(sw, failed, unseen, attr)
  IN  /\ IF failed = {} /\ unseen = {} THEN UNCHANGED faults ELSE Fault
      /\ cache' = r.cache
      /\ feat' = r.feat
      /\ trusted' = (r.feat["CORE"] = "OK" /\ Readable(unseen))

FailedReads == {{}} \cup {{InitReads[n]} : n \in DOMAIN InitReads}

\* No read fails, one of InitReads, or the read of one VLAN's relay.
StateInitAny ==
  \E attr \in 0..1 : \/ \E failed \in FailedReads : StateInit(failed, {}, attr)
                     \/ \E v \in Vlans : StateInit({}, {v}, attr)

plat_init ==
  /\ pc = "init"
  /\ StateInitAny
  /\ pc' = "connect"
  /\ UNCHANGED <<swVars, stage, todo, uuidVars, result, unsaved, split, cut, tainted,
                 password0, configures, boots>>

\* Mutant: nobody looks whether plat_saved_config_id_get() found an id.
connect_send_unchecked ==
  /\ pc \in {"connect", "idle"}
  /\ uuid_active' = savedId
  /\ pc' = "idle"
  /\ UNCHANGED <<swVars, cacheVars, stage, todo, uuid_latest, savedId, result,
                 ghostVars, configures, faults, boots>>

\* plat_saved_config_id_get(), 1 when the file holds no number.
connect_send ==
  /\ pc \in {"connect", "idle"}
  /\ uuid_active' = IF savedId # 0 THEN savedId ELSE 1
  /\ pc' = "idle"
  /\ UNCHANGED <<swVars, cacheVars, stage, todo, uuid_latest, savedId, result,
                 ghostVars, configures, faults, boots>>

-----------------------------------------------------------------------------
(* configure_handle() *)

Command ==
  /\ pc = "idle"
  /\ configures < MaxConfigures
  /\ configures' = configures + 1
  /\ password0' = sw[<<"password">>]
  /\ UNCHANGED <<swVars, cacheVars, uuid_active, savedId, trusted, split, cut,
                 tainted, faults, boots>>

\* A parameter is missing; the answer carries uuid 0.
ConfigureInvalid ==
  /\ Command
  /\ pc' = "reply" /\ result' = "rejected"
  /\ UNCHANGED <<stage, todo, uuid_latest, unsaved>>

\* cfg_parse() returned NULL.
ConfigureUnparsed ==
  /\ Command
  /\ \E u \in Uuids : uuid_latest' = u
  /\ pc' = "reply" /\ result' = "rejected"
  /\ UNCHANGED <<stage, todo, unsaved>>

\* Mutant: the new uuid counts as active before it is applied.
configure_handle_eager ==
  /\ pc = "idle" /\ configures < MaxConfigures
  /\ \E u \in Uuids : uuid_latest' = u /\ uuid_active' = u
  /\ pc' = "apply" /\ result' = "none"
  /\ stage' = 0 /\ todo' = <<>>
  /\ unsaved' = TRUE
  /\ configures' = configures + 1
  /\ password0' = sw[<<"password">>]
  /\ UNCHANGED <<swVars, cacheVars, savedId, trusted, split, cut, tainted, faults, boots>>

configure_handle ==
  /\ Command
  /\ \E u \in Uuids : uuid_latest' = u
  /\ pc' = "apply" /\ result' = "none"
  /\ stage' = 0 /\ todo' = <<>>
  /\ unsaved' = TRUE

NextStage ==
  /\ pc = "apply" /\ todo = <<>> /\ stage < Len(Stages)
  /\ stage' = stage + 1
  /\ todo' = plat_config_apply(Stages[stage + 1], Configs[uuid_latest], sw, cache, feat)
  /\ UNCHANGED <<pc, swVars, cacheVars, uuidVars, result, ghostVars, configures,
                 faults, boots>>

\* plat_state_radius_init() and plat_state_ieee8021x_dac_list_init().
Reads(kind) == CASE kind = "radius" -> plat_state_radius_init(sw)
                 [] kind = "dac" -> [i \in {"dac"} \X Hosts |->
                                       plat_state_ieee8021x_init(sw)[i]]
                 [] OTHER -> Nothing

RequestOk ==
  /\ pc = "apply" /\ todo # <<>>
  /\ Head(todo).kind # "abort"
  /\ sw' = Written(sw, Head(todo).w)
  /\ cache' = Written(Written(cache, Reads(Head(todo).kind)), Head(todo).c)
  /\ todo' = Tail(todo)
  /\ UNCHANGED <<pc, startup, erase, feat, stage, uuidVars, result, ghostVars,
                 configures, faults, boots>>

\* Mutant: the failure of a stage does not reach configure_handle().
RequestFails_saved ==
  /\ pc = "apply" /\ todo # <<>>
  /\ Head(todo).kind \in {"must", "abort"}
  /\ IF Head(todo).kind = "must" THEN Fault ELSE UNCHANGED faults
  /\ todo' = <<>>
  /\ pc' = "save"
  /\ UNCHANGED <<swVars, cacheVars, stage, uuidVars, result, ghostVars, configures, boots>>

\* A failure that ends the apply.
RequestFails ==
  /\ pc = "apply" /\ todo # <<>>
  /\ Head(todo).kind \in {"must", "abort"}
  /\ IF Head(todo).kind = "must" THEN Fault ELSE UNCHANGED faults
  /\ sw' \in {sw, Written(sw, Head(todo).w)}
  /\ todo' = <<>>
  /\ pc' = "restore"
  /\ UNCHANGED <<startup, erase, cacheVars, stage, uuidVars, result, ghostVars,
                 configures, boots>>

\* A failure that goes unnoticed.
RequestLost ==
  /\ pc = "apply" /\ todo # <<>>
  /\ Head(todo).kind \in {"ignored", "drop"}
  /\ Fault
  /\ cache' = Written(cache, Head(todo).c)
  /\ todo' = IF Head(todo).kind = "drop" THEN <<>> ELSE Tail(todo)
  /\ sw' \in {sw, Written(sw, Head(todo).w)}
  /\ trusted' = FALSE
  /\ UNCHANGED <<pc, startup, erase, feat, stage, uuidVars, result, unsaved, split,
                 cut, tainted, password0, configures, boots>>

\* When the second read of plat_state_ieee8021x_dac_list_init() fails, the names
\* of the clients are empty, and it is the cache of the RADIUS hosts that is freed.
RereadLost ==
  /\ pc = "apply" /\ todo # <<>>
  /\ Head(todo).kind \in {"radius", "dac"}
  /\ Fault
  /\ \E cleared \in {{Head(todo).kind}, {Head(todo).kind, "radius"}} :
       cache' = Written(cache, [i \in cleared \X Hosts |-> FALSE])
  /\ todo' = Tail(todo)
  /\ trusted' = FALSE
  /\ UNCHANGED <<pc, swVars, feat, stage, uuidVars, result, unsaved, split, cut, tainted,
                 password0, configures, boots>>

ApplyDone ==
  /\ pc = "apply" /\ todo = <<>> /\ stage = Len(Stages)
  /\ pc' = "save" /\ result' = "applied"
  /\ uuid_active' = uuid_latest
  /\ UNCHANGED <<swVars, cacheVars, stage, todo, uuid_latest, savedId, ghostVars,
                 configures, faults, boots>>

-----------------------------------------------------------------------------
(* plat_config_restore(): when the copy fails the cache stays as it is. *)

gnma_config_restore ==
  /\ pc = "restore"
  /\ result' = "rejected"
  /\ \/ /\ sw' = Load(startup)
        /\ pc' = "reinit"
        /\ unsaved' = FALSE /\ cut' = tainted
        /\ UNCHANGED <<faults, trusted>>
     \/ /\ Fault
        /\ sw' \in {sw, Load(startup)}
        /\ pc' = "reply"
        /\ trusted' = FALSE
        /\ UNCHANGED <<unsaved, cut>>
  /\ UNCHANGED <<startup, erase, cacheVars, stage, todo, uuidVars, split, tainted,
                 password0, configures, boots>>

\* Mutant: the cache is not filled again after a rollback.
RestoreState_missing ==
  /\ pc = "reinit"
  /\ pc' = "reply"
  /\ UNCHANGED <<swVars, cacheVars, stage, todo, uuidVars, result, ghostVars,
                 configures, faults, boots>>

RestoreState ==
  /\ pc = "reinit"
  /\ StateInitAny
  /\ pc' = "reply"
  /\ UNCHANGED <<swVars, stage, todo, uuidVars, result, unsaved, split, cut, tainted,
                 password0, configures, boots>>

-----------------------------------------------------------------------------
(* plat_config_save(): nobody looks at its result. *)

gnma_config_save ==
  /\ pc = "save"
  /\ \/ /\ startup' = sw
        /\ tainted' = (~trusted \/ cut)
        /\ split' = TRUE
        /\ unsaved' = FALSE
        /\ pc' = "truncate"
        /\ UNCHANGED faults
     \/ /\ Fault
        /\ \/ startup' = sw /\ tainted' = (~trusted \/ cut)
           \/ UNCHANGED <<startup, tainted>>
        /\ split' = TRUE
        /\ pc' = "reply"
        /\ UNCHANGED unsaved
  /\ UNCHANGED <<sw, erase, cacheVars, stage, todo, uuidVars, result, trusted, cut,
                 password0, configures, boots>>

\* __plat_config_id_store(): fopen(cfgid_path, "w") ...
ConfigIdTruncate ==
  /\ pc = "truncate"
  /\ \/ savedId' = 0 /\ pc' = "store" /\ UNCHANGED faults
     \/ Fault /\ pc' = "reply" /\ UNCHANGED savedId
  /\ UNCHANGED <<swVars, cacheVars, stage, todo, uuid_latest, uuid_active, result,
                 ghostVars, configures, boots>>

\* ... then fprintf() and fclose().
ConfigIdWrite ==
  /\ pc = "store"
  /\ pc' = "reply"
  /\ \/ savedId' = uuid_active /\ split' = FALSE /\ UNCHANGED faults
     \/ Fault /\ UNCHANGED <<savedId, split>>
  /\ UNCHANGED <<swVars, cacheVars, stage, todo, uuid_latest, uuid_active, result,
                 trusted, unsaved, cut, tainted, password0, configures, boots>>

configure_reply ==
  /\ pc = "reply"
  /\ pc' = "idle" /\ result' = "none"
  /\ UNCHANGED <<swVars, cacheVars, stage, todo, uuidVars, ghostVars, configures,
                 faults, boots>>

-----------------------------------------------------------------------------
(* The client dies and is started again, the switch reboots, and factory.   *)

Restart ==
  /\ boots < MaxBoots
  /\ boots' = boots + 1
  /\ pc' = "init"
  /\ cache' = ZeroCache
  /\ feat' = [x \in Features |-> "NONE"]
  /\ trusted' = FALSE
  /\ stage' = 0 /\ todo' = <<>> /\ result' = "none"
  /\ uuid_latest' = 0 /\ uuid_active' = 0
  /\ UNCHANGED <<savedId, password0, configures, faults>>

\* The running configuration stays as the dead client left it.
Crash ==
  /\ pc # "init"
  /\ Restart
  /\ cut' = (cut \/ unsaved)
  /\ UNCHANGED <<swVars, unsaved, split, tainted>>

\* plat_reboot(), a power failure, or the end of factory_handle().
Reboot ==
  /\ Restart
  /\ sw' = Load(IF erase THEN Factory ELSE startup)
  /\ startup' = IF erase THEN Factory ELSE startup
  /\ tainted' = (tainted /\ ~erase)
  /\ split' = (split \/ erase)
  /\ erase' = FALSE /\ unsaved' = FALSE
  /\ cut' = (tainted /\ ~erase)

\* gnma_factory_default(): erase_boot, then the reboot ...
gnma_factory_default ==
  /\ pc = "idle" /\ boots < MaxBoots
  /\ erase' = TRUE
  /\ split' = TRUE
  /\ pc' = "factory"
  /\ UNCHANGED <<sw, startup, cacheVars, stage, todo, uuidVars, result, trusted,
                 unsaved, cut, tainted, password0, configures, faults, boots>>

\* ... and when that fails the erase is cancelled, which may fail as well.
FactoryFails ==
  /\ pc = "factory"
  /\ Fault
  /\ erase' \in BOOLEAN
  /\ pc' = "idle"
  /\ UNCHANGED <<sw, startup, cacheVars, stage, todo, uuidVars, result, ghostVars,
                 configures, boots>>

Step == \/ plat_init \/ connect_send
        \/ NextStage \/ RequestOk \/ RequestFails \/ RequestLost \/ RereadLost
        \/ ApplyDone \/ gnma_config_restore \/ RestoreState
        \/ gnma_config_save \/ ConfigIdTruncate \/ ConfigIdWrite
        \/ configure_reply \/ FactoryFails

Next == \/ Step
        \/ ConfigureInvalid \/ ConfigureUnparsed \/ configure_handle
        \/ Crash \/ Reboot \/ gnma_factory_default

Spec == Init /\ [][Next]_vars

-----------------------------------------------------------------------------
(* What it means that the switch s runs the configuration c. *)

\* Of the circuit id only "%p", the VLAN's, is looked at.  "%i", the interface's,
\* is unknown to RelayCircuitId() and treated as "%h:%p", the default; and that is
\* the zero of the cache: for a VLAN whose relay was off when the cache was filled
\* it is taken for set, whatever the switch holds.
RunsVlans(s, c) ==
  \A v \in Vlans :
    /\ v # FIRST_VLAN => s[<<"vlan", v>>] = c[<<"vlan", v>>]
    /\ c[<<"vlan", v>>] =>
         \A p \in Ports : s[<<"member", v, p>>] = c[<<"member", v, p>>]
    /\ c[<<"vlan", v>>] /\ v # FIRST_VLAN =>
         /\ \A i \in {"ip", "snoop", "querier"} : s[<<i, v>>] = c[<<i, v>>]
         /\ {g \in Groups : s[<<"group", v, g>>]} = c[<<"groups", v>>]
         /\ {a \in Addrs : s[<<"relay", v, a>>]} = {c[<<"relay", v>>]} \ {0}
         /\ c[<<"relay", v>>] # 0 =>
              /\ s[<<"hop", v>>] = PLAT_DHCP_RELAY_DEFAULT_MAXHOP_CNT
              /\ s[<<"policy", v>>] = "REPLACE"
              /\ c[<<"circ", v>>] = "%p" => s[<<"circ", v>>] = "%p"

RunsStp(s, c) ==
  /\ s[<<"stpmode">>] = c[<<"stpmode">>]
  /\ c[<<"stpmode">>] = "rpvst" =>
       \A v \in Vlans : IF c[<<"stp", v>>] = 0 THEN s[<<"stp", v>>] \in {0, StpOff}
                         ELSE s[<<"stp", v>>] = c[<<"stp", v>>]

\* A route that gnma_route_list_get() cannot read may stay behind.
RunsRoutes(s, c) ==
  \A x \in Routes :
    \/ s[<<"route", x>>] = c[<<"route", x>>]
    \/ c[<<"route", x>>] = "none" /\ s[<<"route", x>>] # "blackhole"

RunsPorts(s, c) ==
  \A p \in Ports : /\ s[<<"admin", p>>] = c[<<"admin", p>>]
                   /\ c[<<"admin", p>>] => s[<<"speed", p>>] = c[<<"speed", p>>]
                   /\ s[<<"l2ip", p>>] = c[<<"l2ip", p>>]

RunsCore(s, c) == /\ RunsVlans(s, c) /\ RunsPorts(s, c)
                  /\ RunsStp(s, c) /\ RunsRoutes(s, c)
                  /\ c[<<"syslog">>] # -1 => s[<<"syslog">>] = c[<<"syslog">>]

\* A RADIUS host that the configuration has is there; that one it does not have is
\* gone, or that a passkey it omits is, is not looked at (RadiusHostsFollow).
RunsAAA(s, c) ==
  /\ s[<<"authctrl">>] = c[<<"authctrl">>]
  /\ \A p \in Ports :
       /\ s[<<"pae", p>>] = IF c[<<"pae", p>>] THEN "AUTHENTICATOR" ELSE "NONE"
       /\ s[<<"ctrl", p>>] = CtrlMode[c[<<"ctrl", p>>]]
       /\ s[<<"host", p>>] = HostMode[c[<<"host", p>>]]
       /\ s[<<"guest", p>>] = c[<<"guest", p>>]
       /\ s[<<"fail", p>>] = c[<<"fail", p>>]
  /\ \A h \in Hosts :
       /\ ~s[<<"dac", h>>]
       /\ c[<<"radius", h>>] # "absent" =>
            s[<<"radius", h>>] \in {c[<<"radius", h>>], "key"}

RunsPoe(s, c) ==
  /\ \A p \in PoePorts :
       /\ c[<<"detect", p>>] # "" =>
            s[<<"detect", p>>]
              = DetectionMode[__poe_port_detection_mode_str2num(c[<<"detect", p>>])]
       /\ c[<<"prio", p>>] # "" =>
            s[<<"prio", p>>]
              = PoePriority[__poe_port_priority_mode_str2num(c[<<"prio", p>>])]
       /\ s[<<"limittype", p>>] = IF c[<<"limit", p>>] = -1 THEN "CLASS_BASED" ELSE "USER"
       /\ c[<<"limit", p>>] # -1 => s[<<"limit", p>>] = c[<<"limit", p>>]
       /\ s[<<"poeadmin", p>>] = c[<<"poeadmin", p>>]
  /\ c[<<"mgmt">>] # "" =>
       s[<<"mgmt">>] = PowerMgmt[__poe_power_mgmt_str2num(c[<<"mgmt">>])]
  /\ c[<<"thr">>] # -1 => s[<<"thr">>] = c[<<"thr">>]

-----------------------------------------------------------------------------
(* Safety *)

\* A configure command that is answered "applied" left the switch running its
\* configuration, whatever was configured, rejected, rolled back or
\* interrupted before: each stage of plat_config_apply() sends only what
\* differs from the cache, so a single stale item would leave a setting out.
\* Features that plat_state_init() could not read are skipped by the code;
\* a request or a read whose failure no caller looks at voids the promise; what
\* of the circuit id and of RADIUS is left out says RunsVlans, RunsAAA; a client
\* that died between gnma_stp_mode_set() and gnma_stp_ports_enable() finds the
\* mode when it is back, and never enables the ports.
AppliedIsRunning ==
  result = "applied" /\ trusted =>
    LET c == Configs[uuid_latest]
    IN  /\ RunsCore(sw, c)
        /\ feat["AAA"] = "OK" => RunsAAA(sw, c)
        /\ feat["POE"] = "OK" => RunsPoe(sw, c)
        /\ c[<<"password">>] # 0 => sw[<<"password">>] = c[<<"password">>]
        /\ c[<<"stpmode">>] = "rpvst" /\ ~cut => \A p \in Ports : sw[<<"stpport", p>>]

\* Between two commands the cache holds what the switch holds, after an apply as
\* well as after a rollback or a restart.  A VLAN's STP entry read from the switch
\* is only known to exist; a relay is only looked at on a VLAN that exists, and
\* its options while it is on, without a circuit id "%h:%p" (see RunsVlans).  The
\* timers and the priority beside the STP mode are not followed to the switch.
CacheAgrees ==
  pc = "idle" /\ trusted =>
    /\ \A v \in gnma_vlan_list_get(sw) :
         /\ {a \in Addrs : sw[<<"relay", v, a>>]} = {cache[<<"relay", v>>]} \ {0}
         /\ cache[<<"relay", v>>] # 0 =>
              /\ cache[<<"hop", v>>] = gnma_vlan_dhcp_relay_max_hop_cnt_get(sw, v)
              /\ cache[<<"policy", v>>] = gnma_vlan_dhcp_relay_policy_action_get(sw, v)
              /\ cache[<<"circ", v>>] \in {"h_p", gnma_vlan_dhcp_relay_ciruit_id_get(sw, v)}
    /\ \A v \in Vlans :
         CASE cache[<<"stp", v>>] = 0 -> sw[<<"stp", v>>] \in {0, StpOff}
           [] cache[<<"stp", v>>] = StpListed -> sw[<<"stp", v>>] # 0
           [] OTHER -> sw[<<"stp", v>>] = cache[<<"stp", v>>]
    /\ cache[<<"stpmode">>] = sw[<<"stpmode">>]
    /\ \A p \in Ports : cache[<<"l2ip", p>>] = sw[<<"l2ip", p>>]
    /\ \A x \in Routes : cache[<<"route", x>>] \in {sw[<<"route", x>>],
                                                   gnma_route_list_get(sw, x)}
    /\ feat["AAA"] = "OK" =>
         LET read == plat_state_port_ieee8021x_init(sw) @@ plat_state_radius_init(sw)
                       @@ plat_state_ieee8021x_init(sw)
         IN  \A i \in DOMAIN read : cache[i] = read[i]
    /\ feat["POE"] = "OK" =>
         \A i \in DOMAIN plat_state_poe_init(sw) : cache[i] = plat_state_poe_init(sw)[i]

\* The startup configuration, which a reboot and a rollback come back to, is
\* always a whole one: plat_config_save() runs after complete applies only.
StartupComplete ==
  tainted \/ startup = Factory \/ \E u \in Uuids : RunsCore(startup, Configs[u])

\* The uuid that the client reports names the configuration that the switch
\* runs, across rollbacks, restarts and reboots, once plat_config_save() saved
\* configuration and uuid together.
ActiveNamesRunning ==
  pc = "idle" /\ trusted /\ ~split /\ ~unsaved /\ ~tainted /\ uuid_active # 1
    => RunsCore(sw, Configs[uuid_active])

\* "there is no rollback for password, so this should be run last": a command
\* that is rejected left the old password, unless it is the change of the
\* password itself that got no answer.
PasswordKept ==
  result = "rejected" /\ stage > 0 /\ Stages[stage] \notin {"password", "syslog"}
    => sw[<<"password">>] = password0

\* While the AAA feature is not initialized no configure command touches what
\* belongs to it, on the switch or in the cache: plat_config_apply() logs and
\* skips.
SkippedUntouched ==
  [][ feat["AAA"] # "OK" /\ pc = "apply" /\ pc' \in {"apply", "save", "restore"}
        => \A i \in {"pae", "ctrl", "host", "guest", "fail"} \X Ports
                     \cup {"radius", "dac"} \X Hosts \cup {<<"authctrl">>} :
             sw'[i] = sw[i] /\ cache'[i] = cache[i] ]_vars

\* The comments in plat_radius_hosts_list_set(): "remove any host that is not
\* present in requested CFG", and for one without a passkey "remove previous
\* entry", "recreate it without specifying password".
RadiusHostsFollow ==
  result = "applied" /\ trusted /\ feat["AAA"] = "OK" =>
    \A h \in Hosts : sw[<<"radius", h>>] = Configs[uuid_latest][<<"radius", h>>]
=============================================================================
