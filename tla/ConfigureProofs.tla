-------------------------- MODULE ConfigureProofs ---------------------------
(***************************************************************************)
(* Proofs about Configure, for any switch, any configurations and any      *)
(* number of commands, failed requests, crashes and reboots: what the      *)
(* startup configuration and the saved uuid are worth after a restart, and *)
(* what an apply leaves alone.                                             *)
(***************************************************************************)
EXTENDS Configure, PlatApplyProofs

\* Two switches that differ in nothing but the password.
Agree(s, t) == \A i \in SwItems \ {<<"password">>} : s[i] = t[i]

\* The running configuration strays from the startup configuration only
\* between the begin of an apply and its save or rollback.
RunningInv ==
  /\ DOMAIN sw = SwItems /\ DOMAIN startup = SwItems
  /\ pc \in {"apply", "restore", "save"} => unsaved
  /\ ~unsaved => Agree(sw, startup)

\* The uuids, and who they belong to.
UuidInv ==
  /\ savedId \in Uuids \cup {0}
  /\ pc = "apply" => uuid_latest \in Uuids
  /\ pc = "save" => /\ result = "applied"
                    /\ uuid_active = uuid_latest /\ uuid_latest \in Uuids
  /\ pc \in {"truncate", "store"} => split /\ uuid_active \in Uuids
  /\ pc \in {"idle", "apply", "restore", "reinit", "reply", "factory"} /\ ~split
       => uuid_active = IF savedId # 0 THEN savedId ELSE 1

\* The startup configuration is the one that the uuid names: the active uuid
\* while it is being stored, the saved one from then on.
StartupInv ==
  /\ StartupComplete
  /\ pc \in {"truncate", "store"} /\ ~tainted
       => RunsCore(startup, Configs[uuid_active])
  /\ ~split /\ ~tainted /\ savedId # 0 => RunsCore(startup, Configs[savedId])

RecoveryInv == RunningInv /\ UuidInv /\ StartupInv

\* RecoveryInv is inductive as long as what is reported applied does run.
THEOREM RecoveryCorrect == Spec /\ []AppliedIsRunning => []RecoveryInv
  <1>1. Init => RecoveryInv
    BY ConfigureAssumption
       DEF Init, RecoveryInv, RunningInv, UuidInv, StartupInv, Agree,
           StartupComplete
  <1>2. RecoveryInv /\ AppliedIsRunning /\ [Next]_vars => RecoveryInv'
    <2> SUFFICES ASSUME RecoveryInv, AppliedIsRunning, [Next]_vars
                 PROVE  RecoveryInv'
      OBVIOUS
    <2> USE DEF RecoveryInv, RunningInv, UuidInv, StartupInv, StartupComplete,
                swVars, cacheVars, uuidVars, ghostVars, Fault
    <2>1. CASE RequestOk \/ RequestFails \/ RequestLost
      <3>1. \A w : DOMAIN Written(sw, w) = DOMAIN sw
        BY DEF Written
      <3> QED
        BY <2>1, <3>1 DEF RequestOk, RequestFails, RequestLost
    <2>2. CASE gnma_config_restore \/ Reboot
      <3>1. \A s : DOMAIN s = SwItems =>
              DOMAIN Load(s) = SwItems /\ Agree(Load(s), s)
        BY DEF Load, Agree
      <3>2. CASE gnma_config_restore
        BY <3>1, <3>2 DEF gnma_config_restore
      <3>3. CASE Reboot
        BY <3>1, <3>3, ConfigureAssumption DEF Reboot, Restart
      <3> QED
        BY <2>2, <3>2, <3>3
    <2>3. CASE gnma_config_save
      <3>1. Agree(sw, sw)
        BY DEF Agree
      <3>2. trusted => RunsCore(sw, Configs[uuid_latest])
        BY <2>3 DEF gnma_config_save, AppliedIsRunning
      <3> QED
        BY <2>3, <3>1, <3>2 DEF gnma_config_save
    <2>4. CASE plat_init
      BY <2>4 DEF plat_init, StateInitAny, StateInit
    <2>5. CASE connect_send
      BY <2>5 DEF connect_send
    <2>6. CASE NextStage
      BY <2>6 DEF NextStage
    <2>7. CASE ApplyDone
      BY <2>7 DEF ApplyDone
    <2>8. CASE RereadLost
      BY <2>8 DEF RereadLost
    <2>9. CASE RestoreState
      BY <2>9 DEF RestoreState, StateInitAny, StateInit
    <2>10. CASE ConfigIdTruncate
      BY <2>10 DEF ConfigIdTruncate
    <2>11. CASE ConfigIdWrite
      BY <2>11, ConfigureAssumption DEF ConfigIdWrite
    <2>12. CASE configure_reply
      BY <2>12 DEF configure_reply
    <2>13. CASE FactoryFails
      BY <2>13 DEF FactoryFails
    <2>14. CASE ConfigureInvalid
      BY <2>14 DEF ConfigureInvalid, Command
    <2>15. CASE ConfigureUnparsed
      BY <2>15 DEF ConfigureUnparsed, Command
    <2>16. CASE configure_handle
      BY <2>16 DEF configure_handle, Command
    <2>17. CASE gnma_factory_default
      BY <2>17 DEF gnma_factory_default
    <2>18. CASE Crash
      BY <2>18 DEF Crash, Restart
    <2>19. CASE UNCHANGED vars
      BY <2>19 DEF vars
    <2> QED
      BY <2>1, <2>2, <2>3, <2>4, <2>5, <2>6, <2>7, <2>8, <2>9, <2>10, <2>11,
         <2>12, <2>13, <2>14, <2>15, <2>16, <2>17, <2>18, <2>19
         DEF Next, Step
  <1> QED
    BY <1>1, <1>2, PTL DEF Spec

\* The startup configuration, to which a rollback and a reboot return, is
\* complete (StartupComplete) whenever the client is interrupted, provided that
\* what is reported applied does run (AppliedIsRunning).
THEOREM StartupIsComplete ==
  Spec /\ []AppliedIsRunning => []StartupComplete
  BY RecoveryCorrect, PTL DEF RecoveryInv, StartupInv

\* The uuid that connect_send() reports names what the switch runs
\* (ActiveNamesRunning) after any crashes, reboots and rollbacks, under the same
\* proviso.
THEOREM ActiveIsRunning ==
  Spec /\ []AppliedIsRunning => []ActiveNamesRunning
  <1>1. RecoveryInv => ActiveNamesRunning
    <2> SUFFICES ASSUME RecoveryInv, pc = "idle", ~split, ~unsaved, ~tainted,
                        uuid_active # 1
                 PROVE  RunsCore(sw, Configs[uuid_active])
      BY DEF ActiveNamesRunning
    <2>1. /\ uuid_active = savedId
          /\ RunsCore(startup, Configs[uuid_active])
      BY DEF RecoveryInv, UuidInv, StartupInv
    <2>2. Agree(startup, sw)
      BY DEF RecoveryInv, RunningInv, Agree
    \* RunsCore does not look at the password.
    <2>3. ASSUME NEW s, NEW t, NEW c, Agree(s, t), RunsCore(s, c)
          PROVE  RunsCore(t, c)
      <3> USE <2>3
      <3>1. ASSUME NEW v \in Vlans
            PROVE  \A x \in {"vlan", "ip", "snoop", "querier", "hop", "policy",
                             "circ", "stp"} : t[<<x, v>>] = s[<<x, v>>]
        BY <3>1 DEF Agree, SwItems
      <3>2. ASSUME NEW v \in Vlans, NEW p \in Ports
            PROVE  t[<<"member", v, p>>] = s[<<"member", v, p>>]
        BY <3>2 DEF Agree, SwItems
      <3>3. ASSUME NEW v \in Vlans, NEW a \in Addrs
            PROVE  t[<<"relay", v, a>>] = s[<<"relay", v, a>>]
        BY <3>3 DEF Agree, SwItems
      <3>4. ASSUME NEW v \in Vlans, NEW g \in Groups
            PROVE  t[<<"group", v, g>>] = s[<<"group", v, g>>]
        BY <3>4 DEF Agree, SwItems
      <3>5. ASSUME NEW p \in Ports
            PROVE  \A x \in {"admin", "speed", "l2ip"} : t[<<x, p>>] = s[<<x, p>>]
        BY <3>5 DEF Agree, SwItems
      <3>6. ASSUME NEW x \in Routes
            PROVE  t[<<"route", x>>] = s[<<"route", x>>]
        BY <3>6 DEF Agree, SwItems
      <3>7. t[<<"stpmode">>] = s[<<"stpmode">>] /\ t[<<"syslog">>] = s[<<"syslog">>]
        BY DEF Agree, SwItems
      <3>8. RunsVlans(t, c)
        <4>1. \A v \in Vlans :
                /\ {g \in Groups : t[<<"group", v, g>>]}
                     = {g \in Groups : s[<<"group", v, g>>]}
                /\ {a \in Addrs : t[<<"relay", v, a>>]}
                     = {a \in Addrs : s[<<"relay", v, a>>]}
          BY <3>3, <3>4
        <4>2. RunsVlans(s, c)
          BY DEF RunsCore
        <4> SUFFICES ASSUME NEW v \in Vlans
                     PROVE
          /\ v # FIRST_VLAN => t[<<"vlan", v>>] = c[<<"vlan", v>>]
          /\ c[<<"vlan", v>>] =>
               \A p \in Ports : t[<<"member", v, p>>] = c[<<"member", v, p>>]
          /\ c[<<"vlan", v>>] /\ v # FIRST_VLAN =>
               /\ \A i \in {"ip", "snoop", "querier"} : t[<<i, v>>] = c[<<i, v>>]
               /\ {g \in Groups : t[<<"group", v, g>>]} = c[<<"groups", v>>]
               /\ {a \in Addrs : t[<<"relay", v, a>>]} = {c[<<"relay", v>>]} \ {0}
               /\ c[<<"relay", v>>] # 0 =>
                    /\ t[<<"hop", v>>] = PLAT_DHCP_RELAY_DEFAULT_MAXHOP_CNT
                    /\ t[<<"policy", v>>] = "REPLACE"
                    /\ c[<<"circ", v>>] = "%p" => t[<<"circ", v>>] = "%p"
          BY Zenon DEF RunsVlans
        <4>3. /\ t[<<"vlan", v>>] = s[<<"vlan", v>>]
              /\ t[<<"hop", v>>] = s[<<"hop", v>>]
              /\ t[<<"policy", v>>] = s[<<"policy", v>>]
              /\ t[<<"circ", v>>] = s[<<"circ", v>>]
              /\ \A i \in {"ip", "snoop", "querier"} : t[<<i, v>>] = s[<<i, v>>]
          BY <3>1
        <4>4. \A p \in Ports : t[<<"member", v, p>>] = s[<<"member", v, p>>]
          BY <3>2
        <4> QED
          BY <4>1, <4>2, <4>3, <4>4, Zenon DEF RunsVlans
      <3>9. RunsPorts(t, c)
        BY <3>5, Zenon DEF RunsCore, RunsPorts
      <3>10. RunsStp(t, c)
        BY <3>1, <3>7, Zenon DEF RunsCore, RunsStp
      <3>11. RunsRoutes(t, c)
        BY <3>6, Zenon DEF RunsCore, RunsRoutes
      <3> QED
        BY <3>7, <3>8, <3>9, <3>10, <3>11 DEF RunsCore
    <2> QED
      BY <2>1, <2>2, <2>3
  <1> QED
    BY <1>1, RecoveryCorrect, PTL

-----------------------------------------------------------------------------
(* What a stage of plat_config_apply() leaves alone. *)

\* The requests of the current stage spare what the stage has no business with,
\* and up to the stage that sets it the password is the one before the command.
ApplyInv ==
  /\ DOMAIN sw = SwItems /\ DOMAIN startup = SwItems /\ DOMAIN cache = CacheItems
  /\ stage \in 0..Len(Stages)
  /\ pc # "apply" \/ stage = 0 => todo = <<>>
  /\ stage > 0 /\ Stages[stage] # "password" => Clean({"password"}, todo)
  /\ feat["AAA"] # "OK" => Clean(AaaTags, todo)
  /\ /\ pc \in {"apply", "restore"} \/ result = "rejected"
     /\ stage > 0 => Stages[stage] \notin {"password", "syslog"}
     => sw[<<"password">>] = password0

\* ApplyInv is inductive: StageSpares covers the stage that begins, and the
\* rest of a clean list is clean.
THEOREM ApplyCorrect == Spec => []ApplyInv
  <1> USE DEF swVars, cacheVars, uuidVars, ghostVars, Fault
  <1>1. Init => ApplyInv
    <2>1. Clean({"password"}, <<>>) /\ Clean(AaaTags, <<>>)
      BY CleanLists
    <2>2. DOMAIN ZeroCache = CacheItems
      BY DEF ZeroCache
    <2> QED
      BY <2>1, <2>2, ConfigureAssumption DEF Init, ApplyInv, Stages
  <1>2. ApplyInv /\ [Next]_vars => ApplyInv'
    <2> SUFFICES ASSUME ApplyInv, [Next]_vars
                 PROVE  ApplyInv'
      OBVIOUS
    <2>1. Clean({"password"}, <<>>) /\ Clean(AaaTags, <<>>)
      BY CleanLists
    <2>2. ASSUME NEW F, Clean(F, todo), todo # <<>>
          PROVE  Avoids(F, Head(todo)) /\ Clean(F, Tail(todo))
      <3> DEFINE S == {todo[i] : i \in 1..Len(todo)}
      <3>1. todo \in Seq(S)
        BY <2>2 DEF Clean
      <3> HIDE DEF S
      <3>2. /\ Len(todo) \in Nat /\ Len(todo) > 0
            /\ Head(todo) = todo[1]
            /\ Tail(todo) \in Seq(S) /\ Len(Tail(todo)) = Len(todo) - 1
            /\ \A i \in 1..Len(Tail(todo)) : Tail(todo)[i] = todo[i + 1]
        BY <2>2, <3>1
      <3> DEFINE q == Tail(todo)
      <3>3. q \in Seq({q[i] : i \in 1..Len(q)})
        <4>1. q \in Seq(S)
          BY <3>2
        <4> HIDE DEF q
        <4> QED
          BY <4>1
      <3>4. \A i \in 1..Len(q) : Avoids(F, q[i])
        BY <2>2, <3>2 DEF Clean
      <3>5. Avoids(F, todo[1])
        BY <2>2, <3>2 DEF Clean
      <3> QED
        BY <3>2, <3>3, <3>4, <3>5 DEF Clean
    <2>3. \A s, w : DOMAIN Written(s, w) = DOMAIN s
      BY DEF Written
    <2>4. ASSUME NEW w, Spares({"password"}, w)
          PROVE  Written(sw, w)[<<"password">>] = sw[<<"password">>]
      <3>1. <<"password">> \in SwItems
        BY DEF SwItems
      <3>2. <<"password">> \notin DOMAIN w
        BY <2>4 DEF Spares
      <3> QED
        BY <3>1, <3>2 DEF ApplyInv, Written
    <2>5. \A s : DOMAIN s = SwItems =>
                   /\ DOMAIN Load(s) = SwItems
                   /\ Load(s)[<<"password">>] = sw[<<"password">>]
      BY DEF Load, SwItems
    <2>6. CASE NextStage
      <3>1. /\ stage' = stage + 1 /\ stage' \in 1..Len(Stages)
            /\ Stages[stage'] \in {Stages[n] : n \in 1..Len(Stages)}
        BY <2>6 DEF NextStage, ApplyInv, Stages
      <3>2. Stages[stage'] # "password" => Clean({"password"}, todo')
        BY <2>6, <3>1, StageSpares DEF NextStage, PlainTags, AaaTags
      <3>3. feat["AAA"] # "OK" => Clean(AaaTags, todo')
        BY <2>6, <3>1, StageSpares DEF NextStage, PlainTags, AaaTags
      <3>4. Stages[stage'] \notin {"password", "syslog"}
              => (stage > 0 => Stages[stage] \notin {"password", "syslog"})
        BY <3>1 DEF ApplyInv, Stages
      <3> QED
        BY <2>6, <3>1, <3>2, <3>3, <3>4 DEF NextStage, ApplyInv
    <2>7. CASE RequestOk \/ RequestFails \/ RequestLost
      <3>1. /\ pc = "apply" /\ todo # <<>> /\ stage > 0
            /\ UNCHANGED <<startup, stage, feat, result, password0>>
        BY <2>7 DEF RequestOk, RequestFails, RequestLost, ApplyInv
      <3>2. sw' = sw \/ sw' = Written(sw, Head(todo).w)
        BY <2>7 DEF RequestOk, RequestFails, RequestLost
      <3>3. DOMAIN sw' = SwItems /\ DOMAIN cache' = CacheItems
        BY <2>3, <2>7, <3>2 DEF RequestOk, RequestFails, RequestLost, ApplyInv
      <3>4. /\ todo' \in {<<>>, Tail(todo)}
            /\ pc' = "apply" \/ (pc' = "restore" /\ todo' = <<>>)
        BY <2>7, <3>1 DEF RequestOk, RequestFails, RequestLost
      <3>5. /\ Stages[stage] # "password" => Clean({"password"}, todo')
            /\ feat["AAA"] # "OK" => Clean(AaaTags, todo')
        BY <2>1, <2>2, <3>1, <3>4 DEF ApplyInv
      <3>6. Stages[stage] \notin {"password", "syslog"}
              => sw'[<<"password">>] = password0
        BY <2>2, <2>4, <3>1, <3>2 DEF ApplyInv, Avoids
      <3> QED
        BY <3>1, <3>3, <3>4, <3>5, <3>6 DEF ApplyInv
    <2>8. CASE RereadLost
      <3>1. DOMAIN cache' = DOMAIN cache
        BY <2>3, <2>8 DEF RereadLost
      <3>2. /\ stage > 0 => (Stages[stage] # "password" => Clean({"password"}, todo'))
            /\ feat["AAA"] # "OK" => Clean(AaaTags, todo')
        BY <2>2, <2>8 DEF RereadLost, ApplyInv
      <3> QED
        BY <2>8, <3>1, <3>2 DEF RereadLost, ApplyInv
    <2>9. CASE plat_init \/ RestoreState
      <3>1. DOMAIN cache' = CacheItems
        BY <2>9 DEF plat_init, RestoreState, StateInitAny, StateInit, plat_state_init
      <3> QED
        BY <2>1, <2>9, <3>1 DEF plat_init, RestoreState, ApplyInv
    <2>10. CASE gnma_config_restore
      BY <2>5, <2>10 DEF gnma_config_restore, ApplyInv
    <2>11. CASE Crash \/ Reboot
      <3>1. DOMAIN ZeroCache = CacheItems
        BY DEF ZeroCache
      <3>2. DOMAIN sw' = SwItems /\ DOMAIN startup' = SwItems
        BY <2>5, <2>11, ConfigureAssumption DEF Crash, Reboot, ApplyInv
      <3> QED
        BY <2>1, <2>11, <3>1, <3>2 DEF Crash, Reboot, Restart, ApplyInv, Stages
    <2>12. CASE configure_handle
      BY <2>1, <2>12 DEF configure_handle, Command, ApplyInv
    <2>13. CASE ConfigureInvalid \/ ConfigureUnparsed
      BY <2>13 DEF ConfigureInvalid, ConfigureUnparsed, Command, ApplyInv
    <2>14. CASE gnma_config_save
      BY <2>14 DEF gnma_config_save, ApplyInv
    <2>15. CASE \/ connect_send \/ ApplyDone \/ ConfigIdTruncate \/ ConfigIdWrite
                \/ configure_reply \/ FactoryFails \/ gnma_factory_default
      BY <2>15 DEF connect_send, ApplyDone, ConfigIdTruncate, ConfigIdWrite,
                   configure_reply, FactoryFails, gnma_factory_default, ApplyInv
    <2>16. CASE UNCHANGED vars
      BY <2>16 DEF vars, ApplyInv
    <2> QED
      BY <2>6, <2>7, <2>8, <2>9, <2>10, <2>11, <2>12, <2>13, <2>14, <2>15, <2>16
         DEF Next, Step
  <1> QED
    BY <1>1, <1>2, PTL DEF Spec

\* "there is no rollback for password, so this should be run last": whatever
\* request fails, a command that is rejected before the stage of the password
\* left the old one (PasswordKept).
THEOREM PasswordIsKept == Spec => []PasswordKept
  <1>1. ApplyInv => PasswordKept
    BY DEF ApplyInv, PasswordKept
  <1> QED
    BY <1>1, ApplyCorrect, PTL

\* While AAA is not initialized no request of an apply, answered, failed or
\* lost, touches its items on the switch or in the cache (SkippedUntouched).
THEOREM SkippedIsUntouched == Spec => SkippedUntouched
  <1> DEFINE Items == {"pae", "ctrl", "host", "guest", "fail"} \X Ports
                        \cup {"radius", "dac"} \X Hosts \cup {<<"authctrl">>}
             Untouched == feat["AAA"] # "OK" /\ pc = "apply"
                              /\ pc' \in {"apply", "save", "restore"}
                            => \A i \in Items : sw'[i] = sw[i] /\ cache'[i] = cache[i]
  <1>1. ApplyInv /\ [Next]_vars => [Untouched]_vars
    <2> SUFFICES ASSUME ApplyInv, Next, feat["AAA"] # "OK", pc = "apply",
                        pc' \in {"apply", "save", "restore"}, NEW i \in Items
                 PROVE  sw'[i] = sw[i] /\ cache'[i] = cache[i]
      OBVIOUS
    <2>1. i \in SwItems /\ i \in CacheItems /\ i[1] \in AaaTags
      BY DEF SwItems, CacheItems, AaaTags
    <2> HIDE DEF Items
    <2>2. \A s, w : i \in DOMAIN s /\ Spares(AaaTags, w) => Written(s, w)[i] = s[i]
      BY <2>1 DEF Spares, Written
    <2>3. todo # <<>> => Avoids(AaaTags, Head(todo))
      <3> SUFFICES ASSUME todo # <<>> PROVE Avoids(AaaTags, Head(todo))
        OBVIOUS
      <3> DEFINE S == {todo[n] : n \in 1..Len(todo)}
      <3>1. todo \in Seq(S) /\ \A n \in 1..Len(todo) : Avoids(AaaTags, todo[n])
        BY DEF ApplyInv, Clean
      <3> HIDE DEF S
      <3>2. Len(todo) \in Nat /\ Len(todo) > 0 /\ Head(todo) = todo[1]
        BY <3>1
      <3> QED
        BY <3>1, <3>2
    <2>4. CASE RequestOk \/ RequestFails \/ RequestLost
      <3>1. /\ todo # <<>>
            /\ Spares(AaaTags, Head(todo).w) /\ Spares(AaaTags, Head(todo).c)
        BY <2>3, <2>4 DEF RequestOk, RequestFails, RequestLost, Avoids
      <3>2. sw' \in {sw, Written(sw, Head(todo).w)}
        BY <2>4 DEF RequestOk, RequestFails, RequestLost
      <3>3. cache' \in {cache, Written(cache, Head(todo).c),
                        Written(Written(cache, Nothing), Head(todo).c)}
        <4>1. Reads(Head(todo).kind) = Nothing
          BY <2>3, <3>1 DEF Reads, Avoids, AaaTags
        <4> QED
          BY <2>4, <4>1 DEF RequestOk, RequestFails, RequestLost, cacheVars
      <3>4. Spares(AaaTags, Nothing)
        BY DEF Spares, Nothing
      <3>5. \A w : DOMAIN Written(cache, w) = DOMAIN cache
        BY DEF Written
      <3> QED
        BY <2>1, <2>2, <3>1, <3>2, <3>3, <3>4, <3>5 DEF ApplyInv
    <2>5. ~RereadLost
      BY <2>3 DEF RereadLost, Avoids, AaaTags
    <2>6. CASE NextStage \/ ApplyDone
      BY <2>6 DEF NextStage, ApplyDone, swVars, cacheVars
    <2> QED
      BY <2>4, <2>5, <2>6
         DEF Next, Step, plat_init, connect_send, gnma_config_restore, RestoreState,
             gnma_config_save, ConfigIdTruncate, ConfigIdWrite, configure_reply,
             FactoryFails, ConfigureInvalid, ConfigureUnparsed, configure_handle,
             Command, Crash, Reboot, Restart, gnma_factory_default
  <1> QED
    BY <1>1, ApplyCorrect, PTL DEF Spec, SkippedUntouched

=============================================================================
