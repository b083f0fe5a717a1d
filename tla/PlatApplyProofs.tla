-------------------------- MODULE PlatApplyProofs ---------------------------
(***************************************************************************)
(* What no stage of plat_config_apply() touches, for every configuration,  *)
(* switch and cache: the first component of an item, its tag, tells whose  *)
(* it is, and a stage makes requests with the tags of its own part only.   *)
(***************************************************************************)
EXTENDS PlatApply, FiniteSetTheorems, NaturalsInduction, WellFoundedInduction,
        SequenceTheorems, TLAPS

\* The writes w leave the items with a tag in F alone.
Spares(F, w) == \A i \in DOMAIN w : i[1] \notin F

\* So does the request r, with what it writes to the switch and to the cache,
\* and with what it reads again (Reread names the tag in kind).
Avoids(F, r) == r.kind \notin F /\ Spares(F, r.w) /\ Spares(F, r.c)

\* A list of such requests.
Clean(F, q) ==
  /\ q \in Seq({q[i] : i \in 1..Len(q)})
  /\ \A i \in 1..Len(q) : Avoids(F, q[i])

\* The tags of 802.1X, RADIUS and DAS.
AaaTags == {"pae", "ctrl", "host", "guest", "fail", "radius", "dac",
            "authctrl"}

\* All others but that of the password, and the kinds of requests.
PlainTags == {"vlan", "ip", "snoop", "querier", "hop", "policy", "circ", "stp",
              "member", "relay", "group", "admin", "speed", "l2ip", "stpport",
              "detect", "prio", "limittype", "limit", "poeadmin", "route",
              "stpmode", "stpattr", "mgmt", "thr", "syslog",
              "must", "ignored", "drop", "local", "abort"}

\* Clean lists are closed under the ways in which the stages put them together.
\* The last of them, Joined, is an induction over the number of lists.
LEMMA CleanLists ==
  ASSUME NEW F
  PROVE  /\ Clean(F, <<>>)
         /\ \A r : Avoids(F, r) => Clean(F, <<r>>)
         /\ \A r, s : Avoids(F, r) /\ Avoids(F, s) => Clean(F, <<r, s>>)
         /\ \A r, s, t : Avoids(F, r) /\ Avoids(F, s) /\ Avoids(F, t)
                           => Clean(F, <<r, s, t>>)
         /\ \A p, q : Clean(F, p) /\ Clean(F, q) => Clean(F, p \o q)
         /\ \A n \in Nat : \A q :
              q = [i \in 1..n |-> q[i]] /\ (\A i \in 1..n : Clean(F, q[i]))
                => Clean(F, Joined(q))
  <1>1. ASSUME NEW S, NEW q \in Seq(S), \A x \in S : Avoids(F, x)
        PROVE  Clean(F, q)
    <2>1. \A i \in 1..Len(q) : q[i] \in S
      OBVIOUS
    <2>2. q \in Seq({q[i] : i \in 1..Len(q)})
      OBVIOUS
    <2> QED
      BY <1>1, <2>1, <2>2 DEF Clean
  <1>2. Clean(F, <<>>)
    <2> DEFINE q == <<>>
    <2>1. q \in Seq({}) /\ \A x \in {} : Avoids(F, x)
      OBVIOUS
    <2> HIDE DEF q
    <2>2. Clean(F, q)
      BY <1>1, <2>1
    <2> QED
      BY <2>2 DEF q
  <1>3. ASSUME NEW r, Avoids(F, r)
        PROVE  Clean(F, <<r>>)
    <2> DEFINE q == <<r>>
    <2>1. q \in Seq({r}) /\ \A x \in {r} : Avoids(F, x)
      BY <1>3
    <2> HIDE DEF q
    <2>2. Clean(F, q)
      BY <1>1, <2>1
    <2> QED
      BY <2>2 DEF q
  <1>4. ASSUME NEW r, NEW s, Avoids(F, r), Avoids(F, s)
        PROVE  Clean(F, <<r, s>>)
    <2> DEFINE q == <<r, s>>
    <2>1. q \in Seq({r, s}) /\ \A x \in {r, s} : Avoids(F, x)
      BY <1>4
    <2> HIDE DEF q
    <2>2. Clean(F, q)
      BY <1>1, <2>1
    <2> QED
      BY <2>2 DEF q
  <1>5. ASSUME NEW r, NEW s, NEW t, Avoids(F, r), Avoids(F, s), Avoids(F, t)
        PROVE  Clean(F, <<r, s, t>>)
    <2> DEFINE q == <<r, s, t>>
    <2>1. q \in Seq({r, s, t}) /\ \A x \in {r, s, t} : Avoids(F, x)
      BY <1>5
    <2> HIDE DEF q
    <2>2. Clean(F, q)
      BY <1>1, <2>1
    <2> QED
      BY <2>2 DEF q
  <1>6. ASSUME NEW p, NEW q, Clean(F, p), Clean(F, q)
        PROVE  Clean(F, p \o q)
    <2> DEFINE P == {p[i] : i \in 1..Len(p)}
               Q == {q[i] : i \in 1..Len(q)}
    <2>1. \A x \in P \cup Q : Avoids(F, x)
      BY <1>6 DEF Clean
    <2>2. p \in Seq(P) /\ q \in Seq(Q)
      BY <1>6 DEF Clean
    <2> HIDE DEF P, Q
    <2>3. p \in Seq(P \cup Q) /\ q \in Seq(P \cup Q)
      BY <2>2
    <2>4. p \o q \in Seq(P \cup Q)
      BY <2>3, ConcatProperties
    <2> QED
      BY <1>1, <2>1, <2>4
  <1>7. ASSUME NEW T \in SUBSET Nat, 0 \in T, \A m \in T : m + 1 \in T
        PROVE  T = Nat
    <2> SUFFICES ASSUME T # Nat PROVE FALSE
      OBVIOUS
    <2>1. PICK m \in Nat \ T : \A k \in Nat \ T : ~(<<k, m>> \in OpToRel(<, Nat))
      <3>1. IsWellFoundedOn(OpToRel(<, Nat), Nat)
        BY NatLessThanWellFounded
      <3> QED
        BY <3>1, WFMin, Zenon
    <2>2. \A k \in Nat \ T : ~(k < m)
      BY <2>1, Zenon DEF OpToRel
    <2>3. m - 1 \in T
      BY <1>7, <2>2
    <2> QED
      BY <1>7, <2>3
  <1>8. ASSUME NEW n \in Nat, NEW q, q = [i \in 1..n |-> q[i]],
               \A i \in 1..n : Clean(F, q[i])
        PROVE  Clean(F, Joined(q))
    <2> DEFINE Join(g, m) ==
          g = [i \in 0..m |-> IF i = 0 THEN <<>> ELSE g[i-1] \o q[i]]
    <2>1. Len(q) = n
      <3>1. q \in Seq({q[i] : i \in 1..n})
        BY <1>8
      <3> QED
        BY <1>8, <3>1
    <2>2. \A m \in Nat : \E g : Join(g, m)
      <3> DEFINE T == {m \in Nat : \E g : Join(g, m)}
      <3>1. 0 \in T
        <4> DEFINE g == [i \in 0..0 |-> <<>>]
        <4>1. Join(g, 0)
          OBVIOUS
        <4> QED
          BY <4>1
      <3>2. ASSUME NEW m \in T
            PROVE  m + 1 \in T
        <4>1. m \in Nat /\ m + 1 \in Nat
          OBVIOUS
        <4>2. PICK g : Join(g, m)
          OBVIOUS
        <4> DEFINE last == g[m] \o q[m + 1]
                   h == [i \in 0..(m + 1) |-> IF i = m + 1 THEN last ELSE g[i]]
        <4>3. ASSUME NEW i \in 0..(m + 1)
              PROVE  h[i] = IF i = 0 THEN <<>> ELSE h[i-1] \o q[i]
          <5>1. CASE i = m + 1
            <6>1. /\ i \in 0..(m + 1) /\ i # 0 /\ i - 1 = m
                  /\ m \in 0..(m + 1) /\ m # m + 1
              BY <4>1, <5>1
            <6> HIDE DEF last
            <6>2. h[i] = last /\ h[i-1] = g[m]
              BY <5>1, <6>1
            <6> QED
              BY <5>1, <6>1, <6>2 DEF last
          <5>2. CASE i # m + 1
            <6>1. i \in 0..m /\ i # m + 1 /\ (i # 0 => i - 1 \in 0..m /\ i - 1 # m + 1)
              BY <4>1, <5>2
            <6>2. g[i] = IF i = 0 THEN <<>> ELSE g[i-1] \o q[i]
              BY <4>2, <6>1
            <6>3. h[i] = g[i] /\ (i # 0 => h[i-1] = g[i-1])
              BY <4>1, <6>1
            <6> QED
              BY <6>2, <6>3
          <5> QED
            BY <5>1, <5>2
        <4>4. Join(h, m + 1)
          <5> HIDE DEF last
          <5> QED
            BY <4>3
        <4> QED
          BY <4>1, <4>4
      <3> HIDE DEF T
      <3>3. T = Nat
        BY <1>7, <3>1, <3>2 DEF T
      <3> QED
        BY <3>3 DEF T
    <2> DEFINE join == CHOOSE g : Join(g, n)
    <2>3. Join(join, n)
      BY <2>2
    <2>4. Joined(q) = join[n]
      BY <2>1 DEF Joined
    <2> HIDE DEF join
    <2> DEFINE T == {m \in Nat : m \in 0..n => Clean(F, join[m])}
    <2>5. 0 \in T
      BY <1>2, <2>3
    <2>6. ASSUME NEW m \in T
          PROVE  m + 1 \in T
      <3> SUFFICES ASSUME m + 1 \in 0..n PROVE Clean(F, join[m + 1])
        OBVIOUS
      <3>1. m \in 0..n /\ m + 1 \in 1..n /\ m + 1 # 0 /\ (m + 1) - 1 = m
        OBVIOUS
      <3>2. join[m + 1] = join[m] \o q[m + 1]
        BY <2>3, <3>1
      <3>3. Clean(F, join[m]) /\ Clean(F, q[m + 1])
        BY <1>8, <3>1
      <3> QED
        BY <1>6, <3>2, <3>3
    <2> HIDE DEF T
    <2>7. T = Nat
      BY <1>7, <2>5, <2>6 DEF T
    <2> QED
      BY <2>4, <2>7 DEF T
  <1> QED
    BY <1>2, <1>3, <1>6, <1>8, <1>4, <1>5

\* A stage of plat_config_apply() changes the password only if it is the stage
\* of the password, and the items of AAA only if that feature is initialized.
LEMMA StageSpares ==
  ASSUME NEW F, NEW st \in {Stages[n] : n \in 1..Len(Stages)},
         NEW c, NEW s, NEW k, NEW f,
         F \cap PlainTags = {},
         f["AAA"] = "OK" => F \cap AaaTags = {},
         st = "password" => "password" \notin F
  PROVE  Clean(F, plat_config_apply(st, c, s, k, f))
  <1>1. /\ \A t \in PlainTags : \A x : Spares(F, <<t>> :> x)
        /\ \A t \in PlainTags : \A y, x : Spares(F, <<t, y>> :> x)
        /\ \A t \in PlainTags : \A y, z, x : Spares(F, <<t, y, z>> :> x)
    BY DEF Spares, :>
  <1>2. \A t \in AaaTags : f["AAA"] = "OK" =>
          /\ \A x : Spares(F, <<t>> :> x)
          /\ \A y, x : Spares(F, <<t, y>> :> x)
    BY DEF Spares, :>
  <1>3. Spares(F, Nothing)
    BY DEF Spares, Nothing
  <1>4. \A v, w : Spares(F, v) /\ Spares(F, w) => Spares(F, v @@ w)
    BY DEF Spares, @@
  <1>5. /\ "must" \notin F /\ "ignored" \notin F /\ "drop" \notin F
        /\ "local" \notin F /\ "abort" \notin F
    BY DEF PlainTags
  <1>6. \A w : Spares(F, w) => /\ Avoids(F, Must(w))
                               /\ Avoids(F, Ignored(w))
                               /\ Avoids(F, Local(w))
    BY <1>3, <1>5 DEF Avoids, Must, Ignored, Local
  <1>7. \A w, v : Spares(F, w) /\ Spares(F, v) =>
                    /\ Avoids(F, Then(Must(w), v))
                    /\ Avoids(F, Then(Ignored(w), v))
    BY <1>5 DEF Avoids, Must, Ignored, Then
  <1>8. Avoids(F, Read) /\ Avoids(F, Abort)
    BY <1>3, <1>5 DEF Avoids, Must, Read, Abort
  <1>9. \A p, q : Clean(F, p) /\ Clean(F, q) => Clean(F, p \o q)
    BY CleanLists
  <1>10. /\ \A r : Avoids(F, r) => Clean(F, <<r>>)
         /\ \A r, t : Avoids(F, r) /\ Avoids(F, t) => Clean(F, <<r, t>>)
         /\ \A r, t, u : Avoids(F, r) /\ Avoids(F, t) /\ Avoids(F, u)
                           => Clean(F, <<r, t, u>>)
    BY CleanLists
  <1>11. Clean(F, <<>>)
    BY CleanLists
  <1>12. \A n \in Nat : \A q :
           q = [i \in 1..n |-> q[i]] /\ (\A i \in 1..n : Clean(F, q[i]))
             => Clean(F, Joined(q))
    BY CleanLists
  <1>13. /\ \A S \in SUBSET Vlans : Cardinality(S) \in Nat
         /\ \A S \in SUBSET Hosts : Cardinality(S) \in Nat
         /\ Cardinality(Ports) \in Nat /\ Cardinality(Routes) \in Nat
    <2> DEFINE a == 1
               b == 4095
    <2>1. a \in Int /\ b \in Int /\ Vlans \subseteq a..b
      BY GnmaAssumption
    <2> HIDE DEF a, b
    <2>2. IsFiniteSet(a..b)
      BY <2>1, FS_Interval
    <2>3. IsFiniteSet(Vlans)
      BY <2>1, <2>2, FS_Subset
    <2>4. \A S, T : IsFiniteSet(S) /\ T \in SUBSET S => Cardinality(T) \in Nat
      BY FS_Subset, FS_CardinalityType
    <2>5. /\ IsFiniteSet(Ports) /\ IsFiniteSet(Hosts) /\ IsFiniteSet(Routes)
          /\ Ports \in SUBSET Ports /\ Routes \in SUBSET Routes
      BY GnmaAssumption
    <2> QED
      BY <2>3, <2>4, <2>5
  <1>14. \A v : Clean(F, gnma_igmp_snooping_set(v, FALSE, FALSE))
    <2> SUFFICES ASSUME NEW v PROVE Clean(F, gnma_igmp_snooping_set(v, FALSE, FALSE))
      OBVIOUS
    <2> DEFINE none == [i \in {"group"} \X {v} \X Groups |-> FALSE]
    <2>1. Spares(F, none)
      BY DEF Spares, PlainTags
    <2> HIDE DEF none
    <2> DEFINE p == Ignored(<<"querier", v>> :> FALSE)
               q == Ignored(none)
               r == Ignored((<<"snoop", v>> :> FALSE) @@ none)
    <2>2. Avoids(F, p) /\ Avoids(F, q) /\ Avoids(F, r)
      BY <1>1, <1>4, <1>6, <2>1 DEF PlainTags
    <2>3. gnma_igmp_snooping_set(v, FALSE, FALSE) = <<p, q, r>>
      BY DEF gnma_igmp_snooping_set, __gnma_igmp_disable, none
    <2> HIDE DEF p, q, r
    <2> QED
      BY <1>10, <2>2, <2>3
  <1>15. \A v, x : Clean(F, plat_vlan_rif_set(s, k, v, x))
    <2> SUFFICES ASSUME NEW v, NEW x
                 PROVE  Clean(F, plat_vlan_rif_set(s, k, v, x))
      OBVIOUS
    <2> DEFINE old   == gnma_vlan_erif_attr_pref_list_get(s, v)
               relay == k[<<"relay", v>>]
               q == When(relay # 0, <<gnma_vlan_dhcp_relay_server_remove(v, relay)>>)
               l == Local(<<"relay", v>> :> 0)
               d == gnma_vlan_erif_attr_pref_delete(v)
               r == When(old # 0 /\ x = 0, <<l, d>>)
               u == When(relay # 0, <<gnma_vlan_dhcp_relay_server_add(v, relay)>>)
               t == When(x # 0 /\ x # old,
                         <<gnma_vlan_erif_attr_pref_update(v, x)>> \o u)
    <2>1. Avoids(F, l) /\ Avoids(F, d)
      BY <1>1, <1>6 DEF gnma_vlan_erif_attr_pref_delete, PlainTags
    <2>2. Clean(F, q)
      BY <1>1, <1>6, <1>10, <1>11 DEF gnma_vlan_dhcp_relay_server_remove, When, PlainTags
    <2>3. Clean(F, u)
      BY <1>1, <1>6, <1>10, <1>11 DEF gnma_vlan_dhcp_relay_server_add, When, PlainTags
    <2>4. Avoids(F, gnma_vlan_erif_attr_pref_update(v, x))
      BY <1>1, <1>6 DEF gnma_vlan_erif_attr_pref_update, PlainTags
    <2>5. plat_vlan_rif_set(s, k, v, x) =
            <<Read>> \o q \o gnma_igmp_snooping_set(v, FALSE, FALSE) \o r \o t
      BY DEF plat_vlan_rif_set
    <2> HIDE DEF q, l, d, u
    <2>6. Clean(F, t)
      BY <1>9, <1>10, <1>11, <2>3, <2>4 DEF When
    <2>7. Clean(F, r)
      BY <1>10, <1>11, <2>1 DEF When
    <2> HIDE DEF r, t
    <2> QED
      BY <1>8, <1>9, <1>10, <1>14, <2>2, <2>5, <2>6, <2>7
  <1>16. CASE st = "vlanlist"
    <2> DEFINE gone == gnma_vlan_list_get(s) \ (CfgVlans(c) \cup {FIRST_VLAN})
               Delete(v) == plat_vlan_rif_set(s, k, v, 0) \o <<gnma_vlan_remove(v)>>
               q == [n \in 1..Cardinality(gone) |-> Delete(Sorted(gone)[n])]
    <2>1. \A v : Avoids(F, gnma_vlan_remove(v))
      <3>1. \A v : Spares(F, [i \in {"member"} \X {v} \X Ports |-> "none"])
        BY DEF Spares, PlainTags
      <3> QED
        BY <1>1, <1>4, <1>6, <3>1 DEF gnma_vlan_remove, PlainTags
    <2>2. \A v : Clean(F, Delete(v))
      BY <1>9, <1>10, <1>15, <2>1
    <2>3. Cardinality(gone) \in Nat
      BY <1>13 DEF gnma_vlan_list_get
    <2> HIDE DEF Delete, gone
    <2>4. Clean(F, Joined(q))
      BY <1>12, <2>2, <2>3
    <2>5. plat_config_apply(st, c, s, k, f) = <<Read>> \o Joined(q)
      BY <1>16 DEF plat_config_apply, plat_vlan_list_set, ForEach, Delete, gone
    <2> HIDE DEF q
    <2> QED
      BY <1>8, <1>9, <1>10, <2>4, <2>5
  <1>17. CASE st = "vlanmembers"
    <2> DEFINE Part(v) == plat_vlan_memberlist_set(c, s, v)
               all == [i \in UNION {DOMAIN Part(v) : v \in CfgVlans(c)} |->
                         Part(i[2])[i]]
    <2>1. ASSUME NEW v PROVE Spares(F, Part(v))
      <3>2. Spares(F, gnma_vlan_create(v))
        BY <1>1 DEF gnma_vlan_create, PlainTags
      <3> DEFINE now  == gnma_vlan_member_bmap_get(s, v)
                 Want(p) == c[<<"member", v, p>>]
                 lost == {p \in Ports : now[p] # "none" /\ Want(p) = "none"}
                 new  == {p \in Ports : Want(p) \notin {"none", now[p]}}
                 a == [i \in {"member"} \X {v} \X lost |->
                         gnma_vlan_member_remove(v, i[3])[i]]
                 b == [i \in {"member"} \X {v} \X new |->
                         gnma_vlan_member_create(v, i[3], Want(i[3]))[i]]
      <3>3. Part(v) = gnma_vlan_create(v) @@ a @@ b
        BY DEF plat_vlan_memberlist_set
      <3> HIDE DEF lost, new, Part
      <3>4. Spares(F, a)
        BY DEF Spares, PlainTags
      <3>5. Spares(F, b)
        BY DEF Spares, PlainTags
      <3> HIDE DEF a, b
      <3> QED
        BY <1>4, <3>2, <3>3, <3>4, <3>5
    <2> HIDE DEF Part
    <2>2. Spares(F, all)
      BY <2>1 DEF Spares
    <2>3. plat_config_apply(st, c, s, k, f) = <<Read, gnma_change_exec(all)>>
      BY <1>17 DEF plat_config_apply, config_vlan_members_apply, Part
    <2> HIDE DEF all
    <2> QED
      BY <1>6, <1>8, <1>10, <2>2, <2>3 DEF gnma_change_exec
  <1>18. \A p : f["AAA"] = "OK" => Clean(F, config_port_ieee8021x_apply(c, k, p))
    <2> SUFFICES ASSUME NEW p, f["AAA"] = "OK"
                 PROVE  Clean(F, config_port_ieee8021x_apply(c, k, p))
      OBVIOUS
    <2> DEFINE W(i, r) == When(k[<<i, p>>] # c[<<i, p>>], <<r>>)
               r1 == gnma_port_ieee8021x_pae_mode_set(p, c[<<"pae", p>>])
               r2 == gnma_port_ieee8021x_port_ctrl_set(p, c[<<"ctrl", p>>])
               r3 == gnma_port_ieee8021x_port_host_mode_set(p, c[<<"host", p>>])
               r4 == gnma_port_ieee8021x_guest_vlan_set(p, c[<<"guest", p>>])
               r5 == gnma_port_ieee8021x_unauthorized_vlan_set(p, c[<<"fail", p>>])
               l == [i \in {"pae", "ctrl", "host", "guest", "fail"} \X {p} |-> c[i]]
    <2>1. Avoids(F, r1) /\ Avoids(F, r2) /\ Avoids(F, r3)
      BY <1>2, <1>6 DEF AaaTags, gnma_port_ieee8021x_pae_mode_set,
           gnma_port_ieee8021x_port_ctrl_set, gnma_port_ieee8021x_port_host_mode_set
    <2>2. Avoids(F, r4) /\ Avoids(F, r5)
      BY <1>2, <1>6 DEF AaaTags, gnma_port_ieee8021x_guest_vlan_set,
           gnma_port_ieee8021x_unauthorized_vlan_set
    <2>3. Avoids(F, Local(l))
      <3>1. Spares(F, l)
        BY DEF Spares, AaaTags
      <3> HIDE DEF l
      <3> QED
        BY <1>6, <3>1
    <2>4. config_port_ieee8021x_apply(c, k, p) =
            W("pae", r1) \o W("ctrl", r2) \o W("host", r3) \o W("guest", r4)
              \o W("fail", r5) \o <<Local(l)>>
      BY DEF config_port_ieee8021x_apply
    <2> HIDE DEF r1, r2, r3, r4, r5, l
    <2>5. /\ Clean(F, W("pae", r1)) /\ Clean(F, W("ctrl", r2))
          /\ Clean(F, W("host", r3)) /\ Clean(F, W("guest", r4))
          /\ Clean(F, W("fail", r5))
      BY <1>10, <1>11, <2>1, <2>2 DEF When
    <2>6. Clean(F, <<Local(l)>>)
      BY <1>10, <2>3
    <2> HIDE DEF W
    <2> QED
      BY <1>9, <2>4, <2>5, <2>6
  <1>19. \A p : Clean(F, config_poe_port_apply(c, k, p))
    <2> SUFFICES ASSUME NEW p PROVE Clean(F, config_poe_port_apply(c, k, p))
      OBVIOUS
    <2> DEFINE mode  == __poe_port_detection_mode_str2num(c[<<"detect", p>>])
               prio  == __poe_port_priority_mode_str2num(c[<<"prio", p>>])
               user  == c[<<"limit", p>>] # -1
               limit == [user |-> user, limit |-> IF user THEN c[<<"limit", p>>] ELSE 0]
               up    == c[<<"poeadmin", p>>]
               r1 == Then(gnma_poe_port_detection_mode_set(p, mode),
                          <<"detect", p>> :> mode)
               r2 == Then(gnma_poe_port_priority_set(p, prio), <<"prio", p>> :> prio)
               r3 == Then(gnma_poe_port_power_limit_set(p, user, limit.limit),
                          <<"limit", p>> :> limit)
               r4 == Then(gnma_poe_port_admin_mode_set(p, up), <<"poeadmin", p>> :> up)
               q1 == When(c[<<"detect", p>>] # "" /\ k[<<"detect", p>>] # mode, <<r1>>)
               q2 == When(c[<<"prio", p>>] # "" /\ k[<<"prio", p>>] # prio, <<r2>>)
               q3 == When(k[<<"limit", p>>] # limit, <<r3>>)
               q4 == When(k[<<"poeadmin", p>>] # up, <<r4>>)
               q5 == When(c[<<"poereset", p>>], <<gnma_poe_port_reset(p)>>)
    <2>1. config_poe_port_apply(c, k, p) = q1 \o q2 \o q3 \o q4 \o q5
      BY DEF config_poe_port_apply
    <2> HIDE DEF mode, prio, user, limit, up
    <2>2. Avoids(F, r1) /\ Avoids(F, r2) /\ Avoids(F, r4)
      BY <1>1, <1>7 DEF PlainTags, gnma_poe_port_detection_mode_set,
           gnma_poe_port_priority_set, gnma_poe_port_admin_mode_set
    <2>3. Avoids(F, r3)
      <3> DEFINE w == IF user THEN (<<"limittype", p>> :> "USER")
                                     @@ (<<"limit", p>> :> limit.limit)
                              ELSE <<"limittype", p>> :> "CLASS_BASED"
      <3>1. Spares(F, w)
        BY <1>1, <1>4 DEF PlainTags
      <3>2. gnma_poe_port_power_limit_set(p, user, limit.limit) = Must(w)
        BY DEF gnma_poe_port_power_limit_set
      <3> HIDE DEF w
      <3> QED
        BY <1>1, <1>7, <3>1, <3>2 DEF PlainTags
    <2>4. Avoids(F, gnma_poe_port_reset(p))
      BY <1>3, <1>6 DEF gnma_poe_port_reset
    <2> HIDE DEF r1, r2, r3, r4
    <2>5. Clean(F, q1) /\ Clean(F, q2) /\ Clean(F, q3) /\ Clean(F, q4) /\ Clean(F, q5)
      BY <1>10, <1>11, <2>2, <2>3, <2>4 DEF When
    <2> HIDE DEF q1, q2, q3, q4, q5
    <2> QED
      BY <1>9, <2>1, <2>5
  <1>20. CASE st = "ports"
    <2> DEFINE a(p) == gnma_port_admin_state_set(p, c[<<"admin", p>>])
               q1(p) == When(c[<<"admin", p>>],
                             <<plat_port_speed_set(p, c[<<"speed", p>>])>>)
               q2(p) == When(f["AAA"] = "OK", config_port_ieee8021x_apply(c, k, p))
               q3(p) == When(p \in PoePorts /\ f["POE"] = "OK",
                             config_poe_port_apply(c, k, p))
               Port(p) == <<a(p)>> \o q1(p) \o q2(p) \o q3(p)
               q == [n \in 1..Cardinality(Ports) |-> Port(Sorted(Ports)[n])]
    <2>1. ASSUME NEW p PROVE Clean(F, Port(p))
      <3>1. Avoids(F, a(p))
        BY <1>1, <1>6 DEF gnma_port_admin_state_set, PlainTags
      <3>2. Avoids(F, plat_port_speed_set(p, c[<<"speed", p>>]))
        BY <1>1, <1>6, <1>8 DEF plat_port_speed_set, gnma_port_speed_set, PlainTags
      <3>3. Clean(F, q1(p))
        BY <1>10, <1>11, <3>2 DEF When
      <3>4. Clean(F, q2(p))
        BY <1>11, <1>18 DEF When
      <3>5. Clean(F, q3(p))
        BY <1>11, <1>19 DEF When
      <3> HIDE DEF a, q1, q2, q3
      <3> QED
        BY <1>9, <1>10, <3>1, <3>3, <3>4, <3>5
    <2>2. plat_config_apply(st, c, s, k, f) = Joined(q)
      BY <1>20 DEF plat_config_apply, plat_port_config_apply, ForEach
    <2> HIDE DEF Port
    <2> QED
      BY <1>12, <1>13, <2>1, <2>2
  <1>21. CASE st = "unit"
    <2> DEFINE mode == __poe_power_mgmt_str2num(c[<<"mgmt">>])
               thr  == c[<<"thr">>]
               r1 == Then(gnma_poe_power_mgmt_set(mode), <<"mgmt">> :> mode)
               r2 == Then(gnma_poe_usage_threshold_set(thr), <<"thr">> :> thr)
               q1 == When(c[<<"mgmt">>] # "" /\ k[<<"mgmt">>] # mode, <<r1>>)
               q2 == When(thr # -1 /\ k[<<"thr">>] # thr, <<r2>>)
    <2>1. plat_config_apply(st, c, s, k, f) =
            IF c[<<"flood">>] THEN <<Abort>> ELSE q1 \o q2
      BY <1>21 DEF plat_config_apply, config_unit_apply
    <2> HIDE DEF mode, thr
    <2>2. Avoids(F, r1) /\ Avoids(F, r2)
      BY <1>1, <1>7 DEF PlainTags, gnma_poe_power_mgmt_set, gnma_poe_usage_threshold_set
    <2> HIDE DEF r1, r2
    <2>3. Clean(F, q1) /\ Clean(F, q2)
      BY <1>10, <1>11, <2>2 DEF When
    <2> HIDE DEF q1, q2
    <2>4. Clean(F, <<Abort>>) /\ Clean(F, q1 \o q2)
      BY <1>8, <1>9, <1>10, <2>3
    <2> QED
      BY <2>1, <2>4
  <1>22. CASE st = "stp"
    <2> DEFINE fresh == k[<<"stpmode">>] = "rpvst" /\ k[<<"stpattr">>] = 0
               r(v) == Then(gnma_stp_vid_set(v, c[<<"stp", v>>]),
                            <<"stp", v>> :> c[<<"stp", v>>])
               Vlan(v) == When(k[<<"stp", v>>] # c[<<"stp", v>>], <<r(v)>>)
               q == [n \in 1..Cardinality(Vlans) |-> Vlan(Sorted(Vlans)[n])]
               zero == [i \in {"stp"} \X Vlans |-> 0]
               off == [i \in {"stpport"} \X Ports |-> FALSE]
               on == [i \in {"stpport"} \X Ports |-> TRUE]
               l1 == Local((<<"stpmode">> :> "none") @@ zero)
               l2 == Local((<<"stpmode">> :> "rpvst") @@ (<<"stpattr">> :> 0))
               clear == Ignored((<<"stpmode">> :> "none") @@ zero @@ off)
               set == Must(<<"stpmode">> :> "rpvst")
               q1 == When(k[<<"stpmode">> ] # "none", <<clear>> \o <<>> \o <<l1>>)
               q2 == When(~fresh,
                          <<clear>> \o <<set>> \o <<Read, Read, Must(on)>> \o <<l2>>)
    <2>1. plat_config_apply(st, c, s, k, f) =
            CASE c[<<"stpmode">>] = "none" -> q1
              [] c[<<"stpmode">>] = "rpvst" -> q2 \o Joined(q)
              [] OTHER -> <<Abort>>
      BY <1>22 DEF plat_config_apply, config_stp_apply, ForEach, gnma_stp_mode_set,
           config_stp_apply_ports_enable_all, gnma_stp_ports_enable
    <2>2. Spares(F, zero) /\ Spares(F, off) /\ Spares(F, on)
      BY DEF Spares, PlainTags
    <2> HIDE DEF zero, off, on, fresh
    <2>3. /\ Avoids(F, l1) /\ Avoids(F, l2) /\ Avoids(F, clear)
          /\ Avoids(F, set) /\ Avoids(F, Must(on))
      BY <1>1, <1>4, <1>6, <2>2 DEF PlainTags
    <2> HIDE DEF l1, l2, clear, set
    <2>4. Clean(F, q1)
      BY <1>9, <1>10, <1>11, <2>3 DEF When
    <2>5. Clean(F, q2)
      BY <1>8, <1>9, <1>10, <1>11, <2>3 DEF When
    <2>6. \A v : Clean(F, Vlan(v))
      <3>1. ASSUME NEW v PROVE Avoids(F, r(v))
        <4>1. /\ Spares(F, <<"stp", v>> :> c[<<"stp", v>>])
              /\ Spares(F, <<"stp", v>> :> StpOff)
          BY <1>1 DEF PlainTags
        <4> QED
          BY <1>7, <4>1 DEF gnma_stp_vid_set, gnma_stp_vid_enable, gnma_stp_vid_disable
      <3> HIDE DEF r
      <3> QED
        BY <1>10, <1>11, <3>1 DEF When
    <2>7. Cardinality(Vlans) \in Nat
      BY <1>13
    <2> HIDE DEF Vlan
    <2>8. Clean(F, Joined(q))
      BY <1>12, <2>6, <2>7
    <2> HIDE DEF q, q1, q2
    <2>9. Clean(F, q2 \o Joined(q)) /\ Clean(F, <<Abort>>)
      BY <1>8, <1>9, <1>10, <2>5, <2>8
    <2> QED
      BY <2>1, <2>4, <2>9
  <1>23. CASE st = "vlanip"
    <2> DEFINE vlans == CfgVlans(c) \ {FIRST_VLAN}
               g(v) == gnma_igmp_snooping_set(v, c[<<"snoop", v>>], c[<<"querier", v>>])
               r(v) == gnma_igmp_static_groups_set(v, c[<<"groups", v>>])
               Vlan(v) == plat_vlan_rif_set(s, k, v, c[<<"ip", v>>])
                            \o (g(v) \o <<r(v)>>)
               q == [n \in 1..Cardinality(vlans) |-> Vlan(Sorted(vlans)[n])]
    <2>1. ASSUME NEW v PROVE Clean(F, Vlan(v))
      <3>1. Clean(F, g(v))
        <4>1. CASE c[<<"snoop", v>>] \/ c[<<"querier", v>>]
          <5> DEFINE r1 == Must(<<"querier", v>> :> c[<<"querier", v>>])
                     r2 == Must(<<"snoop", v>> :> c[<<"snoop", v>>])
          <5>1. g(v) = <<r1, r2>>
            BY <4>1 DEF gnma_igmp_snooping_set
          <5>2. Avoids(F, r1) /\ Avoids(F, r2)
            BY <1>1, <1>6 DEF PlainTags
          <5> HIDE DEF r1, r2
          <5> QED
            BY <1>10, <5>1, <5>2
        <4>2. CASE ~(c[<<"snoop", v>>] \/ c[<<"querier", v>>])
          <5>1. g(v) = gnma_igmp_snooping_set(v, FALSE, FALSE)
            BY <4>2 DEF gnma_igmp_snooping_set
          <5> QED
            BY <1>14, <5>1
        <4> QED
          BY <4>1, <4>2
      <3>2. Avoids(F, r(v))
        <4>1. Spares(F, [i \in {"group"} \X {v} \X c[<<"groups", v>>] |-> TRUE])
          BY DEF Spares, PlainTags
        <4> QED
          BY <1>6, <4>1 DEF gnma_igmp_static_groups_set
      <3> HIDE DEF g, r
      <3> QED
        BY <1>9, <1>10, <1>15, <3>1, <3>2
    <2>2. Cardinality(vlans) \in Nat
      BY <1>13 DEF CfgVlans
    <2>3. plat_config_apply(st, c, s, k, f) = Joined(q)
      BY <1>23 DEF plat_config_apply, config_vlan_ipv4_apply, plat_vlan_igmp_set,
           ForEach
    <2> HIDE DEF Vlan, vlans
    <2> QED
      BY <1>12, <2>1, <2>2, <2>3
  <1>24. CASE st = "portip"
    <2> DEFINE q1(p) == When(k[<<"l2ip", p>>] # 0 /\ c[<<"l2ip", p>>] = 0,
                             <<gnma_portl2_erif_attr_pref_delete(p)>>)
               q2(p) == When(c[<<"l2ip", p>>] \notin {0, k[<<"l2ip", p>>]},
                             <<gnma_portl2_erif_attr_pref_update(p, c[<<"l2ip", p>>])>>)
               r(p) == Local(<<"l2ip", p>> :> c[<<"l2ip", p>>])
               Port(p) == q1(p) \o q2(p) \o <<r(p)>>
               q == [n \in 1..Cardinality(Ports) |-> Port(Sorted(Ports)[n])]
    <2>1. ASSUME NEW p PROVE Clean(F, Port(p))
      <3>1. Avoids(F, gnma_portl2_erif_attr_pref_delete(p)) /\ Avoids(F, r(p))
        BY <1>1, <1>6 DEF PlainTags, gnma_portl2_erif_attr_pref_delete
      <3>2. Avoids(F, gnma_portl2_erif_attr_pref_update(p, c[<<"l2ip", p>>]))
        BY <1>1, <1>6 DEF PlainTags, gnma_portl2_erif_attr_pref_update
      <3>3. Clean(F, q1(p)) /\ Clean(F, q2(p))
        BY <1>10, <1>11, <3>1, <3>2 DEF When
      <3> HIDE DEF q1, q2, r
      <3> QED
        BY <1>9, <1>10, <3>1, <3>3
    <2>2. plat_config_apply(st, c, s, k, f) = Joined(q)
      BY <1>24 DEF plat_config_apply, config_portl2_ipv4_apply, plat_portl2_rif_set,
           ForEach
    <2> HIDE DEF Port
    <2> QED
      BY <1>12, <1>13, <2>1, <2>2
  <1>25. CASE st = "relay"
    <2> DEFINE vlans == CfgVlans(c) \ {FIRST_VLAN}
               old == {v \in vlans : k[<<"relay", v>>] \notin {0, c[<<"relay", v>>]}}
               new == {v \in vlans : c[<<"relay", v>>] # 0}
               r0(v) == Then(gnma_vlan_dhcp_relay_server_remove(v, k[<<"relay", v>>]),
                             <<"relay", v>> :> 0)
               hops == PLAT_DHCP_RELAY_DEFAULT_MAXHOP_CNT
               circ(v) == RelayCircuitId(c[<<"circ", v>>])
               r1(v) == gnma_vlan_dhcp_relay_server_add(v, c[<<"relay", v>>])
               r2(v) == Then(gnma_vlan_dhcp_relay_max_hop_cnt_set(v, hops),
                             <<"hop", v>> :> hops)
               r3(v) == Then(gnma_vlan_dhcp_relay_policy_action_set(v, "replace"),
                             <<"policy", v>> :> "replace")
               r4(v) == Then(gnma_vlan_dhcp_relay_ciruit_id_set(v, circ(v)),
                             <<"circ", v>> :> circ(v))
               r5(v) == Local(<<"relay", v>> :> c[<<"relay", v>>])
               q2(v) == When(k[<<"hop", v>>] # hops, <<r2(v)>>)
               q3(v) == When(k[<<"policy", v>>] # "replace", <<r3(v)>>)
               q4(v) == When(k[<<"circ", v>>] # circ(v), <<r4(v)>>)
               Clear(v) == <<r0(v)>>
               Enable(v) == <<r1(v)>> \o q2(v) \o q3(v) \o q4(v) \o <<r5(v)>>
               q == [n \in 1..Cardinality(old) |-> Clear(Sorted(old)[n])]
               p == [n \in 1..Cardinality(new) |-> Enable(Sorted(new)[n])]
    <2>1. ASSUME NEW v PROVE Clean(F, Clear(v)) /\ Clean(F, Enable(v))
      <3>1. Avoids(F, r0(v)) /\ Avoids(F, r1(v)) /\ Avoids(F, r5(v))
        BY <1>1, <1>6, <1>7 DEF PlainTags, gnma_vlan_dhcp_relay_server_remove,
             gnma_vlan_dhcp_relay_server_add
      <3> HIDE DEF hops, circ
      <3>2. Avoids(F, r2(v)) /\ Avoids(F, r3(v)) /\ Avoids(F, r4(v))
        BY <1>1, <1>7 DEF PlainTags, gnma_vlan_dhcp_relay_max_hop_cnt_set,
             gnma_vlan_dhcp_relay_policy_action_set, gnma_vlan_dhcp_relay_ciruit_id_set
      <3> HIDE DEF r0, r1, r2, r3, r4, r5
      <3>3. Clean(F, q2(v)) /\ Clean(F, q3(v)) /\ Clean(F, q4(v))
        BY <1>10, <1>11, <3>2 DEF When
      <3> HIDE DEF q2, q3, q4
      <3> QED
        BY <1>9, <1>10, <3>1, <3>3
    <2>2. Cardinality(old) \in Nat /\ Cardinality(new) \in Nat
      <3>1. old \in SUBSET Vlans /\ new \in SUBSET Vlans
        BY DEF CfgVlans
      <3> HIDE DEF old, new
      <3> QED
        BY <1>13, <3>1
    <2>3. plat_config_apply(st, c, s, k, f) = Joined(q) \o Joined(p)
      BY <1>25 DEF plat_config_apply, config_vlan_dhcp_relay_apply, ForEach
    <2> HIDE DEF Clear, Enable, old, new
    <2>4. Clean(F, Joined(q)) /\ Clean(F, Joined(p))
      BY <1>12, <2>1, <2>2
    <2> HIDE DEF q, p
    <2> QED
      BY <1>9, <2>3, <2>4
  <1>26. CASE st = "router"
    <2> DEFINE new(x) == c[<<"route", x>>]
               old(x) == k[<<"route", x>>]
               q1(x) == When(old(x) \notin {"none", new(x)},
                             <<Ignored(gnma_route_remove(x))>>)
               q2(x) == When(new(x) \notin {"none", old(x)},
                             <<router_fib_info2gnma_attr(x, new(x))>>)
               Diff(x) == q1(x) \o q2(x)
               q == [n \in 1..Cardinality(Routes) |-> Diff(Sorted(Routes)[n])]
               l == [i \in {"route"} \X Routes |-> c[i]]
    <2>1. ASSUME NEW x PROVE Clean(F, Diff(x))
      <3>1. Avoids(F, Ignored(gnma_route_remove(x)))
        BY <1>1, <1>6 DEF PlainTags, gnma_route_remove
      <3>2. Avoids(F, router_fib_info2gnma_attr(x, new(x)))
        <4>1. Avoids(F, gnma_route_create(x, new(x)))
          BY <1>1, <1>6 DEF PlainTags, gnma_route_create
        <4> QED
          BY <1>8, <4>1 DEF router_fib_info2gnma_attr
      <3>3. Clean(F, q1(x)) /\ Clean(F, q2(x))
        BY <1>10, <1>11, <3>1, <3>2 DEF When
      <3> HIDE DEF q1, q2
      <3> QED
        BY <1>9, <3>3
    <2>2. plat_config_apply(st, c, s, k, f) = Joined(q) \o <<Local(l)>>
      BY <1>26 DEF plat_config_apply, config_router_apply, ForEach
    <2> HIDE DEF Diff
    <2>3. Clean(F, Joined(q))
      BY <1>12, <1>13, <2>1
    <2>4. Avoids(F, Local(l))
      <3>1. Spares(F, l)
        BY DEF Spares, PlainTags
      <3> HIDE DEF l
      <3> QED
        BY <1>6, <3>1
    <2> HIDE DEF q, l
    <2> QED
      BY <1>9, <1>10, <2>2, <2>3, <2>4
  <1>27. CASE st = "ieee8021x"
    <2>1. CASE f["AAA"] # "OK"
      BY <1>11, <1>27, <2>1 DEF plat_config_apply, When
    <2>2. CASE f["AAA"] = "OK"
      <3> DEFINE on == c[<<"authctrl">>]
                 r0 == Then(gnma_ieee8021x_system_auth_control_set(on),
                            <<"authctrl">> :> on)
                 known == {h \in Hosts : k[<<"dac", h>>]}
                 D1(h) == <<gnma_ieee8021x_das_dac_host_remove(h)>>
                 gone == {h \in Hosts :
                            k[<<"radius", h>>] /\ c[<<"radius", h>>] # "key"}
                 want == {h \in Hosts : c[<<"radius", h>>] # "absent"}
                 D2(h) == <<gnma_radius_host_remove(h)>>
                 D3(h) == <<gnma_radius_host_add(s, h, c[<<"radius", h>>])>>
                 q0 == When(k[<<"authctrl">>] # on, <<r0>>)
                 q1 == [n \in 1..Cardinality(known) |-> D1(Sorted(known)[n])]
                 q2 == [n \in 1..Cardinality(gone) |-> D2(Sorted(gone)[n])]
                 q3 == [n \in 1..Cardinality(want) |-> D3(Sorted(want)[n])]
                 t1 == When(known # {}, <<Reread("dac")>>)
                 t2 == When(gone \cup want # {}, <<Reread("radius")>>)
      <3>1. plat_config_apply(st, c, s, k, f) =
              q0 \o (Joined(q1) \o t1) \o (Joined(q2) \o Joined(q3) \o t2)
        BY <1>27, <2>2 DEF plat_config_apply, When, config_ieee8021x_apply,
             plat_dac_list_set, plat_radius_hosts_list_set, ForEach
      <3>2. Avoids(F, r0)
        BY <1>2, <1>7, <2>2 DEF AaaTags, gnma_ieee8021x_system_auth_control_set
      <3>3. Avoids(F, Reread("dac")) /\ Avoids(F, Reread("radius"))
        BY <1>3, <2>2 DEF Reread, Avoids, AaaTags
      <3>4. Clean(F, q0) /\ Clean(F, t1) /\ Clean(F, t2)
        BY <1>10, <1>11, <3>2, <3>3 DEF When
      <3>5. \A h : Clean(F, D1(h)) /\ Clean(F, D2(h)) /\ Clean(F, D3(h))
        <4>1. \A h : Avoids(F, gnma_ieee8021x_das_dac_host_remove(h))
          BY <1>2, <1>6, <2>2 DEF AaaTags, gnma_ieee8021x_das_dac_host_remove
        <4>2. \A h : Avoids(F, gnma_radius_host_remove(h))
          BY <1>2, <1>6, <2>2 DEF AaaTags, gnma_radius_host_remove
        <4>3. \A h : Avoids(F, gnma_radius_host_add(s, h, c[<<"radius", h>>]))
          BY <1>2, <1>6, <2>2 DEF AaaTags, gnma_radius_host_add
        <4> QED
          BY <1>10, <4>1, <4>2, <4>3
      <3>6. /\ Cardinality(known) \in Nat /\ Cardinality(gone) \in Nat
            /\ Cardinality(want) \in Nat
        <4>1. known \in SUBSET Hosts /\ gone \in SUBSET Hosts /\ want \in SUBSET Hosts
          OBVIOUS
        <4> HIDE DEF known, gone, want
        <4> QED
          BY <1>13, <4>1
      <3> HIDE DEF known, gone, want, D1, D2, D3
      <3>7. Clean(F, Joined(q1)) /\ Clean(F, Joined(q2)) /\ Clean(F, Joined(q3))
        BY <1>12, <3>5, <3>6
      <3> HIDE DEF q0, q1, q2, q3, t1, t2
      <3> QED
        BY <1>9, <3>1, <3>4, <3>7
    <2> QED
      BY <2>1, <2>2
  <1>28. CASE st = "password"
    <2>1. Spares(F, <<"password">> :> c[<<"password">>])
      BY <1>28 DEF Spares, :>
    <2>2. Avoids(F, gnma_system_password_set(c[<<"password">>]))
      BY <1>6, <2>1 DEF gnma_system_password_set
    <2> QED
      BY <1>10, <1>11, <1>28, <2>2
         DEF plat_config_apply, config_system_password_apply, When
  <1>29. CASE st = "syslog"
    <2>1. Avoids(F, gnma_syslog_cfg_clear)
      BY <1>1, <1>3, <1>5 DEF gnma_syslog_cfg_clear, Avoids, PlainTags
    <2>2. Avoids(F, gnma_syslog_cfg_set(c[<<"syslog">>]))
      BY <1>1, <1>6 DEF gnma_syslog_cfg_set, PlainTags
    <2> QED
      BY <1>10, <1>11, <1>29, <2>1, <2>2 DEF plat_config_apply, plat_syslog_set, When
  <1> QED
    BY <1>16, <1>17, <1>20, <1>21, <1>22, <1>23, <1>24, <1>25, <1>26, <1>27, <1>28,
       <1>29 DEF Stages
=============================================================================
