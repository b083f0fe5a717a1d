---------------------------- MODULE PollsProofs ----------------------------
(***************************************************************************)
(* Proofs about Polls, for any number of reports started and any metrics.  *)
(***************************************************************************)
EXTENDS Polls, SequenceTheorems, TLAPS

-----------------------------------------------------------------------------
(***************************************************************************)
(* The inductive invariant.  What the list of calls still to make has to   *)
(* look like is the argument: it stands for the order of the calls in the  *)
(* handlers of proto.c.                                                    *)
(***************************************************************************)

\* A pointer that is not NULL is to a struct of its own report, in use.
PointersLive ==
  \A k \in Kinds :
    ptr[k] # None => heap[ptr[k]] = "live" /\ kind[ptr[k]] = k

Destroys(c, k) == c.call = "destroy" /\ c.kind = k

\* The calls of s before the i-th all destroy, and leave no report k.
GoneBefore(s, i, k) ==
  /\ \A j \in 1..(i-1) : s[j].call = "destroy"
  /\ ptr[k] = None \/ \E j \in 1..(i-1) : Destroys(s[j], k)

\* periodic_create() comes right after the periodic_destroy() of its report,
\* configure_handle() overwrites the metrics after it destroyed the reports
\* that read them, and proto_stop() returns after it destroyed all.
InOrder(s) ==
  \A i \in 1..Len(s) :
    /\ s[i].call = "create" =>
         IF i = 1 THEN ptr[s[i].kind] = None ELSE Destroys(s[i-1], s[i].kind)
    /\ s[i].call = "set" /\ s[i].by = "configure" =>
         \A k \in Reporters : GoneBefore(s, i, k)
    /\ s[i].call = "return" =>
         i = Len(s) /\ \A k \in Kinds : GoneBefore(s, i, k)

\* periodic_destroy() is under way, or proto_stop() is over.
MainAt ==
  /\ main \in {"broadcast", "join"} =>
       /\ todo # <<>>
       /\ todo[1].call = "destroy"
       /\ ptr[todo[1].kind] # None
  /\ main = "stopped" => todo = <<>> /\ \A k \in Kinds : ptr[k] = None

\* The report k is made after the calls s, if periodic_create() works.
WillRun(s, k) ==
  \/ ptr[k] # None /\ \A i \in 1..Len(s) : ~Destroys(s[i], k)
  \/ \E i \in 1..Len(s) : s[i].call = "create" /\ s[i].kind = k

\* The metrics that are in force then ask for k.
WillAsk(s, k) ==
  /\ \A i \in 1..Len(s) : s[i].call = "set" => s[i].metrics[k]
  /\ (\A i \in 1..Len(s) : s[i].call # "set") => metrics[k]

Decided(s) ==
  /\ WillRun(s, "state") => WillAsk(s, "state")
  /\ WillRun(s, "health") => WillAsk(s, "health")

PollsInv ==
  /\ TypeOK
  /\ ThreadsAreOwned
  /\ PointersLive
  /\ MainAt
  /\ InOrder(todo)
  /\ Decided(todo)

-----------------------------------------------------------------------------
(***************************************************************************)
(* The lists of calls.                                                     *)
(***************************************************************************)

\* What plat_state_poll() and the others add to a handler, if anything,
\* keeps its calls in order.
LEMMA PollInOrder ==
  ASSUME NEW s \in Seq(Calls), NEW e \in BOOLEAN, NEW k \in Kinds,
         \A i \in 1..Len(s) : s[i].call # "return",
         InOrder(s), Decided(s), e /\ k \in {"state", "health"} => WillAsk(s, k)
  PROVE  LET t == s \o poll_if(e, k) IN
           /\ t \in Seq(Calls)
           /\ \A i \in 1..Len(t) : t[i].call # "return"
           /\ InOrder(t) /\ Decided(t)
           /\ \A j \in {"state", "health"} : WillAsk(s, j) => WillAsk(t, j)
  <1> DEFINE d == [call |-> "destroy", kind |-> k]
             c == [call |-> "create", kind |-> k]
             t == s \o poll_if(e, k)
  <1>1. CASE ~e
    <2>1. t = s
      BY <1>1 DEF poll_if
    <2> QED
      BY <2>1
  <1>2. CASE e
    <2>1. d \in Calls /\ c \in Calls
      BY DEF Calls
    <2>2. poll_if(e, k) \in Seq(Calls) /\ Len(poll_if(e, k)) = 2
          /\ poll_if(e, k)[1] = d /\ poll_if(e, k)[2] = c
      BY <1>2, <2>1 DEF poll_if, poll, periodic_destroy
    <2> HIDE DEF d, c
    <2>3. /\ t \in Seq(Calls) /\ Len(t) = Len(s) + 2
          /\ \A i \in 1..Len(s) : t[i] = s[i]
          /\ t[Len(s) + 1] = d /\ t[Len(s) + 2] = c
      <3> DEFINE u == poll_if(e, k)
      <3>1. u \in Seq(Calls) /\ Len(u) = 2 /\ u[1] = d /\ u[2] = c
        BY <2>2
      <3> HIDE DEF u
      <3> DEFINE v == s \o u
      <3>2. /\ v \in Seq(Calls) /\ Len(v) = Len(s) + Len(u)
            /\ \A i \in 1..Len(s) + Len(u) :
                 v[i] = IF i <= Len(s) THEN s[i] ELSE u[i - Len(s)]
        BY <3>1, ConcatProperties
      <3> HIDE DEF v
      <3>3. Len(s) \in Nat
        OBVIOUS
      <3>4. /\ v \in Seq(Calls) /\ Len(v) = Len(s) + 2
            /\ \A i \in 1..Len(s) : v[i] = s[i]
        BY <3>1, <3>2, <3>3
      <3>5. v[Len(s) + 1] = d /\ v[Len(s) + 2] = c
        BY <3>1, <3>2, <3>3
      <3> QED
        BY <3>4, <3>5 DEF u, v
    <2> HIDE DEF t
    <2>4. /\ d.call = "destroy" /\ d.kind = k
          /\ c.call = "create" /\ c.kind = k
      BY DEF d, c
    <2>5. Len(s) \in Nat
      OBVIOUS
    <2>6. \A i \in 1..Len(t) : i \in 1..Len(s) \/ i = Len(s) + 1 \/ i = Len(s) + 2
      BY <2>3, <2>5
    <2>7. \A i \in 1..Len(t) : t[i].call # "return"
      BY <2>3, <2>4, <2>6
    <2>8. InOrder(t)
      <3>1. ASSUME NEW i \in 1..Len(s), NEW h, GoneBefore(s, i, h)
            PROVE  GoneBefore(t, i, h)
        BY <2>3, <2>5, <3>1 DEF GoneBefore
      <3>2. ASSUME NEW i \in 1..Len(s), i # 1
            PROVE  t[i] = s[i] /\ t[i-1] = s[i-1]
        BY <2>3, <2>5, <3>2
      <3> QED
        BY <2>3, <2>4, <2>5, <2>6, <2>7, <3>1, <3>2 DEF InOrder, Destroys
    <2>9. ASSUME NEW j \in {"state", "health"}, WillAsk(s, j) PROVE WillAsk(t, j)
      BY <2>3, <2>4, <2>5, <2>6, <2>9 DEF WillAsk
    <2>10. ASSUME NEW j \in {"state", "health"}, WillRun(t, j), j # k
           PROVE  WillRun(s, j)
      BY <2>3, <2>4, <2>5, <2>6, <2>10 DEF WillRun, Destroys
    <2>11. Decided(t)
      BY <1>2, <2>9, <2>10 DEF Decided
    <2> QED
      BY <2>3, <2>7, <2>8, <2>9, <2>11 DEF t
  <1> QED
    BY <1>1, <1>2

\* A call that is over leaves the calls after it in order: destroying leaves
\* its pointer NULL, creating changes no other pointer, and setting the
\* metrics puts in force what the call says.
LEMMA NextCall ==
  ASSUME TypeOK, todo # <<>>, InOrder(todo), Decided(todo),
         todo' = Tail(todo),
         \A k \in Kinds : ptr'[k] # ptr[k] =>
           todo[1].call \in {"create", "destroy"} /\ todo[1].kind = k,
         \A k \in Kinds : Destroys(todo[1], k) => ptr'[k] = None,
         metrics' = IF todo[1].call = "set" THEN todo[1].metrics ELSE metrics
  PROVE  todo' \in Seq(Calls) /\ InOrder(todo)' /\ Decided(todo)'
  <1>1. todo \in Seq(Calls) /\ Len(todo) \in Nat \ {0}
    BY DEF TypeOK
  <1>2. /\ todo' \in Seq(Calls) /\ Len(todo') = Len(todo) - 1
        /\ \A i \in 1..Len(todo') : i+1 \in 1..Len(todo) /\ todo'[i] = todo[i+1]
    BY <1>1
  <1>3. \A i \in 1..Len(todo) : i = 1 \/ (i-1 \in 1..Len(todo') /\ i = (i-1)+1)
    BY <1>1, <1>2
  <1>4. \A i \in 1..Len(todo) : todo[i].call \in {"create", "destroy"} =>
                                  todo[i].kind \in Kinds
    <2>1. \A c \in Calls : c.call \in {"create", "destroy"} => c.kind \in Kinds
      BY DEF Calls
    <2> QED
      BY <1>1, <2>1
  <1>5. InOrder(todo)'
    <2>1. ASSUME NEW i \in 1..Len(todo'), NEW k \in Kinds,
                 GoneBefore(todo, i+1, k)
          PROVE  GoneBefore(todo, i, k)'
      <3>1. todo[1].call = "destroy"
        BY <1>1, <1>2, <2>1 DEF GoneBefore
      <3>2. \A j \in 1..(i-1) : j+1 \in 1..(i+1-1) /\ todo'[j] = todo[j+1]
        BY <1>1, <1>2
      <3>3. \A j \in 1..(i-1) : todo'[j].call = "destroy"
        BY <3>2, <2>1 DEF GoneBefore
      <3>4. CASE ptr[k] = None
        BY <3>1, <3>3, <3>4 DEF GoneBefore, Destroys
      <3>5. ASSUME NEW j \in 1..(i+1-1), Destroys(todo[j], k)
            PROVE  GoneBefore(todo, i, k)'
        <4>1. CASE j = 1
          BY <3>3, <3>5, <4>1 DEF GoneBefore
        <4>2. CASE j # 1
          <5>1. j-1 \in 1..(i-1) /\ todo'[j-1] = todo[j]
            BY <1>1, <1>2, <4>2
          <5> QED
            BY <3>3, <3>5, <5>1 DEF GoneBefore, Destroys
        <4> QED
          BY <4>1, <4>2
      <3> QED
        BY <2>1, <3>4, <3>5 DEF GoneBefore
    <2>2. ASSUME NEW i \in 1..Len(todo'), todo'[i].call = "create"
          PROVE  IF i = 1 THEN ptr'[todo'[i].kind] = None
                          ELSE Destroys(todo[i-1], todo[i].kind)'
      <3>1. i+1 \in 1..Len(todo) /\ i+1 # 1 /\ todo'[i] = todo[i+1]
        BY <1>1, <1>2
      <3>2. Destroys(todo[i], todo[i+1].kind) /\ todo[i+1].kind \in Kinds
        <4>1. i+1-1 = i
          BY <1>1, <1>2
        <4> QED
          BY <1>4, <2>2, <3>1, <4>1 DEF InOrder
      <3>3. CASE i = 1
        BY <3>1, <3>2, <3>3
      <3>4. CASE i # 1
        <4>1. i-1 \in 1..Len(todo') /\ todo'[i-1] = todo[i]
          BY <1>1, <1>2, <3>4
        <4> QED
          BY <3>1, <3>2, <3>4, <4>1 DEF Destroys
      <3> QED
        BY <3>3, <3>4
    <2>3. ASSUME NEW i \in 1..Len(todo')
          PROVE  /\ i+1 \in 1..Len(todo) /\ todo'[i] = todo[i+1]
                 /\ i+1 = Len(todo) => i = Len(todo')
      <3>1. i+1 \in 1..Len(todo) /\ todo'[i] = todo[i+1]
        BY <1>2
      <3> DEFINE n == Len(todo)
                 m == Len(todo')
      <3>2. m = n - 1 /\ n \in Nat /\ i \in Nat
        BY <1>1, <1>2
      <3> HIDE DEF n, m
      <3>3. i+1 = n => i = m
        BY <3>2
      <3> QED
        BY <3>1, <3>3 DEF n, m
    <2> QED
      BY <2>1, <2>2, <2>3 DEF InOrder, Reporters, Kinds
  <1>6. ASSUME NEW k \in {"state", "health"}, WillRun(todo, k)' PROVE WillAsk(todo, k)'
    <2>1. k \in Kinds
      BY DEF Kinds
    <2>2. WillRun(todo, k)
      <3>1. CASE \E i \in 1..Len(todo') : todo'[i].call = "create" /\ todo'[i].kind = k
        BY <1>2, <3>1 DEF WillRun
      <3>2. CASE ptr'[k] # None /\ \A i \in 1..Len(todo') : ~Destroys(todo'[i], k)
        <4>1. ASSUME NEW i \in 1..Len(todo) PROVE ~Destroys(todo[i], k)
          <5>1. CASE i = 1
            BY <2>1, <3>2, <5>1
          <5>2. CASE i # 1
            <6>1. i-1 \in 1..Len(todo') /\ todo'[i-1] = todo[i]
              BY <1>1, <1>2, <5>2
            <6> QED
              BY <3>2, <6>1
          <5> QED
            BY <5>1, <5>2
        <4> QED
          BY <1>1, <2>1, <3>2, <4>1 DEF WillRun, Destroys
      <3> QED
        BY <1>6, <3>1, <3>2 DEF WillRun
    <2>3. WillAsk(todo, k)
      BY <2>2 DEF Decided
    <2> QED
      BY <1>1, <1>2, <1>3, <2>3 DEF WillAsk
  <1> QED
    BY <1>2, <1>5, <1>6 DEF Decided

-----------------------------------------------------------------------------
(***************************************************************************)
(* The invariant.                                                          *)
(***************************************************************************)

\* The handlers, periodic_create(), periodic_destroy() and the threads keep
\* the invariant, in every interleaving.
THEOREM PollsCorrect == Spec => []PollsInv
  <1> USE DEF structVars
  <1>1. Init => PollsInv
    <2> SUFFICES ASSUME Init PROVE PollsInv
      OBVIOUS
    <2>1. TypeOK
      <3>1. Off \in Metrics
        BY DEF Off, Metrics
      <3>2. file \in Metrics \cup {None}
        BY PollsAssumption DEF Init
      <3>3. todo \in Seq(Calls)
        BY DEF Init
      <3> QED
        BY <3>1, <3>2, <3>3 DEF Init, TypeOK, Kinds
    <2>2. \A k \in Kinds : ptr[k] = None
      BY DEF Init
    <2>3. InOrder(todo) /\ Decided(todo) /\ MainAt
      BY <2>2 DEF Init, InOrder, Decided, WillRun, MainAt, Kinds
    <2>4. ThreadsAreOwned /\ PointersLive
      BY <2>2 DEF Init, ThreadsAreOwned, Running, PointersLive
    <2> QED
      BY <2>1, <2>3, <2>4 DEF PollsInv
  <1>2. PollsInv /\ [Next]_vars => PollsInv'
    <2> SUFFICES ASSUME PollsInv, [Next]_vars PROVE PollsInv'
      OBVIOUS
    <2>t. TypeOK
      BY DEF PollsInv
    <2>i. /\ ThreadsAreOwned /\ PointersLive /\ MainAt
          /\ InOrder(todo) /\ Decided(todo)
      BY DEF PollsInv
    <2>h. ASSUME todo # <<>>
          PROVE  /\ Head(todo) = todo[1] /\ todo[1] \in Calls
                 /\ todo[1].call \in {"create", "destroy"} => todo[1].kind \in Kinds
                 /\ todo[1].call = "set" => todo[1].metrics \in Metrics
      <3>1. todo[1] \in Calls /\ Head(todo) = todo[1]
        BY <2>t, <2>h DEF TypeOK
      <3>2. \A c \in Calls :
              /\ c.call \in {"create", "destroy"} => c.kind \in Kinds
              /\ c.call = "set" => c.metrics \in Metrics
        BY DEF Calls
      <3> QED
        BY <3>1, <3>2
    <2>1. CASE Handlers
      \* Every handler makes its calls in such an order, and starts the reports
      \* that its metrics ask for.
      <3>1. todo' \in Seq(Calls) /\ InOrder(todo') /\ Decided(todo')
        <4> SUFFICES ASSUME TypeOK, InOrder(todo), Decided(todo), Handlers
                     PROVE  todo' \in Seq(Calls) /\ InOrder(todo') /\ Decided(todo')
          BY <2>1, <2>t, <2>i
        <4> DEFINE Good(s) == /\ s \in Seq(Calls)
                              /\ \A i \in 1..Len(s) : s[i].call # "return"
                              /\ InOrder(s) /\ Decided(s)
        <4> USE DEF Kinds
        <4>1. ASSUME NEW m \in Configs, configure_handle(m)
              PROVE  Good(todo')
          <5> DEFINE s == periodic_destroy("state") \o periodic_destroy("health")
                            \o periodic_destroy("telemetry")
                            \o set_metrics("configure", m)
                     s1 == s \o poll_if(m.state, "state")
                     s2 == s1 \o poll_if(m.health, "health")
                     s3 == s2 \o poll_if(m.telemetry, "telemetry")
          <5>1. m \in Metrics
            BY <4>1, PollsAssumption
          <5>2. m.state \in BOOLEAN /\ m.health \in BOOLEAN /\ m.telemetry \in BOOLEAN
            BY <5>1 DEF Metrics
          <5>3. /\ s \in Seq(Calls) /\ Len(s) = 4
                /\ s[1] = [call |-> "destroy", kind |-> "state"]
                /\ s[2] = [call |-> "destroy", kind |-> "health"]
                /\ s[3] = [call |-> "destroy", kind |-> "telemetry"]
                /\ s[4] = [call |-> "set", by |-> "configure", metrics |-> m]
            BY <5>1 DEF periodic_destroy, set_metrics, Calls
          <5> HIDE DEF s
          <5>4. Good(s)
            BY <5>3 DEF InOrder, GoneBefore, Destroys, Decided, WillRun, Reporters
          <5>5. /\ m.state => WillAsk(s, "state")
                /\ m.health => WillAsk(s, "health")
            BY <5>3 DEF WillAsk
          <5>6. Good(s1) /\ (m.health => WillAsk(s1, "health"))
            BY <5>2, <5>4, <5>5, PollInOrder
          <5> HIDE DEF s1
          <5>7. Good(s2)
            BY <5>2, <5>6, PollInOrder
          <5> HIDE DEF s2
          <5>8. Good(s3)
            BY <5>2, <5>7, PollInOrder
          <5> QED
            BY <4>1, <5>8 DEF configure_handle, Command, Handle, s, s1, s2
        <4>2. ASSUME connect_send
              PROVE  todo' \in Seq(Calls) /\ InOrder(todo') /\ Decided(todo')
          <5>1. CASE Handle(<<>>)
            BY <5>1 DEF Handle, Idle, TypeOK
          <5>2. CASE /\ file # None
                     /\ LET m == Restored(file) IN
                          Handle(set_metrics("connect", m)
                                   \o periodic_destroy("state")
                                   \o periodic_destroy("health")
                                   \o poll_if(m.state, "state")
                                   \o poll_if(m.health, "health"))
            <6> DEFINE m == Restored(file)
                       s == set_metrics("connect", m) \o periodic_destroy("state")
                              \o periodic_destroy("health")
                       s1 == s \o poll_if(m.state, "state")
                       s2 == s1 \o poll_if(m.health, "health")
            <6>1. m \in Metrics
              BY <5>2, PollsAssumption DEF TypeOK, Metrics, Restored
            <6> HIDE DEF m
            <6>2. m.state \in BOOLEAN /\ m.health \in BOOLEAN
              BY <6>1 DEF Metrics
            <6>3. /\ s \in Seq(Calls) /\ Len(s) = 3
                  /\ s[1] = [call |-> "set", by |-> "connect", metrics |-> m]
                  /\ s[2] = [call |-> "destroy", kind |-> "state"]
                  /\ s[3] = [call |-> "destroy", kind |-> "health"]
              BY <6>1 DEF periodic_destroy, set_metrics, Calls
            <6> HIDE DEF s
            <6>4. Good(s)
              BY <6>3 DEF InOrder, Destroys, Decided, WillRun
            <6>5. /\ m.state => WillAsk(s, "state")
                  /\ m.health => WillAsk(s, "health")
              BY <6>3 DEF WillAsk
            <6>6. Good(s1) /\ (m.health => WillAsk(s1, "health"))
              BY <6>2, <6>4, <6>5, PollInOrder
            <6> HIDE DEF s1
            <6>7. Good(s2)
              BY <6>2, <6>6, PollInOrder
            <6> QED
              BY <5>2, <6>7 DEF Handle, m, s, s1
          <5> QED
            BY <4>2, <5>1, <5>2 DEF connect_send
        <4>3. ASSUME NEW e \in BOOLEAN, telemetry_handle(e)
              PROVE  Good(todo')
          <5> DEFINE m == [metrics EXCEPT !.telemetry = e]
                     s == periodic_destroy("telemetry") \o set_metrics("telemetry", m)
                     s1 == s \o poll_if(e, "telemetry")
          <5>1. m \in Metrics /\ m.state = metrics.state /\ m.health = metrics.health
            BY DEF TypeOK, Metrics
          <5> HIDE DEF m
          <5>2. /\ s \in Seq(Calls) /\ Len(s) = 2
                /\ s[1] = [call |-> "destroy", kind |-> "telemetry"]
                /\ s[2] = [call |-> "set", by |-> "telemetry", metrics |-> m]
            BY <5>1 DEF periodic_destroy, set_metrics, Calls
          <5> HIDE DEF s
          <5>3. /\ ptr["state"] # None => metrics.state
                /\ ptr["health"] # None => metrics.health
            BY <4>3 DEF telemetry_handle, Command, Handle, Idle, Decided, WillRun,
               WillAsk
          <5>4. Good(s)
            BY <5>1, <5>2, <5>3
               DEF InOrder, Destroys, Decided, WillRun, WillAsk
          <5>5. Good(s1)
            BY <5>4, PollInOrder
          <5> QED
            BY <4>3, <5>5 DEF telemetry_handle, Command, Handle, m, s
        <4>4. ASSUME upgrade_handle
              PROVE  Good(todo')
          <5>1. /\ Good(todo) /\ todo = <<>>
                /\ todo' = <<>> \o poll_if(TRUE, "upgrade")
            <6>1. poll("upgrade") \in Seq(Calls)
              BY DEF poll, periodic_destroy, Calls
            <6> QED
              BY <4>4, <6>1 DEF upgrade_handle, Command, Handle, Idle, TypeOK, poll_if
          <5> QED
            BY <5>1, PollInOrder
        <4>5. ASSUME proto_stop
              PROVE  todo' \in Seq(Calls) /\ InOrder(todo') /\ Decided(todo')
          <5>1. /\ todo' \in Seq(Calls) /\ Len(todo') = 5
                /\ todo'[1] = [call |-> "destroy", kind |-> "state"]
                /\ todo'[2] = [call |-> "destroy", kind |-> "health"]
                /\ todo'[3] = [call |-> "destroy", kind |-> "telemetry"]
                /\ todo'[4] = [call |-> "destroy", kind |-> "upgrade"]
                /\ todo'[5] = [call |-> "return"]
            BY <4>5 DEF proto_stop, Handle, periodic_destroy, Calls
          <5> QED
            BY <5>1 DEF InOrder, GoneBefore, Destroys, Decided, WillRun
        <4> QED
          BY <4>1, <4>2, <4>3, <4>4, <4>5 DEF Handlers
      <3> DEFINE Rest == /\ main = "run"
                         /\ UNCHANGED <<ptr, structVars, thr, metrics, main>>
                         /\ greeted' \in BOOLEAN
                         /\ file' \in Metrics \cup {None}
      <3>2. Rest
        <4>1. ASSUME NEW m \in Configs, configure_handle(m) PROVE Rest
          BY <4>1, <2>t, PollsAssumption
             DEF configure_handle, Command, Handle, Idle, TypeOK
        <4>2. CASE connect_send
          BY <4>2, <2>t DEF connect_send, Handle, Idle, TypeOK
        <4>3. ASSUME NEW e \in BOOLEAN, telemetry_handle(e) PROVE Rest
          BY <4>3, <2>t DEF telemetry_handle, Command, Handle, Idle, TypeOK
        <4>4. CASE upgrade_handle
          BY <4>4, <2>t DEF upgrade_handle, Command, Handle, Idle, TypeOK
        <4>5. CASE proto_stop
          BY <4>5, <2>t DEF proto_stop, Handle, Idle, TypeOK
        <4> QED
          BY <2>1, <4>1, <4>2, <4>3, <4>4, <4>5 DEF Handlers
      <3>3. TypeOK'
        BY <2>t, <3>1, <3>2 DEF TypeOK
      <3>4. InOrder(todo)' /\ Decided(todo)'
        BY <3>1, <3>2 DEF InOrder, GoneBefore, Decided, WillRun, WillAsk
      <3>5. ThreadsAreOwned' /\ PointersLive' /\ MainAt'
        BY <2>i, <3>2 DEF ThreadsAreOwned, Running, PointersLive, MainAt
      <3> QED
        BY <3>3, <3>4, <3>5 DEF PollsInv
    <2>2. CASE SetMetrics
      <3>1. /\ todo # <<>> /\ todo[1].call = "set" /\ metrics' = todo[1].metrics
            /\ todo' = Tail(todo) /\ main = "run"
            /\ UNCHANGED <<ptr, structVars, thr, file, greeted, main>>
        BY <2>2, <2>h DEF SetMetrics, Calling
      <3>2. todo' \in Seq(Calls) /\ InOrder(todo)' /\ Decided(todo)'
        BY <2>t, <2>i, <3>1, NextCall DEF Destroys
      <3>3. TypeOK'
        BY <2>t, <2>h, <3>1, <3>2 DEF TypeOK
      <3>4. ThreadsAreOwned' /\ PointersLive' /\ MainAt'
        BY <2>i, <3>1 DEF ThreadsAreOwned, Running, PointersLive, MainAt
      <3> QED
        BY <3>2, <3>3, <3>4 DEF PollsInv
    <2>3. CASE Create
      <3> DEFINE k == todo[1].kind
      <3>1. /\ todo # <<>> /\ todo[1].call = "create" /\ k \in Kinds
            /\ todo' = Tail(todo) /\ main = "run"
            /\ UNCHANGED <<stop, metrics, file, greeted, main>>
        BY <2>3, <2>h DEF Create, Calling
      <3>2. ptr[k] = None
        <4>1. 1 \in 1..Len(todo)
          BY <2>t, <3>1 DEF TypeOK
        <4> QED
          BY <2>i, <3>1, <4>1 DEF InOrder
      <3>3. CASE UNCHANGED <<heap, kind, thr, ptr>>
        <4>1. todo' \in Seq(Calls) /\ InOrder(todo)' /\ Decided(todo)'
          BY <2>t, <2>i, <3>1, <3>3, NextCall DEF Destroys
        <4>2. TypeOK'
          BY <2>t, <3>1, <3>3, <4>1 DEF TypeOK
        <4>3. ThreadsAreOwned' /\ PointersLive' /\ MainAt'
          BY <2>i, <3>1, <3>3 DEF ThreadsAreOwned, Running, PointersLive, MainAt
        <4> QED
          BY <4>1, <4>2, <4>3 DEF PollsInv
      <3>4. ASSUME NEW o \in Objs, heap[o] = "unused",
                   heap' = [heap EXCEPT ![o] = "live"],
                   kind' = [kind EXCEPT ![o] = k],
                   thr' = [thr EXCEPT ![o] = "check"],
                   ptr' = [ptr EXCEPT ![k] = o]
            PROVE  PollsInv'
        <4> HIDE DEF k
        <4>1. \A h \in Kinds : ptr'[h] = IF h = k THEN o ELSE ptr[h]
          BY <2>t, <3>1, <3>4 DEF TypeOK
        <4>2. todo' \in Seq(Calls) /\ InOrder(todo)' /\ Decided(todo)'
          BY <2>t, <2>i, <3>1, <4>1, NextCall DEF Destroys, k
        <4>3. TypeOK'
          BY <2>t, <3>1, <3>4, <4>2 DEF TypeOK
        <4>4. \A p \in Objs : /\ heap'[p] = IF p = o THEN "live" ELSE heap[p]
                              /\ kind'[p] = IF p = o THEN k ELSE kind[p]
                              /\ kind[p] \in Kinds
                              /\ p # o => thr'[p] = thr[p]
          BY <2>t, <3>4 DEF TypeOK
        <4>5. None \notin Objs
          BY PollsAssumption
        <4>6. ThreadsAreOwned'
          BY <2>i, <3>1, <3>2, <4>1, <4>4, <4>5 DEF ThreadsAreOwned, Running
        <4>7. PointersLive'
          <5>1. \A h \in Kinds : ptr[h] # None => ptr[h] \in Objs \ {o}
            BY <2>t, <2>i, <3>4 DEF TypeOK, PointersLive
          <5> QED
            BY <2>i, <3>1, <3>4, <4>1, <4>4, <5>1 DEF PointersLive
        <4>8. MainAt'
          BY <3>1 DEF MainAt
        <4> QED
          BY <4>2, <4>3, <4>6, <4>7, <4>8 DEF PollsInv
      <3> QED
        BY <2>3, <2>h, <3>1, <3>3, <3>4 DEF Create
    <2>4. CASE DestroyNull
      <3>1. /\ todo # <<>> /\ todo[1].call = "destroy" /\ ptr[todo[1].kind] = None
            /\ todo' = Tail(todo) /\ main = "run"
            /\ UNCHANGED <<ptr, structVars, thr, metrics, file, greeted, main>>
        BY <2>4, <2>h DEF DestroyNull, Calling
      <3>2. todo' \in Seq(Calls) /\ InOrder(todo)' /\ Decided(todo)'
        BY <2>t, <2>i, <3>1, NextCall DEF Destroys
      <3>3. TypeOK'
        BY <2>t, <3>1, <3>2 DEF TypeOK
      <3>4. ThreadsAreOwned' /\ PointersLive' /\ MainAt'
        BY <2>i, <3>1 DEF ThreadsAreOwned, Running, PointersLive, MainAt
      <3> QED
        BY <3>2, <3>3, <3>4 DEF PollsInv
    <2>5. CASE DestroySetStop
      <3>1. /\ todo # <<>> /\ todo[1].call = "destroy" /\ ptr[todo[1].kind] # None
            /\ stop' = [stop EXCEPT ![ptr[todo[1].kind]] = TRUE]
            /\ main' = "broadcast"
            /\ UNCHANGED <<ptr, heap, kind, thr, metrics, file, greeted, todo>>
        BY <2>5, <2>h DEF DestroySetStop, Calling
      <3>2. TypeOK'
        BY <2>t, <3>1 DEF TypeOK
      <3>3. InOrder(todo)' /\ Decided(todo)'
        BY <2>i, <3>1 DEF InOrder, GoneBefore, Decided, WillRun, WillAsk
      <3>4. ThreadsAreOwned' /\ PointersLive' /\ MainAt'
        BY <2>i, <3>1 DEF ThreadsAreOwned, Running, PointersLive, MainAt
      <3> QED
        BY <3>2, <3>3, <3>4 DEF PollsInv
    <2>6. CASE DestroyBroadcast
      <3>1. /\ main = "broadcast" /\ main' = "join"
            /\ thr' = [o \in Objs |->
                         IF o = ptr[Head(todo).kind] /\ thr[o] = "sleep"
                         THEN "check" ELSE thr[o]]
            /\ UNCHANGED <<ptr, structVars, metrics, file, greeted, todo>>
        BY <2>6 DEF DestroyBroadcast
      <3>2. TypeOK'
        BY <2>t, <3>1 DEF TypeOK
      <3>3. InOrder(todo)' /\ Decided(todo)'
        BY <2>i, <3>1 DEF InOrder, GoneBefore, Decided, WillRun, WillAsk
      <3>4. \A o \in Objs : Running(o)' => Running(o)
        BY <3>1 DEF Running
      <3>5. ThreadsAreOwned' /\ PointersLive' /\ MainAt'
        BY <2>i, <3>1, <3>4 DEF ThreadsAreOwned, PointersLive, MainAt
      <3> QED
        BY <3>2, <3>3, <3>5 DEF PollsInv
    <2>7. CASE DestroyJoin
      <3> DEFINE k == todo[1].kind
                 o == ptr[todo[1].kind]
      <3>1. /\ todo # <<>> /\ todo[1].call = "destroy" /\ o # None
        BY <2>7, <2>i DEF DestroyJoin, MainAt
      <3>2. /\ k \in Kinds /\ o \in Objs
        BY <2>t, <2>h, <3>1 DEF TypeOK
      <3>3. /\ thr[o] = "exited" /\ heap' = [heap EXCEPT ![o] = "freed"]
            /\ ptr' = [ptr EXCEPT ![k] = None]
            /\ todo' = Tail(todo) /\ main' = "run"
            /\ UNCHANGED <<kind, stop, thr, metrics, file, greeted>>
        BY <2>7, <2>h, <3>1 DEF DestroyJoin
      <3>4. o = ptr[k]
        OBVIOUS
      <3> HIDE DEF k, o
      <3>5. \A h \in Kinds : ptr'[h] = IF h = k THEN None ELSE ptr[h]
        BY <2>t, <3>2, <3>3 DEF TypeOK
      <3>6. todo' \in Seq(Calls) /\ InOrder(todo)' /\ Decided(todo)'
        BY <2>t, <2>i, <3>1, <3>3, <3>5, NextCall DEF Destroys, k
      <3>7. TypeOK'
        BY <2>t, <3>2, <3>3, <3>6 DEF TypeOK
      <3>8. \A p \in Objs : /\ heap'[p] = IF p = o THEN "freed" ELSE heap[p]
                            /\ kind[p] \in Kinds
        BY <2>t, <3>3 DEF TypeOK
      <3>9. ThreadsAreOwned'
        BY <2>i, <3>3, <3>4, <3>5, <3>8 DEF ThreadsAreOwned, Running
      <3>10. PointersLive'
        <4>1. \A h \in Kinds : ptr[h] # None => ptr[h] \in Objs
          BY <2>t DEF TypeOK
        <4>2. kind[o] = k
          BY <2>i, <3>1, <3>2, <3>4 DEF PointersLive
        <4> QED
          BY <2>i, <3>3, <3>4, <3>5, <3>8, <4>1, <4>2 DEF PointersLive
      <3>11. MainAt'
        BY <3>3 DEF MainAt
      <3> QED
        BY <3>6, <3>7, <3>9, <3>10, <3>11 DEF PollsInv
    <2>8. CASE StopReturns
      <3>1. /\ todo # <<>> /\ todo[1].call = "return"
            /\ todo' = Tail(todo) /\ main' = "stopped"
            /\ UNCHANGED <<ptr, structVars, thr, metrics, file, greeted>>
        BY <2>8, <2>h DEF StopReturns, Calling
      <3>2. todo' \in Seq(Calls) /\ InOrder(todo)' /\ Decided(todo)'
        BY <2>t, <2>i, <3>1, NextCall DEF Destroys
      <3>3. TypeOK'
        BY <2>t, <3>1, <3>2 DEF TypeOK
      <3>4. Len(todo) = 1 /\ \A k \in Kinds : ptr[k] = None
        <4>1. 1 \in 1..Len(todo)
          BY <2>t, <3>1 DEF TypeOK
        <4>2. 1 = Len(todo) /\ \A k \in Kinds : GoneBefore(todo, 1, k)
          BY <2>i, <3>1, <4>1 DEF InOrder
        <4> QED
          BY <4>2 DEF GoneBefore
      <3>5. todo' = <<>>
        BY <2>t, <3>1, <3>4 DEF TypeOK
      <3>6. ThreadsAreOwned' /\ PointersLive' /\ MainAt'
        BY <2>i, <3>1, <3>4, <3>5 DEF ThreadsAreOwned, Running, PointersLive, MainAt
      <3> QED
        BY <3>2, <3>3, <3>6 DEF PollsInv
    <2>9. ASSUME NEW o \in Objs, ThreadStep(o) PROVE PollsInv'
      <3>1. /\ UNCHANGED <<ptr, structVars, metrics, file, greeted, todo, main>>
            /\ thr[o] \in {"check", "sleep", "cb"}
            /\ \E s \in {"check", "sleep", "cb", "exited"} :
                 thr' = [thr EXCEPT ![o] = s]
        BY <2>9 DEF ThreadStep, ThreadRuns, ThreadCheck, ThreadTimeout,
           ThreadError, CallbackReturn
      <3>2. TypeOK'
        BY <2>t, <3>1 DEF TypeOK
      <3>3. InOrder(todo)' /\ Decided(todo)'
        BY <2>i, <3>1 DEF InOrder, GoneBefore, Decided, WillRun, WillAsk
      <3>4. \A p \in Objs : Running(p)' => Running(p)
        BY <2>t, <3>1 DEF TypeOK, Running
      <3>5. ThreadsAreOwned' /\ PointersLive' /\ MainAt'
        BY <2>i, <3>1, <3>4 DEF ThreadsAreOwned, PointersLive, MainAt
      <3> QED
        BY <3>2, <3>3, <3>5 DEF PollsInv
    <2>10. CASE UNCHANGED vars
      <3>1. TypeOK'
        BY <2>t, <2>10 DEF vars, TypeOK
      <3>2. InOrder(todo)' /\ Decided(todo)'
        BY <2>i, <2>10 DEF vars, InOrder, GoneBefore, Decided, WillRun, WillAsk
      <3>3. ThreadsAreOwned' /\ PointersLive' /\ MainAt'
        BY <2>i, <2>10 DEF vars, ThreadsAreOwned, Running, PointersLive, MainAt
      <3> QED
        BY <3>1, <3>2, <3>3 DEF PollsInv
    <2> QED
      BY <2>1, <2>2, <2>3, <2>4, <2>5, <2>6, <2>7, <2>8, <2>9, <2>10
         DEF Next, MainStep, Stopped
  <1> QED
    BY <1>1, <1>2, PTL DEF Spec

-----------------------------------------------------------------------------
(***************************************************************************)
(* The properties.                                                         *)
(***************************************************************************)

\* ThreadsAreOwned for any number of structs: no thread runs on freed memory
\* and every struct in use can be reached to be stopped.
THEOREM ThreadsOwned == Spec => []ThreadsAreOwned
  <1>1. PollsInv => ThreadsAreOwned
    BY DEF PollsInv
  <1> QED
    BY <1>1, PollsCorrect, PTL

\* QuietWhenStopped: after proto_stop() every pointer is NULL, so no struct
\* is in use and no thread runs.
THEOREM QuietAfterStop == Spec => []QuietWhenStopped
  <1>1. PollsInv => QuietWhenStopped
    <2> SUFFICES ASSUME PollsInv, main = "stopped", NEW o \in Objs
                 PROVE  ~Running(o)
      BY DEF QuietWhenStopped
    <2>1. kind[o] \in Kinds
      BY DEF PollsInv, TypeOK
    <2>2. ptr[kind[o]] = None /\ o # None
      BY <2>1, PollsAssumption DEF PollsInv, MainAt
    <2> QED
      BY <2>2 DEF PollsInv, ThreadsAreOwned
  <1> QED
    BY <1>1, PollsCorrect, PTL

\* ReportsFollowMetrics: when a handler is over, a state or health report
\* runs only if the metrics that it left in force ask for it, whichever
\* handlers came before.
THEOREM ReportsFollow == Spec => []ReportsFollowMetrics
  <1>1. PollsInv => ReportsFollowMetrics
    BY DEF PollsInv, Decided, WillRun, WillAsk, ReportsFollowMetrics, Idle
  <1> QED
    BY <1>1, PollsCorrect, PTL

\* ConfigureWhenQuiet: configure_handle() overwrites ucentral_metrics only
\* after the reports that read them are gone.
THEOREM ConfigureQuiet == Spec => ConfigureWhenQuiet
  <1>1. ASSUME PollsInv, [Next]_vars, metrics' # metrics,
               Head(todo).by = "configure",
               NEW o \in Objs, kind[o] \in Reporters
        PROVE  ~Running(o)
    <2>1. SetMetrics
      BY <1>1 DEF Next, vars, Stopped, MainStep, Create, DestroyNull,
         DestroySetStop, DestroyBroadcast, DestroyJoin, StopReturns, Handlers,
         configure_handle, connect_send, telemetry_handle, upgrade_handle,
         proto_stop, Command, Handle, ThreadStep, ThreadRuns, ThreadCheck,
         ThreadTimeout, ThreadError, CallbackReturn
    <2>2. /\ 1 \in 1..Len(todo) /\ todo[1].call = "set"
          /\ todo[1].by = "configure"
      BY <1>1, <2>1 DEF SetMetrics, Calling, PollsInv, TypeOK
    <2>3. GoneBefore(todo, 1, kind[o])
      BY <1>1, <2>2 DEF PollsInv, InOrder
    <2>4. ptr[kind[o]] = None /\ o # None
      BY <2>3, PollsAssumption DEF GoneBefore
    <2> QED
      BY <1>1, <2>4 DEF PollsInv, ThreadsAreOwned
  <1>2. PollsInv /\ [Next]_vars =>
          [metrics' # metrics /\ Head(todo).by = "configure" =>
             \A o \in Objs : kind[o] \in Reporters => ~Running(o)]_vars
    BY <1>1
  <1> QED
    BY <1>2, PollsCorrect, PTL DEF Spec, ConfigureWhenQuiet
=============================================================================
