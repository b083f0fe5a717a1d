---------------------------- MODULE StreamProofs ----------------------------
(***************************************************************************)
(* Proofs about Stream, for any finite set of alarms, any number of calls  *)
(* that break and of changes of the channel.                               *)
(***************************************************************************)
EXTENDS Stream, FiniteSetTheorems, TLAPS

Updates == [alarm : Alarms \cup {NoAlarm}, acknowledged : BOOLEAN]

Tags == StreamTags \cup {"STATE_CHANGE", "CTL_SHUTDOWN"}

Events == [tag : Tags, ok : BOOLEAN, update : Updates]

Readers == [pc : {"call", "next", "acknowledge", "drain", "ended"},
            stop : BOOLEAN, alarm : Alarms \cup {NoAlarm}]

StreamTypeOK ==
  /\ reader \in Readers
  /\ op \in (Tags \ {"CTL_SHUTDOWN"}) \cup {"none"}
  /\ cq \in Seq(Events)
  /\ wire \in Seq(Updates)
  /\ alarm \in [Alarms -> {"none", "raised", "acknowledged"}]

\* The queue holds no completion of an operation, or not two.
OnlyControl == \A i \in 1 .. Len(cq) : cq[i].tag = "CTL_SHUTDOWN"

OneCompletion ==
  \A i, j \in 1 .. Len(cq) :
    cq[i].tag # "CTL_SHUTDOWN" /\ cq[j].tag # "CTL_SHUTDOWN" => i = j

\* One operation at a time: it is under way, or its completion is in the
\* queue, or the thread is working on it.
OneOperation ==
  /\ OneCompletion
  /\ op # "none" => OnlyControl
  /\ reader.pc # "next" /\ ~reader.stop => op = "none" /\ OnlyControl

\* The update about an alarm that was raised is on its way, or in the queue.
Coming(a) ==
  \/ \E i \in 1 .. Len(wire) : wire[i] = Update(a, FALSE)
  \/ \E i \in 1 .. Len(cq) : cq[i] = Event("READ", TRUE, a, FALSE)

\* Between the end of a call and the next one the queue can be drained,
\* because nothing is coming: there is no call.
NoCall ==
  /\ reader.pc \in {"call", "drain"} /\ ~reader.stop => call = "none"
  /\ reader.pc = "ended" => reader.stop
  /\ reader.stop => reader.pc \in {"drain", "ended"}

AlarmInv ==
  /\ reader.pc = "acknowledge" => reader.alarm \in reported
  /\ \A a \in Alarms :
       /\ alarm[a] = "acknowledged" => a \in reported
       /\ alarm[a] = "raised" /\ a \notin reported /\ call = "open"
            /\ ~reader.stop => Coming(a)

StreamInv == StreamTypeOK /\ OneOperation /\ NoCall /\ AlarmInv

-----------------------------------------------------------------------------
\* What the code does with sequences.
LEMMA SequenceFacts ==
  ASSUME NEW S, NEW s \in Seq(S), NEW e \in S
  PROVE  /\ Append(s, e) \in Seq(S)
         /\ Len(Append(s, e)) = Len(s) + 1
         /\ \A i \in 1 .. Len(s) : Append(s, e)[i] = s[i]
         /\ Append(s, e)[Len(s) + 1] = e
         /\ s # <<>> => /\ Len(s) \in Nat \ {0}
                        /\ Head(s) = s[1] /\ Head(s) \in S
                        /\ Tail(s) \in Seq(S)
                        /\ Len(Tail(s)) = Len(s) - 1
                        /\ \A i \in 1 .. Len(s) - 1 : Tail(s)[i] = s[i + 1]
  OBVIOUS

\* The records that the thread and gRPC make.
LEMMA StreamRecords ==
  /\ \A a \in Alarms \cup {NoAlarm}, b \in BOOLEAN : Update(a, b) \in Updates
  /\ \A t \in Tags, b \in BOOLEAN :
       Completed(t, b) \in Events /\ Completed(t, b).tag = t
  /\ \A t \in Tags, u \in Updates :
       /\ Event(t, TRUE, u.alarm, u.acknowledged) \in Events
       /\ Event(t, TRUE, u.alarm, u.acknowledged).tag = t
  /\ CTL_SHUTDOWN \in Events /\ CTL_SHUTDOWN.tag = "CTL_SHUTDOWN"
  BY DEF Update, Updates, Completed, Event, Events, CTL_SHUTDOWN, Tags,
     StreamTags

\* What a new subscription brings is a sequence of updates that has every
\* alarm that is raised.
LEMMA CurrentAlarms ==
  ASSUME IsFiniteSet(Alarms), NEW w \in gnmi_subscribe_create
  PROVE  /\ w \in Seq(Updates)
         /\ \A a \in Alarms : alarm[a] = "raised" =>
              \E i \in 1 .. Len(w) : w[i] = Update(a, FALSE)
  <1> DEFINE raised == {b \in Alarms : alarm[b] = "raised"}
             now == {Update(a, FALSE) : a \in raised}
             n == Cardinality(now)
  <1>1. IsFiniteSet(now)
    <2>1. IsFiniteSet(raised)
      BY FS_Subset
    <2>2. ASSUME NEW R, IsFiniteSet(R)
          PROVE  IsFiniteSet({Update(a, FALSE) : a \in R})
      <3> DEFINE f == [a \in R |-> Update(a, FALSE)]
                 I == {Update(a, FALSE) : a \in R}
      <3>1. f \in Surjection(R, I)
        BY DEF Surjection
      <3> HIDE DEF f, I
      <3>2. IsFiniteSet(I)
        BY <2>2, <3>1, FS_Surjection
      <3> QED
        BY <3>2 DEF I
    <2> QED
      BY <2>1, <2>2
  <1>2. n \in Nat
    BY <1>1, FS_CardinalityType
  <1>3. w \in [1 .. n -> now] /\ now = {w[i] : i \in 1 .. n}
    BY Zenon DEF gnmi_subscribe_create, Current
  <1>4. \A u \in now : u \in Updates
    BY StreamRecords
  <1>5. \A a \in Alarms : alarm[a] = "raised" => Update(a, FALSE) \in now
    OBVIOUS
  <1> HIDE DEF now, n
  <1>6. w \in Seq(Updates) /\ Len(w) = n
    BY <1>2, <1>3, <1>4
  <1> QED
    BY <1>3, <1>5, <1>6

\* No alarm gets lost (AlarmsNotLost): what the switch has acknowledged was
\* queued for the gateway, and what was not is still coming.
THEOREM NoAlarmLost ==
  ASSUME IsFiniteSet(Alarms)
  PROVE  StreamSpec => []AlarmsNotLost
  <1>1. StreamInit => StreamInv
    BY DEF StreamInit, StreamInv, StreamTypeOK, Readers, OneOperation,
       OnlyControl,
           OneCompletion, NoCall, AlarmInv
  \* Each step of the thread, of gRPC and the switch, and of stop() keeps
  \* StreamInv.
  <1>2. StreamInv /\ [StreamNext]_streamVars => StreamInv'
    <2> SUFFICES ASSUME StreamInv, [StreamNext]_streamVars PROVE StreamInv'
      OBVIOUS
    <2> USE DEF StreamInv
    <2>1. ASSUME NEW tag, Next1(tag)
          PROVE  /\ cq' \in Seq(Events)
                 /\ cq # <<>> /\ Head(cq) \in Events /\ Head(cq).tag = tag
                 /\ reader.pc = "next"
                 /\ OneCompletion'
                 /\ op # "none" => OnlyControl'
                 /\ tag # "CTL_SHUTDOWN" => op = "none" /\ OnlyControl'
      <3>1. cq \in Seq(Events) /\ cq # <<>>
        BY <2>1 DEF Next1, StreamTypeOK
      <3>2. /\ Len(cq) \in Nat \ {0} /\ Head(cq) = cq[1] /\ Head(cq) \in Events
            /\ cq' \in Seq(Events) /\ Len(cq') = Len(cq) - 1
            /\ \A i \in 1 .. Len(cq) - 1 : cq'[i] = cq[i + 1]
        BY <2>1, <3>1, SequenceFacts DEF Next1
      <3>3. OneCompletion'
        <4> SUFFICES ASSUME NEW i \in 1 .. Len(cq'), NEW j \in 1 .. Len(cq'),
                            cq'[i].tag # "CTL_SHUTDOWN", cq'[j].tag # "CTL_SHUTDOWN"
                     PROVE  i = j
          BY DEF OneCompletion
        <4>1. /\ i + 1 \in 1 .. Len(cq) /\ cq[i + 1].tag # "CTL_SHUTDOWN"
              /\ j + 1 \in 1 .. Len(cq) /\ cq[j + 1].tag # "CTL_SHUTDOWN"
          BY <3>2
        <4>2. i + 1 = j + 1
          BY <4>1 DEF OneOperation, OneCompletion
        <4> QED
          BY <4>2
      <3>4. op # "none" => OnlyControl'
        BY <3>2 DEF OneOperation, OnlyControl
      <3>5. tag # "CTL_SHUTDOWN" => op = "none" /\ OnlyControl'
        BY <2>1, <3>2 DEF Next1, OneOperation, OneCompletion, OnlyControl
      <3> QED
        BY <2>1, <3>1, <3>2, <3>3, <3>4, <3>5 DEF Next1
    <2>2. ASSUME NEW tag, Next1(tag), wire' = wire, NEW a, Coming(a),
                 Head(cq) # Event("READ", TRUE, a, FALSE)
          PROVE  Coming(a)'
      <3>1. cq \in Seq(Events) /\ cq # <<>>
        BY <2>2 DEF Next1, StreamTypeOK
      <3>2. /\ Len(cq) \in Nat \ {0} /\ Head(cq) = cq[1]
            /\ cq' \in Seq(Events) /\ Len(cq') = Len(cq) - 1
            /\ \A i \in 1 .. Len(cq) - 1 : cq'[i] = cq[i + 1]
        BY <2>2, <3>1, SequenceFacts DEF Next1
      <3>3. CASE \E i \in 1 .. Len(wire) : wire[i] = Update(a, FALSE)
        BY <2>2, <3>3 DEF Coming, Update
      <3>4. CASE \E i \in 1 .. Len(cq) : cq[i] = Event("READ", TRUE, a, FALSE)
        <4>1. PICK i \in 1 .. Len(cq) : cq[i] = Event("READ", TRUE, a, FALSE)
          BY <3>4
        <4>2. i # 1
          BY <2>2, <3>2, <4>1
        <4>3. i - 1 \in 1 .. Len(cq') /\ cq'[i - 1] = Event("READ", TRUE, a, FALSE)
          <5>1. i - 1 \in 1 .. Len(cq) - 1 /\ (i - 1) + 1 = i
            BY <3>2, <4>1, <4>2
          <5> QED
            BY <3>2, <4>1, <5>1
        <4> QED
          BY <4>3 DEF Coming, Event, Update
      <3> QED
        BY <2>2, <3>3, <3>4 DEF Coming
    <2>3. ASSUME NEW e \in Events, cq' = Append(cq, e)
          PROVE  /\ cq' \in Seq(Events)
                 /\ OnlyControl => OneCompletion'
                 /\ e.tag = "CTL_SHUTDOWN" /\ OnlyControl => OnlyControl'
                 /\ e.tag = "CTL_SHUTDOWN" => OneCompletion'
                 /\ wire' = wire => \A a : Coming(a) => Coming(a)'
                 /\ \A a : e = Event("READ", TRUE, a, FALSE) => Coming(a)'
      <3>1. /\ cq' \in Seq(Events) /\ Len(cq) \in Nat /\ Len(cq') = Len(cq) + 1
            /\ \A i \in 1 .. Len(cq) : cq'[i] = cq[i]
            /\ cq'[Len(cq) + 1] = e
        BY <2>3, SequenceFacts DEF StreamTypeOK
      <3>2. OnlyControl => OneCompletion'
        BY <3>1 DEF OnlyControl, OneCompletion
      <3>3. e.tag = "CTL_SHUTDOWN" /\ OnlyControl => OnlyControl'
        BY <3>1 DEF OnlyControl
      <3>4. e.tag = "CTL_SHUTDOWN" => OneCompletion'
        BY <3>1 DEF OneOperation, OneCompletion
      <3>5. wire' = wire => \A a : Coming(a) => Coming(a)'
        <4> SUFFICES ASSUME wire' = wire, NEW a, Coming(a) PROVE Coming(a)'
          OBVIOUS
        <4>1. CASE \E i \in 1 .. Len(wire) : wire[i] = Update(a, FALSE)
          BY <4>1 DEF Coming, Update
        <4>2. CASE \E i \in 1 .. Len(cq) : cq[i] = Event("READ", TRUE, a, FALSE)
          <5>1. PICK i \in 1 .. Len(cq) : cq[i] = Event("READ", TRUE, a, FALSE)
            BY <4>2
          <5>2. i \in 1 .. Len(cq')
            BY <3>1
          <5>3. cq'[i] = Event("READ", TRUE, a, FALSE)
            BY <3>1, <5>1
          <5> QED
            BY <5>2, <5>3 DEF Coming, Event, Update
        <4> QED
          BY <4>1, <4>2 DEF Coming
      <3>6. \A a : e = Event("READ", TRUE, a, FALSE) => Coming(a)'
        BY <3>1 DEF Coming, Event, Update
      <3> QED
        BY <3>1, <3>2, <3>3, <3>4, <3>5, <3>6
    <2>4. ASSUME NEW u \in Updates, wire' = Append(wire, u), cq' = cq
          PROVE  /\ wire' \in Seq(Updates)
                 /\ \A a : Coming(a) => Coming(a)'
                 /\ \A a : u = Update(a, FALSE) => Coming(a)'
      <3>1. /\ wire' \in Seq(Updates) /\ Len(wire) \in Nat
            /\ Len(wire') = Len(wire) + 1
            /\ \A i \in 1 .. Len(wire) : wire'[i] = wire[i]
            /\ wire'[Len(wire) + 1] = u
        BY <2>4, SequenceFacts DEF StreamTypeOK
      <3>2. ASSUME NEW a, Coming(a) PROVE Coming(a)'
        <4>1. CASE \E i \in 1 .. Len(cq) : cq[i] = Event("READ", TRUE, a, FALSE)
          BY <2>4, <4>1 DEF Coming, Event, Update
        <4>2. CASE \E i \in 1 .. Len(wire) : wire[i] = Update(a, FALSE)
          <5>1. PICK i \in 1 .. Len(wire) : wire[i] = Update(a, FALSE)
            BY <4>2
          <5>2. i \in 1 .. Len(wire')
            BY <3>1
          <5>3. wire'[i] = Update(a, FALSE)
            BY <3>1, <5>1
          <5> QED
            BY <5>2, <5>3 DEF Coming, Event, Update
        <4> QED
          BY <3>2, <4>1, <4>2 DEF Coming
      <3>3. \A a : u = Update(a, FALSE) => Coming(a)'
        BY <3>1 DEF Coming, Event, Update
      <3> QED
        BY <3>1, <3>2, <3>3
    <2>5. CASE prepare_call
      <3>2. StreamTypeOK'
        BY <2>5
           DEF prepare_call, switchVars, StreamTypeOK, Readers, Tags, StreamTags
      <3>3. OneOperation'
        BY <2>5
           DEF prepare_call, switchVars, StreamTypeOK, Readers, OneOperation,
             NoCall, OneCompletion, OnlyControl
      <3>4. NoCall'
        BY <2>5
           DEF prepare_call, switchVars, StreamTypeOK, Readers, NoCall,
             StreamTags
      <3>5. AlarmInv'
        BY <2>5
           DEF prepare_call, switchVars, StreamTypeOK, Readers, AlarmInv,
             NoCall, Coming, Event, Update
      <3> QED
        BY <3>2, <3>3, <3>4, <3>5
    <2>6. CASE on_shutdown
      <3>1. \A t : Next1(t) =>
              /\ cq' \in Seq(Events)
              /\ Head(cq) \in Events /\ Head(cq).tag = t
              /\ reader.pc = "next"
              /\ OneCompletion'
              /\ op # "none" => OnlyControl'
              /\ t # "CTL_SHUTDOWN" => op = "none" /\ OnlyControl'
        BY <2>1
      <3>2. StreamTypeOK'
        BY <2>6, <3>1
           DEF on_shutdown, switchVars, StreamTypeOK, Readers, Tags, StreamTags
      <3>3. OneOperation'
        BY <2>6, <3>1
           DEF on_shutdown, switchVars, StreamTypeOK, Readers, OneOperation,
             StreamTags
      <3>4. NoCall'
        BY <2>6, <3>1
           DEF on_shutdown, switchVars, StreamTypeOK, Readers, NoCall, StreamTags
      <3>5. AlarmInv'
        BY <2>6, <3>1, <2>2
           DEF on_shutdown, switchVars, StreamTypeOK, Readers, AlarmInv, NoCall,
             Event, Update, StreamTags
      <3> QED
        BY <3>2, <3>3, <3>4, <3>5
    <2>7. CASE on_not_ok
      <3>1. \A t : Next1(t) =>
              /\ cq' \in Seq(Events)
              /\ Head(cq) \in Events /\ Head(cq).tag = t
              /\ reader.pc = "next"
              /\ OneCompletion'
              /\ op # "none" => OnlyControl'
              /\ t # "CTL_SHUTDOWN" => op = "none" /\ OnlyControl'
        BY <2>1
      <3>2. StreamTypeOK'
        BY <2>7, <3>1
           DEF on_not_ok, switchVars, StreamTypeOK, Readers, Tags, StreamTags
      <3>3. OneOperation'
        BY <2>7, <3>1
           DEF on_not_ok, switchVars, StreamTypeOK, Readers, OneOperation,
             StreamTags
      <3>4. NoCall'
        BY <2>7, <3>1
           DEF on_not_ok, switchVars, StreamTypeOK, Readers, NoCall, StreamTags
      <3>5. AlarmInv'
        <4>1. PICK tag : Next1(tag)
          BY <2>7 DEF on_not_ok
        <4>2. ASSUME NEW a \in Alarms, Coming(a), a \notin reported'
              PROVE  Coming(a)'
          <5>1. Head(cq) # Event("READ", TRUE, a, FALSE)
            BY <2>7, <3>1, <4>2 DEF on_not_ok, Event, Update, StreamTags
          <5>2. wire' = wire
            BY <2>7 DEF on_not_ok, switchVars
          <5> QED
            BY <2>2, <4>1, <4>2, <5>1, <5>2
        <4> QED
          BY <2>7, <3>1, <4>2
             DEF on_not_ok, switchVars, StreamTypeOK, Readers, AlarmInv
      <3> QED
        BY <3>2, <3>3, <3>4, <3>5
    <2>8. CASE on_finish
      <3>1. \A t : Next1(t) =>
              /\ cq' \in Seq(Events)
              /\ Head(cq) \in Events /\ Head(cq).tag = t
              /\ reader.pc = "next"
              /\ OneCompletion'
              /\ op # "none" => OnlyControl'
              /\ t # "CTL_SHUTDOWN" => op = "none" /\ OnlyControl'
        BY <2>1
      <3>2. StreamTypeOK'
        BY <2>8, <3>1
           DEF on_finish, switchVars, StreamTypeOK, Readers, Tags, StreamTags
      <3>3. OneOperation'
        BY <2>8, <3>1
           DEF on_finish, switchVars, StreamTypeOK, Readers, OneOperation,
             StreamTags
      <3>4. NoCall'
        BY <2>8, <3>1
           DEF on_finish, switchVars, StreamTypeOK, Readers, NoCall, StreamTags
      <3>5. AlarmInv'
        BY <2>8, <3>1, <2>2
           DEF on_finish, switchVars, StreamTypeOK, Readers, AlarmInv, NoCall,
             Event, Update, StreamTags
      <3> QED
        BY <3>2, <3>3, <3>4, <3>5
    <2>9. CASE on_state_change
      <3>1. \A t : Next1(t) =>
              /\ cq' \in Seq(Events)
              /\ Head(cq) \in Events /\ Head(cq).tag = t
              /\ reader.pc = "next"
              /\ OneCompletion'
              /\ op # "none" => OnlyControl'
              /\ t # "CTL_SHUTDOWN" => op = "none" /\ OnlyControl'
        BY <2>1
      <3>2. StreamTypeOK'
        BY <2>9, <3>1
           DEF on_state_change, switchVars, StreamTypeOK, Readers, Tags,
             StreamTags
      <3>3. OneOperation'
        BY <2>9, <3>1
           DEF on_state_change, switchVars, StreamTypeOK, Readers, OneOperation,
             StreamTags
      <3>4. NoCall'
        BY <2>9, <3>1
           DEF on_state_change, switchVars, StreamTypeOK, Readers, NoCall,
             StreamTags
      <3>5. AlarmInv'
        <4>1. PICK tag : Next1(tag)
          BY <2>9 DEF on_state_change
        <4>2. ASSUME NEW a \in Alarms, Coming(a), a \notin reported'
              PROVE  Coming(a)'
          <5>1. Head(cq) # Event("READ", TRUE, a, FALSE)
            BY <2>9, <3>1, <4>2 DEF on_state_change, Event, Update, StreamTags
          <5>2. wire' = wire
            BY <2>9 DEF on_state_change, switchVars
          <5> QED
            BY <2>2, <4>1, <4>2, <5>1, <5>2
        <4> QED
          BY <2>9, <3>1, <4>2
             DEF on_state_change, switchVars, StreamTypeOK, Readers, AlarmInv
      <3> QED
        BY <3>2, <3>3, <3>4, <3>5
    <2>10. CASE on_progress
      <3>1. \A t : Next1(t) =>
              /\ cq' \in Seq(Events)
              /\ Head(cq) \in Events /\ Head(cq).tag = t
              /\ reader.pc = "next"
              /\ OneCompletion'
              /\ op # "none" => OnlyControl'
              /\ t # "CTL_SHUTDOWN" => op = "none" /\ OnlyControl'
        BY <2>1
      <3>2. StreamTypeOK'
        BY <2>10, <3>1
           DEF on_progress, switchVars, StreamTypeOK, Readers, Tags, StreamTags
      <3>3. OneOperation'
        BY <2>10, <3>1
           DEF on_progress, switchVars, StreamTypeOK, Readers, OneOperation,
             StreamTags
      <3>4. NoCall'
        BY <2>10, <3>1
           DEF on_progress, switchVars, StreamTypeOK, Readers, NoCall, StreamTags
      <3>5. AlarmInv'
        <4>1. PICK tag : Next1(tag)
          BY <2>10 DEF on_progress
        <4>2. ASSUME NEW a \in Alarms, Coming(a), a \notin reported'
              PROVE  Coming(a)'
          <5>1. Head(cq) # Event("READ", TRUE, a, FALSE)
            BY <2>10, <3>1, <4>2 DEF on_progress, Event, Update, StreamTags
          <5>2. wire' = wire
            BY <2>10 DEF on_progress, switchVars
          <5> QED
            BY <2>2, <4>1, <4>2, <5>1, <5>2
        <4> QED
          BY <2>10, <3>1, <4>2
             DEF on_progress, switchVars, StreamTypeOK, Readers, AlarmInv
      <3> QED
        BY <3>2, <3>3, <3>4, <3>5
    <2>11. CASE on_read
      <3>1. \A t : Next1(t) =>
              /\ cq' \in Seq(Events)
              /\ Head(cq) \in Events /\ Head(cq).tag = t
              /\ reader.pc = "next"
              /\ OneCompletion'
              /\ op # "none" => OnlyControl'
              /\ t # "CTL_SHUTDOWN" => op = "none" /\ OnlyControl'
        BY <2>1
      <3>2. StreamTypeOK'
        <4>1. Head(cq).update.alarm \in Alarms \cup {NoAlarm}
          BY <2>11, <3>1 DEF on_read, Events, Updates
        <4>2. reader' \in Readers
          BY <2>11, <4>1 DEF on_read, StreamTypeOK, Readers
        <4>3. op' \in (Tags \ {"CTL_SHUTDOWN"}) \cup {"none"}
          BY <2>11 DEF on_read, StreamTypeOK, Tags, StreamTags
        <4> QED
          BY <2>11, <3>1, <4>2, <4>3 DEF on_read, switchVars, StreamTypeOK
      <3>3. OneOperation'
        BY <2>11, <3>1
           DEF on_read, switchVars, StreamTypeOK, Readers, OneOperation,
             StreamTags
      <3>4. NoCall'
        BY <2>11, <3>1
           DEF on_read, switchVars, StreamTypeOK, Readers, NoCall, StreamTags
      <3>5. AlarmInv'
        <4>1. PICK tag : Next1(tag)
          BY <2>11 DEF on_read
        <4>2. ASSUME NEW a \in Alarms, Coming(a), a \notin reported'
              PROVE  Coming(a)'
          <5>1. Head(cq) # Event("READ", TRUE, a, FALSE)
            BY <2>11, <3>1, <4>2 DEF on_read, Event, Update, StreamTags
          <5>2. wire' = wire
            BY <2>11 DEF on_read, switchVars
          <5> QED
            BY <2>2, <4>1, <4>2, <5>1, <5>2
        <4> QED
          BY <2>11, <3>1, <4>2
             DEF on_read, switchVars, StreamTypeOK, Readers, AlarmInv
      <3> QED
        BY <3>2, <3>3, <3>4, <3>5
    <2>12. CASE drain
      <3>2. StreamTypeOK'
        BY <2>12 DEF drain, switchVars, StreamTypeOK, Readers, Tags, StreamTags
      <3>3. OneOperation'
        BY <2>12
           DEF drain, switchVars, StreamTypeOK, Readers, OneOperation,
             StreamTags, OneCompletion, OnlyControl
      <3>4. NoCall'
        BY <2>12 DEF drain, switchVars, StreamTypeOK, Readers, NoCall, StreamTags
      <3>5. AlarmInv'
        BY <2>12
           DEF drain, switchVars, StreamTypeOK, Readers, AlarmInv, NoCall,
             Coming, Event, Update
      <3> QED
        BY <3>2, <3>3, <3>4, <3>5
    <2>13. CASE gnmi_subscribe_joined
      <3>2. StreamTypeOK'
        BY <2>13
           DEF gnmi_subscribe_joined, switchVars, StreamTypeOK, Readers, Tags,
             StreamTags
      <3>3. OneOperation'
        BY <2>13
           DEF gnmi_subscribe_joined, switchVars, StreamTypeOK, Readers,
             OneOperation, StreamTags, OneCompletion, OnlyControl
      <3>4. NoCall'
        BY <2>13
           DEF gnmi_subscribe_joined, switchVars, StreamTypeOK, Readers, NoCall,
             StreamTags
      <3>5. AlarmInv'
        BY <2>13
           DEF gnmi_subscribe_joined, switchVars, StreamTypeOK, Readers,
             AlarmInv, NoCall, Coming, Event, Update
      <3> QED
        BY <3>2, <3>3, <3>4, <3>5
    <2>14. CASE CallBreaks
      <3>2. StreamTypeOK'
        BY <2>14 DEF CallBreaks, StreamTypeOK, Readers, Tags, StreamTags
      <3>3. OneOperation'
        BY <2>14
           DEF CallBreaks, StreamTypeOK, Readers, OneOperation, StreamTags,
             OneCompletion, OnlyControl
      <3>4. NoCall'
        BY <2>14 DEF CallBreaks, StreamTypeOK, Readers, NoCall, StreamTags
      <3>5. AlarmInv'
        BY <2>14
           DEF CallBreaks, StreamTypeOK, Readers, AlarmInv, NoCall, Coming,
             Event, Update
      <3> QED
        BY <3>2, <3>3, <3>4, <3>5
    <2>15. CASE ChannelChange
      <3>2. StreamTypeOK'
        BY <2>15 DEF ChannelChange, StreamTypeOK, Readers, Tags, StreamTags
      <3>3. OneOperation'
        BY <2>15
           DEF ChannelChange, StreamTypeOK, Readers, OneOperation, StreamTags,
             OneCompletion, OnlyControl
      <3>4. NoCall'
        BY <2>15 DEF ChannelChange, StreamTypeOK, Readers, NoCall, StreamTags
      <3>5. AlarmInv'
        BY <2>15
           DEF ChannelChange, StreamTypeOK, Readers, AlarmInv, NoCall, Coming,
             Event, Update
      <3> QED
        BY <3>2, <3>3, <3>4, <3>5
    <2>16. CASE alarm_acknowledge
      <3>1. reader' \in Readers /\ reader'.pc = "next" /\ reader'.stop = reader.stop
        BY <2>16 DEF alarm_acknowledge, StreamTypeOK, Readers
      <3>2. /\ wire' \in Seq(Updates)
            /\ \A a : Coming(a) => Coming(a)'
        <4>1. Update(reader.alarm, TRUE) \in Updates
          BY StreamRecords DEF StreamTypeOK, Readers
        <4>2. CASE wire' = Append(wire, Update(reader.alarm, TRUE))
          BY <2>4, <2>16, <4>1, <4>2 DEF alarm_acknowledge
        <4>3. CASE wire' = wire
          BY <2>16, <4>3
             DEF alarm_acknowledge, StreamTypeOK, Coming, Event, Update
        <4> QED
          BY <2>16, <4>2, <4>3 DEF alarm_acknowledge
      <3>3. /\ alarm' \in [Alarms -> {"none", "raised", "acknowledged"}]
            /\ \A a \in Alarms :
                 \/ alarm'[a] = alarm[a]
                 \/ a = reader.alarm /\ alarm'[a] = "acknowledged"
        <4>1. alarm \in [Alarms -> {"none", "raised", "acknowledged"}]
          BY DEF StreamTypeOK
        <4>2. CASE alarm' = alarm
          BY <4>1, <4>2
        <4>3. CASE alarm' = [alarm EXCEPT ![reader.alarm] = "acknowledged"]
          BY <4>1, <4>3
        <4> QED
          BY <2>16, <4>2, <4>3 DEF alarm_acknowledge
      <3>4. StreamTypeOK'
        BY <2>16, <3>1, <3>2, <3>3
           DEF alarm_acknowledge, StreamTypeOK, Tags, StreamTags
      <3>5. OneOperation'
        BY <2>16, <3>1
           DEF alarm_acknowledge, OneOperation, OneCompletion, OnlyControl,
             NoCall
      <3>6. NoCall'
        BY <2>16, <3>1 DEF alarm_acknowledge, NoCall
      <3>7. AlarmInv'
        BY <2>16, <3>1, <3>2, <3>3 DEF alarm_acknowledge, AlarmInv
      <3> QED
        BY <3>4, <3>5, <3>6, <3>7
    <2>17. CASE gnmi_subscribe_stop
      <3>1. CASE cq' = cq
        BY <2>17, <3>1
           DEF gnmi_subscribe_stop, switchVars, StreamTypeOK, OneOperation,
               OnlyControl, OneCompletion, NoCall, AlarmInv, Coming, Event, Update
      <3>2. CASE cq' = Append(cq, CTL_SHUTDOWN)
        <4>1. /\ cq' \in Seq(Events)
              /\ OnlyControl => OnlyControl'
              /\ OneCompletion'
              /\ wire' = wire => \A a : Coming(a) => Coming(a)'
          BY <2>3, <3>2, StreamRecords
        <4> QED
          BY <2>17, <4>1
             DEF gnmi_subscribe_stop, switchVars, StreamTypeOK, OneOperation,
                 NoCall, AlarmInv
      <3> QED
        BY <2>17, <3>1, <3>2 DEF gnmi_subscribe_stop
    <2>18. ASSUME NEW a \in Alarms, Raise(a)
           PROVE  StreamInv'
      <3>1. /\ wire' \in Seq(Updates)
            /\ \A b : Coming(b) => Coming(b)'
            /\ call = "open" => Coming(a)'
        <4>1. Update(a, FALSE) \in Updates
          BY StreamRecords
        <4>2. CASE wire' = Append(wire, Update(a, FALSE))
          BY <2>4, <2>18, <4>1, <4>2 DEF Raise
        <4>3. CASE wire' = wire /\ call # "open"
          BY <2>18, <4>3 DEF Raise, StreamTypeOK, Coming, Event, Update
        <4> QED
          BY <2>18, <4>2, <4>3 DEF Raise
      <3>2. /\ alarm' \in [Alarms -> {"none", "raised", "acknowledged"}]
            /\ \A b \in Alarms : (b = a /\ alarm'[b] = "raised") \/ alarm'[b] = alarm[b]
        BY <2>18 DEF Raise, StreamTypeOK
      <3>3. StreamTypeOK' /\ OneOperation' /\ NoCall'
        BY <2>18, <3>1, <3>2
           DEF Raise, StreamTypeOK, OneOperation, OnlyControl, OneCompletion, NoCall
      <3>4. AlarmInv'
        BY <2>18, <3>1, <3>2 DEF Raise, AlarmInv
      <3> QED
        BY <3>3, <3>4
    <2>19. CASE CompleteDead
      <3>1. op \in Tags \ {"CTL_SHUTDOWN"}
        BY <2>19 DEF CompleteDead, Tags, StreamTags
      <3>2. Completed(op, op = "FINISH") \in Events
        BY <3>1, StreamRecords
      <3>3. /\ cq' \in Seq(Events)
            /\ OnlyControl => OneCompletion'
            /\ wire' = wire => \A a : Coming(a) => Coming(a)'
        BY <2>3, <2>19, <3>2 DEF CompleteDead
      <3> QED
        BY <2>19, <3>1, <3>3
           DEF CompleteDead, grpcFrame, StreamTypeOK, OneOperation, NoCall,
               AlarmInv, Tags, StreamTags
    <2>20. CASE Complete
      <3>1. op \in Tags \ {"CTL_SHUTDOWN"} /\ op' = "none" /\ reader' = reader
        BY <2>20 DEF Complete, grpcFrame, Tags, StreamTags
      <3>2. reader.pc = "next" \/ reader.stop
        BY <3>1 DEF OneOperation, Tags, StreamTags
      <3>3. ASSUME NEW e \in Events, cq' = Append(cq, e)
            PROVE  cq' \in Seq(Events) /\ OneOperation'
        BY <2>3, <3>1, <3>2, <3>3 DEF OneOperation, Tags, StreamTags
      <3>4. CASE /\ op \in {"STATE_CHANGE", "START_CALL", "WRITES_DONE"}
                 /\ UNCHANGED <<call, wire>>
        <4>1. cq' = Append(cq, Completed(op, TRUE)) /\ Completed(op, TRUE) \in Events
          BY <2>20, <3>1, <3>4, StreamRecords DEF Complete
        <4>2. cq' \in Seq(Events) /\ OneOperation' /\ \A a : Coming(a) => Coming(a)'
          BY <2>3, <3>3, <3>4, <4>1
        <4> QED
          BY <2>20, <3>1, <3>4, <4>2
             DEF Complete, grpcFrame, StreamTypeOK, NoCall, AlarmInv
      <3>5. CASE op = "WRITE" /\ call' = "open" /\ wire' \in gnmi_subscribe_create
        <4>1. cq' = Append(cq, Completed(op, TRUE)) /\ Completed(op, TRUE) \in Events
          BY <2>20, <3>1, <3>5, StreamRecords DEF Complete
        <4>2. cq' \in Seq(Events) /\ OneOperation'
          BY <3>3, <4>1
        <4>3. /\ wire' \in Seq(Updates)
              /\ \A a \in Alarms : alarm[a] = "raised" => Coming(a)'
          BY <3>5, CurrentAlarms DEF Coming, Event, Update
        <4> QED
          BY <2>20, <3>1, <3>2, <3>5, <4>2, <4>3
             DEF Complete, grpcFrame, StreamTypeOK, NoCall, AlarmInv
      <3>6. CASE op = "READ" /\ wire # <<>> /\ wire' = Tail(wire)
        <4> DEFINE e == Event(op, TRUE, Head(wire).alarm, Head(wire).acknowledged)
        <4>1. /\ Len(wire) \in Nat \ {0} /\ Head(wire) = wire[1]
              /\ Head(wire) \in Updates
              /\ wire' \in Seq(Updates) /\ Len(wire') = Len(wire) - 1
              /\ \A i \in 1 .. Len(wire) - 1 : wire'[i] = wire[i + 1]
          BY <3>6, SequenceFacts DEF StreamTypeOK
        <4>2. cq' = Append(cq, e) /\ e \in Events
          BY <2>20, <3>1, <3>6, <4>1, StreamRecords DEF Complete
        <4>3. cq' \in Seq(Events) /\ OneOperation'
          BY <3>3, <4>2
        <4>4. ASSUME NEW a, Coming(a) PROVE Coming(a)'
          <5>1. CASE \E i \in 1 .. Len(cq) : cq[i] = Event("READ", TRUE, a, FALSE)
            <6>1. /\ Len(cq) \in Nat /\ Len(cq') = Len(cq) + 1
                  /\ \A i \in 1 .. Len(cq) : cq'[i] = cq[i]
              BY <4>2, SequenceFacts DEF StreamTypeOK
            <6>2. PICK i \in 1 .. Len(cq) : cq[i] = Event("READ", TRUE, a, FALSE)
              BY <5>1
            <6>3. i \in 1 .. Len(cq')
              BY <6>1
            <6>4. cq'[i] = Event("READ", TRUE, a, FALSE)
              BY <6>1, <6>2
            <6> QED
              BY <6>3, <6>4 DEF Coming, Event, Update
          <5>2. CASE wire[1] = Update(a, FALSE)
            <6>1. e = Event("READ", TRUE, a, FALSE)
              BY <3>6, <4>1, <5>2 DEF Event, Update
            <6> QED
              BY <2>3, <4>2, <6>1
          <5>3. CASE \E i \in 1 .. Len(wire) : i # 1 /\ wire[i] = Update(a, FALSE)
            <6>1. PICK i \in 1 .. Len(wire) : i # 1 /\ wire[i] = Update(a, FALSE)
              BY <5>3
            <6>2. i - 1 \in 1 .. Len(wire) - 1 /\ (i - 1) + 1 = i
              BY <4>1, <6>1
            <6>3. i - 1 \in 1 .. Len(wire') /\ wire'[i - 1] = Update(a, FALSE)
              BY <4>1, <6>1, <6>2
            <6> QED
              BY <6>3 DEF Coming, Event, Update
          <5> QED
            BY <4>4, <5>1, <5>2, <5>3 DEF Coming
        <4> QED
          BY <2>20, <3>1, <3>6, <4>1, <4>3, <4>4
             DEF Complete, grpcFrame, StreamTypeOK, NoCall, AlarmInv
      <3> QED
        BY <2>20, <3>4, <3>5, <3>6 DEF Complete
    <2>21. CASE UNCHANGED streamVars
      BY <2>21
         DEF streamVars, StreamTypeOK, OneOperation, OnlyControl, OneCompletion,
             NoCall, AlarmInv, Coming, Event, Update
    <2> QED
      BY <2>5, <2>6, <2>7, <2>8, <2>9, <2>10, <2>11, <2>12, <2>13, <2>14, <2>15,
         <2>16, <2>17, <2>18, <2>19, <2>20, <2>21
         DEF StreamNext, thread_cb, Switch
  <1>3. StreamInv => AlarmsNotLost
    <2>1. StreamInv => DOMAIN wire = 1 .. Len(wire) /\ DOMAIN cq = 1 .. Len(cq)
      BY DEF StreamInv, StreamTypeOK
    <2> QED
      BY <2>1 DEF StreamInv, AlarmInv, Coming, AlarmsNotLost
  <1> QED
    BY <1>1, <1>2, <1>3, PTL DEF StreamSpec

=============================================================================
