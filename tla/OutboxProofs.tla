---------------------------- MODULE OutboxProofs ----------------------------
(***************************************************************************)
(* Proofs about what Session promises of the messages: none vanishes, the  *)
(* connect message is the first of its connection, and the transmit path   *)
(* implements Outbox.  For any set of threads and any bounds.              *)
(***************************************************************************)
EXTENDS SessionProofs, SequenceTheorems

\* Nothing was written on the current connection yet.
Fresh == Len(wire) = 0 \/ wire[Len(wire)].conn # conn

\* A connect message is pulled before anything is written on its connection
\* and can only be at the head of the batch.  A connection that takes writes
\* and was greeted has the connect message written, or next to be written.
GreetInv ==
  /\ \A i \in 1..Len(wire) : wire[i].conn <= conn
  /\ \A n \in greeted : n \in 1..conn
  /\ pc \in {"pulled", "failed"} => txconnect = 0
  /\ txconnect # 0 => Fresh
  /\ \A i \in 1..Len(batch) : batch[i].from = Connect => i = 1 /\ Fresh
  /\ wsi = "established" /\ conn \in greeted /\ Fresh =>
       \/ txconnect = conn
       \/ batch # <<>> /\ batch[1].from = Connect /\ batch[1].seq = conn
  /\ conn <= MaxConn
  /\ ConnectFirst

-----------------------------------------------------------------------------
(***************************************************************************)
(* What a step can do to the messages.                                     *)
(***************************************************************************)

\* The step neither brings a connection up nor hands out a batch.
Aside ==
  /\ wsi' = "established" => wsi = "established"
  /\ pc' \in {"pulled", "failed"} => pc \in {"pulled", "failed"}
  /\ UNCHANGED <<conn, greeted, txconnect, batch, wire, lost>>

Enqueues(t) == txq_enqueue(t) /\ Aside

Idles == UNCHANGED <<txq, sent>> /\ Aside

\* Every step of the client sends one message, is one of the callbacks that
\* move messages, or leaves them all where they are.
LEMMA QueueSteps ==
  ASSUME [Next]_vars
  PROVE  \/ \E t \in Threads \cup {Main} : Enqueues(t)
         \/ \E ok \in BOOLEAN : ClientEstablished(ok)
         \/ WriteablePull
         \/ WriteMessage
         \/ WriteFail
         \/ ProtoStop
         \/ Idles
  <1> DEFINE Sends == \E t \in Threads \cup {Main} : Enqueues(t)
  <1> USE DEF sigVars, connVars, queueVars, threadVars, Aside, Idles, Enqueues
  <1>1. CASE SulFire
    BY <1>1 DEF SulFire, sul_connect_attempt, InService
  <1>2. CASE ClientConnectionError
    BY <1>2 DEF ClientConnectionError, closed, InService, main_send
  <1>3. CASE ClientClosed
    BY <1>3 DEF ClientClosed, closed, InService
  <1>4. CASE ClientReceive
    BY <1>4 DEF ClientReceive, InService, main_send
  <1>5. CASE EventWaitCancelled
    BY <1>5 DEF EventWaitCancelled, InService
  <1>6. CASE BootLog
    BY <1>6 DEF BootLog, main_send
  <1>7. CASE WriteFailLog
    BY <1>7 DEF WriteFailLog, main_send
  <1>8. CASE WriteableDone
    BY <1>8 DEF WriteableDone
  <1>9. CASE BootFail
    BY <1>9 DEF BootFail, main_send
  <1>10. CASE Start
    BY <1>10 DEF Start, sul_connect_attempt
  <1>11. CASE LoopCheck
    BY <1>11 DEF LoopCheck
  <1>12. CASE LoopBody
    BY <1>12 DEF LoopBody, main_send
  <1>13. CASE JoinAndDestroy
    BY <1>13 DEF JoinAndDestroy
  <1>14. CASE SigWait
    BY <1>14 DEF SigWait
  <1>15. CASE SigGetContext
    BY <1>15 DEF SigGetContext
  <1>16. CASE SigCancel
    BY <1>16 DEF SigCancel
  <1>17. ASSUME NEW t \in Threads, ThreadEnqueue(t) PROVE Sends
    BY <1>17 DEF ThreadEnqueue
  <1>18. ASSUME NEW t \in Threads, ThreadWake(t) PROVE Idles
    BY <1>18 DEF ThreadWake
  <1>19. CASE UNCHANGED vars
    BY <1>19 DEF vars
  <1>20. CASE plat_event_unsubscribe
    BY <1>20 DEF plat_event_unsubscribe
  <1> QED
    BY <1>1, <1>2, <1>3, <1>4, <1>5, <1>6, <1>7, <1>8, <1>9, <1>10, <1>11,
       <1>12, <1>13, <1>14, <1>15, <1>16, <1>17, <1>18, <1>19, <1>20
       DEF Next, Callbacks, WriteLoop, MainStep, SigStep, ThreadStep, Exited

-----------------------------------------------------------------------------
(***************************************************************************)
(* No message vanishes.                                                    *)
(***************************************************************************)

\* NoSilentLoss for any number of threads, messages, failed writes and
\* reconnects: what txq_enqueue() took is in the queue, in the hands of the
\* WRITEABLE callback, written, or dropped by a failed write or at the end.
THEOREM NothingVanishes == Spec => []NoSilentLoss
  <1> DEFINE Kept(m) ==
        \/ m \in lost
        \/ \E i \in 1..Len(txq) : txq[i] = m
        \/ \E i \in 1..Len(batch) : batch[i] = m
        \/ \E i \in 1..Len(wire) : wire[i].from = m.from /\ wire[i].seq = m.seq
  <1>1. Init => NoSilentLoss
    BY SessionAssumption DEF Init, NoSilentLoss
  <1>2. ASSUME Data, Data', Phases, NoSilentLoss, [Next]_vars
        PROVE  NoSilentLoss'
    <2>1. /\ txq \in Seq(Message) /\ batch \in Seq(Message)
          /\ wire \in Seq(WireMessage) /\ wire' \in Seq(WireMessage)
          /\ txconnect \in Nat /\ conn \in Nat
          /\ sent \in [Threads \cup {Main} -> Nat]
      BY <1>2 DEF Data
    <2>2. ASSUME NEW m \in Message, Kept(m)
          PROVE  Kept(m)'
      <3>1. ASSUME NEW u \in Threads \cup {Main}, Enqueues(u)
            PROVE  Kept(m)'
        <4>1. \A i \in 1..Len(txq) : i \in 1..Len(txq') /\ txq'[i] = txq[i]
          <5>1. Msg(u) \in Message /\ txq' = Append(txq, Msg(u))
            BY <2>1, <3>1 DEF Enqueues, txq_enqueue, Msg, Message
          <5> QED
            BY <2>1, <5>1
        <4>2. UNCHANGED <<lost, batch, wire>>
          BY <3>1 DEF Enqueues, Aside
        <4> QED
          BY <2>2, <4>1, <4>2
      <3>2. ASSUME NEW ok \in BOOLEAN, ClientEstablished(ok)
            PROVE  Kept(m)'
        <4>1. UNCHANGED <<lost, txq, batch, wire>>
          BY <3>2 DEF ClientEstablished
        <4> QED
          BY <2>2, <4>1
      <3>3. CASE WriteablePull
        <4>1. batch = <<>> /\ UNCHANGED <<lost, wire>> /\ batch' = Outgoing
          BY <1>2, <3>3 DEF WriteablePull, InService, Phases
        <4>2. \A i \in 1..Len(txq) :
                \E j \in 1..Len(batch') : batch'[j] = txq[i]
          <5>1. CASE txconnect = 0
            BY <4>1, <5>1 DEF Outgoing
          <5>2. CASE txconnect # 0
            <6> DEFINE g == [from |-> Connect, seq |-> txconnect]
            <6>1. g \in Message /\ batch' = <<g>> \o txq
              BY <2>1, <4>1, <5>2 DEF Outgoing, Message
            <6> HIDE DEF g
            <6>2. /\ Len(batch') = Len(txq) + 1
                  /\ \A i \in 1..Len(txq) : batch'[i + 1] = txq[i]
              BY <2>1, <6>1
            <6>3. \A i \in 1..Len(txq) : i + 1 \in 1..Len(txq) + 1
              BY <2>1
            <6> QED
              BY <6>2, <6>3
          <5> QED
            BY <5>1, <5>2
        <4> QED
          BY <2>2, <4>1, <4>2
      <3>4. CASE WriteMessage
        <4>1. /\ batch # <<>> /\ batch' = Tail(batch) /\ UNCHANGED <<lost, txq>>
              /\ wire' = Append(wire, [conn |-> conn, from |-> Head(batch).from,
                                       seq |-> Head(batch).seq])
          BY <3>4 DEF WriteMessage
        <4>2. /\ Len(wire') = Len(wire) + 1 /\ Len(wire) \in Nat
              /\ wire'[Len(wire) + 1].from = batch[1].from
              /\ wire'[Len(wire) + 1].seq = batch[1].seq
          BY <2>1, <4>1
        <4>3. \A i \in 1..Len(wire) : i \in 1..Len(wire') /\ wire'[i] = wire[i]
          BY <2>1, <4>1
        <4>4. \A i \in 1..Len(batch) :
                i = 1 \/ \E j \in 1..Len(batch') : batch'[j] = batch[i]
          <5>1. ASSUME NEW i \in 1..Len(batch), i # 1
                PROVE  i-1 \in 1..Len(batch') /\ batch'[i-1] = batch[i]
            BY <2>1, <4>1, <5>1
          <5> QED
            BY <5>1
        <4>5. Len(wire) + 1 \in 1..Len(wire')
          BY <4>2
        <4>6. CASE \E i \in 1..Len(batch) : batch[i] = m
          <5>1. CASE batch[1] = m
            BY <4>2, <4>5, <5>1
          <5>2. CASE \E j \in 1..Len(batch') : batch'[j] = m
            BY <5>2
          <5> QED
            BY <4>4, <4>6, <5>1, <5>2
        <4>7. CASE \E i \in 1..Len(wire) : wire[i].from = m.from /\ wire[i].seq = m.seq
          BY <4>3, <4>7
        <4> QED
          BY <2>2, <4>1, <4>6, <4>7
      <3>5. CASE WriteFail
        <4>1. /\ batch # <<>> /\ batch' = Tail(batch) /\ UNCHANGED <<wire, txq>>
              /\ lost' = lost \cup {batch[1]}
          BY <2>1, <3>5 DEF WriteFail
        <4>2. \A i \in 1..Len(batch) :
                i = 1 \/ \E j \in 1..Len(batch') : batch'[j] = batch[i]
          <5>1. ASSUME NEW i \in 1..Len(batch), i # 1
                PROVE  i-1 \in 1..Len(batch') /\ batch'[i-1] = batch[i]
            BY <2>1, <4>1, <5>1
          <5> QED
            BY <5>1
        <4>3. CASE \E i \in 1..Len(batch) : batch[i] = m
          <5>1. CASE batch[1] = m
            BY <4>1, <5>1
          <5>2. CASE \E j \in 1..Len(batch') : batch'[j] = m
            BY <5>2
          <5> QED
            BY <4>2, <4>3, <5>1, <5>2
        <4> QED
          BY <2>2, <4>1, <4>3
      <3>6. CASE ProtoStop
        <4>1. /\ lost' = lost \cup {txq[i] : i \in 1..Len(txq)}
              /\ UNCHANGED <<batch, wire>>
          BY <3>6 DEF ProtoStop
        <4> QED
          BY <2>2, <4>1
      <3>7. CASE Idles
        BY <2>2, <3>7 DEF Idles, Aside
      <3> QED
        BY <1>2, <3>1, <3>2, <3>3, <3>4, <3>5, <3>6, <3>7, QueueSteps
    <2>3. ASSUME NEW t \in Threads \cup {Main}, NEW n \in 1..sent'[t],
                 n \notin 1..sent[t]
          PROVE  \E i \in 1..Len(txq') : txq'[i] = [from |-> t, seq |-> n]
      <3>1. sent # sent'
        BY <2>3
      <3>2. \E u \in Threads \cup {Main} : Enqueues(u)
        BY <1>2, <3>1, QueueSteps
           DEF ClientEstablished, WriteablePull, WriteMessage, WriteFail,
               ProtoStop, Idles
      <3>3. PICK u \in Threads \cup {Main} : txq_enqueue(u)
        BY <3>2 DEF Enqueues
      <3>4. u = t /\ n = sent[t] + 1
        BY <2>1, <2>3, <3>3 DEF txq_enqueue
      <3>5. Msg(t) = [from |-> t, seq |-> n] /\ Msg(t) \in Message
        BY <2>1, <3>4 DEF Msg, Message
      <3>6. txq' = Append(txq, Msg(t))
        BY <3>3, <3>4 DEF txq_enqueue
      <3>7. Len(txq) + 1 \in 1..Len(txq') /\ txq'[Len(txq) + 1] = Msg(t)
        BY <2>1, <3>5, <3>6
      <3> QED
        BY <3>5, <3>7
    <2>4. ASSUME NEW t \in Threads \cup {Main}, NEW n \in 1..sent'[t]
          PROVE  \/ [from |-> t, seq |-> n] \in lost'
                 \/ \E i \in 1..Len(txq') : txq'[i] = [from |-> t, seq |-> n]
                 \/ \E i \in 1..Len(batch') : batch'[i] = [from |-> t, seq |-> n]
                 \/ \E i \in 1..Len(wire') : wire'[i].from = t /\ wire'[i].seq = n
      <3> DEFINE m == [from |-> t, seq |-> n]
      <3>1. m \in Message /\ m.from = t /\ m.seq = n
        BY DEF Message
      <3>2. CASE n \in 1..sent[t]
        <4>1. Kept(m)
          BY <1>2, <3>1, <3>2 DEF NoSilentLoss
        <4>2. Kept(m)'
          BY <2>2, <3>1, <4>1
        <4> QED
          BY <3>1, <4>2
      <3>3. CASE n \notin 1..sent[t]
        BY <2>3, <3>3
      <3> QED
        BY <3>2, <3>3
    <2> QED
      BY <2>4 DEF NoSilentLoss
  <1>3. TypeOK /\ ControlInv => Data /\ Phases
    BY TypeParts DEF ControlInv
  <1> QED
    BY <1>1, <1>2, <1>3, TypeCorrect, ControlCorrect, PTL DEF Spec

-----------------------------------------------------------------------------
(***************************************************************************)
(* The connect message comes first.                                        *)
(***************************************************************************)

\* Every step keeps the invariant about the connect messages.
THEOREM GreetCorrect == Spec => []GreetInv
  <1>1. Init => GreetInv
    BY SessionAssumption DEF Init, GreetInv, ConnectFirst, Fresh
  <1>2. ASSUME Data, Phases, OrderInv, GreetInv, [Next]_vars
        PROVE  GreetInv'
    <2>1. /\ txq \in Seq(Message) /\ batch \in Seq(Message)
          /\ wire \in Seq(WireMessage) /\ Len(wire) \in Nat
          /\ txconnect \in Nat /\ conn \in Nat /\ greeted \subseteq Nat
      BY <1>2 DEF Data
    <2>2. \A i \in 1..Len(wire) : wire[i].conn \in Nat
      <3>1. \A i \in 1..Len(wire) : wire[i] \in WireMessage
        BY <2>1
      <3> QED
        BY <3>1 DEF WireMessage
    <2>3. ASSUME /\ wsi' = "established" => wsi = "established"
                 /\ pc' \in {"pulled", "failed"} => pc \in {"pulled", "failed"}
                 /\ UNCHANGED <<conn, greeted, txconnect, batch, wire>>
          PROVE  GreetInv'
      BY <1>2, <2>3 DEF GreetInv, ConnectFirst, Fresh
    <2>4. ASSUME NEW ok \in BOOLEAN, ClientEstablished(ok)
          PROVE  GreetInv'
      <3>1. /\ conn' = conn + 1 /\ conn < MaxConn /\ pc' = "cb"
            /\ txconnect' = IF ok THEN conn + 1 ELSE txconnect
            /\ greeted' = IF ok THEN greeted \cup {conn + 1} ELSE greeted
            /\ UNCHANGED <<batch, wire>> /\ batch = <<>>
        BY <1>2, <2>4 DEF ClientEstablished, connect_send, InService, Phases
      <3>2. Fresh'
        BY <1>2, <2>1, <2>2, <3>1 DEF GreetInv, Fresh
      <3>3. ConnectFirst'
        BY <1>2, <2>1, <2>2, <3>1 DEF GreetInv, ConnectFirst
      <3>4. /\ \A i \in 1..Len(wire') : wire'[i].conn <= conn'
            /\ \A n \in greeted' : n \in 1..conn'
            /\ conn' <= MaxConn
        <4>1. \A i \in 1..Len(wire') : wire'[i].conn <= conn'
          BY <1>2, <2>1, <2>2, <3>1 DEF GreetInv
        <4>2. \A n \in greeted' : n \in 1..conn'
          <5>1. \A n \in greeted : n \in 1..conn
            BY <1>2 DEF GreetInv
          <5> QED
            BY <2>1, <3>1, <5>1
        <4>3. conn' <= MaxConn
          BY <2>1, <3>1, SessionAssumption
        <4> QED
          BY <4>1, <4>2, <4>3
      <3>5. conn + 1 \notin greeted
        BY <1>2, <2>1 DEF GreetInv
      <3> QED
        BY <3>1, <3>2, <3>3, <3>4, <3>5 DEF GreetInv
    <2>5. CASE WriteablePull
      <3>1. /\ batch' = Outgoing /\ txconnect' = 0 /\ batch = <<>>
            /\ UNCHANGED <<wsi, conn, greeted, wire>>
        BY <1>2, <2>5 DEF WriteablePull, InService, Phases, connVars
      <3>2. Fresh' <=> Fresh
        BY <3>1 DEF Fresh
      <3>3. /\ \A i \in 1..Len(batch') : batch'[i].from = Connect =>
                 i = 1 /\ txconnect # 0
            /\ txconnect # 0 => batch' # <<>> /\ batch'[1].from = Connect
                                /\ batch'[1].seq = txconnect
        <4>1. \A i \in 1..Len(txq) : txq[i].from # Connect
          BY <1>2 DEF OrderInv
        <4>2. CASE txconnect = 0
          BY <3>1, <4>1, <4>2 DEF Outgoing
        <4>3. CASE txconnect # 0
          <5> DEFINE g == [from |-> Connect, seq |-> txconnect]
          <5>1. g \in Message /\ batch' = <<g>> \o txq
            BY <2>1, <3>1, <4>3 DEF Outgoing, Message
          <5>2. g.from = Connect /\ g.seq = txconnect
            OBVIOUS
          <5> HIDE DEF g
          <5>3. /\ Len(batch') = Len(txq) + 1 /\ batch'[1] = g
                /\ \A i \in 1..Len(batch') :
                     i = 1 \/ (i-1 \in 1..Len(txq) /\ batch'[i] = txq[i-1])
                /\ batch' # <<>>
            BY <2>1, <5>1
          <5> QED
            BY <4>1, <4>3, <5>2, <5>3
        <4> QED
          BY <4>2, <4>3
      <3>4. ConnectFirst'
        BY <1>2, <3>1 DEF GreetInv, ConnectFirst
      <3>5. ASSUME wsi' = "established", conn' \in greeted', Fresh'
            PROVE  batch' # <<>> /\ batch'[1].from = Connect
                   /\ batch'[1].seq = conn'
        <4>1. conn # 0
          BY <1>2, <2>1, <3>1, <3>5 DEF GreetInv
        <4>2. txconnect = conn
          BY <1>2, <3>1, <3>2, <3>5 DEF GreetInv
        <4> QED
          BY <3>1, <3>3, <4>1, <4>2
      <3> QED
        BY <1>2, <3>1, <3>2, <3>3, <3>4, <3>5 DEF GreetInv
    <2>6. ASSUME batch # <<>>, batch' = Tail(batch)
          PROVE  \A i \in 1..Len(batch') : batch'[i].from # Connect
      <3>1. \A i \in 1..Len(batch') :
              i+1 \in 1..Len(batch) /\ batch'[i] = batch[i+1] /\ i+1 # 1
        BY <2>1, <2>6
      <3> QED
        BY <1>2, <3>1 DEF GreetInv
    <2>7. CASE WriteMessage
      <3> DEFINE w == [conn |-> conn, from |-> Head(batch).from,
                       seq |-> Head(batch).seq]
      <3>1. /\ pc = "pulled" /\ wsi = "established" /\ txconnect = 0
            /\ batch # <<>> /\ batch' = Tail(batch)
            /\ UNCHANGED <<wsi, conn, greeted, txconnect>>
            /\ wire' = Append(wire, w)
        BY <1>2, <2>7 DEF WriteMessage, GreetInv, connVars
      <3>2. w \in WireMessage /\ w.conn = conn
            /\ w.from = batch[1].from /\ w.seq = batch[1].seq
        <4>1. Head(batch) = batch[1] /\ batch[1] \in Message
          BY <2>1, <3>1
        <4> QED
          BY <2>1, <4>1 DEF WireMessage, Message
      <3> HIDE DEF w
      <3>3. /\ Len(wire') = Len(wire) + 1 /\ wire'[Len(wire) + 1] = w
            /\ \A i \in 1..Len(wire) : wire'[i] = wire[i]
        BY <2>1, <3>1, <3>2
      <3>4. ~Fresh'
        BY <2>1, <3>1, <3>2, <3>3 DEF Fresh
      <3>5. \A i \in 1..Len(wire') : wire'[i].conn <= conn
        <4>1. \A i \in 1..Len(wire) : wire[i].conn <= conn
          BY <1>2 DEF GreetInv
        <4>2. Len(wire) \in Nat /\ conn \in Nat
          BY <2>1
        <4>3. \A i \in 1..Len(wire') : i \in 1..Len(wire) \/ i = Len(wire) + 1
          BY <3>3, <4>2
        <4> QED
          BY <3>2, <3>3, <4>1, <4>2, <4>3
      <3>6. ConnectFirst'
        <4>1. /\ w.from = Connect => Fresh
              /\ Fresh /\ conn \in greeted => w.from = Connect /\ w.seq = conn
          <5>1. 1 \in 1..Len(batch)
            BY <2>1, <3>1
          <5>2. conn \in greeted => conn # 0
            BY <1>2, <2>1 DEF GreetInv
          <5> QED
            BY <1>2, <3>1, <3>2, <5>1, <5>2 DEF GreetInv
        <4>2. ASSUME NEW i \in 1..Len(wire')
              PROVE  LET first == i = 1 \/ wire'[i-1].conn # wire'[i].conn IN
                     /\ first /\ wire'[i].conn \in greeted =>
                          wire'[i].from = Connect /\ wire'[i].seq = wire'[i].conn
                     /\ wire'[i].from = Connect => first
          <5>1. CASE i \in 1..Len(wire)
            <6>1. /\ wire'[i] = wire[i]
                  /\ i # 1 => i-1 \in 1..Len(wire) /\ wire'[i-1] = wire[i-1]
              BY <2>1, <3>3, <5>1
            <6> QED
              BY <1>2, <5>1, <6>1 DEF GreetInv, ConnectFirst
          <5>2. CASE i = Len(wire) + 1
            <6>1. /\ wire'[i] = w
                  /\ i = 1 <=> Len(wire) = 0
                  /\ i # 1 => wire'[i-1] = wire[Len(wire)]
              BY <2>1, <3>3, <5>2
            <6> QED
              BY <3>2, <4>1, <6>1 DEF Fresh
          <5> QED
            BY <2>1, <3>3, <5>1, <5>2
        <4> QED
          BY <3>1, <4>2 DEF ConnectFirst
      <3> QED
        BY <1>2, <2>6, <3>1, <3>4, <3>5, <3>6 DEF GreetInv
    <2>8. CASE WriteFail
      <3>1. /\ pc = "pulled" /\ wsi' = "broken" /\ batch # <<>>
            /\ batch' = Tail(batch)
            /\ UNCHANGED <<conn, greeted, txconnect, wire>>
        BY <2>8 DEF WriteFail
      <3>2. ConnectFirst' /\ (Fresh' <=> Fresh)
        BY <1>2, <3>1 DEF GreetInv, ConnectFirst, Fresh
      <3> QED
        BY <1>2, <2>6, <3>1, <3>2 DEF GreetInv
    <2>9. ASSUME NEW u \in Threads \cup {Main}, Enqueues(u)
          PROVE  GreetInv'
      BY <2>3, <2>9 DEF Enqueues, Aside
    <2>10. CASE ProtoStop
      BY <2>3, <2>10 DEF ProtoStop, connVars
    <2>11. CASE Idles
      BY <2>3, <2>11 DEF Idles, Aside
    <2> QED
      BY <1>2, <2>4, <2>5, <2>7, <2>8, <2>9, <2>10, <2>11, QueueSteps
  <1>3. TypeOK /\ ControlInv => Data /\ Phases
    BY TypeParts DEF ControlInv
  <1> QED
    BY <1>1, <1>2, <1>3, TypeCorrect, ControlCorrect, OrderCorrect, PTL DEF Spec

\* ConnectFirst for any number of connections: the first message written on
\* a connection whose connect_send() succeeded is its connect message, and a
\* connect message is never written later on a connection.
THEOREM ConnectIsFirst == Spec => []ConnectFirst
  <1>1. GreetInv => ConnectFirst
    BY DEF GreetInv
  <1> QED
    BY <1>1, GreetCorrect, PTL

-----------------------------------------------------------------------------
(***************************************************************************)
(* The transmit path implements Outbox.                                    *)
(***************************************************************************)

\* The batch and the queue behind it are used as one queue: the batch at its
\* head, txq at its tail.
LEMMA JoinedQueue ==
  ASSUME NEW S, NEW b \in Seq(S), NEW q \in Seq(S), NEW m \in S
  PROVE  /\ b \o q \in Seq(S)
         /\ b \o Append(q, m) = Append(b \o q, m)
         /\ b # <<>> => /\ b \o q # <<>>
                        /\ (b \o q)[1] = b[1] /\ Head(b \o q) = b[1]
                        /\ Tail(b \o q) = Tail(b) \o q
  <1>1. /\ b \o q \in Seq(S) /\ <<m>> \in Seq(S)
        /\ Len(b \o q) = Len(b) + Len(q)
        /\ \A i \in 1..Len(b) + Len(q) :
             (b \o q)[i] = IF i <= Len(b) THEN b[i] ELSE q[i - Len(b)]
    BY ConcatProperties
  <1>2. b \o Append(q, m) = Append(b \o q, m)
    <2>1. Append(q, m) = q \o <<m>> /\ Append(b \o q, m) = (b \o q) \o <<m>>
      BY <1>1, AppendIsConcat
    <2> QED
      BY <1>1, <2>1, ConcatAssociative
  <1>3. ASSUME b # <<>>
        PROVE  /\ b \o q # <<>> /\ (b \o q)[1] = b[1] /\ Head(b \o q) = b[1]
               /\ Tail(b \o q) = Tail(b) \o q
    <2> DEFINE c == b \o q
               d == Tail(b)
    <2>1. Len(b) \in Nat \ {0} /\ Len(q) \in Nat
      BY <1>3
    <2>2. /\ c \in Seq(S) /\ Len(c) = Len(b) + Len(q)
          /\ \A i \in 1..Len(b) + Len(q) :
               c[i] = IF i <= Len(b) THEN b[i] ELSE q[i - Len(b)]
      BY <1>1
    <2>3. /\ d \in Seq(S) /\ Len(d) = Len(b) - 1
          /\ \A i \in 1..Len(d) : d[i] = b[i+1]
      BY <1>3, HeadTailProperties
    <2>4. /\ d \o q \in Seq(S) /\ Len(d \o q) = Len(d) + Len(q)
          /\ \A i \in 1..Len(d) + Len(q) :
               (d \o q)[i] = IF i <= Len(d) THEN d[i] ELSE q[i - Len(d)]
      BY <2>3, ConcatProperties
    <2> HIDE DEF c, d
    <2>5. c # <<>> /\ c[1] = b[1] /\ Head(c) = c[1]
      BY <2>1, <2>2
    <2>6. /\ Tail(c) \in Seq(S) /\ Len(Tail(c)) = Len(c) - 1
          /\ \A i \in 1..Len(Tail(c)) : Tail(c)[i] = c[i+1]
      BY <2>2, <2>5, HeadTailProperties
    <2>7. Len(Tail(c)) = Len(d \o q)
      BY <2>1, <2>2, <2>3, <2>4, <2>6
    <2>8. ASSUME NEW i \in 1..Len(Tail(c)) PROVE Tail(c)[i] = (d \o q)[i]
      <3>1. /\ i \in 1..Len(d) + Len(q) /\ i+1 \in 1..Len(b) + Len(q)
            /\ i+1 <= Len(b) <=> i <= Len(d)
            /\ i+1 - Len(b) = i - Len(d)
            /\ i <= Len(d) => i \in 1..Len(d)
        BY <2>1, <2>2, <2>3, <2>4, <2>6
      <3> QED
        BY <2>2, <2>3, <2>4, <2>6, <3>1
    <2>9. Tail(c) = d \o q
      BY <2>4, <2>6, <2>7, <2>8, SeqEqual
    <2> QED
      BY <2>5, <2>9 DEF c, d
  <1> QED
    BY <1>1, <1>2, <1>3

\* ImplementsOutbox for any number of threads, messages and connections:
\* under the mapping of Session, txq_enqueue() accepts, the WRITEABLE callback
\* greets when it takes over the queue and writes or drops the oldest, the
\* final txq_free() drops the rest, and no other step shows.
THEOREM QueueImplementsOutbox == Spec => ImplementsOutbox
  <1>1. Init => Promise!Init
    <2> SUFFICES ASSUME Init PROVE Promise!Init
      OBVIOUS
    <2>1. batch \o txq = <<>>
      BY ConcatEmptySeq DEF Init
    <2>2. Outgone = <<>>
      BY DEF Init, Outgone
    <2> QED
      BY <2>1, <2>2 DEF Init, Promise!Init
  <1>2. ASSUME Data, Phases, OrderInv, GreetInv, [Next]_vars
        PROVE  [Promise!Next]_(Promise!vars)
    <2> DEFINE q == batch \o txq
    <2>1. /\ txq \in Seq(Message) /\ batch \in Seq(Message)
          /\ wire \in Seq(WireMessage) /\ Len(wire) \in Nat
          /\ txconnect \in Nat /\ conn \in Nat
          /\ sent \in [Threads \cup {Main} -> Nat]
      BY <1>2 DEF Data
    <2>2. q \in Seq(Message)
      BY <2>1, ConcatProperties
    <2>3. ASSUME UNCHANGED <<sent, batch, txq, wire, lost>>
          PROVE  UNCHANGED Promise!vars
      BY <2>3 DEF Promise!vars, Outgone
    <2>4. ASSUME NEW u \in Threads \cup {Main}, Enqueues(u)
          PROVE  Promise!Accept(u)
      <3>1. /\ txq' = Append(txq, Msg(u)) /\ sent' = [sent EXCEPT ![u] = @ + 1]
            /\ UNCHANGED <<batch, wire, lost>>
        BY <2>4 DEF Enqueues, txq_enqueue, Aside
      <3>2. Msg(u) \in Message /\ Msg(u) = [from |-> u, seq |-> sent[u] + 1]
        BY <2>1 DEF Msg, Message
      <3>3. (batch \o txq)' = Append(q, Msg(u))
        BY <2>1, <3>1, <3>2, JoinedQueue
      <3> QED
        BY <3>1, <3>2, <3>3 DEF Promise!Accept, Outgone
    <2>5. CASE WriteablePull
      <3>1. /\ batch = <<>> /\ batch' = Outgoing /\ txq' = <<>>
            /\ UNCHANGED <<sent, wire, lost>>
        BY <1>2, <2>5 DEF WriteablePull, InService, Phases
      <3>2. q = txq
        BY <2>1, <3>1, ConcatEmptySeq
      <3>3. (batch \o txq)' = Outgoing
        <4>1. Outgoing \in Seq(Message)
          BY <1>2, BatchData
        <4> QED
          BY <3>1, <4>1, ConcatEmptySeq
      <3>4. CASE txconnect = 0
        <4>1. (batch \o txq)' = q
          BY <3>2, <3>3, <3>4 DEF Outgoing
        <4> QED
          BY <3>1, <4>1 DEF Promise!vars, Outgone
      <3>5. CASE txconnect # 0
        <4>1. txconnect \in 1..MaxConn
          BY <1>2, <2>1, <3>5, SessionAssumption DEF OrderInv, GreetInv
        <4>2. (batch \o txq)' = <<[from |-> Connect, seq |-> txconnect]>> \o q
          BY <3>2, <3>3, <3>5 DEF Outgoing
        <4>3. Promise!Greet(txconnect)
          BY <3>1, <4>2 DEF Promise!Greet, Outgone
        <4> QED
          BY <4>1, <4>3 DEF Promise!Next
      <3> QED
        BY <3>4, <3>5
    <2>6. ASSUME batch # <<>>, batch' = Tail(batch), txq' = txq
          PROVE  /\ q # <<>> /\ Head(q) = batch[1] /\ q[1] = batch[1]
                 /\ Head(batch) = batch[1] /\ batch[1] \in Message
                 /\ (batch \o txq)' = Tail(q)
                 /\ (batch \o txq)' = SubSeq(q, 2, Len(q))
                 /\ 1 \in 1..Len(q)
      <3>1. Head(batch) = batch[1] /\ batch[1] \in Message
        BY <2>1, <2>6
      <3>2. /\ q # <<>> /\ Head(q) = batch[1] /\ q[1] = batch[1]
            /\ Tail(q) = Tail(batch) \o txq
        BY <2>1, <2>6, <3>1, JoinedQueue
      <3>3. Tail(q) = SubSeq(q, 2, Len(q))
        BY <2>2, <3>2, TailIsSubSeq
      <3>4. 1 \in 1..Len(q)
        <4> HIDE DEF q
        <4> QED
          BY <2>2, <3>2
      <3> QED
        BY <2>6, <3>1, <3>2, <3>3, <3>4
    <2>7. CASE WriteMessage
      <3> DEFINE w == [conn |-> conn, from |-> Head(batch).from,
                       seq |-> Head(batch).seq]
                 o == Outgone
      <3>1. /\ batch # <<>> /\ batch' = Tail(batch) /\ UNCHANGED <<sent, txq, lost>>
            /\ wire' = Append(wire, w)
        BY <2>7 DEF WriteMessage
      <3>2. w \in WireMessage /\ w.from = batch[1].from /\ w.seq = batch[1].seq
        BY <2>1, <2>6, <3>1 DEF WireMessage, Message
      <3>3. [from |-> batch[1].from, seq |-> batch[1].seq] = batch[1]
        BY <2>6, <3>1 DEF Message
      <3> HIDE DEF w
      <3>4. /\ Len(wire') = Len(wire) + 1 /\ wire'[Len(wire) + 1] = w
            /\ \A i \in 1..Len(wire) : wire'[i] = wire[i]
        BY <2>1, <3>1, <3>2
      <3>5. \A i \in 1..Len(wire) :
              [from |-> wire[i].from, seq |-> wire[i].seq] \in Message
        <4>1. \A i \in 1..Len(wire) : wire[i] \in WireMessage
          BY <2>1
        <4> QED
          BY <4>1 DEF WireMessage, Message
      <3>6. /\ o \in Seq(Message) /\ Len(o) = Len(wire)
            /\ \A i \in 1..Len(wire) :
                 o[i] = [from |-> wire[i].from, seq |-> wire[i].seq]
        BY <2>1, <3>5 DEF Outgone
      <3>7. o' = Append(o, batch[1])
        <4>1. \A i \in 1..Len(wire) + 1 :
                [from |-> wire'[i].from, seq |-> wire'[i].seq] \in Message
          BY <2>1, <2>6, <3>1, <3>2, <3>3, <3>4, <3>5
        <4>2. /\ o' \in Seq(Message) /\ Len(o') = Len(wire) + 1
              /\ \A i \in 1..Len(wire) + 1 :
                   o'[i] = [from |-> wire'[i].from, seq |-> wire'[i].seq]
          BY <2>1, <3>4, <4>1 DEF Outgone
        <4> DEFINE a == Append(o, batch[1])
                   p == o'
        <4> HIDE DEF o
        <4>3. /\ a \in Seq(Message) /\ Len(a) = Len(o) + 1
              /\ \A i \in 1..Len(o) : a[i] = o[i]
              /\ a[Len(o) + 1] = batch[1]
          <5>1. batch[1] \in Message
            BY <2>6, <3>1
          <5> DEFINE e == batch[1]
          <5> HIDE DEF e
          <5>2. e \in Message /\ o \in Seq(Message)
            BY <3>6, <5>1 DEF e
          <5>3. /\ Append(o, e) \in Seq(Message)
                /\ Len(Append(o, e)) = Len(o) + 1
                /\ \A i \in 1..Len(o) : Append(o, e)[i] = o[i]
                /\ Append(o, e)[Len(o) + 1] = e
            BY <5>2, AppendProperties
          <5> QED
            BY <5>3 DEF e
        <4>4. p \in Seq(Message) /\ Len(p) = Len(a)
          BY <3>6, <4>2, <4>3
        <4>5. ASSUME NEW i \in 1..Len(wire) + 1 PROVE p[i] = a[i]
          <5>1. CASE i \in 1..Len(wire)
            BY <3>4, <3>6, <4>2, <4>3, <5>1
          <5>2. CASE i = Len(wire) + 1
            BY <3>2, <3>3, <3>4, <3>6, <4>2, <4>3, <5>2
          <5>3. i \in 1..Len(wire) \/ i = Len(wire) + 1
            BY <2>1
          <5> QED
            BY <5>1, <5>2, <5>3
        <4>6. \A i \in 1..Len(p) : p[i] = a[i]
          BY <4>2, <4>5
        <4> HIDE DEF a, p
        <4>7. p = a
          BY <4>3, <4>4, <4>6, SeqEqual
        <4> QED
          BY <4>7 DEF a, p
      <3>8. Promise!Write
        BY <2>6, <3>1, <3>7 DEF Promise!Write
      <3> QED
        BY <3>8 DEF Promise!Next
    <2>8. CASE WriteFail
      <3>1. /\ batch # <<>> /\ batch' = Tail(batch) /\ UNCHANGED <<sent, txq, wire>>
            /\ lost' = lost \cup {Head(batch)}
        BY <2>8 DEF WriteFail
      <3>2. lost' = lost \cup {q[i] : i \in 1..1}
        BY <2>6, <3>1
      <3>3. Promise!Drop(1)
        BY <2>6, <3>1, <3>2 DEF Promise!Drop, Outgone
      <3> QED
        BY <2>6, <3>1, <3>3 DEF Promise!Next
    <2>9. CASE ProtoStop
      <3>1. /\ batch = <<>> /\ txq' = <<>>
            /\ lost' = lost \cup {txq[i] : i \in 1..Len(txq)}
            /\ UNCHANGED <<sent, batch, wire>>
        BY <1>2, <2>9 DEF ProtoStop, Phases
      <3>2. q = txq /\ (batch \o txq)' = <<>>
        BY <2>1, <3>1, ConcatEmptySeq
      <3>3. CASE txq = <<>>
        BY <3>1, <3>2, <3>3 DEF Promise!vars, Outgone
      <3>4. CASE txq # <<>>
        <4>1. Len(txq) \in 1..Len(txq)
          BY <2>1, <3>4
        <4>2. SubSeq(txq, Len(txq) + 1, Len(txq)) = <<>>
          BY <2>1, SubSeqEmpty
        <4>3. Promise!Drop(Len(txq))
          BY <3>1, <3>2, <4>2 DEF Promise!Drop, Outgone
        <4> QED
          BY <3>2, <4>1, <4>3 DEF Promise!Next
      <3> QED
        BY <3>3, <3>4
    <2>10. ASSUME NEW ok \in BOOLEAN, ClientEstablished(ok)
           PROVE  UNCHANGED Promise!vars
      BY <2>3, <2>10 DEF ClientEstablished
    <2>11. CASE Idles
      BY <2>3, <2>11 DEF Idles, Aside
    <2> QED
      BY <1>2, <2>4, <2>5, <2>7, <2>8, <2>9, <2>10, <2>11, QueueSteps
         DEF Promise!Next
  <1>3. TypeOK /\ ControlInv => Data /\ Phases
    BY TypeParts DEF ControlInv
  <1> QED
    BY <1>1, <1>2, <1>3, TypeCorrect, ControlCorrect, OrderCorrect,
       GreetCorrect, PTL DEF Spec, ImplementsOutbox, Promise!Spec
=============================================================================
