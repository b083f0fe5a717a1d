--------------------------- MODULE SessionProofs ---------------------------
(***************************************************************************)
(* Proofs about Session, for any set of threads and any bounds.            *)
(***************************************************************************)
EXTENDS Session, TLAPS

-----------------------------------------------------------------------------
(***************************************************************************)
(* Sequences.                                                              *)
(***************************************************************************)

\* The elements of a sequence over S are in S; concatenating and cutting off
\* the head of sequences over S.
LEMMA SeqClosed ==
  ASSUME NEW S, NEW s \in Seq(S), NEW t \in Seq(S)
  PROVE  /\ {s[i] : i \in 1..Len(s)} \subseteq S
         /\ s \o t \in Seq(S)
         /\ s # <<>> => Head(s) \in S /\ Tail(s) \in Seq(S)
  OBVIOUS

-----------------------------------------------------------------------------
(***************************************************************************)
(* Type correctness, flags and data apart.                                 *)
(***************************************************************************)

Flags ==
  /\ sigthread_context \in BOOLEAN
  /\ interrupted \in BOOLEAN
  /\ sigc \in BOOLEAN
  /\ websocket \in BOOLEAN
  /\ sul \in BOOLEAN
  /\ writable \in BOOLEAN
  /\ cancel \in BOOLEAN
  /\ conn_successfull \in BOOLEAN

WireMessage == [conn : Nat, from : Threads \cup {Main, Connect}, seq : Nat \ {0}]

Data ==
  /\ pc \in {"boot"} \cup Loop \cup Shutdown
  /\ context \in {"none", "live", "destroyed"}
  /\ sig \in {"wait", "getctx", "cancel", "done"}
  /\ wsi \in {"none", "connecting", "established", "broken"}
  /\ oneshots \subseteq {"password", "rebootcause"}
  /\ conn \in Nat
  /\ alive \subseteq Threads
  /\ tpc \in [Threads -> {"idle", "wake"}]
  /\ sent \in [Threads \cup {Main} -> Nat]
  /\ txq \in Seq(Message)
  /\ txconnect \in Nat
  /\ batch \in Seq(Message)
  /\ wire \in Seq(WireMessage)
  /\ lost \subseteq Message
  /\ greeted \subseteq Nat

\* The two halves make up TypeOK.
LEMMA TypeParts == TypeOK <=> Flags /\ Data
  BY Zenon DEF TypeOK, Flags, Data, WireMessage

\* What a thread queues, and what the main thread sends, if anything, keeps
\* the queue and the counters well typed.
LEMMA SendData ==
  ASSUME Data, main_send \/ \E t \in Threads \cup {Main} : txq_enqueue(t)
  PROVE  /\ txq' \in Seq(Message)
         /\ sent' \in [Threads \cup {Main} -> Nat]
  <1>1. ASSUME NEW t \in Threads \cup {Main}, txq_enqueue(t)
        PROVE  /\ txq' \in Seq(Message)
               /\ sent' \in [Threads \cup {Main} -> Nat]
    BY <1>1 DEF Data, txq_enqueue, Msg, Message
  <1>2. CASE UNCHANGED <<txq, sent, cancel>>
    BY <1>2 DEF Data
  <1> QED
    BY <1>1, <1>2 DEF main_send

\* What the WRITEABLE callback takes, writes and loses are messages.
LEMMA BatchData ==
  ASSUME Data
  PROVE  /\ Outgoing \in Seq(Message)
         /\ {txq[i] : i \in 1..Len(txq)} \subseteq Message
         /\ batch # <<>> =>
              /\ Head(batch) \in Message
              /\ Tail(batch) \in Seq(Message)
              /\ Append(wire, [conn |-> conn, from |-> Head(batch).from,
                               seq |-> Head(batch).seq]) \in Seq(WireMessage)
  <1>1. /\ txconnect \in Nat /\ conn \in Nat
        /\ txq \in Seq(Message) /\ batch \in Seq(Message)
        /\ wire \in Seq(WireMessage)
    BY DEF Data
  <1>2. txconnect # 0 => <<[from |-> Connect, seq |-> txconnect]>> \in Seq(Message)
    BY <1>1 DEF Message
  <1>3. Outgoing \in Seq(Message)
    BY <1>1, <1>2, SeqClosed DEF Outgoing
  <1>4. ASSUME batch # <<>>
        PROVE  Head(batch) \in Message /\ Tail(batch) \in Seq(Message)
    BY <1>1, <1>4, SeqClosed
  <1>5. ASSUME batch # <<>>
        PROVE  [conn |-> conn, from |-> Head(batch).from,
                seq |-> Head(batch).seq] \in WireMessage
    BY <1>1, <1>4, <1>5 DEF Message, WireMessage
  <1>6. ASSUME NEW w \in WireMessage PROVE Append(wire, w) \in Seq(WireMessage)
    BY <1>1
  <1> QED
    BY <1>1, <1>3, <1>4, <1>5, <1>6, SeqClosed

\* Every variable keeps its type (TypeOK), however many threads there are and
\* however often the client reconnects.
THEOREM TypeCorrect == Spec => []TypeOK
  <1>1. Init => Flags
    BY Zenon DEF Init, Flags
  <1>2. Init => Data
    BY SessionAssumption DEF Init, Data, Loop, Shutdown
  \* No step puts anything but a Boolean into a flag.
  <1>3. Flags /\ [Next]_vars => Flags'
    <2> SUFFICES ASSUME Flags, [Next]_vars PROVE Flags'
      OBVIOUS
    <2> USE DEF Flags, sigVars, connVars, queueVars, threadVars
    <2>1. CASE SulFire
      BY <2>1, Zenon DEF SulFire, sul_connect_attempt, InService
    <2>2. ASSUME NEW ok \in BOOLEAN, ClientEstablished(ok)
          PROVE  Flags'
      BY <2>2, Zenon DEF ClientEstablished, connect_send, InService
    <2>3. CASE ClientConnectionError
      BY <2>3, Zenon DEF ClientConnectionError, main_send, txq_enqueue,
         cancel_service, closed, InService
    <2>4. CASE ClientClosed
      BY <2>4, Zenon DEF ClientClosed, closed, InService
    <2>5. CASE ClientReceive
      BY <2>5, Zenon DEF ClientReceive, main_send, txq_enqueue, cancel_service,
         InService
    <2>6. CASE WriteablePull
      BY <2>6, Zenon DEF WriteablePull, InService
    <2>7. CASE EventWaitCancelled
      BY <2>7, Zenon DEF EventWaitCancelled, InService
    <2>8. CASE BootLog
      BY <2>8, Zenon DEF BootLog, main_send, txq_enqueue, cancel_service
    <2>9. CASE WriteMessage
      BY <2>9, Zenon DEF WriteMessage
    <2>10. CASE WriteFail
      BY <2>10, Zenon DEF WriteFail
    <2>11. CASE WriteFailLog
      BY <2>11, Zenon DEF WriteFailLog, main_send, txq_enqueue, cancel_service
    <2>12. CASE WriteableDone
      BY <2>12, Zenon DEF WriteableDone
    <2>13. CASE BootFail
      BY <2>13, Zenon DEF BootFail, main_send, txq_enqueue, cancel_service
    <2>14. CASE Start
      BY <2>14, Zenon DEF Start, sul_connect_attempt
    <2>15. CASE LoopCheck
      BY <2>15, Zenon DEF LoopCheck
    <2>16. CASE LoopBody
      BY <2>16, Zenon DEF LoopBody, main_send, txq_enqueue, cancel_service
    <2>17. CASE ProtoStop
      BY <2>17, Zenon DEF ProtoStop
    <2>25. CASE plat_event_unsubscribe
      BY <2>25, Zenon DEF plat_event_unsubscribe
    <2>18. CASE JoinAndDestroy
      BY <2>18, Zenon DEF JoinAndDestroy
    <2>19. CASE SigWait
      BY <2>19, Zenon DEF SigWait
    <2>20. CASE SigGetContext
      BY <2>20, Zenon DEF SigGetContext
    <2>21. CASE SigCancel
      BY <2>21, Zenon DEF SigCancel
    <2>22. ASSUME NEW t \in Threads, ThreadEnqueue(t)
          PROVE  Flags'
      BY <2>22, Zenon DEF ThreadEnqueue, txq_enqueue
    <2>23. ASSUME NEW t \in Threads, ThreadWake(t)
          PROVE  Flags'
      BY <2>23, Zenon DEF ThreadWake, cancel_service
    <2>24. CASE UNCHANGED vars
      BY <2>24, Zenon DEF vars
    <2> QED
      BY <2>1, <2>2, <2>3, <2>4, <2>5, <2>6, <2>7, <2>8, <2>9, <2>10, <2>11,
         <2>12, <2>13, <2>14, <2>15, <2>16, <2>17, <2>18, <2>19, <2>20, <2>21,
         <2>22, <2>23, <2>24, <2>25
         DEF Next, Callbacks, WriteLoop, MainStep, SigStep, ThreadStep, Exited
  \* No step takes any other variable out of its type.
  <1>4. Data /\ [Next]_vars => Data'
    <2> SUFFICES ASSUME Data, [Next]_vars PROVE Data'
      OBVIOUS
    <2> USE DEF Data, Threads, Message, WireMessage, Loop, Shutdown, sigVars,
                connVars, queueVars, threadVars
    <2>1. CASE SulFire
      BY <2>1 DEF SulFire, sul_connect_attempt, InService
    <2>2. ASSUME NEW ok \in BOOLEAN, ClientEstablished(ok)
          PROVE  Data'
      BY <2>2 DEF ClientEstablished, connect_send, InService
    <2>3. CASE ClientConnectionError
      BY <2>3, SendData DEF ClientConnectionError, closed
    <2>4. CASE ClientClosed
      BY <2>4 DEF ClientClosed, closed, InService
    <2>5. CASE ClientReceive
      <3>1. /\ pc' = "cb"
            /\ UNCHANGED <<context, sigVars, connVars, writable, oneshots, tpc,
                           txconnect, batch, wire, lost>>
        BY <2>5 DEF ClientReceive
      <3>2. CASE main_send /\ UNCHANGED alive
        BY <3>1, <3>2, SendData
      <3>3. CASE \E s \in Scripts \ alive : /\ alive' = alive \cup {s}
                                            /\ UNCHANGED <<txq, sent, cancel>>
        BY <3>1, <3>3
      <3> QED
        BY <2>5, <3>2, <3>3 DEF ClientReceive
    <2>6. CASE WriteablePull
      BY <2>6, BatchData DEF WriteablePull
    <2>7. CASE EventWaitCancelled
      BY <2>7 DEF EventWaitCancelled, InService
    <2>8. CASE BootLog
      BY <2>8, SendData DEF BootLog
    <2>9. CASE WriteMessage
      BY <2>9, BatchData DEF WriteMessage
    <2>10. CASE WriteFail
      BY <2>10, BatchData DEF WriteFail
    <2>11. CASE WriteFailLog
      BY <2>11, SendData DEF WriteFailLog
    <2>12. CASE WriteableDone
      BY <2>12 DEF WriteableDone
    <2>13. CASE BootFail
      BY <2>13, SendData DEF BootFail
    <2>14. CASE Start
      BY <2>14 DEF Start, sul_connect_attempt
    <2>15. CASE LoopCheck
      BY <2>15 DEF LoopCheck
    <2>16. CASE LoopBody
      BY <2>16, SendData DEF LoopBody
    <2>17. CASE ProtoStop
      <3>1. /\ alive' = alive \ Pollers /\ txq' = <<>> /\ pc' = "join"
            /\ lost' = lost \cup {txq[i] : i \in 1..Len(txq)}
            /\ UNCHANGED <<context, sigVars, connVars, oneshots, tpc, sent,
                           txconnect, batch, wire>>
        BY <2>17 DEF ProtoStop
      <3>2. lost' \subseteq Message
        BY <3>1, BatchData
      <3>3. txq' \in Seq(Message) /\ alive' \subseteq Threads
        BY <3>1
      <3> QED
        BY <3>1, <3>2, <3>3
    <2>25. CASE plat_event_unsubscribe
      BY <2>25 DEF plat_event_unsubscribe
    <2>18. CASE JoinAndDestroy
      BY <2>18 DEF JoinAndDestroy
    <2>19. CASE SigWait
      BY <2>19 DEF SigWait
    <2>20. CASE SigGetContext
      BY <2>20 DEF SigGetContext
    <2>21. CASE SigCancel
      BY <2>21 DEF SigCancel
    <2>22. ASSUME NEW t \in Threads, ThreadEnqueue(t)
          PROVE  Data'
      <3>1. txq' \in Seq(Message) /\ sent' \in [Threads \cup {Main} -> Nat]
        BY <2>22, SendData DEF ThreadEnqueue
      <3>2. tpc' \in [Threads -> {"idle", "wake"}]
        BY <2>22 DEF ThreadEnqueue
      <3>3. UNCHANGED <<pc, context, sigVars, connVars, oneshots, alive,
                        txconnect, batch, wire, lost>>
        BY <2>22 DEF ThreadEnqueue
      <3> QED
        BY <3>1, <3>2, <3>3
    <2>23. ASSUME NEW t \in Threads, ThreadWake(t)
          PROVE  Data'
      BY <2>23 DEF ThreadWake, cancel_service
    <2>24. CASE UNCHANGED vars
      BY <2>24 DEF vars
    <2> QED
      BY <2>1, <2>2, <2>3, <2>4, <2>5, <2>6, <2>7, <2>8, <2>9, <2>10, <2>11,
         <2>12, <2>13, <2>14, <2>15, <2>16, <2>17, <2>18, <2>19, <2>20, <2>21,
         <2>22, <2>23, <2>24, <2>25
         DEF Next, Callbacks, WriteLoop, MainStep, SigStep, ThreadStep, Exited
  <1> QED
    BY <1>1, <1>2, <1>3, <1>4, TypeParts, PTL DEF Spec

-----------------------------------------------------------------------------
(***************************************************************************)
(* The control invariants.  Phases is inductive by itself; each of the     *)
(* others is inductive together with it.                                   *)
(***************************************************************************)

\* The control invariants hold in every reachable state.
THEOREM ControlCorrect == Spec => []ControlInv
  <1>1. Init => ControlInv
    BY DEF Init, ControlInv, Phases, NoLostWakeup, StopNotMissed,
           NoCallAfterDestroy, ReconnectArmed, Loop
  <1>2. Phases' => NoCallAfterDestroy'
    BY DEF Phases, NoCallAfterDestroy
  \* main() keeps its promises about the context and the joined threads.
  <1>3. Flags /\ Data /\ Phases /\ [Next]_vars => Phases'
    <2> SUFFICES ASSUME Flags, Data, Phases, [Next]_vars PROVE Phases'
      OBVIOUS
    <2> USE DEF Phases, Loop, Shutdown, sigVars, connVars, queueVars,
                threadVars, Flags, Data, Threads
    <2>1. CASE SulFire
      BY <2>1 DEF SulFire, sul_connect_attempt, InService
    <2>2. ASSUME NEW ok \in BOOLEAN, ClientEstablished(ok)
          PROVE  Phases'
      BY <2>2 DEF ClientEstablished, connect_send, InService
    <2>3. CASE ClientConnectionError
      BY <2>3 DEF ClientConnectionError, main_send, txq_enqueue, cancel_service,
         closed, InService
    <2>4. CASE ClientClosed
      BY <2>4 DEF ClientClosed, closed, InService
    <2>5. CASE ClientReceive
      BY <2>5 DEF ClientReceive, main_send, txq_enqueue, cancel_service,
         InService
    <2>6. CASE WriteablePull
      BY <2>6 DEF WriteablePull, InService
    <2>7. CASE EventWaitCancelled
      BY <2>7 DEF EventWaitCancelled, InService
    <2>8. CASE BootLog
      BY <2>8 DEF BootLog, main_send, txq_enqueue, cancel_service
    <2>9. CASE WriteMessage
      BY <2>9 DEF WriteMessage
    <2>10. CASE WriteFail
      BY <2>10 DEF WriteFail
    <2>11. CASE WriteFailLog
      BY <2>11 DEF WriteFailLog, main_send, txq_enqueue, cancel_service
    <2>12. CASE WriteableDone
      BY <2>12 DEF WriteableDone
    <2>13. CASE BootFail
      BY <2>13 DEF BootFail, main_send, txq_enqueue, cancel_service
    <2>14. CASE Start
      BY <2>14 DEF Start, sul_connect_attempt
    <2>15. CASE LoopCheck
      BY <2>15 DEF LoopCheck
    <2>16. CASE LoopBody
      BY <2>16 DEF LoopBody, main_send, txq_enqueue, cancel_service
    <2>17. CASE ProtoStop
      BY <2>17 DEF ProtoStop
    <2>25. CASE plat_event_unsubscribe
      BY <2>25 DEF plat_event_unsubscribe
    <2>18. CASE JoinAndDestroy
      BY <2>18 DEF JoinAndDestroy
    <2>19. CASE SigWait
      BY <2>19 DEF SigWait
    <2>20. CASE SigGetContext
      BY <2>20 DEF SigGetContext
    <2>21. CASE SigCancel
      BY <2>21 DEF SigCancel
    <2>22. ASSUME NEW t \in Threads, ThreadEnqueue(t)
          PROVE  Phases'
      BY <2>22 DEF ThreadEnqueue, txq_enqueue
    <2>23. ASSUME NEW t \in Threads, ThreadWake(t)
          PROVE  Phases'
      BY <2>23 DEF ThreadWake, cancel_service
    <2>24. CASE UNCHANGED vars
      BY <2>24 DEF vars
    <2> QED
      BY <2>1, <2>2, <2>3, <2>4, <2>5, <2>6, <2>7, <2>8, <2>9, <2>10, <2>11,
         <2>12, <2>13, <2>14, <2>15, <2>16, <2>17, <2>18, <2>19, <2>20, <2>21,
         <2>22, <2>23, <2>24, <2>25
         DEF Next, Callbacks, WriteLoop, MainStep, SigStep, ThreadStep, Exited
  \* No step leaves a message of an open connection without a wakeup.
  <1>4. Flags /\ Data /\ Phases /\ NoLostWakeup /\ [Next]_vars => NoLostWakeup'
    <2> SUFFICES ASSUME Flags, Data, Phases, NoLostWakeup, [Next]_vars PROVE NoLostWakeup'
      OBVIOUS
    <2> USE DEF Phases, Loop, Shutdown, sigVars, connVars, queueVars,
                threadVars, Flags, Data, Threads, NoLostWakeup
    <2>1. CASE SulFire
      BY <2>1 DEF SulFire, sul_connect_attempt, InService
    <2>2. ASSUME NEW ok \in BOOLEAN, ClientEstablished(ok)
          PROVE  NoLostWakeup'
      BY <2>2 DEF ClientEstablished, connect_send, InService
    <2>3. CASE ClientConnectionError
      BY <2>3 DEF ClientConnectionError, main_send, txq_enqueue, cancel_service,
         closed, InService
    <2>4. CASE ClientClosed
      BY <2>4 DEF ClientClosed, closed, InService
    <2>5. CASE ClientReceive
      BY <2>5 DEF ClientReceive, main_send, txq_enqueue, cancel_service,
         InService
    <2>6. CASE WriteablePull
      BY <2>6 DEF WriteablePull, InService
    <2>7. CASE EventWaitCancelled
      BY <2>7 DEF EventWaitCancelled, InService
    <2>8. CASE BootLog
      BY <2>8 DEF BootLog, main_send, txq_enqueue, cancel_service
    <2>9. CASE WriteMessage
      BY <2>9 DEF WriteMessage
    <2>10. CASE WriteFail
      BY <2>10 DEF WriteFail
    <2>11. CASE WriteFailLog
      BY <2>11 DEF WriteFailLog, main_send, txq_enqueue, cancel_service
    <2>12. CASE WriteableDone
      BY <2>12 DEF WriteableDone
    <2>13. CASE BootFail
      BY <2>13 DEF BootFail, main_send, txq_enqueue, cancel_service
    <2>14. CASE Start
      BY <2>14 DEF Start, sul_connect_attempt
    <2>15. CASE LoopCheck
      BY <2>15 DEF LoopCheck
    <2>16. CASE LoopBody
      BY <2>16 DEF LoopBody, main_send, txq_enqueue, cancel_service
    <2>17. CASE ProtoStop
      BY <2>17 DEF ProtoStop
    <2>25. CASE plat_event_unsubscribe
      BY <2>25 DEF plat_event_unsubscribe
    <2>18. CASE JoinAndDestroy
      BY <2>18 DEF JoinAndDestroy
    <2>19. CASE SigWait
      BY <2>19 DEF SigWait
    <2>20. CASE SigGetContext
      BY <2>20 DEF SigGetContext
    <2>21. CASE SigCancel
      BY <2>21 DEF SigCancel
    <2>22. ASSUME NEW t \in Threads, ThreadEnqueue(t)
          PROVE  NoLostWakeup'
      BY <2>22 DEF ThreadEnqueue, txq_enqueue
    <2>23. ASSUME NEW t \in Threads, ThreadWake(t)
          PROVE  NoLostWakeup'
      BY <2>23 DEF ThreadWake, cancel_service
    <2>24. CASE UNCHANGED vars
      BY <2>24 DEF vars
    <2> QED
      BY <2>1, <2>2, <2>3, <2>4, <2>5, <2>6, <2>7, <2>8, <2>9, <2>10, <2>11,
         <2>12, <2>13, <2>14, <2>15, <2>16, <2>17, <2>18, <2>19, <2>20, <2>21,
         <2>22, <2>23, <2>24, <2>25
         DEF Next, Callbacks, WriteLoop, MainStep, SigStep, ThreadStep, Exited
  \* No step loses the wakeup that ends the main loop.
  <1>5. Flags /\ Data /\ Phases /\ StopNotMissed /\ [Next]_vars => StopNotMissed'
    <2> SUFFICES ASSUME Flags, Data, Phases, StopNotMissed, [Next]_vars PROVE StopNotMissed'
      OBVIOUS
    <2> USE DEF Phases, Loop, Shutdown, sigVars, connVars, queueVars,
                threadVars, Flags, Data, Threads, StopNotMissed
    <2>1. CASE SulFire
      BY <2>1 DEF SulFire, sul_connect_attempt, InService
    <2>2. ASSUME NEW ok \in BOOLEAN, ClientEstablished(ok)
          PROVE  StopNotMissed'
      BY <2>2 DEF ClientEstablished, connect_send, InService
    <2>3. CASE ClientConnectionError
      BY <2>3 DEF ClientConnectionError, main_send, txq_enqueue, cancel_service,
         closed, InService
    <2>4. CASE ClientClosed
      BY <2>4 DEF ClientClosed, closed, InService
    <2>5. CASE ClientReceive
      BY <2>5 DEF ClientReceive, main_send, txq_enqueue, cancel_service,
         InService
    <2>6. CASE WriteablePull
      BY <2>6 DEF WriteablePull, InService
    <2>7. CASE EventWaitCancelled
      BY <2>7 DEF EventWaitCancelled, InService
    <2>8. CASE BootLog
      BY <2>8 DEF BootLog, main_send, txq_enqueue, cancel_service
    <2>9. CASE WriteMessage
      BY <2>9 DEF WriteMessage
    <2>10. CASE WriteFail
      BY <2>10 DEF WriteFail
    <2>11. CASE WriteFailLog
      BY <2>11 DEF WriteFailLog, main_send, txq_enqueue, cancel_service
    <2>12. CASE WriteableDone
      BY <2>12 DEF WriteableDone
    <2>13. CASE BootFail
      BY <2>13 DEF BootFail, main_send, txq_enqueue, cancel_service
    <2>14. CASE Start
      BY <2>14 DEF Start, sul_connect_attempt
    <2>15. CASE LoopCheck
      BY <2>15 DEF LoopCheck
    <2>16. CASE LoopBody
      BY <2>16 DEF LoopBody, main_send, txq_enqueue, cancel_service
    <2>17. CASE ProtoStop
      BY <2>17 DEF ProtoStop
    <2>25. CASE plat_event_unsubscribe
      BY <2>25 DEF plat_event_unsubscribe
    <2>18. CASE JoinAndDestroy
      BY <2>18 DEF JoinAndDestroy
    <2>19. CASE SigWait
      BY <2>19 DEF SigWait
    <2>20. CASE SigGetContext
      BY <2>20 DEF SigGetContext
    <2>21. CASE SigCancel
      BY <2>21 DEF SigCancel
    <2>22. ASSUME NEW t \in Threads, ThreadEnqueue(t)
          PROVE  StopNotMissed'
      BY <2>22 DEF ThreadEnqueue, txq_enqueue
    <2>23. ASSUME NEW t \in Threads, ThreadWake(t)
          PROVE  StopNotMissed'
      BY <2>23 DEF ThreadWake, cancel_service
    <2>24. CASE UNCHANGED vars
      BY <2>24 DEF vars
    <2> QED
      BY <2>1, <2>2, <2>3, <2>4, <2>5, <2>6, <2>7, <2>8, <2>9, <2>10, <2>11,
         <2>12, <2>13, <2>14, <2>15, <2>16, <2>17, <2>18, <2>19, <2>20, <2>21,
         <2>22, <2>23, <2>24, <2>25
         DEF Next, Callbacks, WriteLoop, MainStep, SigStep, ThreadStep, Exited
  \* No step leaves the client without a connection and without a timer.
  <1>6. Flags /\ Data /\ Phases /\ ReconnectArmed /\ [Next]_vars => ReconnectArmed'
    <2> SUFFICES ASSUME Flags, Data, Phases, ReconnectArmed, [Next]_vars PROVE ReconnectArmed'
      OBVIOUS
    <2> USE DEF Phases, Loop, Shutdown, sigVars, connVars, queueVars,
                threadVars, Flags, Data, Threads, ReconnectArmed
    <2>1. CASE SulFire
      BY <2>1 DEF SulFire, sul_connect_attempt, InService
    <2>2. ASSUME NEW ok \in BOOLEAN, ClientEstablished(ok)
          PROVE  ReconnectArmed'
      BY <2>2 DEF ClientEstablished, connect_send, InService
    <2>3. CASE ClientConnectionError
      BY <2>3 DEF ClientConnectionError, main_send, txq_enqueue, cancel_service,
         closed, InService
    <2>4. CASE ClientClosed
      BY <2>4 DEF ClientClosed, closed, InService
    <2>5. CASE ClientReceive
      BY <2>5 DEF ClientReceive, main_send, txq_enqueue, cancel_service,
         InService
    <2>6. CASE WriteablePull
      BY <2>6 DEF WriteablePull, InService
    <2>7. CASE EventWaitCancelled
      BY <2>7 DEF EventWaitCancelled, InService
    <2>8. CASE BootLog
      BY <2>8 DEF BootLog, main_send, txq_enqueue, cancel_service
    <2>9. CASE WriteMessage
      BY <2>9 DEF WriteMessage
    <2>10. CASE WriteFail
      BY <2>10 DEF WriteFail
    <2>11. CASE WriteFailLog
      BY <2>11 DEF WriteFailLog, main_send, txq_enqueue, cancel_service
    <2>12. CASE WriteableDone
      BY <2>12 DEF WriteableDone
    <2>13. CASE BootFail
      BY <2>13 DEF BootFail, main_send, txq_enqueue, cancel_service
    <2>14. CASE Start
      BY <2>14 DEF Start, sul_connect_attempt
    <2>15. CASE LoopCheck
      BY <2>15 DEF LoopCheck
    <2>16. CASE LoopBody
      BY <2>16 DEF LoopBody, main_send, txq_enqueue, cancel_service
    <2>17. CASE ProtoStop
      BY <2>17 DEF ProtoStop
    <2>25. CASE plat_event_unsubscribe
      BY <2>25 DEF plat_event_unsubscribe
    <2>18. CASE JoinAndDestroy
      BY <2>18 DEF JoinAndDestroy
    <2>19. CASE SigWait
      BY <2>19 DEF SigWait
    <2>20. CASE SigGetContext
      BY <2>20 DEF SigGetContext
    <2>21. CASE SigCancel
      BY <2>21 DEF SigCancel
    <2>22. ASSUME NEW t \in Threads, ThreadEnqueue(t)
          PROVE  ReconnectArmed'
      BY <2>22 DEF ThreadEnqueue, txq_enqueue
    <2>23. ASSUME NEW t \in Threads, ThreadWake(t)
          PROVE  ReconnectArmed'
      BY <2>23 DEF ThreadWake, cancel_service
    <2>24. CASE UNCHANGED vars
      BY <2>24 DEF vars
    <2> QED
      BY <2>1, <2>2, <2>3, <2>4, <2>5, <2>6, <2>7, <2>8, <2>9, <2>10, <2>11,
         <2>12, <2>13, <2>14, <2>15, <2>16, <2>17, <2>18, <2>19, <2>20, <2>21,
         <2>22, <2>23, <2>24, <2>25
         DEF Next, Callbacks, WriteLoop, MainStep, SigStep, ThreadStep, Exited
  <1>7. TypeOK /\ ControlInv /\ [Next]_vars => ControlInv'
    BY <1>2, <1>3, <1>4, <1>5, <1>6, TypeParts DEF ControlInv
  <1> QED
    BY <1>1, <1>7, TypeCorrect, PTL DEF Spec

\* A message queued on an open connection always has a wakeup under way:
\* txq_msg_proto_cb() and EVENT_WAIT_CANCELLED lose none.
THEOREM WakeupNeverLost == Spec => []NoLostWakeup
  BY ControlCorrect, PTL DEF ControlInv

\* A SIGQUIT taken at any moment ends the wait of the main loop: the order of
\* sigthread_cb() and of main() around sigthread_mtx leaves no gap.
THEOREM StopNeverMissed == Spec => []StopNotMissed
  BY ControlCorrect, PTL DEF ControlInv

\* lws_context_destroy() comes after the last lws_cancel_service() of the
\* signal thread and of every thread that proto_stop() joins.
THEOREM DestroyIsLast == Spec => []NoCallAfterDestroy
  BY ControlCorrect, PTL DEF ControlInv

\* callback_broker() never leaves the client disconnected without a timer.
THEOREM ReconnectAlwaysArmed == Spec => []ReconnectArmed
  BY ControlCorrect, PTL DEF ControlInv

-----------------------------------------------------------------------------
(***************************************************************************)
(* The order of messages.                                                  *)
(***************************************************************************)

\* The fields of the messages on their way, without the sequences' types.
Fields ==
  /\ \A i \in 1..Len(wire) : /\ wire[i].from \in Threads \cup {Main, Connect}
                             /\ wire[i].seq \in Nat
  /\ \A i \in 1..Len(batch) : /\ batch[i].from \in Threads \cup {Main, Connect}
                              /\ batch[i].seq \in Nat
  /\ \A i \in 1..Len(txq) : /\ txq[i].from \in Threads \cup {Main, Connect}
                            /\ txq[i].seq \in Nat
  /\ Len(wire) \in Nat /\ Len(batch) \in Nat /\ Len(txq) \in Nat
  /\ conn \in Nat /\ txconnect \in Nat
  /\ \A t \in Threads \cup {Main} : sent[t] \in Nat

\* They follow from the types.
LEMMA FieldsOK == Data => Fields
  <1> SUFFICES ASSUME Data PROVE Fields
    OBVIOUS
  <1>1. /\ wire \in Seq(WireMessage) /\ batch \in Seq(Message)
        /\ txq \in Seq(Message) /\ conn \in Nat /\ txconnect \in Nat
        /\ sent \in [Threads \cup {Main} -> Nat]
    BY DEF Data
  <1>2. /\ \A i \in 1..Len(wire) : wire[i] \in WireMessage
        /\ \A i \in 1..Len(batch) : batch[i] \in Message
        /\ \A i \in 1..Len(txq) : txq[i] \in Message
        /\ Len(wire) \in Nat /\ Len(batch) \in Nat /\ Len(txq) \in Nat
    BY <1>1
  <1> QED
    BY <1>1, <1>2 DEF Fields, WireMessage, Message

\* A new message is younger than all others of its sender.
LEMMA OrderEnqueue ==
  ASSUME Data, OrderInv, NEW t \in Threads \cup {Main}, txq_enqueue(t),
         UNCHANGED <<wire, batch, conn, txconnect>>
  PROVE  OrderInv'
  <1>1. Fields /\ t # Connect
    BY FieldsOK, SessionAssumption
  <1>2. /\ Len(txq') = Len(txq) + 1
        /\ \A i \in 1..Len(txq) : txq'[i] = txq[i]
        /\ txq'[Len(txq) + 1] = Msg(t)
    <2>1. txq \in Seq(Message) /\ Msg(t) \in Message
      BY DEF Data, Msg, Message
    <2> QED
      BY <2>1 DEF txq_enqueue
  <1>3. \A i \in 1..Len(txq') :
          \/ i \in 1..Len(txq) /\ txq'[i] = txq[i]
          \/ i = Len(txq) + 1 /\ txq'[i].from = t /\ txq'[i].seq = sent[t] + 1
    BY <1>1, <1>2 DEF Fields, Msg
  <1>4. \A u \in Threads \cup {Main} :
          sent'[u] = IF u = t THEN sent[t] + 1 ELSE sent[u]
    BY DEF txq_enqueue, Data
  <1>5. /\ \A i \in 1..Len(wire) : wire[i].from = t => wire[i].seq <= sent[t]
        /\ \A i \in 1..Len(batch) : batch[i].from = t => batch[i].seq <= sent[t]
        /\ \A i \in 1..Len(txq) : txq[i].from = t => txq[i].seq <= sent[t]
    BY <1>1 DEF OrderInv, Counted
  <1>6. Growing(txq)'
    <2> SUFFICES ASSUME NEW i \in 1..Len(txq'), NEW j \in 1..Len(txq'),
                        i < j, txq'[i].from = txq'[j].from
                 PROVE  txq'[i].seq < txq'[j].seq
      BY DEF Growing
    <2>1. i \in 1..Len(txq) /\ txq'[i] = txq[i]
      BY <1>1, <1>2 DEF Fields
    <2>2. CASE j \in 1..Len(txq)
      <3>1. Growing(txq) /\ txq'[j] = txq[j]
        BY <1>2, <2>2 DEF OrderInv
      <3> QED
        BY <2>1, <2>2, <3>1 DEF Growing
    <2>3. CASE j = Len(txq) + 1
      <3>1. txq'[j].from = t /\ txq'[j].seq = sent[t] + 1
        BY <1>1, <1>3, <2>3 DEF Fields
      <3>2. txq[i].from = t /\ txq[i].seq \in Nat /\ sent[t] \in Nat
        BY <1>1, <2>1, <3>1 DEF Fields
      <3>3. txq[i].seq <= sent[t]
        BY <1>5, <2>1, <3>2
      <3> QED
        BY <2>1, <3>1, <3>2, <3>3
    <2> QED
      BY <1>3, <2>2, <2>3
  <1>7. Before(wire, txq)' /\ Before(batch, txq)'
    <2>1. ASSUME NEW i \in 1..Len(wire), NEW j \in 1..Len(txq'),
                 wire[i].from = txq'[j].from
          PROVE  wire[i].seq < txq'[j].seq
      <3>1. CASE j \in 1..Len(txq) /\ txq'[j] = txq[j]
        <4>1. Before(wire, txq)
          BY DEF OrderInv
        <4> QED
          BY <2>1, <3>1, <4>1 DEF Before
      <3>2. CASE txq'[j].from = t /\ txq'[j].seq = sent[t] + 1
        <4>1. wire[i].seq \in Nat /\ sent[t] \in Nat
          BY <1>1 DEF Fields
        <4>2. wire[i].seq <= sent[t]
          BY <1>5, <2>1, <3>2
        <4> QED
          BY <3>2, <4>1, <4>2
      <3> QED
        BY <1>3, <3>1, <3>2
    <2>2. ASSUME NEW i \in 1..Len(batch), NEW j \in 1..Len(txq'),
                 batch[i].from = txq'[j].from
          PROVE  batch[i].seq < txq'[j].seq
      <3>1. CASE j \in 1..Len(txq) /\ txq'[j] = txq[j]
        <4>1. Before(batch, txq)
          BY DEF OrderInv
        <4> QED
          BY <2>2, <3>1, <4>1 DEF Before
      <3>2. CASE txq'[j].from = t /\ txq'[j].seq = sent[t] + 1
        <4>1. batch[i].seq \in Nat /\ sent[t] \in Nat
          BY <1>1 DEF Fields
        <4>2. batch[i].seq <= sent[t]
          BY <1>5, <2>2, <3>2
        <4> QED
          BY <3>2, <4>1, <4>2
      <3> QED
        BY <1>3, <3>1, <3>2
    <2> QED
      BY <2>1, <2>2 DEF Before
  <1>8. \A u \in Threads \cup {Main} :
          sent[u] \in Nat /\ sent'[u] \in Nat /\ sent[u] <= sent'[u]
    BY <1>1, <1>4 DEF Fields
  <1>9. Counted(wire)' /\ Counted(batch)'
    <2>1. ASSUME NEW i \in 1..Len(wire), wire[i].from # Connect
          PROVE  wire[i].seq <= sent'[wire[i].from]
      <3>1. Counted(wire)
        BY DEF OrderInv
      <3>2. wire[i].seq <= sent[wire[i].from]
        BY <2>1, <3>1 DEF Counted
      <3>3. wire[i].from \in Threads \cup {Main} /\ wire[i].seq \in Nat
        BY <1>1, <2>1 DEF Fields
      <3> QED
        BY <1>8, <3>2, <3>3
    <2>2. ASSUME NEW i \in 1..Len(batch), batch[i].from # Connect
          PROVE  batch[i].seq <= sent'[batch[i].from]
      <3>1. Counted(batch)
        BY DEF OrderInv
      <3>2. batch[i].seq <= sent[batch[i].from]
        BY <2>2, <3>1 DEF Counted
      <3>3. batch[i].from \in Threads \cup {Main} /\ batch[i].seq \in Nat
        BY <1>1, <2>2 DEF Fields
      <3> QED
        BY <1>8, <3>2, <3>3
    <2>3. /\ \A i \in 1..Len(wire) : wire[i].from = Connect =>
               wire[i].seq <= conn /\ (txconnect # 0 => wire[i].seq < txconnect)
          /\ \A i \in 1..Len(batch) : batch[i].from = Connect =>
               batch[i].seq <= conn /\ (txconnect # 0 => batch[i].seq < txconnect)
      BY DEF OrderInv, Counted
    <2> QED
      BY <2>1, <2>2, <2>3 DEF Counted
  <1>10. \A i \in 1..Len(txq') : txq'[i].from # Connect
    BY <1>1, <1>3 DEF OrderInv
  <1>11. Counted(txq)'
    <2>1. ASSUME NEW i \in 1..Len(txq')
          PROVE  txq'[i].seq <= sent'[txq'[i].from]
      <3>1. CASE i \in 1..Len(txq) /\ txq'[i] = txq[i]
        <4>1. Counted(txq) /\ txq[i].from # Connect
          BY <3>1 DEF OrderInv
        <4>2. txq[i].seq <= sent[txq[i].from]
          BY <3>1, <4>1 DEF Counted
        <4>3. txq[i].from \in Threads \cup {Main} /\ txq[i].seq \in Nat
          BY <1>1, <3>1, <4>1 DEF Fields
        <4> QED
          BY <1>8, <3>1, <4>2, <4>3
      <3>2. CASE txq'[i].from = t /\ txq'[i].seq = sent[t] + 1
        <4>1. sent'[t] = sent[t] + 1 /\ sent'[t] \in Nat
          BY <1>4, <1>8
        <4> QED
          BY <3>2, <4>1
      <3> QED
        BY <1>3, <3>1, <3>2
    <2> QED
      BY <1>10, <2>1 DEF Counted
  <1>12. Growing(wire)' /\ Growing(batch)'
    BY DEF OrderInv, Growing
  <1>13. Before(wire, batch)'
    BY DEF OrderInv, Before
  <1> QED
    BY <1>6, <1>7, <1>9, <1>10, <1>11, <1>12, <1>13 DEF OrderInv

\* Leaving the head of the batch out keeps the order.
LEMMA OrderTail ==
  ASSUME Data, OrderInv, batch # <<>>, batch' = Tail(batch),
         UNCHANGED <<txq, txconnect, conn, sent>>
  PROVE  /\ Len(batch) \in Nat \ {0}
         /\ Len(batch') = Len(batch) - 1
         /\ \A i \in 1..Len(batch') : i + 1 \in 1..Len(batch) /\ batch'[i] = batch[i + 1]
         /\ Growing(batch)' /\ Before(batch, txq)' /\ Counted(batch)'
         /\ Growing(txq)' /\ Counted(txq)'
  <1>1. batch \in Seq(Message)
    BY DEF Data
  <1>2. /\ Len(batch) \in Nat \ {0}
        /\ Len(batch') = Len(batch) - 1
        /\ \A i \in 1..Len(batch') : i + 1 \in 1..Len(batch) /\ batch'[i] = batch[i + 1]
    BY <1>1
  <1>3. Growing(batch)'
    <2> SUFFICES ASSUME NEW i \in 1..Len(batch'), NEW j \in 1..Len(batch'),
                        i < j, batch'[i].from = batch'[j].from
                 PROVE  batch'[i].seq < batch'[j].seq
      BY DEF Growing
    <2>1. /\ i + 1 \in 1..Len(batch) /\ batch'[i] = batch[i + 1]
          /\ j + 1 \in 1..Len(batch) /\ batch'[j] = batch[j + 1]
          /\ i + 1 < j + 1
      BY <1>2
    <2>2. Growing(batch)
      BY DEF OrderInv
    <2> QED
      BY <2>1, <2>2 DEF Growing
  <1>4. Before(batch, txq)'
    <2> SUFFICES ASSUME NEW i \in 1..Len(batch'), NEW j \in 1..Len(txq),
                        batch'[i].from = txq[j].from
                 PROVE  batch'[i].seq < txq[j].seq
      BY DEF Before
    <2>1. i + 1 \in 1..Len(batch) /\ batch'[i] = batch[i + 1]
      BY <1>2
    <2>2. Before(batch, txq)
      BY DEF OrderInv
    <2> QED
      BY <2>1, <2>2 DEF Before
  <1>5. Counted(batch)'
    <2>1. ASSUME NEW i \in 1..Len(batch')
          PROVE  IF batch'[i].from = Connect
                 THEN /\ batch'[i].seq <= conn
                      /\ txconnect # 0 => batch'[i].seq < txconnect
                 ELSE batch'[i].seq <= sent[batch'[i].from]
      <3>1. i + 1 \in 1..Len(batch) /\ batch'[i] = batch[i + 1]
        BY <1>2
      <3>2. Counted(batch)
        BY DEF OrderInv
      <3> QED
        BY <3>1, <3>2 DEF Counted
    <2> QED
      BY <2>1 DEF Counted
  <1>6. Growing(txq)'
    BY DEF OrderInv, Growing
  <1>7. Counted(txq)'
    BY DEF OrderInv, Counted
  <1> QED
    BY <1>2, <1>3, <1>4, <1>5, <1>6, <1>7

\* Steps that send, write and lose nothing, and the final drain.
LEMMA OrderSame ==
  ASSUME OrderInv, UNCHANGED <<wire, batch, conn, txconnect, sent>>,
         txq' = txq \/ txq' = <<>>
  PROVE  OrderInv'
  <1>1. Growing(wire)' /\ Growing(batch)'
    BY DEF OrderInv, Growing
  <1>2. Before(wire, batch)'
    BY DEF OrderInv, Before
  <1>3. Counted(wire)' /\ Counted(batch)'
    BY DEF OrderInv, Counted
  <1>4. CASE txq' = txq
    <2>1. Growing(txq)'
      BY <1>4 DEF OrderInv, Growing
    <2>2. Before(wire, txq)' /\ Before(batch, txq)'
      BY <1>4 DEF OrderInv, Before
    <2>3. Counted(txq)'
      BY <1>4 DEF OrderInv, Counted
    <2> QED
      BY <1>1, <1>2, <1>3, <1>4, <2>1, <2>2, <2>3 DEF OrderInv
  <1>5. CASE txq' = <<>>
    <2>1. Len(txq') = 0
      BY <1>5
    <2>2. Growing(txq)' /\ Before(wire, txq)' /\ Before(batch, txq)' /\ Counted(txq)'
      BY <2>1 DEF Growing, Before, Counted
    <2> QED
      BY <1>1, <1>2, <1>3, <2>1, <2>2 DEF OrderInv
  <1> QED
    BY <1>4, <1>5

\* Messages leave in order through wire, batch and txq: every step keeps it.
THEOREM OrderCorrect == Spec => []OrderInv
  <1>1. Init => OrderInv
    <2> SUFFICES ASSUME Init PROVE OrderInv
      OBVIOUS
    <2>1. /\ wire = <<>> /\ batch = <<>> /\ txq = <<>>
          /\ txconnect = 0 /\ conn = 0 /\ 1..0 = {}
      BY DEF Init
    <2> QED
      BY <2>1 DEF OrderInv, Growing, Before, Counted
  <1>2. Data /\ Phases /\ OrderInv /\ [Next]_vars => OrderInv'
    <2> SUFFICES ASSUME Data, Phases, OrderInv, [Next]_vars PROVE OrderInv'
      OBVIOUS
    <2> USE DEF sigVars, connVars, queueVars, threadVars
    <2>0. ASSUME main_send, UNCHANGED <<wire, batch, conn, txconnect>>
          PROVE  OrderInv'
      BY <2>0, OrderEnqueue, OrderSame DEF main_send
    <2>1. CASE SulFire
      BY <2>1, OrderSame DEF SulFire
    <2>2. ASSUME NEW ok \in BOOLEAN, ClientEstablished(ok)
          PROVE  OrderInv'
      <3> SUFFICES ASSUME connect_send(ok, conn + 1), conn' = conn + 1,
                          UNCHANGED <<wire, batch, txq, sent>>
                   PROVE  OrderInv'
        BY <2>2 DEF ClientEstablished
      <3>1. Fields
        BY FieldsOK
      <3>2. txconnect' = txconnect \/ txconnect' = conn + 1
        BY DEF connect_send
      <3>3. conn \in Nat /\ txconnect \in Nat
        BY <3>1 DEF Fields
      <3>4. Counted(wire)'
        <4>1. ASSUME NEW i \in 1..Len(wire), wire[i].from = Connect
              PROVE  wire[i].seq <= conn' /\ (txconnect' # 0 => wire[i].seq < txconnect')
          <5>1. /\ wire[i].seq <= conn /\ (txconnect # 0 => wire[i].seq < txconnect)
                /\ wire[i].seq \in Nat
            BY <3>1, <4>1 DEF OrderInv, Counted, Fields
          <5> QED
            BY <3>2, <3>3, <5>1
        <4>2. ASSUME NEW i \in 1..Len(wire), wire[i].from # Connect
              PROVE  wire[i].seq <= sent[wire[i].from]
          BY <4>2 DEF OrderInv, Counted
        <4> QED
          BY <4>1, <4>2 DEF Counted
      <3>5. Counted(batch)'
        <4>1. ASSUME NEW i \in 1..Len(batch), batch[i].from = Connect
              PROVE  batch[i].seq <= conn' /\ (txconnect' # 0 => batch[i].seq < txconnect')
          <5>1. /\ batch[i].seq <= conn /\ (txconnect # 0 => batch[i].seq < txconnect)
                /\ batch[i].seq \in Nat
            BY <3>1, <4>1 DEF OrderInv, Counted, Fields
          <5> QED
            BY <3>2, <3>3, <5>1
        <4>2. ASSUME NEW i \in 1..Len(batch), batch[i].from # Connect
              PROVE  batch[i].seq <= sent[batch[i].from]
          BY <4>2 DEF OrderInv, Counted
        <4> QED
          BY <4>1, <4>2 DEF Counted
      <3>6. Counted(txq)'
        BY DEF OrderInv, Counted
      <3>7. Growing(wire)' /\ Growing(batch)' /\ Growing(txq)'
        BY DEF OrderInv, Growing
      <3>8. Before(wire, batch)' /\ Before(wire, txq)' /\ Before(batch, txq)'
        BY DEF OrderInv, Before
      <3>9. txconnect' <= conn' /\ \A i \in 1..Len(txq') : txq'[i].from # Connect
        BY <3>2, <3>3 DEF OrderInv
      <3> QED
        BY <3>4, <3>5, <3>6, <3>7, <3>8, <3>9 DEF OrderInv
    <2>3. CASE ClientConnectionError
      BY <2>0, <2>3 DEF ClientConnectionError
    <2>4. CASE ClientClosed
      BY <2>4, OrderSame DEF ClientClosed
    <2>5. CASE ClientReceive
      BY <2>0, <2>5, OrderSame DEF ClientReceive
    <2>6. CASE WriteablePull
      <3> SUFFICES ASSUME batch = <<>>, batch' = Outgoing, txq' = <<>>,
                          txconnect' = 0, UNCHANGED <<wire, conn, sent>>
                   PROVE  OrderInv'
        BY <2>6 DEF WriteablePull, InService, Phases
      <3> DEFINE d == IF txconnect # 0 THEN 1 ELSE 0
      <3>1. Fields /\ Len(txq') = 0
        BY FieldsOK
      <3>2. /\ txq \in Seq(Message)
            /\ txconnect # 0 => [from |-> Connect, seq |-> txconnect] \in Message
        BY DEF Data, Message
      <3>3. Len(batch') = Len(txq) + d
        BY <3>2 DEF Outgoing
      <3>4. \A i \in 1..Len(batch') :
              \/ /\ txconnect # 0 /\ i = 1
                 /\ batch'[i].from = Connect /\ batch'[i].seq = txconnect
              \/ i - d \in 1..Len(txq) /\ batch'[i] = txq[i - d]
        <4>1. CASE txconnect = 0
          <5>1. batch' = txq /\ d = 0
            BY <4>1 DEF Outgoing
          <5>2. \A i \in 1..Len(txq) : i - 0 = i
            OBVIOUS
          <5> HIDE DEF d
          <5> QED
            BY <5>1, <5>2
        <4>2. CASE txconnect # 0
          <5> DEFINE m == [from |-> Connect, seq |-> txconnect]
          <5>1. batch' = <<m>> \o txq /\ d = 1
            BY <4>2 DEF Outgoing
          <5>2. m \in Message /\ m.from = Connect /\ m.seq = txconnect
            BY <3>2, <4>2
          <5> HIDE DEF d, m
          <5>3. <<m>> \in Seq(Message) /\ Len(<<m>>) = 1 /\ <<m>>[1] = m
            BY <5>2
          <5>4. ASSUME NEW i \in 1..Len(batch')
                PROVE  \/ i = 1 /\ batch'[i] = m
                       \/ i - 1 \in 1..Len(txq) /\ batch'[i] = txq[i - 1]
            <6>1. Len(batch') = Len(txq) + 1 /\ Len(txq) \in Nat
              BY <3>2, <3>3, <5>1
            <6>2. i = 1 \/ i - 1 \in 1..Len(txq)
              BY <6>1
            <6> QED
              BY <3>2, <5>1, <5>3, <6>1, <6>2
          <5> QED
            BY <4>2, <5>1, <5>2, <5>4
        <4> QED
          BY <4>1, <4>2
      <3>5. d \in {0, 1}
        OBVIOUS
      <3> HIDE DEF d
      <3>6. Growing(batch)'
        <4> SUFFICES ASSUME NEW i \in 1..Len(batch'), NEW j \in 1..Len(batch'),
                            i < j, batch'[i].from = batch'[j].from
                     PROVE  batch'[i].seq < batch'[j].seq
          BY DEF Growing
        <4>0. i \in Nat /\ j \in Nat /\ j # 1
          <5>1. Len(batch') \in Nat
            BY <3>1, <3>3, <3>5 DEF Fields
          <5> QED
            BY <5>1
        <4>1. j - d \in 1..Len(txq) /\ batch'[j] = txq[j - d]
          BY <3>4, <4>0
        <4>2. batch'[i].from # Connect
          BY <4>1 DEF OrderInv
        <4>3. i - d \in 1..Len(txq) /\ batch'[i] = txq[i - d]
          BY <3>4, <4>2
        <4>4. Growing(txq)
          BY DEF OrderInv
        <4>5. i - d < j - d
          BY <3>5, <4>0
        <4> QED
          BY <4>1, <4>3, <4>4, <4>5 DEF Growing
      <3>7. Before(wire, batch)'
        <4> SUFFICES ASSUME NEW i \in 1..Len(wire), NEW j \in 1..Len(batch'),
                            wire[i].from = batch'[j].from
                     PROVE  wire[i].seq < batch'[j].seq
          BY DEF Before
        <4>1. CASE txconnect # 0 /\ batch'[j].from = Connect /\ batch'[j].seq = txconnect
          BY <4>1 DEF OrderInv, Counted
        <4>2. CASE j - d \in 1..Len(txq) /\ batch'[j] = txq[j - d]
          <5>1. Before(wire, txq)
            BY DEF OrderInv
          <5> QED
            BY <4>2, <5>1 DEF Before
        <4> QED
          BY <3>4, <4>1, <4>2
      <3>8. Counted(batch)'
        <4>1. ASSUME NEW j \in 1..Len(batch')
              PROVE  IF batch'[j].from = Connect
                     THEN batch'[j].seq <= conn
                     ELSE batch'[j].seq <= sent[batch'[j].from]
          <5>1. CASE txconnect # 0 /\ batch'[j].from = Connect /\ batch'[j].seq = txconnect
            BY <5>1 DEF OrderInv
          <5>2. CASE j - d \in 1..Len(txq) /\ batch'[j] = txq[j - d]
            <6>1. Counted(txq)
              BY DEF OrderInv
            <6> QED
              BY <5>2, <6>1 DEF Counted
          <5> QED
            BY <3>4, <5>1, <5>2
        <4> QED
          BY <4>1 DEF Counted
      <3>9. Growing(wire)' /\ Counted(wire)'
        <4>1. Growing(wire)'
          BY DEF OrderInv, Growing
        <4>2. ASSUME NEW i \in 1..Len(wire)
              PROVE  IF wire[i].from = Connect THEN wire[i].seq <= conn
                     ELSE wire[i].seq <= sent[wire[i].from]
          BY DEF OrderInv, Counted
        <4> QED
          BY <4>1, <4>2 DEF Counted
      <3>10. Growing(txq)' /\ Before(wire, txq)' /\ Before(batch, txq)' /\ Counted(txq)'
        <4>1. 1..Len(txq') = {}
          BY <3>1
        <4> QED
          BY <4>1 DEF Growing, Before, Counted
      <3> QED
        <4>1. txconnect' <= conn'
          BY <3>1 DEF Fields
        <4>2. \A i \in 1..Len(txq') : txq'[i].from # Connect
          BY <3>1
        <4> QED
          BY <3>6, <3>7, <3>8, <3>9, <3>10, <4>1, <4>2 DEF OrderInv
    <2>7. CASE EventWaitCancelled
      BY <2>7, OrderSame DEF EventWaitCancelled
    <2>8. CASE BootLog
      BY <2>0, <2>8 DEF BootLog
    <2>9. CASE WriteMessage
      <3>1. /\ batch # <<>> /\ batch' = Tail(batch)
            /\ UNCHANGED <<txq, txconnect, conn, sent>>
            /\ wire' = Append(wire, [conn |-> conn, from |-> Head(batch).from,
                                     seq |-> Head(batch).seq])
        BY <2>9 DEF WriteMessage, connVars
      <3>2. Fields
        BY FieldsOK
      <3>3. /\ Len(batch) \in Nat \ {0} /\ Len(batch') = Len(batch) - 1
            /\ \A i \in 1..Len(batch') : i + 1 \in 1..Len(batch) /\ batch'[i] = batch[i + 1]
        BY <3>1, OrderTail
      <3>0. /\ Growing(batch)' /\ Before(batch, txq)' /\ Counted(batch)'
            /\ Growing(txq)' /\ Counted(txq)'
        BY <3>1, OrderTail
      <3>9. 1 \in 1..Len(batch) /\ \A i \in 1..Len(batch') : 1 < i + 1
        <4> DEFINE n == Len(batch')
        <4>1. 1 \in 1..Len(batch) /\ n \in Nat
          BY <3>3
        <4> HIDE DEF n
        <4>2. \A i \in 1..n : 1 < i + 1
          BY <4>1
        <4> QED
          BY <4>1, <4>2 DEF n
      <3>4. /\ Len(wire) \in Nat /\ Len(wire') \in Nat
            /\ \A i \in 1..Len(wire') :
                 \/ i \in 1..Len(wire) /\ wire'[i] = wire[i]
                 \/ /\ i = Len(wire) + 1
                    /\ wire'[i].from = batch[1].from /\ wire'[i].seq = batch[1].seq
        <4> DEFINE w == [conn |-> conn, from |-> Head(batch).from,
                         seq |-> Head(batch).seq]
        <4>1. wire \in Seq(WireMessage) /\ wire' \in Seq(WireMessage)
          BY <3>1, BatchData DEF Data
        <4>2. Head(batch) = batch[1]
          BY <3>1 DEF Data
        <4>3. w.from = batch[1].from /\ w.seq = batch[1].seq /\ wire' = Append(wire, w)
          BY <3>1, <4>2
        <4> HIDE DEF w
        <4>4. /\ Len(wire') = Len(wire) + 1 /\ Len(wire) \in Nat
              /\ wire'[Len(wire) + 1] = w
              /\ \A i \in 1..Len(wire) : wire'[i] = wire[i]
          BY <4>1, <4>3
        <4>5. \A i \in 1..Len(wire') : i \in 1..Len(wire) \/ i = Len(wire) + 1
          BY <4>4
        <4>6. ASSUME NEW i \in 1..Len(wire')
              PROVE  \/ i \in 1..Len(wire) /\ wire'[i] = wire[i]
                     \/ i = Len(wire) + 1 /\ wire'[i] = w
          BY <4>4, <4>5
        <4>7. Len(wire') \in Nat
          BY <4>4
        <4> QED
          BY <4>3, <4>4, <4>6, <4>7
      <3>5. Growing(wire)'
        <4> SUFFICES ASSUME NEW i \in 1..Len(wire'), NEW j \in 1..Len(wire'),
                            i < j, wire'[i].from = wire'[j].from
                     PROVE  wire'[i].seq < wire'[j].seq
          BY DEF Growing
        <4>1. CASE j \in 1..Len(wire) /\ wire'[j] = wire[j]
          <5>1. i \in 1..Len(wire) /\ wire'[i] = wire[i]
            <6>1. i # Len(wire) + 1
              BY <3>4, <4>1
            <6> QED
              BY <3>4, <6>1
          <5>2. Growing(wire)
            BY DEF OrderInv
          <5> QED
            BY <4>1, <5>1, <5>2 DEF Growing
        <4>2. CASE /\ j = Len(wire) + 1
                   /\ wire'[j].from = batch[1].from /\ wire'[j].seq = batch[1].seq
          <5>1. i \in 1..Len(wire) /\ wire'[i] = wire[i]
            <6>1. i # Len(wire) + 1
              BY <4>2
            <6> QED
              BY <3>4, <6>1
          <5>2. Before(wire, batch)
            BY DEF OrderInv
          <5> QED
            BY <3>9, <4>2, <5>1, <5>2 DEF Before
        <4> QED
          BY <3>4, <4>1, <4>2
      <3>6. Before(wire, batch)'
        <4> SUFFICES ASSUME NEW i \in 1..Len(wire'), NEW j \in 1..Len(batch'),
                            wire'[i].from = batch'[j].from
                     PROVE  wire'[i].seq < batch'[j].seq
          BY DEF Before
        <4>1. j + 1 \in 1..Len(batch) /\ batch'[j] = batch[j + 1] /\ 1 < j + 1
          <5>1. \A l \in 1..Len(batch') :
                  l + 1 \in 1..Len(batch) /\ batch'[l] = batch[l + 1]
            BY <3>3
          <5>2. 1 < j + 1
            BY <3>9
          <5> QED
            BY <5>1, <5>2
        <4>2. CASE i \in 1..Len(wire) /\ wire'[i] = wire[i]
          <5>1. Before(wire, batch)
            BY DEF OrderInv
          <5> QED
            BY <4>1, <4>2, <5>1 DEF Before
        <4>3. CASE wire'[i].from = batch[1].from /\ wire'[i].seq = batch[1].seq
          <5>1. Growing(batch)
            BY DEF OrderInv
          <5> QED
            BY <3>9, <4>1, <4>3, <5>1 DEF Growing
        <4> QED
          BY <3>4, <4>2, <4>3
      <3>7. Before(wire, txq)'
        <4> SUFFICES ASSUME NEW i \in 1..Len(wire'), NEW j \in 1..Len(txq),
                            wire'[i].from = txq[j].from
                     PROVE  wire'[i].seq < txq[j].seq
          BY <3>1 DEF Before
        <4>1. CASE i \in 1..Len(wire) /\ wire'[i] = wire[i]
          <5>1. Before(wire, txq)
            BY DEF OrderInv
          <5> QED
            BY <4>1, <5>1 DEF Before
        <4>2. CASE wire'[i].from = batch[1].from /\ wire'[i].seq = batch[1].seq
          <5>1. 1 \in 1..Len(batch) /\ batch[1].from = txq[j].from
            BY <3>9, <4>2
          <5>2. Before(batch, txq)
            BY DEF OrderInv
          <5>3. batch[1].seq < txq[j].seq
            BY <5>1, <5>2 DEF Before
          <5> QED
            BY <4>2, <5>3
        <4> QED
          BY <3>4, <4>1, <4>2
      <3>8. Counted(wire)'
        <4>1. ASSUME NEW i \in 1..Len(wire')
              PROVE  IF wire'[i].from = Connect
                     THEN /\ wire'[i].seq <= conn
                          /\ txconnect # 0 => wire'[i].seq < txconnect
                     ELSE wire'[i].seq <= sent[wire'[i].from]
          <5>1. CASE i \in 1..Len(wire) /\ wire'[i] = wire[i]
            <6>1. Counted(wire)
              BY DEF OrderInv
            <6> QED
              BY <5>1, <6>1 DEF Counted
          <5>2. CASE wire'[i].from = batch[1].from /\ wire'[i].seq = batch[1].seq
            <6>1. Counted(batch)
              BY DEF OrderInv
            <6> QED
              BY <3>9, <5>2, <6>1 DEF Counted
          <5> QED
            BY <3>4, <5>1, <5>2
        <4> QED
          BY <3>1, <4>1 DEF Counted
      <3> QED
        BY <3>0, <3>1, <3>5, <3>6, <3>7, <3>8 DEF OrderInv
    <2>10. CASE WriteFail
      <3>1. /\ batch # <<>> /\ batch' = Tail(batch)
            /\ UNCHANGED <<txq, txconnect, conn, sent, wire>>
        BY <2>10 DEF WriteFail
      <3>2. /\ \A i \in 1..Len(batch') : i + 1 \in 1..Len(batch) /\ batch'[i] = batch[i + 1]
            /\ Growing(batch)' /\ Before(batch, txq)' /\ Counted(batch)'
            /\ Growing(txq)' /\ Counted(txq)'
        BY <3>1, OrderTail
      <3>3. Before(wire, batch)'
        <4> SUFFICES ASSUME NEW i \in 1..Len(wire), NEW j \in 1..Len(batch'),
                            wire[i].from = batch'[j].from
                     PROVE  wire[i].seq < batch'[j].seq
          BY <3>1 DEF Before
        <4>1. j + 1 \in 1..Len(batch) /\ batch'[j] = batch[j + 1]
          BY <3>2
        <4>2. Before(wire, batch)
          BY DEF OrderInv
        <4> QED
          BY <4>1, <4>2 DEF Before
      <3>4. Growing(wire)'
        BY <3>1 DEF OrderInv, Growing
      <3>5. Before(wire, txq)'
        BY <3>1 DEF OrderInv, Before
      <3>6. Counted(wire)'
        BY <3>1 DEF OrderInv, Counted
      <3> QED
        BY <3>1, <3>2, <3>3, <3>4, <3>5, <3>6 DEF OrderInv
    <2>11. CASE WriteFailLog
      BY <2>0, <2>11 DEF WriteFailLog
    <2>12. CASE WriteableDone
      BY <2>12, OrderSame DEF WriteableDone
    <2>13. CASE BootFail
      BY <2>0, <2>13 DEF BootFail
    <2>14. CASE Start
      BY <2>14, OrderSame DEF Start
    <2>15. CASE LoopCheck
      BY <2>15, OrderSame DEF LoopCheck
    <2>16. CASE LoopBody
      BY <2>0, <2>16, OrderSame DEF LoopBody
    <2>17. CASE ProtoStop
      BY <2>17, OrderSame DEF ProtoStop
    <2>25. CASE plat_event_unsubscribe
      BY <2>25, OrderSame DEF plat_event_unsubscribe
    <2>18. CASE JoinAndDestroy
      BY <2>18, OrderSame DEF JoinAndDestroy
    <2>19. CASE SigWait
      BY <2>19, OrderSame DEF SigWait
    <2>20. CASE SigGetContext
      BY <2>20, OrderSame DEF SigGetContext
    <2>21. CASE SigCancel
      BY <2>21, OrderSame DEF SigCancel
    <2>22. ASSUME NEW t \in Threads, ThreadEnqueue(t)
          PROVE  OrderInv'
      BY <2>22, OrderEnqueue DEF ThreadEnqueue
    <2>23. ASSUME NEW t \in Threads, ThreadWake(t)
          PROVE  OrderInv'
      BY <2>23, OrderSame DEF ThreadWake
    <2>24. CASE UNCHANGED vars
      BY <2>24, OrderSame DEF vars
    <2> QED
      BY <2>1, <2>2, <2>3, <2>4, <2>5, <2>6, <2>7, <2>8, <2>9, <2>10, <2>11,
         <2>12, <2>13, <2>14, <2>15, <2>16, <2>17, <2>18, <2>19, <2>20, <2>21,
         <2>22, <2>23, <2>24, <2>25
         DEF Next, Callbacks, WriteLoop, MainStep, SigStep, ThreadStep, Exited
  <1>3. TypeOK /\ ControlInv => Data /\ Phases
    BY TypeParts DEF ControlInv
  <1> QED
    BY <1>1, <1>2, <1>3, TypeCorrect, ControlCorrect, PTL DEF Spec

\* What is written keeps every sender's order and repeats nothing (SendOrder),
\* for any number of threads, messages, failed writes and reconnects.
THEOREM SendOrderKept == Spec => []SendOrder
  <1>1. OrderInv => SendOrder
    BY DEF OrderInv, Growing, SendOrder
  <1> QED
    BY <1>1, OrderCorrect, PTL

=============================================================================
