------------------------------ MODULE Session ------------------------------
(***************************************************************************)
(* The client process around the gateway connection                        *)
(* (src/ucentral-client/ucentral-client.c): the transmit queue that every  *)
(* thread appends to, the libwebsockets callbacks that drain it, the       *)
(* reconnect timer, the main loop, the signal thread and the shutdown      *)
(* sequence.                                                               *)
(*                                                                         *)
(* A message is the pair of the thread that sent it and its number in that *)
(* thread's order.  The connect message of the n-th connection is the n-th *)
(* message of the pseudo thread Connect.                                   *)
(***************************************************************************)
EXTENDS Naturals, Sequences

CONSTANTS
  Main,      \* the main thread
  Connect,   \* the pseudo thread whose messages are the connect messages
  Pollers,   \* threads proto_stop() joins: periodics and the event stream
  Streams,   \* the one of the event stream, if there is one
  Scripts,   \* script threads, started by a command and joined by nobody
  Credentials, \* {"password"} when get_updated_pass() found one, else {}
  MaxMsgs,   \* bound: messages each thread sends
  MaxMain,   \* bound: messages the main thread sends
  MaxConn    \* bound: connections that get established

Threads == Pollers \cup Scripts

ASSUME SessionAssumption ==
  /\ MaxMsgs \in Nat
  /\ MaxMain \in Nat
  /\ MaxConn \in Nat
  /\ Main \notin Threads
  /\ Connect \notin Threads \cup {Main}
  /\ Pollers \cap Scripts = {}
  /\ Streams \subseteq Pollers
  /\ Credentials \subseteq {"password"}

\* Numbers start from 1: 0 is the message that does not exist.
Message == [from : Threads \cup {Main, Connect}, seq : Nat \ {0}]

VARIABLES
  pc,                \* where the main thread is
  context,           \* the lws context: "none", "live" or "destroyed"
  sigthread_context, \* TRUE when the signal thread may see the context
  interrupted,       \* set by the signal thread
  sig,               \* where the signal thread is
  sigc,              \* the signal thread's local copy of sigthread_context
  wsi,               \* lws's state of the client connection
  websocket,         \* TRUE when the global websocket is not NULL
  sul,               \* TRUE when a connect attempt is scheduled
  writable,          \* TRUE when a WRITEABLE callback was requested
  cancel,            \* TRUE when lws_cancel_service() was not yet served
  conn_successfull,  \* the flag of that name
  oneshots,          \* what the main loop still has to send once
  conn,              \* number of connections established so far
  alive,             \* threads that exist
  tpc,               \* where each thread is in txq_msg_proto_cb()
  sent,              \* how many messages each thread sent
  txq,               \* txqhead .. txqtail
  txconnect,         \* connection number of the pending connect message, or 0
  batch,             \* what the WRITEABLE callback still has to write
  wire,              \* history: what was written, with its connection
  lost,              \* history: messages whose write failed, or drained at exit
  greeted            \* history: connections whose connect_send() succeeded

sigVars  == <<sigthread_context, interrupted, sig, sigc>>
connVars == <<wsi, websocket, sul, conn_successfull, conn, greeted>>
queueVars == <<txq, txconnect, batch, wire, lost>>
threadVars == <<alive, tpc>>

vars == <<pc, context, sigVars, connVars, writable, cancel, oneshots,
          threadVars, sent, queueVars>>

Loop == {"check", "wait", "cb", "pulled", "failed", "after"}
Shutdown == {"stop", "polls", "join", "exited"}

TypeOK ==
  /\ pc \in {"boot"} \cup Loop \cup Shutdown
  /\ context \in {"none", "live", "destroyed"}
  /\ sigthread_context \in BOOLEAN
  /\ interrupted \in BOOLEAN
  /\ sig \in {"wait", "getctx", "cancel", "done"}
  /\ sigc \in BOOLEAN
  /\ wsi \in {"none", "connecting", "established", "broken"}
  /\ websocket \in BOOLEAN
  /\ sul \in BOOLEAN
  /\ writable \in BOOLEAN
  /\ cancel \in BOOLEAN
  /\ conn_successfull \in BOOLEAN
  /\ oneshots \subseteq {"password", "rebootcause"}
  /\ conn \in Nat
  /\ alive \subseteq Threads
  /\ tpc \in [Threads -> {"idle", "wake"}]
  /\ sent \in [Threads \cup {Main} -> Nat]
  /\ txq \in Seq(Message)
  /\ txconnect \in Nat
  /\ batch \in Seq(Message)
  /\ wire \in Seq([conn : Nat, from : Threads \cup {Main, Connect}, seq : Nat \ {0}])
  /\ lost \subseteq Message
  /\ greeted \subseteq Nat

(***************************************************************************)
(* main() has created the signal thread, which waits for SIGQUIT.          *)
(***************************************************************************)
Init ==
  /\ pc = "boot"
  /\ context = "none"
  /\ sigthread_context = FALSE
  /\ interrupted = FALSE
  /\ sig = "wait"
  /\ sigc = FALSE
  /\ wsi = "none"
  /\ websocket = FALSE
  /\ sul = FALSE
  /\ writable = FALSE
  /\ cancel = FALSE
  /\ conn_successfull = FALSE
  /\ oneshots = {"rebootcause"} \cup Credentials
  /\ conn = 0
  /\ alive = {}
  /\ tpc = [t \in Threads |-> "idle"]
  /\ sent = [t \in Threads \cup {Main} |-> 0]
  /\ txq = <<>>
  /\ txconnect = 0
  /\ batch = <<>>
  /\ wire = <<>>
  /\ lost = {}
  /\ greeted = {}

-----------------------------------------------------------------------------
(***************************************************************************)
(* The transmit queue.                                                     *)
(***************************************************************************)

Msg(t) == [from |-> t, seq |-> sent[t] + 1]

\* Mutant: queues at the head.
txq_enqueue_head(t) ==
  /\ txq' = <<Msg(t)>> \o txq
  /\ sent' = [sent EXCEPT ![t] = @ + 1]

\* txq_enqueue() under txqmtx, the first half of txq_msg_proto_cb().
txq_enqueue(t) ==
  /\ txq' = Append(txq, Msg(t))
  /\ sent' = [sent EXCEPT ![t] = @ + 1]

\* The second half: "if (context) lws_cancel_service(context)".  On a
\* destroyed context the call has no effect that the queue could rely on.
cancel_service == cancel' = (cancel \/ context = "live")

\* What the main thread sends: send_blob() of an answer, a one-shot or an
\* error that UC_LOG_ERR() reports to the gateway.  Without memory for the
\* message, nothing is queued.
main_send ==
  \/ sent[Main] < MaxMain /\ txq_enqueue(Main) /\ cancel_service
  \/ UNCHANGED <<txq, sent, cancel>>

ThreadEnqueue(t) ==
  /\ t \in alive
  /\ tpc[t] = "idle"
  /\ sent[t] < MaxMsgs
  /\ txq_enqueue(t)
  /\ tpc' = [tpc EXCEPT ![t] = "wake"]
  /\ UNCHANGED <<pc, context, sigVars, connVars, writable, cancel, oneshots,
                 alive, txconnect, batch, wire, lost>>

\* A script thread has nothing more to do after its one callback.
ThreadWake(t) ==
  /\ tpc[t] = "wake"
  /\ cancel_service
  /\ tpc' = [tpc EXCEPT ![t] = "idle"]
  /\ alive' = alive \ (Scripts \cap {t})
  /\ UNCHANGED <<pc, context, sigVars, connVars, writable, oneshots, sent,
                 queueVars>>

-----------------------------------------------------------------------------
(***************************************************************************)
(* The signal thread.                                                      *)
(***************************************************************************)

\* sigwait() returns and uc_loop_interrupted_set(1) runs.
SigWait ==
  /\ sig = "wait"
  /\ interrupted' = TRUE
  /\ sig' = "getctx"
  /\ UNCHANGED <<pc, context, sigthread_context, sigc, connVars, writable,
                 cancel, oneshots, threadVars, sent, queueVars>>

SigGetContext ==
  /\ sig = "getctx"
  /\ sigc' = sigthread_context
  /\ sig' = "cancel"
  /\ UNCHANGED <<pc, context, sigthread_context, interrupted, connVars,
                 writable, cancel, oneshots, threadVars, sent, queueVars>>

SigCancel ==
  /\ sig = "cancel"
  /\ cancel' = (cancel \/ (sigc /\ context = "live"))
  /\ sig' = "done"
  /\ UNCHANGED <<pc, context, sigthread_context, interrupted, sigc, connVars,
                 writable, oneshots, threadVars, sent, queueVars>>

-----------------------------------------------------------------------------
(***************************************************************************)
(* The libwebsockets callbacks, run by the main thread inside              *)
(* lws_service_tsi().  One call serves one or more of them.                *)
(***************************************************************************)

InService == pc \in {"wait", "cb"}

\* sul_connect_attempt(): the connection is on its way, or the attempt
\* failed at once and the timer is armed again.
sul_connect_attempt ==
  \/ wsi' = "connecting" /\ sul' = FALSE
  \/ wsi' = "none" /\ sul' = TRUE

SulFire ==
  /\ InService
  /\ sul
  /\ wsi = "none"
  /\ sul_connect_attempt
  /\ pc' = "cb"
  /\ UNCHANGED <<context, sigVars, websocket, conn_successfull, conn, greeted,
                 writable, cancel, oneshots, threadVars, sent, queueVars>>

\* connect_send() either puts its message into the single slot txconnect,
\* replacing an older one, or gives up before it sends.
connect_send(ok, n) ==
  /\ txconnect' = IF ok THEN n ELSE txconnect
  /\ greeted' = IF ok THEN greeted \cup {n} ELSE greeted
  /\ cancel' = (cancel \/ (ok /\ context = "live"))

ClientEstablished(ok) ==
  /\ InService
  /\ wsi = "connecting"
  /\ conn < MaxConn
  /\ conn' = conn + 1
  /\ wsi' = "established"
  /\ websocket' = TRUE
  /\ connect_send(ok, conn + 1)
  /\ conn_successfull' = TRUE
  /\ writable' = TRUE
  /\ pc' = "cb"
  /\ UNCHANGED <<context, sigVars, sul, oneshots, threadVars, sent, txq,
                 batch, wire, lost>>

\* Mutant: does not schedule the next attempt.
closed_for_good ==
  /\ websocket' = FALSE
  /\ wsi' = "none"
  /\ writable' = FALSE
  /\ UNCHANGED sul

\* CLIENT_CLOSED, and the tail of CLIENT_CONNECTION_ERROR.
closed ==
  /\ websocket' = FALSE
  /\ wsi' = "none"
  /\ sul' = TRUE
  /\ writable' = FALSE

ClientConnectionError ==
  /\ InService
  /\ wsi = "connecting"
  /\ conn_successfull' = FALSE
  /\ main_send
  /\ closed
  /\ pc' = "cb"
  /\ UNCHANGED <<context, sigVars, conn, greeted, oneshots, threadVars,
                 txconnect, batch, wire, lost>>

ClientClosed ==
  /\ InService
  /\ wsi \in {"established", "broken"}
  /\ closed
  /\ pc' = "cb"
  /\ UNCHANGED <<context, sigVars, conn_successfull, conn, greeted, cancel,
                 oneshots, threadVars, sent, queueVars>>

\* proto_handle() answers from the main thread, or starts a script thread.
ClientReceive ==
  /\ InService
  /\ wsi = "established"
  /\ \/ main_send /\ UNCHANGED alive
     \/ \E s \in Scripts \ alive :
          /\ sent[s] < MaxMsgs
          /\ alive' = alive \cup {s}
          /\ UNCHANGED <<txq, sent, cancel>>
  /\ pc' = "cb"
  /\ UNCHANGED <<context, sigVars, connVars, writable, oneshots, tpc,
                 txconnect, batch, wire, lost>>

\* Mutant: the connect message goes to the tail.
Outgoing_connect_last ==
  IF txconnect # 0
  THEN Append(txq, [from |-> Connect, seq |-> txconnect])
  ELSE txq

\* Mutant: "if (txq_connect)" is missing, and NULL goes to the head.
Outgoing_unchecked == <<[from |-> Connect, seq |-> txconnect]>> \o txq

\* Mutant: txq_connect->next = txq is missing.
Outgoing_unlinked ==
  IF txconnect # 0 THEN <<[from |-> Connect, seq |-> txconnect]>> ELSE txq

\* What txq_pull() and txq_connect_pull() hand out: the connect message goes
\* to the head.  Only the main thread touches txconnect.
Outgoing ==
  IF txconnect # 0
  THEN <<[from |-> Connect, seq |-> txconnect]>> \o txq
  ELSE txq

\* Mutant: txq_pull() does not reset txqhead.
WriteablePull_keeps_head ==
  /\ InService
  /\ wsi \in {"established", "broken"}
  /\ writable
  /\ writable' = FALSE
  /\ batch' = Outgoing
  /\ txconnect' = 0
  /\ pc' = "pulled"
  /\ UNCHANGED <<context, sigVars, connVars, cancel, oneshots, threadVars,
                 sent, txq, wire, lost>>

\* CLIENT_WRITEABLE takes everything that is queued.
WriteablePull ==
  /\ InService
  /\ wsi \in {"established", "broken"}
  /\ writable
  /\ writable' = FALSE
  /\ batch' = Outgoing
  /\ txq' = <<>>
  /\ txconnect' = 0
  /\ pc' = "pulled"
  /\ UNCHANGED <<context, sigVars, connVars, cancel, oneshots, threadVars,
                 sent, wire, lost>>

\* Its loop: lws_write() of one message.  websocket is not NULL here
\* (ReconnectArmed), so the branch that drops the message is never taken.
WriteMessage ==
  /\ pc = "pulled"
  /\ batch # <<>>
  /\ wsi = "established"
  /\ wire' = Append(wire, [conn |-> conn, from |-> Head(batch).from,
                           seq |-> Head(batch).seq])
  /\ batch' = Tail(batch)
  /\ UNCHANGED <<pc, context, sigVars, connVars, writable, cancel, oneshots,
                 threadVars, sent, txq, txconnect, lost>>

\* A write that fails loses the message, and leaves a connection that takes
\* no further write.
WriteFail ==
  /\ pc = "pulled"
  /\ batch # <<>>
  /\ lost' = lost \cup {Head(batch)}
  /\ batch' = Tail(batch)
  /\ wsi' = "broken"
  /\ pc' = "failed"
  /\ UNCHANGED <<context, sigVars, websocket, sul, conn_successfull, conn,
                 greeted, writable, cancel, oneshots, threadVars, sent, txq,
                 txconnect, wire>>

\* UC_LOG_ERR("failed to send message") queues a message of its own.
WriteFailLog ==
  /\ pc = "failed"
  /\ main_send
  /\ pc' = "pulled"
  /\ UNCHANGED <<context, sigVars, connVars, writable, oneshots, threadVars,
                 txconnect, batch, wire, lost>>

WriteableDone ==
  /\ pc = "pulled"
  /\ batch = <<>>
  /\ pc' = "cb"
  /\ UNCHANGED <<context, sigVars, connVars, writable, cancel, oneshots,
                 threadVars, sent, queueVars>>

\* Mutant: does not ask for a WRITEABLE callback.
EventWaitCancelled_silent ==
  /\ InService
  /\ cancel
  /\ cancel' = FALSE
  /\ pc' = "cb"
  /\ UNCHANGED <<context, sigVars, connVars, writable, oneshots, threadVars,
                 sent, queueVars>>

EventWaitCancelled ==
  /\ InService
  /\ cancel
  /\ cancel' = FALSE
  /\ writable' = (writable \/ websocket)
  /\ pc' = "cb"
  /\ UNCHANGED <<context, sigVars, connVars, oneshots, threadVars, sent,
                 queueVars>>

-----------------------------------------------------------------------------
(***************************************************************************)
(* main(): start, loop and shutdown.                                       *)
(***************************************************************************)

\* An error on the way is reported; it waits in the queue.
BootLog ==
  /\ pc = "boot"
  /\ main_send
  /\ UNCHANGED <<pc, context, sigVars, connVars, writable, oneshots,
                 threadVars, txconnect, batch, wire, lost>>

\* A missing gateway address, a bad port or a failed lws_create_context().
BootFail ==
  /\ pc = "boot"
  /\ main_send
  /\ pc' = "stop"
  /\ UNCHANGED <<context, sigVars, connVars, writable, oneshots, threadVars,
                 txconnect, batch, wire, lost>>

\* Mutant: sigthread_context_set() is missing.
Start_unpublished ==
  /\ pc = "boot"
  /\ context' = "live"
  /\ sul_connect_attempt
  /\ alive' = alive \cup Pollers
  /\ pc' = "check"
  /\ UNCHANGED <<sigVars, websocket, conn_successfull, conn, greeted,
                 writable, cancel, oneshots, tpc, sent, queueVars>>

\* lws_create_context(), whose PROTOCOL_INIT callback makes the first
\* connect attempt; then sigthread_context_set() and proto_start().
Start ==
  /\ pc = "boot"
  /\ context' = "live"
  /\ sul_connect_attempt
  /\ sigthread_context' = TRUE
  /\ alive' = alive \cup Pollers
  /\ pc' = "check"
  /\ UNCHANGED <<interrupted, sig, sigc, websocket, conn_successfull, conn,
                 greeted, writable, cancel, oneshots, tpc, sent, queueVars>>

\* The loop condition, uc_loop_interrupted_get().
LoopCheck ==
  /\ pc = "check"
  /\ pc' = IF interrupted THEN "stop" ELSE "wait"
  /\ UNCHANGED <<context, sigVars, connVars, writable, cancel, oneshots,
                 threadVars, sent, queueVars>>

\* lws_service_tsi() returns; deviceupdate_send() and
\* device_rebootcause_send() run once each after a connection came up,
\* whether or not they get their message out.
LoopBody ==
  /\ pc \in {"cb", "after"}
  /\ \/ /\ conn_successfull /\ "password" \in oneshots
        /\ oneshots' = oneshots \ {"password"}
        /\ main_send
        /\ pc' = "after"
     \/ /\ conn_successfull /\ oneshots = {"rebootcause"}
        /\ oneshots' = {}
        /\ main_send
        /\ pc' = "check"
     \/ /\ ~conn_successfull \/ oneshots = {}
        /\ UNCHANGED <<oneshots, txq, sent, cancel>>
        /\ pc' = "check"
  /\ UNCHANGED <<context, sigVars, connVars, writable, threadVars, txconnect,
                 batch, wire, lost>>

\* proto_stop() first joins the event stream, which is then in no callback.
\* The join may take for ever (NoProducersAtDrain of Stream); without a
\* subscription there is nothing to join.
plat_event_unsubscribe ==
  /\ pc = "stop"
  /\ \A t \in Streams : tpc[t] = "idle"
  /\ alive' = alive \ Streams
  /\ pc' = "polls"
  /\ UNCHANGED <<context, sigVars, connVars, writable, cancel, oneshots, tpc,
                 sent, queueVars>>

\* Then it joins the periodics: it returns when none of them is inside a
\* callback.  Then txq_free(txq_pull()).
ProtoStop ==
  /\ pc = "polls"
  /\ \A t \in Pollers : tpc[t] = "idle"
  /\ alive' = alive \ Pollers
  /\ lost' = lost \cup {txq[i] : i \in 1..Len(txq)}
  /\ txq' = <<>>
  /\ pc' = "join"
  /\ UNCHANGED <<context, sigVars, connVars, writable, cancel, oneshots, tpc,
                 sent, txconnect, batch, wire>>

\* Mutant: destroys the context without joining the signal thread.
Destroy_unjoined ==
  /\ pc = "join"
  /\ context' = IF context = "live" THEN "destroyed" ELSE context
  /\ websocket' = FALSE
  /\ wsi' = "none"
  /\ sul' = FALSE
  /\ writable' = FALSE
  /\ cancel' = FALSE
  /\ pc' = "exited"
  /\ UNCHANGED <<sigVars, conn_successfull, conn, greeted, oneshots,
                 threadVars, sent, queueVars>>

\* pthread_join(sigthread), then lws_context_destroy(): an open connection
\* gets its CLOSED callback and PROTOCOL_DESTROY cancels the timer.
JoinAndDestroy ==
  /\ pc = "join"
  /\ sig = "done"
  /\ context' = IF context = "live" THEN "destroyed" ELSE context
  /\ websocket' = FALSE
  /\ wsi' = "none"
  /\ sul' = FALSE
  /\ writable' = FALSE
  /\ cancel' = FALSE
  /\ pc' = "exited"
  /\ UNCHANGED <<sigVars, conn_successfull, conn, greeted, oneshots,
                 threadVars, sent, queueVars>>

\* The process is gone; its script threads go with it.
Exited == pc = "exited" /\ UNCHANGED vars

-----------------------------------------------------------------------------
Callbacks ==
  \/ SulFire
  \/ \E ok \in BOOLEAN : ClientEstablished(ok)
  \/ ClientConnectionError
  \/ ClientClosed
  \/ ClientReceive
  \/ WriteablePull
  \/ EventWaitCancelled

WriteLoop == WriteMessage \/ WriteFail \/ WriteFailLog \/ WriteableDone

Subscribed == alive \cap Streams # {}

MainStep ==
  \/ WriteLoop
  \/ BootFail
  \/ Start
  \/ LoopCheck
  \/ LoopBody
  \/ ~Subscribed /\ plat_event_unsubscribe
  \/ ProtoStop
  \/ JoinAndDestroy

SigStep == SigWait \/ SigGetContext \/ SigCancel

ThreadStep == \E t \in Threads : ThreadEnqueue(t) \/ ThreadWake(t)

Next ==
  \/ Callbacks
  \/ BootLog
  \/ MainStep
  \/ Subscribed /\ plat_event_unsubscribe
  \/ SigStep
  \/ ThreadStep
  \/ Exited

Spec == Init /\ [][Next]_vars

(***************************************************************************)
(* Fairness.  A thread that runs keeps running.  lws_service_tsi() returns,*)
(* and every poll() it makes reports the cancel pipe and a requested       *)
(* POLLOUT, so these two are served however often other events come first. *)
(* Nothing is assumed of the gateway, the commands, the signal, the        *)
(* threads that could send, or the join of a subscribed event stream.      *)
(***************************************************************************)
Fairness ==
  /\ WF_vars(MainStep)
  /\ WF_vars(SigGetContext)
  /\ WF_vars(SigCancel)
  /\ \A t \in Threads : WF_vars(ThreadWake(t))
  /\ SF_vars(WriteablePull)
  /\ SF_vars(EventWaitCancelled)

FairSpec == Spec /\ Fairness

-----------------------------------------------------------------------------
(***************************************************************************)
(* Properties.                                                             *)
(***************************************************************************)

\* While the connection is up and something waits to be written, the loop
\* will be told: a WRITEABLE callback is requested, a cancel is pending, or
\* the thread that queued the message has not yet made its call
\* (txq_msg_proto_cb, txq_connect_msg_proto_cb, EVENT_WAIT_CANCELLED).
NoLostWakeup ==
  websocket /\ (txq # <<>> \/ txconnect # 0) =>
    \/ writable
    \/ cancel
    \/ \E t \in Threads : tpc[t] = "wake"

\* A SIGQUIT is never missed: when it was taken and the main thread sits in
\* lws_service_tsi() without having served anything, the call that ends the
\* wait is pending or still to be made on a context that the signal thread
\* can see (uc_loop_interrupted_set before sigthread_context_get, against
\* sigthread_context_set before uc_loop_interrupted_get).
StopNotMissed ==
  pc = "wait" /\ interrupted =>
    \/ cancel
    \/ sig = "getctx" /\ sigthread_context
    \/ sig = "cancel" /\ sigc

\* What is written on the gateway connection keeps each thread's order and
\* repeats nothing, over reconnects too; connect messages included.
SendOrder ==
  \A i, j \in 1..Len(wire) :
    i < j /\ wire[i].from = wire[j].from => wire[i].seq < wire[j].seq

\* On every connection for which connect_send() produced a message, that
\* message is the first one written, and no connect message is ever written
\* later on a connection (the WRITEABLE callback puts it at the head).
ConnectFirst ==
  \A i \in 1..Len(wire) :
    LET first == i = 1 \/ wire[i-1].conn # wire[i].conn
    IN  /\ first /\ wire[i].conn \in greeted =>
             wire[i].from = Connect /\ wire[i].seq = wire[i].conn
        /\ wire[i].from = Connect => first

\* No message vanishes: each one a thread sent is queued, in the hands of
\* the WRITEABLE callback, written, or was dropped by a failed lws_write()
\* or by the final txq_free().
NoSilentLoss ==
  \A t \in Threads \cup {Main} : \A n \in 1..sent[t] :
    \/ [from |-> t, seq |-> n] \in lost
    \/ \E i \in 1..Len(txq) : txq[i] = [from |-> t, seq |-> n]
    \/ \E i \in 1..Len(batch) : batch[i] = [from |-> t, seq |-> n]
    \/ \E i \in 1..Len(wire) : wire[i].from = t /\ wire[i].seq = n

\* Once the context is destroyed, neither the signal thread nor a thread
\* that proto_stop() joins can still call lws_cancel_service() on it.
NoCallAfterDestroy ==
  context = "destroyed" =>
    /\ sig = "done"
    /\ \A t \in Pollers : t \notin alive /\ tpc[t] = "idle"

\* While the loop runs, a client without a connection has an attempt under
\* way or the reconnect timer armed, and one with a connection has neither.
ReconnectArmed ==
  pc \in Loop =>
    /\ sul <=> wsi = "none"
    /\ websocket <=> wsi \in {"established", "broken"}

\* After SIGQUIT the process gets to the end of main(), or stays in the join
\* of the event stream in plat_event_unsubscribe(): nothing else can keep it,
\* be it the loop, the queue, the periodics or the signal thread.
QuitStops == interrupted ~> (pc = "exited" \/ [](pc = "stop" /\ Subscribed))

Queued(t, n) == \E i \in 1..Len(txq) : txq[i] = [from |-> t, seq |-> n]

Settled(t, n) ==
  \/ \E i \in 1..Len(wire) : wire[i].from = t /\ wire[i].seq = n
  \/ [from |-> t, seq |-> n] \in lost

\* A queued message is written, or dropped, unless the connection goes down
\* or the process shuts down first.
QueuedIsSettled ==
  \A t \in Threads : \A n \in 1..MaxMsgs :
    Queued(t, n) ~> (Settled(t, n) \/ ~websocket \/ pc \in Shutdown)

-----------------------------------------------------------------------------
(***************************************************************************)
(* The inductive invariants behind the safety properties: what each phase  *)
(* of main() guarantees to the other threads, and where the messages of a  *)
(* sender can be.                                                          *)
(***************************************************************************)
\* The context exists, and the signal thread can see it, exactly between
\* Start and JoinAndDestroy; joined threads stay quiet; WRITEABLE runs on a
\* connection that was established, and only it holds a batch.
Phases ==
  /\ pc = "boot" => context = "none"
  /\ pc \in Loop => context = "live" /\ sigthread_context
  /\ context = "none" =>
       /\ ~websocket
       /\ alive = {}
       /\ \A t \in Threads : tpc[t] = "idle"
  /\ context = "destroyed" => pc = "exited" /\ ~websocket
  /\ pc \in {"join", "exited"} =>
       \A t \in Pollers : t \notin alive /\ tpc[t] = "idle"
  /\ pc = "exited" => sig = "done"
  /\ interrupted <=> sig # "wait"
  /\ pc \in {"pulled", "failed"} => wsi \in {"established", "broken"}
  /\ pc \notin {"pulled", "failed"} => batch = <<>>

ControlInv ==
  Phases /\ NoLostWakeup /\ StopNotMissed /\ NoCallAfterDestroy /\ ReconnectArmed

\* Messages leave in the order wire, batch, txq, and the numbers of one
\* sender grow along the way.
Before(s, r) ==
  \A i \in 1..Len(s), j \in 1..Len(r) :
    s[i].from = r[j].from => s[i].seq < r[j].seq

Growing(s) ==
  \A i, j \in 1..Len(s) :
    i < j /\ s[i].from = s[j].from => s[i].seq < s[j].seq

\* A connect message is older than the one that waits in txconnect.
Counted(s) ==
  \A i \in 1..Len(s) :
    IF s[i].from = Connect
    THEN /\ s[i].seq <= conn
         /\ txconnect # 0 => s[i].seq < txconnect
    ELSE s[i].seq <= sent[s[i].from]

OrderInv ==
  /\ Growing(wire) /\ Growing(batch) /\ Growing(txq)
  /\ Before(wire, batch) /\ Before(wire, txq) /\ Before(batch, txq)
  /\ Counted(wire) /\ Counted(batch) /\ Counted(txq)
  /\ \A i \in 1..Len(txq) : txq[i].from # Connect
  /\ txconnect <= conn

(***************************************************************************)
(* The queue implements Outbox: the hidden split between txq and the batch *)
(* in the callback's hands is one queue.                                   *)
(***************************************************************************)
Outgone == [i \in 1..Len(wire) |->
              [from |-> wire[i].from, seq |-> wire[i].seq]]

Promise == INSTANCE Outbox WITH
  Senders <- Threads \cup {Main},
  Greeter <- Connect,
  Rounds <- 1..MaxConn,
  accepted <- sent,
  queue <- batch \o txq,
  delivered <- Outgone,
  dropped <- lost

\* Every behaviour of the transmit path is one of Outbox.
ImplementsOutbox == Promise!Spec
=============================================================================
