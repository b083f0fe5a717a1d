------------------------------- MODULE Stream -------------------------------
(***************************************************************************)
(* The event subscription: struct RpcStreamReader                          *)
(* (gnma/gnmi/gnmi_c_connector.cpp), a thread that works through the       *)
(* completion queue of one streaming call at a time and calls again when   *)
(* the call ends, with the callback for alarms (gnma/gnma_common.c).  The  *)
(* other callbacks only report.  The channel is never shut down while the  *)
(* thread runs.  gRPC and the switch are modelled as the code uses them.   *)
(***************************************************************************)
EXTENDS Naturals, Sequences, FiniteSets

CONSTANTS
  Alarms,  \* the alarms that come up on the switch
  NoAlarm  \* no alarm

VARIABLES
  reader,   \* the thread: where it is, its flag stop, the alarm in its hands
  op,       \* the operation that gRPC has not completed yet, or "none"
  cq,       \* the completion queue
  ready,    \* the channel is READY
  call,     \* the call: "none", "started", "open" (subscribed) or "dead"
  wire,     \* the updates on their way from the switch
  alarm,    \* each alarm on the switch
  reported, \* the alarms that were queued for the gateway
  closer    \* gnma_unsubscribe() in the main thread

streamVars == <<reader, op, cq, ready, call, wire, alarm, reported, closer>>

\* Operations on the stream; all but the last take a status ok.
StreamTags == {"START_CALL", "WRITE", "WRITES_DONE", "READ", "FINISH"}

Update(a, ack) == [alarm |-> a, acknowledged |-> ack]

Event(tag, ok, a, ack) == [tag |-> tag, ok |-> ok, update |-> Update(a, ack)]

Completed(tag, ok) == Event(tag, ok, NoAlarm, FALSE)

CTL_SHUTDOWN == Completed("CTL_SHUTDOWN", TRUE)

\* plat_event_subscribe() has just started the thread.
StreamInit ==
  /\ reader = [pc |-> "call", stop |-> FALSE, alarm |-> NoAlarm]
  /\ op = "none"
  /\ cq = <<>>
  /\ ready = FALSE
  /\ call = "none"
  /\ wire = <<>>
  /\ alarm = [a \in Alarms |-> "none"]
  /\ reported = {}
  /\ closer = "none"

-----------------------------------------------------------------------------
(* The thread *)

switchVars == <<ready, wire, alarm>>

prepare_call ==
  /\ reader.pc = "call"
  /\ reader' = [reader EXCEPT !.pc = "next"]
  /\ op' = "STATE_CHANGE"
  /\ UNCHANGED <<cq, switchVars, call, reported, closer>>

\* The event that cq->Next() returns.
Next1(tag) ==
  /\ reader.pc = "next"
  /\ cq # <<>>
  /\ Head(cq).tag = tag
  /\ cq' = Tail(cq)

on_shutdown ==
  /\ Next1("CTL_SHUTDOWN")
  /\ reader' = [reader EXCEPT !.pc = "drain", !.stop = TRUE]
  /\ UNCHANGED <<op, switchVars, call, reported, closer>>

\* An operation failed: stream->Finish().
on_not_ok ==
  /\ \E tag \in StreamTags : Next1(tag)
  /\ ~Head(cq).ok
  /\ op' = "FINISH"
  /\ UNCHANGED <<reader, switchVars, call, reported, closer>>

\* The status says whether another call makes sense.
on_finish ==
  /\ Next1("FINISH")
  /\ \E stop \in BOOLEAN :
       reader' = [reader EXCEPT !.pc = "drain", !.stop = @ \/ stop]
  /\ call' = "none"
  /\ UNCHANGED <<op, switchVars, reported, closer>>

on_state_change ==
  /\ Next1("STATE_CHANGE")
  /\ \/ ready /\ op' = "START_CALL" /\ call' = "started"
     \/ ~ready /\ op' = "STATE_CHANGE" /\ UNCHANGED call
  /\ UNCHANGED <<reader, switchVars, reported, closer>>

\* The next operation of the call.
on_progress ==
  /\ \/ Next1("START_CALL") /\ op' = "WRITE"
     \/ Next1("WRITE") /\ op' = "WRITES_DONE"
     \/ Next1("WRITES_DONE") /\ op' = "READ"
  /\ Head(cq).ok
  /\ UNCHANGED <<reader, switchVars, call, reported, closer>>

\* alarm_gnmi_cb(): an alarm that was acknowledged is ignored, another one
\* is queued for the gateway.
on_read ==
  /\ Next1("READ")
  /\ Head(cq).ok
  /\ LET u == Head(cq).update
     IN  \/ /\ u.acknowledged
            /\ op' = "READ"
            /\ UNCHANGED <<reader, reported>>
         \/ /\ ~u.acknowledged
            /\ reported' = reported \cup {u.alarm}
            /\ reader' = [reader EXCEPT !.pc = "acknowledge", !.alarm = u.alarm]
            /\ UNCHANGED op
  /\ UNCHANGED <<switchVars, call, closer>>

\* gnmi_gnoi_sonic_alarm_acknowledge(), whose failure nobody looks at, and
\* the next Read().  The switch reports the change to its subscribers.
alarm_acknowledge ==
  /\ reader.pc = "acknowledge"
  /\ \/ /\ alarm' = [alarm EXCEPT ![reader.alarm] = "acknowledged"]
        /\ wire' = IF call = "open" THEN Append(wire, Update(reader.alarm, TRUE))
                   ELSE wire
     \/ UNCHANGED <<alarm, wire>>
  /\ reader' = [reader EXCEPT !.pc = "next", !.alarm = NoAlarm]
  /\ op' = "READ"
  /\ UNCHANGED <<cq, ready, call, reported, closer>>

\* AsyncNext() until the queue is empty, whatever it holds; then the next
\* call, or the end of the thread.
drain ==
  /\ reader.pc = "drain"
  /\ cq' = <<>>
  /\ reader' = [reader EXCEPT !.pc = IF reader.stop THEN "ended" ELSE "call"]
  /\ UNCHANGED <<op, switchVars, call, reported, closer>>

-----------------------------------------------------------------------------
(* The main thread *)

\* RpcStreamReader::stop(): an event for the thread, then th.join().
gnmi_subscribe_stop ==
  /\ closer = "none"
  /\ closer' = "join"
  /\ cq' = IF reader.pc = "ended" THEN cq ELSE Append(cq, CTL_SHUTDOWN)
  /\ UNCHANGED <<reader, op, switchVars, call, reported>>

gnmi_subscribe_joined ==
  /\ closer = "join"
  /\ reader.pc = "ended"
  /\ closer' = "joined"
  /\ UNCHANGED <<reader, op, cq, switchVars, call, reported>>

-----------------------------------------------------------------------------
(* gRPC and the switch *)

grpcFrame == UNCHANGED <<reader, ready, alarm, reported, closer>>

\* What a subscription brings first: every alarm as it is, in any order.  The
\* request asks for more than the updates (updates_only is 0).
Current(updates_only) ==
  LET now == {Update(a, FALSE) : a \in {b \in Alarms : alarm[b] = "raised"}}
  IN  IF updates_only THEN {<<>>}
      ELSE {s \in [1 .. Cardinality(now) -> now] :
              now = {s[i] : i \in 1 .. Cardinality(now)}}

gnmi_subscribe_create == Current(FALSE)

\* An operation of the call ends well.
Complete ==
  /\ call # "dead"
  /\ op' = "none"
  /\ \/ /\ op \in {"STATE_CHANGE", "START_CALL", "WRITES_DONE"}
        /\ cq' = Append(cq, Completed(op, TRUE))
        /\ UNCHANGED <<call, wire>>
     \/ /\ op = "WRITE"
        /\ cq' = Append(cq, Completed(op, TRUE))
        /\ call' = "open"
        /\ wire' \in gnmi_subscribe_create
     \/ /\ op = "READ"
        /\ wire # <<>>
        /\ cq' = Append(cq, Event(op, TRUE, Head(wire).alarm, Head(wire).acknowledged))
        /\ wire' = Tail(wire)
        /\ UNCHANGED call
  /\ grpcFrame

\* One of a dead call does not, and Finish() always ends.
CompleteDead ==
  /\ \/ op = "FINISH"
     \/ op \in StreamTags /\ call = "dead"
  /\ op' = "none"
  /\ cq' = Append(cq, Completed(op, op = "FINISH"))
  /\ UNCHANGED <<call, wire>>
  /\ grpcFrame

\* The call breaks, with the connection or without it.
CallBreaks ==
  /\ call \in {"started", "open"}
  /\ call' = "dead"
  /\ wire' = <<>>
  /\ ready' \in BOOLEAN
  /\ UNCHANGED <<reader, op, cq, alarm, reported, closer>>

ChannelChange ==
  /\ call = "none"
  /\ ready' = ~ready
  /\ UNCHANGED <<reader, op, cq, call, wire, alarm, reported, closer>>

Raise(a) ==
  /\ alarm[a] = "none"
  /\ alarm' = [alarm EXCEPT ![a] = "raised"]
  /\ wire' = IF call = "open" THEN Append(wire, Update(a, FALSE)) ELSE wire
  /\ UNCHANGED <<reader, op, cq, ready, call, reported, closer>>

-----------------------------------------------------------------------------
thread_cb ==
  \/ prepare_call
  \/ on_shutdown
  \/ on_not_ok
  \/ on_finish
  \/ on_state_change
  \/ on_progress
  \/ on_read
  \/ alarm_acknowledge
  \/ drain

Switch ==
  \/ Complete
  \/ CompleteDead
  \/ CallBreaks
  \/ ChannelChange
  \/ \E a \in Alarms : Raise(a)

StreamNext == thread_cb \/ Switch \/ gnmi_subscribe_stop \/ gnmi_subscribe_joined

StreamSpec == StreamInit /\ [][StreamNext]_streamVars

-----------------------------------------------------------------------------
(* Properties *)

\* An alarm is acknowledged only when it was queued for the gateway, and one
\* that was neither is still coming, for as long as the thread reads: it is
\* on its way, or the next call brings it, whatever calls broke before.
AlarmsNotLost ==
  \A a \in Alarms :
    /\ alarm[a] = "acknowledged" => a \in reported
    /\ alarm[a] = "raised" /\ a \notin reported /\ call = "open" /\ ~reader.stop
         => \/ \E i \in DOMAIN wire : wire[i] = Update(a, FALSE)
            \/ \E i \in DOMAIN cq : cq[i] = Event("READ", TRUE, a, FALSE)

\* The comment at the drain says "at this point there are no producers":
\* what is thrown away between two calls holds nothing of stop().
NoProducersAtDrain ==
  reader.pc = "drain" /\ ~reader.stop
    => \A i \in DOMAIN cq : cq[i] # CTL_SHUTDOWN
=============================================================================
