------------------------------- MODULE Outbox -------------------------------
(***************************************************************************)
(* What the transmit path of the client promises to the threads that send  *)
(* through txq_msg_proto_cb(): messages leave in the order in which they   *)
(* were accepted, each at most once, or are dropped, the oldest first; a   *)
(* greeting overtakes what waits and nothing else does.                    *)
(***************************************************************************)
EXTENDS Naturals, Sequences

CONSTANTS
  Senders,   \* threads that send ordinary messages
  Greeter,   \* the pseudo thread of the greetings
  Rounds     \* the numbers a greeting can have

VARIABLES
  accepted,  \* number of messages accepted from each sender
  queue,     \* accepted, not yet written and not yet dropped
  delivered, \* written, in order
  dropped    \* never written

vars == <<accepted, queue, delivered, dropped>>

Init ==
  /\ accepted = [s \in Senders |-> 0]
  /\ queue = <<>>
  /\ delivered = <<>>
  /\ dropped = {}

Accept(s) ==
  /\ accepted' = [accepted EXCEPT ![s] = @ + 1]
  /\ queue' = Append(queue, [from |-> s, seq |-> accepted[s] + 1])
  /\ UNCHANGED <<delivered, dropped>>

\* Every message of the queue was accepted before the greeting.
Greet(n) ==
  /\ queue' = <<[from |-> Greeter, seq |-> n]>> \o queue
  /\ UNCHANGED <<accepted, delivered, dropped>>

Write ==
  /\ queue # <<>>
  /\ delivered' = Append(delivered, Head(queue))
  /\ queue' = Tail(queue)
  /\ UNCHANGED <<accepted, dropped>>

Drop(n) ==
  /\ dropped' = dropped \cup {queue[i] : i \in 1..n}
  /\ queue' = SubSeq(queue, n+1, Len(queue))
  /\ UNCHANGED <<accepted, delivered>>

Next ==
  \/ \E s \in Senders : Accept(s)
  \/ \E n \in Rounds : Greet(n)
  \/ Write
  \/ \E n \in 1..Len(queue) : Drop(n)

Spec == Init /\ [][Next]_vars
=============================================================================
