------------------------------- MODULE Polls -------------------------------
(***************************************************************************)
(* The periodic reports.  One struct periodic with a thread of its own per *)
(* report (platform/brcm-sonic/plat-gnma.c), started and stopped by the    *)
(* main thread in the handlers of proto.c, which also overwrite the global *)
(* ucentral_metrics that the callbacks read.                               *)
(*                                                                         *)
(* A handler is the list of the calls it makes; the main thread works      *)
(* through the list, the periodic threads run in between.                  *)
(***************************************************************************)
EXTENDS Naturals, Sequences

CONSTANTS
  Objs,      \* bound: the struct periodic that get allocated
  None,      \* the NULL pointer; no saved file
  Configs,   \* the metrics a configure command may carry
  DefaultMax \* METRICS_WIRED_CLIENTS_MAX_NUM

Kinds == {"state", "health", "telemetry", "upgrade"}

\* The callbacks of these two fill in a state report (state_fill()).
Reporters == {"state", "telemetry"}

Metrics == [state : BOOLEAN, health : BOOLEAN, telemetry : BOOLEAN, max : Nat]

ASSUME PollsAssumption ==
  /\ None \notin Objs
  /\ Configs \subseteq Metrics
  /\ DefaultMax \in Nat

VARIABLES
  ptr,      \* health_periodic, telemetry_periodic, state_periodic, ...
  heap,     \* each struct: "unused", "live" or "freed"
  kind,     \* which report each struct is for
  stop,     \* its flag of that name
  thr,      \* where its thread is
  metrics,  \* ucentral_metrics
  file,     \* what plat_metrics_save() left behind
  greeted,  \* TRUE once connect_send() was called: commands may come
  todo,     \* the calls that the current handler still has to make
  main      \* where the main thread is in the first of them

structVars == <<heap, kind, stop>>
vars == <<ptr, structVars, thr, metrics, file, greeted, todo, main>>

Calls == [call : {"destroy", "create"}, kind : Kinds]
           \cup [call : {"set"}, by : {"configure", "telemetry", "connect"},
                 metrics : Metrics]
           \cup [call : {"return"}]

TypeOK ==
  /\ ptr \in [Kinds -> Objs \cup {None}]
  /\ heap \in [Objs -> {"unused", "live", "freed"}]
  /\ kind \in [Objs -> Kinds]
  /\ stop \in [Objs -> BOOLEAN]
  /\ thr \in [Objs -> {"none", "check", "sleep", "cb", "exited"}]
  /\ metrics \in Metrics
  /\ file \in Metrics \cup {None}
  /\ greeted \in BOOLEAN
  /\ todo \in Seq(Calls)
  /\ main \in {"run", "broadcast", "join", "stopped"}

Off == [state |-> FALSE, health |-> FALSE, telemetry |-> FALSE, max |-> 0]

Init ==
  /\ ptr = [k \in Kinds |-> None]
  /\ heap = [o \in Objs |-> "unused"]
  /\ kind = [o \in Objs |-> "upgrade"]
  /\ stop = [o \in Objs |-> FALSE]
  /\ thr = [o \in Objs |-> "none"]
  /\ metrics = Off
  /\ file \in {None} \cup Configs
  /\ greeted = FALSE
  /\ todo = <<>>
  /\ main = "run"

-----------------------------------------------------------------------------
(***************************************************************************)
(* The handlers, as lists of calls.                                        *)
(***************************************************************************)

periodic_destroy(k) == <<[call |-> "destroy", kind |-> k]>>

\* plat_state_poll(), plat_health_poll(), ...: destroy, then create.
poll(k) == periodic_destroy(k) \o <<[call |-> "create", kind |-> k]>>

poll_if(enabled, k) == IF enabled THEN poll(k) ELSE <<>>

set_metrics(by, m) == <<[call |-> "set", by |-> by, metrics |-> m]>>

Idle == main = "run" /\ todo = <<>>

Handle(calls) ==
  /\ Idle
  /\ todo' = calls
  /\ UNCHANGED <<ptr, structVars, thr, metrics, main>>

\* A command of the gateway comes on a connection.
Command(calls) == greeted /\ Handle(calls) /\ UNCHANGED greeted

\* Mutant: overwrites the metrics first.
configure_handle_early(m) ==
  /\ Command(set_metrics("configure", m)
              \o periodic_destroy("state") \o periodic_destroy("health")
              \o periodic_destroy("telemetry")
              \o poll_if(m.state, "state") \o poll_if(m.health, "health"))
  /\ file' \in {m, file, None}

\* Mutant: forgets to stop the health reports.
configure_handle_unhealthy(m) ==
  /\ Command(periodic_destroy("state") \o periodic_destroy("telemetry")
              \o set_metrics("configure", m)
              \o poll_if(m.state, "state") \o poll_if(m.health, "health"))
  /\ file' \in {m, file, None}

\* The end of configure_handle(), after the configuration was applied.
\* plat_metrics_save() may fail to open the file or to fill it.
configure_handle(m) ==
  /\ Command(periodic_destroy("state") \o periodic_destroy("health")
              \o periodic_destroy("telemetry")
              \o set_metrics("configure", m)
              \o poll_if(m.state, "state") \o poll_if(m.health, "health")
              \o poll_if(m.telemetry, "telemetry"))
  /\ file' \in {m, file, None}

\* Mutant: restores "no limit" as -1.
Restored_unlimited(m) == [m EXCEPT !.telemetry = FALSE, !.max = 0 - 1]

\* plat_metrics_restore() knows neither the telemetry nor the cap.
Restored(m) == [m EXCEPT !.telemetry = FALSE, !.max = DefaultMax]

\* The end of connect_send(), when a connection was established.  It comes
\* this far unless it gives up before, and finds the file or not.
connect_send ==
  /\ \/ /\ file # None
        /\ LET m == Restored(file) IN
             Handle(set_metrics("connect", m)
                      \o periodic_destroy("state") \o periodic_destroy("health")
                      \o poll_if(m.state, "state") \o poll_if(m.health, "health"))
     \/ Handle(<<>>)
  /\ greeted' = TRUE
  /\ UNCHANGED file

telemetry_handle(enabled) ==
  /\ Command(periodic_destroy("telemetry")
              \o set_metrics("telemetry", [metrics EXCEPT !.telemetry = enabled])
              \o poll_if(enabled, "telemetry"))
  /\ UNCHANGED file

\* upgrade_handle(), after plat_upgrade() accepted the request.
upgrade_handle ==
  /\ Command(poll("upgrade"))
  /\ UNCHANGED file

\* Mutant: leaves the upgrade reports running.
proto_stop_three ==
  /\ Handle(periodic_destroy("state") \o periodic_destroy("health")
              \o periodic_destroy("telemetry") \o <<[call |-> "return"]>>)
  /\ UNCHANGED <<file, greeted>>

proto_stop ==
  /\ Handle(periodic_destroy("state") \o periodic_destroy("health")
              \o periodic_destroy("telemetry") \o periodic_destroy("upgrade")
              \o <<[call |-> "return"]>>)
  /\ UNCHANGED <<file, greeted>>

-----------------------------------------------------------------------------
(***************************************************************************)
(* The calls.                                                              *)
(***************************************************************************)

Calling(c) == main = "run" /\ todo # <<>> /\ Head(todo).call = c

SetMetrics ==
  /\ Calling("set")
  /\ metrics' = Head(todo).metrics
  /\ todo' = Tail(todo)
  /\ UNCHANGED <<ptr, structVars, thr, file, greeted, main>>

\* periodic_create(), which may fail and then leaves the pointer alone.
Create ==
  /\ Calling("create")
  /\ \/ \E o \in Objs :
          /\ heap[o] = "unused"
          /\ heap' = [heap EXCEPT ![o] = "live"]
          /\ kind' = [kind EXCEPT ![o] = Head(todo).kind]
          /\ thr' = [thr EXCEPT ![o] = "check"]
          /\ ptr' = [ptr EXCEPT ![Head(todo).kind] = o]
     \/ UNCHANGED <<heap, kind, thr, ptr>>
  /\ todo' = Tail(todo)
  /\ UNCHANGED <<stop, metrics, file, greeted, main>>

\* periodic_destroy(): nothing to destroy.
DestroyNull ==
  /\ Calling("destroy")
  /\ ptr[Head(todo).kind] = None
  /\ todo' = Tail(todo)
  /\ UNCHANGED <<ptr, structVars, thr, metrics, file, greeted, main>>

\* The flag is set under the mutex of the struct.
DestroySetStop ==
  /\ Calling("destroy")
  /\ ptr[Head(todo).kind] # None
  /\ stop' = [stop EXCEPT ![ptr[Head(todo).kind]] = TRUE]
  /\ main' = "broadcast"
  /\ UNCHANGED <<ptr, heap, kind, thr, metrics, file, greeted, todo>>

\* Mutant: wakes nobody.
DestroyBroadcast_missing ==
  /\ main = "broadcast"
  /\ main' = "join"
  /\ UNCHANGED <<ptr, structVars, thr, metrics, file, greeted, todo>>

DestroyBroadcast ==
  /\ main = "broadcast"
  /\ thr' = [o \in Objs |-> IF o = ptr[Head(todo).kind] /\ thr[o] = "sleep"
                            THEN "check" ELSE thr[o]]
  /\ main' = "join"
  /\ UNCHANGED <<ptr, structVars, metrics, file, greeted, todo>>

\* Mutant: frees the struct without the join.
DestroyJoin_early ==
  /\ main = "join"
  /\ heap' = [heap EXCEPT ![ptr[Head(todo).kind]] = "freed"]
  /\ ptr' = [ptr EXCEPT ![Head(todo).kind] = None]
  /\ todo' = Tail(todo)
  /\ main' = "run"
  /\ UNCHANGED <<kind, stop, thr, metrics, file, greeted>>

DestroyJoin ==
  /\ main = "join"
  /\ thr[ptr[Head(todo).kind]] = "exited"
  /\ heap' = [heap EXCEPT ![ptr[Head(todo).kind]] = "freed"]
  /\ ptr' = [ptr EXCEPT ![Head(todo).kind] = None]
  /\ todo' = Tail(todo)
  /\ main' = "run"
  /\ UNCHANGED <<kind, stop, thr, metrics, file, greeted>>

StopReturns ==
  /\ Calling("return")
  /\ todo' = Tail(todo)
  /\ main' = "stopped"
  /\ UNCHANGED <<ptr, structVars, thr, metrics, file, greeted>>

-----------------------------------------------------------------------------
(***************************************************************************)
(* periodic_thread() and the callbacks.                                    *)
(***************************************************************************)

\* The loop condition, under the mutex that the wait gives back.
ThreadCheck(o) ==
  /\ thr[o] = "check"
  /\ thr' = [thr EXCEPT ![o] = IF stop[o] THEN "exited" ELSE "sleep"]
  /\ UNCHANGED <<ptr, structVars, metrics, file, greeted, todo, main>>

\* The wait times out; the flag is read once more before the callback.
ThreadTimeout(o) ==
  /\ thr[o] = "sleep"
  /\ thr' = [thr EXCEPT ![o] = IF stop[o] THEN "exited" ELSE "cb"]
  /\ UNCHANGED <<ptr, structVars, metrics, file, greeted, todo, main>>

\* The wait fails with another error.
ThreadError(o) ==
  /\ thr[o] = "sleep"
  /\ thr' = [thr EXCEPT ![o] = "exited"]
  /\ UNCHANGED <<ptr, structVars, metrics, file, greeted, todo, main>>

\* The callback returns.  The one of the upgrade ends its thread when the
\* upgrade is over; the ones of Reporters read ucentral_metrics, some fields
\* more than once, on their way.
CallbackReturn(o) ==
  /\ thr[o] = "cb"
  /\ \/ thr' = [thr EXCEPT ![o] = "check"]
     \/ kind[o] = "upgrade" /\ thr' = [thr EXCEPT ![o] = "exited"]
  /\ UNCHANGED <<ptr, structVars, metrics, file, greeted, todo, main>>

-----------------------------------------------------------------------------
Handlers ==
  \/ \E m \in Configs : configure_handle(m)
  \/ connect_send
  \/ \E enabled \in BOOLEAN : telemetry_handle(enabled)
  \/ upgrade_handle
  \/ proto_stop

MainStep ==
  \/ SetMetrics
  \/ Create
  \/ DestroyNull
  \/ DestroySetStop
  \/ DestroyBroadcast
  \/ DestroyJoin
  \/ StopReturns

ThreadRuns(o) == ThreadCheck(o) \/ CallbackReturn(o)

ThreadStep(o) == ThreadRuns(o) \/ ThreadTimeout(o) \/ ThreadError(o)

Stopped == main = "stopped" /\ UNCHANGED vars

Next == Handlers \/ MainStep \/ (\E o \in Objs : ThreadStep(o)) \/ Stopped

Spec == Init /\ [][Next]_vars

(***************************************************************************)
(* Fairness: threads run and callbacks return.  No wait is assumed to time *)
(* out: a period can be hours.                                             *)
(***************************************************************************)
FairSpec ==
  /\ Spec
  /\ WF_vars(MainStep)
  /\ \A o \in Objs : WF_vars(ThreadRuns(o))

-----------------------------------------------------------------------------
Running(o) == thr[o] \notin {"none", "exited"}

\* No thread runs on a struct that was freed, and every struct in use can
\* still be stopped through the pointer of its report
\* (periodic_create(), periodic_destroy()).
ThreadsAreOwned ==
  \A o \in Objs :
    /\ Running(o) => heap[o] = "live"
    /\ heap[o] = "live" => ptr[kind[o]] = o

\* When proto_stop() returned, no report is made any more.
QuietWhenStopped == main = "stopped" => \A o \in Objs : ~Running(o)

\* Between two handlers, a state or health report runs only if the metrics
\* in force ask for it.
ReportsFollowMetrics ==
  Idle => \A k \in {"state", "health"} : ptr[k] # None => metrics[k]

\* configure_handle() overwrites ucentral_metrics only when no report that
\* reads them exists.
ConfigureWhenQuiet ==
  [][metrics' # metrics /\ Head(todo).by = "configure" =>
       \A o \in Objs : kind[o] \in Reporters => ~Running(o)]_vars

\* The fields of ucentral_metrics that state_fill() reads are overwritten
\* only when no periodic that reads them is in progress.
NoPeriodicInProgress ==
  [][<<metrics.state, metrics.max>>' # <<metrics.state, metrics.max>> =>
       \A o \in Objs : kind[o] \in Reporters => thr[o] # "cb"]_vars

\* Every handler comes to its end: pthread_join() in periodic_destroy()
\* returns although nobody waits for a timeout.
HandlersEnd == (todo # <<>>) ~> (todo = <<>>)
=============================================================================
