# Verification of the uCentral client

TLA+ models of `src/ucentral-client`, the agent that connects an OpenLAN switch
to its cloud gateway: it keeps a websocket to the gateway, executes its
commands on the switch through gNMI, reports state and health periodically and
forwards events. The models are written from the C and C++ code; TLC checks
them on small instances, and TLAPS proves the safety properties of the session
and its queue, the periodic reports, the certificates, the scripts, upgrades and
terminals, the event stream and the configurations (but for what an apply
achieves) for every size.

## The system and its parts

| Part | Source | State it owns | Module |
|---|---|---|---|
| Gateway session: transmit queue, lws callbacks, reconnect, main loop, signals, shutdown | `ucentral-client.c` | `txqhead/tail`, `txconnect`, `websocket`, `context`, `interrupted`, `sigthread_context` | `Session`, `Outbox`; `SessionProofs`, `OutboxProofs` |
| Periodic reports and metrics | `plat-gnma.c` 1173-1433, `proto.c` handlers | four `struct periodic`, `ucentral_metrics`, the metrics file | `Polls`, `PollsProofs` |
| Certificates (PKI 2.0) | `ucentral-client.c` 768-846, `proto.c` 2378-2449, `est-client.c` | `operational.pem`, `operational.ca`, `client.cert/ca` | `Pki`, `PkiProofs` |
| Configuration transaction | `proto.c` 2244-2348, `plat-gnma.c` 2316-2404, 4601-4697 | running and startup configuration, the file with the saved uuid, `uuid_*` | `Configure`, `ConfigureProofs` |
| Platform apply caches | `plat-gnma.c` 560-1171, 3030-4600, `router-utils.c` | `plat_state`, `featsts` | `PlatApply`, `PlatApplyProofs`; the route tables in `CfgParse` |
| gNMI requests | `gnma_common.c` | none on the client | `Gnma` |
| Configuration parser | `proto.c` 778-2242 | none (pure) | `CfgParse` |
| Script and diagnostics runner | `plat-gnma.c` 308-342, 4820-5088, `proto.c` 2769-2961 | `script_count`, `script_ctx`, thread, child process | `Script` |
| Firmware upgrade | `plat-gnma.c` 2501-2746, `proto.c` 2631-2723, `scripts/ucentral-partialupdate.sh` | `img_dl_task`, thread, pipe, the script behind it | `Upgrade` |
| Remote terminal | `plat-gnma.c` 2411-2483 | the table of processes | `Rtty` |
| Dispatch of commands | `proto.c` 4235-4303 | - | `Jobs`, which composes the last three; `JobsProofs` |
| Event stream | `gnmi_c_connector.cpp` 818-1219, `gnma_common.c` 2550-2957 | call, completion queue, thread | `Stream`, `StreamProofs` |
| Log ring, state report, utilities | `plat-gnma.c`, `proto.c` 3003-4234 | little or none | see "Not modelled" |

How they interact. One main thread runs everything the gateway asks for, inside
lws callbacks: it parses a command, changes the switch, starts and stops the
other threads and answers. Those other threads are the periodic reports, the
event stream, the script runner and the download; all they share with the main
thread is the transmit queue, the global metrics, the platform caches and the
thread bookkeeping itself. A signal thread turns SIGQUIT into the end of the
main loop. What outlives the process is on disk: certificates, the metrics
file, the saved configuration and its id.

## Modules

### Session

`pc` is the main thread: `boot` (main() up to the loop), the loop
(`check` its condition, `wait` in `lws_service_tsi()`, `cb` after a callback,
`pulled`/`failed` inside the loop of CLIENT_WRITEABLE, `after` between the two
one-shot messages) and the shutdown (`stop`, where proto_stop() ends the event
stream, `polls`, where it ends the periodics, `join`, `exited`). Each case of
`callback_broker()` is an action. `txq_msg_proto_cb()` called by another thread
is two actions, `ThreadEnqueue` and `ThreadWake`, because the mutex covers only
the first half. A message is its sender and its number; the connect messages
are those of a pseudo sender, numbered by connection. `main_send` is any
message of the main thread, including the one that every `UC_LOG_ERR` sends to
the gateway (`uc_log()` calls `log_send()`), so a failed write or a failed
connection attempt adds to the very queue it fails to drain.

External: libwebsockets. It serves callbacks one at a time in the thread that
calls `lws_service_tsi()`; a cancel makes one EVENT_WAIT_CANCELLED; a failed
write leaves a connection that accepts nothing more until it is closed.

`Outbox` is the abstract promise of the transmit path: messages are accepted,
leave in the order of acceptance at most once or are dropped, oldest first, and
only a greeting overtakes. `Session!ImplementsOutbox` is the refinement.

### Polls

A handler of `proto.c` is the list of calls it makes on the periodics
(`destroy`, `create`, `set` the metrics); the main thread works through the
list one atomic piece at a time (`DestroySetStop`, `DestroyBroadcast`,
`DestroyJoin`) and the threads run in between (`ThreadCheck`, `ThreadTimeout`,
`ThreadError`, `CallbackReturn`). `configure_handle` here is the tail of that
function, after the configuration was applied. Of the metrics we keep the three
switches and the client limit. Session's `ProtoStop` relies on
`QuietWhenStopped`, and its `plat_event_unsubscribe` on the end of `Stream`, which
may not come (see `stream_drain`).

### Pki

`pem` is what `operational.pem` holds: nothing, the n-th issued certificate, or
`Partial` for a file that was opened with "w" and not completely written. Every
fopen, fwrite/fclose and EST request is a step of its own, may fail, and the
process may die after each (`Dies`, which is also the SIGALRM of `alarm(10)`).
A short `fwrite()` is noticed; data that `fclose()` fails to flush is not,
because its result is ignored.

### Gnma, PlatApply, Configure

The switch is a function from items (`<<"ip", vlan>>`, `<<"pae", port>>`, ...) to
values, and so is `plat_state`. `Gnma` says what each setter of `gnma_common.c`
writes, what each getter reads back and how its caller treats a failure.
`PlatApply` turns every stage of `plat_config_apply()` into the list of requests
it makes for a configuration, given the switch and the cache; the stages know
what the switch has in four ways, and the model keeps them apart: VLANs are read
from the switch, STP, relay, PoE and unit update the cache with every request,
the router and 802.1X ports at the end of the stage, RADIUS and DAC hosts by
reading back. `Configure` works through these lists one request at a time. A
request can succeed, fail, fail although it took effect, or be lost unnoticed
(`gnmi_setrq_execute()` returns 0 whatever the switch said). The client may die
and the switch may reboot between any two requests, and the file with the uuid
is truncated and written in two steps.

The cache is filled by `plat_state_init()`, of which any read may fail. A failed
read fails the whole of it, with one exception: a VLAN whose list of relay servers
cannot be read is skipped (`plat-gnma.c:1052`), as if it had no relay, and the
client goes on with a cache that misses it.

Some variables are history and say when a promise applies: `trusted` (no request
was lost, no relay was skipped and no restore failed since the cache was filled),
`unsaved`, `split`, `cut` and `tainted` (how far running, startup and saved uuid may
be apart). `AppliedIsRunning` compares the switch with the configuration by the
`Runs...` operators, which are written from the meaning of the settings and not from
the stages, but for what the stages are known not to do: of the circuit ids only
"%p" is looked at, because "%i" is unknown to the code and "%h:%p" is the zero of the
cache; and a RADIUS host or passkey that is absent from the configuration may remain
on the switch, which is the subject of `configure_radius`.

External, as the code uses it: removing a VLAN takes its members with it, a
delete of the STP globals clears ports and VLANs, relay options outlive the
relay, the password is not part of a saved configuration, and writing a route
replaces it.

### CfgParse

`cfg_parse()` and its sub-parsers are operators from a document to a
configuration, a refusal (NULL) or a crash (`strcmp(NULL, ...)`). A JSON object is
a record; `Wrong` is any value of the wrong type or not in an enumeration.
Numbers keep the width that C converts them to, so that `Ethernet65537` is port 1
and `Ethernet255` selects all ports. The properties compare the result with a
reading of the document that does not follow the order of the parser. The state
machine around it applies the route tables of successive documents:
`config_router_apply()` merges the sorted new table with the cached one and only
then replaces the cache. A route or another stage may fail; the restore that follows
brings the saved routes back, or fails; and whenever plat_state_init() reads the
routes again it sees the blackhole routes only, or nothing. `SwitchHoldsTable` leaves
out the prefixes that the client has lost track of this way (`unknown`) and says that
there are no others.

### Script, Upgrade, Rtty, Jobs

`Script` is the handler, `plat_run_script()` and the runner thread at the grain at
which they share `script_ctx`: the lock, the join of the last thread, the store
into the context, every line with its child, the answer, the release. `Upgrade` is
the download thread, the installer of the switch (external), the poll that reports
and reboots, and the script that gets a package through a pipe: it removes the
client, which ends it, installs the package and reboots, and tells nobody. `Rtty`
is the table of child processes, a set of process numbers: the code fills its
slots in the order of the sessions and compacts them after a reaping, so the slot
that is killed for a new session is the smallest. `Jobs` puts the three under the
one main thread that takes commands one after another, with the handlers that only
answer, a reboot, and the end of the client. Not bounded by the code, and so not
fair: the file of a diagnostic, uploads and downloads.

### Stream

The thread of the event subscription and its completion queue: one operation of
the call at a time, an error that leads to `Finish()`, the drain, the next call;
`stop()` in the main thread; and an alarm on its way from the switch to the
gateway and back as an acknowledgement. gRPC and the switch are external: an
operation completes once, a broken call fails the operations after it, and a new
subscription begins with the alarms that are up (`updates_only` is 0).

## What the runs show

| Run | Configuration | What it checks |
|---|---|---|
| `session_safety` | `MCSession.cfg` | type; `NoLostWakeup`, `StopNotMissed`, `SendOrder`, `ConnectFirst`, `NoSilentLoss`, `NoCallAfterDestroy`, `ReconnectArmed`, `ImplementsOutbox` |
| `session_live` | `MCSessionLive.cfg` | `QuitStops`, `QueuedIsSettled` |
| `polls` | `MCPolls.cfg` | type; `ThreadsAreOwned`, `QuietWhenStopped`, `ReportsFollowMetrics`, `ConfigureWhenQuiet`, `HandlersEnd` |
| `polls_connect` | `MCPollsConnect.cfg` | violated: `NoPeriodicInProgress` |
| `pki_files` | `MCPki.cfg` | `FallsBackToBirth`, `RunsWhatIsSaved`, `EnrolledOnce`, `HalfWrittenStays` |
| `pki_cacerts` | `MCPkiCacerts.cfg` | violated: `BirthCaWithoutCacerts` |
| `configure` | `MCConfigure.cfg` | type; `AppliedIsRunning`, `CacheAgrees`, `StartupComplete`, `ActiveNamesRunning`, `PasswordKept`, `SkippedUntouched` |
| `configure_radius` | `MCConfigureRadius.cfg` | violated: `RadiusHostsFollow` |
| `cfg_parse` | `MCCfgParse.cfg` | `PortsFollowEthernet`, `VlansFollowInterfaces`, `TableHoldsRoutes`, `SwitchHoldsTable` |
| `jobs` | `MCJobs.cfg` | `OneFinalReply`, `JoinIsShort`, `SessionsBounded`, `RebootOnlyComplete`, `ScriptEnds`, `UpgradeEnds` |
| `jobs_package` | `MCJobsPackage.cfg` | violated: `RebootAfterInstall` |
| `stream_drain` | `MCStream.cfg` | violated: `NoProducersAtDrain` |

Bounds. `session_safety` has two connections, so that a message queued on one is
written on the next and a connect message meets a queue that is not empty; one
poller that sends once, an updated password and two messages of the main
thread: enough for three senders in the queue at once and for log messages
queued while a batch is being written. `session_live` has the event stream, which
proto_stop() joins like a poller and may wait for without end, a script thread,
which nobody joins, and one connection; more would only repeat the cycle.
`MCPolls.cfg` allows three structs, for three reports at once or three generations
of one; a fourth adds states and no new case of two threads that meet. The violation
run needs only two.
`MCPki.cfg` issues three certificates: an enrollment and two renewals, so that
a renewal can fall between another one and its restart. The number of starts is
not bounded.

`MCConfigure.cfg` has a switch with two VLANs (one is VLAN 1, which many stages
skip), one PoE port, two RADIUS hosts, two routes and two addresses, and four
configurations: everything on, everything changed, nothing, and one that is
refused late, for one of its routes. Two commands, one failure and one crash or
reboot reach every pair of configurations with a rollback or a restart in between.
`MCCfgParse` varies one section of a base document at a time, each by lists of up
to two entries, because an entry can only disturb an earlier one. Documents of
every kind meet a switch without routes; those that vary the routes (`LateDocs`)
follow each other in any number, since nothing else of a document has to do with
the table that an earlier one left. `MCJobs.cfg` has three commands, of which the
first two may be scripts or upgrades and each may be anything else, scripts of one
line, and two terminals: two scripts meet at the lock, two upgrades at
`img_dl_task`, three terminals at a full table. `jobs_package` needs one command.
`MCStream.cfg` needs one alarm; the inductive invariant of the proof was checked
with two (5,358 states).

Fairness. In `Session` a thread that can run does (weak fairness of the main
thread's own steps, of the signal thread once it has its signal, and of a thread
that has queued a message). The cancel pipe and a requested POLLOUT are served
although other events may come first, because every `poll()` reports them: strong
fairness of `EventWaitCancelled` and `WriteablePull`. Nothing is assumed about the
gateway, the commands, the signal, the threads that could send, or the join of a
subscribed event stream: `QuitStops` says that SIGQUIT ends the process or leaves
it in that join, and in nothing else. In `Polls` threads run and callbacks return;
no wait is assumed to time out, since a period may be hours. In `Jobs` the main
thread, the runner and the threads of an upgrade go on, because a child process
has the time-out of its script and every request to the switch one of its own. The
installer ends. The switch answers at last about the installation (strong fairness
of `__plat_upgrade_state_gnmi`): the code asks again every period for as long as
it does not.

### Where code and text disagree

* `connect_send()` assigns `ucentral_metrics` before it stops the polls
  (`proto.c:567`), and never stops telemetry; the comment at `proto.c:2312`
  asks "that no periodic in progress and than update global struct".
* When the CA bundle cannot be fetched, the log says "using birth CA"
  (`ucentral-client.c:837`) and the code uses `operational.ca`, which does not
  exist; later starts repeat the choice.
* A RADIUS server that a configuration no longer names stays on the switch:
  `gnma_radius_host_remove()` deletes an entry of the DAS client table
  (`gnma_common.c:5447`). The comment at `plat-gnma.c:4356` asks to "remove any
  host that is not present in requested CFG", and the one at 4369 to "remove
  previous entry" of a host that has no passkey any more.
* After a package was written to the pipe of the upgrade script the poll reports
  "success" and reboots the switch; the comment at `proto.c:2660` says "once
  instalation finished - reboot device". The script sleeps five seconds before it
  begins, and the poll comes every second: the reboot may fall before, into or after
  the installation (`RebootAfterInstall`). What does hold is `RebootOnlyComplete`:
  a full image is installed, a package handed over.
* The drain of the completion queue throws away what is in it because "at this
  point there are no producers" (`gnmi_c_connector.cpp:995`). `stop()` is one: its
  CTL_SHUTDOWN can be discarded, the thread calls again, and `th.join()`, with it
  the end of the client, waits for ever.

The models also make visible what contradicts no text:

* A half written `operational.pem` is never repaired (`HalfWrittenStays`).
* After a reconnect telemetry keeps running although the metrics in force say it
  is off (`ReportsFollowMetrics` is stated for state and health only).
* When the write of the uuid fails or is interrupted, the saved uuid names
  another configuration than the startup configuration (`split`).
* A client that dies between `gnma_stp_mode_set()` and `gnma_stp_ports_enable()`
  never enables the ports (`cut`).
* A prefix that a document gives twice loses its route at the next apply, and a
  route that could not be removed, or that is no blackhole route when the client
  starts, is forgotten (`doubled`, `unknown`).
* A VLAN whose relay could not be read at the start keeps it although a
  configuration turns it off, and a request that is lost counts as applied
  (`trusted`).
* A port without a speed is accepted, and so is a VLAN without an id, as VLAN 0,
  although the log at `proto.c:1204` says "parse failed"; a VLAN member without
  `vlan-tag` ends the process; the priority of a RADIUS host is read from its port
  (`proto.c:1753`).
* The default time-out of a script is never used: without one it is 0. A
  diagnostic that never writes its file keeps the lock for ever.
* A second upgrade overwrites the task of the first; `RebootOnlyComplete` and
  `UpgradeEnds` are stated for upgrades that do not overlap.

## What is proved

`SessionProofs` holds for any finite or infinite sets of threads and any bounds,
under `SessionAssumption` (the bounds are natural numbers; the main thread, the
pseudo sender, the pollers and the scripts are different).

* `TypeCorrect`: `TypeOK`, split into the Boolean flags and the rest.
* `ControlCorrect`: the inductive invariant `ControlInv`. None of its
  properties is inductive alone: `Phases` adds what each phase of main()
  guarantees, namely that the context exists and is published exactly during
  the loop, that joined threads stay quiet, that a signal was taken iff the
  flag is set, and that CLIENT_WRITEABLE runs on a connection. From it
  `WakeupNeverLost`, `StopNeverMissed`, `DestroyIsLast` and
  `ReconnectAlwaysArmed`.
* `SendOrderKept`: `SendOrder`, from `OrderInv`: a message travels from `txq`
  through `batch` to `wire`; within each the numbers of one sender grow, all of
  an earlier stage are larger than those of a later one, and none exceeds what
  the sender has sent; connect messages never exceed the connection count and
  are older than the one that waits in `txconnect`.

`OutboxProofs`, under the same assumptions. `QueueSteps` first reduces the steps of
the client to the seven things that can happen to a message.

* `NothingVanishes`: `NoSilentLoss`, from the types and phases of `Session`.
* `ConnectIsFirst`: `ConnectFirst`, from `GreetInv`: a connect message waits in
  `txconnect` or at the head of the batch only while nothing was written on the
  current connection, and a greeted connection that takes writes and has none yet
  has its connect message there.
* `QueueImplementsOutbox`: the refinement. `txq` behind the unwritten rest of
  `batch` is the abstract queue; the pull, which moves `txq` into the batch, is a
  stutter, or a greeting when a connect message waits in `txconnect`. A failed
  write drops the head of the queue, and proto_stop() what is left of it.

`PollsProofs`, for any sets of structs and any number of commands. The handlers
make their calls one by one from the list `todo`, and threads and joins come in
between, so `PollsInv` is about the calls that are still to be made: each
periodic_create() follows the periodic_destroy() of its report, configure_handle()
overwrites the metrics after it destroyed what reads them, proto_stop() returns
after it destroyed all (`InOrder`), and a report that will run when the list is
done is asked for by the metrics that will then be in force (`Decided`). From it
`ThreadsOwned`, `QuietAfterStop`, `ReportsFollow` and the action
property `ConfigureQuiet`.

`PkiProofs`, for any number of certificates (`PkiAssumption`: the bound is a
natural number). The inductive invariant `PkiInv` says what is on disk, in memory
and in `client` at each point of the main thread; without it nothing ties
`pem = Partial` to a write in progress, or an unfinished renewal to a certificate
that is still whole. From it all properties of `pki_files`:
`BirthAfterFailure`, `SavedIsRun`, `EnrolledForGood`, `PartialForGood`.

`JobsProofs`, for any number of commands, lines and upgrades.

* `ScriptCorrect`: the invariant `ScriptInv`. `LockInv` says who holds
  `script_count` (the main thread from the lock to the creation, then the runner,
  never both), and that the thread id is valid only with a thread behind it;
  `ContextInv` ties `script_ctx` to the command; `AnswerInv` counts the answers:
  a command has none while its answer is due from the handler or the runner and
  one afterwards. Steps of the other components are first reduced to what they do
  to the script (`StepOfScript`).
* `AnsweredOnce`, `JoinsAreShort` and `ContextStable` follow from it.
* `RebootsComplete`: `RebootOnlyComplete`, from `UpgradeInv`, which follows one
  upgrade from the task through the loader to the pipe or the installer of the
  switch; while upgrades do not overlap, the task and the installer are about the
  last one.
* `SessionsAreBounded`: `SessionsBounded`, for a table of any size. A process runs
  or waits to be reaped, never both (`RttyInv`), so after the reaping the slots are
  those of the processes that run.

`StreamProofs`: `NoAlarmLost`, for any finite set of alarms. `StreamInv` adds that
one operation is under way, in the queue or in the hands of the thread
(`OneOperation`), and that there is no call when the queue is drained (`NoCall`):
that is why a drain loses no alarm although it can lose CTL_SHUTDOWN.

`PlatApplyProofs` is about the stages as operators, for every configuration,
switch and cache, under `GnmaAssumption` (the VLANs are in 1..4095; ports, hosts
and routes are finite sets). The first component of an item tells whose it is.
`StageSpares`: no stage but its own makes a request that changes the password, and
no stage makes one that changes or reads again what belongs to AAA while that
feature is not initialized. `CleanLists` carries this through the loops over VLANs,
ports, hosts and routes, by induction over the number of lists joined.

`ConfigureProofs`, for any configurations and any number of commands, failed
requests, crashes and reboots.

* `ApplyCorrect`: the invariant `ApplyInv`. The requests that the current stage
  still has to make spare what the stage has no business with; before the stage
  of the password the password is the one at the time of the command. From it
  `PasswordIsKept` (`PasswordKept`) and the action property `SkippedIsUntouched`
  (`SkippedUntouched`), whichever request fails or is lost.
* `RecoveryCorrect` has the premise `[]AppliedIsRunning`: what one apply of the
  requests achieves is left to TLC, what becomes of it over save, rollback, crash
  and reboot is proved. `RecoveryInv` says that the running configuration strays
  from the startup one only between the begin of an apply and its save or
  rollback, which uuid is the active one at each point, and that the startup
  configuration is the one the uuid names. From it, with the same premise,
  `StartupIsComplete` (`StartupComplete`) and `ActiveIsRunning`
  (`ActiveNamesRunning`).

Each of these invariants was checked with TLC before it was proved.

Only model-checked:

* The liveness properties `QuitStops`, `QueuedIsSettled`, `HandlersEnd`,
  `ScriptEnds` and `UpgradeEnds`: fairness is out of the prover's reach.
* `AppliedIsRunning` and `CacheAgrees`, and the types of `Configure`. That an apply
  leaves certain items alone is the same argument for every request; what all its
  requests together make of every item is another one for each stage, over the
  writes of a whole list to one item, and is not proved.
* `CfgParse` and the reference checks of its operators: folds over documents. A
  fold is defined by recursion with an operator as its parameter, and an induction
  over it would have to instantiate that parameter, which the provers cannot.
  (`PlatApply` joins its lists by a recursive function for this reason.)

## Not modelled

* The contents of messages and reports. The state report (`state_fill_*()`,
  `plat_state_get()`, and the getters of `gnma_common.c` that only feed it) converts
  what the switch says into JSON and keeps no state. It reads `plat_state` without
  a lock while a configuration is applied; only the text of a report depends on it.
* The log ring (`plat-gnma.c` 345-424): its entries are text in the answer to a
  configure command and decide nothing. The write index is advanced before the
  store, so the reader finds nothing until the ring has wrapped.
* The callbacks of the event stream other than the one for alarms: each turns an
  update into one message.
* Encoding of gNMI paths and values, of base64 and of the bit map; the netlink
  dump; the shell scripts other than the one of the upgrade.
* The redirector and first-contact code, which main() does not call; the JSON
  stream parser, whose calls are commented out; the example platform, which
  consists of stubs.
* Memory management. Some of it is visible next to the models and outside them:
  the handler of a script reads the URI of a context that the runner may have
  freed, and main() frees a string of `getenv()`.
* Time. Periods, time-outs and the product `period_sec * 1000000`, which overflows
  above 2147 s, are abstracted to "at some point".
* Threads that outlive `proto_stop()`: the script runner and the download are not
  joined by the code. `Jobs` ends with the client, and `NoCallAfterDestroy` is stated
  for the threads that are joined.
* Callbacks of a report that never return, such as a lookup of the public address
  without an answer: `HandlersEnd` assumes that they do.
* The file with the updated password, which is removed before the password is sent:
  a message that is dropped, or a process that dies in between, loses it.
