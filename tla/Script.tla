------------------------------- MODULE Script -------------------------------
(***************************************************************************)
(* The script command.  The main thread (script_handle(), proto.c) hands a *)
(* request to plat_run_script() (platform/brcm-sonic/plat-gnma.c), which   *)
(* starts one thread at a time; that thread answers with                   *)
(* script_result_cb().  Both share the global script_ctx and, through it,  *)
(* the struct proto_script_ctx of the request.                             *)
(*                                                                         *)
(* Commands are numbered in the order they come; the number stands for the *)
(* JSON-RPC id.  Memory is never exhausted.  A parsed script is the number *)
(* of its lines; an exit status is 0 or 1, where 1 is any other value.     *)
(***************************************************************************)
EXTENDS Naturals

CONSTANTS
  MaxCommands, \* bound: the commands that the gateway sends
  MaxLines     \* bound: the lines of a script

ASSUME ScriptAssumption == MaxCommands \in Nat /\ MaxLines \in Nat

Ids == 1 .. MaxCommands

VARIABLES
  got,          \* the commands received; the id of the latest one
  main,         \* where the main thread is in the handler of that command
  type,         \* the type of the script request that it handles
  c,            \* the struct proto_script_ctx of each request
  script_count, \* the lock: scripts that run
  script_ctx,   \* the global of that name: whose context, is_tid_valid
  runner,       \* the thread that runs the script
  finals        \* how many final answers each command got

handlerVars == <<got, main, type>>
scriptVars == <<handlerVars, c, script_count, script_ctx, runner, finals>>

\* The runner has not called back yet.
Working == {"line", "child", "reap", "techsupport", "file", "result", "upload"}

\* It has the lock.
Holding == Working \cup {"free", "release"}

Freed == [uri |-> FALSE, mem |-> "freed"]

NoRunner == [pc |-> "none", lines |-> 0, rc |-> FALSE, status |-> 0,
             full |-> FALSE]

Pcs == Holding \cup {"none", "return", "ended"}

Runners == [pc : Pcs, lines : 0 .. MaxLines, rc : BOOLEAN, status : 0 .. 1,
            full : BOOLEAN]

Contexts == [id : 0 .. MaxCommands, is_tid_valid : BOOLEAN]

Requests == [uri : BOOLEAN, mem : {"none", "live", "freed"}]

ScriptTypeOK ==
  /\ got \in 0 .. MaxCommands
  /\ main \in {"idle", "acquire", "join", "create", "started",
               "poll", "destroy"}  \* the last two in upgrade_handle()
  /\ type \in {"none", "shell", "diagnostic"}
  /\ c \in [Ids -> Requests]
  /\ script_count \in 0 .. 1
  /\ script_ctx \in Contexts
  /\ runner \in Runners
  /\ finals \in [Ids -> Nat]

ScriptInit ==
  /\ got = 0
  /\ main = "idle"
  /\ type = "none"
  /\ c = [id \in Ids |-> [uri |-> FALSE, mem |-> "none"]]
  /\ script_count = 0
  /\ script_ctx = [id |-> 0, is_tid_valid |-> FALSE]
  /\ runner = NoRunner
  /\ finals = [id \in Ids |-> 0]

-----------------------------------------------------------------------------
(* The main thread *)

\* action_reply() and the last script_reply() of a command.
action_reply(id) == finals' = [finals EXCEPT ![id] = @ + 1]

\* script_lock_release()
Unlocked == IF script_count > 0 THEN script_count - 1 ELSE script_count

\* A request without a serial or a type, of an unknown type, or a shell
\* request without a script.
script_invalid ==
  /\ main = "idle"
  /\ got < MaxCommands
  /\ got' = got + 1
  /\ action_reply(got + 1)
  /\ UNCHANGED <<main, type, c, script_count, script_ctx, runner>>

\* A request that plat_run_script() refuses for its timeout.
script_timeout_invalid ==
  /\ main = "idle"
  /\ got < MaxCommands
  /\ got' = got + 1
  /\ c' = [c EXCEPT ![got + 1] = Freed]
  /\ action_reply(got + 1)
  /\ UNCHANGED <<main, type, script_count, script_ctx, runner>>

\* A request that gets as far as the lock.
script_plat_handle ==
  /\ main = "idle"
  /\ got < MaxCommands
  /\ got' = got + 1
  /\ type' \in {"shell", "diagnostic"}
  /\ \E uri \in BOOLEAN : c' = [c EXCEPT ![got + 1] = [uri |-> uri, mem |-> "live"]]
  /\ main' = "acquire"
  /\ UNCHANGED <<script_count, script_ctx, runner, finals>>

\* plat_run_script() failed: the context is freed and the request answered.
RunFailed ==
  /\ c' = [c EXCEPT ![got] = Freed]
  /\ action_reply(got)
  /\ main' = "idle"
  /\ type' = "none"
  /\ UNCHANGED <<got, runner>>

\* One script at a time.
script_refuse ==
  /\ main = "acquire"
  /\ script_count > 0
  /\ RunFailed
  /\ UNCHANGED <<script_count, script_ctx>>

script_lock_aquire ==
  /\ main = "acquire"
  /\ script_count = 0
  /\ script_count' = 1
  /\ main' = "join"
  /\ UNCHANGED <<got, type, c, script_ctx, runner, finals>>

\* Mutant: joins without a look at is_tid_valid.
script_join_always ==
  /\ main = "join"
  /\ runner.pc = "ended"
  /\ script_ctx' = [id |-> got, is_tid_valid |-> FALSE]
  /\ main' = "create"
  /\ UNCHANGED <<got, type, c, script_count, runner, finals>>

\* pthread_join() of the thread before this one, then a new script_ctx.
script_join ==
  /\ main = "join"
  /\ script_ctx.is_tid_valid => runner.pc = "ended"
  /\ script_ctx' = [id |-> got, is_tid_valid |-> FALSE]
  /\ main' = "create"
  /\ UNCHANGED <<got, type, c, script_count, runner, finals>>

\* The text is not base64, or there is no thread to be had.
script_create_fails ==
  /\ main = "create"
  /\ script_count' = Unlocked
  /\ RunFailed
  /\ UNCHANGED script_ctx

script_create ==
  /\ main = "create"
  /\ script_ctx' = [script_ctx EXCEPT !.is_tid_valid = TRUE]
  /\ \/ /\ type = "shell"
        /\ \E n \in 0 .. MaxLines :
             runner' = [NoRunner EXCEPT !.pc = "line", !.lines = n]
     \/ /\ type = "diagnostic"
        /\ runner' = [NoRunner EXCEPT !.pc = "techsupport"]
  /\ main' = "started"
  /\ UNCHANGED <<got, type, c, script_count, finals>>

\* script_plat_handle() reads c->uri once the thread runs, and answers
\* "pending" when there is one.  When that thread freed c already, the memory
\* may hold anything; either way this is not the final answer.
script_pending ==
  /\ main = "started"
  /\ main' = "idle"
  /\ type' = "none"
  /\ UNCHANGED <<got, c, script_count, script_ctx, runner, finals>>

-----------------------------------------------------------------------------
(* The thread of the script *)

runnerFrame == UNCHANGED <<handlerVars, c, script_count, script_ctx, finals>>

\* Mutant: the lock is given back before the answer and the upload.
script_lines_end_unlocks ==
  /\ runner.pc = "line"
  /\ \/ runner.lines = 0
     \/ runner.status # 0
     \/ runner.full
     \/ runner.rc
  /\ runner' = [runner EXCEPT !.pc = "result"]
  /\ script_count' = Unlocked
  /\ UNCHANGED <<handlerVars, c, script_ctx, finals>>

\* The loop over the lines is left: the script ended, a line failed, the
\* output buffer is full, or an error came up.
script_lines_end ==
  /\ runner.pc = "line"
  /\ \/ runner.lines = 0
     \/ runner.status # 0
     \/ runner.full
     \/ runner.rc
  /\ runner' = [runner EXCEPT !.pc = "result"]
  /\ runnerFrame

\* A line is skipped unless it is a ping, a nslookup or a traceroute; the
\* clock or spawnp() may fail; or the child process runs.
script_line ==
  /\ runner.pc = "line"
  /\ runner.lines > 0
  /\ runner.status = 0
  /\ ~runner.full
  /\ ~runner.rc
  /\ \/ runner' = [runner EXCEPT !.lines = @ - 1]
     \/ runner' = [runner EXCEPT !.lines = @ - 1, !.rc = TRUE]
     \/ runner' = [runner EXCEPT !.lines = @ - 1, !.pc = "child"]
  /\ runnerFrame

\* The output ends or the time is up, the buffer is full, or poll() or
\* read() fails.
script_child ==
  /\ runner.pc = "child"
  /\ \/ runner' = [runner EXCEPT !.pc = "reap"]
     \/ runner' = [runner EXCEPT !.pc = "reap", !.full = TRUE]
     \/ runner' = [runner EXCEPT !.pc = "reap", !.rc = TRUE]
  /\ runnerFrame

\* kill() and waitpid().  A child that ended by itself, even after its time
\* was up, leaves its own exit status; one that was killed leaves 137.
script_reap ==
  /\ runner.pc = "reap"
  /\ \E s \in 0 .. 1 : runner' = [runner EXCEPT !.pc = "line", !.status = s]
  /\ runnerFrame

diagnostic_start ==
  /\ runner.pc = "techsupport"
  /\ \/ runner' = [runner EXCEPT !.pc = "file"]
     \/ runner' = [runner EXCEPT !.pc = "result", !.status = 1]
  /\ runnerFrame

\* The file is there.  Until then the thread looks for it every second.
diagnostic_file ==
  /\ runner.pc = "file"
  /\ runner' = [runner EXCEPT !.pc = "result"]
  /\ runnerFrame

\* Mutant: no goto after the answer to an error.
script_result_cb_falls_through ==
  /\ runner.pc = "result"
  /\ \/ /\ c[script_ctx.id].uri
        /\ runner' = [runner EXCEPT !.pc = "upload"]
        /\ IF runner.rc THEN action_reply(script_ctx.id) ELSE UNCHANGED finals
     \/ /\ ~c[script_ctx.id].uri
        /\ action_reply(script_ctx.id)
        /\ runner' = [runner EXCEPT !.pc = "free"]
  /\ UNCHANGED <<handlerVars, c, script_count, script_ctx>>

\* script_result_cb(): an error is answered right away; otherwise the
\* output is uploaded first when the request has a uri.
script_result_cb ==
  /\ runner.pc = "result"
  /\ \/ /\ ~runner.rc
        /\ c[script_ctx.id].uri
        /\ runner' = [runner EXCEPT !.pc = "upload"]
        /\ UNCHANGED finals
     \/ /\ runner.rc \/ ~c[script_ctx.id].uri
        /\ action_reply(script_ctx.id)
        /\ runner' = [runner EXCEPT !.pc = "free"]
  /\ UNCHANGED <<handlerVars, c, script_count, script_ctx>>

\* curl_upload_form() returned; whether it failed makes no difference.
script_uploaded ==
  /\ runner.pc = "upload"
  /\ action_reply(script_ctx.id)
  /\ runner' = [runner EXCEPT !.pc = "free"]
  /\ UNCHANGED <<handlerVars, c, script_count, script_ctx>>

script_ctx_free ==
  /\ runner.pc = "free"
  /\ c' = [c EXCEPT ![script_ctx.id] = Freed]
  /\ runner' = [NoRunner EXCEPT !.pc = "release"]
  /\ UNCHANGED <<handlerVars, script_count, script_ctx, finals>>

script_lock_release ==
  /\ runner.pc = "release"
  /\ script_count' = Unlocked
  /\ runner' = [runner EXCEPT !.pc = "return"]
  /\ UNCHANGED <<handlerVars, c, script_ctx, finals>>

runner_return ==
  /\ runner.pc = "return"
  /\ runner' = [runner EXCEPT !.pc = "ended"]
  /\ runnerFrame

-----------------------------------------------------------------------------
script_handle ==
  \/ script_invalid
  \/ script_timeout_invalid
  \/ script_plat_handle

plat_run_script ==
  \/ script_refuse
  \/ script_lock_aquire
  \/ script_join
  \/ script_create_fails
  \/ script_create
  \/ script_pending

\* Steps of the thread that nobody outside has to help with.
script_runner ==
  \/ script_lines_end
  \/ script_line
  \/ script_child
  \/ script_reap
  \/ diagnostic_start
  \/ script_result_cb
  \/ script_ctx_free
  \/ script_lock_release
  \/ runner_return

ScriptNext ==
  \/ script_handle
  \/ plat_run_script
  \/ script_runner
  \/ diagnostic_file
  \/ script_uploaded

ScriptSpec == ScriptInit /\ [][ScriptNext]_scriptVars

-----------------------------------------------------------------------------
(* Properties *)

\* A command whose answer is still due is in the hands of the main thread or
\* of the runner.
InHand(id) ==
  \/ id = got /\ main # "idle"
  \/ id = script_ctx.id /\ runner.pc \in Working

\* Every command is answered exactly once, "pending" aside: never twice,
\* and never not at all because the one that was to answer let go of it.
OneFinalReply ==
  \A id \in 1 .. got :
    /\ finals[id] <= 1
    /\ finals[id] = 0 => InHand(id)

\* The main thread, which also serves the connection to the gateway, joins
\* only a runner that has nothing left to do but to return: it never waits
\* for a child process, an upload or a diagnostic file.
JoinIsShort ==
  main = "join" /\ script_ctx.is_tid_valid => runner.pc \in {"return", "ended"}

\* The runner answers the request it was started for: script_ctx does not
\* change under a runner that still uses it.
ContextIsStable ==
  [][runner.pc \in Holding /\ runner'.pc \in Holding
       => script_ctx'.id = script_ctx.id]_scriptVars
=============================================================================
