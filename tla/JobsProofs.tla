----------------------------- MODULE JobsProofs -----------------------------
(***************************************************************************)
(* Proofs about Jobs, for any number of commands and lines and any set of  *)
(* commands that are upgrades.                                             *)
(***************************************************************************)
EXTENDS Jobs, FiniteSetTheorems, WellFoundedInduction, TLAPS

-----------------------------------------------------------------------------
(***************************************************************************)
(* Scripts.  The lock is held by the main thread between script_lock_      *)
(* aquire() and pthread_create(), by the runner from then on until         *)
(* script_lock_release(), and by nobody else; the context belongs to who   *)
(* holds the lock.  That decides who still owes an answer.                 *)
(***************************************************************************)

\* The main thread has the lock.
MainHolds == main \in {"join", "create"}

\* The answer to the command is still to come.
Due(id) ==
  \/ id = got /\ main \in {"acquire", "join", "create"}
  \/ id = script_ctx.id /\ runner.pc \in Working

LockInv ==
  /\ script_count \in {0, 1}
  /\ runner.pc \in Holding \cup {"none", "return", "ended"}
  /\ script_count = 1 <=> (MainHolds \/ runner.pc \in Holding)
  /\ ~(MainHolds /\ runner.pc \in Holding)
  /\ script_ctx.is_tid_valid => runner.pc # "none"
  /\ ~script_ctx.is_tid_valid => runner.pc \in {"none", "ended"}

ContextInv ==
  /\ got \in 0 .. MaxCommands
  /\ script_ctx.id \in 0 .. got
  /\ runner.pc \in Holding => script_ctx.id # 0
  /\ main \in {"acquire", "join"} => script_ctx.id < got
  /\ main \in {"create", "started"} => script_ctx.id = got /\ got # 0

AnswerInv ==
  \A id \in Ids : finals[id] = IF id > got \/ Due(id) THEN 0 ELSE 1

ScriptInv == ScriptTypeOK /\ LockInv /\ ContextInv /\ AnswerInv

\* What a step of Jobs that is not one of Script does to the variables of
\* Script: a command is answered, an upgrade is answered and its reports are
\* started, or nothing.
Answered ==
  /\ main = "idle"
  /\ got < MaxCommands
  /\ got' = got + 1
  /\ action_reply(got + 1)
  /\ main' \in {"idle", "poll"}
  /\ UNCHANGED <<type, c, script_count, script_ctx, runner>>

Polling ==
  /\ main \in {"poll", "destroy"}
  /\ main' \in {"destroy", "idle"}
  /\ UNCHANGED <<got, type, c, script_count, script_ctx, runner, finals>>

\* The steps of Jobs as Script sees them.
LEMMA StepOfScript ==
  [Next]_vars => ScriptNext \/ Answered \/ Polling \/ UNCHANGED scriptVars
  BY DEF Next, vars, Command, Handler, proto_stop, ScriptThread, UpgradeThread,
         generic_handle, reboot_handle, rtty_handle, upgrade_failed,
         upgrade_handle, upgrade_poll_destroy, upgrade_poll, Answer, Answered,
         Polling, ScriptNext, partialupdate_daemon

\* The types of the records of a runner and of a request, and where a runner
\* can be.
LEMMA RecordTypes ==
  /\ NoRunner \in Runners
  /\ Freed \in Requests
  /\ \A uri \in BOOLEAN : [uri |-> uri, mem |-> "live"] \in Requests
  /\ \A p \in {"line", "child", "reap", "techsupport", "file", "result",
               "upload", "free", "release", "none", "return", "ended"} :
       p \in Pcs
  BY ScriptAssumption
     DEF NoRunner, Runners, Pcs, Holding, Working, Freed, Requests

\* An answer is a number more.
LEMMA ReplyType ==
  ASSUME finals \in [Ids -> Nat], NEW id, action_reply(id)
  PROVE  finals' \in [Ids -> Nat]
  <1>1. finals' = [y \in Ids |-> IF y = id THEN finals[id] + 1 ELSE finals[y]]
    BY DEF action_reply
  <1>2. \A y \in Ids : finals[y] \in Nat /\ finals[y] + 1 \in Nat
    OBVIOUS
  <1> QED
    BY <1>1, <1>2

\* The steps that matter for the lock, the context and the answers, without
\* the lines, exit statuses and buffers of the runner.
Fails ==
  /\ main \in {"acquire", "create"}
  /\ main' = "idle"
  /\ main = "acquire" => script_count = 1 /\ script_count' = 1
  /\ main = "create" => script_count' = Unlocked
  /\ action_reply(got)
  /\ UNCHANGED <<got, script_ctx, runner>>

Starts ==
  /\ main = "create"
  /\ main' = "started"
  /\ script_ctx'.is_tid_valid
  /\ script_ctx'.id = script_ctx.id
  /\ runner'.pc \in Working
  /\ UNCHANGED <<got, script_count, finals>>

Works ==
  /\ runner.pc \in Working
  /\ runner'.pc \in Working
  /\ UNCHANGED <<got, main, script_count, script_ctx, finals>>

Replies ==
  /\ runner.pc \in Working
  /\ runner'.pc = "free"
  /\ action_reply(script_ctx.id)
  /\ UNCHANGED <<got, main, script_count, script_ctx>>

Leaves ==
  /\ \/ runner.pc = "free" /\ runner'.pc = "release" /\ UNCHANGED script_count
     \/ /\ runner.pc = "release"
        /\ runner'.pc = "return"
        /\ script_count' = Unlocked
     \/ runner.pc = "return" /\ runner'.pc = "ended" /\ UNCHANGED script_count
  /\ UNCHANGED <<got, main, script_ctx, finals>>

Reads ==
  /\ main = "started"
  /\ main' = "idle"
  /\ UNCHANGED <<got, script_count, script_ctx, runner, finals>>

Accepts ==
  /\ main = "idle"
  /\ main' = "acquire"
  /\ got < MaxCommands
  /\ got' = got + 1
  /\ UNCHANGED <<script_count, script_ctx, runner, finals>>

Idles ==
  \/ Reads
  \/ Polling
  \/ UNCHANGED <<got, main, script_count, script_ctx, runner, finals>>

Refuses ==
  /\ main = "idle"
  /\ main' \in {"idle", "poll"}
  /\ got < MaxCommands
  /\ got' = got + 1
  /\ action_reply(got + 1)
  /\ UNCHANGED <<script_count, script_ctx, runner>>

\* Every step of Jobs has one of these shapes.
LEMMA Shapes ==
  ASSUME ScriptTypeOK, [Next]_vars
  PROVE  \/ Refuses
         \/ Accepts
         \/ Fails
         \/ script_lock_aquire
         \/ script_join
         \/ Starts
         \/ Works
         \/ Replies
         \/ Leaves
         \/ Idles
  <1>0. runner \in Runners /\ script_ctx \in Contexts /\ script_count \in 0 .. 1
    BY DEF ScriptTypeOK
  <1>1. script_invalid => Refuses
    BY DEF script_invalid, handlerVars, Refuses
  <1>2. script_timeout_invalid => Refuses
    BY DEF script_timeout_invalid, handlerVars, Refuses
  <1>3. script_plat_handle => Accepts
    BY DEF script_plat_handle, handlerVars, Accepts
  <1>4. script_refuse => Fails
    BY <1>0 DEF script_refuse, RunFailed, handlerVars, Fails
  <1>5. script_create_fails => Fails
    BY DEF script_create_fails, RunFailed, handlerVars, Fails
  <1>6. script_create => Starts
    BY <1>0
       DEF script_create, handlerVars, Starts, Runners, Working, NoRunner,
           Contexts
  <1>7. script_pending => Idles
    BY DEF script_pending, handlerVars, Idles, Reads
  <1>8. script_lines_end => Works
    BY <1>0
       DEF script_lines_end, runnerFrame, handlerVars, Works, Runners, Working
  <1>9. script_line => Works
    BY <1>0 DEF script_line, runnerFrame, handlerVars, Works, Runners, Working
  <1>10. script_child => Works
    BY <1>0 DEF script_child, runnerFrame, handlerVars, Works, Runners, Working
  <1>11. script_reap => Works
    BY <1>0 DEF script_reap, runnerFrame, handlerVars, Works, Runners, Working
  <1>12. diagnostic_start => Works
    BY <1>0
       DEF diagnostic_start, runnerFrame, handlerVars, Works, Runners, Working
  <1>13. diagnostic_file => Works
    BY <1>0
       DEF diagnostic_file, runnerFrame, handlerVars, Works, Runners, Working
  <1>14. script_result_cb => Works \/ Replies
    BY <1>0 DEF script_result_cb, handlerVars, Works, Replies, Runners, Working
  <1>15. script_uploaded => Replies
    BY <1>0 DEF script_uploaded, handlerVars, Replies, Runners, Working
  <1>16. script_ctx_free => Leaves
    BY <1>0
       DEF script_ctx_free, handlerVars, Leaves, Runners, Working, NoRunner
  <1>17. script_lock_release => Leaves
    BY <1>0 DEF script_lock_release, handlerVars, Leaves, Runners, Working
  <1>18. runner_return => Leaves
    BY <1>0
       DEF runner_return, runnerFrame, handlerVars, Leaves, Runners, Working
  <1>19. Answered => Refuses
    BY DEF Answered, handlerVars, Refuses
  <1>20. Polling => Idles
    BY DEF Polling, Idles
  <1>21. UNCHANGED scriptVars => Idles
    BY DEF scriptVars, handlerVars, Idles
  <1> QED
    BY <1>1, <1>2, <1>3, <1>4, <1>5, <1>6, <1>7, <1>8, <1>9, <1>10, <1>11,
       <1>12, <1>13, <1>14, <1>15, <1>16, <1>17, <1>18, <1>19, <1>20, <1>21,
            StepOfScript
       DEF ScriptNext, script_handle, plat_run_script, script_runner

\* The inductive invariant of the script command.
THEOREM ScriptCorrect == Spec => []ScriptInv
  <1>1. Init => ScriptInv
    <2> SUFFICES ASSUME Init PROVE ScriptInv
      OBVIOUS
    <2>1. script_ctx \in Contexts /\ c \in [Ids -> Requests]
      BY ScriptAssumption DEF Init, ScriptInit, Contexts, Requests
    <2>2. ScriptTypeOK
      BY <2>1, RecordTypes, ScriptAssumption DEF Init, ScriptInit, ScriptTypeOK
    <2>3. runner.pc = "none"
      BY DEF Init, ScriptInit, NoRunner
    <2> QED
      BY <2>2, <2>3, ScriptAssumption
         DEF Init, ScriptInit, ScriptInv, LockInv, MainHolds, ContextInv,
             AnswerInv, Due, Ids, Holding, Working
  \* Types.
  <1>2. ScriptTypeOK /\ [Next]_vars => ScriptTypeOK'
    <2> SUFFICES ASSUME ScriptTypeOK, [Next]_vars
                 PROVE  ScriptTypeOK'
      OBVIOUS
    <2>0. runner \in Runners /\ script_ctx \in Contexts /\ finals \in [Ids -> Nat]
      BY DEF ScriptTypeOK
    <2>1. CASE script_invalid
      <3>1. finals' \in [Ids -> Nat]
        BY <2>1, <2>0, ReplyType DEF script_invalid
      <3> QED
        BY <2>1, <3>1, ScriptAssumption
           DEF script_invalid, handlerVars, ScriptTypeOK
    <2>2. CASE script_timeout_invalid
      <3>1. c' \in [Ids -> Requests]
        BY <2>2, RecordTypes DEF script_timeout_invalid, ScriptTypeOK
      <3>2. finals' \in [Ids -> Nat]
        BY <2>2, <2>0, ReplyType DEF script_timeout_invalid
      <3> QED
        BY <2>2, <3>1, <3>2, ScriptAssumption
           DEF script_timeout_invalid, handlerVars, ScriptTypeOK
    <2>3. CASE script_plat_handle
      <3>1. c' \in [Ids -> Requests]
        BY <2>3, RecordTypes DEF script_plat_handle, ScriptTypeOK
      <3> QED
        BY <2>3, <3>1, ScriptAssumption
           DEF script_plat_handle, handlerVars, ScriptTypeOK
    <2>4. CASE script_refuse
      <3>1. c' \in [Ids -> Requests]
        BY <2>4, RecordTypes DEF script_refuse, RunFailed, ScriptTypeOK
      <3>2. finals' \in [Ids -> Nat]
        BY <2>4, <2>0, ReplyType DEF script_refuse, RunFailed
      <3> QED
        BY <2>4, <3>1, <3>2
           DEF script_refuse, RunFailed, handlerVars, ScriptTypeOK
    <2>5. CASE script_lock_aquire
      BY <2>5 DEF script_lock_aquire, handlerVars, ScriptTypeOK
    <2>6. CASE script_join
      <3>1. script_ctx' \in Contexts
        BY <2>6 DEF script_join, Contexts, ScriptTypeOK
      <3> QED
        BY <2>6, <3>1 DEF script_join, handlerVars, ScriptTypeOK
    <2>7. CASE script_create_fails
      <3>1. c' \in [Ids -> Requests]
        BY <2>7, RecordTypes DEF script_create_fails, RunFailed, ScriptTypeOK
      <3>2. finals' \in [Ids -> Nat]
        BY <2>7, <2>0, ReplyType DEF script_create_fails, RunFailed
      <3> QED
        BY <2>7, <3>1, <3>2
           DEF script_create_fails, RunFailed, handlerVars, ScriptTypeOK,
               Unlocked
    <2>8. CASE script_create
      <3>1. runner' \in Runners
        BY <2>8, RecordTypes DEF script_create, Runners
      <3>2. script_ctx' \in Contexts
        BY <2>8 DEF script_create, Contexts, ScriptTypeOK
      <3> QED
        BY <2>8, <3>1, <3>2 DEF script_create, handlerVars, ScriptTypeOK
    <2>9. CASE script_pending
      BY <2>9 DEF script_pending, handlerVars, ScriptTypeOK
    <2>10. CASE script_lines_end
      <3>1. runner' \in Runners
        BY <2>10, <2>0, RecordTypes DEF script_lines_end, runnerFrame, Runners
      <3> QED
        BY <2>10, <3>1
           DEF script_lines_end, runnerFrame, handlerVars, ScriptTypeOK
    <2>11. CASE script_line
      <3>1. runner.lines - 1 \in 0 .. MaxLines
        BY <2>11, <2>0, ScriptAssumption DEF script_line, Runners
      <3>2. runner' \in Runners
        BY <2>11, <2>0, <3>1, RecordTypes DEF script_line, runnerFrame, Runners
      <3> QED
        BY <2>11, <3>1, <3>2
           DEF script_line, runnerFrame, handlerVars, ScriptTypeOK
    <2>12. CASE script_child
      <3>1. runner' \in Runners
        BY <2>12, <2>0, RecordTypes DEF script_child, runnerFrame, Runners
      <3> QED
        BY <2>12, <3>1 DEF script_child, runnerFrame, handlerVars, ScriptTypeOK
    <2>13. CASE script_reap
      <3>1. runner' \in Runners
        BY <2>13, <2>0, RecordTypes DEF script_reap, runnerFrame, Runners
      <3> QED
        BY <2>13, <3>1 DEF script_reap, runnerFrame, handlerVars, ScriptTypeOK
    <2>14. CASE diagnostic_start
      <3>1. runner' \in Runners
        <4>1. CASE runner' = [runner EXCEPT !.pc = "file"]
          BY <4>1, <2>0, RecordTypes DEF Runners
        <4>2. CASE runner' = [runner EXCEPT !.pc = "result", !.status = 1]
          <5>1. "result" \in Pcs /\ 1 \in 0 .. 1
            BY RecordTypes
          <5> QED
            BY <4>2, <2>0, <5>1 DEF Runners
        <4> QED
          BY <2>14, <4>1, <4>2 DEF diagnostic_start
      <3> QED
        BY <2>14, <3>1
           DEF diagnostic_start, runnerFrame, handlerVars, ScriptTypeOK
    <2>15. CASE diagnostic_file
      <3>1. runner' \in Runners
        BY <2>15, <2>0, RecordTypes DEF diagnostic_file, runnerFrame, Runners
      <3> QED
        BY <2>15, <3>1
           DEF diagnostic_file, runnerFrame, handlerVars, ScriptTypeOK
    <2>16. CASE script_result_cb
      <3>1. runner' \in Runners
        BY <2>16, <2>0, RecordTypes DEF script_result_cb, Runners
      <3>2. finals' \in [Ids -> Nat]
        BY <2>16, <2>0, ReplyType DEF script_result_cb
      <3> QED
        BY <2>16, <3>1, <3>2 DEF script_result_cb, handlerVars, ScriptTypeOK
    <2>17. CASE script_uploaded
      <3>1. runner' \in Runners
        BY <2>17, <2>0, RecordTypes DEF script_uploaded, Runners
      <3>2. finals' \in [Ids -> Nat]
        BY <2>17, <2>0, ReplyType DEF script_uploaded
      <3> QED
        BY <2>17, <3>1, <3>2 DEF script_uploaded, handlerVars, ScriptTypeOK
    <2>18. CASE script_ctx_free
      <3>1. runner' \in Runners
        BY <2>18, RecordTypes DEF script_ctx_free, Runners
      <3>2. c' \in [Ids -> Requests]
        BY <2>18, RecordTypes DEF script_ctx_free, ScriptTypeOK
      <3> QED
        BY <2>18, <3>1, <3>2 DEF script_ctx_free, handlerVars, ScriptTypeOK
    <2>19. CASE script_lock_release
      <3>1. runner' \in Runners
        BY <2>19, <2>0, RecordTypes DEF script_lock_release, Runners
      <3> QED
        BY <2>19, <3>1
           DEF script_lock_release, handlerVars, ScriptTypeOK, Unlocked
    <2>20. CASE runner_return
      <3>1. runner' \in Runners
        BY <2>20, <2>0, RecordTypes DEF runner_return, runnerFrame, Runners
      <3> QED
        BY <2>20, <3>1 DEF runner_return, runnerFrame, handlerVars, ScriptTypeOK
    <2>21. CASE Answered
      <3>1. finals' \in [Ids -> Nat]
        BY <2>21, <2>0, ReplyType DEF Answered
      <3> QED
        BY <2>21, <3>1, ScriptAssumption DEF Answered, handlerVars, ScriptTypeOK
    <2>22. CASE Polling
      BY <2>22 DEF Polling, handlerVars, ScriptTypeOK
    <2>23. CASE UNCHANGED scriptVars
      BY <2>23 DEF scriptVars, handlerVars, ScriptTypeOK
    <2> QED
      BY <2>1, <2>2, <2>3, <2>4, <2>5, <2>6, <2>7, <2>8, <2>9, <2>10, <2>11,
         <2>12, <2>13, <2>14, <2>15, <2>16, <2>17, <2>18, <2>19, <2>20, <2>21,
              <2>22, <2>23, StepOfScript
         DEF ScriptNext, script_handle, plat_run_script, script_runner
  \* The lock has one holder.
  <1>3. ScriptTypeOK /\ LockInv /\ [Next]_vars => LockInv'
    <2> SUFFICES ASSUME ScriptTypeOK, LockInv, [Next]_vars
                 PROVE  LockInv'
      OBVIOUS
    <2> USE ScriptAssumption DEF LockInv, MainHolds, Holding, Working
    <2>1. CASE Refuses
      BY <2>1 DEF Refuses, action_reply
    <2>2. CASE Accepts
      BY <2>2 DEF Accepts
    <2>3. CASE Fails
      BY <2>3 DEF Fails, action_reply, Unlocked
    <2>4. CASE script_lock_aquire
      BY <2>4 DEF script_lock_aquire
    <2>5. CASE script_join
      BY <2>5 DEF script_join, Contexts
    <2>6. CASE Starts
      BY <2>6 DEF Starts
    <2>7. CASE Works
      BY <2>7 DEF Works
    <2>8. CASE Replies
      BY <2>8 DEF Replies, action_reply
    <2>9. CASE Leaves
      BY <2>9 DEF Leaves, Unlocked
    <2>10. CASE Idles
      BY <2>10 DEF Idles, Reads, Polling
    <2> QED
      BY <2>1, <2>2, <2>3, <2>4, <2>5, <2>6, <2>7, <2>8, <2>9, <2>10, Shapes
  \* The context is the holder's.
  <1>4. ScriptTypeOK /\ LockInv /\ ContextInv /\ [Next]_vars => ContextInv'
    <2> SUFFICES ASSUME ScriptTypeOK, LockInv, ContextInv, [Next]_vars
                 PROVE  ContextInv'
      OBVIOUS
    <2> USE ScriptAssumption DEF LockInv, MainHolds, Holding, Working, ContextInv
    <2>1. CASE Refuses
      BY <2>1 DEF Refuses, action_reply
    <2>2. CASE Accepts
      BY <2>2 DEF Accepts
    <2>3. CASE Fails
      BY <2>3 DEF Fails, action_reply, Unlocked
    <2>4. CASE script_lock_aquire
      BY <2>4 DEF script_lock_aquire
    <2>5. CASE script_join
      BY <2>5 DEF script_join, Contexts
    <2>6. CASE Starts
      BY <2>6 DEF Starts
    <2>7. CASE Works
      BY <2>7 DEF Works
    <2>8. CASE Replies
      BY <2>8 DEF Replies, action_reply
    <2>9. CASE Leaves
      BY <2>9 DEF Leaves, Unlocked
    <2>10. CASE Idles
      BY <2>10 DEF Idles, Reads, Polling
    <2> QED
      BY <2>1, <2>2, <2>3, <2>4, <2>5, <2>6, <2>7, <2>8, <2>9, <2>10, Shapes
  \* Who owes an answer gives one.
  <1>5. ScriptTypeOK /\ LockInv /\ ContextInv /\ AnswerInv /\ [Next]_vars => AnswerInv'
    <2> SUFFICES ASSUME ScriptTypeOK, LockInv, ContextInv, AnswerInv, [Next]_vars
                 PROVE  AnswerInv'
      OBVIOUS
    <2> USE ScriptAssumption
          DEF ScriptTypeOK, Ids, LockInv, MainHolds, Holding, Working,
              ContextInv, AnswerInv, Due
    <2>1. CASE Refuses
      BY <2>1 DEF Refuses, action_reply
    <2>2. CASE Accepts
      BY <2>2 DEF Accepts
    <2>3. CASE Fails
      BY <2>3 DEF Fails, action_reply, Unlocked
    <2>4. CASE script_lock_aquire
      BY <2>4 DEF script_lock_aquire
    <2>5. CASE script_join
      BY <2>5 DEF script_join, Contexts
    <2>6. CASE Starts
      BY <2>6 DEF Starts
    <2>7. CASE Works
      BY <2>7 DEF Works
    <2>8. CASE Replies
      BY <2>8 DEF Replies, action_reply
    <2>9. CASE Leaves
      BY <2>9 DEF Leaves, Unlocked
    <2>10. CASE Idles
      BY <2>10 DEF Idles, Reads, Polling
    <2> QED
      BY <2>1, <2>2, <2>3, <2>4, <2>5, <2>6, <2>7, <2>8, <2>9, <2>10, Shapes
  <1>6. ScriptInv /\ [Next]_vars => ScriptInv'
    BY <1>2, <1>3, <1>4, <1>5 DEF ScriptInv
  <1> QED
    BY <1>1, <1>6, PTL DEF Spec

\* Every command is answered exactly once (OneFinalReply), for any number of
\* commands, of whatever kind, and however the runner interleaves with them.
THEOREM AnsweredOnce == Spec => []OneFinalReply
  <1>1. ScriptInv => OneFinalReply
    BY ScriptAssumption
       DEF ScriptInv, ContextInv, AnswerInv, Due, OneFinalReply, InHand, Ids
  <1> QED
    BY <1>1, ScriptCorrect, PTL

\* The main thread joins only runners that are about to return (JoinIsShort).
THEOREM JoinsAreShort == Spec => []JoinIsShort
  <1>1. ScriptInv => JoinIsShort
    BY DEF ScriptInv, LockInv, MainHolds, JoinIsShort
  <1> QED
    BY <1>1, ScriptCorrect, PTL

\* The context does not change under a runner that uses it (ContextIsStable).
THEOREM ContextStable == Spec => ContextIsStable
  <1>1. ScriptInv /\ [Next]_vars
          => [runner.pc \in Holding /\ runner'.pc \in Holding
                => script_ctx'.id = script_ctx.id]_scriptVars
    <2> SUFFICES ASSUME ScriptInv, [Next]_vars,
                        runner.pc \in Holding, runner'.pc \in Holding
                 PROVE  script_ctx'.id = script_ctx.id
      OBVIOUS
    <2>1. ~script_join
      BY DEF ScriptInv, LockInv, MainHolds, script_join
    <2> QED
      BY <2>1, Shapes
         DEF ScriptInv, Refuses, Accepts, Fails, script_lock_aquire, Starts,
             Works,
             Replies, Leaves, Idles, Reads, Polling
  <1> QED
    BY <1>1, ScriptCorrect, PTL DEF Spec, ContextIsStable

-----------------------------------------------------------------------------
(***************************************************************************)
(* Upgrades.  As long as they do not overlap, the one thread that downloads *)
(* and the one that reports are about the upgrade that was asked for last, *)
(* and img_dl_task stays active until the switch has taken the image over. *)
(***************************************************************************)

UpgradeInv ==
  /\ img_dl_task \in [upgrade_state : States, active : BOOLEAN]
  /\ loader \in [UpgradeIds -> Ended \cup Loading]
  /\ image \in [state : States, for : UpgradeIds \cup {0}]
  /\ image.state = "SUCCESS" => image.for \in installed
  /\ poll \notin Ended => upgrade # 0
  /\ main \in {"poll", "destroy"} => upgrade # 0
  /\ \A id \in UpgradeIds : loader[id] = "handed" => id \in handed
  /\ ~overlap =>
       /\ \A id \in UpgradeIds :
            /\ loader[id] \notin Ended => id = upgrade /\ img_dl_task.active
            /\ loader[id] \in {"started", "inactive"} => image.for = id
       /\ img_dl_task.upgrade_state = "SUCCESS" => upgrade \in handed
       /\ upgrade # 0 /\ ~img_dl_task.active => image.for = upgrade
       /\ poll = "switch" => image.for = upgrade

\* The steps of Jobs as Upgrade sees them.
Elsewhere ==
  /\ main' \in {"poll", "destroy"} => main \in {"poll", "destroy"}
  /\ installed \subseteq installed'
  /\ UNCHANGED <<img_dl_task, loader, image, poll, upgrade, handed, overlap>>

\* Every step of Jobs is one of these to the upgrades.
LEMMA StepOfUpgrade ==
  [Next]_vars =>
    \/ \E id \in UpgradeIds : plat_img_dl_start(id)
    \/ \E id : plat_img_dl_start_fails(id) /\ UNCHANGED main
    \/ main = "destroy" /\ main' = "idle" /\ plat_upgrade_poll
    \/ plat_upgrade_poll_stop /\ UNCHANGED main
    \/ ~rebooted /\ (plat_upgrade_state \/ UpgradeThreads) /\ UNCHANGED main
    \/ Elsewhere /\ (poll' # poll => poll' # "ended")
  <1>1. ScriptNext => main' = main \/ main' \notin {"poll", "destroy"}
    BY DEF ScriptNext, script_handle, plat_run_script, script_runner,
           script_invalid, script_timeout_invalid, script_plat_handle,
           script_refuse, script_create_fails, RunFailed, script_lock_aquire,
           script_join, script_create, script_pending, script_lines_end,
           script_line, script_child, script_reap, diagnostic_start,
           diagnostic_file, script_result_cb, script_uploaded, script_ctx_free,
           script_lock_release, runner_return, runnerFrame, handlerVars
  <1> QED
    BY <1>1
       DEF Next, vars, Command, Handler, proto_stop, ScriptThread,
           UpgradeThread,
           Up, generic_handle, reboot_handle, rtty_handle, upgrade_failed,
           upgrade_handle, upgrade_poll_destroy, upgrade_poll, Answer,
           periodic_thread, ScriptNext, Elsewhere, upgradeVars, scriptVars,
           handlerVars, installVars, partialupdate_daemon, partialupdate,
           dpkg_remove, dpkg_install, dpkg_fails, scriptFrame

\* The reports reboot the switch only for a full image that is installed or
\* a package that the script was given (RebootOnlyComplete), for any number
\* of upgrades, one after the other, and whatever the script does meanwhile.
THEOREM RebootsComplete == Spec => RebootOnlyComplete
  <1>1. UpgradeInv /\ [Next]_vars
          => [PollReboots /\ ~overlap => upgrade \in installed \cup handed]_upgradeVars
    <2> SUFFICES ASSUME UpgradeInv, [Next]_vars,
                        poll # "ended", poll' = "ended", rebooted', ~overlap
                 PROVE  upgrade \in installed \cup handed
      BY DEF PollReboots
    <2>1. ~rebooted /\ upgrade_periodic_cb
      BY StepOfUpgrade
         DEF plat_img_dl_start, plat_img_dl_start_fails, plat_upgrade_poll,
             plat_upgrade_poll_stop, plat_upgrade_state, UpgradeThreads,
             img_dl_done, img_dl_entrypoint, img_dl_start_partial_upgrade,
             img_dl_success, gnma_image_install, img_dl_install,
             img_dl_inactive, img_dl_err, loaderFrame, ImageStep,
             gnma_image_install_status_fails, Elsewhere, Ended
    <2>2. CASE upgrade_state_task
      BY <2>1, <2>2 DEF upgrade_state_task, upgrade_status_send, UpgradeInv
    <2>3. CASE __plat_upgrade_state_gnmi
      BY <2>1, <2>3
         DEF __plat_upgrade_state_gnmi, upgrade_status_send, UpgradeInv
    <2> QED
      BY <2>1, <2>2, <2>3 DEF upgrade_periodic_cb
  <1>2. Init => UpgradeInv
    BY UpgradeAssumption
       DEF Init, UpgradeInit, ScriptInit, UpgradeInv, States, Ended, Loading
  \* Each step of the main thread, of the download, of the switch and of the
  \* reports keeps UpgradeInv.
  <1>3. UpgradeInv /\ [Next]_vars => UpgradeInv'
    <2> SUFFICES ASSUME UpgradeInv, [Next]_vars PROVE UpgradeInv'
      OBVIOUS
    <2> USE UpgradeAssumption DEF UpgradeInv, States, Ended, Loading, installVars
    <2>1. ASSUME NEW id \in UpgradeIds, plat_img_dl_start(id)
          PROVE  UpgradeInv'
      BY <2>1 DEF plat_img_dl_start, Busy
    <2>2. ASSUME NEW id, plat_img_dl_start_fails(id), UNCHANGED main
          PROVE  UpgradeInv'
      BY <2>2 DEF plat_img_dl_start_fails, Busy
    <2>3. CASE main = "destroy" /\ main' = "idle" /\ plat_upgrade_poll
      BY <2>3 DEF plat_upgrade_poll
    <2>4. CASE plat_upgrade_poll_stop /\ UNCHANGED main
      BY <2>4 DEF plat_upgrade_poll_stop
    <2>5. CASE plat_upgrade_state /\ UNCHANGED main
      BY <2>5 DEF plat_upgrade_state, pollFrame
    <2>6. ASSUME NEW id \in UpgradeIds, UNCHANGED main
          PROVE  /\ img_dl_done(id) => UpgradeInv'
                 /\ img_dl_start_partial_upgrade(id) => UpgradeInv'
                 /\ img_dl_success(id) => UpgradeInv'
                 /\ gnma_image_install(id) => UpgradeInv'
                 /\ img_dl_install(id) => UpgradeInv'
                 /\ img_dl_inactive(id) => UpgradeInv'
                 /\ img_dl_err(id) => UpgradeInv'
      <3>1. img_dl_done(id) => UpgradeInv'
        BY <2>6 DEF img_dl_done, loaderFrame
      <3>2. img_dl_start_partial_upgrade(id) => UpgradeInv'
        BY <2>6 DEF img_dl_start_partial_upgrade
      <3>3. img_dl_success(id) => UpgradeInv'
        BY <2>6 DEF img_dl_success, loaderFrame
      <3>4. gnma_image_install(id) => UpgradeInv'
        BY <2>6 DEF gnma_image_install
      <3>5. img_dl_install(id) => UpgradeInv'
        BY <2>6 DEF img_dl_install, loaderFrame
      <3>6. img_dl_inactive(id) => UpgradeInv'
        <4> SUFFICES ASSUME img_dl_inactive(id) PROVE UpgradeInv'
          OBVIOUS
        <4>1. img_dl_task' \in [upgrade_state : States, active : BOOLEAN]
          BY DEF img_dl_inactive
        <4>2. img_dl_task'.upgrade_state = img_dl_task.upgrade_state
          BY DEF img_dl_inactive
        <4>3. /\ loader' \in [UpgradeIds -> Ended \cup Loading]
              /\ loader'[id] = "ended"
              /\ \A o \in UpgradeIds \ {id} : loader'[o] = loader[o]
          BY DEF img_dl_inactive
        <4>4. ~overlap => /\ upgrade = id /\ image.for = id
                          /\ \A o \in UpgradeIds \ {id} : loader[o] \in Ended
          BY DEF img_dl_inactive
        <4>5. UNCHANGED <<image, poll, upgrade, handed, installed, overlap>>
          BY DEF img_dl_inactive, loaderFrame, installVars
        <4> QED
          BY <2>6, <4>1, <4>2, <4>3, <4>4, <4>5
      <3>7. img_dl_err(id) => UpgradeInv'
        BY <2>6 DEF img_dl_err, loaderFrame
      <3> QED
        BY <3>1, <3>2, <3>3, <3>4, <3>5, <3>6, <3>7
    <2>7. CASE ImageStep /\ UNCHANGED main
      BY <2>7 DEF ImageStep
    <2>8. CASE upgrade_periodic_cb /\ UNCHANGED main
      BY <2>8
         DEF upgrade_periodic_cb, upgrade_state_task, __plat_upgrade_state_gnmi,
                  upgrade_status_send, pollFrame
    <2>9. CASE gnma_image_install_status_fails /\ UNCHANGED main
      BY <2>9 DEF gnma_image_install_status_fails, pollFrame
    <2>10. CASE Elsewhere
      BY <2>10 DEF Elsewhere
    <2> QED
      BY <2>1, <2>2, <2>3, <2>4, <2>5, <2>6, <2>7, <2>8, <2>9, <2>10,
         StepOfUpgrade
         DEF UpgradeThreads, img_dl_entrypoint
  <1> QED
    BY <1>1, <1>2, <1>3, PTL DEF Spec, RebootOnlyComplete

-----------------------------------------------------------------------------
(***************************************************************************)
(* Terminals.  A process runs or waits to be reaped, never both, so the    *)
(* slots that are left after the reaping are those of the processes that   *)
(* run, and the one that is killed for the new session is one of them.     *)
(***************************************************************************)

RttyInv ==
  /\ IsFiniteSet(child)
  /\ child \subseteq Nat
  /\ alive \cap zombies = {}
  /\ SessionsBounded

\* Every process of a terminal has a slot, and there are never more than
\* RTTY_SESS_MAX of them (SessionsBounded), for any size of the table and
\* any number of sessions that end, fail to start and are killed.
THEOREM SessionsAreBounded == Spec => []SessionsBounded
  <1>1. Init => RttyInv
    BY FS_EmptySet, RttyAssumption
       DEF Init, ScriptInit, RttyInit, RttyInv, SessionsBounded
  <1>2. ASSUME ScriptInv, RttyInv, [Next]_vars
        PROVE  RttyInv'
    <2>0. /\ IsFiniteSet(child)
          /\ child \in SUBSET Nat
          /\ Reaped \in SUBSET child
      BY <1>2 DEF RttyInv, Reaped
    <2>1. IsFiniteSet(Reaped) /\ Cardinality(Reaped) <= RTTY_SESS_MAX
      <3>1. /\ IsFiniteSet(Reaped)
            /\ Cardinality(Reaped) <= Cardinality(child)
        BY <2>0, FS_Subset
      <3>2. Cardinality(Reaped) \in Nat /\ Cardinality(child) \in Nat
        BY <2>0, <3>1, FS_CardinalityType
      <3> QED
        BY <1>2, <3>1, <3>2, RttyAssumption DEF RttyInv, SessionsBounded
    <2>2. CASE rtty_handle
      <3>1. PICK ok \in BOOLEAN : plat_rtty(got + 1, ok)
        BY <2>2 DEF rtty_handle
      <3> DEFINE kept == Reaped \ Killed(Reaped)
                 forked == IF ok THEN {got + 1} ELSE {}
      <3>2. got + 1 \in Nat
        BY <1>2, ScriptAssumption DEF ScriptInv, ContextInv
      <3>3. /\ child' = kept \cup forked
            /\ alive' = (alive \ Killed(Reaped)) \cup forked
            /\ zombies' = zombies \ child
        BY <3>1 DEF plat_rtty
      <3>4. zombies' = {} /\ alive \subseteq Reaped
        BY <1>2, <3>3 DEF RttyInv, SessionsBounded, Reaped
      <3>5. alive' \cup zombies' \subseteq child'
        BY <3>3, <3>4
      <3>6. child' \subseteq Nat
        BY <2>0, <3>2, <3>3
      <3>7. IsFiniteSet(child') /\ Cardinality(child') <= RTTY_SESS_MAX
        <4> HIDE DEF kept
        \* A full table has an oldest session, and killing it makes room.
        <4>1. IsFiniteSet(kept) /\ Cardinality(kept) < RTTY_SESS_MAX
          <5> SUFFICES ASSUME Reaped \in SUBSET Nat, IsFiniteSet(Reaped),
                              Cardinality(Reaped) <= RTTY_SESS_MAX
                       PROVE  /\ IsFiniteSet(Reaped \ Killed(Reaped))
                              /\ Cardinality(Reaped \ Killed(Reaped))
                                   < RTTY_SESS_MAX
            BY <2>0, <2>1 DEF kept
          <5>0. Cardinality(Reaped) \in Nat /\ RTTY_SESS_MAX \in Nat \ {0}
            BY FS_CardinalityType, RttyAssumption
          <5>1. CASE Cardinality(Reaped) = RTTY_SESS_MAX
            <6>1. Reaped # {}
              BY <5>0, <5>1, FS_EmptySet
            <6>2. PICK x \in Reaped : \A y \in Reaped : ~ (<<y, x>> \in OpToRel(<, Nat))
              BY <6>1, NatLessThanWellFounded, WFMin
            <6>3. \A y \in Reaped : x <= y
              <7>1. \A y \in Reaped : ~ (y < x)
                BY <6>2, Zenon DEF OpToRel
              <7> QED
                BY <7>1
            <6>4. Min(Reaped) \in Reaped
              BY <6>3 DEF Min
            <6>5. Killed(Reaped) = {Min(Reaped)}
              BY <5>1 DEF Killed
            <6>6. /\ IsFiniteSet(Reaped \ {Min(Reaped)})
                  /\ Cardinality(Reaped \ {Min(Reaped)}) = Cardinality(Reaped) - 1
              BY <6>4, FS_RemoveElement
            <6> QED
              BY <5>0, <5>1, <6>4, <6>5, <6>6
          <5>2. CASE Cardinality(Reaped) # RTTY_SESS_MAX
            <6>1. Killed(Reaped) = {} /\ Reaped \ Killed(Reaped) = Reaped
              BY <5>2 DEF Killed
            <6> QED
              BY <5>0, <5>2, <6>1
          <5> QED
            BY <5>1, <5>2
        <4>2. Cardinality(kept) \in Nat /\ RTTY_SESS_MAX \in Nat
          BY <4>1, FS_CardinalityType, RttyAssumption
        <4>3. child' = kept \/ child' = kept \cup {got + 1}
          BY <3>3
        <4>4. /\ IsFiniteSet(kept \cup {got + 1})
              /\ Cardinality(kept \cup {got + 1}) <= Cardinality(kept) + 1
          BY <4>1, <4>2, FS_AddElement
        <4>5. Cardinality(kept \cup {got + 1}) \in Nat
          BY <4>4, FS_CardinalityType
        <4> QED
          BY <4>1, <4>2, <4>3, <4>4, <4>5
      <3> QED
        BY <3>4, <3>5, <3>6, <3>7 DEF RttyInv, SessionsBounded
    <2>3. CASE \E pid \in alive : SessionEnds(pid)
      BY <1>2, <2>3 DEF SessionEnds, RttyInv, SessionsBounded
    <2>4. CASE UNCHANGED rttyVars
      BY <1>2, <2>4 DEF rttyVars, RttyInv, SessionsBounded
    <2> QED
      BY <1>2, <2>2, <2>3, <2>4
         DEF Next, vars, Command, Handler, proto_stop, ScriptThread,
             UpgradeThread, generic_handle, reboot_handle, upgrade_failed,
             upgrade_handle, upgrade_poll_destroy, upgrade_poll,
             partialupdate_daemon, rttyVars
  <1>3. RttyInv => SessionsBounded
    BY DEF RttyInv
  <1> QED
    BY <1>1, <1>2, <1>3, ScriptCorrect, PTL DEF Spec

=============================================================================
