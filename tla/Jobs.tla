-------------------------------- MODULE Jobs --------------------------------
(***************************************************************************)
(* The commands that start something that goes on after they are answered  *)
(* (scripts, upgrades, remote terminals): the threads and processes of     *)
(* Script, Upgrade and Rtty under the one main thread that runs every      *)
(* handler and, in the end, proto_stop().                                  *)
(***************************************************************************)
EXTENDS Script, Upgrade, Rtty

CONSTANT ScriptIds  \* the commands that may be scripts

VARIABLE quit  \* the client has ended

vars == <<scriptVars, upgradeVars, rttyVars, quit>>

Init == ScriptInit /\ UpgradeInit /\ RttyInit /\ quit = FALSE

-----------------------------------------------------------------------------
(* proto_handle_blob() *)

\* The next command is for a handler that answers before it returns.
Answer ==
  /\ main = "idle"
  /\ got < MaxCommands
  /\ got' = got + 1
  /\ action_reply(got + 1)
  /\ UNCHANGED <<main, type, c, script_count, script_ctx, runner, quit>>

\* ping, telemetry and what generic_handle() takes, and any command with
\* parameters that are not valid.
generic_handle == Answer /\ UNCHANGED <<upgradeVars, rttyVars>>

\* The answer to a reboot goes out when the switch accepted it.
reboot_handle ==
  /\ Answer
  /\ rebooted' = TRUE
  /\ UNCHANGED <<img_dl_task, loader, image, poll, upgrade, installVars, overlap,
                 rttyVars>>

rtty_handle ==
  /\ Answer
  /\ \E ok \in BOOLEAN : plat_rtty(got + 1, ok)
  /\ UNCHANGED upgradeVars

upgrade_failed ==
  /\ Answer
  /\ got + 1 \in UpgradeIds
  /\ plat_img_dl_start_fails(got + 1)
  /\ UNCHANGED rttyVars

\* The command is answered before the reports are started.
upgrade_handle ==
  /\ main = "idle"
  /\ got < MaxCommands
  /\ got + 1 \in UpgradeIds
  /\ plat_img_dl_start(got + 1)
  /\ got' = got + 1
  /\ action_reply(got + 1)
  /\ main' = "poll"
  /\ UNCHANGED <<type, c, script_count, script_ctx, runner, rttyVars,
                 quit>>

\* periodic_destroy() sets the stop flag of the reports before it joins them.
upgrade_poll_destroy ==
  /\ main = "poll"
  /\ main' = "destroy"
  /\ UNCHANGED <<got, type, c, script_count, script_ctx, runner, finals,
                 upgradeVars, rttyVars, quit>>

upgrade_poll ==
  /\ main = "destroy"
  /\ plat_upgrade_poll
  /\ main' = "idle"
  /\ UNCHANGED <<got, type, c, script_count, script_ctx, runner, finals,
                 rttyVars, quit>>

Command ==
  \/ /\ got + 1 \in ScriptIds
     /\ script_handle
     /\ UNCHANGED <<upgradeVars, rttyVars, quit>>
  \/ generic_handle
  \/ reboot_handle
  \/ rtty_handle
  \/ upgrade_failed
  \/ upgrade_handle

Handler ==
  \/ plat_run_script /\ UNCHANGED <<upgradeVars, rttyVars, quit>>
  \/ upgrade_poll_destroy
  \/ upgrade_poll

-----------------------------------------------------------------------------
(* proto_stop() *)

\* The periodics of Polls end here too, and with main() the threads of
\* scripts and downloads.
proto_stop ==
  /\ quit = FALSE
  /\ main = "idle"
  /\ plat_upgrade_poll_stop
  /\ quit' = TRUE
  /\ UNCHANGED <<scriptVars, rttyVars>>

-----------------------------------------------------------------------------
Up == ~rebooted /\ ~quit

ScriptThread(A) == Up /\ A /\ UNCHANGED <<upgradeVars, rttyVars, quit>>

\* The reports do not begin another round with their stop flag set.
periodic_thread == main # "destroy" /\ plat_upgrade_state

UpgradeThread(A) == Up /\ A /\ UNCHANGED <<scriptVars, rttyVars, quit>>

\* The script outlives the client, and ends it when it removes its package.
partialupdate_daemon ==
  /\ ~rebooted
  /\ partialupdate
  /\ quit' = (quit \/ package'.state = "removed")
  /\ UNCHANGED <<scriptVars, rttyVars>>

Next ==
  \/ Up /\ (Command \/ Handler)
  \/ Up /\ proto_stop
  \/ ScriptThread(script_runner)
  \/ ScriptThread(diagnostic_file)
  \/ ScriptThread(script_uploaded)
  \/ UpgradeThread(periodic_thread)
  \/ UpgradeThread(UpgradeThreads)
  \/ partialupdate_daemon
  \/ /\ Up
     /\ \E pid \in alive : SessionEnds(pid)
     /\ UNCHANGED <<scriptVars, upgradeVars, quit>>

\* The handlers and the threads go on: a child process has the time-out of
\* its script and every request to the switch has one of its own.  Neither
\* the file of a diagnostic, nor an upload, nor a download need ever end.
\* The installer comes to an end, and the switch answers about it at last.
Fairness ==
  /\ WF_vars(Up /\ Handler)
  /\ WF_vars(ScriptThread(script_runner))
  /\ \A id \in UpgradeIds : WF_vars(UpgradeThread(img_dl_entrypoint(id)))
  /\ WF_vars(UpgradeThread(ImageStep))
  /\ WF_vars(UpgradeThread(periodic_thread \/ upgrade_state_task))
  /\ SF_vars(UpgradeThread(__plat_upgrade_state_gnmi))

Spec == Init /\ [][Next]_vars /\ Fairness

-----------------------------------------------------------------------------
(* Properties *)

\* A handler returns, also one that has to join a thread, and a runner gives
\* the lock back, having answered (OneFinalReply), unless it waits for the
\* file of a diagnostic or for an upload.
ScriptEnds ==
  /\ main # "idle" ~> (~Up \/ main = "idle")
  /\ runner.pc \in Holding
       ~> (~Up \/ runner.pc \notin Holding \/ runner.pc \in {"file", "upload"})

\* Once the download is over, the gateway is told how the upgrade ended: the
\* poll comes to its end, unless it could not be started or another upgrade
\* overlaps.
UpgradeEnds ==
  (upgrade # 0 /\ loader[upgrade] # "download" /\ poll \notin Ended)
    ~> (~Up \/ poll \in Ended \/ overlap)
=============================================================================
