------------------------------ MODULE Upgrade -------------------------------
(***************************************************************************)
(* The firmware upgrade (platform/brcm-sonic/plat-gnma.c,                  *)
(* upgrade_status_send() of proto.c, scripts/ucentral-partialupdate.sh).   *)
(* A thread downloads the image into one file and hands it on: a package   *)
(* to the script behind a pipe, which installs it later and tells nobody,  *)
(* a full image to the switch.  A periodic thread reads how far this is,   *)
(* from the global img_dl_task while that is active and from the switch    *)
(* afterwards, reports it, and reboots the switch at the end.              *)
(*                                                                         *)
(* Nothing keeps a second upgrade command from overwriting img_dl_task     *)
(* under the thread of the first.  Percentages, and the wording of the     *)
(* reports (last_operation is only about that), are left out.              *)
(***************************************************************************)
EXTENDS Naturals

CONSTANT UpgradeIds  \* the commands that may be upgrades

ASSUME UpgradeAssumption == UpgradeIds \subseteq Nat \ {0}

VARIABLES
  img_dl_task,  \* the global of that name: upgrade_state and active
  loader,       \* the download thread of each upgrade command
  image,        \* the installer of the switch: its state, and for whom
  package,      \* the script behind the pipe: its state, and for whom
  poll,         \* the periodic thread that reports
  upgrade,      \* the upgrade command that was started last, or 0
  handed,       \* the upgrades that were written to the pipe
  installed,    \* the upgrades that were installed
  overlap,      \* TRUE once an upgrade began before the client was done with another
  rebooted      \* the switch reboots

installVars == <<package, handed, installed>>

upgradeVars == <<img_dl_task, loader, image, poll, upgrade, installVars, overlap,
                 rebooted>>

States == {"IDLE", "DOWNLOAD", "INSTALL", "FAIL", "SUCCESS"}

Ended == {"none", "ended"}

Loading == {"download", "package", "handed", "image", "started", "inactive",
            "err"}

UpgradeInit ==
  /\ img_dl_task = [upgrade_state |-> "IDLE", active |-> FALSE]
  /\ loader = [id \in UpgradeIds |-> "none"]
  /\ image = [state |-> "IDLE", for |-> 0]
  /\ poll = "none"
  /\ upgrade = 0
  /\ package = [state |-> "none", for |-> 0]
  /\ handed = {}
  /\ installed = {}
  /\ overlap = FALSE
  /\ rebooted = FALSE

-----------------------------------------------------------------------------
(* The main thread *)

Busy ==
  \/ \E id \in UpgradeIds : loader[id] \notin Ended
  \/ poll \notin Ended
  \/ image.state \in {"DOWNLOAD", "INSTALL"}

\* The file cannot be opened, or there is no thread.  What was written to
\* img_dl_task stays.
plat_img_dl_start_fails(id) ==
  /\ img_dl_task' = [upgrade_state |-> "DOWNLOAD", active |-> TRUE]
  /\ overlap' = (overlap \/ Busy)
  /\ UNCHANGED <<loader, image, poll, upgrade, installVars, rebooted>>

\* Mutant: the task is not marked active.
plat_img_dl_start_inactive(id) ==
  /\ img_dl_task' = [upgrade_state |-> "DOWNLOAD", active |-> FALSE]
  /\ loader' = [loader EXCEPT ![id] = "download"]
  /\ upgrade' = id
  /\ overlap' = (overlap \/ Busy)
  /\ UNCHANGED <<image, poll, installVars, rebooted>>

plat_img_dl_start(id) ==
  /\ img_dl_task' = [upgrade_state |-> "DOWNLOAD", active |-> TRUE]
  /\ loader' = [loader EXCEPT ![id] = "download"]
  /\ upgrade' = id
  /\ overlap' = (overlap \/ Busy)
  /\ UNCHANGED <<image, poll, installVars, rebooted>>

\* periodic_destroy() waits for a callback that is under way.
plat_upgrade_poll_stop ==
  /\ poll \in Ended \cup {"sleep"}
  /\ poll' = "none"
  /\ UNCHANGED <<img_dl_task, loader, image, upgrade, installVars, overlap, rebooted>>

\* periodic_destroy() and periodic_create(), which may fail.
plat_upgrade_poll ==
  /\ poll \in Ended \cup {"sleep"}
  /\ poll' \in {"none", "sleep"}
  /\ UNCHANGED <<img_dl_task, loader, image, upgrade, installVars, overlap, rebooted>>

-----------------------------------------------------------------------------
(* The download thread *)

loaderFrame == UNCHANGED <<image, poll, upgrade, installVars, overlap, rebooted>>

\* curl_easy_perform() returned and img_dl_get_type() looked at the file.
img_dl_done(id) ==
  /\ loader[id] = "download"
  /\ \E next \in {"package", "image", "err"} :
       loader' = [loader EXCEPT ![id] = next]
  /\ UNCHANGED img_dl_task
  /\ loaderFrame

\* "upgrade <file>" is written to the pipe.  Nobody reads it while the script
\* has another one in hand, or does not run.
img_dl_start_partial_upgrade(id) ==
  /\ loader[id] = "package"
  /\ \/ /\ loader' = [loader EXCEPT ![id] = "handed"]
        /\ handed' = handed \cup {id}
        /\ package' \in {package} \cup
                        {p \in {[state |-> "piped", for |-> id]} : package.state = "none"}
     \/ /\ loader' = [loader EXCEPT ![id] = "err"]
        /\ UNCHANGED <<handed, package>>
  /\ UNCHANGED <<img_dl_task, image, poll, upgrade, installed, overlap, rebooted>>

\* The package is in the pipe.
img_dl_success(id) ==
  /\ loader[id] = "handed"
  /\ img_dl_task' = [img_dl_task EXCEPT !.upgrade_state = "SUCCESS"]
  /\ loader' = [loader EXCEPT ![id] = "ended"]
  /\ loaderFrame

gnma_image_install(id) ==
  /\ loader[id] = "image"
  /\ \/ /\ loader' = [loader EXCEPT ![id] = "started"]
        /\ image' = [state |-> "DOWNLOAD", for |-> id]
     \/ /\ loader' = [loader EXCEPT ![id] = "err"]
        /\ UNCHANGED image
  /\ UNCHANGED <<img_dl_task, poll, upgrade, installVars, overlap, rebooted>>

img_dl_install(id) ==
  /\ loader[id] = "started"
  /\ img_dl_task' = [img_dl_task EXCEPT !.upgrade_state = "INSTALL"]
  /\ loader' = [loader EXCEPT ![id] = "inactive"]
  /\ loaderFrame

\* From here on the switch is asked.
img_dl_inactive(id) ==
  /\ loader[id] = "inactive"
  /\ img_dl_task' = [img_dl_task EXCEPT !.active = FALSE]
  /\ loader' = [loader EXCEPT ![id] = "ended"]
  /\ loaderFrame

\* Mutant: the state is left as it is.
img_dl_err_silent(id) ==
  /\ loader[id] = "err"
  /\ loader' = [loader EXCEPT ![id] = "ended"]
  /\ UNCHANGED img_dl_task
  /\ loaderFrame

img_dl_err(id) ==
  /\ loader[id] = "err"
  /\ img_dl_task' = [img_dl_task EXCEPT !.upgrade_state = "FAIL"]
  /\ loader' = [loader EXCEPT ![id] = "ended"]
  /\ loaderFrame

\* The switch: it takes the image over, installs it, and may fail.
ImageStep ==
  /\ \/ /\ image.state = "DOWNLOAD"
        /\ image' = [image EXCEPT !.state = "INSTALL"]
        /\ UNCHANGED installed
     \/ /\ image.state = "INSTALL"
        /\ image' = [image EXCEPT !.state = "SUCCESS"]
        /\ installed' = installed \cup {image.for}
     \/ /\ image.state \in {"DOWNLOAD", "INSTALL"}
        /\ image' = [image EXCEPT !.state = "FAIL"]
        /\ UNCHANGED installed
  /\ UNCHANGED <<img_dl_task, loader, poll, upgrade, package, handed, overlap,
                 rebooted>>

-----------------------------------------------------------------------------
(* ucentral-partialupdate.sh: upgrade(), after "sleep 5" *)

scriptFrame == UNCHANGED <<img_dl_task, loader, image, poll, upgrade, handed, overlap>>

\* The client goes first ...
dpkg_remove ==
  /\ package.state = "piped"
  /\ package' = [package EXCEPT !.state = "removed"]
  /\ UNCHANGED <<installed, rebooted>>
  /\ scriptFrame

\* ... then the new one is installed, and the switch reboots.
dpkg_install ==
  /\ package.state = "removed"
  /\ package' = [package EXCEPT !.state = "none"]
  /\ installed' = installed \cup {package.for}
  /\ rebooted' \in BOOLEAN
  /\ scriptFrame

\* The file is no package, or one of the two fails.
dpkg_fails ==
  /\ package.state # "none"
  /\ package' = [package EXCEPT !.state = "none"]
  /\ UNCHANGED <<installed, rebooted>>
  /\ scriptFrame

partialupdate == dpkg_remove \/ dpkg_install \/ dpkg_fails

-----------------------------------------------------------------------------
(* The periodic thread *)

pollFrame == UNCHANGED <<img_dl_task, loader, image, upgrade, installVars, overlap>>

\* plat_upgrade_state() reads active first.
plat_upgrade_state ==
  /\ poll = "sleep"
  /\ poll' = IF img_dl_task.active THEN "task" ELSE "switch"
  /\ UNCHANGED rebooted
  /\ pollFrame

\* upgrade_status_send(): a failure is reported and ends the reports, and so
\* does a success, after an attempt to reboot.
upgrade_status_send(state) ==
  \/ /\ state \in {"IDLE", "DOWNLOAD", "INSTALL"}
     /\ poll' = "sleep"
     /\ UNCHANGED rebooted
  \/ /\ state = "FAIL"
     /\ poll' = "ended"
     /\ UNCHANGED rebooted
  \/ /\ state = "SUCCESS"
     /\ poll' = "ended"
     /\ rebooted' \in BOOLEAN

upgrade_state_task ==
  /\ poll = "task"
  /\ upgrade_status_send(img_dl_task.upgrade_state)
  /\ pollFrame

__plat_upgrade_state_gnmi ==
  /\ poll = "switch"
  /\ upgrade_status_send(image.state)
  /\ pollFrame

\* The switch does not answer; the next round asks again.
gnma_image_install_status_fails ==
  /\ poll = "switch"
  /\ poll' = "sleep"
  /\ UNCHANGED rebooted
  /\ pollFrame

-----------------------------------------------------------------------------
img_dl_entrypoint(id) ==
  \/ img_dl_start_partial_upgrade(id)
  \/ img_dl_success(id)
  \/ gnma_image_install(id)
  \/ img_dl_install(id)
  \/ img_dl_inactive(id)
  \/ img_dl_err(id)

upgrade_periodic_cb ==
  \/ upgrade_state_task
  \/ __plat_upgrade_state_gnmi

UpgradeThreads ==
  \/ \E id \in UpgradeIds : img_dl_done(id) \/ img_dl_entrypoint(id)
  \/ ImageStep
  \/ upgrade_periodic_cb
  \/ gnma_image_install_status_fails

-----------------------------------------------------------------------------
(* Properties *)

PollReboots == poll # "ended" /\ poll' = "ended" /\ rebooted'

\* The poll reboots the switch only when the upgrade that was asked for last
\* went through: a full image is installed, a package was handed to the
\* script.  This holds as long as upgrades do not overlap; two that do share
\* img_dl_task and the file.
RebootOnlyComplete ==
  [][PollReboots /\ ~overlap => upgrade \in installed \cup handed]_upgradeVars

\* The comment in upgrade_status_send(): "once instalation finished - reboot
\* device".
RebootAfterInstall ==
  [][PollReboots /\ ~overlap => upgrade \in installed]_upgradeVars
=============================================================================
