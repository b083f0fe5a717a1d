-------------------------------- MODULE Rtty --------------------------------
(***************************************************************************)
(* Remote terminals.  plat_rtty() (platform/brcm-sonic/plat-gnma.c) forks  *)
(* one process per rtty command and keeps the last RTTY_SESS_MAX of them   *)
(* in a table, oldest first.  The number of a command stands for the pid,  *)
(* so the order of the slots is that of the numbers and the table is the   *)
(* set of them.                                                            *)
(***************************************************************************)
EXTENDS Naturals, FiniteSets, FiniteSetsExt

CONSTANT RTTY_SESS_MAX

ASSUME RttyAssumption == RTTY_SESS_MAX \in Nat \ {0}

VARIABLES
  child,   \* the table, without the slots that are not in use
  alive,   \* the processes that run
  zombies  \* the processes that ended and that nobody waited for

rttyVars == <<child, alive, zombies>>

RttyInit == child = {} /\ alive = {} /\ zombies = {}

\* A terminal is closed, or rtty could not be executed.
SessionEnds(pid) ==
  /\ pid \in alive
  /\ alive' = alive \ {pid}
  /\ zombies' = zombies \cup {pid}
  /\ UNCHANGED child

\* waitpid(WNOHANG) on every slot; those that ended are taken out.
Reaped == child \ zombies

\* Mutant: one session too many.
Killed_late(table) ==
  IF Cardinality(table) > RTTY_SESS_MAX THEN {Min(table)} ELSE {}

\* The oldest session is killed and waited for when the table is full.
Killed(table) ==
  IF Cardinality(table) = RTTY_SESS_MAX THEN {Min(table)} ELSE {}

\* plat_rtty().  ok is FALSE when fork() fails.
plat_rtty(pid, ok) ==
  LET forked == IF ok THEN {pid} ELSE {}
  IN  /\ child' = (Reaped \ Killed(Reaped)) \cup forked
      /\ alive' = (alive \ Killed(Reaped)) \cup forked
      /\ zombies' = zombies \ child

\* No process is forgotten: whatever runs or waits to be reaped has a slot,
\* so there are at most RTTY_SESS_MAX terminals and dead processes, however
\* sessions end and new ones begin.
SessionsBounded ==
  /\ alive \cup zombies \subseteq child
  /\ Cardinality(child) <= RTTY_SESS_MAX
=============================================================================
