----------------------------- MODULE MCSession -----------------------------
(***************************************************************************)
(* Session for TLC.  Two threads are enough for every pair of senders to   *)
(* interleave; two connections for a message, or a connect message, to     *)
(* outlive the connection it was queued on.                                *)
(***************************************************************************)
EXTENDS Session
=============================================================================
