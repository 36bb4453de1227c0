---------------------------- MODULE MCLifecycle -----------------------------
(***************************************************************************)
(* A gateway with two lines under systemd, with its watchdog.              *)
(***************************************************************************)
EXTENDS Lifecycle

MCLines == <<"line1", "line2">>
=============================================================================
