------------------------------ MODULE MCDaemon ------------------------------
(***************************************************************************)
(* A small instance of Daemon.  A daemon that waits for a signal nobody    *)
(* sends may stay so for ever: the configuration does not check deadlock.  *)
(***************************************************************************)
EXTENDS Daemon
=============================================================================
