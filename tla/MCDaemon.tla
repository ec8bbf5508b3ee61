------------------------------ MODULE MCDaemon ------------------------------
(***************************************************************************)
(* An instance of Daemon for TLC.                                          *)
(***************************************************************************)
EXTENDS Daemon
=============================================================================
