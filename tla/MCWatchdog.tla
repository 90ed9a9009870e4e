------------------------------- MODULE MCWatchdog -------------------------------
(* TLC instance of Watchdog. *)
EXTENDS Watchdog
================================================================================
