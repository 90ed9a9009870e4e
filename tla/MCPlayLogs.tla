------------------------------- MODULE MCPlayLogs -------------------------------
(* TLC instance of PlayLogs. *)
EXTENDS PlayLogs
================================================================================
