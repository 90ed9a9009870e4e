----------------------------- MODULE MCEdgeDatabase -----------------------------
(* TLC instance of EdgeDatabase. *)
EXTENDS EdgeDatabase

TwoPlays == [t \in Threads |-> IF t = "ws" THEN 1 ELSE 2]
================================================================================
