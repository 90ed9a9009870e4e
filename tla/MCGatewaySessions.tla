--------------------------- MODULE MCGatewaySessions ---------------------------
(* TLC instance of GatewaySessions: which device each connection belongs to. *)
EXTENDS GatewaySessions

CONSTANTS d1, d2, c1, c2

OneDevice == [c \in Conns |-> d1]
================================================================================
