--------------------------------- MODULE MCGate ---------------------------------
(* An instance of Gate for TLC. *)
EXTENDS Gate

CONSTANTS u1, u2, t1, t2
===============================================================================
