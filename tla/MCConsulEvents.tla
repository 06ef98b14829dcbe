---------------------------- MODULE MCConsulEvents ----------------------------
(* Instances of ConsulEvents for TLC. *)
EXTENDS ConsulEvents

OneService  == <<"auth">>
OneNode     == <<"auth-1">>
Owner       == [n \in Nodes |-> "auth"]
CONSTANTS main, pubAuth, w1, w2
Publisher   == [s \in Services |-> pubAuth]
Posts       == <<{w1}, {w1, w2}>>
===============================================================================
