-------------------------- MODULE MCServiceDirectory --------------------------
(* Instances of ServiceDirectory for TLC. *)
EXTENDS ServiceDirectory, TLC

OneService  == <<"auth">>
TwoServices == <<"auth", "club">>
TwoNodes    == <<"auth-1", "auth-2">>
MixedNodes  == <<"auth-1", "auth-2", "club-1">>
Owner       == [n \in Nodes |-> IF n = "club-1" THEN "club" ELSE "auth"]
Symmetry    == Permutations(Threads)
===============================================================================
