----------------------------- MODULE MCServiceCall -----------------------------
(* Instances of ServiceCall for TLC. *)
EXTENDS ServiceCall, TLC

\* An API whose route is open, one that is not, and an unguarded one.
MixedKinds == {"TakeActionInOuting", "GetTimeTable", "SendJoinSMSToUnsignedStudents"}
OneApi   == {"GetOutingByOCode"}

\* Nodes are named after their service.
OutingNode  == {"outing-1"}
OutingNodes == {"outing-1", "outing-2"}
KindNodes   == {"outing-1", "auth-1", "schedule-1"}
FlakyNodes  == {"outing-1", "auth-1"}
Owner ==
  [n \in Nodes |->
     CASE n = "auth-1" -> "auth" [] n = "schedule-1" -> "schedule"
       [] n \in OutingNodes -> "outing"]
Symmetry == Permutations(Requests)
===============================================================================
