---- MODULE Goroutines ----
(***************************************************************************)
(* net/http serves each request in a goroutine of its own.  A part of the  *)
(* gateway that a request goes through (SecurityFilter, NaverLimiter)      *)
(* keeps for each goroutine where it is and what its request carries; when *)
(* the process starts, and again when the next one does, it has neither.   *)
(***************************************************************************)

CONSTANTS
  Threads,  \* the goroutines that serve a request
  None      \* stands for the goroutine, user or value that is not there

ASSUME ThreadsAssumption == None \notin Threads

\* No goroutine has begun its way through the part.
AllIdle == [t \in Threads |-> "idle"]

\* None serves a request.
Unassigned == [t \in Threads |-> None]
====
