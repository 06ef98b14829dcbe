---------------------------------- MODULE Gate ----------------------------------
(***************************************************************************)
(* The middleware and the handler of main.go that decide by themselves     *)
(* whether a request goes on: SecurityFilter, DosDetector where the line   *)
(* main.go:178 registers it once it is no longer a comment, and the route  *)
(* of GetPlaceWithNaverOpenAPI.  A request goes through them in a          *)
(* goroutine of its own; they live in one process, and a race on one of    *)
(* the filter's or the limiter's maps ends all of it.                      *)
(***************************************************************************)
EXTENDS SecurityFilter, NaverLimiter, DosDetector

gateVars == <<filterVars, limiterVars, dosVars>>

Idle(t) == filterPc[t] = "idle" /\ limiterPc[t] = "idle"

-----------------------------------------------------------------------------
Arrive(t) ==
  /\ Idle(t)
  /\ FilterArrive(t)
  /\ UNCHANGED <<limiterVars, dosVars>>

InFilter(t) == FilterSecurity(t) /\ UNCHANGED <<limiterVars, dosVars>>

\* The filter passes the request on.  The detector answers 429, or the request
\* goes on to the API of Naver, or to another route.
PassOn(t) ==
  /\ PassMaster(t) \/ Pass(t)
  /\ \E a \in Addresses :
       \/ (Reject(a) \/ TurnAway(a)) /\ UNCHANGED limiterVars
       \/ Admit(a) /\ (NaverArrive(t) \/ UNCHANGED limiterVars)

InLimiter(t) == Call(t) /\ UNCHANGED <<filterVars, dosVars>>

NaverAnswers(t) == Answer(t) /\ UNCHANGED <<filterVars, dosVars>>

Timers ==
  \/ \E u \in Users : (TimerFires(u) \/ ResetEntry(u)) /\ UNCHANGED <<filterVars, dosVars>>
  \/ \E a \in Addresses : (SecondOver(a) \/ MinuteOver(a)) /\ UNCHANGED <<filterVars, limiterVars>>

\* "fatal error: concurrent map writes"; docker starts the next process.
ProcessDies ==
  /\ FilterRace \/ LimiterRace
  /\ FilterDies /\ LimiterDies /\ DosDies

-----------------------------------------------------------------------------
Init == FilterInit /\ LimiterInit /\ DosInit

Next ==
  \/ \E t \in Threads : Arrive(t) \/ InFilter(t) \/ PassOn(t) \/ InLimiter(t) \/ NaverAnswers(t)
  \/ Timers
  \/ ProcessDies

\* Goroutines take their steps, sync.Mutex lets in who keeps waiting, timers fire.
\* NaverAnswers is not among them: the call has no timeout, and Naver may hang.
Fairness ==
  /\ \A t \in Threads :
       /\ WF_gateVars(InFilter(t)) /\ SF_gateVars(InFilter(t) /\ LockUsed(t))
       /\ WF_gateVars(PassOn(t))
       /\ WF_gateVars(InLimiter(t)) /\ SF_gateVars(InLimiter(t) /\ LockTable(t))
  /\ \A u \in Users : WF_gateVars(Timers /\ TimerFires(u)) /\ WF_gateVars(Timers /\ ResetEntry(u))
  /\ \A a \in Addresses :
       WF_gateVars(Timers /\ SecondOver(a)) /\ WF_gateVars(Timers /\ MinuteOver(a))

Spec == Init /\ [][Next]_gateVars /\ Fairness
-----------------------------------------------------------------------------
(* Properties.                                                              *)

\* Every variable has its type, and each mutex is held exactly in its section.
TypeOK == FilterTypeOK /\ LimiterTypeOK /\ DosTypeOK

\* Nobody is kept out for good: the limit of a user and the rejection of an
\* address both end, at the latest with the process.
BlocksEnd == LimitEnds /\ RejectionEnds

\* Whichever of the two mutexes a request has to wait for, it is answered, or ends
\* with the process, or comes to its call of Naver.  That call may hang for ever
\* (handler/default.go:74): since h.mutex is released before it
\* (default_open_api.go:47), it holds up nobody else.
RequestsEnd == \A t \in Threads : ~ Idle(t) ~> (Idle(t) \/ limiterPc[t] = "naver")
===============================================================================
