---------------------------- MODULE CircuitBreaker ----------------------------
(***************************************************************************)
(* The circuit breaker of eapache/go-resiliency as the handlers use it     *)
(* (breaker.New with h.BreakerCfg, Breaker.Run): external code, so that    *)
(* every definition here models the library and none a source line.        *)
(* A breaker is a record; "timers" counts the goroutines that sleep for    *)
(* the breaker's timeout before they make it half open.                    *)
(***************************************************************************)
EXTENDS Integers

BreakerStates == {"closed", "open", "halfOpen"}

Breakers ==
  [errorThreshold : Nat, successThreshold : Nat,
   state : BreakerStates, errors : Nat, successes : Nat, timers : Nat]

\* Exactly while a breaker is open one goroutine sleeps to half open it, and its
\* counters are below the thresholds they are compared with by "==".
Sound(b) ==
  /\ b.timers = (IF b.state = "open" THEN 1 ELSE 0)
  /\ b.errors < b.errorThreshold /\ b.successes < b.successThreshold
  /\ b.errors > 0 => b.state = "closed"
  /\ b.successes > 0 => b.state = "halfOpen"

NewBreaker(errorThreshold, successThreshold) ==
  [errorThreshold |-> errorThreshold, successThreshold |-> successThreshold,
   state |-> "closed", errors |-> 0, successes |-> 0, timers |-> 0]

ChangeState(b, s) == [b EXCEPT !.state = s, !.errors = 0, !.successes = 0]

OpenBreaker(b) == [ChangeState(b, "open") EXCEPT !.timers = @ + 1]

\* The work ended without error; a result admitted by a closed breaker is not
\* recorded at all, even if the breaker has changed since.
RecordSuccess(b, admitted) ==
  IF admitted = "closed" \/ b.state # "halfOpen" THEN b
  ELSE IF b.successes + 1 = b.successThreshold THEN ChangeState(b, "closed")
  ELSE [b EXCEPT !.successes = @ + 1]

\* The work failed.  "expired": the last counted error is older than the timeout.
RecordError(b, expired) ==
  LET counted == IF expired THEN 0 ELSE b.errors
  IN CASE b.state = "closed" ->
            IF counted + 1 = b.errorThreshold THEN OpenBreaker(b)
            ELSE [b EXCEPT !.errors = counted + 1]
       [] b.state = "halfOpen" -> OpenBreaker(b)
       [] b.state = "open" -> [b EXCEPT !.errors = counted]

\* The sleeping goroutine wakes up.
TimerFires(b) == [ChangeState(b, "halfOpen") EXCEPT !.timers = @ - 1]
===============================================================================
