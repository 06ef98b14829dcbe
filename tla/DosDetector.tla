------------------------------ MODULE DosDetector ------------------------------
(***************************************************************************)
(* middleware/dos_detector.go, which main.go:178 leaves commented out: a   *)
(* client address that sends more than Limit requests in a second is       *)
(* rejected for a minute.  A request, and the function of a timer, hold    *)
(* d.mutex from beginning to end.                                          *)
(*                                                                         *)
(* An address without an entry in the two maps is one with 0 and FALSE.    *)
(***************************************************************************)
EXTENDS Naturals

CONSTANTS
  Addresses,  \* c.Request.RemoteAddr
  Limit,      \* 50 in the code
  Modulus     \* of uint32: 2^32, which TLC takes smaller

ASSUME DosAssumption == Limit \in Nat \ {0} /\ Modulus \in Nat /\ Limit < Modulus

VARIABLES
  limitTable, \* [Addresses -> requests counted]
  rejected,   \* [Addresses -> BOOLEAN]
  seconds,    \* [Addresses -> timers of a second pending]
  minutes     \* [Addresses -> timers of a minute pending]

dosVars == <<limitTable, rejected, seconds, minutes>>

-----------------------------------------------------------------------------
Admit(a) ==
  /\ ~ rejected[a]
  /\ limitTable[a] < Limit
  /\ limitTable' = [limitTable EXCEPT ![a] = (@ + 1) % Modulus]
  /\ seconds' = [seconds EXCEPT ![a] = @ + 1]
  /\ UNCHANGED <<rejected, minutes>>

\* Mutant: the counter starts anew with the rejection.
RejectAndReset(a) ==
  /\ ~ rejected[a]
  /\ limitTable[a] >= Limit
  /\ rejected' = [rejected EXCEPT ![a] = TRUE]
  /\ minutes' = [minutes EXCEPT ![a] = @ + 1]
  /\ limitTable' = [limitTable EXCEPT ![a] = 0]
  /\ UNCHANGED seconds

\* 429: the request over the limit.
Reject(a) ==
  /\ ~ rejected[a]
  /\ limitTable[a] >= Limit
  /\ rejected' = [rejected EXCEPT ![a] = TRUE]
  /\ minutes' = [minutes EXCEPT ![a] = @ + 1]
  /\ UNCHANGED <<limitTable, seconds>>

\* Mutant: every rejected request starts the minute again.
TurnAwayLonger(a) ==
  /\ rejected[a]
  /\ minutes[a] < 3
  /\ minutes' = [minutes EXCEPT ![a] = @ + 1]
  /\ UNCHANGED <<limitTable, rejected, seconds>>

\* 429: the address is rejected already.
TurnAway(a) ==
  /\ rejected[a]
  /\ UNCHANGED dosVars

-----------------------------------------------------------------------------
SecondOver(a) ==
  /\ seconds[a] > 0
  /\ limitTable' = [limitTable EXCEPT ![a] = IF @ = 0 THEN Modulus - 1 ELSE @ - 1]
  /\ seconds' = [seconds EXCEPT ![a] = @ - 1]
  /\ UNCHANGED <<rejected, minutes>>

\* Mutant: the counter is reset instead of the rejection.
MinuteOverOfCounter(a) ==
  /\ minutes[a] > 0
  /\ limitTable' = [limitTable EXCEPT ![a] = 0]
  /\ minutes' = [minutes EXCEPT ![a] = @ - 1]
  /\ UNCHANGED <<rejected, seconds>>

MinuteOver(a) ==
  /\ minutes[a] > 0
  /\ rejected' = [rejected EXCEPT ![a] = FALSE]
  /\ minutes' = [minutes EXCEPT ![a] = @ - 1]
  /\ UNCHANGED <<limitTable, seconds>>

-----------------------------------------------------------------------------
DosInit ==
  /\ limitTable = [a \in Addresses |-> 0]
  /\ rejected = [a \in Addresses |-> FALSE]
  /\ seconds = [a \in Addresses |-> 0]
  /\ minutes = [a \in Addresses |-> 0]

\* The process ends.
DosDies ==
  /\ limitTable' = [a \in Addresses |-> 0]
  /\ rejected' = [a \in Addresses |-> FALSE]
  /\ seconds' = [a \in Addresses |-> 0]
  /\ minutes' = [a \in Addresses |-> 0]

DosNext ==
  \/ \E a \in Addresses :
       Admit(a) \/ Reject(a) \/ TurnAway(a) \/ SecondOver(a) \/ MinuteOver(a)
  \/ DosDies

DosSpec == DosInit /\ [][DosNext]_dosVars
-----------------------------------------------------------------------------
(* Properties.                                                              *)

\* Every variable has its type.
DosTypeOK ==
  /\ limitTable \in [Addresses -> 0..Modulus - 1]
  /\ rejected \in [Addresses -> BOOLEAN]
  /\ seconds \in [Addresses -> Nat]
  /\ minutes \in [Addresses -> Nat]

\* The counter is the number of requests let through less than a second ago,
\* which the limit bounds: no timer takes it below zero, where it would wrap
\* around and the address be rejected for good.
CounterIsExact == \A a \in Addresses : limitTable[a] = seconds[a] /\ seconds[a] <= Limit

\* A rejected address has exactly one timer that will end its rejection, any
\* other none: no rejection is cut short by the timer of an earlier one.
OneMinuteEach == \A a \in Addresses : minutes[a] = IF rejected[a] THEN 1 ELSE 0

\* Every rejection ends.
RejectionEnds == \A a \in Addresses : rejected[a] ~> ~ rejected[a]
===============================================================================
