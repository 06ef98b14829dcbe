---------------------------- MODULE SecurityFilter ----------------------------
(***************************************************************************)
(* middleware/security_filter.go: a request carries a value in the header  *)
(* Request-Security; values already used, and values found malformed, are  *)
(* kept in two maps and answered with 407.  The maps are read, and the     *)
(* malformed values written, outside s.mutex; only the used values are     *)
(* written under it.  Every request has a goroutine of its own.            *)
(*                                                                         *)
(* The Go runtime ends the process when it notices that a map is written   *)
(* while it is accessed; the next process starts with empty maps.          *)
(***************************************************************************)
EXTENDS Goroutines

CONSTANTS
  Wellformed, \* values that decrypt to the plain text expected
  Malformed,  \* values that do not
  Master      \* values that decrypt to the one accepted any number of times

Values == Wellformed \cup Malformed \cup Master

ASSUME SecurityAssumption ==
  /\ Wellformed \cap Malformed = {} /\ Wellformed \cap Master = {} /\ Malformed \cap Master = {}
  /\ None \notin Values

VARIABLES
  filtered,    \* s.filteredSecurity
  onceUsed,    \* s.onceUsedSecurity
  filterMutex, \* s.mutex: the thread that holds it, or None
  filterPc,    \* [Threads -> where filterSecurity is]
  security,    \* [Threads -> the header's value, or None]
  admitted,    \* history: the values of requests this process has passed on
  overlapping  \* history: threads whose check of the used values came before
               \* a request with the same value was passed on

filterVars == <<filtered, onceUsed, filterMutex, filterPc, security, admitted, overlapping>>

FilterGoto(t, label) == filterPc' = [filterPc EXCEPT ![t] = label]

-----------------------------------------------------------------------------
\* A request without the header is answered 407 at once.
FilterArrive(t) ==
  /\ filterPc[t] = "idle"
  /\ \E v \in Values :
       security' = [security EXCEPT ![t] = v]
  /\ FilterGoto(t, "filtered")
  /\ UNCHANGED <<filtered, onceUsed, filterMutex, admitted, overlapping>>

\* 407, or the request is passed on: the goroutine is done with the filter.
LeaveFilter(t) ==
  /\ FilterGoto(t, "idle")
  /\ security' = [security EXCEPT ![t] = None]
  /\ overlapping' = overlapping \ {t}

LookFiltered(t) ==
  /\ filterPc[t] = "filtered"
  /\ IF security[t] \in filtered THEN LeaveFilter(t)
     ELSE FilterGoto(t, "used") /\ UNCHANGED <<security, overlapping>>
  /\ UNCHANGED <<filtered, onceUsed, filterMutex, admitted>>

\* Mutant: the used values are not looked at.
LookUsedNot(t) ==
  /\ filterPc[t] = "used"
  /\ FilterGoto(t, "decrypt") /\ UNCHANGED <<security, overlapping>>
  /\ UNCHANGED <<filtered, onceUsed, filterMutex, admitted>>

LookUsed(t) ==
  /\ filterPc[t] = "used"
  /\ IF security[t] \in onceUsed THEN LeaveFilter(t)
     ELSE FilterGoto(t, "decrypt") /\ UNCHANGED <<security, overlapping>>
  /\ UNCHANGED <<filtered, onceUsed, filterMutex, admitted>>

Decrypt(t) ==
  /\ filterPc[t] = "decrypt"
  /\ \/ security[t] \in Malformed /\ FilterGoto(t, "filter") /\ UNCHANGED <<security, overlapping>>
     \/ security[t] \in Wellformed /\ FilterGoto(t, "lock") /\ UNCHANGED <<security, overlapping>>
  /\ UNCHANGED <<filtered, onceUsed, filterMutex, admitted>>

Filter(t) ==
  /\ filterPc[t] = "filter"
  /\ filtered' = filtered \cup {security[t]}
  /\ LeaveFilter(t)
  /\ UNCHANGED <<onceUsed, filterMutex, admitted>>

\* Mutant: the mutex is not unlocked.
UseLocked(t) ==
  /\ filterPc[t] = "use"
  /\ onceUsed' = onceUsed \cup {security[t]}
  /\ FilterGoto(t, "pass")
  /\ UNCHANGED <<filtered, filterMutex, security, admitted, overlapping>>

LockUsed(t) ==
  /\ filterPc[t] = "lock"
  /\ filterMutex = None
  /\ filterMutex' = t
  /\ FilterGoto(t, "use")
  /\ UNCHANGED <<filtered, onceUsed, security, admitted, overlapping>>

Use(t) ==
  /\ filterPc[t] = "use"
  /\ onceUsed' = onceUsed \cup {security[t]}
  /\ filterMutex' = None
  /\ FilterGoto(t, "pass")
  /\ UNCHANGED <<filtered, security, admitted, overlapping>>

\* c.Next(): the request goes on to the next middleware.
PassMaster(t) ==
  /\ filterPc[t] = "decrypt"
  /\ security[t] \in Master
  /\ LeaveFilter(t)
  /\ UNCHANGED <<filtered, onceUsed, filterMutex, admitted>>

Pass(t) ==
  /\ filterPc[t] = "pass"
  /\ admitted' = admitted \cup {security[t]}
  /\ FilterGoto(t, "idle")
  /\ security' = [security EXCEPT ![t] = None]
  /\ overlapping' =
       (overlapping \cup {u \in Threads : security[u] = security[t]
                                          /\ filterPc[u] \in {"decrypt", "lock", "use", "pass"}}) \ {t}
  /\ UNCHANGED <<filtered, onceUsed, filterMutex>>

-----------------------------------------------------------------------------
\* One goroutine writes a map, another one is at an access of it.
FilterRace ==
  \E t, u \in Threads :
    /\ t # u
    /\ \/ filterPc[t] = "filter" /\ filterPc[u] \in {"filter", "filtered"}
       \/ filterPc[t] = "use" /\ filterPc[u] \in {"use", "used"}

\* The process ends, for this race or another reason.
FilterDies ==
  /\ filtered' = {} /\ onceUsed' = {} /\ filterMutex' = None
  /\ filterPc' = AllIdle
  /\ security' = Unassigned
  /\ admitted' = {} /\ overlapping' = {}

-----------------------------------------------------------------------------
FilterInit ==
  /\ filtered = {} /\ onceUsed = {} /\ filterMutex = None
  /\ filterPc = AllIdle
  /\ security = Unassigned
  /\ admitted = {} /\ overlapping = {}

FilterSecurity(t) ==
  LookFiltered(t) \/ LookUsed(t) \/ Decrypt(t) \/ Filter(t) \/ LockUsed(t) \/ Use(t)

FilterNext ==
  \/ \E t \in Threads : FilterArrive(t) \/ FilterSecurity(t) \/ PassMaster(t) \/ Pass(t)
  \/ FilterDies

FilterSpec == FilterInit /\ [][FilterNext]_filterVars
-----------------------------------------------------------------------------
(* Properties.                                                              *)

\* Every variable has its type, and the mutex is held exactly at the write of
\* the used values.
FilterTypeOK ==
  /\ filtered \subseteq Malformed /\ onceUsed \subseteq Wellformed
  /\ filterPc \in [Threads -> {"idle", "filtered", "used", "decrypt", "filter", "lock", "use", "pass"}]
  /\ security \in [Threads -> Values \cup {None}]
  /\ \A t \in Threads : security[t] = None <=> filterPc[t] = "idle"
  /\ \A t \in Threads : filterMutex = t <=> filterPc[t] = "use"
  /\ admitted \subseteq Wellformed
  /\ overlapping \subseteq Threads

\* A value is passed on again only by a request that had been looked up before
\* the first one with the value was passed on: the map is consulted outside the
\* mutex, so requests that overlap may all pass, one that starts later may not.
PassedAgainOnlyIfOverlapping ==
  [][\A t \in Threads : Pass(t) => security[t] \notin admitted \/ t \in overlapping]_filterVars
===============================================================================
