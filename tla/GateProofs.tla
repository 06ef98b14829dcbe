------------------------------- MODULE GateProofs -------------------------------
(* Theorems about Gate, for any goroutines, values, users and addresses: the *)
(* invariants of its three parts, each from the part's own specification,    *)
(* and that the gate implements all three.                                   *)
EXTENDS Gate, TLAPS

-----------------------------------------------------------------------------
(* The security filter.                                                     *)

LookedUp == {"decrypt", "lock", "use", "pass"}

\* A value passed on has been recorded, a request that was looked up before is
\* marked, and one about to be passed on has recorded its value.
UsedIsKnown ==
  /\ admitted \subseteq onceUsed
  /\ \A t \in Threads : filterPc[t] = "pass" => security[t] \in onceUsed
  /\ \A t \in Threads : filterPc[t] \in {"filter", "lock", "use", "pass"} =>
       security[t] \in IF filterPc[t] = "filter" THEN Malformed ELSE Wellformed
  /\ \A t \in Threads :
       filterPc[t] \in LookedUp /\ security[t] \in admitted => t \in overlapping

FilterInv == FilterTypeOK /\ UsedIsKnown

LEMMA FilterStarts == FilterInit => FilterInv
  BY SecurityAssumption, ThreadsAssumption DEF FilterInit, AllIdle, Unassigned, FilterInv, FilterTypeOK, UsedIsKnown, LookedUp

LEMMA FilterSteps == FilterInv /\ [FilterNext]_filterVars => FilterInv'
<1> SUFFICES ASSUME FilterInv, [FilterNext]_filterVars PROVE FilterInv'
  OBVIOUS
<1> USE SecurityAssumption, ThreadsAssumption DEF FilterInv, FilterTypeOK, UsedIsKnown, LookedUp, FilterGoto, LeaveFilter, Values
<1>1. ASSUME NEW t \in Threads, FilterArrive(t) PROVE FilterInv'
  BY <1>1 DEF FilterArrive
<1>2. ASSUME NEW t \in Threads, LookFiltered(t) PROVE FilterInv'
  BY <1>2 DEF LookFiltered
<1>3. ASSUME NEW t \in Threads, LookUsed(t) PROVE FilterInv'
  BY <1>3 DEF LookUsed
<1>4. ASSUME NEW t \in Threads, Decrypt(t) PROVE FilterInv'
  BY <1>4 DEF Decrypt
<1>5. ASSUME NEW t \in Threads, Filter(t) PROVE FilterInv'
  BY <1>5 DEF Filter
<1>6. ASSUME NEW t \in Threads, LockUsed(t) PROVE FilterInv'
  BY <1>6 DEF LockUsed
<1>7. ASSUME NEW t \in Threads, Use(t) PROVE FilterInv'
  BY <1>7 DEF Use
<1>8. ASSUME NEW t \in Threads, Pass(t) \/ PassMaster(t) PROVE FilterInv'
  BY <1>8 DEF Pass, PassMaster
<1>9. CASE FilterDies
  BY <1>9 DEF FilterDies, AllIdle, Unassigned
<1>10. CASE UNCHANGED filterVars
  BY <1>10 DEF filterVars
<1> QED
  BY <1>1, <1>2, <1>3, <1>4, <1>5, <1>6, <1>7, <1>8, <1>9, <1>10 DEF FilterNext, FilterSecurity

-----------------------------------------------------------------------------
(* The limit of the API of Naver.                                           *)

\* Between the look at the table and its assignment nobody else limits the user,
\* so the call that starts a timer finds none pending.
OneTimer ==
  \A t \in Threads :
    /\ limiterPc[t] = "write" => user[t] \notin table
    /\ limiterPc[t] = "admitted" => timer[user[t]] = "none"

LimiterInv == LimiterTypeOK /\ LimitedHasTimer /\ OneTimer

\* The five seconds of a user are those of the timer.
RecentRuns == \A u \in recent : timer[u] = "running"

LEMMA LimiterStarts == LimiterInit => LimiterInv /\ RecentRuns
  BY UsersAssumption, ThreadsAssumption DEF LimiterInit, AllIdle, Unassigned, LimiterInv, LimiterTypeOK, LimitedHasTimer, OneTimer, RecentRuns

LEMMA LimiterSteps == LimiterInv /\ [LimiterNext]_limiterVars => LimiterInv'
<1> SUFFICES ASSUME LimiterInv, [LimiterNext]_limiterVars PROVE LimiterInv'
  OBVIOUS
<1> USE UsersAssumption, ThreadsAssumption DEF LimiterInv, LimiterTypeOK, LimitedHasTimer, OneTimer, LimiterGoto
<1>1. ASSUME NEW t \in Threads, NaverArrive(t) PROVE LimiterInv'
  BY <1>1 DEF NaverArrive
<1>2. ASSUME NEW t \in Threads, LockTable(t) PROVE LimiterInv'
  BY <1>2 DEF LockTable
<1>3. ASSUME NEW t \in Threads, Limited(t) \/ Unlimited(t) PROVE LimiterInv'
  BY <1>3 DEF Limited, Unlimited
<1>4. ASSUME NEW t \in Threads, Admitted(t) PROVE LimiterInv'
  BY <1>4 DEF Admitted
<1>5. ASSUME NEW t \in Threads, StartTimer(t) PROVE LimiterInv'
  BY <1>5 DEF StartTimer
<1>6. ASSUME NEW t \in Threads, Refuse(t) \/ Answer(t) PROVE LimiterInv'
  BY <1>6 DEF Refuse, Answer
<1>7. ASSUME NEW u \in Users, TimerFires(u) PROVE LimiterInv'
  BY <1>7 DEF TimerFires
<1>8. ASSUME NEW u \in Users, ResetEntry(u) PROVE LimiterInv'
  BY <1>8 DEF ResetEntry
<1>9. CASE LimiterDies
  BY <1>9 DEF LimiterDies, AllIdle, Unassigned
<1>10. CASE UNCHANGED limiterVars
  BY <1>10 DEF limiterVars
<1> QED
  BY <1>1, <1>2, <1>3, <1>4, <1>5, <1>6, <1>7, <1>8, <1>9, <1>10 DEF LimiterNext, Call

LEMMA RecentSteps == LimiterInv /\ RecentRuns /\ [LimiterNext]_limiterVars => RecentRuns'
  BY DEF LimiterInv, LimiterTypeOK, OneTimer, RecentRuns, LimiterNext, Call, limiterVars,
         LimiterGoto, NaverArrive, LockTable, Limited, Unlimited, Admitted, StartTimer, Refuse,
         Answer, TimerFires, ResetEntry, LimiterDies

-----------------------------------------------------------------------------
(* The detector of floods.                                                  *)

\* The two invariants and the types are inductive together: the counter is
\* compared and decremented correctly only because it is the number of timers.
DosInv == DosTypeOK /\ CounterIsExact /\ OneMinuteEach

LEMMA DosStarts == DosInit => DosInv
BY DosAssumption DEF DosInit, DosInv, DosTypeOK, CounterIsExact, OneMinuteEach

LEMMA DosSteps == DosInv /\ [DosNext]_dosVars => DosInv'
<1> SUFFICES ASSUME DosInv, [DosNext]_dosVars PROVE DosInv'
    OBVIOUS
<1> USE DosAssumption DEF DosInv
<1>1. ASSUME NEW a \in Addresses, Admit(a) PROVE DosInv'
  <2>1. limitTable[a] + 1 <= Limit /\ (limitTable[a] + 1) % Modulus = limitTable[a] + 1
    BY <1>1 DEF Admit, DosTypeOK
  <2>2. limitTable' = [limitTable EXCEPT ![a] = @ + 1]
    BY <1>1, <2>1 DEF Admit, DosTypeOK
  <2> QED
    BY <1>1, <2>1, <2>2 DEF Admit, DosTypeOK, CounterIsExact, OneMinuteEach
<1>2. ASSUME NEW a \in Addresses, Reject(a) PROVE DosInv'
  BY <1>2 DEF Reject, DosTypeOK, CounterIsExact, OneMinuteEach
<1>3. ASSUME NEW a \in Addresses, SecondOver(a) PROVE DosInv'
  <2>1. limitTable[a] # 0
    BY <1>3 DEF SecondOver, CounterIsExact, DosTypeOK
  <2>2. limitTable' = [limitTable EXCEPT ![a] = @ - 1]
    BY <1>3, <2>1 DEF SecondOver, DosTypeOK
  <2> QED
    BY <1>3, <2>1, <2>2 DEF SecondOver, DosTypeOK, CounterIsExact, OneMinuteEach
<1>4. ASSUME NEW a \in Addresses, MinuteOver(a) PROVE DosInv'
  BY <1>4 DEF MinuteOver, DosTypeOK, CounterIsExact, OneMinuteEach
<1>5. CASE UNCHANGED dosVars
  BY <1>5 DEF dosVars, DosTypeOK, CounterIsExact, OneMinuteEach
<1>6. CASE DosDies
  BY <1>6 DEF DosDies, DosTypeOK, CounterIsExact, OneMinuteEach
<1> QED
  BY <1>1, <1>2, <1>3, <1>4, <1>5, <1>6 DEF DosNext, TurnAway

-----------------------------------------------------------------------------
(* The composition.                                                         *)

\* A step of the gate is for each part one of its own steps or none.
LEMMA StepOfParts ==
  ASSUME [Next]_gateVars
  PROVE  /\ [FilterNext]_filterVars
         /\ [LimiterNext]_limiterVars
         /\ [DosNext]_dosVars
<1>1. ASSUME NEW t \in Threads, Arrive(t) \/ InFilter(t)
      PROVE  FilterNext /\ UNCHANGED <<limiterVars, dosVars>>
  BY <1>1 DEF Arrive, InFilter, FilterNext
<1>2. ASSUME NEW t \in Threads, PassOn(t)
      PROVE  FilterNext /\ [LimiterNext]_limiterVars /\ DosNext
  BY <1>2 DEF PassOn, FilterNext, LimiterNext, DosNext
<1>3. ASSUME NEW t \in Threads, InLimiter(t) \/ NaverAnswers(t)
      PROVE  LimiterNext /\ UNCHANGED <<filterVars, dosVars>>
  BY <1>3 DEF InLimiter, NaverAnswers, LimiterNext
<1>4. CASE Timers
  BY <1>4 DEF Timers, LimiterNext, DosNext
<1>5. CASE ProcessDies
  BY <1>5 DEF ProcessDies, FilterNext, LimiterNext, DosNext
<1>6. CASE UNCHANGED gateVars
  BY <1>6 DEF gateVars
<1> QED
  BY <1>1, <1>2, <1>3, <1>4, <1>5, <1>6 DEF Next

\* The gate implements the specification of each of its parts.
THEOREM GateImplementsParts == Spec => FilterSpec /\ LimiterSpec /\ DosSpec
<1>1. Init => FilterInit /\ LimiterInit /\ DosInit
  BY DEF Init
<1> QED
  BY <1>1, StepOfParts, PTL DEF Spec, FilterSpec, LimiterSpec, DosSpec

\* The maps of used and of malformed values keep only what belongs there, each
\* mutex is held exactly in its section, and no counter leaves its width.
THEOREM GateTyped == Spec => []TypeOK
<1>1. FilterInv /\ LimiterInv /\ DosInv => TypeOK
  BY DEF FilterInv, LimiterInv, DosInv, TypeOK
<1> QED
  BY FilterStarts, FilterSteps, LimiterStarts, LimiterSteps, DosStarts, DosSteps,
     <1>1, GateImplementsParts, PTL DEF FilterSpec, LimiterSpec, DosSpec

\* A value is passed on twice by one process only for requests that overlap.
THEOREM PassesOnce == Spec => PassedAgainOnlyIfOverlapping
<1>1. FilterInv /\ [FilterNext]_filterVars =>
        [\A t \in Threads : Pass(t) => security[t] \notin admitted \/ t \in overlapping]_filterVars
  BY DEF FilterInv, UsedIsKnown, LookedUp, Pass
<1> QED
  BY FilterStarts, FilterSteps, <1>1, GateImplementsParts, PTL
     DEF FilterSpec, PassedAgainOnlyIfOverlapping

\* A user is limited exactly while a timer that ends it is pending or about to be
\* started, in whatever order timers, calls and the end of the process come.
THEOREM TimersMatch == Spec => []LimitedHasTimer
<1>1. LimiterInv => LimitedHasTimer
  BY DEF LimiterInv
<1> QED
  BY LimiterStarts, LimiterSteps, <1>1, GateImplementsParts, PTL DEF LimiterSpec

\* A process admits no user twice in five seconds.
THEOREM OncePerFiveSeconds == Spec => OnceEvery5Seconds
<1>1. LimiterInv /\ RecentRuns /\ [LimiterNext]_limiterVars =>
        [\A t \in Threads : Admitted(t) => user[t] \notin recent]_limiterVars
  BY DEF LimiterInv, LimiterTypeOK, OneTimer, LimitedHasTimer, RecentRuns, Admitted
<1> QED
  BY LimiterStarts, LimiterSteps, RecentSteps, <1>1, GateImplementsParts, PTL
     DEF LimiterSpec, OnceEvery5Seconds

\* detectDos never lets through more than Limit requests whose second is not
\* over, and its unsigned counter never wraps around.
THEOREM CountsExactly == Spec => []CounterIsExact
<1>1. DosInv => CounterIsExact
  BY DEF DosInv
<1> QED
  BY DosStarts, DosSteps, <1>1, GateImplementsParts, PTL DEF DosSpec

\* Every rejection has exactly one timer that ends it.
THEOREM OneTimerEach == Spec => []OneMinuteEach
<1>1. DosInv => OneMinuteEach
  BY DEF DosInv
<1> QED
  BY DosStarts, DosSteps, <1>1, GateImplementsParts, PTL DEF DosSpec
===============================================================================
