--------------------------- MODULE ServiceCallProofs ---------------------------
(***************************************************************************)
(* What ServiceCall's runs check on small instances, proved for every set  *)
(* of requests, APIs and nodes, every pair of thresholds and every set of  *)
(* faults.                                                                 *)
(***************************************************************************)
EXTENDS ServiceCall, TLAPS

-----------------------------------------------------------------------------
(* The operations of the breaker library keep a breaker sound.              *)

\* A fresh breaker is sound.
LEMMA ClosedSound == Closed \in Breakers /\ Sound(Closed)
BY ThresholdAssumption DEF Closed, NewBreaker, Breakers, BreakerStates, Sound

\* What changeState sets and what it leaves alone.
LEMMA ChangeStateFields ==
  ASSUME NEW b \in Breakers, NEW s \in BreakerStates
  PROVE  /\ ChangeState(b, s) \in Breakers
         /\ ChangeState(b, s).state = s /\ ChangeState(b, s).errors = 0
         /\ ChangeState(b, s).successes = 0 /\ ChangeState(b, s).timers = b.timers
         /\ ChangeState(b, s).errorThreshold = b.errorThreshold
         /\ ChangeState(b, s).successThreshold = b.successThreshold
BY DEF ChangeState, Breakers

\* What openBreaker sets: it also starts a timer.
LEMMA OpenBreakerFields ==
  ASSUME NEW b \in Breakers
  PROVE  /\ OpenBreaker(b) \in Breakers
         /\ OpenBreaker(b).state = "open" /\ OpenBreaker(b).errors = 0
         /\ OpenBreaker(b).successes = 0 /\ OpenBreaker(b).timers = b.timers + 1
         /\ OpenBreaker(b).errorThreshold = b.errorThreshold
         /\ OpenBreaker(b).successThreshold = b.successThreshold
<1> DEFINE c == ChangeState(b, "open")
<1>1. /\ c \in Breakers /\ c.state = "open" /\ c.errors = 0 /\ c.successes = 0
      /\ c.timers = b.timers
      /\ c.errorThreshold = b.errorThreshold /\ c.successThreshold = b.successThreshold
  BY ChangeStateFields DEF BreakerStates
<1> HIDE DEF c
<1>2. OpenBreaker(b) = [c EXCEPT !.timers = c.timers + 1]
  BY DEF OpenBreaker, c
<1>3. QED
  BY <1>1, <1>2 DEF Breakers

\* Recording a success keeps a breaker sound and opens none.
LEMMA RecordSuccessSound ==
  ASSUME NEW b \in Breakers, Sound(b), NEW seen
  PROVE  /\ RecordSuccess(b, seen) \in Breakers
         /\ Sound(RecordSuccess(b, seen))
         /\ \/ RecordSuccess(b, seen).state = b.state
            \/ b.state = "halfOpen" /\ RecordSuccess(b, seen).state = "closed"
<1>1. CASE seen = "closed" \/ b.state # "halfOpen"
  BY <1>1 DEF RecordSuccess
<1>2. CASE ~ (seen = "closed" \/ b.state # "halfOpen") /\ b.successes + 1 = b.successThreshold
  <2>1. RecordSuccess(b, seen) = ChangeState(b, "closed")
    BY <1>2 DEF RecordSuccess
  <2>2. QED
    BY <1>2, <2>1, ChangeStateFields DEF Breakers, BreakerStates, Sound
<1>3. CASE ~ (seen = "closed" \/ b.state # "halfOpen") /\ b.successes + 1 # b.successThreshold
  <2>1. RecordSuccess(b, seen) = [b EXCEPT !.successes = b.successes + 1]
    BY <1>3 DEF RecordSuccess
  <2>2. QED
    BY <1>3, <2>1 DEF Breakers, BreakerStates, Sound
<1>4. QED
  BY <1>1, <1>2, <1>3

\* Recording an error keeps a breaker sound, and opens it if it changes it.
LEMMA RecordErrorSound ==
  ASSUME NEW b \in Breakers, Sound(b), NEW expired \in BOOLEAN
  PROVE  /\ RecordError(b, expired) \in Breakers
         /\ Sound(RecordError(b, expired))
         /\ \/ RecordError(b, expired).state = b.state
            \/ b.state # "open" /\ RecordError(b, expired).state = "open"
<1> DEFINE counted == IF expired THEN 0 ELSE b.errors
<1>1. counted \in Nat /\ counted < b.errorThreshold /\ (b.state # "closed" => counted = 0)
  BY DEF Breakers, Sound
<1>2. CASE b.state = "halfOpen" \/ (b.state = "closed" /\ counted + 1 = b.errorThreshold)
  <2>1. RecordError(b, expired) = OpenBreaker(b)
    BY <1>2 DEF RecordError
  <2>2. QED
    BY <1>2, <2>1, OpenBreakerFields DEF Breakers, Sound
<1>3. CASE b.state = "closed" /\ counted + 1 # b.errorThreshold
  <2>1. RecordError(b, expired) = [b EXCEPT !.errors = counted + 1]
    BY <1>3 DEF RecordError
  <2> HIDE DEF counted
  <2>2. QED
    BY <1>1, <1>3, <2>1 DEF Breakers, BreakerStates, Sound
<1>4. CASE b.state = "open"
  <2>1. RecordError(b, expired) = [b EXCEPT !.errors = counted]
    BY <1>4 DEF RecordError
  <2> HIDE DEF counted
  <2>2. QED
    BY <1>1, <1>4, <2>1 DEF Breakers, BreakerStates, Sound
<1>5. QED
  BY <1>2, <1>3, <1>4 DEF Breakers, BreakerStates

\* The timer of a sound breaker finds it open and leaves it half open.
LEMMA TimerFiresSound ==
  ASSUME NEW b \in Breakers, Sound(b), b.timers > 0
  PROVE  /\ TimerFires(b) \in Breakers
         /\ Sound(TimerFires(b))
         /\ b.state = "open" /\ TimerFires(b).state = "halfOpen"
<1> DEFINE c == ChangeState(b, "halfOpen")
<1>1. b.state = "open" /\ b.timers = 1
  BY DEF Sound
<1>2. /\ c \in Breakers /\ c.state = "halfOpen" /\ c.errors = 0 /\ c.successes = 0
      /\ c.timers = 1
      /\ c.errorThreshold = b.errorThreshold /\ c.successThreshold = b.successThreshold
  BY <1>1, ChangeStateFields DEF BreakerStates
<1> HIDE DEF c
<1>3. TimerFires(b) = [c EXCEPT !.timers = c.timers - 1]
  BY DEF TimerFires, c
<1>4. QED
  BY <1>1, <1>2, <1>3 DEF Breakers, Sound

-----------------------------------------------------------------------------
(* The invariant.                                                           *)

\* Whoever is about to put a breaker into the map has found none there, and has
\* held h.mutex since: what keeps the insertion from replacing a breaker.
InsertIsNew == \A r \in Requests : pc[r] = "insert" => ~ HasBreaker(node[r])

Inv == TypeOK /\ BreakerReady /\ BreakerSound /\ InsertIsNew

\* A request that moves between two labels other than "insert", without touching
\* the breakers or the mutex, keeps the invariant if it keeps its own part of it.
LEMMA RequestStep ==
  ASSUME Inv, NEW r \in Requests,
         NEW label \in Labels \ {"insert", "idle"}, pc[r] # "insert", Goto(r, label),
         api' = api, token' = token,
         DOMAIN outcome' = Requests, DOMAIN answer' = Requests,
         node' = node \/ \E n \in Nodes : node' = [node EXCEPT ![r] = n],
         api[r] \in Apis,
         admitted' = admitted \/ \E s \in BreakerStates : admitted' = [admitted EXCEPT ![r] = s],
         label = "done" \/ node'[r] \in Nodes,
         label \in {"run", "fail", "schedule"} \/ (label = "call" /\ P(r).guarded)
           => HasBreaker(node'[r]),
         UNCHANGED <<mutex, breakers>>,
         early' \in [Nodes -> Nat], late' \in [Nodes -> Nat],
         check' \in [Nodes -> {"passing", "critical"}]
  PROVE  Inv'
<1> USE DEF Inv
<1>1. TypeOK'
  BY DEF TypeOK, Goto, Labels
<1>2. BreakerReady'
  <2> SUFFICES ASSUME NEW q \in Requests,
                      pc'[q] \in {"run", "fail", "schedule"} \/ (pc'[q] = "call" /\ P(q)'.guarded)
               PROVE  node'[q] \in DOMAIN breakers'
    BY DEF BreakerReady, HasBreaker
  <2>1. pc' = [pc EXCEPT ![r] = label] /\ P(q)' = P(q) /\ breakers' = breakers
    BY DEF Goto, P
  <2>2. CASE q = r
    BY <2>1, <2>2 DEF TypeOK, HasBreaker
  <2>3. CASE q # r
    <3>1. pc'[q] = pc[q] /\ node'[q] = node[q]
      BY <2>1, <2>3 DEF TypeOK
    <3>2. QED
      BY <2>1, <3>1 DEF BreakerReady, HasBreaker
  <2>4. QED
    BY <2>2, <2>3
<1>3. BreakerSound' /\ InsertIsNew'
  BY DEF TypeOK, BreakerSound, InsertIsNew, HasBreaker, Goto
<1>4. QED
  BY <1>1, <1>2, <1>3

\* A step that replaces the breaker of one node by a sound one, as one request
\* (or none) answers, keeps the invariant.
LEMMA BreakerStep ==
  ASSUME Inv, NEW m \in Nodes, NEW c \in Breakers, Sound(c),
         breakers' = [breakers EXCEPT ![m] = c],
         pc' = pc \/ \E r \in Requests : pc[r] = "call" /\ pc' = [pc EXCEPT ![r] = "done"],
         UNCHANGED <<api, token, node, admitted, mutex, check>>,
         DOMAIN outcome' = Requests, DOMAIN answer' = Requests,
         early' \in [Nodes -> Nat], late' \in [Nodes -> Nat]
  PROVE  Inv'
<1> USE DEF Inv
<1>1. DOMAIN breakers' = DOMAIN breakers
  OBVIOUS
<1>2. \A n \in DOMAIN breakers' : breakers'[n] \in Breakers /\ Sound(breakers'[n])
  BY DEF TypeOK, BreakerSound
<1>3. TypeOK'
  BY <1>1, <1>2 DEF TypeOK, Labels
<1>4. BreakerReady'
  <2> SUFFICES ASSUME NEW q \in Requests,
                      pc'[q] \in {"run", "fail", "schedule"} \/ (pc'[q] = "call" /\ P(q)'.guarded)
               PROVE  node'[q] \in DOMAIN breakers'
    BY DEF BreakerReady, HasBreaker
  <2>1. pc'[q] = pc[q] /\ P(q)' = P(q)
    BY DEF TypeOK, P
  <2>2. QED
    BY <1>1, <2>1 DEF BreakerReady, HasBreaker
<1>5. BreakerSound'
  BY <1>2 DEF BreakerSound
<1>6. InsertIsNew'
  BY <1>1 DEF InsertIsNew, HasBreaker, TypeOK
<1>7. QED
  BY <1>3, <1>4, <1>5, <1>6

\* The invariant holds of a process that has just started, whatever consul's
\* checks are: initially and after a restart.
LEMMA FreshInv ==
  ASSUME InitRequests, \/ breakers = NoBreakers \/ breakers = [n \in Nodes |-> Closed]
  PROVE  Inv
<1>1. \A n \in DOMAIN breakers : breakers[n] = Closed /\ n \in Nodes
  BY DEF NoBreakers
<1>2. TypeOK
  BY <1>1, ClosedSound, CallAssumption DEF InitRequests, TypeOK, Labels
<1>3. BreakerSound
  BY <1>1, ClosedSound DEF BreakerSound
<1>4. BreakerReady /\ InsertIsNew
  BY DEF InitRequests, BreakerReady, InsertIsNew
<1>5. QED
  BY <1>2, <1>3, <1>4 DEF Inv

\* The invariant is inductive.
LEMMA InvStep == Inv /\ [Next]_vars => Inv'
<1> SUFFICES ASSUME Inv, [Next]_vars PROVE Inv'
  OBVIOUS
<1> USE DEF request, shared
<1>0. TypeOK /\ BreakerReady /\ BreakerSound
  BY DEF Inv
<1> DEFINE Answered == DOMAIN outcome' = Requests /\ DOMAIN answer' = Requests
<1>1. ASSUME NEW r \in Requests, Arrive(r) PROVE Inv'
  <2> USE <1>0, <1>1
  <2>1. TypeOK'
    BY CallAssumption DEF Arrive, Goto, TypeOK, Labels
  <2>2. BreakerReady'
    BY DEF Arrive, Goto, TypeOK, BreakerReady, HasBreaker, P
  <2>3. BreakerSound'
    BY DEF Arrive, BreakerSound
  <2>4. InsertIsNew'
    BY DEF Inv, Arrive, Goto, TypeOK, InsertIsNew, HasBreaker
  <2>5. QED
    BY <2>1, <2>2, <2>3, <2>4 DEF Inv
<1>2. ASSUME NEW r \in Requests, Unauthorized(r) \/ Refuse(r) \/ SelectFails(r) PROVE Inv'
  <2>1. pc[r] = "start" /\ Goto(r, "done")
    BY <1>2 DEF Unauthorized, Refuse, SelectFails, Respond
  <2>2. UNCHANGED <<api, token, node, admitted, shared>>
    BY <1>2 DEF Unauthorized, Refuse, SelectFails
  <2>3. Answered
    BY <1>0, <1>2 DEF Unauthorized, Refuse, SelectFails, Respond, TypeOK
  <2>4. QED
    BY <1>0, <2>1, <2>2, <2>3, RequestStep DEF TypeOK, Labels
<1>3. ASSUME NEW r \in Requests, SelectNode(r) PROVE Inv'
  BY <1>0, <1>3, RequestStep DEF SelectNode, TypeOK, Labels
<1>4. ASSUME NEW r \in Requests, Acquire(r) PROVE Inv'
  <2>0. /\ pc[r] = "acquire" /\ mutex = None /\ node[r] \in Nodes /\ api[r] \in Apis
        /\ UNCHANGED <<request, breakers, early, late, check>>
    BY <1>0, <1>4 DEF Acquire, TypeOK
  <2>1. CASE HasBreaker(node[r])
    <3>1. Goto(r, "run") /\ mutex' = mutex
      BY <1>4, <2>1 DEF Acquire
    <3>2. QED
      BY <1>0, <2>0, <2>1, <3>1, RequestStep DEF TypeOK, Labels, HasBreaker
  <2>2. CASE ~ HasBreaker(node[r])
    <3>1. pc' = [pc EXCEPT ![r] = "insert"] /\ mutex' = r
      BY <1>4, <2>2 DEF Acquire, Goto
    <3>2. \A q \in Requests : pc[q] # "insert"
      BY <1>0, <2>0, CallAssumption DEF TypeOK
    <3>3. TypeOK'
      BY <1>0, <2>0, <3>1, <3>2 DEF TypeOK, Labels
    <3>4. BreakerReady' /\ BreakerSound'
      BY <1>0, <2>0, <3>1 DEF TypeOK, BreakerReady, BreakerSound, HasBreaker, P
    <3>5. InsertIsNew'
      BY <1>0, <2>0, <2>2, <3>1, <3>2 DEF TypeOK, InsertIsNew, HasBreaker
    <3>6. QED
      BY <3>3, <3>4, <3>5 DEF Inv
  <2>3. QED
    BY <2>1, <2>2
<1>5. ASSUME NEW r \in Requests, Insert(r) PROVE Inv'
  <2> USE <1>0, <1>5
  <2>1. \A n \in DOMAIN breakers' : breakers'[n] \in Breakers /\ Sound(breakers'[n]) /\ n \in Nodes
    BY ClosedSound DEF Insert, TypeOK, BreakerSound
  <2>2. TypeOK'
    BY <2>1, CallAssumption DEF Insert, Goto, TypeOK, Labels
  <2>3. BreakerReady'
    BY DEF Insert, Goto, TypeOK, BreakerReady, HasBreaker, P
  <2>4. InsertIsNew'
    BY DEF Insert, Goto, TypeOK, InsertIsNew
  <2>5. QED
    BY <2>1, <2>2, <2>3, <2>4 DEF Inv, BreakerSound
<1>6. ASSUME NEW r \in Requests, RunRejected(r) PROVE Inv'
  BY <1>0, <1>6, RequestStep DEF RunRejected, TypeOK, Labels
<1>7. ASSUME NEW r \in Requests, RunAdmitted(r) PROVE Inv'
  <2>1. breakers[node[r]].state \in BreakerStates /\ node[r] \in Nodes
    BY <1>0, <1>7 DEF RunAdmitted, HasBreaker, TypeOK, Breakers
  <2>2. QED
    BY <1>0, <1>7, <2>1, RequestStep DEF RunAdmitted, TypeOK, Labels
<1>8. ASSUME NEW r \in Requests, CallReplies(r) PROVE Inv'
  <2>0. Answered
    BY <1>0, <1>8 DEF CallReplies, Respond, TypeOK
  <2>1. CASE P(r).guarded
    <3> DEFINE c == RecordSuccess(breakers[node[r]], admitted[r])
    <3>1. node[r] \in DOMAIN breakers /\ node[r] \in Nodes
      BY <1>0, <1>8, <2>1 DEF CallReplies, BreakerReady, HasBreaker, TypeOK
    <3>2. c \in Breakers /\ Sound(c)
      BY <1>0, <3>1, RecordSuccessSound DEF TypeOK, BreakerSound
    <3>3. breakers' = [breakers EXCEPT ![node[r]] = c]
      BY <1>8, <2>1 DEF CallReplies
    <3> HIDE DEF c
    <3>4. pc[r] = "call" /\ pc' = [pc EXCEPT ![r] = "done"]
      BY <1>8 DEF CallReplies, Respond, Goto
    <3>5. QED
      BY <1>0, <1>8, <2>0, <3>1, <3>2, <3>3, <3>4, BreakerStep DEF CallReplies, TypeOK
  <2>2. CASE ~ P(r).guarded
    <3>1. pc[r] = "call" /\ Goto(r, "done") /\ breakers' = breakers
      BY <1>8, <2>2 DEF CallReplies, Respond
    <3>2. QED
      BY <1>0, <1>8, <2>0, <3>1, RequestStep DEF CallReplies, TypeOK, Labels
  <2>3. QED
    BY <2>1, <2>2
<1>9. ASSUME NEW r \in Requests, GuardedCallFails(r) PROVE Inv'
  <2>0. Answered
    BY <1>0, <1>9 DEF GuardedCallFails, Respond, TypeOK
  <2>1. PICK expired \in BOOLEAN :
          breakers' = [breakers EXCEPT ![node[r]] = RecordError(breakers[node[r]], expired)]
    BY <1>9 DEF GuardedCallFails
  <2> DEFINE c == RecordError(breakers[node[r]], expired)
  <2>2. node[r] \in DOMAIN breakers /\ node[r] \in Nodes
    BY <1>0, <1>9 DEF GuardedCallFails, BreakerReady, HasBreaker, TypeOK
  <2>3. c \in Breakers /\ Sound(c)
    BY <1>0, <2>2, RecordErrorSound DEF TypeOK, BreakerSound
  <2> HIDE DEF c
  <2>4. breakers' = [breakers EXCEPT ![node[r]] = c]
    BY <2>1 DEF c
  <2>5. pc[r] = "call" /\ pc' = [pc EXCEPT ![r] = "done"]
    BY <1>9 DEF GuardedCallFails, Respond, Goto
  <2>6. QED
    BY <1>0, <1>9, <2>0, <2>2, <2>3, <2>4, <2>5, BreakerStep DEF GuardedCallFails, TypeOK
<1>10. ASSUME NEW r \in Requests, UnguardedCallFails(r) PROVE Inv'
  <2>0. Answered
    BY <1>0, <1>10 DEF UnguardedCallFails, Respond, TypeOK
  <2>1. pc[r] = "call" /\ Goto(r, "done")
    BY <1>10 DEF UnguardedCallFails, Respond
  <2>2. QED
    BY <1>0, <1>10, <2>0, <2>1, RequestStep DEF UnguardedCallFails, TypeOK, Labels
<1>11. ASSUME NEW r \in Requests, FailTTL(r) PROVE Inv'
  <2>1. check' \in [Nodes -> {"passing", "critical"}]
    BY <1>0, <1>11 DEF FailTTL, TypeOK
  <2>2. QED
    BY <1>0, <1>11, <2>1, RequestStep DEF FailTTL, TypeOK, BreakerReady, Labels
<1>12. ASSUME NEW r \in Requests, Schedule(r) PROVE Inv'
  <2>0. Answered
    BY <1>0, <1>12 DEF Schedule, Respond, TypeOK
  <2>1. early' \in [Nodes -> Nat] /\ late' \in [Nodes -> Nat]
    BY <1>0, <1>12 DEF Schedule, TypeOK
  <2>2. pc[r] = "schedule" /\ Goto(r, "done") /\ UNCHANGED <<api, token, node, admitted, mutex, breakers, check>>
    BY <1>12 DEF Schedule, Respond
  <2>3. QED
    BY <1>0, <2>0, <2>1, <2>2, RequestStep DEF TypeOK, Labels
<1>13. ASSUME NEW n \in Nodes, PassTTL(n) PROVE Inv'
  <2>1. TypeOK'
    BY <1>0, <1>13 DEF PassTTL, TypeOK
  <2>2. BreakerReady' /\ BreakerSound' /\ InsertIsNew'
    BY <1>13 DEF Inv, PassTTL, BreakerReady, BreakerSound, InsertIsNew, HasBreaker, P
  <2>3. QED
    BY <2>1, <2>2 DEF Inv
<1>14. ASSUME NEW n \in Nodes, BreakerTimer(n) PROVE Inv'
  <2> DEFINE c == TimerFires(breakers[n])
  <2>1. c \in Breakers /\ Sound(c)
    BY <1>0, <1>14, TimerFiresSound DEF BreakerTimer, HasBreaker, TypeOK, BreakerSound
  <2>2. early' \in [Nodes -> Nat] /\ late' \in [Nodes -> Nat] /\ breakers' = [breakers EXCEPT ![n] = c]
    BY <1>0, <1>14 DEF BreakerTimer, TypeOK
  <2> HIDE DEF c
  <2>3. QED
    BY <1>0, <1>14, <2>1, <2>2, BreakerStep DEF BreakerTimer, TypeOK
<1>15. ASSUME Restart PROVE Inv'
  <2>1. TypeOK'
    BY <1>0, <1>15, CallAssumption DEF Restart, TypeOK, Labels, NoBreakers
  <2>2. BreakerReady' /\ BreakerSound' /\ InsertIsNew'
    BY <1>15 DEF Restart, BreakerReady, BreakerSound, InsertIsNew, NoBreakers
  <2>3. QED
    BY <2>1, <2>2 DEF Inv
<1>16. ASSUME UNCHANGED vars PROVE Inv'
  BY <1>16 DEF Inv, vars, TypeOK, BreakerReady, BreakerSound, InsertIsNew, HasBreaker, P
<1>17. QED
  BY <1>1, <1>2, <1>3, <1>4, <1>5, <1>6, <1>7, <1>8, <1>9, <1>10, <1>11, <1>12,
     <1>13, <1>14, <1>15, <1>16 DEF Next, Step

-----------------------------------------------------------------------------
(* The theorems.                                                            *)

\* From an empty map of breakers as from a full one, the invariant always holds.
THEOREM InvHolds == (Spec => []Inv) /\ (SpecWarm => []Inv)
<1>1. Init => Inv
  BY FreshInv DEF Init
<1>2. InitWarm => Inv
  BY FreshInv DEF InitWarm
<1>3. QED
  BY <1>1, <1>2, InvStep, PTL DEF Spec, SpecWarm

\* Every variable keeps its type, and the mutex is held by nobody but the request
\* that inserts a breaker, however requests, timers and restarts interleave.
THEOREM TypeCorrect == Spec => []TypeOK
<1>1. Inv => TypeOK
  BY DEF Inv
<1>2. QED
  BY <1>1, InvHolds, PTL

\* Run never finds the map without its node's breaker: the entry it saw or made
\* under h.mutex is still there when it reads the map outside of it.
THEOREM BreakersReady == Spec => []BreakerReady
<1>1. Inv => BreakerReady
  BY DEF Inv
<1>2. QED
  BY <1>1, InvHolds, PTL

\* A breaker is open exactly while one timer runs for it, and its counters stay
\* below their thresholds, whatever results arrive late and in whatever order.
THEOREM BreakersSound == Spec => []BreakerSound
<1>1. Inv => BreakerSound
  BY DEF Inv
<1>2. QED
  BY <1>1, InvHolds, PTL
===============================================================================
