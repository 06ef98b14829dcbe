----------------------------- MODULE ServiceCall -----------------------------
(***************************************************************************)
(* The course every handler of src/handler follows for one HTTP request,   *)
(* many requests at a time:                                                *)
(*   authenticate; select a node of the API's service; under h.mutex put a *)
(*   breaker for the node into h.breakers if there is none; read the map   *)
(*   again, outside the mutex, and run the call through the breaker; answer *)
(*   what came of it.                                                      *)
(* A request the open breaker rejects sets the node's consul check to      *)
(* critical (FailTTLHealth) and leaves a timer behind that sets it back to *)
(* passing (PassTTLHealth).                                                *)
(* The directory is taken here as any node of the service, or an error;    *)
(* ServiceDirectory models it.                                             *)
(***************************************************************************)
EXTENDS CircuitBreaker, Handlers, Sequences

CONSTANTS
  ErrorThreshold, SuccessThreshold,   \* h.BreakerCfg
  Requests,      \* goroutines that serve a request
  Apis,          \* the APIs requested, by handler name
  Nodes,         \* service nodes, each with one consul check
  ServiceOf,     \* [Nodes -> service names]
  Faults,        \* which of "passTTL", "failTTL", "restart", "jitter" may happen
  MaxTimers,     \* bound: pending PassTTLHealth timers plus requests in flight
  Flaky,         \* bound: the nodes whose calls may fail
  None

ASSUME ThresholdAssumption ==
  /\ ErrorThreshold \in Nat \ {0}
  /\ SuccessThreshold \in Nat \ {0}

ASSUME CallAssumption ==
  /\ Apis \subseteq DOMAIN Profile
  /\ Faults \subseteq {"passTTL", "failTTL", "restart", "jitter"}
  /\ MaxTimers \in Nat /\ Flaky \subseteq Nodes
  /\ None \notin Requests \cup Nodes

VARIABLES
  pc,          \* where each request is
  api,         \* the API it asks for
  token,       \* whether it carries a valid token
  node,        \* selectedNode
  admitted,    \* the breaker state Run saw
  outcome,     \* what came of the call to the service, None before
  answer,      \* the response: [status, code], None before
  mutex,       \* h.mutex: the request that holds it
  breakers,    \* h.breakers: a function on the nodes that have a breaker
  early,       \* per node, pending time.AfterFunc calls of PassTTLHealth that were
               \* started while the breaker's own timer was still to fire
  late,        \* per node, the other pending calls of PassTTLHealth
  check        \* consul: the health of each node's check

request == <<api, token, node, admitted, outcome, answer>>
shared  == <<mutex, breakers, early, late, check>>
vars    == <<pc, request, shared>>

P(r) == Profile[api[r]]

\* What a call to the service comes to: a reply of any status, of which the
\* handlers tell these apart, or an error of the gRPC client, a micro error
\* with code 408 or any other.
Reply(status) == [kind |-> "reply", status |-> status]
Replies(p)    == {Reply(s) : s \in {p.success, 408, 409, 500, 503}}
Timeout       == [kind |-> "error", status |-> 408]
OtherError    == [kind |-> "error", status |-> 500]

ASSUME OutcomeAssumption ==
  /\ None \notin {Timeout, OtherError}
  /\ \A a \in Apis : None \notin Replies(Profile[a])

Goto(r, label) == pc' = [pc EXCEPT ![r] = label]

\* The response is written and the handler returns.
Respond(r, status, code) ==
  /\ answer' = [answer EXCEPT ![r] = [status |-> status, code |-> code]]
  /\ Goto(r, "done")

-----------------------------------------------------------------------------
(* From the request to the selected node.                                   *)

Pending(n) == early[n] + late[n]
InFlight == {r \in Requests : pc[r] \notin {"idle", "done"}}

Arrive(r) ==
  /\ pc[r] \in {"idle", "done"}
  /\ \A n \in Nodes : Pending(n) + Cardinality(InFlight) < MaxTimers
  /\ \E a \in Apis : api' = [api EXCEPT ![r] = a]
  /\ \E b \in BOOLEAN : token' = [token EXCEPT ![r] = b]
  /\ node' = [node EXCEPT ![r] = None]
  /\ admitted' = [admitted EXCEPT ![r] = None]
  /\ outcome' = [outcome EXCEPT ![r] = None]
  /\ answer' = [answer EXCEPT ![r] = None]
  /\ Goto(r, "start")
  /\ UNCHANGED shared

Authenticated(r) == ChecksToken(api[r]) => token[r]

\* Authenticator, or checkIfAuthenticated for TakeActionInOuting.
Unauthorized(r) ==
  /\ pc[r] = "start" /\ ~ Authenticated(r)
  /\ Respond(r, 401, "gateway")
  /\ UNCHANGED <<api, token, node, admitted, outcome, shared>>

\* The handler itself turns the request down (unknown action, unreadable file).
Refuse(r) ==
  /\ pc[r] = "start" /\ Authenticated(r)
  /\ \E status \in P(r).refuses : Respond(r, status, "gateway")
  /\ UNCHANGED <<api, token, node, admitted, outcome, shared>>

\* Mutant: the return after the failed selection is missing.
SelectFailsGoesOn(r) ==
  /\ pc[r] = "start" /\ Authenticated(r)
  /\ Goto(r, "acquire")
  /\ UNCHANGED <<request, shared>>

\* getStatusCodeFromConsulErr: ErrAvailableNodeNotFound is 503, other errors 500.
SelectFails(r) ==
  /\ pc[r] = "start" /\ Authenticated(r)
  /\ \/ Respond(r, 503, "AvailableServiceNotExist")
     \/ Respond(r, 500, "gateway")
  /\ UNCHANGED <<api, token, node, admitted, outcome, shared>>

SelectNode(r) ==
  /\ pc[r] = "start" /\ Authenticated(r)
  /\ \E n \in Nodes : ServiceOf[n] = P(r).topic /\ node' = [node EXCEPT ![r] = n]
  /\ Goto(r, IF P(r).guarded THEN "acquire" ELSE "call")
  /\ UNCHANGED <<api, token, admitted, outcome, answer, shared>>

-----------------------------------------------------------------------------
(* The breaker of the node.                                                 *)

HasBreaker(n) == n \in DOMAIN breakers

\* Mutant: the look-up before the insertion is missing.
AcquireInsertsAlways(r) ==
  /\ pc[r] = "acquire" /\ mutex = None
  /\ Goto(r, "insert") /\ mutex' = r
  /\ UNCHANGED <<request, breakers, early, late, check>>

\* Mutant: the look-up is inverted.
AcquireInserted(r) ==
  /\ pc[r] = "acquire" /\ mutex = None
  /\ IF HasBreaker(node[r])
     THEN Goto(r, "insert") /\ mutex' = r
     ELSE Goto(r, "run") /\ mutex' = mutex
  /\ UNCHANGED <<request, breakers, early, late, check>>

\* h.mutex.Lock and the look-up; with a breaker there, Unlock follows at once.
Acquire(r) ==
  /\ pc[r] = "acquire" /\ mutex = None
  /\ IF HasBreaker(node[r])
     THEN Goto(r, "run") /\ mutex' = mutex
     ELSE Goto(r, "insert") /\ mutex' = r
  /\ UNCHANGED <<request, breakers, early, late, check>>

\* A new breaker, with the thresholds of h.BreakerCfg.
Closed == NewBreaker(ErrorThreshold, SuccessThreshold)

\* Mutant: h.BreakerCfg is not set.
InsertUnconfigured(r) ==
  /\ pc[r] = "insert"
  /\ breakers' = [n \in DOMAIN breakers \cup {node[r]} |->
                    IF n = node[r] THEN NewBreaker(0, 0) ELSE breakers[n]]
  /\ mutex' = None
  /\ Goto(r, "run")
  /\ UNCHANGED <<request, early, late, check>>

Insert(r) ==
  /\ pc[r] = "insert"
  /\ breakers' = [n \in DOMAIN breakers \cup {node[r]} |->
                    IF n = node[r] THEN Closed ELSE breakers[n]]
  /\ mutex' = None
  /\ Goto(r, "run")
  /\ UNCHANGED <<request, early, late, check>>

\* h.breakers[selectedNode.Id].Run outside the mutex: the closure is not called.
RunRejected(r) ==
  /\ pc[r] = "run" /\ HasBreaker(node[r])
  /\ breakers[node[r]].state = "open"
  /\ Goto(r, "fail")
  /\ UNCHANGED <<request, shared>>

RunAdmitted(r) ==
  /\ pc[r] = "run" /\ HasBreaker(node[r])
  /\ breakers[node[r]].state # "open"
  /\ admitted' = [admitted EXCEPT ![r] = breakers[node[r]].state]
  /\ Goto(r, "call")
  /\ UNCHANGED <<api, token, node, outcome, answer, shared>>

-----------------------------------------------------------------------------
(* The call to the service, and the response.                               *)

CallReplies(r) ==
  /\ pc[r] = "call"
  /\ \E o \in Replies(P(r)) :
       outcome' = [outcome EXCEPT ![r] = o] /\ Respond(r, o.status, "service")
  /\ breakers' = IF P(r).guarded
                 THEN [breakers EXCEPT ![node[r]] = RecordSuccess(@, admitted[r])]
                 ELSE breakers
  /\ UNCHANGED <<api, token, node, admitted, mutex, early, late, check>>

\* Mutant: the case of http.StatusRequestTimeout is missing.
GuardedCallFailsWith500(r) ==
  /\ pc[r] = "call" /\ P(r).guarded
  /\ node[r] \in Flaky
  /\ \E o \in {Timeout, OtherError} :
       outcome' = [outcome EXCEPT ![r] = o] /\ Respond(r, 500, "gateway")
  /\ \E expired \in BOOLEAN :
       breakers' = [breakers EXCEPT ![node[r]] = RecordError(@, expired)]
  /\ UNCHANGED <<api, token, node, admitted, mutex, early, late, check>>

\* Mutant: a failed call is tried again instead of answered.
GuardedCallRetries(r) ==
  /\ pc[r] = "call" /\ P(r).guarded
  /\ node[r] \in Flaky
  /\ Goto(r, "acquire")
  /\ \E expired \in BOOLEAN :
       breakers' = [breakers EXCEPT ![node[r]] = RecordError(@, expired)]
  /\ UNCHANGED <<request, mutex, early, late, check>>

GuardedCallFails(r) ==
  /\ pc[r] = "call" /\ P(r).guarded
  /\ node[r] \in Flaky
  /\ \E o \in {Timeout, OtherError} :
       outcome' = [outcome EXCEPT ![r] = o] /\ Respond(r, o.status, "gateway")
  /\ \E expired \in BOOLEAN :
       breakers' = [breakers EXCEPT ![node[r]] = RecordError(@, expired)]
  /\ UNCHANGED <<api, token, node, admitted, mutex, early, late, check>>

\* "switch rpcErr := err.(type)" looks at the nil error of GetNextServiceNode:
\* the nil reply is dereferenced, and gin recovers the panic with a bare 500.
UnguardedCallFails(r) ==
  /\ pc[r] = "call" /\ ~ P(r).guarded
  /\ node[r] \in Flaky
  /\ \E o \in {Timeout, OtherError} : outcome' = [outcome EXCEPT ![r] = o]
  /\ Respond(r, 500, "panic")
  /\ UNCHANGED <<api, token, node, admitted, mutex, breakers, early, late, check>>

\* FailTTLHealth; its error is ignored.
FailTTL(r) ==
  /\ pc[r] = "fail"
  /\ \/ check' = [check EXCEPT ![node[r]] = "critical"]
     \/ "failTTL" \in Faults /\ check' = check
  /\ Goto(r, "schedule")
  /\ UNCHANGED <<request, mutex, breakers, early, late>>

\* Mutant: no timer is started when the breaker is no longer open.
ScheduleWhileOpen(r) ==
  LET n == node[r]
  IN /\ pc[r] = "schedule"
     /\ early' = IF breakers[n].state = "open" THEN [early EXCEPT ![n] = @ + 1] ELSE early
     /\ late' = late
     /\ Respond(r, 503, "CircuitBreakerOpen")
     /\ UNCHANGED <<api, token, node, admitted, outcome, mutex, breakers, check>>

\* time.AfterFunc of PassTTLHealth, then the response.
Schedule(r) ==
  LET n == node[r]
  IN /\ pc[r] = "schedule"
     /\ IF breakers[n].state = "open"
        THEN early' = [early EXCEPT ![n] = @ + 1] /\ late' = late
        ELSE late' = [late EXCEPT ![n] = @ + 1] /\ early' = early
     /\ Respond(r, 503, "CircuitBreakerOpen")
     /\ UNCHANGED <<api, token, node, admitted, outcome, mutex, breakers, check>>

-----------------------------------------------------------------------------
(* Timers, consul and the process.                                          *)

\* The breaker's timer and PassTTLHealth's run for the same BreakerCfg.Timeout:
\* one started while the breaker is open is due after the breaker's.
BreakerTimer(n) ==
  /\ HasBreaker(n) /\ breakers[n].timers > 0
  /\ breakers' = [breakers EXCEPT ![n] = TimerFires(@)]
  /\ late' = [late EXCEPT ![n] = @ + early[n]]
  /\ early' = [early EXCEPT ![n] = 0]
  /\ UNCHANGED <<pc, request, mutex, check>>

\* PassTTLHealth of one timer; its error is ignored.  A late wake-up ("jitter")
\* lets it overtake the breaker's timer.
PassTTL(n) ==
  /\ \/ late[n] > 0 /\ late' = [late EXCEPT ![n] = @ - 1] /\ early' = early
     \/ /\ "jitter" \in Faults /\ early[n] > 0
        /\ early' = [early EXCEPT ![n] = @ - 1] /\ late' = late
  /\ \/ check' = [check EXCEPT ![n] = "passing"]
     \/ "passTTL" \in Faults /\ check' = check
  /\ UNCHANGED <<pc, request, mutex, breakers>>

\* One request writes h.breakers while another reads or writes it.
MapRace ==
  \E r, q \in Requests : r # q /\ pc[r] = "insert" /\ pc[q] \in {"insert", "run"}

NoBreakers == [n \in {} |-> Closed]

\* The process ends, on its own or by the runtime's "concurrent map read and
\* map write", and is restarted: breakers and timers are gone, consul stays.
Restart ==
  /\ MapRace \/ "restart" \in Faults
  /\ pc' = [r \in Requests |-> "idle"]
  /\ api' = [r \in Requests |-> None]
  /\ token' = [r \in Requests |-> FALSE]
  /\ node' = [r \in Requests |-> None]
  /\ admitted' = [r \in Requests |-> None]
  /\ outcome' = [r \in Requests |-> None]
  /\ answer' = [r \in Requests |-> None]
  /\ mutex' = None
  /\ breakers' = NoBreakers
  /\ early' = [n \in Nodes |-> 0]
  /\ late' = [n \in Nodes |-> 0]
  /\ check' = check

-----------------------------------------------------------------------------
InitRequests ==
  /\ pc = [r \in Requests |-> "idle"]
  /\ api = [r \in Requests |-> None]
  /\ token = [r \in Requests |-> FALSE]
  /\ node = [r \in Requests |-> None]
  /\ admitted = [r \in Requests |-> None]
  /\ outcome = [r \in Requests |-> None]
  /\ answer = [r \in Requests |-> None]
  /\ mutex = None
  /\ early = [n \in Nodes |-> 0]
  /\ late = [n \in Nodes |-> 0]
  /\ check = [n \in Nodes |-> "passing"]

\* handler.Default: the process has just started.
Init == InitRequests /\ breakers = NoBreakers

\* Every node has been called before.
InitWarm == InitRequests /\ breakers = [n \in Nodes |-> Closed]

Step(r) ==
  \/ Unauthorized(r) \/ Refuse(r) \/ SelectFails(r) \/ SelectNode(r)
  \/ Acquire(r) \/ Insert(r) \/ RunRejected(r) \/ RunAdmitted(r)
  \/ CallReplies(r) \/ GuardedCallFails(r) \/ UnguardedCallFails(r)
  \/ FailTTL(r) \/ Schedule(r)

Next ==
  \/ \E r \in Requests : Arrive(r) \/ Step(r)
  \/ \E n \in Nodes : PassTTL(n) \/ BreakerTimer(n)
  \/ Restart

Spec     == Init /\ [][Next]_vars
SpecWarm == InitWarm /\ [][Next]_vars

-----------------------------------------------------------------------------
(* Properties.                                                              *)

Labels == {"idle", "start", "acquire", "insert", "run", "call", "fail", "schedule", "done"}

\* Every variable has its type, and whoever is past the selection has a node.
TypeOK ==
  /\ pc \in [Requests -> Labels]
  /\ api \in [Requests -> Apis \cup {None}]
  /\ token \in [Requests -> BOOLEAN]
  /\ node \in [Requests -> Nodes \cup {None}]
  /\ admitted \in [Requests -> BreakerStates \cup {None}]
  /\ DOMAIN outcome = Requests /\ DOMAIN answer = Requests
  /\ mutex \in Requests \cup {None}
  /\ DOMAIN breakers \subseteq Nodes
  /\ \A n \in DOMAIN breakers : breakers[n] \in Breakers
  /\ early \in [Nodes -> Nat] /\ late \in [Nodes -> Nat]
  /\ check \in [Nodes -> {"passing", "critical"}]
  /\ \A r \in Requests :
       /\ pc[r] = "insert" <=> mutex = r
       /\ pc[r] # "idle" => api[r] \in Apis
       /\ pc[r] \in {"acquire", "insert", "run", "call", "fail", "schedule"} => node[r] \in Nodes

\* Whoever calls Run finds a breaker in the map, and whoever uses the result of
\* a guarded call does so on the breaker it went through: entries stay.
BreakerReady ==
  \A r \in Requests :
    \/ pc[r] \in {"run", "fail", "schedule"}
    \/ pc[r] = "call" /\ P(r).guarded
    => HasBreaker(node[r])

\* A breaker is open exactly while one timer runs that will half open it, so it
\* neither stays open for good nor is half opened by the timer of an earlier
\* opening; and its counters stay below the thresholds they are compared with
\* by "==" (a counter that skipped its threshold would never change the state).
BreakerSound == \A n \in DOMAIN breakers : Sound(breakers[n])

\* Every breaker stays and keeps its state or moves on by one; or all are dropped.
CycleStep ==
  Restart \/ \A n \in DOMAIN breakers :
    /\ n \in DOMAIN breakers'
    /\ <<breakers[n].state, breakers'[n].state>> \in
         {<<s, s>> : s \in BreakerStates} \cup
         {<<"closed", "open">>, <<"open", "halfOpen">>,
          <<"halfOpen", "open">>, <<"halfOpen", "closed">>}

\* A breaker changes state only along closed -> open -> halfOpen -> closed or
\* open: no concurrent first request replaces it by a new, closed one.
BreakerCycle == [][CycleStep]_vars

\* The call goes to a node of the service its client is generated for, although
\* each of the copied handlers names the service it selects a node of and the
\* client it calls in two different places.
CallReachesItsService ==
  \A r \in Requests : pc[r] = "call" => ServiceOf[node[r]] = ServiceOfStub[P(r).stub]

\* A call that names the user of the token is only made with a valid token: the
\* handlers ignore missing claims ("uuidClaims, _ :=") and would send no UUID.
CallNamesItsUser ==
  \A r \in Requests : pc[r] = "call" /\ P(r).claims => token[r]

\* Response "a" to an API of profile "p" tells what came of the call, "o".
Honest(p, o, a) ==
  IF o = None THEN a.code \notin {"service", "panic"}
  ELSE /\ a.code = "service" <=> o.kind = "reply"
       /\ o.kind = "reply" \/ p.guarded => a.status = o.status
       /\ a.code \notin {"CircuitBreakerOpen", "AvailableServiceNotExist"}

\* The response says what happened: it carries the service's status exactly
\* when the service replied, a timeout of a guarded call is a 408, and
\* "circuit breaker is open" or a failed selection mean that nothing was sent.
AnswerIsHonest ==
  \A r \in Requests : pc[r] = "done" => Honest(P(r), outcome[r], answer[r])

\* A check the gateway set to critical has a timer that will set it to passing
\* again, or the request that set it is about to start one.
CriticalHasPass ==
  \A n \in Nodes :
    check[n] = "critical" =>
      Pending(n) > 0 \/ \E r \in Requests : pc[r] = "schedule" /\ node[r] = n

\* README.md:108: an open breaker keeps the check from passing, once a rejected
\* request has set it to critical.
NoPassWhileOpen ==
  [][\A n \in DOMAIN breakers :
       breakers[n].state = "open" /\ check[n] = "critical" => ~ PassTTL(n)]_vars

-----------------------------------------------------------------------------
(* Fairness: goroutines run; h.mutex hands the lock to a waiter that keeps   *)
(* asking (sync.Mutex's starvation mode); a call ends because it carries a   *)
(* request timeout; timers fire.                                             *)

Fairness ==
  /\ \A r \in Requests : WF_vars(Step(r)) /\ SF_vars(Acquire(r))
  /\ \A n \in Nodes : WF_vars(PassTTL(n)) /\ WF_vars(BreakerTimer(n))

FairSpecWarm == SpecWarm /\ Fairness

\* Every request is answered.
RequestsAnswered ==
  \A r \in Requests : pc[r] = "start" ~> pc[r] = "done"

\* README.md:109: a check set to critical is set back to passing.
CheckRecovers ==
  \A n \in Nodes : check[n] = "critical" ~> check[n] = "passing"
===============================================================================
