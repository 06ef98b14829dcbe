------------------------------ MODULE ConsulEvents ------------------------------
(***************************************************************************)
(* How the directory follows consul: the start of the gateway (main.go,    *)
(* router/custom_router.go) and the handler of consul's watch events       *)
(* (handler/default_event_publish.go), composed with ServiceDirectory.     *)
(*                                                                         *)
(* Consul is external: every change of a node has an index, and one or     *)
(* more watchers post an event with its index to the gateway, in any order,*)
(* until it is answered.  The handler refreshes the directory once per     *)
(* index: indices handled in the last minute are in consulIndexFilter,     *)
(* guarded by consulIndexMutex.                                            *)
(***************************************************************************)
EXTENDS ServiceDirectory

CONSTANTS
  Handlers,    \* goroutines of the watch events, threads of the directory
  PublisherOf, \* [Services -> threads]: the goroutine that tells a service of a change
  Main,        \* the goroutine that starts the gateway, a thread of the directory
  Watchers,    \* consul agents that watch for changes
  MaxIndex,    \* bound: consul changes that many times
  PostedBy     \* bound: [1..MaxIndex -> the watchers that post an event of that change]

Publishers == {PublisherOf[s] : s \in Services}

ASSUME EventsAssumption ==
  /\ MaxIndex \in Nat
  /\ PostedBy \in [1..MaxIndex -> (SUBSET Watchers) \ {{}}]
  /\ PublisherOf \in [Services -> Threads]
  /\ Main \in Threads /\ Handlers \subseteq Threads
  /\ Main \notin Handlers \cup Publishers /\ Handlers \cap Publishers = {}
  /\ \A s, u \in Services : PublisherOf[s] = PublisherOf[u] => s = u

VARIABLES
  phase,    \* of the start: the functions to run before the server listens
  index,    \* consul: changes so far
  pending,  \* consul: events not answered yet
  event,    \* [Handlers -> the event being handled, or None]
  at,       \* [Handlers -> where PublishConsulChangeEvent is]
  mutex,    \* consulIndexMutex: the handler that holds it, or None
  filter,   \* h.consulIndexFilter: the <<service, index>> pairs recorded
  notify,   \* services whose goroutine of publishConsulChangeEvent is to start
  refreshed,\* history: pairs refreshed for, whose minute is not over
  dropped   \* history: the last refresh for an event returned an error

eventVars == <<phase, index, pending, event, at, mutex, filter, notify, refreshed, dropped>>
allVars   == <<vars, eventVars>>

-----------------------------------------------------------------------------
(* Consul.                                                                  *)

Events == [from : Watchers, service : Services, index : 1..MaxIndex]
\* Mutant: the filter remembers the service, whatever the index.
PairOfService(e) == <<e.service, 1>>

\* Mutant: the filter remembers the index before.
PairBefore(e) == <<e.service, e.index - 1>>

Pair(e) == <<e.service, e.index>>

Changes ==
  /\ index < MaxIndex
  /\ index' = index + 1
  /\ \E n \in Nodes, status \in {"absent", "critical", "passing"} :
       /\ check[n] # status
       /\ check' = [check EXCEPT ![n] = status]
       /\ pending' = pending \cup
            {[from |-> w, service |-> ServiceOf[n], index |-> index + 1] : w \in PostedBy[index + 1]}
  /\ quiet' = {}
  /\ UNCHANGED <<nodes, next, lockVars, pc, localVars, reply,
                 phase, event, at, mutex, filter, notify, refreshed, dropped>>

-----------------------------------------------------------------------------
(* The start: ConsulChangeEventPublisher, ChangeAllServiceNodes, listening. *)

StartPublishes ==
  /\ phase = "publish"
  /\ phase' = "refresh"
  /\ notify' = Services
  /\ UNCHANGED <<vars, index, pending, event, at, mutex, filter, refreshed, dropped>>

StartRefreshes ==
  /\ phase = "refresh"
  /\ ChangeAllServiceNodes(Main)
  /\ phase' = "refreshing"
  /\ UNCHANGED <<index, pending, event, at, mutex, filter, notify, refreshed, dropped>>

StartListens ==
  /\ phase = "refreshing" /\ pc[Main] = "idle" /\ reply[Main] = "ok"
  /\ phase' = "serve"
  /\ UNCHANGED <<vars, index, pending, event, at, mutex, filter, notify, refreshed, dropped>>

\* The state of a process that has just started.
NewProcess ==
  /\ nodes' = EmptyMap /\ next' = EmptyMap
  /\ writer' = None /\ readers' = {}
  /\ pc' = [t \in Threads |-> "idle"]
  /\ svc' = [t \in Threads |-> None]
  /\ queue' = [t \in Threads |-> <<>>]
  /\ todo' = [t \in Threads |-> <<>>]
  /\ found' = [t \in Threads |-> <<>>]
  /\ failed' = [t \in Threads |-> FALSE]
  /\ reply' = [t \in Threads |-> None]
  /\ quiet' = {}
  /\ phase' = "publish"
  /\ event' = [h \in Handlers |-> None]
  /\ at' = [h \in Handlers |-> "idle"]
  /\ mutex' = None /\ filter' = {} /\ notify' = {}
  /\ refreshed' = {} /\ dropped' = FALSE
  /\ UNCHANGED <<check, index, pending>>

\* log.Fatalf when the first refresh fails, or the runtime ends the process
\* (ServiceDirectory's ProcessDies); docker starts it again.
Restarts ==
  /\ \/ phase = "refreshing" /\ pc[Main] = "idle" /\ reply[Main] = "error"
     \/ MapRace \/ NilSelector
  /\ NewProcess

-----------------------------------------------------------------------------
(* PublishConsulChangeEvent.  A watch of type "checks" is answered before   *)
(* anything happens, and is left out.                                       *)

At(h, label) == at' = [at EXCEPT ![h] = label]

Receive(h) ==
  /\ phase = "serve"
  /\ at[h] = "idle"
  /\ \E e \in pending :
       /\ \A g \in Handlers : event[g] # e
       /\ event' = [event EXCEPT ![h] = e]
  /\ At(h, "lock")
  /\ UNCHANGED <<vars, phase, index, pending, mutex, filter, notify, refreshed, dropped>>

\* Mutant: consulIndexMutex is not locked.
LockIndexMissing(h) ==
  /\ at[h] = "lock"
  /\ At(h, "bind")
  /\ UNCHANGED <<vars, phase, index, pending, event, mutex, filter, notify, refreshed, dropped>>

LockIndex(h) ==
  /\ at[h] = "lock"
  /\ mutex = None
  /\ mutex' = h
  /\ At(h, "bind")
  /\ UNCHANGED <<vars, phase, index, pending, event, filter, notify, refreshed, dropped>>

\* The answer: the mutex is released with it.
Answered(h) ==
  /\ pending' = pending \ {event[h]}
  /\ event' = [event EXCEPT ![h] = None]
  /\ At(h, "idle")
  /\ mutex' = None

\* 409: the index has been handled within the last minute.
Conflict(h) ==
  /\ at[h] = "bind"
  /\ Pair(event[h]) \in filter
  /\ Answered(h)
  /\ UNCHANGED <<vars, phase, index, filter, notify, refreshed, dropped>>

\* Mutant: the index is recorded before the body is bound.
BadBodyRecorded(h) ==
  /\ at[h] = "bind"
  /\ Pair(event[h]) \notin filter
  /\ filter' = filter \cup {Pair(event[h])}
  /\ event' = [event EXCEPT ![h] = None]
  /\ At(h, "idle")
  /\ mutex' = None
  /\ UNCHANGED <<vars, phase, index, pending, notify, refreshed, dropped>>

\* 400: BindJSON fails.  Nothing is recorded, so the event can be posted again.
BadBody(h) ==
  /\ at[h] = "bind"
  /\ Pair(event[h]) \notin filter
  /\ event' = [event EXCEPT ![h] = None]
  /\ At(h, "idle")
  /\ mutex' = None
  /\ UNCHANGED <<vars, phase, index, pending, filter, notify, refreshed, dropped>>

\* ChangeAllServiceNodes, in the handler's goroutine.
Refresh(h) ==
  /\ at[h] = "bind"
  /\ Pair(event[h]) \notin filter
  /\ ChangeAllServiceNodes(h)
  /\ At(h, "refresh")
  /\ refreshed' = refreshed \cup {Pair(event[h])}
  /\ UNCHANGED <<phase, index, pending, event, mutex, filter, notify, dropped>>

\* Mutant: the mutex is not unlocked where the index is recorded.
RecordLocked(h) ==
  /\ at[h] = "refresh" /\ pc[h] = "idle"
  /\ notify' = Services
  /\ dropped' = (reply[h] = "error")
  /\ filter' = filter \cup {Pair(event[h])}
  /\ pending' = pending \ {event[h]}
  /\ event' = [event EXCEPT ![h] = None]
  /\ At(h, "idle")
  /\ UNCHANGED <<vars, phase, index, mutex, refreshed>>

\* The error of the refresh is dropped; five goroutines tell the services, the
\* index is recorded for a minute, and the event is answered with 200.
Record(h) ==
  /\ at[h] = "refresh" /\ pc[h] = "idle"
  /\ notify' = Services
  /\ dropped' = (reply[h] = "error")
  /\ filter' = filter \cup {Pair(event[h])}
  /\ Answered(h)
  /\ UNCHANGED <<vars, phase, index, refreshed>>

\* The timer of time.AfterFunc(time.Minute, ...), under the mutex.
Forget(p) ==
  /\ p \in filter
  /\ mutex = None
  /\ filter' = filter \ {p}
  /\ refreshed' = refreshed \ {p}
  /\ UNCHANGED <<vars, phase, index, pending, event, at, mutex, notify, dropped>>

-----------------------------------------------------------------------------
(* publishConsulChangeEvent: a goroutine per service selects one of its     *)
(* nodes and tells it.  A service has one goroutine at a time here.         *)

Tell(s) ==
  /\ s \in notify
  /\ GetNextServiceNode(PublisherOf[s], s)
  /\ notify' = notify \ {s}
  /\ UNCHANGED <<phase, index, pending, event, at, mutex, filter, refreshed, dropped>>

\* The steps of the directory, failing queries included.
DirectoryStep(t) == Step(t) /\ UNCHANGED eventVars

-----------------------------------------------------------------------------
InitEvents ==
  /\ Init
  /\ phase = "publish"
  /\ index = 0
  /\ pending = {}
  /\ event = [h \in Handlers |-> None]
  /\ at = [h \in Handlers |-> "idle"]
  /\ mutex = None /\ filter = {} /\ notify = {} /\ refreshed = {}
  /\ dropped = FALSE

Handle(h) ==
  \/ Receive(h) \/ LockIndex(h)
  \/ Conflict(h) \/ BadBody(h) \/ Refresh(h) \/ Record(h)

Start == StartPublishes \/ StartRefreshes \/ StartListens

NextEvents ==
  \/ Changes
  \/ Start \/ Restarts
  \/ \E h \in Handlers : Handle(h)
  \/ \E p \in filter : Forget(p)
  \/ \E s \in Services : Tell(s)
  \/ \E t \in Threads : DirectoryStep(t)

SpecEvents == InitEvents /\ [][NextEvents]_allVars
-----------------------------------------------------------------------------
(* Properties.                                                              *)

\* Every variable has its type.
TypeOKEvents ==
  /\ phase \in {"publish", "refresh", "refreshing", "serve"}
  /\ index \in 0..MaxIndex
  /\ pending \subseteq Events
  /\ event \in [Handlers -> Events \cup {None}]
  /\ at \in [Handlers -> {"idle", "lock", "bind", "refresh"}]
  /\ mutex \in Handlers \cup {None}
  /\ filter \subseteq Services \X (1..MaxIndex)
  /\ notify \subseteq Services
  /\ refreshed \subseteq Services \X (1..MaxIndex)
  /\ dropped \in BOOLEAN

Current == \A s \in Services : Entry(s) = Passing(s)

\* README.md:166-169: the nodes are queried and saved when consul changes, and
\* only then.  So once every event has been answered, the directory is exactly
\* what consul reports, whatever changed during which query, unless the last
\* refresh failed: its error is dropped, and consul is told 200 all the same.
SettledIsCurrent ==
  phase = "serve" /\ pending = {} /\ ~ dropped => Current

\* Of the events that carry one index, one refreshes and the others are turned
\* away, until the minute is over.
RefreshedOncePerIndex ==
  [][\A h \in Handlers : Refresh(h) => Pair(event[h]) \notin refreshed]_allVars

\* When consul stops changing, and the process keeps running, the directory
\* becomes current and stays so, unless the last refresh failed.
EventuallyCurrent == <>[](phase = "serve") => <>[](dropped \/ Current)

\* Every event the gateway has received is answered.
EventsAreAnswered == \A h \in Handlers : at[h] # "idle" ~> at[h] = "idle"

-----------------------------------------------------------------------------
(* Fairness: goroutines take their steps, sync.Mutex lets in a waiter that   *)
(* keeps asking, consul answers or refuses each query, and delivers events,  *)
(* not all of them with a body that is cut off.                              *)

EventsFairness ==
  /\ WF_allVars(Start) /\ WF_allVars(Restarts)
  /\ \A h \in Handlers :
       /\ WF_allVars(Handle(h)) /\ SF_allVars(LockIndex(h))
       /\ SF_allVars(Refresh(h) \/ Conflict(h))
  /\ \A s \in Services : WF_allVars(Tell(s))
  /\ \A t \in Threads : WF_allVars(DirectoryStep(t))

FairSpecEvents == SpecEvents /\ EventsFairness
===============================================================================
