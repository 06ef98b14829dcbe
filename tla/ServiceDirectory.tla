--------------------------- MODULE ServiceDirectory ---------------------------
(***************************************************************************)
(* The gateway's service directory: consul/agent/default_method.go.        *)
(*                                                                         *)
(* The directory saves, per service, the list of nodes consul reported as  *)
(* passing (nodes) and a round-robin selector over that list (next), both  *)
(* guarded by one sync.RWMutex.  Two methods run concurrently in many      *)
(* goroutines:                                                             *)
(*   - ChangeAllServiceNodes refreshes every service under the write lock; *)
(*   - GetNextServiceNode selects a node under the read lock, and, for a   *)
(*     service that has no entry yet, refreshes that service under the     *)
(*     READ lock and answers ErrUnavailableService.                        *)
(* Consul is external: the health of every node changes at any time, and   *)
(* any of the queries can fail.                                            *)
(***************************************************************************)
EXTENDS Integers, Sequences, FiniteSets

CONSTANTS
  ServiceList,   \* d.services, in the order ChangeAllServiceNodes visits it
  OtherNames,    \* service names GetNextServiceNode may be asked, not in d.services
  NodeList,      \* every node of every service, in the order consul lists checks
  ServiceOf,     \* [nodes -> services]: the service a node is an instance of
  Threads,       \* goroutines that call the directory
  None

Services == {ServiceList[i] : i \in DOMAIN ServiceList}
Nodes    == {NodeList[i] : i \in DOMAIN NodeList}
Names    == Services \cup OtherNames

\* Answers of GetNextServiceNode that are not a node, and of ChangeAllServiceNodes.
Errors == {"ErrUndefinedService", "ErrUnavailableService", "ErrAvailableNodeNotFound",
           "ErrSelector", "NilSelector"}
Refreshed == {"ok", "error"}

ASSUME DirectoryAssumption ==
  /\ ServiceList \in Seq(Services) /\ ServiceList # <<>>
  /\ NodeList \in Seq(Nodes)
  /\ \A i, j \in DOMAIN NodeList : NodeList[i] = NodeList[j] => i = j
  /\ OtherNames \cap Services = {}
  /\ ServiceOf \in [Nodes -> Services]
  /\ None \notin Threads \cup Nodes \cup Names \cup Errors \cup Refreshed
  /\ Nodes \cap (Errors \cup Refreshed) = {}

VARIABLES
  check,     \* consul: [Nodes -> {"absent", "critical", "passing"}]
  nodes,     \* d.nodes: a function on the services that have an entry
  next,      \* d.next: the selector of each service that has one
  writer,    \* the thread that holds or has announced nodeMutex.Lock
  readers,   \* the threads that hold nodeMutex.RLock
  pc,        \* where each thread is
  svc,       \* the service a GetNextServiceNode call asks for
  queue,     \* services changeServiceNodes still has to be called for
  todo,      \* checks of the answer still to be resolved to a node
  found,     \* nodes resolved so far (the local variable nodes)
  failed,    \* err: some service of this refresh could not be refreshed
  reply,     \* what the thread's last call returned
  quiet      \* history: refreshing threads during whose refresh consul is unchanged

lockVars   == <<writer, readers>>
localVars  == <<svc, queue, todo, found, failed>>
vars == <<check, nodes, next, lockVars, pc, localVars, reply, quiet>>

-----------------------------------------------------------------------------
(* A selector is what go-micro's RoundRobin strategy closes over: the list  *)
(* and the position of the next node.  "first" remembers the random start.  *)

Entry(s) == IF s \in DOMAIN nodes THEN nodes[s] ELSE <<>>

Selectors(list) ==
  {[list |-> list, first |-> i, pos |-> i] :
     i \in IF list = <<>> THEN {1} ELSE DOMAIN list}

Advance(sel) == [sel EXCEPT !.pos = (@ % Len(sel.list)) + 1]

\* The nodes of a set, in the order consul lists them: NodeList filtered.
Listed(m) ==
  LET upto[i \in 0..Len(NodeList)] ==
        IF i = 0 THEN <<>>
        ELSE IF NodeList[i] \in m THEN Append(upto[i - 1], NodeList[i]) ELSE upto[i - 1]
  IN upto[Len(NodeList)]

\* client.Health().Checks with the filter Status==passing.
Passing(s) == Listed({n \in Nodes : ServiceOf[n] = s /\ check[n] = "passing"})

\* m[k] = v on a Go map.
Put(m, k, v) == [x \in DOMAIN m \cup {k} |-> IF x = k THEN v ELSE m[x]]

Goto(t, label) == pc' = [pc EXCEPT ![t] = label]
Answer(t, r)   == reply' = [reply EXCEPT ![t] = r]

-----------------------------------------------------------------------------
(* sync.RWMutex: Lock announces itself, which stops new readers, and waits  *)
(* for the readers inside; Unlock lets every reader that waits go in.       *)

Lock(t) ==
  /\ pc[t] = "lock"
  /\ writer = None
  /\ writer' = t
  /\ Goto(t, "drain")
  /\ UNCHANGED <<check, nodes, next, readers, localVars, reply, quiet>>

Drained(t) ==
  /\ pc[t] = "drain"
  /\ readers = {}
  /\ Goto(t, "checks")
  /\ UNCHANGED <<check, nodes, next, lockVars, localVars, reply, quiet>>

RLock(t) ==
  /\ pc[t] = "rlock"
  /\ writer = None
  /\ readers' = readers \cup {t}
  /\ Goto(t, "lookup")
  /\ UNCHANGED <<check, nodes, next, writer, localVars, reply, quiet>>

\* The local variables of a call end with it.
LocalsEnd(t) ==
  /\ svc' = [svc EXCEPT ![t] = None]
  /\ queue' = [queue EXCEPT ![t] = <<>>]
  /\ todo' = [todo EXCEPT ![t] = <<>>]
  /\ found' = [found EXCEPT ![t] = <<>>]
  /\ failed' = [failed EXCEPT ![t] = FALSE]

\* The deferred Unlock of ChangeAllServiceNodes, t returning to its caller.
Unlock(t) ==
  LET waiting == {u \in Threads : pc[u] = "rlock"}
  IN /\ writer' = None
     /\ readers' = readers \cup waiting
     /\ pc' = [u \in Threads |-> IF u = t THEN "idle"
                                 ELSE IF u \in waiting THEN "lookup" ELSE pc[u]]
     /\ LocalsEnd(t)

\* The deferred RUnlock of GetNextServiceNode, t returning to its caller.
RUnlock(t) ==
  /\ readers' = readers \ {t}
  /\ writer' = writer
  /\ Goto(t, "idle")
  /\ LocalsEnd(t)

-----------------------------------------------------------------------------
(* The two calls.                                                           *)

ChangeAllServiceNodes(t) ==
  /\ pc[t] = "idle"
  /\ Goto(t, "lock")
  /\ queue' = [queue EXCEPT ![t] = ServiceList]
  /\ Answer(t, None)
  /\ quiet' = quiet \cup {t}
  /\ UNCHANGED <<check, nodes, next, lockVars, svc, todo, found, failed>>

\* Mutant: the read lock is not taken.
GetNextServiceNodeUnlocked(t, s) ==
  /\ pc[t] = "idle"
  /\ Goto(t, "lookup")
  /\ svc' = [svc EXCEPT ![t] = s]
  /\ Answer(t, None)
  /\ UNCHANGED <<check, nodes, next, lockVars, queue, todo, found, failed, quiet>>

GetNextServiceNode(t, s) ==
  /\ pc[t] = "idle"
  /\ Goto(t, "rlock")
  /\ svc' = [svc EXCEPT ![t] = s]
  /\ Answer(t, None)
  /\ UNCHANGED <<check, nodes, next, lockVars, queue, todo, found, failed, quiet>>

-----------------------------------------------------------------------------
(* changeServiceNodes for Head(queue[t]), under whichever lock t holds.     *)

\* The call for Head(queue[t]) is over: the loop goes on with the next service.
ServiceDone(t, err) ==
  /\ queue' = [queue EXCEPT ![t] = Tail(@)]
  /\ failed' = [failed EXCEPT ![t] = @ \/ err]
  /\ Goto(t, IF Tail(queue[t]) = <<>> THEN "return" ELSE "checks")

QueryChecks(t) ==
  /\ pc[t] = "checks"
  /\ todo' = [todo EXCEPT ![t] = Passing(Head(queue[t]))]
  /\ found' = [found EXCEPT ![t] = <<>>]
  /\ Goto(t, "services")
  /\ UNCHANGED <<check, nodes, next, lockVars, svc, queue, failed, reply, quiet>>

\* Agent().Service resolves one check; consul answers 404 for a node that is gone.
QueryService(t) ==
  /\ pc[t] = "services" /\ todo[t] # <<>>
  /\ check[Head(todo[t])] # "absent"
  /\ found' = [found EXCEPT ![t] = Append(@, Head(todo[t]))]
  /\ todo' = [todo EXCEPT ![t] = Tail(@)]
  /\ UNCHANGED <<check, nodes, next, lockVars, pc, svc, queue, failed, reply, quiet>>

\* Either of the two queries fails: this service is given up.
QueryFails(t) ==
  /\ \/ pc[t] = "checks"
     \/ pc[t] = "services" /\ todo[t] # <<>>
  /\ ServiceDone(t, TRUE)
  /\ UNCHANGED <<check, nodes, next, lockVars, svc, todo, found, reply, quiet>>

\* Mutant: only the numbers of nodes are compared.
DiffersInLength(t) == Len(Entry(Head(queue[t]))) # Len(found[t])

\* Mutant: the list is always replaced.
DiffersAlways(t) == TRUE \/ Head(queue[t]) \in Services

\* !reflect.DeepEqual(d.nodes[service], nodes): a missing entry equals an empty answer.
Differs(t) == Entry(Head(queue[t])) # found[t]

KeepNodes(t) ==
  /\ pc[t] = "services" /\ todo[t] = <<>>
  /\ ~ Differs(t)
  /\ ServiceDone(t, FALSE)
  /\ UNCHANGED <<check, nodes, next, lockVars, svc, todo, found, reply, quiet>>

ReplaceNodes(t) ==
  /\ pc[t] = "services" /\ todo[t] = <<>>
  /\ Differs(t)
  /\ Goto(t, "nodes")
  /\ UNCHANGED <<check, nodes, next, lockVars, localVars, reply, quiet>>

SetNodes(t) ==
  /\ pc[t] = "nodes"
  /\ nodes' = Put(nodes, Head(queue[t]), found[t])
  /\ Goto(t, "next")
  /\ UNCHANGED <<check, next, lockVars, localVars, reply, quiet>>

\* Mutant: a service that has a selector keeps it.
SetNextOnce(t) ==
  /\ pc[t] = "next"
  /\ \E sel \in Selectors(found[t]) :
       next' = IF Head(queue[t]) \in DOMAIN next THEN next
               ELSE Put(next, Head(queue[t]), sel)
  /\ ServiceDone(t, FALSE)
  /\ UNCHANGED <<check, nodes, lockVars, svc, todo, found, reply, quiet>>

SetNext(t) ==
  /\ pc[t] = "next"
  /\ \E sel \in Selectors(found[t]) : next' = Put(next, Head(queue[t]), sel)
  /\ ServiceDone(t, FALSE)
  /\ UNCHANGED <<check, nodes, lockVars, svc, todo, found, reply, quiet>>

-----------------------------------------------------------------------------
(* The body of GetNextServiceNode, under the read lock.                     *)

LookupFails(t) ==
  /\ pc[t] = "lookup"
  /\ \/ svc[t] \notin Services /\ Answer(t, "ErrUndefinedService")
     \/ /\ svc[t] \in DOMAIN nodes /\ nodes[svc[t]] = <<>>
        /\ Answer(t, "ErrAvailableNodeNotFound")
  /\ RUnlock(t)
  /\ UNCHANGED <<check, nodes, next, quiet>>

\* Mutant: an empty list is refreshed like a missing one.
LookupMissesEmpty(t) ==
  /\ pc[t] = "lookup"
  /\ svc[t] \in Services /\ Entry(svc[t]) = <<>>
  /\ queue' = [queue EXCEPT ![t] = <<svc[t]>>]
  /\ Goto(t, "checks")
  /\ UNCHANGED <<check, nodes, next, lockVars, svc, todo, found, failed, reply, quiet>>

\* Mutant: nobody checks that the service is one of d.services.
LookupMissesUnknown(t) ==
  /\ pc[t] = "lookup"
  /\ svc[t] \notin DOMAIN nodes
  /\ queue' = [queue EXCEPT ![t] = <<svc[t]>>]
  /\ Goto(t, "checks")
  /\ UNCHANGED <<check, nodes, next, lockVars, svc, todo, found, failed, reply, quiet>>

LookupMisses(t) ==
  /\ pc[t] = "lookup"
  /\ svc[t] \in Services \ DOMAIN nodes
  /\ queue' = [queue EXCEPT ![t] = <<svc[t]>>]
  /\ Goto(t, "checks")
  /\ UNCHANGED <<check, nodes, next, lockVars, svc, todo, found, failed, reply, quiet>>

LookupFinds(t) ==
  /\ pc[t] = "lookup"
  /\ svc[t] \in DOMAIN nodes /\ nodes[svc[t]] # <<>>
  /\ Goto(t, "select")
  /\ UNCHANGED <<check, nodes, next, lockVars, localVars, reply, quiet>>

\* d.next[service](): the selector advances under a mutex of its own.
Select(t) ==
  /\ pc[t] = "select"
  /\ svc[t] \in DOMAIN next
  /\ LET sel == next[svc[t]]
     IN IF sel.list = <<>>
        THEN Answer(t, "ErrSelector") /\ next' = next
        ELSE /\ Answer(t, sel.list[sel.pos])
             /\ next' = [next EXCEPT ![svc[t]] = Advance(sel)]
  /\ RUnlock(t)
  /\ UNCHANGED <<check, nodes, quiet>>

\* A missing selector is a nil function: the call panics, the deferred RUnlock
\* runs, and gin recovers the panic of a request's goroutine.
SelectPanics(t) ==
  /\ pc[t] = "select"
  /\ svc[t] \notin DOMAIN next
  /\ Answer(t, "NilSelector")
  /\ RUnlock(t)
  /\ UNCHANGED <<check, nodes, next, quiet>>

-----------------------------------------------------------------------------
(* The returns after changeServiceNodes.                                    *)

ReturnRefresh(t) ==
  /\ pc[t] = "return" /\ writer = t
  /\ Answer(t, IF failed[t] THEN "error" ELSE "ok")
  /\ Unlock(t)
  /\ quiet' = quiet \ {t}
  /\ UNCHANGED <<check, nodes, next>>

\* Mutant: this return leaves the read lock held.
ReturnLocked(t) ==
  /\ pc[t] = "return" /\ t \in readers
  /\ Answer(t, "ErrUnavailableService")
  /\ Goto(t, "idle") /\ LocalsEnd(t)
  /\ UNCHANGED <<check, nodes, next, lockVars, quiet>>

ReturnUnavailable(t) ==
  /\ pc[t] = "return" /\ t \in readers
  /\ Answer(t, "ErrUnavailableService")
  /\ RUnlock(t)
  /\ UNCHANGED <<check, nodes, next, quiet>>

-----------------------------------------------------------------------------
(* The environment.                                                         *)

\* A node registers, deregisters, or its health check changes.
ConsulChanges ==
  \E n \in Nodes, status \in {"absent", "critical", "passing"} :
    /\ check[n] # status
    /\ check' = [check EXCEPT ![n] = status]
    /\ quiet' = {}
    /\ UNCHANGED <<nodes, next, lockVars, pc, localVars, reply>>

\* Two goroutines are about to access the same Go map, one of them to write it.
ReadsNodes(t) ==
  \/ pc[t] = "lookup" /\ svc[t] \in Services
  \/ pc[t] = "services" /\ todo[t] = <<>>
MapRace ==
  \E t, u \in Threads :
    /\ t # u
    /\ \/ pc[t] = "nodes" /\ (pc[u] = "nodes" \/ ReadsNodes(u))
       \/ pc[t] = "next"  /\ pc[u] \in {"next", "select"}

\* A panic of a goroutine outside gin, such as publishConsulChangeEvent's.
NilSelector == \E t \in Threads : pc[t] = "select" /\ svc[t] \notin DOMAIN next

EmptyMap == [s \in {} |-> None]

\* The Go runtime ends the process on a detected map race or an unrecovered
\* panic; docker restarts it with empty maps.
ProcessDies ==
  /\ MapRace \/ NilSelector
  /\ nodes' = EmptyMap /\ next' = EmptyMap
  /\ writer' = None /\ readers' = {}
  /\ pc' = [t \in Threads |-> "idle"]
  /\ svc' = [t \in Threads |-> None]
  /\ queue' = [t \in Threads |-> <<>>]
  /\ todo' = [t \in Threads |-> <<>>]
  /\ found' = [t \in Threads |-> <<>>]
  /\ failed' = [t \in Threads |-> FALSE]
  /\ reply' = [t \in Threads |-> None]
  /\ quiet' = {}
  /\ UNCHANGED check

-----------------------------------------------------------------------------
InitThreads ==
  /\ check \in [Nodes -> {"absent", "critical", "passing"}]
  /\ writer = None /\ readers = {}
  /\ pc = [t \in Threads |-> "idle"]
  /\ svc = [t \in Threads |-> None]
  /\ queue = [t \in Threads |-> <<>>]
  /\ todo = [t \in Threads |-> <<>>]
  /\ found = [t \in Threads |-> <<>>]
  /\ failed = [t \in Threads |-> FALSE]
  /\ reply = [t \in Threads |-> None]
  /\ quiet = {}

\* newDefault: the process has just started.
Init == InitThreads /\ nodes = EmptyMap /\ next = EmptyMap

Step(t) ==
  \/ Lock(t) \/ Drained(t) \/ RLock(t)
  \/ QueryChecks(t) \/ QueryService(t) \/ QueryFails(t)
  \/ KeepNodes(t) \/ ReplaceNodes(t) \/ SetNodes(t) \/ SetNext(t)
  \/ LookupFails(t) \/ LookupMisses(t) \/ LookupFinds(t)
  \/ Select(t) \/ SelectPanics(t)
  \/ ReturnRefresh(t) \/ ReturnUnavailable(t)

Calls(t) ==
  \/ ChangeAllServiceNodes(t)
  \/ \E s \in Names : GetNextServiceNode(t, s)

Next ==
  \/ \E t \in Threads : Calls(t) \/ Step(t)
  \/ ConsulChanges
  \/ ProcessDies

Spec == Init /\ [][Next]_vars
-----------------------------------------------------------------------------
(* Properties.                                                              *)

Labels == {"idle", "lock", "drain", "rlock", "lookup", "select",
           "checks", "services", "nodes", "next", "return"}

\* Every variable has its type, and every service with a selector has an entry.
TypeOK ==
  /\ check \in [Nodes -> {"absent", "critical", "passing"}]
  /\ DOMAIN nodes \subseteq Services
  /\ \A s \in DOMAIN nodes : nodes[s] \in Seq(Nodes)
  /\ DOMAIN next \subseteq DOMAIN nodes
  /\ \A s \in DOMAIN next :
       /\ next[s].list \in Seq(Nodes)
       /\ next[s].list # <<>> => {next[s].first, next[s].pos} \subseteq DOMAIN next[s].list
  /\ writer \in Threads \cup {None}
  /\ readers \subseteq Threads
  /\ pc \in [Threads -> Labels]
  /\ svc \in [Threads -> Names \cup {None}]
  /\ queue \in [Threads -> Seq(Services)]
  /\ todo \in [Threads -> Seq(Nodes)]
  /\ found \in [Threads -> Seq(Nodes)]
  /\ failed \in [Threads -> BOOLEAN]
  /\ reply \in [Threads -> Nodes \cup Errors \cup Refreshed \cup {None}]
  /\ quiet \subseteq Threads

\* t is where ChangeAllServiceNodes holds the write lock.
Refreshing   == {"checks", "services", "nodes", "next", "return"}
InRefresh(t) == pc[t] \in Refreshing /\ svc[t] = None

\* While one ChangeAllServiceNodes is past Lock, no other thread is between the
\* lock and the unlock of either method: not even a selection that refreshes.
LockExclusion ==
  \A t, u \in Threads : InRefresh(t) /\ u # t => pc[u] \in {"idle", "lock", "rlock"}

\* A refresh that reports no error, and during which consul did not change,
\* leaves every service with exactly the nodes consul lists as passing
\* (DeepEqual may skip the assignment only when it would change nothing).
RefreshIsCurrent ==
  \A t \in Threads :
    InRefresh(t) /\ pc[t] = "return" /\ ~ failed[t] /\ t \in quiet
      => \A s \in Services : Entry(s) = Passing(s)

\* The selector rotates over the very list that is saved, except between the
\* two assignments of changeServiceNodes.
SelectorMatchesNodes ==
  \A s \in DOMAIN nodes :
    \/ s \in DOMAIN next /\ next[s].list = nodes[s]
    \/ \E t \in Threads : pc[t] = "next" /\ Head(queue[t]) = s

\* No two goroutines access one of the two maps at once, one of them writing,
\* and nobody calls a selector that is not there.
NoCrash == ~ (MapRace \/ NilSelector)

-----------------------------------------------------------------------------
(* A directory whose services all have an entry: every later refresh keeps  *)
(* them, so no selection ever refreshes.  Such a state is reached by one    *)
(* refresh that finds a node for each service; any lists may follow.        *)

ListsOf(s) ==
  {Listed(m) : m \in SUBSET {n \in Nodes : ServiceOf[n] = s}}

InitWarm ==
  /\ InitThreads
  /\ nodes \in [Services -> UNION {ListsOf(s) : s \in Services}]
  /\ \A s \in Services : nodes[s] \in ListsOf(s)
  /\ next \in [Services -> UNION {Selectors(nodes[s]) : s \in Services}]
  /\ \A s \in Services : next[s] \in Selectors(nodes[s])

SpecWarm == InitWarm /\ [][Next]_vars

\* The nodes a selector has handed out since its random start, or none at the
\* start of a round: the positions from first up to, not including, pos.
ServedBy(sel) ==
  LET Turn(i) == IF i >= sel.first THEN i - sel.first
                 ELSE i - sel.first + Len(sel.list)
  IN {sel.list[i] : i \in {j \in DOMAIN sel.list : Turn(j) < Turn(sel.pos)}}

\* While the two assignments of a refresh are under way, the round of the old
\* list is still the current one.
Rotation ==
  INSTANCE FairRotation WITH
    Callers <- Threads,
    members <- [s \in Services |-> {next[s].list[i] : i \in DOMAIN next[s].list}],
    served  <- [s \in Services |-> ServedBy(next[s])],
    given   <- [t \in Threads |-> IF reply[t] \in Nodes THEN reply[t] ELSE None]
ImplementsFairRotation == Rotation!Spec

-----------------------------------------------------------------------------
(* Fairness: a goroutine that can take its next step takes it, sync.Mutex    *)
(* hands the write lock to a waiter that keeps asking (its starvation mode), *)
(* and consul's HTTP API answers or fails every query.                       *)

Fairness ==
  \A t \in Threads : WF_vars(Step(t)) /\ SF_vars(Lock(t))

FairSpec == Spec /\ Fairness

\* Every call returns, however many selections and refreshes compete.
CallsReturn == \A t \in Threads : pc[t] # "idle" ~> pc[t] = "idle"
===============================================================================
