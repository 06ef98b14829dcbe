-------------------------- MODULE ConsulEventsProofs --------------------------
(***************************************************************************)
(* The handler of consul's events, for any handlers, services, watchers,   *)
(* changes and faults: one refresh per change, and a directory that is     *)
(* what consul reports once every event is answered.                       *)
(***************************************************************************)
EXTENDS ConsulEvents, ServiceDirectoryProofs

\* A handler past its event's arrival has the event.
HasEvent == \A h \in Handlers : at[h] # "idle" => event[h] \in Events

\* Binding, refreshing and recording happen under consulIndexMutex.
HoldsMutex == \A h \in Handlers : at[h] \in {"bind", "refresh"} <=> mutex = h

\* What has been refreshed for is recorded, or about to be by who refreshes.
IsRecorded ==
  \A p \in refreshed :
    p \in filter \/ \E h \in Handlers : at[h] = "refresh" /\ Pair(event[h]) = p

Inv == TypeOKEvents /\ HasEvent /\ HoldsMutex /\ IsRecorded

USE DEF Pair, Events

LEMMA NoneIsNoHandler == None \notin Handlers
BY EventsAssumption, DirectoryAssumption

LEMMA InvInit == InitEvents => Inv
<1> SUFFICES ASSUME InitEvents PROVE Inv
    OBVIOUS
<1>1. filter \subseteq Services \X (1..MaxIndex) /\ refreshed \subseteq Services \X (1..MaxIndex)
  BY DEF InitEvents
<1>2. MaxIndex \in Nat
  BY EventsAssumption
<1>3. index \in 0..MaxIndex /\ pending \subseteq Events
  BY <1>2 DEF InitEvents
<1>4. HasEvent /\ HoldsMutex /\ IsRecorded
  BY NoneIsNoHandler DEF InitEvents, HasEvent, HoldsMutex, IsRecorded
<1>5. dropped \in BOOLEAN
  BY Zenon DEF InitEvents
<1> QED
  BY <1>1, <1>3, <1>4, <1>5 DEF InitEvents, Inv, TypeOKEvents

LEMMA InvStep == Inv /\ [NextEvents]_allVars => Inv'
<1> SUFFICES ASSUME Inv, [NextEvents]_allVars PROVE Inv'
    OBVIOUS
<1> USE NoneIsNoHandler, EventsAssumption DEF Inv
<1>1. CASE Changes
  <2>1. index' \in 0..MaxIndex /\ pending' \subseteq Events'
    BY <1>1, DirectoryAssumption DEF Changes, TypeOKEvents
  <2> QED
    BY <1>1, <2>1 DEF Changes, TypeOKEvents, HasEvent, HoldsMutex, IsRecorded
<1>2. CASE Start
  BY <1>2 DEF Start, StartPublishes, StartRefreshes, StartListens,
              TypeOKEvents, HasEvent, HoldsMutex, IsRecorded
<1>3. CASE Restarts
  BY <1>3 DEF Restarts, NewProcess, TypeOKEvents, HasEvent, HoldsMutex, IsRecorded
<1>4. ASSUME NEW h \in Handlers, Receive(h) PROVE Inv'
  BY <1>4 DEF Receive, At, TypeOKEvents, HasEvent, HoldsMutex, IsRecorded
<1>5. ASSUME NEW h \in Handlers, LockIndex(h) PROVE Inv'
  BY <1>5 DEF LockIndex, At, TypeOKEvents, HasEvent, HoldsMutex, IsRecorded
<1>6. ASSUME NEW h \in Handlers, Conflict(h) PROVE Inv'
  BY <1>6 DEF Conflict, Answered, At, TypeOKEvents, HasEvent, HoldsMutex, IsRecorded
<1>7. ASSUME NEW h \in Handlers, BadBody(h) PROVE Inv'
  BY <1>7 DEF BadBody, At, TypeOKEvents, HasEvent, HoldsMutex, IsRecorded
<1>8. ASSUME NEW h \in Handlers, Refresh(h) PROVE Inv'
  <2>1. Pair(event[h]) \in Services \X (1..MaxIndex)
    BY <1>8 DEF Refresh, HasEvent
  <2> QED
    BY <1>8, <2>1 DEF Refresh, At, TypeOKEvents, HasEvent, HoldsMutex, IsRecorded
<1>9. ASSUME NEW h \in Handlers, Record(h) PROVE Inv'
  <2>1. Pair(event[h]) \in Services \X (1..MaxIndex)
    BY <1>9 DEF Record, HasEvent
  <2> QED
    BY <1>9, <2>1 DEF Record, Answered, At, TypeOKEvents, HasEvent, HoldsMutex, IsRecorded
<1>10. ASSUME NEW p \in filter, Forget(p) PROVE Inv'
  BY <1>10 DEF Forget, TypeOKEvents, HasEvent, HoldsMutex, IsRecorded
<1>11. ASSUME NEW s \in Services, Tell(s) PROVE Inv'
  BY <1>11 DEF Tell, TypeOKEvents, HasEvent, HoldsMutex, IsRecorded
<1>12. ASSUME NEW t \in Threads, DirectoryStep(t) PROVE Inv'
  BY <1>12 DEF DirectoryStep, eventVars, TypeOKEvents, HasEvent, HoldsMutex, IsRecorded
<1>13. CASE UNCHANGED allVars
  BY <1>13 DEF allVars, eventVars, TypeOKEvents, HasEvent, HoldsMutex, IsRecorded
<1> QED
  BY <1>1, <1>2, <1>3, <1>4, <1>5, <1>6, <1>7, <1>8, <1>9, <1>10, <1>11, <1>12, <1>13
     DEF NextEvents, Handle

LEMMA InvHolds == SpecEvents => []Inv
BY InvInit, InvStep, PTL DEF SpecEvents

\* The handler's state keeps its type.
THEOREM EventsTyped == SpecEvents => []TypeOKEvents
<1>1. Inv => TypeOKEvents
  BY DEF Inv
<1> QED
  BY InvHolds, <1>1, PTL

\* Of the events that carry one index, one refreshes the directory within a
\* minute, whatever handlers run at once: the index is examined, refreshed for
\* and recorded under one mutex.
THEOREM OneRefreshPerIndex == SpecEvents => RefreshedOncePerIndex
<1>1. ASSUME Inv, NEW h \in Handlers, Refresh(h) PROVE Pair(event[h]) \notin refreshed
  BY <1>1 DEF Inv, Refresh, HoldsMutex, IsRecorded
<1>2. Inv /\ [NextEvents]_allVars =>
        [\A h \in Handlers : Refresh(h) => Pair(event[h]) \notin refreshed]_allVars
  BY <1>1
<1> QED
  BY InvHolds, <1>2, PTL DEF SpecEvents, RefreshedOncePerIndex
-----------------------------------------------------------------------------
(* The directory after the last change.                                     *)

\* Only the start and the handler of an event refresh; a publisher selects.
Roles ==
  /\ \A t \in Threads : pc[t] # "idle" /\ svc[t] = None =>
       (t = Main /\ phase = "refreshing") \/ (t \in Handlers /\ at[t] = "refresh")
  /\ \A t \in Handlers \cup {Main} : svc[t] = None

\* An event is pending while it is handled, by one handler.
Delivered ==
  \A h \in Handlers : at[h] # "idle" =>
    /\ event[h] \in pending
    /\ \A g \in Handlers \ {h} : at[g] # "idle" => event[g] # event[h]

\* Nothing is handled before the server listens.
Unheard == phase # "serve" => filter = {} /\ \A h \in Handlers : at[h] = "idle"

\* No event and no record is of a change to come.
Past ==
  /\ \A e \in pending : e.index <= index
  /\ \A p \in filter : p[2] <= index

\* What a selection that refreshes has resolved is what consul reports.
ReaderCurrent(t) ==
  svc[t] # None =>
    /\ pc[t] = "services" => found[t] \o todo[t] = Passing(Head(queue[t]))
    /\ pc[t] \in {"nodes", "next"} => found[t] = Passing(Head(queue[t]))

\* The directory is current, and no selection is about to change that.
InStep == Current /\ \A t \in Threads : ReaderCurrent(t)

\* The refresh of t is going to find the last change, has found it, or failed.
Caught(t) == IF pc[t] = "idle" THEN reply[t] = "error" \/ InStep ELSE t \in quiet

\* An event of the last change is still to be answered, and will not be refused.
Owed == \E e \in pending : e.index = index /\ Pair(e) \notin filter

\* Whoever refreshes finds the last change; otherwise it is found, or dropped.
Synced ==
  /\ \A h \in Handlers : at[h] = "refresh" => Caught(h)
  /\ (\A h \in Handlers : at[h] # "refresh") => dropped \/ InStep

FollowInv ==
  /\ phase = "serve" => Owed \/ Synced
  /\ \A h \in Handlers : at[h] = "refresh" /\ event[h].index = index => Caught(h)
  /\ phase = "refreshing" => Owed \/ Caught(Main)

\* The handlers' part, the directory's part, and what ties them.
Sound == Inv /\ RefreshInv /\ Roles /\ Delivered /\ Unheard /\ Past

\* With nothing left to answer, nobody refreshes and nothing is owed.
LEMMA FollowsWhenSettled == Sound /\ FollowInv => SettledIsCurrent
BY DEF Sound, Delivered, FollowInv, SettledIsCurrent, Owed, Synced, InStep
\* Apart from a restart, the directory only takes its own steps.
LEMMA DirectoryMoves == Inv /\ [NextEvents]_allVars => [Next]_vars \/ Restarts
<1> SUFFICES ASSUME Inv, [NextEvents]_allVars, ~ Restarts PROVE [Next]_vars
  OBVIOUS
<1>1. CASE Changes
  <2>1. ConsulChanges
    BY <1>1 DEF Changes, ConsulChanges
  <2> QED
    BY <2>1 DEF Next
<1>2. CASE Start
  <2>1. StartRefreshes \/ UNCHANGED vars
    BY <1>2 DEF Start, StartPublishes, StartListens
  <2>2. StartRefreshes => Calls(Main)
    BY DEF StartRefreshes, Calls
  <2> QED
    BY <2>1, <2>2, EventsAssumption DEF Next
<1>3. ASSUME NEW h \in Handlers, Handle(h) PROVE [Next]_vars
  <2>1. Refresh(h) \/ UNCHANGED vars
    BY <1>3 DEF Handle, Receive, LockIndex, Conflict, BadBody, Record
  <2>2. Refresh(h) => Calls(h)
    BY DEF Refresh, Calls
  <2> QED
    BY <2>1, <2>2, EventsAssumption DEF Next
<1>4. ASSUME NEW s \in Services, Tell(s) PROVE [Next]_vars
  <2>1. PublisherOf[s] \in Threads /\ s \in Names
    BY EventsAssumption DEF Names
  <2>2. Calls(PublisherOf[s])
    BY <1>4, <2>1 DEF Tell, Calls
  <2> QED
    BY <2>1, <2>2 DEF Next
<1>5. ASSUME NEW t \in Threads, DirectoryStep(t) PROVE [Next]_vars
  BY <1>5 DEF DirectoryStep, Next
<1>6. ASSUME NEW p \in filter, Forget(p) PROVE [Next]_vars
  BY <1>6 DEF Forget
<1>7. CASE UNCHANGED allVars
  BY <1>7 DEF allVars
<1> QED
  BY <1>1, <1>2, <1>3, <1>4, <1>5, <1>6, <1>7 DEF NextEvents

\* A restart leaves the directory as at the start.
LEMMA DirectoryKept == Inv /\ RefreshInv /\ [NextEvents]_allVars => RefreshInv'
<1>1. ASSUME RefreshInv, NewProcess PROVE RefreshInv'
  <2>1. TypeInv'
    BY <1>1, DirectoryAssumption
       DEF NewProcess, EmptyMap, RefreshInv, TypeInv, TypeOK, Labels, Going
  <2>2. LockInv'
    BY <1>1, DirectoryAssumption
       DEF NewProcess, LockInv, Holds, WriterAlone, InRefresh, Refreshing, Labels
  <2>3. \A t \in Threads : Fresh(t)'
    BY <1>1 DEF NewProcess, Fresh, InRefresh, Refreshing
  <2> QED
    BY <2>1, <2>2, <2>3 DEF RefreshInv
<1> QED
  BY <1>1, DirectoryMoves, RefreshStep DEF Restarts

\* A selection of a directory in step leaves it in step: what it may have to save
\* is what is saved.
LEMMA ReaderKeepsStep ==
  ASSUME RefreshInv, InStep, NEW t \in Threads, Step(t), svc[t] # None
  PROVE  InStep'
<1> USE DEF lockVars, localVars
<1>1. pc[t] \notin {"idle", "lock", "drain"} /\ ~ ReturnRefresh(t)
  BY DEF RefreshInv, LockInv, Holds, ReturnRefresh
<1>2. ASSUME NEW u \in Threads, u # t, UNCHANGED check PROVE ReaderCurrent(u)'
  <2>1. /\ svc'[u] = svc[u] /\ queue'[u] = queue[u] /\ todo'[u] = todo[u] /\ found'[u] = found[u]
        /\ pc'[u] = pc[u] \/ pc'[u] = "lookup"
    BY <1>2, Frame DEF RefreshInv, Untouched
  <2>2. Passing(Head(queue[u]))' = Passing(Head(queue[u]))
    BY <1>2, <2>1 DEF Passing, Listed
  <2> QED
    BY <2>1, <2>2 DEF InStep, ReaderCurrent
<1>3. CASE SetNodes(t)
  <2>1. \A s : Passing(s)' = Passing(s)
    BY <1>3 DEF SetNodes, Passing, Listed
  <2>2. found[t] = Passing(Head(queue[t]))
    BY <1>3 DEF SetNodes, InStep, ReaderCurrent
  <2>3. \A s : Entry(s)' = IF s = Head(queue[t]) THEN found[t] ELSE Entry(s)
    BY <1>3 DEF SetNodes, Entry, Put
  <2>4. Current'
    BY <2>1, <2>2, <2>3 DEF Current, InStep
  <2>5. Passing(Head(queue[t]))' = Passing(Head(queue[t]))
    BY <1>3 DEF SetNodes, Passing, Listed
  <2>6. ReaderCurrent(t)'
    BY <1>3, <2>2, <2>5 DEF SetNodes, ReaderCurrent, Goto, RefreshInv, LockInv
  <2> QED
    BY <1>2, <1>3, <2>4, <2>6 DEF InStep, SetNodes
<1>4. CASE ~ SetNodes(t)
  <2>1. UNCHANGED <<nodes, check>>
    BY <1>1, <1>4 DEF Step, Lock, Drained, RLock, QueryChecks, QueryService, QueryFails, KeepNodes,
       ReplaceNodes, SetNext, LookupFails, LookupMisses, LookupFinds, Select, SelectPanics,
       ReturnUnavailable
  <2>2. \A s : Passing(s)' = Passing(s) /\ Entry(s)' = Entry(s)
    BY <2>1 DEF Passing, Entry, Listed
  <2>3. Current'
    BY <2>2 DEF Current, InStep
  <2>4. ReaderCurrent(t)'
    <3> USE DEF RefreshInv, TypeInv, TypeOK
    <3>1. CASE QueryChecks(t)
      <4>1. /\ pc'[t] = "services" /\ todo'[t] = Passing(Head(queue[t])) /\ found'[t] = <<>>
            /\ queue' = queue
        BY <3>1 DEF QueryChecks, Goto
      <4>2. Passing(Head(queue[t])) \in Seq(Nodes)
        BY ListedIsSeq DEF Passing
      <4>3. found'[t] \o todo'[t] = Passing(Head(queue[t]))
        BY <4>1, <4>2, ConcatEmptySeq
      <4>4. Passing(Head(queue[t]))' = Passing(Head(queue[t]))
        BY <2>1, <4>1 DEF Passing, Listed
      <4> QED
        BY <4>1, <4>3, <4>4 DEF ReaderCurrent
    <3>2. CASE QueryService(t)
      <4>1. /\ pc[t] = "services" /\ pc'[t] = "services"
            /\ found'[t] = Append(found[t], Head(todo[t])) /\ todo'[t] = Tail(todo[t])
            /\ todo[t] # <<>> /\ queue' = queue
        BY <3>2 DEF QueryService
      <4>2. found'[t] \o todo'[t] = found[t] \o todo[t]
        BY <4>1, Resolved
      <4>3. Passing(Head(queue[t]))' = Passing(Head(queue[t]))
        BY <2>1, <4>1 DEF Passing, Listed
      <4> QED
        BY <4>1, <4>2, <4>3 DEF InStep, ReaderCurrent
    <3>3. CASE ReplaceNodes(t)
      <4>1. /\ pc[t] = "services" /\ todo[t] = <<>> /\ pc'[t] = "nodes"
            /\ found' = found /\ queue' = queue
        BY <3>3 DEF ReplaceNodes, Goto
      <4>2. found[t] \o todo[t] = Passing(Head(queue[t]))
        BY <4>1 DEF InStep, ReaderCurrent
      <4>3. found[t] = Passing(Head(queue[t]))
        BY <4>1, <4>2, ConcatEmptySeq
      <4>4. Passing(Head(queue[t]))' = Passing(Head(queue[t]))
        BY <2>1, <4>1 DEF Passing, Listed
      <4> QED
        BY <4>1, <4>3, <4>4 DEF ReaderCurrent
    <3>4. CASE QueryFails(t) \/ KeepNodes(t) \/ SetNext(t)
      <4>1. pc'[t] \in {"return", "checks"}
        BY <3>4 DEF QueryFails, KeepNodes, SetNext, ServiceDone, Goto
      <4> QED
        BY <4>1 DEF ReaderCurrent
    <3>5. CASE LookupFails(t) \/ Select(t) \/ SelectPanics(t) \/ ReturnUnavailable(t)
      <4>1. pc'[t] = "idle"
        BY <3>5 DEF LookupFails, Select, SelectPanics, ReturnUnavailable, RUnlock, Goto
      <4> QED
        BY <4>1 DEF ReaderCurrent
    <3>6. CASE RLock(t) \/ LookupMisses(t) \/ LookupFinds(t)
      <4>1. pc'[t] \in {"lookup", "checks", "select"}
        BY <3>6 DEF RLock, LookupMisses, LookupFinds, Goto
      <4> QED
        BY <4>1 DEF ReaderCurrent
    <3> QED
      BY <1>1, <1>4, <3>1, <3>2, <3>3, <3>4, <3>5, <3>6 DEF Step, Lock, Drained
  <2> QED
    BY <1>2, <2>1, <2>3, <2>4 DEF InStep
<1> QED
  BY <1>3, <1>4

\* The refresh of h, when no other thread refreshes, catches the last change.
LEMMA StaysCaught ==
  ASSUME RefreshInv, NEW h \in Threads, svc[h] = None, Caught(h),
         \A u \in Threads : pc[u] # "idle" /\ svc[u] = None => u = h,
         NEW t \in Threads, Step(t)
  PROVE  Caught(h)'
<1> USE DEF RefreshInv, TypeInv, TypeOK, lockVars, localVars
<1>1. pc[t] # "idle"
  BY DEF Step, Lock, Drained, RLock, QueryChecks, QueryService, QueryFails, KeepNodes,
     ReplaceNodes, SetNodes, SetNext, LookupFails, LookupMisses, LookupFinds, Select, SelectPanics,
     ReturnRefresh, ReturnUnavailable
<1>2. CASE t # h
  <2>1. pc'[h] = pc[h] /\ (h \in quiet' <=> h \in quiet)
    BY <1>2, Frame DEF Untouched, LockInv, Holds
  <2>2. reply'[h] = reply[h]
    BY <1>2 DEF Step, Lock, Drained, RLock, QueryChecks, QueryService, QueryFails, KeepNodes,
       ReplaceNodes, SetNodes, SetNext, LookupFails, LookupMisses, LookupFinds, Select, SelectPanics,
       ReturnRefresh, ReturnUnavailable, Answer
  <2>3. InStep => InStep'
    BY <1>1, <1>2, ReaderKeepsStep
  <2> QED
    BY <2>1, <2>2, <2>3 DEF Caught
<1>3. CASE t = h
  <2>1. pc[h] \notin {"rlock", "lookup", "select"} /\ h \in quiet
    BY <1>1, <1>3 DEF LockInv, Holds, Caught
  <2>2. CASE ReturnRefresh(h)
    <3>1. InRefresh(h) /\ pc[h] = "return" /\ writer = h /\ readers = {}
      BY <2>2 DEF ReturnRefresh, InRefresh, Refreshing, LockInv, WriterAlone
    <3>2. pc'[h] = "idle" /\ reply'[h] = (IF failed[h] THEN "error" ELSE "ok")
      BY <2>2 DEF ReturnRefresh, Unlock, Answer
    <3>3. ASSUME ~ failed[h] PROVE InStep'
      <4>1. Current
        BY <2>1, <3>1, <3>3, FreshIsCurrent DEF RefreshIsCurrent, Current
      <4>2. \A s : Passing(s)' = Passing(s) /\ Entry(s)' = Entry(s)
        BY <2>2 DEF ReturnRefresh, Passing, Entry, Listed
      <4>3. ASSUME NEW u \in Threads PROVE ReaderCurrent(u)'
        <5>1. pc'[u] \in {"services", "nodes", "next"} => u # h /\ pc'[u] = pc[u] /\ svc'[u] = svc[u]
          BY <2>2 DEF ReturnRefresh, Unlock, LocalsEnd
        <5>2. pc[u] \in {"services", "nodes", "next"} => svc[u] = None
          BY <3>1 DEF LockInv, Holds, Refreshing
        <5> QED
          BY <5>1, <5>2 DEF ReaderCurrent
      <4> QED
        BY <4>1, <4>2, <4>3 DEF InStep, Current
    <3> QED
      BY <3>2, <3>3 DEF Caught
  <2>3. CASE ~ ReturnRefresh(h)
    <3>1. ~ ReturnUnavailable(h)
      BY DEF ReturnUnavailable, LockInv, Holds, WriterAlone, InRefresh, Refreshing
    <3>2. quiet' = quiet /\ pc'[h] # "idle"
      BY <1>3, <2>1, <2>3, <3>1 DEF Step, Lock, Drained, RLock, QueryChecks, QueryService, QueryFails,
         KeepNodes, ReplaceNodes, SetNodes, SetNext, LookupFails, LookupMisses, LookupFinds, Select,
         SelectPanics, ServiceDone, Goto
    <3> QED
      BY <2>1, <3>2 DEF Caught
  <2> QED
    BY <2>2, <2>3
<1> QED
  BY <1>2, <1>3
LEMMA SoundInit == InitEvents => Sound /\ FollowInv
<1> SUFFICES ASSUME InitEvents PROVE Sound /\ FollowInv
  OBVIOUS
<1>1. Inv
  BY InvInit
<1>2. RefreshInv
  BY TypeInit, DirectoryAssumption
     DEF InitEvents, Init, InitThreads, RefreshInv, LockInv, Holds, WriterAlone, InRefresh,
         Refreshing, Labels, Fresh
<1>3. Roles /\ Delivered /\ Unheard /\ Past /\ FollowInv
  BY EventsAssumption
     DEF InitEvents, Init, InitThreads, Roles, Delivered, Unheard, Past, FollowInv
<1> QED
  BY <1>1, <1>2, <1>3 DEF Sound

\* Who calls what, and which events are under way, at every step.
LEMMA SoundStep == Sound /\ [NextEvents]_allVars => Sound'
<1> SUFFICES ASSUME Sound, [NextEvents]_allVars PROVE Sound'
  OBVIOUS
<1> USE EventsAssumption
<1>0. Inv' /\ RefreshInv' /\ Inv /\ RefreshInv
  BY InvStep, DirectoryKept DEF Sound
<1>a. /\ at \in [Handlers -> {"idle", "lock", "bind", "refresh"}]
      /\ DOMAIN event = Handlers /\ index \in Nat
      /\ \A h \in Handlers : at[h] \in {"bind", "refresh"} => mutex = h
      /\ \A e \in pending : e \in Events
      /\ pc \in [Threads -> Labels] /\ DOMAIN svc = Threads
  BY <1>0 DEF Inv, TypeOKEvents, HoldsMutex, RefreshInv, LockInv
<1>1. CASE Changes
  <2>1. Roles' /\ Unheard'
    BY <1>1 DEF Changes, localVars, Sound, Roles, Unheard
  <2>2. Delivered'
    BY <1>1 DEF Changes, Sound, Delivered
  <2>3. Past'
    <3>1. \A e \in pending : e.index \in Nat /\ e.index <= index
      BY <1>a DEF Sound, Past
    <3>2. \A p \in filter : p[2] \in Nat /\ p[2] <= index
      BY <1>0 DEF Sound, Past, Inv, TypeOKEvents
    <3>3. index' = index + 1 /\ filter' = filter /\ \A e \in pending' : e \in pending \/ e.index = index + 1
      BY <1>1 DEF Changes
    <3> QED
      BY <1>a, <3>1, <3>2, <3>3 DEF Past
  <2> QED
    BY <1>0, <2>1, <2>2, <2>3 DEF Sound
<1>2. CASE Start
  <2>1. Delivered' /\ Unheard' /\ Past'
    BY <1>2 DEF Start, StartPublishes, StartRefreshes, StartListens, Sound, Delivered, Unheard, Past
  <2>2. Roles'
    BY <1>2, <1>a DEF Start, StartPublishes, StartRefreshes, StartListens, ChangeAllServiceNodes, Goto,
       vars, localVars, Sound, Roles, Unheard
  <2> QED
    BY <1>0, <2>1, <2>2 DEF Sound
<1>3. CASE Restarts
  <2>1. Roles' /\ Delivered' /\ Unheard' /\ Past'
    BY <1>3 DEF Restarts, NewProcess, Sound, Roles, Delivered, Unheard, Past
  <2> QED
    BY <1>0, <2>1 DEF Sound
<1>4. ASSUME NEW h \in Handlers, Receive(h) \/ LockIndex(h) PROVE Sound'
  <2>1. Roles' /\ Past'
    BY <1>4, <1>a DEF Receive, LockIndex, At, vars, localVars, Sound, Roles, Past
  <2>2. Delivered' /\ Unheard'
    BY <1>4, <1>a DEF Receive, LockIndex, At, Sound, Delivered, Unheard
  <2> QED
    BY <1>0, <2>1, <2>2 DEF Sound
<1>5. ASSUME NEW h \in Handlers, Conflict(h) \/ BadBody(h) \/ Record(h) PROVE Sound'
  <2>1. /\ at[h] # "idle" /\ at' = [at EXCEPT ![h] = "idle"]
        /\ pending \ {event[h]} \subseteq pending' /\ pending' \subseteq pending
        /\ \A g \in Handlers \ {h} : event'[g] = event[g]
        /\ UNCHANGED <<vars, phase, index>>
        /\ filter' = filter \/ filter' = filter \cup {Pair(event[h])}
    BY <1>5, <1>a DEF Conflict, BadBody, Record, Answered, At
  <2>2. event[h].index <= index /\ phase = "serve"
    BY <2>1 DEF Sound, Delivered, Past, Unheard
  <2>3. at[h] = "refresh" => pc[h] = "idle"
    BY <1>5 DEF Conflict, BadBody, Record
  <2>4. Roles'
    BY <1>a, <2>1, <2>3 DEF Sound, Roles, vars, localVars
  <2>5. Delivered'
    BY <1>a, <2>1 DEF Sound, Delivered
  <2>6. Past' /\ Unheard'
    BY <2>1, <2>2 DEF Sound, Past, Unheard
  <2> QED
    BY <1>0, <2>4, <2>5, <2>6 DEF Sound
<1>6. ASSUME NEW h \in Handlers, Refresh(h) PROVE Sound'
  <2>1. Roles'
    BY <1>6, <1>a DEF Refresh, ChangeAllServiceNodes, At, Goto, Sound, Roles
  <2>2. Delivered' /\ Unheard' /\ Past'
    BY <1>6, <1>a DEF Refresh, At, Sound, Delivered, Unheard, Past
  <2> QED
    BY <1>0, <2>1, <2>2 DEF Sound
<1>7. ASSUME NEW p \in filter, Forget(p) PROVE Sound'
  <2>1. Roles' /\ Delivered' /\ Unheard' /\ Past'
    BY <1>7 DEF Forget, vars, localVars, Sound, Roles, Delivered, Unheard, Past
  <2> QED
    BY <1>0, <2>1 DEF Sound
<1>8. ASSUME NEW s \in Services, Tell(s) PROVE Sound'
  <2>1. PublisherOf[s] \in Threads \ (Handlers \cup {Main}) /\ s # None
    BY DirectoryAssumption DEF Publishers, Names
  <2>2. Roles'
    BY <1>8, <1>a, <2>1 DEF Tell, GetNextServiceNode, Goto, Sound, Roles
  <2>3. Delivered' /\ Unheard' /\ Past'
    BY <1>8 DEF Tell, Sound, Delivered, Unheard, Past
  <2> QED
    BY <1>0, <2>2, <2>3 DEF Sound
<1>9. ASSUME NEW t \in Threads, DirectoryStep(t) PROVE Sound'
  <2>1. Delivered' /\ Unheard' /\ Past' /\ phase' = phase /\ at' = at
    BY <1>9 DEF DirectoryStep, eventVars, Sound, Delivered, Unheard, Past
  <2>2. ASSUME NEW u \in Threads, u # t
        PROVE  svc'[u] = svc[u] /\ (pc'[u] # "idle" => pc[u] # "idle")
    BY <1>9, <1>0, <2>2, Frame DEF DirectoryStep, RefreshInv, Untouched
  <2>3. svc'[t] \in {svc[t], None} /\ (pc'[t] # "idle" => svc'[t] = svc[t] /\ pc[t] # "idle")
    <3>1. CASE LookupFails(t) \/ Select(t) \/ SelectPanics(t) \/ ReturnUnavailable(t) \/ ReturnRefresh(t)
      BY <1>a, <3>1 DEF LookupFails, Select, SelectPanics, ReturnUnavailable, ReturnRefresh, RUnlock,
         Unlock, LocalsEnd, Goto
    <3>2. CASE Lock(t) \/ Drained(t) \/ RLock(t) \/ LookupMisses(t) \/ LookupFinds(t)
      BY <1>a, <3>2 DEF Lock, Drained, RLock, LookupMisses, LookupFinds, localVars
    <3>3. CASE \/ QueryChecks(t) \/ QueryService(t) \/ QueryFails(t)
               \/ KeepNodes(t) \/ ReplaceNodes(t) \/ SetNodes(t) \/ SetNext(t)
      BY <1>a, <3>3 DEF QueryChecks, QueryService, QueryFails, KeepNodes, ReplaceNodes, SetNodes,
         SetNext, localVars
    <3> QED
      BY <1>9, <3>1, <3>2, <3>3 DEF DirectoryStep, Step
  <2>4. Roles'
    BY <2>1, <2>2, <2>3 DEF Sound, Roles
  <2> QED
    BY <1>0, <2>1, <2>4 DEF Sound
<1>10. CASE UNCHANGED allVars
  <2>1. Roles' /\ Delivered' /\ Unheard' /\ Past'
    BY <1>10 DEF allVars, vars, localVars, eventVars, Sound, Roles, Delivered, Unheard, Past
  <2> QED
    BY <1>0, <2>1 DEF Sound
<1> QED
  BY <1>1, <1>2, <1>3, <1>4, <1>5, <1>6, <1>7, <1>8, <1>9, <1>10 DEF NextEvents, Handle
\* What the handler's own steps leave of the directory.
LEMMA SameView ==
  ASSUME UNCHANGED vars
  PROVE  (InStep' <=> InStep) /\ \A t : Caught(t)' <=> Caught(t)
<1>1. UNCHANGED <<check, nodes, pc, svc, queue, todo, found, reply, quiet>>
  BY DEF vars, localVars
<1>2. \A s : Passing(s)' = Passing(s) /\ Entry(s)' = Entry(s)
  BY <1>1 DEF Passing, Entry, Listed
<1>3. \A t : Passing(Head(queue[t]))' = Passing(Head(queue[t]))
  BY <1>1 DEF Passing, Listed
<1>4. InStep' <=> InStep
  BY <1>1, <1>2, <1>3 DEF InStep, Current, ReaderCurrent
<1> QED
  BY <1>1, <1>4 DEF Caught

\* A selection that begins has resolved nothing yet.
LEMMA SelectionKeepsStep ==
  ASSUME RefreshInv, NEW t \in Threads, NEW s, GetNextServiceNode(t, s)
  PROVE  /\ InStep => InStep'
         /\ \A u \in Threads \ {t} : Caught(u) => Caught(u)'
<1>1. /\ UNCHANGED <<check, nodes, queue, todo, found, quiet>>
      /\ pc'[t] = "rlock"
      /\ \A u \in Threads \ {t} : pc'[u] = pc[u] /\ svc'[u] = svc[u] /\ reply'[u] = reply[u]
  BY DEF GetNextServiceNode, Goto, Answer, RefreshInv, TypeInv, TypeOK
<1>2. \A q : Passing(q)' = Passing(q) /\ Entry(q)' = Entry(q)
  BY <1>1 DEF Passing, Entry, Listed
<1>3. \A u : Passing(Head(queue[u]))' = Passing(Head(queue[u]))
  BY <1>1 DEF Passing, Listed
<1>4. InStep => InStep'
  BY <1>1, <1>2, <1>3 DEF InStep, Current, ReaderCurrent
<1> QED
  BY <1>1, <1>4 DEF Caught

\* An event is owed until it is answered after a refresh that caught its change.
LEMMA FollowStep == Sound /\ FollowInv /\ [NextEvents]_allVars => FollowInv'
<1> SUFFICES ASSUME Sound, FollowInv, [NextEvents]_allVars PROVE FollowInv'
  OBVIOUS
<1> USE EventsAssumption
<1>a. /\ at \in [Handlers -> {"idle", "lock", "bind", "refresh"}]
      /\ DOMAIN event = Handlers /\ index \in Nat
      /\ \A h \in Handlers : at[h] \in {"bind", "refresh"} <=> mutex = h
      /\ \A e \in pending : e \in Events /\ e.index \in Nat
      /\ pc \in [Threads -> Labels] /\ DOMAIN svc = Threads /\ RefreshInv
  BY DEF Sound, Inv, TypeOKEvents, HoldsMutex, RefreshInv, LockInv
<1>1. CASE Changes
  <2>1. PICK n \in Nodes : \A w \in PostedBy[index + 1] :
          [from |-> w, service |-> ServiceOf[n], index |-> index + 1] \in pending'
    BY <1>1 DEF Changes
  <2>2. PICK w \in PostedBy[index + 1] : TRUE
    BY <1>1, <1>a DEF Changes
  <2>3. Owed'
    <3> DEFINE e == [from |-> w, service |-> ServiceOf[n], index |-> index + 1]
    <3>1. e \in pending' /\ e.index = index'
      BY <1>1, <2>1, <2>2 DEF Changes
    <3>2. Pair(e) \notin filter'
      BY <1>1, <1>a DEF Changes, Sound, Past
    <3> QED
      BY <3>1, <3>2 DEF Owed
  <2>4. \A h \in Handlers : at'[h] = "refresh" => event'[h].index # index'
    <3>1. index' = index + 1 /\ at' = at /\ event' = event
      BY <1>1 DEF Changes
    <3>2. \A h \in Handlers : at[h] = "refresh" => event[h].index \in Nat /\ event[h].index <= index
      BY <1>a DEF Sound, Delivered, Past
    <3> QED
      BY <1>a, <3>1, <3>2
  <2> QED
    BY <2>3, <2>4 DEF FollowInv
<1>2. CASE StartPublishes \/ StartListens
  <2>1. UNCHANGED <<vars, index, pending, event, at, filter, dropped>> /\ phase' # "refreshing"
    BY <1>2 DEF StartPublishes, StartListens
  <2>2. phase' = "serve" => Owed \/ InStep
    BY <1>2 DEF StartPublishes, StartListens, FollowInv, Caught
  <2>3. \A h \in Handlers : at[h] = "idle"
    BY <1>2 DEF StartPublishes, StartListens, Sound, Unheard
  <2>4. Owed => Owed'
    BY <2>1 DEF Owed
  <2>5. InStep => Synced'
    BY <2>1, <2>3, SameView DEF Synced
  <2> QED
    BY <2>1, <2>2, <2>3, <2>4, <2>5 DEF FollowInv
<1>3. CASE StartRefreshes
  <2>1. phase' = "refreshing" /\ pc'[Main] = "lock" /\ Main \in quiet' /\ at' = at
    BY <1>3, <1>a DEF StartRefreshes, ChangeAllServiceNodes, Goto
  <2>2. \A h \in Handlers : at[h] = "idle"
    BY <1>3 DEF StartRefreshes, Sound, Unheard
  <2> QED
    BY <2>1, <2>2 DEF FollowInv, Caught
<1>4. CASE Restarts
  BY <1>4 DEF Restarts, NewProcess, FollowInv
<1>5. ASSUME NEW h \in Handlers, Receive(h) \/ LockIndex(h) \/ Conflict(h) \/ BadBody(h)
      PROVE  FollowInv'
  <2>1. /\ UNCHANGED <<vars, index, phase, filter, dropped>>
        /\ at[h] # "refresh" /\ at'[h] # "refresh"
        /\ \A g \in Handlers \ {h} : at'[g] = at[g] /\ event'[g] = event[g]
    BY <1>5, <1>a DEF Receive, LockIndex, Conflict, BadBody, Answered, At
  <2>2. Owed => Owed'
    <3>1. \A e \in pending : Pair(e) \notin filter => e \in pending'
      BY <1>5 DEF Receive, LockIndex, Conflict, BadBody, Answered
    <3> QED
      BY <2>1, <3>1 DEF Owed
  <2>3. Synced => Synced'
    BY <2>1, SameView DEF Synced
  <2>4. \A g \in Handlers : at'[g] = "refresh" /\ event'[g].index = index' => Caught(g)'
    BY <2>1, SameView DEF FollowInv
  <2>5. phase' = "refreshing" => Owed' \/ Caught(Main)'
    BY <2>1, <2>2, SameView DEF FollowInv
  <2> QED
    BY <2>1, <2>2, <2>3, <2>4, <2>5 DEF FollowInv
<1>6. ASSUME NEW h \in Handlers, Refresh(h) PROVE FollowInv'
  <2>1. /\ phase' = phase /\ at'[h] = "refresh" /\ pc'[h] = "lock" /\ h \in quiet'
        /\ \A g \in Handlers \ {h} : at'[g] # "refresh"
    BY <1>6, <1>a DEF Refresh, ChangeAllServiceNodes, At, Goto
  <2>2. phase = "serve"
    BY <1>6 DEF Refresh, Sound, Unheard
  <2>3. Caught(h)'
    BY <2>1 DEF Caught
  <2> QED
    BY <2>1, <2>2, <2>3 DEF FollowInv, Synced
<1>7. ASSUME NEW h \in Handlers, Record(h) PROVE FollowInv'
  <2>1. /\ at[h] = "refresh" /\ pc[h] = "idle" /\ dropped' = (reply[h] = "error")
        /\ filter' = filter \cup {Pair(event[h])} /\ pending' = pending \ {event[h]}
        /\ UNCHANGED <<vars, phase, index>>
        /\ \A g \in Handlers : at'[g] # "refresh"
    BY <1>7, <1>a DEF Record, Answered, At
  <2>2. phase = "serve"
    BY <2>1 DEF Sound, Unheard
  <2>3. Caught(h) => Synced'
    <3>1. Caught(h) => reply[h] = "error" \/ InStep
      BY <2>1 DEF Caught
    <3> QED
      BY <2>1, <3>1, SameView DEF Synced
  <2>4. CASE event[h].index = index
    BY <2>1, <2>2, <2>3, <2>4 DEF FollowInv
  <2>5. CASE event[h].index # index
    <3>1. Owed => Owed'
      BY <2>1, <2>5 DEF Owed
    <3>2. Synced => Synced'
      BY <2>1, <2>3 DEF Synced
    <3> QED
      BY <2>1, <2>2, <3>1, <3>2 DEF FollowInv
  <2> QED
    BY <2>4, <2>5
<1>8. ASSUME UNCHANGED vars, UNCHANGED <<phase, index, pending, event, at, dropped>>,
             filter' \subseteq filter
      PROVE  FollowInv'
  <2>1. Owed => Owed'
    BY <1>8 DEF Owed
  <2>2. Synced => Synced'
    BY <1>8, SameView DEF Synced
  <2> QED
    BY <1>8, <2>1, <2>2, SameView DEF FollowInv
<1>9. ASSUME NEW s \in Services, Tell(s) PROVE FollowInv'
  <2>1. PublisherOf[s] \in Threads \ (Handlers \cup {Main})
    BY DEF Publishers
  <2>2. UNCHANGED <<phase, index, pending, event, at, filter, dropped>>
        /\ GetNextServiceNode(PublisherOf[s], s)
    BY <1>9 DEF Tell
  <2>3. /\ InStep => InStep'
        /\ \A u \in Handlers \cup {Main} : Caught(u) => Caught(u)'
    BY <1>a, <2>1, <2>2, SelectionKeepsStep
  <2>4. (Owed => Owed') /\ (Synced => Synced')
    BY <2>2, <2>3 DEF Owed, Synced
  <2> QED
    BY <2>2, <2>3, <2>4 DEF FollowInv
<1>10. ASSUME NEW t \in Threads, DirectoryStep(t) PROVE FollowInv'
  <2>1. UNCHANGED <<phase, index, pending, event, at, filter, dropped>> /\ Step(t)
    BY <1>10 DEF DirectoryStep, eventVars
  <2>2. pc[t] # "idle"
    BY <2>1 DEF Step, Lock, Drained, RLock, QueryChecks, QueryService, QueryFails, KeepNodes,
       ReplaceNodes, SetNodes, SetNext, LookupFails, LookupMisses, LookupFinds, Select, SelectPanics,
       ReturnRefresh, ReturnUnavailable
  <2>3. ASSUME NEW h \in Handlers, at[h] = "refresh", Caught(h) PROVE Caught(h)'
    <3>1. svc[h] = None /\ phase = "serve"
      BY <2>3 DEF Sound, Roles, Unheard
    <3>2. \A u \in Threads : pc[u] # "idle" /\ svc[u] = None => u = h
      BY <1>a, <2>3, <3>1 DEF Sound, Roles
    <3> QED
      BY <1>a, <2>1, <2>3, <3>1, <3>2, StaysCaught
  <2>4. ASSUME phase = "refreshing", Caught(Main) PROVE Caught(Main)'
    <3>1. \A u \in Threads : pc[u] # "idle" /\ svc[u] = None => u = Main
      BY <2>4 DEF Sound, Roles, Unheard
    <3>2. svc[Main] = None
      BY DEF Sound, Roles
    <3> QED
      BY <1>a, <2>1, <2>4, <3>1, <3>2, StaysCaught
  <2>5. ASSUME phase = "serve", \A h \in Handlers : at[h] # "refresh", InStep PROVE InStep'
    <3>1. svc[t] # None
      BY <2>2, <2>5 DEF Sound, Roles
    <3> QED
      BY <1>a, <2>1, <2>5, <3>1, ReaderKeepsStep
  <2>6. (Owed => Owed') /\ (phase = "serve" /\ Synced => Synced')
    BY <2>1, <2>3, <2>5 DEF Owed, Synced
  <2> QED
    BY <2>1, <2>3, <2>4, <2>6 DEF FollowInv
<1>11. CASE UNCHANGED allVars
  BY <1>8, <1>11 DEF allVars, eventVars
<1>12. ASSUME NEW p \in filter, Forget(p) PROVE FollowInv'
  BY <1>8, <1>12 DEF Forget
<1> QED
  BY <1>1, <1>2, <1>3, <1>4, <1>5, <1>6, <1>7, <1>9, <1>10, <1>11, <1>12
     DEF NextEvents, Start, Handle

\* Once every event is answered, and the last refresh reported no error, the
\* directory is what consul reports: no change is answered for by a refresh that
\* began before it, in whichever order its events and those before it arrive.
THEOREM SettledCurrent == SpecEvents => []SettledIsCurrent
BY SoundInit, SoundStep, FollowStep, FollowsWhenSettled, PTL DEF SpecEvents
===============================================================================
