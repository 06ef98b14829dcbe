# Formal model of the DMS-SMS API gateway

TLA+ modules, TLC runs and TLAPS proofs about the gateway in `src/` (Go). Line
numbers below refer to that tree; `src/README.md` is the repository's own README.

## 1. The system

The gateway receives HTTP requests (gin), authenticates and validates them, chooses a node
of one of five gRPC services (auth, club, outing, schedule, announcement) and calls it
through a circuit breaker. It learns the nodes from consul, keeps a copy of them in memory,
and tells consul when a node's breaker is open. Some responses are cached in redis by means
of publish/subscribe messages.

| Component (source) | State it keeps | Operations | What makes it correct |
|---|---|---|---|
| Service directory (`consul/agent/default*.go`) | per service: node list and round-robin selector, one `sync.RWMutex` | refresh all services, select the next node | no map race; the selector belongs to the saved list; a refresh ends with consul's list; every node gets its turn; every call returns |
| Request course (`handler/default_*.go`, 67 handlers) | `h.breakers` under `h.mutex`; pending `PassTTLHealth` timers; consul's TTL checks | one handler per API, all on one pattern | breaker found when used, never replaced, never stuck; honest response; a failed check recovers |
| Circuit breaker (go-resiliency, external) | closed/open/halfOpen, counters, a sleeping goroutine | `Run` | as documented by the library |
| Consul change events (`handler/default_event_publish.go`, startup in `main.go`) | filter of seen consul indexes under `consulIndexMutex`, one-minute timers | `PublishConsulChangeEvent`, startup publisher and first refresh | once events are answered the directory is consul's; one refresh per index; every event is answered |
| Event handling (`handler/default_event_handle.go`, `subscriber/redis.go`) | redis keys, side keys | SET a response, DELETE by pattern; one goroutine per message | a deletion finds every key it should |
| Cache middleware (`middleware/redis_handler*.go`) | none of its own | answer from the cache; publish SET and DELETE after the handler | a hit answers the request that was made; what a change alters is deleted, and what is stale does not stay |
| Response writer, tracer, log entry, authenticator, validator (`middleware/`, `router/`) | the request's context, its span | abort or go on; before and after the handler | one answer; nothing reaches a handler unchecked |
| Security filter (`middleware/security_filter.go`) | two maps of seen values, one mutex used for one of the writes | check once | a value is used once |
| Naver limiter (`handler/default_open_api.go`), dos detector (`middleware/dos_detector.go`, commented out) | flags, counters and their timers | count, block, unblock | the counter never wraps; a block has its timer, and ends |
| Excel import (`handler/default_xlsx_handle.go`) | the students read so far | sheets in map order, rows, one call | what is sent does not depend on the order |
| Profiler (`tool/profiling/profiler.go`) | three open files | write and upload once a day, or at a signal | - |
| Registration, consul KV, SQS subscriber (not enabled), tools | none that lasts | one-shot calls | - |

Interactions. A handler calls the directory (`GetNextServiceNode`) and consul
(`FailTTLHealth`, and `PassTTLHealth` from a timer). Consul's watch posts a change event,
which refreshes the directory and starts five goroutines that select a node each to pass the
event on. The health a rejected request sets in consul comes back as a shorter node list at
the next refresh. Cache messages go through redis and are applied later, in any order. All
requests, listeners and timers are goroutines of one process; a concurrent access of a map
that the Go runtime notices ends all of them.

Hard behaviours: many goroutines on shared maps, several of them guarded only half way; a read
lock under which entries are written; timers that nothing cancels; results of calls that
arrive when the breaker has moved on; queries that fail in the middle of a refresh; restarts
that lose the timers but not the state of consul or redis; unordered cache messages and
deletions of several commands. `PROJECT.json` lists each hazard at its line, with the
properties that would catch it.

## 2. Modules

| Module | Models | State and actions against the code |
|---|---|---|
| `ServiceDirectory` | `consul/agent/default_method.go` | `nodes`, `next` are `d.nodes`, `d.next`; `writer`, `readers` the RWMutex; `pc` and `queue, todo, found, failed` the position and local variables of each goroutine. One action per consul query and per map assignment, so that threads interleave where they do in Go. `check` is consul; `Listed` is the order in which it lists a set of nodes (`NodeList` without the others). |
| `FairRotation` | the promise "Round Robin" (`src/README.md:102`) | rounds over the members of a service, whoever asks. `ServiceDirectory` implements it (`ImplementsFairRotation`). |
| `ConsulEvents` | `default_event_publish.go`, the functions run before the server listens | EXTENDS `ServiceDirectory`: its refreshes and selections are the directory's own steps. `phase` is the start; `mutex`, `filter` are `consulIndexMutex`, `consulIndexFilter`; `pending` the events consul has to deliver; `notify` the five goroutines. `dropped` remembers that the last refresh for an event failed. |
| `CircuitBreaker` | go-resiliency, external | pure operators on a breaker record; `timers` counts its sleeping goroutines. |
| `Handlers` | the 67 handlers and the routes of `main.go` | one profile per handler: service selected (`topic`), client that makes the call (`stub`), transcribed apart, success status, whether it sends the claims, whether it goes through a breaker, what it refuses itself. |
| `ServiceCall` | the course of one request | one action per step: `Arrive`, `Unauthorized`/`Refuse`, `SelectNode`/`SelectFails`, `Acquire`/`Insert` (under `h.mutex`), `RunAdmitted`/`RunRejected` (outside it), the call's end, `FailTTL`, `Schedule`; `BreakerTimer` and `PassTTL` are the timers; `Restart` the process. |
| `CacheKeys` | `redis_handler_wrapper.go` and the expressions of `default_event_handle.go` | a key is the sequence of its dot-separated segments, and so is a parameter of a path or of a search, which may have dots of its own: requests can collide. `SetKey` and `DelKeys` give the templates of each API; `Pattern`, `Resolve`, `Matches` turn a published key into the redis pattern it deletes; `Hole` is the place of the side key's value, `After` what one segment of a pattern matches. |
| `ResponseCache` | `redis_handler.go`, `subscriber/redis.go`, `default_event_handle.go` | a request is `Hit`, or `Miss` and `Serve`, then `PublishSet`, `PublishDelete`; messages in `sets`, `dels` are handled in any order, a deletion as GET of the side key, KEYS, and one DEL at a time. Each entry remembers which changes it missed; `due` what a change must remove. `Changes` follows the data the responses carry, not the keys that are deleted. |
| `Goroutines` | net/http, external | what `SecurityFilter` and `NaverLimiter` share: the goroutines that serve requests, and their places and requests when the process starts (`AllIdle`, `Unassigned`). |
| `SecurityFilter` | `security_filter.go` | each access of the two maps is a step; `LockUsed`, `Use` the section of the mutex. |
| `NaverLimiter` | `default_open_api.go` | `LockTable` to `StartTimer` or `Refuse` the section of `h.mutex`; `TimerFires` the end of the five seconds and `ResetEntry` the assignment after it, without the mutex. `Answer` is the call of Naver, which may never return. |
| `DosDetector` | `dos_detector.go` | both maps and the pending timers of each address; a request and a timer are one step each, under `d.mutex` in full. |
| `Gate` | `main.go:174-179`, the route of Naver's API | composes the three: a request goes through the filter, the detector and into the limiter; a race in the filter or the limiter ends the process of all three (`ProcessDies`). |
| `Pipeline` | the middleware of one route, `router/custom_group.go`, gin | `Chain` is the order; a middleware that goes on after `c.Next()` waits on `stack`; `Abort` ends the chain, a panic drops the stack. |
| `ExcelImport` | `default_xlsx_handle.go` up to the call | one step per sheet and row, with each early return. |
| `ExcelRoute` | `main.go:279-282` | composes the two: for the two routes of the import, the handler is the import. |
| `MC*` | - | constants for TLC. |
| `DataInduction` | - | induction over the natural numbers for a set (section 5). |
| `ServiceDirectoryProofs`, `ConsulEventsProofs`, `ServiceCallProofs`, `ServiceCallSafetyProofs`, `ResponseCacheProofs`, `GateProofs`, `ExcelRouteProofs` | - | theorems and proofs about the module of that name. |

`ServiceCall` takes the directory as "any node of the service, or an error", which contains
whatever `ServiceDirectory` answers. `Pipeline` takes the handler as an answer, and the cache
as a hit or a miss. Requests and replies are reduced to the status the code tells apart.
Definitions commented "Mutant" are plausible mistakes that show that a property can fail; no
specification uses them.

Details a reader may doubt:
- `Unlock` lets all waiting readers in at once, as Go's `RWMutex` does; `Lock` shuts new
  readers out as soon as it is called.
- The selector's start is random (go-micro), hence the set `Selectors`.
- `reflect.DeepEqual` of a missing entry and an empty answer is true in Go (both nil slices);
  `Entry` and `Differs` say the same.
- A breaker's timer and `PassTTLHealth` run for the same `BreakerCfg.Timeout`. A timer started
  while the breaker is open is therefore due after the breaker's own (`early` becomes `late`
  when `BreakerTimer` fires); the fault `"jitter"` lets it overtake.
- A result admitted by a closed breaker is not recorded as success even if the breaker is half
  open meanwhile: the library decides before the work.
- A detected map race or an unrecovered panic ends the process (`ProcessDies`, `Restart`,
  `Restarts`): the next one starts with empty maps. It may also go undetected, so the steps of
  the racing goroutines stay enabled.
- The delete publisher of a route wraps its responder, so a GET that also deletes
  (`GetAnnouncementDetail`) publishes its deletions after an answer from the cache too.
- A GET of an announcement that is answered from the cache does not reach the service, so it is
  neither counted nor marked as read, but its deletions are published. An update changes the
  titles in the details of the announcements beside it (`Near`), a new one those it comes next to (`Newest`).
- The responder answers 500 if a key cannot be formatted (`redis_handler.go:68-79`). Every parameter of
  the registered templates exists, so `Pipeline` leaves the branch out.
- A side key has no expiration (`default_event_handle.go:86-97`), so `InitWarm` lets any
  subset of those that the requests look up be there.
- `temporary_master_key` leaves the security filter by a plain return, which gin takes for
  going on (`PassMaster`).
- `DosDetector` is in `Gate` where `main.go:178` would register it. Its addresses are
  `c.Request.RemoteAddr`, port included.
- The consul filter holds the pairs of service and index that `PublishConsulChangeEvent`
  builds from the headers; a watch of type "checks" is answered before anything happens.
- `ChangeServiceNodes` (one service) has no caller and is left out.

## 3. Runs

| Run | Shows | Bounds |
|---|---|---|
| `dir_cold` | types, lock exclusion, a successful undisturbed refresh leaves consul's list, every call returns | 2 threads, 1 service of 2 nodes, 1 unknown name; consul changes at any step, any query fails |
| `dir_warm` | no race, selectors over the saved lists, `FairRotation` | 2 threads, 2 services, 3 nodes |
| `dir_crash` | violated: `NoCrash` from an empty directory | 2 threads, 1 service |
| `call_cold` | types, breakers present, sound, cycling; honest responses; a call reaches the service of its stub, with a token if it names the user | 3 requests, 3 APIs (an open route that checks the token itself, one behind the authenticator, an unguarded one), 3 nodes, thresholds 1 and 2, restarts, failing PassTTL, jitter |
| `call_warm` | a critical check has a timer, requests end, checks recover | 2 requests, 1 node, thresholds 2, jitter |
| `call_early_pass` | violated: an open breaker's check is not passed | 2 requests, thresholds 1 |
| `call_restart` | violated: a critical check recovers, when the process may restart | 1 request, thresholds 1 |
| `events` | types; the directory is consul's once events are answered, and in the end, unless the last refresh failed; one refresh per index; every event is answered | 2 changes of consul (`MaxIndex`), the first posted by one watch and the second by two at once, 2 handlers, 1 service of 1 node, its publisher; failing queries, bodies that do not bind, restarts |
| `cache` | types; a hit answers a request without a dot in its path; a change whose deletions get through misses no entry but the neglected ones; no stale entry stays | two requests, one of them a read, that ask any two of 10 (outings), 7 (announcements) or 5 (schedules) queries, and the pairs of `cache_stale`; cache filled before, any side keys that are looked up; lost messages, failing commands, restarts, expirations |
| `cache_stale` | violated: what a change makes stale is deleted (`AllStaleDeleted`) | an update and the detail of the announcement beside it, or a view and the list of another user |
| `gate` | types and mutexes; a value passes again only by overlap; a limit has its timer, five seconds apart; exact counter, one minute each; requests end or come to the call of Naver (`RequestsEnd`), limits and rejections end (`BlocksEnd`) | 2 goroutines, 2 users, one value of each kind, 1 address, `Limit` 2, `Modulus` 4; the process dies of any race |
| `excel` | one answer; messages only of a success; handlers prepared; what is sent are the students of all sheets of more than two rows; faulty ones refused | one request, 9 kinds of routes, every token and form; workbooks of 2 sheets of at most 3 rows with missing, doubled and shuffled attributes, short, blank, malformed and too long cells |

Why the bounds are enough to be of use. A race needs two goroutines, and a third adds only a
waiter; two nodes are needed for a rotation and for lists that differ in content but not in
length; two services for a refresh that fails half way. The breaker needs a threshold above 1
on each side for its counters to be visible (`call_cold` has 2 successes, `call_warm` both),
and three requests for a late result: one admitted closed, one that opens, one rejected.
`MaxTimers` bounds timers plus requests in flight per node; three let timers of two openings
be pending at once. `Flaky` restricts which nodes fail, to keep `call_cold`
small. It has three of the 67 handlers; the theorems `CallsReachTheirService` and `CallsNameTheirUser` are about all of them. `events` needs two handlers for the mutex, and two changes so that a refresh can run
while consul moves on. A stale entry of the cache needs one reader and one change; every such
pair is in the lists of `MCResponseCache`, and each change there meets each read of what it
changes; two reads make a collision. A limit of 2 is the smallest where the counter has a value between none and the
limit; `Modulus` only has to be above it. Two sheets are needed for an order, two lines below
the attributes for the code to look at a sheet at all. `events`, `cache`, `cache_stale` and `excel` do not
check deadlock: they stop when consul has no more changes, when all requests are answered, and
when the one request is. The theorems do not depend on any of these bounds.

### What the violated runs show

1. `dir_crash`: `GetNextServiceNode` refreshes a missing service under the read lock
   (`default_method.go:84`). Startup does so for five services at once (`main.go:154`), which
   Go answers with "concurrent map writes". From an empty directory `SelectorMatchesNodes`
   fails for the same reason.
2. `call_early_pass`: each rejection has its own timer; one of the last opening passes the
   check in the next (`src/README.md:108-109`).
3. `call_restart`: the timer is lost with the process, the critical check is not; one restart
   is enough, after which no action of the gateway passes the check.
4. `cache_stale`: the keys of a change are written down per API
   (`redis_handler_wrapper.go:73-106`), and what it alters is in other responses too: the titles of
   the announcements beside one in its detail (`default_announcement.go:328-331`), the views in
   everybody's lists (`:224`, `:744`) and the writer's (`:859`), against `src/README.md:187`. Each of the
   two pairs violates `AllStaleDeleted` by itself. `Neglected` names these keys, and a third case: parent-approve
   and parent-reject act on the outing of their code (`default_outing.go:687`) and delete the keys
   of the one in the path. Apart from them `DeletionIsComplete` holds.

### Where code and documents differ without a run of their own

The models say what the code does, and the properties leave these cases out by name.

- A service with no node keeps no entry, so the next selection refreshes again and answers
  `ErrUnavailableService`, 500, not 503 (`default_method.go:65`, `:84`; `src/README.md:101`).
- Two handlers examine the wrong error after their call and dereference a nil reply
  (`default_auth_admin.go:380`, `default_xlsx_handle.go:238`): a timeout is a bare 500, not the
  408 of `src/README.md:106`. `AnswerIsHonest` exempts the failed calls of these two, and
  `AnsweredOnce` takes the panic for an answer.
- A key is joined by dots from unchecked parameters of the path (`redis_handler.go:246-276`). The
  inform of an outing `X.card` has the key of the card of `X` and is answered with it, where the
  comment at `:44` speaks of the response of the key instead of the service; an announcement's uuid with dots
  reaches a list of a user in the same way. `PlainHitsAnswer` is what holds: dots elsewhere do no harm,
  and those who ask without one are not reached by those who ask with one.
- `len(rows) <= 2` passes over a sheet with its attributes and one student, although the comment
  above it speaks of a missing row (`default_xlsx_handle.go:110-111`). `Complete` is what the comment
  says, and `SentIsAllButPairs` leaves out `Pairs`, the sheets that are lost.
- `h.breakers` is read after `h.mutex` is released (`default_outing.go:62`) while another first
  request may be inserting into it (`:57`): a concurrent map access, which may end the process. It
  needs a node without a breaker, so every start and every new node id has the window. `Restart`
  is that end in `call_cold`; no property forbids it, since nothing in the repository claims otherwise.
- The request to Naver has no deadline (`default_open_api.go:66`) and its client no timeout
  (`default.go:74`), against `src/README.md:106`. `NaverAnswers` is not fair, and `RequestsEnd` stops there.
- A response read before a change and set after its deletion is answered as if nothing had
  changed (`subscriber/redis.go:24`, `redis_handler.go:160`; `src/README.md:123` says the cache
  of what changes is deleted). `DeletionIsComplete` is about entries that were there at the
  change; `StaleEntriesExpire` about all, but it only says that none lasts, and nothing of the minute before.
- The error of a refresh for an event is dropped and the index recorded
  (`default_event_publish.go:75`); consul does not ask again. `SettledIsCurrent` and
  `EventuallyCurrent` exclude it by `dropped`.
- The Naver timer writes the table without the mutex (`default_open_api.go:44`). The race ends
  the process and the table with it, so `OnceEvery5Seconds` is about one process.
- The expression of the student number has no end (`default_xlsx_handle.go:31`): longer numbers
  pass (`Accepted`).
- The top span is finished after `c.Next()` and not in a defer (`tracer_span_starter.go:32`):
  a panic leaves it open (`HandlerPanics` drops the stack).
- The type switch of the validator has pointers to pointers, which no request is
  (`request_validator.go:144`): an empty inform request is not refused. `InformTypes` says so.
- The profiler takes SIGTERM and goes on (`profiler.go:23`): only a kill ends the process.

## 4. Fairness

- `ServiceDirectory`: weak fairness of every thread's step (the Go scheduler runs every
  goroutine; consul's HTTP client returns an answer or an error), strong fairness of `Lock`
  (`sync.Mutex` hands over to a starving waiter after 1 ms). None of calls: nobody has to ask.
  That every query returns is an assumption: the client of consul has no timeout, and one query
  that hangs holds the lock for ever.
- `ServiceCall`: weak fairness of every request's step (a call ends because it carries
  `WithRequestTimeout(3s)`), strong fairness of `Acquire` (starvation mode again), weak
  fairness of the timers. None of `Arrive`, of a success, or of `Restart`.
- `ConsulEvents`: weak fairness of the start, of each handler, publisher and directory step;
  strong fairness of `LockIndex`, and of "refresh or conflict": an event consul posts again and
  again does not fail to bind each time. That consul posts an event again after a 400, and that its
  bindings and queries return, is assumed. None of `Changes` or of a query that succeeds.
- `ResponseCache`: weak fairness of requests, of the two listeners, and of redis expiring what
  has an expiration. None of any fault, nor of the success of a command.
- `Gate`: weak fairness of a goroutine's steps and of timers, strong fairness of the two locks.
  None of `Arrive`, and none of `NaverAnswers`, for nothing ends a call of Naver that hangs; the
  mutex is released before it (`default_open_api.go:47-55`). `ProcessDies` may happen or not.

## 5. Proofs

Every safety property that a passing run checks (invariants, action properties and the
refinement of `FairRotation`) is also a theorem: for every number of threads, requests, services, nodes, values, users and
addresses, every threshold and limit, every menu of cached requests, every set of routes and
workbooks, and every fault set (except where an assumption says so).

| Theorem | Assumes | States |
|---|---|---|
| `DirectoryTyped`, `LockExcludes` | - | `TypeOK`, `LockExclusion` of `ServiceDirectory` |
| `RefreshesAreCurrent` | - | `RefreshIsCurrent`, from an empty directory too |
| `WarmNeverCrashes`, `WarmSelectorsMatch` | an entry for every service | `NoCrash`, `SelectorMatchesNodes` |
| `DirectoryRotates` | an entry for every service | `ImplementsFairRotation`: a step of the directory is a step of `FairRotation` or leaves it alone |
| `EventsTyped`, `OneRefreshPerIndex`, `SettledCurrent` | - | `TypeOKEvents`, `RefreshedOncePerIndex`, `SettledIsCurrent` of `ConsulEvents` |
| `TypeCorrect`, `BreakersReady`, `BreakersSound` | - | `TypeOK`, `BreakerReady`, `BreakerSound` of `ServiceCall` |
| `BreakersCycle` | - | `BreakerCycle`, an action property |
| `AnswersHonest` | - | `AnswerIsHonest` |
| `CallsReachTheirService`, `CallsNameTheirUser` | - | `CallReachesItsService`, `CallNamesItsUser` |
| `CriticalsArePassed` | no restart, a breaker for every node, and PassTTL succeeds | `CriticalHasPass` |
| `PlainHitsAnswered`, `PlainHitsAnsweredWarm` | - | `PlainHitsAnswer` of `ResponseCache`, from an empty and from a filled cache |
| `CacheTyped`, `DeletionsAreComplete` | - | `TypeOK`, `DeletionIsComplete`, from a filled cache |
| `GateImplementsParts` | - | `Gate` implements `SecurityFilter`, `NaverLimiter` and `DosDetector` |
| `GateTyped`, `PassesOnce` | - | `TypeOK` of `Gate`, `PassedAgainOnlyIfOverlapping` |
| `TimersMatch`, `OncePerFiveSeconds` | - | `LimitedHasTimer`, `OnceEvery5Seconds` |
| `CountsExactly`, `OneTimerEach` | - | `CounterIsExact`, `OneMinuteEach` |
| `RequestsAnsweredOnce`, `PublishedIsTheAnswer`, `HandlersArePrepared` | - | `AnsweredOnce`, `PublishedIsAnswer`, `HandlerIsPrepared` of `Pipeline`, for the chain composed with the import |
| `AllButPairsIsSent`, `FaultyBooksAreRefused` | - | `SentIsAllButPairs`, `FaultyIsRefused` of `ExcelImport`, behind the chain |

### Assumptions

They are named where the constants are declared, and TLC evaluates them in the runs. The ones
that say something of the code or of what surrounds it:

- `DirectoryAssumption`: the nodes consul may list come each once. The list comes from
  `client.Health().Checks`, one entry per check (`default_method.go:49-57`), and a service
  registers one check for the id it draws (`default_method_closure.go:28-52`). Without it a round would hand out a node twice.
- `ThresholdAssumption`, `CallAssumption`: thresholds above zero; the APIs requested are
  handlers of the gateway, those with a profile.
- `EventsAssumption`: the goroutine of `main`, the handlers and the five publishers are
  different goroutines.
- `DataAssumption` (`CacheKeys`): each outing has one owner and each announcement one type,
  and no side key is `NoKey`; no outing is called "filter". `AskedOfMenu`: a parameter has a segment
  at least, the type of an announcement that is created is one of the `Types` the expression knows
  (`default_event_handle.go:39`), and no user is "{}". Nothing is assumed of the dots in a parameter.
- `Accepts` is a guard and external: the services know what exists and the two types, a student's
  outing is its own, and who changes an outing or an announcement is its owner or its writer. A response
  that is cached is therefore of a request without a dot in its path; who asks with one is still
  looked up. The gateway relies on the owner for the key
  "students.$TokenUUID.outings" of `ModifyOuting` (`redis_handler_wrapper.go:42`), which names
  who sends the request and not, as that of `TakeActionInOuting` does, who owns the outing. If a
  service let somebody else modify one, the owner's list would stay cached; likewise for
  "writers.$TokenUUID.announcements" and who is not the writer.
- `RoutesAssumption`: a responder is not registered behind a publisher of responses
  (`redis_handler.go:40-42`: `ResponderAndSetEventPublisher` returns them in this order).
- `BooksAssumption`: a workbook gives for each sheet an error or rows of strings, and no sheet
  has an empty name.

### Arguments

Directory. `TypeInv` adds to the types that a selector's position is inside its list and that
a refresh under way has a service to go on with (`Going`). `LockInv` says for each place and
call (`svc` is `None` in a refresh of all services) which part of the lock the thread has, and
that a writer past its wait is alone: a refresh under the read lock visits the same places as
one under the write lock, so that places alone say nothing. `RefreshInv` adds `Fresh`: unless
a query failed or consul changed, a refresh of all services has saved what consul reports for
every service it is done with, and what it has resolved so far, with what it has still to
resolve, is the current list. It needs the lock's part, because a selection that refreshes
could otherwise overwrite an entry the refresh is done with. `Placed` and `WarmInv` add, when every
service has an entry and a selector, that nobody misses an entry, hence that all writes are
under the write lock.

Rotation. The abstract members are the list of the selector, and the abstract round is what
lies from its start to its position (`ServedBy`). `RotationInv` says that each selector is
over a list consul may give, hence one without duplicates, and that a refresh only goes on to
the assignments with a list that differs from the one that is rotated. Three facts make the
mapping: `Turns` (the positions have turns 0 to n - 1, and the next position has the next turn or
the first one), `SelectorRotates` (a selection gives a node outside the round, and closes it when it was
the last), and `ListIsItsNodes` (two lists of consul with the same nodes are the same list, so
that a refresh never replaces one by another order of it, which would not be a step of
`FairRotation`). `RotationMaps` puts them together, a step at a time. Since a new round starts at a
random node, a round that is cut short by a new list promises nothing about the next.

Events. `Inv` says who holds the mutex at each place of a handler, and that what was refreshed for
is either in the filter or is the pair of the handler that holds the mutex between its refresh
and its record. It holds whatever the directory does meanwhile. `SettledIsCurrent` needs
to know more: `FollowInv` says that either an event of the last change is pending that the
filter will not refuse (`Owed`), or whoever refreshes is going to see the last change, and if
nobody refreshes the directory has it or the failed refresh is remembered (`Synced`). A
handler of an event of the last change began its refresh after it, so its refresh is
undisturbed (`Caught`), and `RefreshInv` says what it leaves. What makes it inductive is
`ReaderCurrent`: a selection that refreshes beside all this has also resolved nothing but the current list.

Requests. `Inv` (`ServiceCallProofs`) adds `InsertIsNew` to type, presence and soundness:
whoever holds the mutex at the insertion finds no entry. Without it an insertion could replace
an open breaker and `BreakerSound` would not carry over, nor `BreakerCycle`. `Sound` of each
breaker operator is a lemma of its own (`RecordErrorSound` and others): a breaker opens only
from closed or half open, where no timer runs. `HonestInv` adds that a request has no outcome
before its response. `RightlySent` says that a request between the selection and the call
holds a node of the service it looked up and has passed the authentication; what is left are
two facts about the table of the 67 handlers, `HandlersOwnTheirNode` (each looks up the service
whose stub it calls; what matters there is that the two were read off each handler, the proof only compares them) and `ClaimsAreChecked` (of the routes without authenticator none sends
the claims, but for the one that checks them itself). `AllHaveBreakers` is what a warm process
keeps, in which no request inserts and which therefore does not die of a race: `CriticalHasPass` needs a
process that goes on, for its timers end with it.

Cache. The heart is not the steps but the keys. For hits, `KeyNamesResource` proves, template
by template, that two requests without a dot in their paths that have the same key, which is not
blank, ask for the same resource; the words of a search and the status of a filter may have dots, so that
their keys have any length, and what follows the text is compared from the end (`SearchKeyShape`,
`FilterKeyShape`, `SameText`). `KeyIsOfRead` proves that only reads have a key. The invariant then
says that every entry and message holds a successful response to an accepted request of its own
key (`AcceptedIsPlain`: of one without such a dot); what a change marks on the way (`MarkKeeps`,
`EntryMarked`, `MessageMarked`) does not touch that. For deletions, the
counterpart is `ChangeIsReached`: of whatever read shows what a change changes, unless its key is
neglected, one of the keys the change publishes becomes a pattern that matches the key, whatever the side key gives by then, the owner,
the type, or a "*" if it is missing. It rests on what a pattern matches (`Matches` is a recursive
function of its segments; its lemmas are by induction). `DueInv` says of each entry a change has made stale and that is not neglected that its
deletion is still to be published, is under way with a pattern that matches it, or has it
in its list of keys (`Pending`); its steps are publishing, GET, KEYS, each DEL, and whatever other
requests do in between. Dropping one key of one change makes the proof of `ChangeIsReached` fail.
`TypeInv` adds what is cached where: a side key never expires, a response always does.

Gate. Each part has an invariant of its own over its own steps, proved from its own
specification: `UsedIsKnown` (what was passed on is recorded; whoever was looked up before is
marked), `LimiterInv` and `RecentRuns` (between the look at the table and its assignment nobody
else limits the user; who was admitted lately has a running timer), and for the detector that
the counter equals the pending timers, from which no decrement goes below zero.
`GateImplementsParts` shows that a step of the gate is, in each part, a step or a stutter;
everything proved of a part then holds of the whole.

Pipeline and import. `PipelineInv` says for every place of the chain what the middleware before
it has left in the context (`Prepared`), that a response is there exactly when the chain has been left
(`Written`), and that a publisher of responses waits on the stack only if the chain is past it, so that
no responder, which would have to come before it, can end the chain (`Publishing`). `ImportInv` says
that the students held are exactly the complete rows of the sheets and rows the loop is done with,
each once, and that nothing faulty is among them (`Gathered`); at the call nothing is left
(`Passed` is what is taken of all sheets, `CompleteButPairs`), in whatever order the sheets came.

Induction. The library states induction for an operator, which the provers cannot take as an
argument. `DataInduction` derives it for a set from the library's `WFMin` (the least number that is not
in the set has a predecessor that is), and the lemmas about recursive functions over sequences
(`ListedSteps`, what a pattern matches) use it with the set of the numbers for which they hold.

The larger inductive invariants (`RefreshInv`, `RotationInv`, `Sound` and `FollowInv`, `DueInv`
and the cache's `Inv` and `TypeInv`, `RightlySent`, `PipelineInv`) hold on the instances of
`dir_cold`, `dir_warm`, `events`, `cache`, `call_cold` and `excel`, where TLC checked them; they stay
in the proof modules. `ImportInv` was checked on the workbooks with all attributes only: on the
others `Taken` looks for a column that is not there, which a proof may leave open and TLC cannot.

### Only model-checked

- Liveness: `CallsReturn`, `RequestsAnswered`, `CheckRecovers`, `EventuallyCurrent`,
  `EventsAreAnswered`, `StaleEntriesExpire`, `RequestsEnd`, `BlocksEnd`. Fairness expands to
  `ENABLED`, which the prover does not reach.
- The violations: `dir_crash`, `call_early_pass`, `call_restart` and `cache_stale` are counterexamples.

## 6. Plan

Done: the directory, its events, the request course, the response cache, the gate, the
pipeline and the Excel import, and the proofs of what their runs check, liveness aside. Left, in
order of importance:

1. `ServiceCall` over `ServiceDirectory` instead of over any answer of it, so that a critical
   check is seen to leave the node list and return to it; `RefreshIsCurrent` then says when.
2. Proofs that weaken an assumption: the directory's rotation from an empty start (which has to
   say what a crash does to a round), and `DeletionIsComplete` for services that accept more, with the entries
   it would leave added to `Neglected`.
3. The safety half of the liveness properties as theorems: for `CallsReturn`, that a thread that
   waits for the lock waits for one that is not waiting; for `BlocksEnd`, the timers of each
   block (`LimitedHasTimer` and `OneMinuteEach` are proved).
4. The profiler's goroutine: that an uploaded object is a whole profile, and that the process
   ends when told to.

## Not modelled

- Registration, consul KV and environment variables: one-shot calls that keep no state of the
  gateway; `ServiceNodeRegistry` and `jwt.GenerateToken` are written for the services.
- The SQS subscriber and `ChangeConsulNodes`: commented out at `main.go:120-133`.
- The profiler: a goroutine of its own that shares nothing with the requests.
- The rules of single fields (`entity/validator`): pure checks of one string, taken as valid
  or not. Entities, log entries and the mock agent have no behaviour.
