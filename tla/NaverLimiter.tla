----------------------------- MODULE NaverLimiter -----------------------------
(***************************************************************************)
(* GetPlaceWithNaverOpenAPI (handler/default_open_api.go): a user's call   *)
(* sets an entry of limitTableForNaver under h.mutex, and a timer of five  *)
(* seconds resets it, in a goroutine of its own and without the mutex.     *)
(* The Go runtime ends the process when it notices that the map is written *)
(* while it is accessed; the table is lost with it.                        *)
(***************************************************************************)
EXTENDS Goroutines

CONSTANT Users   \* UUIDs of the tokens

ASSUME UsersAssumption == None \notin Users

VARIABLES
  limiterPc,    \* [Threads -> where GetPlaceWithNaverOpenAPI is]
  user,         \* [Threads -> the user of the request, or None]
  limiterMutex, \* h.mutex: the thread that holds it, or None
  table,        \* limitTableForNaver: the users whose entry is TRUE
  timer,        \* [Users -> the timer started for the user's last call]
  recent        \* history: users admitted less than five seconds ago by this process

limiterVars == <<limiterPc, user, limiterMutex, table, timer, recent>>

LimiterGoto(t, label) == limiterPc' = [limiterPc EXCEPT ![t] = label]

\* A goroutine is at an access of the map, another one writes it.
LimiterRace ==
  \/ \E u \in Users, t \in Threads : timer[u] = "firing" /\ limiterPc[t] \in {"table", "write"}
  \/ \E u, v \in Users : u # v /\ timer[u] = "firing" /\ timer[v] = "firing"

-----------------------------------------------------------------------------
\* A request whose token the authenticator has accepted.
NaverArrive(t) ==
  /\ limiterPc[t] = "idle"
  /\ \E u \in Users : user' = [user EXCEPT ![t] = u]
  /\ LimiterGoto(t, "lock")
  /\ UNCHANGED <<limiterMutex, table, timer, recent>>

\* Mutant: h.mutex is not locked.
LockNothing(t) ==
  /\ limiterPc[t] = "lock"
  /\ LimiterGoto(t, "table")
  /\ UNCHANGED <<user, limiterMutex, table, timer, recent>>

LockTable(t) ==
  /\ limiterPc[t] = "lock"
  /\ limiterMutex = None
  /\ limiterMutex' = t
  /\ LimiterGoto(t, "table")
  /\ UNCHANGED <<user, table, timer, recent>>

Limited(t) ==
  /\ limiterPc[t] = "table"
  /\ user[t] \in table
  /\ LimiterGoto(t, "limited")
  /\ UNCHANGED <<user, limiterMutex, table, timer, recent>>

Unlimited(t) ==
  /\ limiterPc[t] = "table"
  /\ user[t] \notin table
  /\ LimiterGoto(t, "write")
  /\ UNCHANGED <<user, limiterMutex, table, timer, recent>>

Admitted(t) ==
  /\ limiterPc[t] = "write"
  /\ table' = table \cup {user[t]}
  /\ LimiterGoto(t, "admitted")
  /\ UNCHANGED <<user, limiterMutex, timer, recent>>

\* Mutant: every call starts a timer, a limited one too.
StartTimerAlways(t) ==
  /\ limiterPc[t] \in {"admitted", "limited"}
  /\ timer' = [timer EXCEPT ![user[t]] = "running"]
  /\ recent' = recent \cup {user[t]}
  /\ limiterMutex' = None
  /\ LimiterGoto(t, "naver")
  /\ UNCHANGED <<user, table>>

\* time.AfterFunc, and the mutex is released.
StartTimer(t) ==
  /\ limiterPc[t] = "admitted"
  /\ timer' = [timer EXCEPT ![user[t]] = "running"]
  /\ recent' = recent \cup {user[t]}
  /\ limiterMutex' = None
  /\ LimiterGoto(t, "naver")
  /\ UNCHANGED <<user, table>>

\* Mutant: a limited call waits for its turn instead of being refused.
RefuseLater(t) ==
  /\ limiterPc[t] = "limited"
  /\ limiterMutex' = None
  /\ LimiterGoto(t, "lock")
  /\ UNCHANGED <<user, table, timer, recent>>

\* 423, after the mutex is released.
Refuse(t) ==
  /\ limiterPc[t] = "limited"
  /\ limiterMutex' = None
  /\ user' = [user EXCEPT ![t] = None]
  /\ LimiterGoto(t, "idle")
  /\ UNCHANGED <<table, timer, recent>>

\* Naver answers, or the request or the decoding fails: each is answered.  The
\* http.Client has no Timeout and the request no deadline (handler/default.go:74,
\* default_open_api.go:66): nothing makes this step happen.
Answer(t) ==
  /\ limiterPc[t] = "naver"
  /\ user' = [user EXCEPT ![t] = None]
  /\ LimiterGoto(t, "idle")
  /\ UNCHANGED <<limiterMutex, table, timer, recent>>

-----------------------------------------------------------------------------
\* Five seconds are over; the goroutine of the timer is at its assignment.
TimerFires(u) ==
  /\ timer[u] = "running"
  /\ timer' = [timer EXCEPT ![u] = "firing"]
  /\ recent' = recent \ {u}
  /\ UNCHANGED <<limiterPc, user, limiterMutex, table>>

\* Mutant: the entry is left as it is.
ResetNothing(u) ==
  /\ timer[u] = "firing"
  /\ timer' = [timer EXCEPT ![u] = "none"]
  /\ UNCHANGED <<limiterPc, user, limiterMutex, table, recent>>

ResetEntry(u) ==
  /\ timer[u] = "firing"
  /\ table' = table \ {u}
  /\ timer' = [timer EXCEPT ![u] = "none"]
  /\ UNCHANGED <<limiterPc, user, limiterMutex, recent>>

\* The process ends, for this race or another reason.
LimiterDies ==
  /\ limiterPc' = AllIdle
  /\ user' = Unassigned
  /\ limiterMutex' = None /\ table' = {}
  /\ timer' = [u \in Users |-> "none"]
  /\ recent' = {}

-----------------------------------------------------------------------------
LimiterInit ==
  /\ limiterPc = AllIdle
  /\ user = Unassigned
  /\ limiterMutex = None /\ table = {}
  /\ timer = [u \in Users |-> "none"]
  /\ recent = {}

\* The steps the goroutine takes by itself, up to the call of Naver.
Call(t) ==
  \/ LockTable(t) \/ Limited(t) \/ Unlimited(t) \/ Admitted(t)
  \/ StartTimer(t) \/ Refuse(t)

LimiterNext ==
  \/ \E t \in Threads : NaverArrive(t) \/ Call(t) \/ Answer(t)
  \/ \E u \in Users : TimerFires(u) \/ ResetEntry(u)
  \/ LimiterDies

LimiterSpec == LimiterInit /\ [][LimiterNext]_limiterVars
-----------------------------------------------------------------------------
(* Properties.                                                              *)

\* Every variable has its type, and the mutex is held exactly in its section.
LimiterTypeOK ==
  /\ limiterPc \in [Threads -> {"idle", "lock", "table", "limited", "write", "admitted", "naver"}]
  /\ user \in [Threads -> Users \cup {None}]
  /\ \A t \in Threads : user[t] = None <=> limiterPc[t] = "idle"
  /\ \A t \in Threads : limiterMutex = t <=> limiterPc[t] \in {"table", "limited", "write", "admitted"}
  /\ table \subseteq Users
  /\ timer \in [Users -> {"none", "running", "firing"}]
  /\ recent \subseteq Users

\* A user is limited exactly while a timer that will end it is pending, or is
\* about to be started by the call that limited the user.  Were a timer started
\* twice, the first would let the user in early; were it lost, never.
LimitedHasTimer ==
  \A u \in Users :
    u \in table <=> \/ timer[u] # "none"
                    \/ \E t \in Threads : user[t] = u /\ limiterPc[t] = "admitted"

\* default_open_api.go:50: "you can use the API only once every 5 seconds", which
\* the table ensures as long as the process lives.
OnceEvery5Seconds ==
  [][\A t \in Threads : Admitted(t) => user[t] \notin recent]_limiterVars

\* A limited user is admitted again, at the latest by the next process.
LimitEnds == \A u \in Users : u \in table ~> u \notin table
===============================================================================
