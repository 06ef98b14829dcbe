----------------------- MODULE ServiceCallSafetyProofs -----------------------
(***************************************************************************)
(* What follows for ServiceCall from the invariant of ServiceCallProofs:   *)
(* how breakers change, what a response says, whom a call reaches and for  *)
(* whom it is made and, once every node has a breaker, that the map is not *)
(* raced for and no check stays critical without a timer.                  *)
(***************************************************************************)
EXTENDS ServiceCallProofs

-----------------------------------------------------------------------------
(* The cycle of a breaker.                                                  *)

\* The pairs of states a step may take a breaker through.
Cycle ==
  {<<s, s>> : s \in BreakerStates} \cup
  {<<"closed", "open">>, <<"open", "halfOpen">>,
   <<"halfOpen", "open">>, <<"halfOpen", "closed">>}

\* A step that changes one breaker along the cycle is a step of the cycle.
LEMMA OneBreakerCycles ==
  ASSUME Inv, NEW m \in DOMAIN breakers, NEW c,
         breakers' = [breakers EXCEPT ![m] = c],
         <<breakers[m].state, c.state>> \in Cycle
  PROVE  CycleStep
<1> SUFFICES ASSUME NEW n \in DOMAIN breakers
             PROVE  n \in DOMAIN breakers' /\ <<breakers[n].state, breakers'[n].state>> \in Cycle
  BY DEF CycleStep, Cycle
<1>1. breakers[n].state \in BreakerStates
  BY DEF Inv, TypeOK, Breakers
<1>2. CASE n = m
  BY <1>2
<1>3. CASE n # m
  BY <1>1, <1>3 DEF Cycle
<1>4. QED
  BY <1>2, <1>3

\* A step that leaves the breakers that are there alone is a step of the cycle.
LEMMA KeptBreakersCycle ==
  ASSUME Inv, \A n \in DOMAIN breakers : n \in DOMAIN breakers' /\ breakers'[n] = breakers[n]
  PROVE  CycleStep
BY DEF CycleStep, Inv, TypeOK, Breakers

\* Every step of the system is a step of the cycle.
LEMMA NextCycles == Inv /\ [Next]_vars => [CycleStep]_vars
<1> SUFFICES ASSUME Inv, Next PROVE CycleStep
  OBVIOUS
<1> USE DEF request, shared
<1>0. TypeOK /\ BreakerReady /\ BreakerSound /\ InsertIsNew
  BY DEF Inv
<1>1. ASSUME NEW r \in Requests,
             \/ Arrive(r) \/ Unauthorized(r) \/ Refuse(r) \/ SelectFails(r) \/ SelectNode(r)
             \/ Acquire(r) \/ RunRejected(r) \/ RunAdmitted(r)
             \/ UnguardedCallFails(r) \/ FailTTL(r) \/ Schedule(r)
      PROVE  CycleStep
  <2>1. breakers' = breakers
    BY <1>1 DEF Arrive, Unauthorized, Refuse, SelectFails, SelectNode, Acquire, RunRejected,
                RunAdmitted, UnguardedCallFails, FailTTL, Schedule
  <2>2. QED
    BY <2>1, KeptBreakersCycle
<1>2. ASSUME NEW r \in Requests, Insert(r) PROVE CycleStep
  <2>1. node[r] \notin DOMAIN breakers
    BY <1>0, <1>2 DEF Insert, InsertIsNew, HasBreaker
  <2>2. \A n \in DOMAIN breakers : n \in DOMAIN breakers' /\ breakers'[n] = breakers[n]
    BY <1>2, <2>1 DEF Insert
  <2>3. QED
    BY <2>2, KeptBreakersCycle
<1>3. ASSUME NEW r \in Requests, CallReplies(r) PROVE CycleStep
  <2>1. CASE P(r).guarded
    <3> DEFINE b == breakers[node[r]]
               c == RecordSuccess(b, admitted[r])
    <3>1. node[r] \in DOMAIN breakers
      BY <1>0, <1>3, <2>1 DEF CallReplies, BreakerReady, HasBreaker
    <3>2. b \in Breakers /\ Sound(b)
      BY <1>0, <3>1 DEF TypeOK, BreakerSound
    <3>3. c.state = b.state \/ (b.state = "halfOpen" /\ c.state = "closed")
      BY <3>2, RecordSuccessSound
    <3>4. breakers' = [breakers EXCEPT ![node[r]] = c]
      BY <1>3, <2>1 DEF CallReplies
    <3>5. <<b.state, c.state>> \in Cycle
      BY <3>2, <3>3 DEF Cycle, Breakers
    <3> HIDE DEF c
    <3>6. QED
      BY <3>1, <3>4, <3>5, OneBreakerCycles
  <2>2. CASE ~ P(r).guarded
    BY <1>3, <2>2, KeptBreakersCycle DEF CallReplies
  <2>3. QED
    BY <2>1, <2>2
<1>4. ASSUME NEW r \in Requests, GuardedCallFails(r) PROVE CycleStep
  <2>1. PICK expired \in BOOLEAN :
          breakers' = [breakers EXCEPT ![node[r]] = RecordError(breakers[node[r]], expired)]
    BY <1>4 DEF GuardedCallFails
  <2> DEFINE b == breakers[node[r]]
             c == RecordError(b, expired)
  <2>2. node[r] \in DOMAIN breakers
    BY <1>0, <1>4 DEF GuardedCallFails, BreakerReady, HasBreaker
  <2>3. b \in Breakers /\ Sound(b)
    BY <1>0, <2>2 DEF TypeOK, BreakerSound
  <2>4. c.state = b.state \/ (b.state # "open" /\ c.state = "open")
    BY <2>3, RecordErrorSound
  <2>5. <<b.state, c.state>> \in Cycle
    BY <2>3, <2>4 DEF Cycle, Breakers, BreakerStates
  <2>6. breakers' = [breakers EXCEPT ![node[r]] = c]
    BY <2>1
  <2> HIDE DEF c
  <2>7. QED
    BY <2>2, <2>5, <2>6, OneBreakerCycles
<1>5. ASSUME NEW n \in Nodes, PassTTL(n) PROVE CycleStep
  BY <1>5, KeptBreakersCycle DEF PassTTL
<1>6. ASSUME NEW n \in Nodes, BreakerTimer(n) PROVE CycleStep
  <2> DEFINE c == TimerFires(breakers[n])
  <2>1. n \in DOMAIN breakers /\ breakers[n] \in Breakers /\ Sound(breakers[n])
    BY <1>0, <1>6 DEF BreakerTimer, HasBreaker, TypeOK, BreakerSound
  <2>2. breakers[n].state = "open" /\ c.state = "halfOpen"
    BY <1>6, <2>1, TimerFiresSound DEF BreakerTimer
  <2>3. breakers' = [breakers EXCEPT ![n] = c]
    BY <1>6 DEF BreakerTimer
  <2> HIDE DEF c
  <2>4. QED
    BY <2>1, <2>2, <2>3, OneBreakerCycles DEF Cycle
<1>7. ASSUME Restart PROVE CycleStep
  BY <1>7 DEF CycleStep
<1>8. QED
  BY <1>1, <1>2, <1>3, <1>4, <1>5, <1>6, <1>7 DEF Next, Step

\* Unless the process restarts, a breaker is never dropped or replaced, and its
\* state moves only along closed, open, halfOpen and back.
THEOREM BreakersCycle == Spec => BreakerCycle
BY InvHolds, NextCycles, PTL DEF Spec, BreakerCycle

-----------------------------------------------------------------------------
(* Responses.                                                               *)

\* A request has no outcome until its call to the service ends.
NoOutcomeYet == \A r \in Requests : pc[r] # "done" => outcome[r] = None

HonestInv == Inv /\ NoOutcomeYet /\ AnswerIsHonest

\* A step of one request keeps responses honest if that request has no outcome
\* yet or an honest response.
LEMMA OneAnswersHonestly ==
  ASSUME HonestInv, NEW r \in Requests,
         \A q \in Requests \ {r} :
           /\ pc'[q] = pc[q] /\ api'[q] = api[q]
           /\ outcome'[q] = outcome[q] /\ answer'[q] = answer[q],
         IF pc'[r] = "done" THEN Honest(P(r)', outcome'[r], answer'[r])
                            ELSE outcome'[r] = None
  PROVE  (NoOutcomeYet /\ AnswerIsHonest)'
<1>1. \A q \in Requests \ {r} : P(q)' = P(q)
  BY DEF P
<1>2. NoOutcomeYet'
  BY DEF HonestInv, NoOutcomeYet
<1>3. ASSUME NEW q \in Requests, pc'[q] = "done"
      PROVE  Honest(P(q)', outcome'[q], answer'[q])
  BY <1>1, <1>3 DEF HonestInv, AnswerIsHonest
<1>4. QED
  BY <1>2, <1>3 DEF AnswerIsHonest

\* Every step keeps responses honest.
LEMMA HonestStep == HonestInv /\ [Next]_vars => HonestInv'
<1> SUFFICES ASSUME HonestInv, [Next]_vars
             PROVE  (NoOutcomeYet /\ AnswerIsHonest)'
  BY InvStep DEF HonestInv
<1> USE DEF request, shared
<1>0. TypeOK /\ NoOutcomeYet
  BY DEF HonestInv, Inv
<1>1. ASSUME NEW r \in Requests,
             \/ SelectNode(r) \/ Acquire(r) \/ Insert(r)
             \/ RunRejected(r) \/ RunAdmitted(r) \/ FailTTL(r)
      PROVE  (NoOutcomeYet /\ AnswerIsHonest)'
  <2>1. /\ UNCHANGED <<api, outcome, answer>> /\ pc[r] # "done"
        /\ pc' \in {[pc EXCEPT ![r] = l] : l \in Labels \ {"done"}}
    BY <1>1 DEF SelectNode, Acquire, Insert, RunRejected, RunAdmitted, FailTTL, Goto, Labels
  <2>2. QED
    BY <1>0, <2>1, OneAnswersHonestly DEF TypeOK, NoOutcomeYet
<1>2. ASSUME NEW r \in Requests, Arrive(r) PROVE (NoOutcomeYet /\ AnswerIsHonest)'
  <2>1. pc'[r] = "start" /\ outcome'[r] = None
    BY <1>0, <1>2 DEF Arrive, Goto, TypeOK
  <2>2. \A q \in Requests \ {r} : /\ pc'[q] = pc[q] /\ api'[q] = api[q]
                                 /\ outcome'[q] = outcome[q] /\ answer'[q] = answer[q]
    BY <1>0, <1>2 DEF Arrive, Goto, TypeOK
  <2>3. QED
    BY <2>1, <2>2, OneAnswersHonestly
<1>3. ASSUME NEW r \in Requests,
             \/ Unauthorized(r) \/ Refuse(r) \/ SelectFails(r) \/ Schedule(r)
      PROVE  (NoOutcomeYet /\ AnswerIsHonest)'
  <2>0. \E status : \/ Respond(r, status, "gateway")
                    \/ Respond(r, status, "AvailableServiceNotExist")
                    \/ Respond(r, status, "CircuitBreakerOpen")
    <3>1. CASE Unauthorized(r)
      BY <3>1 DEF Unauthorized
    <3>2. CASE Refuse(r)
      BY <3>2 DEF Refuse
    <3>3. CASE SelectFails(r)
      BY <3>3 DEF SelectFails
    <3>4. CASE Schedule(r)
      BY <3>4 DEF Schedule
    <3>5. QED
      BY <1>3, <3>1, <3>2, <3>3, <3>4
  <2>1. PICK status, code :
          /\ code \in {"gateway", "AvailableServiceNotExist", "CircuitBreakerOpen"}
          /\ Respond(r, status, code)
    BY <2>0
  <2>2. UNCHANGED <<api, outcome>> /\ outcome[r] = None
    BY <1>0, <1>3 DEF Unauthorized, Refuse, SelectFails, Schedule, NoOutcomeYet
  <2>3. Honest(P(r)', outcome'[r], answer'[r])
    BY <1>0, <2>1, <2>2 DEF Respond, Honest, TypeOK
  <2>4. QED
    BY <1>0, <2>1, <2>2, <2>3, OneAnswersHonestly DEF Respond, Goto, TypeOK
<1>4. ASSUME NEW r \in Requests, CallReplies(r) PROVE (NoOutcomeYet /\ AnswerIsHonest)'
  <2>1. PICK o \in Replies(P(r)) :
          outcome' = [outcome EXCEPT ![r] = o] /\ Respond(r, o.status, "service")
    BY <1>4 DEF CallReplies
  <2>2. o # None /\ o.kind = "reply"
    BY <1>0, <1>4, OutcomeAssumption DEF CallReplies, TypeOK, Replies, Reply, P
  <2>3. api' = api
    BY <1>4 DEF CallReplies
  <2>4. Honest(P(r)', outcome'[r], answer'[r])
    BY <1>0, <2>1, <2>2 DEF Respond, Honest, TypeOK
  <2>5. QED
    BY <1>0, <2>1, <2>3, <2>4, OneAnswersHonestly DEF Respond, Goto, TypeOK
<1>5. ASSUME NEW r \in Requests, GuardedCallFails(r) PROVE (NoOutcomeYet /\ AnswerIsHonest)'
  <2>1. PICK o \in {Timeout, OtherError} :
          outcome' = [outcome EXCEPT ![r] = o] /\ Respond(r, o.status, "gateway")
    BY <1>5 DEF GuardedCallFails
  <2>2. o # None /\ o.kind = "error"
    BY OutcomeAssumption DEF Timeout, OtherError
  <2>3. api' = api
    BY <1>5 DEF GuardedCallFails
  <2>4. Honest(P(r)', outcome'[r], answer'[r])
    BY <1>0, <2>1, <2>2 DEF Respond, Honest, TypeOK
  <2>5. QED
    BY <1>0, <2>1, <2>3, <2>4, OneAnswersHonestly DEF Respond, Goto, TypeOK
<1>6. ASSUME NEW r \in Requests, UnguardedCallFails(r) PROVE (NoOutcomeYet /\ AnswerIsHonest)'
  <2>1. PICK o \in {Timeout, OtherError} : outcome' = [outcome EXCEPT ![r] = o]
    BY <1>6 DEF UnguardedCallFails
  <2>2. o # None /\ o.kind = "error"
    BY OutcomeAssumption DEF Timeout, OtherError
  <2>3. api' = api /\ Respond(r, 500, "panic") /\ ~ P(r).guarded
    BY <1>6 DEF UnguardedCallFails
  <2>4. Honest(P(r)', outcome'[r], answer'[r])
    BY <1>0, <2>1, <2>2, <2>3 DEF Respond, Honest, TypeOK, P
  <2>5. QED
    BY <1>0, <2>1, <2>3, <2>4, OneAnswersHonestly DEF Respond, Goto, TypeOK
<1>7. ASSUME \/ \E n \in Nodes : PassTTL(n) \/ BreakerTimer(n)
             \/ UNCHANGED vars
      PROVE  (NoOutcomeYet /\ AnswerIsHonest)'
  <2>1. UNCHANGED <<pc, api, outcome, answer>>
    BY <1>7 DEF PassTTL, BreakerTimer, vars
  <2>2. QED
    BY <2>1 DEF HonestInv, NoOutcomeYet, AnswerIsHonest, P
<1>8. ASSUME Restart PROVE (NoOutcomeYet /\ AnswerIsHonest)'
  BY <1>8 DEF Restart, NoOutcomeYet, AnswerIsHonest
<1>9. QED
  BY <1>1, <1>2, <1>3, <1>4, <1>5, <1>6, <1>7, <1>8 DEF Next, Step

\* A response carries the service's status exactly when the service replied, a
\* timed-out guarded call is a 408, and nothing was sent where the response says so.
THEOREM AnswersHonest == Spec => []AnswerIsHonest
<1>1. Init => HonestInv
  BY FreshInv DEF Init, InitRequests, HonestInv, NoOutcomeYet, AnswerIsHonest
<1>2. HonestInv => AnswerIsHonest
  BY DEF HonestInv
<1>3. QED
  BY <1>1, <1>2, HonestStep, PTL DEF Spec

-----------------------------------------------------------------------------
(* Whom a call reaches and for whom it is made.                             *)

\* The node is looked up under the name of the service whose client makes the call.
OwnNode(p) == p.topic = ServiceOfStub[p.stub]

\* The profiles, by service.
AuthProfiles ==
  {CreateNewStudent, CreateNewParent, LoginAdminAuth, SendJoinSMSToUnsignedStudents,
   LoginStudentAuth, ChangeStudentPW, GetStudentInformWithUUID,
   GetStudentUUIDsWithInform, GetStudentInformsWithUUIDs, GetParentWithStudentUUID,
   GetUnsignedStudentWithAuthCode, CreateNewStudentWithAuthCode, CreateNewTeacher,
   LoginTeacherAuth, LoginTeacherAuthWithPICK, ChangeTeacherPW,
   GetTeacherInformWithUUID, GetTeacherUUIDsWithInform, ChangeTeacherInform,
   LoginParentAuth, ChangeParentPW, GetParentInformWithUUID, GetParentUUIDsWithInform,
   GetChildrenInformsWithUUID, AddUnsignedStudentsFromExcel}
ClubProfiles ==
  {CreateNewClub, GetClubsSortByUpdateTime, GetRecruitmentsSortByCreateTime,
   GetClubInformWithUUID, GetClubInformsWithUUIDs, GetRecruitmentInformWithUUID,
   GetRecruitmentUUIDWithClubUUID, GetRecruitmentUUIDsWithClubUUIDs, GetAllClubFields,
   GetTotalCountOfClubs, GetTotalCountOfCurrentRecruitments,
   GetClubUUIDWithLeaderUUID, AddClubMember, DeleteClubMember, ChangeClubLeader,
   ModifyClubInform, DeleteClubWithUUID, RegisterRecruitment, ModifyRecruitment,
   DeleteRecruitment}
OutingProfiles ==
  {CreateOuting, GetStudentOutings, GetOutingInform, GetCardAboutOuting,
   TakeActionInOuting, TakeActionInOutingByOCode, GetOutingWithFilter,
   GetOutingByOCode, ModifyOuting}
ScheduleProfiles ==
  {CreateSchedule, GetSchedule, GetTimeTable, UpdateSchedule, DeleteSchedule}
AnnouncementProfiles ==
  {CreateAnnouncement, GetAnnouncements, GetAnnouncementDetail, UpdateAnnouncement,
   DeleteAnnouncement, CheckAnnouncement, SearchAnnouncements, GetMyAnnouncements}

\* Each kind of profile keeps the two names it is given.
LEMMA KindsOwnTheirNode ==
  ASSUME NEW topic, NEW stub, NEW status, topic = ServiceOfStub[stub]
  PROVE  /\ OwnNode(ForUser(topic, stub, status))
         /\ OwnNode(Anonymous(topic, stub, status))
         /\ OwnNode(Unguarded(topic, stub, status))
BY DEF ForUser, Anonymous, Unguarded, OwnNode

\* The service of each client.
LEMMA Wiring ==
  /\ ServiceOfStub["authService"] = "auth" /\ ServiceOfStub["clubService"] = "club"
  /\ ServiceOfStub["outingService"] = "outing"
  /\ ServiceOfStub["scheduleService"] = "schedule"
  /\ ServiceOfStub["announcementService"] = "announcement"
BY DEF ServiceOfStub

\* So do the two handlers that may also refuse a request.
LEMMA RefusersOwnTheirNode == OwnNode(TakeActionInOuting) /\ OwnNode(AddUnsignedStudentsFromExcel)
<1>1. OwnNode(TakeActionInOuting)
  BY Wiring DEF TakeActionInOuting, ForUser, OwnNode
<1>2. /\ OwnNode(Unguarded("auth", "authService", 201))
      /\ {"topic", "stub"} \subseteq DOMAIN Unguarded("auth", "authService", 201)
  BY Wiring DEF ForUser, Unguarded, OwnNode
<1>3. QED
  BY <1>1, <1>2 DEF AddUnsignedStudentsFromExcel, OwnNode

\* No handler selects a node of one service and calls another.
LEMMA HandlersOwnTheirNode == \A a \in DOMAIN Profile : OwnNode(Profile[a])
<1>1. \A p \in AuthProfiles : OwnNode(p)
  BY KindsOwnTheirNode, Wiring, RefusersOwnTheirNode DEF AuthProfiles,
    CreateNewStudent, CreateNewParent, LoginAdminAuth, SendJoinSMSToUnsignedStudents,
    LoginStudentAuth, ChangeStudentPW, GetStudentInformWithUUID,
    GetStudentUUIDsWithInform, GetStudentInformsWithUUIDs, GetParentWithStudentUUID,
    GetUnsignedStudentWithAuthCode, CreateNewStudentWithAuthCode, CreateNewTeacher,
    LoginTeacherAuth, LoginTeacherAuthWithPICK, ChangeTeacherPW,
    GetTeacherInformWithUUID, GetTeacherUUIDsWithInform, ChangeTeacherInform,
    LoginParentAuth, ChangeParentPW, GetParentInformWithUUID,
    GetParentUUIDsWithInform, GetChildrenInformsWithUUID
<1>2. \A p \in ClubProfiles : OwnNode(p)
  BY KindsOwnTheirNode, Wiring DEF ClubProfiles,
    CreateNewClub, GetClubsSortByUpdateTime, GetRecruitmentsSortByCreateTime,
    GetClubInformWithUUID, GetClubInformsWithUUIDs, GetRecruitmentInformWithUUID,
    GetRecruitmentUUIDWithClubUUID, GetRecruitmentUUIDsWithClubUUIDs,
    GetAllClubFields, GetTotalCountOfClubs, GetTotalCountOfCurrentRecruitments,
    GetClubUUIDWithLeaderUUID, AddClubMember, DeleteClubMember, ChangeClubLeader,
    ModifyClubInform, DeleteClubWithUUID, RegisterRecruitment, ModifyRecruitment,
    DeleteRecruitment
<1>3. \A p \in OutingProfiles : OwnNode(p)
  BY KindsOwnTheirNode, Wiring, RefusersOwnTheirNode DEF OutingProfiles,
    CreateOuting, GetStudentOutings, GetOutingInform, GetCardAboutOuting,
    TakeActionInOutingByOCode, GetOutingWithFilter,
    GetOutingByOCode, ModifyOuting
<1>4. \A p \in ScheduleProfiles : OwnNode(p)
  BY KindsOwnTheirNode, Wiring DEF ScheduleProfiles,
    CreateSchedule, GetSchedule, GetTimeTable, UpdateSchedule, DeleteSchedule
<1>5. \A p \in AnnouncementProfiles : OwnNode(p)
  BY KindsOwnTheirNode, Wiring DEF AnnouncementProfiles,
    CreateAnnouncement, GetAnnouncements, GetAnnouncementDetail, UpdateAnnouncement,
    DeleteAnnouncement, CheckAnnouncement, SearchAnnouncements, GetMyAnnouncements
<1>6. \A a \in DOMAIN Profile :
        Profile[a] \in AuthProfiles \cup ClubProfiles \cup OutingProfiles
                         \cup ScheduleProfiles \cup AnnouncementProfiles
  BY DEF Profile, AuthProfiles, ClubProfiles, OutingProfiles, ScheduleProfiles, AnnouncementProfiles
<1>7. QED
  BY <1>1, <1>2, <1>3, <1>4, <1>5, <1>6

\* Whoever names the user of the token has checked the token: of the handlers
\* without the Authenticator, none but TakeActionInOuting sends a UUID of claims.
LEMMA ClaimsAreChecked == \A a : Profile[a].claims => ChecksToken(a)
<1>1. \A a \in OpenRoutes \ {"TakeActionInOuting"} : ~ Profile[a].claims
  BY DEF OpenRoutes, Profile, Anonymous, ForUser, LoginAdminAuth, LoginStudentAuth,
         GetUnsignedStudentWithAuthCode, CreateNewStudentWithAuthCode, CreateNewTeacher,
         LoginTeacherAuth, LoginTeacherAuthWithPICK, LoginParentAuth, GetOutingByOCode,
         TakeActionInOutingByOCode
<1>2. QED
  BY <1>1 DEF ChecksToken

\* Between the selection of the node and the call, a request that passed the
\* authentication holds a node of the service its API selects.
Sent == {"acquire", "insert", "run", "call"}

RightlySent ==
  \A r \in Requests : pc[r] \in Sent => ServiceOf[node[r]] = P(r).topic /\ Authenticated(r)

\* Every step keeps it: only a fresh request changes its API or its token, and
\* only the selection its node.
LEMMA RightlySentStep == Inv /\ RightlySent /\ [Next]_vars => RightlySent'
<1> SUFFICES ASSUME Inv, RightlySent, [Next]_vars PROVE RightlySent'
  OBVIOUS
<1> USE DEF request, shared
<1>0. TypeOK
  BY DEF Inv
<1>1. ASSUME NEW r \in Requests,
             \A q \in Requests \ {r} :
               pc'[q] = pc[q] /\ api'[q] = api[q] /\ token'[q] = token[q] /\ node'[q] = node[q],
             pc'[r] \in Sent => (ServiceOf[node[r]] = P(r).topic /\ Authenticated(r))'
      PROVE  RightlySent'
  BY <1>1 DEF RightlySent, P, Authenticated
<1>2. ASSUME NEW r \in Requests, SelectNode(r) PROVE RightlySent'
  <2>1. UNCHANGED <<api, token>> /\ Authenticated(r)
    BY <1>2 DEF SelectNode
  <2>2. (ServiceOf[node[r]] = P(r).topic /\ Authenticated(r))'
    BY <1>0, <1>2, <2>1 DEF SelectNode, TypeOK, P, Authenticated
  <2>3. \A q \in Requests \ {r} : pc'[q] = pc[q] /\ node'[q] = node[q]
    BY <1>0, <1>2 DEF SelectNode, Goto, TypeOK
  <2>4. QED
    BY <1>1, <2>1, <2>2, <2>3
<1>3. ASSUME NEW r \in Requests, Acquire(r) \/ Insert(r) \/ RunAdmitted(r) PROVE RightlySent'
  <2>1. pc[r] \in Sent /\ UNCHANGED <<api, token, node>>
    BY <1>3 DEF Acquire, Insert, RunAdmitted, Sent
  <2>2. \A q \in Requests \ {r} : pc'[q] = pc[q]
    BY <1>0, <1>3 DEF Acquire, Insert, RunAdmitted, Goto, TypeOK
  <2>3. (ServiceOf[node[r]] = P(r).topic /\ Authenticated(r))'
    BY <2>1 DEF RightlySent, P, Authenticated
  <2>4. QED
    BY <1>1, <2>1, <2>2, <2>3
<1>4. ASSUME NEW r \in Requests, Arrive(r) PROVE RightlySent'
  <2>1. pc'[r] = "start"
    BY <1>0, <1>4 DEF Arrive, Goto, TypeOK
  <2>2. \A q \in Requests \ {r} :
          pc'[q] = pc[q] /\ api'[q] = api[q] /\ token'[q] = token[q] /\ node'[q] = node[q]
    BY <1>0, <1>4 DEF Arrive, Goto, TypeOK
  <2>3. QED
    BY <1>1, <2>1, <2>2 DEF Sent
<1>5. ASSUME NEW r \in Requests,
             \/ Unauthorized(r) \/ Refuse(r) \/ SelectFails(r) \/ RunRejected(r) \/ CallReplies(r)
             \/ GuardedCallFails(r) \/ UnguardedCallFails(r) \/ FailTTL(r) \/ Schedule(r)
      PROVE  RightlySent'
  <2>1. \E l \in {"fail", "schedule", "done"} : pc' = [pc EXCEPT ![r] = l]
    BY <1>5 DEF Unauthorized, Refuse, SelectFails, RunRejected, CallReplies, GuardedCallFails,
                UnguardedCallFails, FailTTL, Schedule, Respond, Goto
  <2>2. UNCHANGED <<api, token, node>>
    BY <1>5 DEF Unauthorized, Refuse, SelectFails, RunRejected, CallReplies, GuardedCallFails,
                UnguardedCallFails, FailTTL, Schedule
  <2>3. pc'[r] \notin Sent /\ \A q \in Requests \ {r} : pc'[q] = pc[q]
    BY <1>0, <2>1 DEF TypeOK, Sent
  <2>4. QED
    BY <1>1, <2>2, <2>3
<1>6. ASSUME (\E n \in Nodes : PassTTL(n) \/ BreakerTimer(n)) \/ UNCHANGED vars
      PROVE  RightlySent'
  BY <1>6 DEF PassTTL, BreakerTimer, vars, RightlySent, P, Authenticated
<1>7. ASSUME Restart PROVE RightlySent'
  BY <1>7 DEF Restart, RightlySent, Sent
<1>8. QED
  BY <1>2, <1>3, <1>4, <1>5, <1>6, <1>7 DEF Next, Step

\* Nothing is sent at first, and then only as it should be.
LEMMA AlwaysRightlySent == Spec => [](Inv /\ RightlySent)
<1>1. Init => Inv /\ RightlySent
  BY FreshInv DEF Init, InitRequests, RightlySent, Sent
<1>2. QED
  BY <1>1, InvStep, RightlySentStep, PTL DEF Spec

\* A call goes to a node of the service whose client makes it, however requests
\* for different APIs share nodes, breakers and the map of breakers.
THEOREM CallsReachTheirService == Spec => []CallReachesItsService
<1>1. Inv /\ RightlySent => CallReachesItsService
  <2> SUFFICES ASSUME Inv, RightlySent, NEW r \in Requests, pc[r] = "call"
               PROVE  ServiceOf[node[r]] = ServiceOfStub[P(r).stub]
    BY DEF CallReachesItsService
  <2>1. api[r] \in DOMAIN Profile
    BY CallAssumption DEF Inv, TypeOK
  <2>2. P(r).topic = ServiceOfStub[P(r).stub]
    BY <2>1, HandlersOwnTheirNode DEF P, OwnNode
  <2>3. QED
    BY <2>2 DEF RightlySent, Sent
<1>2. QED
  BY <1>1, AlwaysRightlySent, PTL

\* A call that names the user of the token is made with a valid token only.
THEOREM CallsNameTheirUser == Spec => []CallNamesItsUser
<1>1. Inv /\ RightlySent => CallNamesItsUser
  BY ClaimsAreChecked DEF RightlySent, Sent, CallNamesItsUser, P, Authenticated
<1>2. QED
  BY <1>1, AlwaysRightlySent, PTL

-----------------------------------------------------------------------------
(* Once every node has a breaker.                                           *)

\* Nothing is left to insert into the map.
AllHaveBreakers ==
  (\A n \in Nodes : HasBreaker(n)) /\ \A r \in Requests : pc[r] # "insert"

WarmInv == Inv /\ AllHaveBreakers

\* Without a restart, nothing is ever left to insert.
LEMMA WarmStep ==
  ASSUME "restart" \notin Faults
  PROVE  WarmInv /\ [Next]_vars => WarmInv' /\ ~ Restart
<1> SUFFICES ASSUME WarmInv, [Next]_vars PROVE AllHaveBreakers' /\ ~ Restart
  BY InvStep DEF WarmInv
<1> USE DEF request, shared
<1>0. TypeOK /\ AllHaveBreakers
  BY DEF WarmInv, Inv
<1>1. ~ Restart
  BY <1>0 DEF Restart, MapRace, AllHaveBreakers
<1>2. \A n \in Nodes : HasBreaker(n)'
  <2>1. [CycleStep]_vars
    BY NextCycles DEF WarmInv
  <2>2. QED
    BY <1>0, <1>1, <2>1 DEF CycleStep, AllHaveBreakers, HasBreaker, vars
<1>3. \A r \in Requests : pc'[r] # "insert"
  <2>1. ASSUME NEW r \in Requests, Arrive(r) \/ Step(r)
        PROVE  \E l \in Labels \ {"insert"} : pc' = [pc EXCEPT ![r] = l]
    <3>1. ~ Insert(r)
      BY <1>0 DEF Insert, AllHaveBreakers
    <3>2. CASE Acquire(r)
      BY <1>0, <3>2 DEF Acquire, AllHaveBreakers, TypeOK, Goto, Labels
    <3>3. CASE CallReplies(r) \/ GuardedCallFails(r) \/ UnguardedCallFails(r)
      BY <3>3 DEF CallReplies, GuardedCallFails, UnguardedCallFails, Respond, Goto, Labels
    <3>4. CASE \/ Unauthorized(r) \/ Refuse(r) \/ SelectFails(r) \/ Schedule(r)
      BY <3>4 DEF Unauthorized, Refuse, SelectFails, Schedule, Respond, Goto, Labels
    <3>5. CASE \/ Arrive(r) \/ SelectNode(r) \/ RunRejected(r) \/ RunAdmitted(r) \/ FailTTL(r)
      BY <3>5 DEF Arrive, SelectNode, RunRejected, RunAdmitted, FailTTL, Goto, Labels
    <3>6. QED
      BY <2>1, <3>1, <3>2, <3>3, <3>4, <3>5 DEF Step
  <2>2. ASSUME (\E n \in Nodes : PassTTL(n) \/ BreakerTimer(n)) \/ UNCHANGED vars
        PROVE  pc' = pc
    BY <2>2 DEF PassTTL, BreakerTimer, vars
  <2>3. CASE \E r \in Requests : Arrive(r) \/ Step(r)
    BY <1>0, <2>1, <2>3 DEF AllHaveBreakers, TypeOK
  <2>4. QED
    BY <1>0, <1>1, <2>2, <2>3 DEF Next, AllHaveBreakers
<1>4. QED
  BY <1>1, <1>2, <1>3 DEF AllHaveBreakers

\* Initially every node has its breaker.
LEMMA WarmInit == InitWarm => WarmInv
BY FreshInv DEF InitWarm, InitRequests, WarmInv, AllHaveBreakers, HasBreaker

\* Why one node's check may be critical: its timers, or who is about to start one.
Covered(n) ==
  check[n] = "critical" =>
    Pending(n) > 0 \/ \E r \in Requests : pc[r] = "schedule" /\ node[r] = n

\* Where every call of PassTTLHealth succeeds, a critical check stays covered.
LEMMA CriticalStep ==
  ASSUME "restart" \notin Faults, "passTTL" \notin Faults
  PROVE  WarmInv /\ CriticalHasPass /\ [Next]_vars => CriticalHasPass'
<1> SUFFICES ASSUME WarmInv, CriticalHasPass, [Next]_vars, NEW n \in Nodes
             PROVE  Covered(n)'
  BY DEF CriticalHasPass, Covered
<1> USE DEF request, shared
<1>0. TypeOK /\ Covered(n) /\ early[n] \in Nat /\ late[n] \in Nat /\ ~ Restart
  BY WarmStep DEF WarmInv, Inv, TypeOK, CriticalHasPass, Covered
<1>1. ASSUME NEW r \in Requests, Arrive(r) \/ Step(r), ~ FailTTL(r), ~ Schedule(r)
      PROVE  Covered(n)'
  <2>1. UNCHANGED <<early, late, check>> /\ pc[r] # "schedule"
    BY <1>1 DEF Arrive, Step, Unauthorized, Refuse, SelectFails, SelectNode, Acquire, Insert,
                RunRejected, RunAdmitted, CallReplies, GuardedCallFails, UnguardedCallFails
  <2>2. \A q \in Requests \ {r} : pc'[q] = pc[q] /\ node'[q] = node[q]
    BY <1>0, <1>1 DEF Arrive, Step, Unauthorized, Refuse, SelectFails, SelectNode, Acquire,
                      Insert, RunRejected, RunAdmitted, CallReplies, GuardedCallFails,
                      UnguardedCallFails, Respond, Goto, TypeOK
  <2>3. QED
    BY <1>0, <2>1, <2>2 DEF Covered, Pending
<1>2. ASSUME NEW r \in Requests, FailTTL(r) PROVE Covered(n)'
  <2>1. \A q \in Requests : pc[q] = "schedule" => pc'[q] = "schedule"
    BY <1>0, <1>2 DEF FailTTL, Goto, TypeOK
  <2>2. pc'[r] = "schedule" /\ UNCHANGED <<node, early, late>>
    BY <1>0, <1>2 DEF FailTTL, Goto, TypeOK
  <2>3. node[r] # n => check'[n] = check[n]
    BY <1>0, <1>2 DEF FailTTL, TypeOK
  <2>4. QED
    BY <1>0, <2>1, <2>2, <2>3 DEF Covered, Pending
<1>3. ASSUME NEW r \in Requests, Schedule(r) PROVE Covered(n)'
  <2>1. /\ UNCHANGED <<node, check>>
        /\ \A q \in Requests \ {r} : pc'[q] = pc[q]
    BY <1>0, <1>3 DEF Schedule, Respond, Goto, TypeOK
  <2>2. CASE node[r] = n
    <3>1. early'[n] + late'[n] > 0
      BY <1>0, <1>3, <2>2 DEF Schedule, TypeOK
    <3>2. QED
      BY <3>1 DEF Covered, Pending
  <2>3. CASE node[r] # n
    <3>1. early'[n] = early[n] /\ late'[n] = late[n]
      BY <1>0, <1>3, <2>3 DEF Schedule, TypeOK
    <3>2. QED
      BY <1>0, <2>1, <2>3, <3>1 DEF Covered, Pending
  <2>4. QED
    BY <2>2, <2>3
<1>4. ASSUME NEW m \in Nodes, PassTTL(m) PROVE Covered(n)'
  <2>1. UNCHANGED <<pc, node>>
    BY <1>4 DEF PassTTL
  <2>2. CASE m = n
    BY <1>0, <1>4, <2>2 DEF PassTTL, Covered, TypeOK
  <2>3. CASE m # n
    <3>1. early'[n] = early[n] /\ late'[n] = late[n] /\ check'[n] = check[n]
      BY <1>0, <1>4, <2>3 DEF PassTTL, TypeOK
    <3>2. QED
      BY <1>0, <2>1, <3>1 DEF Covered, Pending
  <2>4. QED
    BY <2>2, <2>3
<1>5. ASSUME NEW m \in Nodes, BreakerTimer(m) PROVE Covered(n)'
  <2>1. UNCHANGED <<pc, node, check>>
    BY <1>5 DEF BreakerTimer
  <2>2. early'[n] + late'[n] = early[n] + late[n]
    BY <1>0, <1>5 DEF BreakerTimer, TypeOK
  <2>3. QED
    BY <1>0, <2>1, <2>2 DEF Covered, Pending
<1>6. ASSUME UNCHANGED vars PROVE Covered(n)'
  BY <1>0, <1>6 DEF vars, Covered, Pending
<1>7. QED
  BY <1>0, <1>1, <1>2, <1>3, <1>4, <1>5, <1>6 DEF Next, Step

\* Once every node has been called, a check the gateway set to critical always has
\* a timer that will pass it, as long as PassTTLHealth succeeds.
THEOREM CriticalsArePassed ==
  ASSUME "restart" \notin Faults, "passTTL" \notin Faults
  PROVE  SpecWarm => []CriticalHasPass
<1>1. InitWarm => CriticalHasPass
  BY DEF InitWarm, InitRequests, CriticalHasPass
<1>2. QED
  BY <1>1, WarmInit, WarmStep, CriticalStep, PTL DEF SpecWarm
===============================================================================
