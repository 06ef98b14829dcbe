------------------------------- MODULE Handlers -------------------------------
(***************************************************************************)
(* The HTTP handlers of the gateway as data.  Every handler under          *)
(* src/handler follows one course (ServiceCall models it): select a node,  *)
(* make sure it has a breaker, call one service through it, turn the       *)
(* outcome into a response.  A profile holds what differs:                 *)
(*   topic    the service handed to GetNextServiceNode                     *)
(*   stub     the field of the handler whose client makes the call         *)
(*   success  the status of the service's reply taken as success           *)
(*   claims   whether the call carries the UUID of the token's claims      *)
(*   guarded  whether the call runs inside the node's breaker and its      *)
(*            error is what the response is computed from                  *)
(*   refuses  statuses the handler itself may answer before it selects     *)
(***************************************************************************)
EXTENDS Integers, FiniteSets

\* A call made on behalf of the user of the token.
ForUser(topic, stub, status) ==
  [topic |-> topic, stub |-> stub, success |-> status,
   claims |-> TRUE, guarded |-> TRUE, refuses |-> {}]

\* A call that names nobody: login, join, or the user is in the path.
Anonymous(topic, stub, status) == [ForUser(topic, stub, status) EXCEPT !.claims = FALSE]

\* The two handlers that call the service outside any breaker, and compute the
\* response from the error of GetNextServiceNode instead of the call's.
Unguarded(topic, stub, status) == [ForUser(topic, stub, status) EXCEPT !.guarded = FALSE]

\* main.go: the service each client is generated for.
ServiceOfStub ==
  [authService |-> "auth", clubService |-> "club", outingService |-> "outing",
   scheduleService |-> "schedule", announcementService |-> "announcement"]

\* handler/default_auth_admin.go
CreateNewStudent == ForUser("auth", "authService", 201)
CreateNewParent == ForUser("auth", "authService", 201)
LoginAdminAuth == Anonymous("auth", "authService", 200)
SendJoinSMSToUnsignedStudents == Unguarded("auth", "authService", 200)

\* handler/default_auth_student.go
LoginStudentAuth == Anonymous("auth", "authService", 200)
ChangeStudentPW == ForUser("auth", "authService", 201)
GetStudentInformWithUUID == ForUser("auth", "authService", 200)
GetStudentUUIDsWithInform == ForUser("auth", "authService", 200)
GetStudentInformsWithUUIDs == ForUser("auth", "authService", 200)
GetParentWithStudentUUID == ForUser("auth", "authService", 200)
GetUnsignedStudentWithAuthCode == Anonymous("auth", "authService", 200)
CreateNewStudentWithAuthCode == Anonymous("auth", "authService", 201)

\* handler/default_auth_teacher.go
CreateNewTeacher == Anonymous("auth", "authService", 201)
LoginTeacherAuth == Anonymous("auth", "authService", 200)
LoginTeacherAuthWithPICK == Anonymous("auth", "authService", 200)
ChangeTeacherPW == ForUser("auth", "authService", 201)
GetTeacherInformWithUUID == ForUser("auth", "authService", 200)
GetTeacherUUIDsWithInform == ForUser("auth", "authService", 200)
ChangeTeacherInform == ForUser("auth", "authService", 200)

\* handler/default_auth_parent.go
LoginParentAuth == Anonymous("auth", "authService", 200)
ChangeParentPW == ForUser("auth", "authService", 201)
GetParentInformWithUUID == ForUser("auth", "authService", 200)
GetParentUUIDsWithInform == ForUser("auth", "authService", 200)
GetChildrenInformsWithUUID == ForUser("auth", "authService", 200)

\* handler/default_club_admin.go
CreateNewClub == ForUser("club", "clubService", 201)

\* handler/default_club_student.go
GetClubsSortByUpdateTime == ForUser("club", "clubService", 200)
GetRecruitmentsSortByCreateTime == ForUser("club", "clubService", 200)
GetClubInformWithUUID == ForUser("club", "clubService", 200)
GetClubInformsWithUUIDs == ForUser("club", "clubService", 200)
GetRecruitmentInformWithUUID == ForUser("club", "clubService", 200)
GetRecruitmentUUIDWithClubUUID == ForUser("club", "clubService", 200)
GetRecruitmentUUIDsWithClubUUIDs == ForUser("club", "clubService", 200)
GetAllClubFields == ForUser("club", "clubService", 200)
GetTotalCountOfClubs == ForUser("club", "clubService", 200)
GetTotalCountOfCurrentRecruitments == ForUser("club", "clubService", 200)
GetClubUUIDWithLeaderUUID == ForUser("club", "clubService", 200)

\* handler/default_club_leader.go
AddClubMember == ForUser("club", "clubService", 200)
DeleteClubMember == ForUser("club", "clubService", 200)
ChangeClubLeader == ForUser("club", "clubService", 200)
ModifyClubInform == ForUser("club", "clubService", 200)
DeleteClubWithUUID == ForUser("club", "clubService", 200)
RegisterRecruitment == ForUser("club", "clubService", 201)
ModifyRecruitment == ForUser("club", "clubService", 200)
DeleteRecruitment == ForUser("club", "clubService", 200)

\* handler/default_outing.go
CreateOuting == ForUser("outing", "outingService", 201)
GetStudentOutings == ForUser("outing", "outingService", 200)
GetOutingInform == ForUser("outing", "outingService", 200)
GetCardAboutOuting == ForUser("outing", "outingService", 200)
\* Every action but the two a parent takes with a confirm code.
TakeActionInOuting == [ForUser("outing", "outingService", 200) EXCEPT !.refuses = {404}]
\* parent-approve and parent-reject need no token.
TakeActionInOutingByOCode == Anonymous("outing", "outingService", 200)
GetOutingWithFilter == ForUser("outing", "outingService", 200)
GetOutingByOCode == Anonymous("outing", "outingService", 200)
ModifyOuting == ForUser("outing", "outingService", 200)

\* handler/default_schedule.go
CreateSchedule == ForUser("schedule", "scheduleService", 201)
GetSchedule == ForUser("schedule", "scheduleService", 200)
\* Mutant: the node of another service is selected.
GetTimeTableOfAuth == ForUser("auth", "scheduleService", 200)
GetTimeTable == ForUser("schedule", "scheduleService", 200)
UpdateSchedule == ForUser("schedule", "scheduleService", 200)
DeleteSchedule == ForUser("schedule", "scheduleService", 200)

\* handler/default_announcement.go
CreateAnnouncement == ForUser("announcement", "announcementService", 201)
GetAnnouncements == ForUser("announcement", "announcementService", 200)
GetAnnouncementDetail == ForUser("announcement", "announcementService", 200)
UpdateAnnouncement == ForUser("announcement", "announcementService", 200)
DeleteAnnouncement == ForUser("announcement", "announcementService", 200)
CheckAnnouncement == Anonymous("announcement", "announcementService", 200)
SearchAnnouncements == ForUser("announcement", "announcementService", 200)
GetMyAnnouncements == Anonymous("announcement", "announcementService", 200)

\* handler/default_xlsx_handle.go
AddUnsignedStudentsFromExcel == [Unguarded("auth", "authService", 201) EXCEPT !.refuses = {400}]

\* The profile of every API by its handler's name.
Profile ==
  [CreateNewStudent |-> CreateNewStudent,
   CreateNewParent |-> CreateNewParent,
   LoginAdminAuth |-> LoginAdminAuth,
   SendJoinSMSToUnsignedStudents |-> SendJoinSMSToUnsignedStudents,
   LoginStudentAuth |-> LoginStudentAuth,
   ChangeStudentPW |-> ChangeStudentPW,
   GetStudentInformWithUUID |-> GetStudentInformWithUUID,
   GetStudentUUIDsWithInform |-> GetStudentUUIDsWithInform,
   GetStudentInformsWithUUIDs |-> GetStudentInformsWithUUIDs,
   GetParentWithStudentUUID |-> GetParentWithStudentUUID,
   GetUnsignedStudentWithAuthCode |-> GetUnsignedStudentWithAuthCode,
   CreateNewStudentWithAuthCode |-> CreateNewStudentWithAuthCode,
   CreateNewTeacher |-> CreateNewTeacher,
   LoginTeacherAuth |-> LoginTeacherAuth,
   LoginTeacherAuthWithPICK |-> LoginTeacherAuthWithPICK,
   ChangeTeacherPW |-> ChangeTeacherPW,
   GetTeacherInformWithUUID |-> GetTeacherInformWithUUID,
   GetTeacherUUIDsWithInform |-> GetTeacherUUIDsWithInform,
   ChangeTeacherInform |-> ChangeTeacherInform,
   LoginParentAuth |-> LoginParentAuth,
   ChangeParentPW |-> ChangeParentPW,
   GetParentInformWithUUID |-> GetParentInformWithUUID,
   GetParentUUIDsWithInform |-> GetParentUUIDsWithInform,
   GetChildrenInformsWithUUID |-> GetChildrenInformsWithUUID,
   CreateNewClub |-> CreateNewClub,
   GetClubsSortByUpdateTime |-> GetClubsSortByUpdateTime,
   GetRecruitmentsSortByCreateTime |-> GetRecruitmentsSortByCreateTime,
   GetClubInformWithUUID |-> GetClubInformWithUUID,
   GetClubInformsWithUUIDs |-> GetClubInformsWithUUIDs,
   GetRecruitmentInformWithUUID |-> GetRecruitmentInformWithUUID,
   GetRecruitmentUUIDWithClubUUID |-> GetRecruitmentUUIDWithClubUUID,
   GetRecruitmentUUIDsWithClubUUIDs |-> GetRecruitmentUUIDsWithClubUUIDs,
   GetAllClubFields |-> GetAllClubFields,
   GetTotalCountOfClubs |-> GetTotalCountOfClubs,
   GetTotalCountOfCurrentRecruitments |-> GetTotalCountOfCurrentRecruitments,
   GetClubUUIDWithLeaderUUID |-> GetClubUUIDWithLeaderUUID,
   AddClubMember |-> AddClubMember,
   DeleteClubMember |-> DeleteClubMember,
   ChangeClubLeader |-> ChangeClubLeader,
   ModifyClubInform |-> ModifyClubInform,
   DeleteClubWithUUID |-> DeleteClubWithUUID,
   RegisterRecruitment |-> RegisterRecruitment,
   ModifyRecruitment |-> ModifyRecruitment,
   DeleteRecruitment |-> DeleteRecruitment,
   CreateOuting |-> CreateOuting,
   GetStudentOutings |-> GetStudentOutings,
   GetOutingInform |-> GetOutingInform,
   GetCardAboutOuting |-> GetCardAboutOuting,
   TakeActionInOuting |-> TakeActionInOuting,
   TakeActionInOutingByOCode |-> TakeActionInOutingByOCode,
   GetOutingWithFilter |-> GetOutingWithFilter,
   GetOutingByOCode |-> GetOutingByOCode,
   ModifyOuting |-> ModifyOuting,
   CreateSchedule |-> CreateSchedule,
   GetSchedule |-> GetSchedule,
   GetTimeTable |-> GetTimeTable,
   UpdateSchedule |-> UpdateSchedule,
   DeleteSchedule |-> DeleteSchedule,
   CreateAnnouncement |-> CreateAnnouncement,
   GetAnnouncements |-> GetAnnouncements,
   GetAnnouncementDetail |-> GetAnnouncementDetail,
   UpdateAnnouncement |-> UpdateAnnouncement,
   DeleteAnnouncement |-> DeleteAnnouncement,
   CheckAnnouncement |-> CheckAnnouncement,
   SearchAnnouncements |-> SearchAnnouncements,
   GetMyAnnouncements |-> GetMyAnnouncements,
   AddUnsignedStudentsFromExcel |-> AddUnsignedStudentsFromExcel]

\* Routes registered without the Authenticator middleware.
OpenRoutes ==
  {"LoginAdminAuth",
   "LoginStudentAuth",
   "GetUnsignedStudentWithAuthCode",
   "CreateNewStudentWithAuthCode",
   "CreateNewTeacher",
   "LoginTeacherAuth",
   "LoginTeacherAuthWithPICK",
   "LoginParentAuth",
   "TakeActionInOuting",
   "GetOutingByOCode",
   "TakeActionInOutingByOCode"}

\* Mutant: TakeActionInOuting does not check the token.
ChecksTokenInRoutes(api) == api \notin OpenRoutes

\* TakeActionInOuting is an open route and checks the token itself.
ChecksToken(api) == api \notin OpenRoutes \/ api = "TakeActionInOuting"
===============================================================================
