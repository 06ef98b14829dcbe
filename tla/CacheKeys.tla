------------------------------- MODULE CacheKeys -------------------------------
(***************************************************************************)
(* The names of the response cache in redis: the key each GET API is       *)
(* cached under and the keys each other API asks to delete                 *)
(* (middleware/redis_handler_wrapper.go), how a key is formatted with a    *)
(* request (redis_handler.go), and the pattern a deletion is turned into   *)
(* (handler/default_event_handle.go).                                      *)
(*                                                                         *)
(* A key is the sequence of its dot-separated segments.  A request is a    *)
(* record: op, the API; user, the UUID of the token; id, the UUID in the   *)
(* path; type, the announcement type; text, the words of a search, the     *)
(* status of a filter or the code of a parent; page, every other           *)
(* parameter.  id, type and text are taken from the request as they are    *)
(* and may hold dots: each is the sequence of its segments.  A user is a   *)
(* UUID the gateway has signed, and a page is made of numbers.             *)
(***************************************************************************)
EXTENDS Naturals, Sequences

CONSTANTS
  Students,   \* UUIDs of students; other users are teachers and parents
  OwnerOf,    \* [outings -> Students]
  TypeOf,     \* [announcements -> Types]
  Segments,   \* what is between the dots of a parameter
  NoKey       \* no side key in a key to delete

Types         == {"school", "club"}
Outings       == DOMAIN OwnerOf
Announcements == DOMAIN TypeOf

Blank == <<>>   \* the blank key ""
Star   == "*"
Rest  == "**"   \* a "*" at the end of a segment: whatever follows

-----------------------------------------------------------------------------
(* formatKeyWithRequest on the key of each responder: the parameters are    *)
(* put in their places and joined by dots; a $student_uuid or $writer_uuid  *)
(* that is not the token's gives the blank key and no error.                *)

Mine(q, key) == IF q.id = <<q.user>> THEN key ELSE Blank

SetKey(q) ==
  LET p    == q.page
      list == <<"announcements", "uuid", q.user, "types">> \o q.type
  IN CASE q.op = "GetStudentOutings" ->
            Mine(q, <<"students", q.user, "outings", "start", p, "count", p>>)
       [] q.op = "GetOutingInform"     -> <<"outings">> \o q.id
       [] q.op = "GetCardAboutOuting"  -> <<"outings">> \o q.id \o <<"card">>
       [] q.op = "GetOutingWithFilter" ->
            <<"outings", "filter", "start", p, "count", p, "status">> \o q.text
              \o <<"grade", p, "group", p, "floor", p, "start_time", p, "end_time", p>>
       [] q.op = "GetSchedule"  -> <<"schedules", "years", p, "months", p>>
       [] q.op = "GetTimeTable" ->
            <<"students", q.user, "timetable", "years", p, "months", p, "days", p, "count", p>>
       [] q.op = "GetAnnouncements"    -> list \o <<"start", p, "count", p>>
       [] q.op = "SearchAnnouncements" ->
            list \o <<"query">> \o q.text \o <<"start", p, "count", p>>
       [] q.op = "GetAnnouncementDetail" -> <<"announcements">> \o q.id
       [] q.op = "CheckAnnouncement" ->
            Mine(q, <<"students", q.user, "announcement-check">>)
       [] q.op = "GetMyAnnouncements" ->
            Mine(q, <<"writers", q.user, "announcements", "start", p, "count", p>>)
       [] OTHER -> Blank

-----------------------------------------------------------------------------
(* The keys an API asks to delete once it has succeeded.  A segment in      *)
(* braces, "{outings.X.student_uuid}", names a side key: its value is       *)
(* looked up when the deletion is handled.  TakeActionByCode is the action  *)
(* parent-approve or parent-reject of TakeActionInOuting.                   *)

Hole == "{}"   \* where the value of the side key goes

Lit(segs)        == [segs |-> segs, side |-> NoKey]
With(segs, side) == [segs |-> segs, side |-> side]
OwnerKey(id)     == <<"outings">> \o id \o <<"student_uuid">>
TypeKey(id)      == <<"announcements">> \o id \o <<"type">>

ASSUME DataAssumption ==
  /\ OwnerOf \in [Outings -> Students] /\ "filter" \notin Outings
  /\ TypeOf \in [Announcements -> Types]
  /\ \A o \in Outings : OwnerKey(<<o>>) # NoKey
  /\ \A a \in Announcements : TypeKey(<<a>>) # NoKey

DelKeys(q) ==
  CASE q.op = "CreateOuting" ->
         << Lit(<<"students", q.user, "outings">>), Lit(<<"outings", "filter">>) >>
    [] q.op \in {"TakeActionInOuting", "TakeActionByCode"} ->
         << Lit(<<"outings">> \o q.id), Lit(<<"outings">> \o q.id \o <<"card">>),
            With(<<"students", Hole, "outings">>, OwnerKey(q.id)), Lit(<<"outings", "filter">>) >>
    [] q.op = "ModifyOuting" ->
         << Lit(<<"outings">> \o q.id), Lit(<<"outings">> \o q.id \o <<"card">>),
            Lit(<<"students", q.user, "outings">>), Lit(<<"outings", "filter">>) >>
    [] q.op \in {"CreateSchedule", "UpdateSchedule", "DeleteSchedule"} ->
         << Lit(<<"schedules">>) >>
    [] q.op = "CreateAnnouncement" ->
         << Lit(<<"announcements", "uuid", Star, "types">> \o q.type),
            Lit(<<"students", Star, "announcement-check">>),
            Lit(<<"writers", q.user, "announcements">>) >>
    [] q.op \in {"UpdateAnnouncement", "DeleteAnnouncement"} ->
         << With(<<"announcements", "uuid", Star, "types", Hole>>, TypeKey(q.id)),
            Lit(<<"announcements">> \o q.id),
            Lit(<<"students", Star, "announcement-check">>),
            Lit(<<"writers", q.user, "announcements">>) >>
    [] q.op = "GetAnnouncementDetail" ->
         << Lit(<<"students", q.user, "announcement-check">>),
            With(<<"announcements", "uuid", q.user, "types", Hole>>, TypeKey(q.id)),
            Lit(<<"writers", q.user, "announcements">>) >>
    [] OTHER -> <<>>

-----------------------------------------------------------------------------
(* DeleteAssociatedRedisKey: the pattern a resolved key matches by its      *)
(* regular expression, or Unmatched, which is answered with an error.       *)

Unmatched == <<>>

Resolve(segs, value) == [i \in DOMAIN segs |-> IF segs[i] = Hole THEN value ELSE segs[i]]

Paged(segs) == segs \o <<"start", Star, "count", Star>>

Pattern(s) ==
  CASE Len(s) = 3 /\ s[1] = "students" /\ s[3] = "outings"
                  /\ s[2] \in Students \cup {Star} -> Paged(s)
    [] s = <<"outings", "filter">> ->
         Paged(s) \o <<"status", Star, "grade", Star, "group", Star, "floor", Star,
                       "start_time", Star, "end_time", Star>>
    [] Len(s) = 2 /\ s[1] = "outings" /\ s[2] \in Outings -> s
    [] Len(s) = 3 /\ s[1] = "outings" /\ s[2] \in Outings /\ s[3] = "card" -> s
    [] s = <<"schedules">> -> <<"schedules", Rest>>
    [] Len(s) = 2 /\ s[1] = "announcements" /\ s[2] \in Announcements -> s
    [] Len(s) = 5 /\ s[1] = "announcements" /\ s[2] = "uuid" /\ s[4] = "types"
                  /\ s[5] \in Types \cup {Star} -> Append(s, Rest)
    [] Len(s) = 3 /\ s[1] = "students" /\ s[3] = "announcement-check" -> s
    [] Len(s) = 3 /\ s[1] = "writers" /\ s[3] = "announcements" -> Paged(s)
    [] Len(s) >= 3 /\ s[1] = "students" /\ s[3] = "timetable" ->
         <<"students", Star, "timetable", Rest>>
    [] OTHER -> Unmatched

\* Where a segment of a pattern may end that begins behind the first h of a key.
After(segment, key, h) ==
  IF segment = Rest THEN h..Len(key)
  ELSE IF segment = Star THEN h + 1..Len(key)
  ELSE {j \in {h + 1} : j <= Len(key) /\ key[j] = segment}

\* Redis KEYS: a "*" matches any text, dots included.
Matches(pattern, key) ==
  LET ends[i \in 0..Len(pattern)] ==
        IF i = 0 THEN {0} ELSE UNION {After(pattern[i], key, h) : h \in ends[i - 1]}
  IN Len(key) \in ends[Len(pattern)]

-----------------------------------------------------------------------------
(* SetRedisKeyWithResponse: the side key written after the response under   *)
(* key, with its value.  Both never expire; a timetable's response is       *)
(* written a second time, for a day instead of a minute.                    *)

IsOuting(key)       == Len(key) = 2 /\ key[1] = "outings" /\ key[2] \in Outings
IsAnnouncement(key) == Len(key) = 2 /\ key[1] = "announcements" /\ key[2] \in Announcements
IsTimetable(key)    == Len(key) = 11 /\ key[2] \in Students /\ key[3] = "timetable"

SideKey(key) == IF IsOuting(key) THEN OwnerKey(<<key[2]>>)
                ELSE IF IsAnnouncement(key) THEN TypeKey(<<key[2]>>) ELSE NoKey
SideValue(key) == IF IsOuting(key) THEN OwnerOf[key[2]] ELSE TypeOf[key[2]]
===============================================================================
