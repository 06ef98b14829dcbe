---------------------------- MODULE MCResponseCache ----------------------------
(* Instances of ResponseCache for TLC: what its requests ask. *)
EXTENDS ResponseCache, TLC

Owner  == [o \in {"outing-1", "outing-2"} |-> IF o = "outing-1" THEN "student-1" ELSE "student-2"]
Kind   == [a \in {"announcement-1", "announcement-2"} |-> "school"]
Writer == [a \in {"announcement-1", "announcement-2"} |-> "teacher-1"]
Beside == [a \in {"announcement-1", "announcement-2"} |->
             {"announcement-1", "announcement-2"} \ {a}]
Last   == [t \in Types |-> IF t = "school" THEN {"announcement-2"} ELSE {}]
Pieces == {"outing-1", "outing-2", "announcement-1", "announcement-2", "student-1", "teacher-1",
           "school", "card", "words", "-"}

Ask(op, user, id, type, text) ==
  [op |-> op, user |-> user, id |-> id, type |-> type, text |-> text, page |-> "0"]

\* A parameter the API does not have.
No == <<"-">>

\* Reads and changes of each kind of data, so that each change meets each read
\* of what it changes, and reads of one key meet; and paths with dots in them.
Inform  == Ask("GetOutingInform", "student-1", <<"outing-1">>, No, No)
Card    == Ask("GetCardAboutOuting", "student-1", <<"outing-1">>, No, No)
Dotted  == Ask("GetOutingInform", "student-1", <<"outing-1", "card">>, No, No)

OfOutings ==
  << Ask("GetStudentOutings", "student-1", <<"student-1">>, No, No),
     Ask("GetStudentOutings", "teacher-1", <<"student-1">>, No, No),
     Inform, Card, Dotted,
     Ask("GetOutingWithFilter", "teacher-1", No, No, <<"words", "-">>),
     Ask("CreateOuting", "student-1", No, No, No),
     Ask("TakeActionInOuting", None, <<"outing-1">>, No, No),
     Ask("TakeActionByCode", None, <<"outing-1", "card">>, No, <<"outing-1">>),
     Ask("ModifyOuting", "student-1", <<"outing-1">>, No, No) >>

List      == Ask("GetAnnouncements", "student-1", No, <<"school">>, No)
Detail    == Ask("GetAnnouncementDetail", "student-1", <<"announcement-1">>, No, No)
Neighbour == Ask("GetAnnouncementDetail", "teacher-1", <<"announcement-2">>, No, No)
Update    == Ask("UpdateAnnouncement", "teacher-1", <<"announcement-1">>, No, No)

OfAnnouncements ==
  << List, Detail,
     Ask("SearchAnnouncements", "student-1", No, <<"school">>, <<"words">>),
     Ask("CheckAnnouncement", "student-1", <<"student-1">>, No, No),
     Ask("GetMyAnnouncements", "teacher-1", <<"teacher-1">>, No, No),
     Ask("CreateAnnouncement", "teacher-1", No, <<"school">>, No),
     Update >>

OfSchedules ==
  << Ask("GetSchedule", "student-1", No, No, No),
     Ask("GetTimeTable", "student-1", No, No, No),
     Ask("CreateSchedule", "teacher-1", No, No, No),
     Ask("UpdateSchedule", "teacher-1", No, No, No),
     Ask("DeleteSchedule", "teacher-1", No, No, No) >>

\* Two requests ask any two of a list of which one is a read, once in either order:
\* they are symmetric.
CONSTANTS r1, r2

Pair(q1, q2) == (r1 :> q1) @@ (r2 :> q2)

PairsOf(queries) ==
  UNION {{Pair(queries[i], queries[j]) : j \in i..Len(queries)}
           : i \in {i \in 1..Len(queries) : IsRead(queries[i])}}

\* A change and the detail of the next announcement; a view and the list of another
\* user.
Overlooked == {Pair(Update, Neighbour), Pair(Neighbour, List)}

Pairs == PairsOf(OfOutings) \cup PairsOf(OfAnnouncements) \cup PairsOf(OfSchedules)
           \cup Overlooked
===============================================================================
