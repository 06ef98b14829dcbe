----------------------------- MODULE MCExcelRoute -----------------------------
(* An instance of ExcelRoute for TLC: routes of main.go, one of each kind,   *)
(* and workbooks of two small sheets.                                        *)
EXTENDS ExcelRoute

Route(auth, entity, query, redis) ==
  [auth |-> auth, entity |-> entity, query |-> query, redis |-> redis,
   unguarded |-> entity \in {"SendJoinSMSToUnsignedStudentsRequest",
                             "AddUnsignedStudentsFromExcelRequest"},
   import |-> entity = "AddUnsignedStudentsFromExcelRequest"]

Kinds ==
  { Route(FALSE, "LoginStudentAuthRequest", FALSE, <<>>),
    Route(TRUE, "GetStudentUUIDsWithInformRequest", TRUE, <<>>),
    Route(TRUE, "SendJoinSMSToUnsignedStudentsRequest", TRUE, <<>>),
    Route(TRUE, "AddUnsignedStudentsFromExcelRequest", FALSE, <<>>),
    Route(TRUE, "CreateOutingRequest", FALSE, <<"DeletePublisher">>),
    Route(FALSE, None, FALSE, <<"DeletePublisher">>),                  \* TakeActionInOuting
    Route(TRUE, "GetStudentOutingsRequest", TRUE, <<"Responder", "SetPublisher">>),
    Route(TRUE, None, FALSE, <<"Responder", "SetPublisher">>),         \* GetOutingInform
    Route(TRUE, None, FALSE,                                           \* GetAnnouncementDetail
          <<"DeletePublisher", "Responder", "SetPublisher">>) }

N == "student_number"
Headers == { <<N, "name", "phone_number">>, <<"name", N, "name", "phone_number">>,
             <<"phone_number", "other", N, "name">>, <<N, "name">> }

Lines == { <<>>, <<"good", "good", "good">>, <<"long", "good", "good", "good">>,
           <<"good", "good", "blank", "good">>, <<"good", "bad", "good", "good">> }

Sheet(rows) == [broken |-> FALSE, rows |-> rows]

\* A sheet of at most three rows: a header and two lines.
SmallSheets ==
  {[broken |-> TRUE, rows |-> <<>>], Sheet(<<>>)}
    \cup {Sheet(<<h>>) : h \in Headers}
    \cup {Sheet(<<h, x>>) : h \in Headers, x \in Lines}
    \cup {Sheet(<<h, x, y>>) : h \in Headers \cup {<<>>}, x \in Lines, y \in Lines}

SmallBooks == [Sheets -> SmallSheets]
===============================================================================
