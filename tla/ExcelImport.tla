------------------------------ MODULE ExcelImport ------------------------------
(***************************************************************************)
(* AddUnsignedStudentsFromExcel (handler/default_xlsx_handle.go) up to the *)
(* call of the service: the sheets of a workbook are read in the order of  *)
(* a Go map, which is any, and every complete row becomes a student.  What *)
(* comes after is the course ServiceCall models.                           *)
(*                                                                         *)
(* A sheet is its rows, the first one with the names of the attributes.  A *)
(* cell is "good", "bad", "blank", or "long": a student number such as     *)
(* 11205, whose head is one.  A student is known by sheet and row.         *)
(***************************************************************************)
EXTENDS Naturals, Sequences, FiniteSets

CONSTANTS
  Sheets,  \* the sheets of a workbook
  Books    \* [Sheets -> [broken : BOOLEAN, rows : sequences of rows]]

\* No sheet: what c.Param gives when the path names none.
NoSheet == ""

ASSUME BooksAssumption ==
  /\ NoSheet \notin Sheets
  /\ Books \subseteq [Sheets -> [broken : BOOLEAN, rows : Seq(Seq(STRING))]]

Attrs == {"student_number", "name", "phone_number"}

VARIABLES
  book,     \* the workbook uploaded
  asked,    \* c.Param("sheet"): one sheet, or none of them
  todo,     \* sheets the loop has not read
  sheet,    \* the sheet being read, or NoSheet
  row,      \* its next row
  students, \* the students so far
  answer    \* "off" before the import; "none", "400", or "call": they are sent to the service

importVars == <<book, asked, todo, sheet, row, students, answer>>

Rows(s) == book[s].rows

\* The sheets the loop is to read.
Read == IF asked = NoSheet THEN Sheets ELSE {asked}
-----------------------------------------------------------------------------
\* The column of an attribute: the last one of that name.
Column(attrs, a) ==
  CHOOSE i \in DOMAIN attrs : attrs[i] = a /\ \A j \in DOMAIN attrs : attrs[j] = a => j <= i

HasAttrs(attrs) == \A a \in Attrs : \E i \in DOMAIN attrs : attrs[i] = a

\* The row reaches the last of the three columns, and none of them is blank.
Full(attrs, cells) ==
  \A a \in Attrs : Column(attrs, a) <= Len(cells) /\ cells[Column(attrs, a)] # "blank"

\* The regular expression of the student number is open at its end.
Accepted(a, cell) == cell = "good" \/ (a = "student_number" /\ cell = "long")

AllAccepted(attrs, cells) == \A a \in Attrs : Accepted(a, cells[Column(attrs, a)])

-----------------------------------------------------------------------------
\* The file's name, the file or the workbook is refused.
RefuseFile ==
  /\ answer = "none" /\ todo = Read /\ sheet = NoSheet
  /\ answer' = "400"
  /\ UNCHANGED <<book, asked, todo, sheet, row, students>>

\* The loop takes a sheet; GetRows fails.
SheetFails(s) ==
  /\ answer = "none" /\ sheet = NoSheet
  /\ s \in todo
  /\ book[s].broken
  /\ answer' = "400"
  /\ UNCHANGED <<book, asked, todo, sheet, row, students>>

\* At most two rows, or a first row without cells.
TooFew(s) == ~ (Len(Rows(s)) > 2 /\ Rows(s)[1] # <<>>)

\* Mutant: the loop ends with the first sheet it skips.
SkipAll(s) ==
  /\ answer = "none" /\ sheet = NoSheet
  /\ s \in todo /\ ~ book[s].broken
  /\ TooFew(s)
  /\ todo' = {}
  /\ UNCHANGED <<book, asked, sheet, row, students, answer>>

SkipSheet(s) ==
  /\ answer = "none" /\ sheet = NoSheet
  /\ s \in todo /\ ~ book[s].broken
  /\ TooFew(s)
  /\ todo' = todo \ {s}
  /\ UNCHANGED <<book, asked, sheet, row, students, answer>>

RefuseAttrs(s) ==
  /\ answer = "none" /\ sheet = NoSheet
  /\ s \in todo /\ ~ book[s].broken
  /\ ~ TooFew(s)
  /\ ~ HasAttrs(Rows(s)[1])
  /\ answer' = "400"
  /\ UNCHANGED <<book, asked, todo, sheet, row, students>>

OpenSheet(s) ==
  /\ answer = "none" /\ sheet = NoSheet
  /\ s \in todo /\ ~ book[s].broken
  /\ ~ TooFew(s)
  /\ HasAttrs(Rows(s)[1])
  /\ todo' = todo \ {s}
  /\ sheet' = s
  /\ row' = 2
  /\ UNCHANGED <<book, asked, students, answer>>

Cells == Rows(sheet)[row]
Names == Rows(sheet)[1]

\* The row is done; after the last one, the sheet is.
NextRow ==
  IF row = Len(Rows(sheet)) THEN sheet' = NoSheet /\ row' = 1
  ELSE row' = row + 1 /\ UNCHANGED sheet

SkipRow ==
  /\ answer = "none" /\ sheet # NoSheet
  /\ ~ Full(Names, Cells)
  /\ NextRow
  /\ UNCHANGED <<book, asked, todo, students, answer>>

RefuseRow ==
  /\ answer = "none" /\ sheet # NoSheet
  /\ Full(Names, Cells)
  /\ ~ AllAccepted(Names, Cells)
  /\ answer' = "400"
  /\ UNCHANGED <<book, asked, todo, sheet, row, students>>

\* Mutant: the list starts anew with each sheet.
TakeRowAlone ==
  /\ answer = "none" /\ sheet # NoSheet
  /\ Full(Names, Cells)
  /\ AllAccepted(Names, Cells)
  /\ students' = IF row = 2 THEN << <<sheet, row>> >> ELSE Append(students, <<sheet, row>>)
  /\ NextRow
  /\ UNCHANGED <<book, asked, todo, answer>>

TakeRow ==
  /\ answer = "none" /\ sheet # NoSheet
  /\ Full(Names, Cells)
  /\ AllAccepted(Names, Cells)
  /\ students' = Append(students, <<sheet, row>>)
  /\ NextRow
  /\ UNCHANGED <<book, asked, todo, answer>>

\* Even an empty list is sent.
Send ==
  /\ answer = "none" /\ sheet = NoSheet /\ todo = {}
  /\ answer' = "call"
  /\ UNCHANGED <<book, asked, todo, sheet, row, students>>

-----------------------------------------------------------------------------
ImportOff ==
  /\ book = <<>> /\ asked = NoSheet /\ todo = {}
  /\ sheet = NoSheet /\ row = 1 /\ students = <<>>
  /\ answer = "off"

\* The handler begins with the workbook of its request.
ImportBegins ==
  /\ answer = "off" /\ answer' = "none"
  /\ book' \in Books
  /\ asked' \in Sheets \cup {NoSheet}
  /\ todo' = IF asked' = NoSheet THEN Sheets ELSE {asked'}
  /\ UNCHANGED <<sheet, row, students>>

ImportStep ==
  \/ RefuseFile
  \/ \E s \in Sheets : SheetFails(s) \/ SkipSheet(s) \/ RefuseAttrs(s) \/ OpenSheet(s)
  \/ SkipRow \/ RefuseRow \/ TakeRow
  \/ Send
-----------------------------------------------------------------------------
(* Properties.                                                              *)

\* The value below the last column named a, if the row has one.
ValueOf(s, i, a) ==
  LET cols == {j \in DOMAIN Rows(s)[1] : Rows(s)[1][j] = a}
      last == CHOOSE j \in cols : \A k \in cols : k <= j
  IN IF last \in DOMAIN Rows(s)[i] THEN Rows(s)[i][last] ELSE "blank"

Filled(s, i) == \A a \in Attrs : ValueOf(s, i, a) # "blank"

\* The comment above the test of the loop (:110): a sheet without an attribute row
\* or without a row of values is passed over.
Sparse(s) == Len(Rows(s)) < 2 \/ Rows(s)[1] = <<>>

\* The students of the workbook: the rows without a blank of the other sheets.
Complete ==
  UNION {{s} \X {i \in 2..Len(Rows(s)) : Filled(s, i)} :
           s \in {r \in Read : ~ book[r].broken /\ ~ Sparse(r) /\ HasAttrs(Rows(r)[1])}}

\* The sheets of an attribute row and one row of values: "<= 2" passes over them too,
\* and their only student is lost.
Pairs == {s \in Read : Len(Rows(s)) = 2}

CompleteButPairs == {p \in Complete : p[1] \notin Pairs}

\* Those sheets are all that is lost.  What is sent is determined by the workbook, not
\* by the order in which the map yields its sheets: every student of the others, each
\* once, all sheets together.
SentIsAllButPairs ==
  answer = "call" =>
    /\ {students[i] : i \in DOMAIN students} = CompleteButPairs
    /\ Len(students) = Cardinality(CompleteButPairs)

\* Nothing is sent of a workbook any sheet of which is faulty: unreadable, or,
\* unless it is one the loop passes over, without one of the three attributes or
\* with a bad value.
FaultyIsRefused ==
  answer = "call" =>
    \A s \in Read :
      /\ ~ book[s].broken
      /\ ~ Sparse(s) /\ s \notin Pairs => HasAttrs(Rows(s)[1])
      /\ \A p \in CompleteButPairs, a \in Attrs : ValueOf(p[1], p[2], a) # "bad"
===============================================================================
