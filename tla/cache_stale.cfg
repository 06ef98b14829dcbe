SPECIFICATION SpecWarm
CONSTANTS
  Students = {"student-1", "student-2"}
  OwnerOf <- Owner
  TypeOf <- Kind
  WriterOf <- Writer
  Near <- Beside
  Newest <- Last
  Segments <- Pieces
  NoKey = NoKey
  None = None
  r1 = r1
  r2 = r2
  Requests = {r1, r2}
  Asks <- Overlooked
INVARIANT AllStaleDeleted
CHECK_DEADLOCK FALSE
