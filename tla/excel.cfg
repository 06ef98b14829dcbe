SPECIFICATION Spec
CONSTANTS
  Routes <- Kinds
  None = None
  Sheets = {"first", "second"}
  Books <- SmallBooks
INVARIANTS AnsweredOnce PublishedIsAnswer HandlerIsPrepared SentIsAllButPairs FaultyIsRefused
CHECK_DEADLOCK FALSE
