SPECIFICATION FairSpecEvents
CONSTANTS
  ServiceList <- OneService
  OtherNames = {}
  NodeList <- OneNode
  ServiceOf <- Owner
  None = None
  h1 = h1
  h2 = h2
  main = main
  pubAuth = pubAuth
  Threads = {h1, h2, main, pubAuth}
  Handlers = {h1, h2}
  Main = main
  PublisherOf <- Publisher
  w1 = w1
  w2 = w2
  Watchers = {w1, w2}
  MaxIndex = 2
  PostedBy <- Posts
INVARIANTS TypeOKEvents SettledIsCurrent
PROPERTIES RefreshedOncePerIndex EventuallyCurrent EventsAreAnswered
CHECK_DEADLOCK FALSE
