SPECIFICATION FairSpec
CONSTANTS
  ServiceList <- OneService
  OtherNames = {"chat"}
  NodeList <- TwoNodes
  ServiceOf <- Owner
  t1 = t1
  t2 = t2
  Threads = {t1, t2}
  None = None
INVARIANTS TypeOK LockExclusion RefreshIsCurrent
PROPERTIES CallsReturn
