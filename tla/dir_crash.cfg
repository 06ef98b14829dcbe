SPECIFICATION Spec
CONSTANTS
  ServiceList <- OneService
  OtherNames = {}
  NodeList <- TwoNodes
  ServiceOf <- Owner
  Threads = {t1, t2}
  None = None
  t1 = t1
  t2 = t2
INVARIANTS NoCrash
