SPECIFICATION SpecWarm
CONSTANTS
  ServiceList <- TwoServices
  OtherNames = {}
  NodeList <- MixedNodes
  ServiceOf <- Owner
  t1 = t1
  t2 = t2
  Threads = {t1, t2}
  None = None
INVARIANTS SelectorMatchesNodes NoCrash
PROPERTIES ImplementsFairRotation
