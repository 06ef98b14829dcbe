SPECIFICATION FairSpecWarm
CONSTANTS
  r1 = r1
  Requests = {r1}
  Apis <- OneApi
  Nodes <- OutingNode
  ServiceOf <- Owner
  Flaky <- OutingNode
  Faults = {"restart"}
  MaxTimers = 3
  ErrorThreshold = 1
  SuccessThreshold = 1
  None = None
PROPERTIES CheckRecovers
