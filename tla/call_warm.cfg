SPECIFICATION FairSpecWarm
CONSTANTS
  r1 = r1
  r2 = r2
  Requests = {r1, r2}
  Apis <- OneApi
  Nodes <- OutingNode
  ServiceOf <- Owner
  Flaky <- OutingNode
  Faults = {"jitter"}
  MaxTimers = 3
  ErrorThreshold = 2
  SuccessThreshold = 2
  None = None
INVARIANT CriticalHasPass
PROPERTIES RequestsAnswered CheckRecovers
