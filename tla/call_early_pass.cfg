SPECIFICATION SpecWarm
CONSTANTS
  r1 = r1
  r2 = r2
  Requests = {r1, r2}
  Apis <- OneApi
  Nodes <- OutingNode
  ServiceOf <- Owner
  Flaky <- OutingNode
  Faults = {}
  MaxTimers = 4
  ErrorThreshold = 1
  SuccessThreshold = 1
  None = None
SYMMETRY Symmetry
PROPERTIES NoPassWhileOpen
