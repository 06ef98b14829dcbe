SPECIFICATION Spec
CONSTANTS
  r1 = r1
  r2 = r2
  r3 = r3
  Requests = {r1, r2, r3}
  Apis <- MixedKinds
  Nodes <- KindNodes
  ServiceOf <- Owner
  Flaky <- FlakyNodes
  Faults = {"passTTL", "restart", "jitter"}
  MaxTimers = 3
  ErrorThreshold = 1
  SuccessThreshold = 2
  None = None
SYMMETRY Symmetry
INVARIANTS TypeOK BreakerReady BreakerSound AnswerIsHonest CallReachesItsService CallNamesItsUser
PROPERTIES BreakerCycle
