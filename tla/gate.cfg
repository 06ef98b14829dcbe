SPECIFICATION Spec
CONSTANTS
  Wellformed = {"v1"}
  Malformed = {"b1"}
  Master = {"m1"}
  u1 = u1
  u2 = u2
  Users = {u1, u2}
  t1 = t1
  t2 = t2
  Threads = {t1, t2}
  None = None
  Addresses = {"10.0.0.1:4001"}
  Limit = 2
  Modulus = 4
INVARIANTS TypeOK LimitedHasTimer CounterIsExact OneMinuteEach
PROPERTIES PassedAgainOnlyIfOverlapping OnceEvery5Seconds RequestsEnd BlocksEnd
