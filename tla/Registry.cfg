SPECIFICATION Spec
CONSTANTS
  Session = {s1, s2, s3}
  NoSession = NoSession
  MaxPasses = 2
  MaxDeaths = 1
SYMMETRY Alike
CHECK_DEADLOCK FALSE
INVARIANTS TypeOK OneGetsIn
PROPERTIES PassComplete DeadRemoved
