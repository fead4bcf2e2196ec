SPECIFICATION Spec
CONSTANTS
  Session = {s1, s2}
  Provider = {p1}
  NoSession = NoSession
  NoProvider = NoProvider
  Orphan = Orphan
  ClosedToAll = FALSE
  Override = NoProvider
  MaxEvents = 5
SYMMETRY Interchangeable
CHECK_DEADLOCK FALSE
INVARIANTS EveryViewSubscribed
