SPECIFICATION Spec
CONSTANTS
  Session = {s1, s2}
  Provider = {p1, p2}
  NoSession = NoSession
  NoProvider = NoProvider
  Orphan = Orphan
  ClosedToAll = TRUE
  Override = NoProvider
  MaxEvents = 1
SYMMETRY Interchangeable
CHECK_DEADLOCK FALSE
INVARIANTS ArchiveHidden
