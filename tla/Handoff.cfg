SPECIFICATION Spec
CONSTANTS
  Session = {s1, s2}
  Provider = {p1, p2}
  NoSession = NoSession
  NoProvider = NoProvider
  Orphan = Orphan
  ClosedToAll = TRUE
  Override = NoProvider
  MaxEvents = 3
SYMMETRY Interchangeable
CHECK_DEADLOCK FALSE
INVARIANTS TypeOK LockDiscipline FenceCoversAck MarkedWhileDetached ViewsStaySubscribed VerifiedRuntime SuppressionJournalled ReconcileOnlyWhenIdle
PROPERTIES SettledRoute FilesRecoverable TurnNeverInterrupted ArchiveIsolated
