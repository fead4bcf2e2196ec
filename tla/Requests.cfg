SPECIFICATION FairSpec
CONSTANTS
  MaxRequests = 2
  Call = {c1}
  Nobody = Nobody
CHECK_DEADLOCK FALSE
INVARIANTS TypeOK SeenClosedOnce OwnAnswer InternalHidden FenceUntilAnswered SavedIfAccepted
PROPERTIES LockFreed ShutdownEnds
