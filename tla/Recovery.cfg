SPECIFICATION FairSpec
CONSTANTS
  root = root
  a = a
  b = b
  c = c
  Thread <- MCThread
  Root = root
  Parent <- MCParent
  Limit = 3
  MaxFaults = 3
INVARIANTS Covered JournalAccepted
PROPERTIES ChildrenFirst MovesHidden FilesRecoverable Restored
