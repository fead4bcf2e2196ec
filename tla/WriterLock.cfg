SPECIFICATION FairSpec
CONSTANTS
  Process = {w1, w2, w3}
  Nobody = Nobody
  Inode = {i1, i2, i3}
  NoInode = NoInode
  MaxFaults = 2
INVARIANTS OneWriter HolderNamed
PROPERTIES ActsAsLock ReleaseEnds
