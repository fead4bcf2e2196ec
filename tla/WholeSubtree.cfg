SPECIFICATION Spec
CONSTANTS
  root = root
  a = a
  b = b
  c = c
  Thread <- MCThread
  Root = root
  Parent <- MCParent
  Limit = 3
  MaxFaults = 0
INVARIANTS WholeSubtree
