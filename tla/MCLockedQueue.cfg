SPECIFICATION Spec
CONSTANTS
  t1 = t1
  t2 = t2
  t3 = t3
  o1 = o1
  o2 = o2
  o3 = o3
  o4 = o4
  o5 = o5
  Threads <- MCThreads
  Objects <- MCObjects
  Nobody = Nobody
  MAX_POOL_SIZE = 1
  MaxRefs = 3
  Pthread = TRUE
SYMMETRY QueueSymmetry
INVARIANTS
  IInv
  Exclusive
  NoneForgotten
  PoolBound
  CountIsReferences
