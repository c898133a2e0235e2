SPECIFICATION Spec
CONSTANTS
  main = main
  t2 = t2
  t3 = t3
  c1 = c1
  c2 = c2
  c3 = c3
  c4 = c4
  Null = Null
  Callers <- MCCallers
  Connections <- MCConnections
  max_conn_ = 1
SYMMETRY PoolSymmetry
INVARIANTS
  TypeOK
  Exclusive
  NoneForgotten
  OnePerCaller
