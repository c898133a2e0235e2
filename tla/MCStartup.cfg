SPECIFICATION Spec
CONSTANTS
  c1 = c1
  c2 = c2
  c3 = c3
  p = p
  q = q
  t = t
  n = n
  Configs <- MCConfigs
  Paths <- MCPaths
  Save <- MCSave
  Tmp <- MCTmp
  Nodes <- MCNodes
  Rejected = Rejected
  Incomplete = Incomplete
  Unset = Unset
  Missing = Missing
  MaxMade = 3
INVARIANTS
  IInv
  ServesConfigured
PROPERTIES
  IdentityStays
