SPECIFICATION Spec
CONSTANTS
  Block <- Tree
  Genesis = "g"
  Parent <- MCParent
  Ancestors <- MCAncestors
  Work <- MCWork
  Address <- MCAddress
  Worker = {w1}
  Rpc = rpc
  Nobody = Nobody
  Null = Null
  TtorDistance = 1
  Worlds <- Invalidated
INVARIANT FailedNotActive
