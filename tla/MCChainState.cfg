SPECIFICATION LiveSpec
CONSTANTS
  Block <- Tree
  Genesis = "g"
  Parent <- MCParent
  Ancestors <- MCAncestors
  Work <- MCWork
  Address <- MCAddress
  Worker = {w1, w2}
  Rpc = rpc
  Nobody = Nobody
  Null = Null
  TtorDistance = 1
  Worlds <- AllWorlds
INVARIANTS
  ValidatedOnce
  CandidatesLeft
  BadNeverActive
  BestIsCandidate
  SettledOnBest
PROPERTIES
  TargetsBetter
  EventuallySettled
CHECK_DEADLOCK TRUE
