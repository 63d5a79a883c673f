SPECIFICATION Spec
CONSTANTS
  parent = parent  child = child  rival = rival  orphan = orphan  alice = alice  bob = bob
  Genesis = genesis
  Tx = {parent, child, rival, orphan}
  Ins <- TheIns
  NOuts <- TheOuts
  Addrs = {1, 2}
  Peers = {alice, bob}
  PeerOf <- TwoPeers
  StdBatch = 2
  NonStdBatch = 1
  MaxCollected = 4
  Worlds <- TheWorlds
INVARIANTS NoDoubleSpend DetectorExact OncePerBatch
PROPERTIES OrphanRetried 
CHECK_DEADLOCK FALSE
