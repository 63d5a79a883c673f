SPECIFICATION LiveSpec
CONSTANTS
  g = g  a = a  b = b  c = c  d = d
  o1 = o1  o2 = o2  o3 = o3
  k1 = k1  k2 = k2  k3 = k3
  Spent = Spent
  Genesis = g
  Outpoint <- MCOutpoint
  Coin <- MCCoin
  Block <- MCBlock
  Parent <- MCParent
  Ops <- MCOps
  Utxo <- MCUtxo
  Null = Null
  Ancestors <- MCAncestors
  MaxCrashes = 2
INVARIANTS
  DBConsistent
  NeverStuck
PROPERTIES
  Repaired
CHECK_DEADLOCK TRUE
