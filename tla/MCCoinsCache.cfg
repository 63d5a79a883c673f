SPECIFICATION Spec
CONSTANTS
  g = g  a = a  b = b  c = c  d = d
  o1 = o1  o2 = o2  o3 = o3
  k1 = k1  k2 = k2  k3 = k3
  Spent = Spent
  Thread = {t1, t2}
  Genesis = g
  Outpoint <- MCOutpoint
  Coin <- MCCoin
  Block <- MCBlock
  Parent <- MCParent
  Ops <- MCOps
  Utxo <- MCUtxo
INVARIANTS
  ViewCorrect
  UndoExact
PROPERTY
  RefinesUtxoSet
CHECK_DEADLOCK TRUE
