SPECIFICATION Spec
CONSTANTS
  N = 5
  Ins <- FamilyIns
  NOuts <- FamilyOuts
  Fee <- FamilyFee
  MinFee = 1
  MinHeight <- FamilyHeight
  Coinbase = {5}
  Blocks <- FamilyBlocks
  Deltas <- BothWays
  MaxPool = 3
  Expiring = TRUE
  MaxChain = 2
INVARIANTS CheckMempool CheckJournal 
