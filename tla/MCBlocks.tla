------------------------------ MODULE MCBlocks ------------------------------
(***************************************************************************)
(* A block tree with a fork:                                               *)
(*      g - a - b - d                                                      *)
(*           \- c                                                          *)
(* Block c creates and spends o3 within the block and creates the same     *)
(* outpoint as b with another coin; d is a coinbase that re-creates o1,    *)
(* whose first coin b has spent.                                           *)
(***************************************************************************)
EXTENDS Coins, TLC

CONSTANTS g, a, b, c, d, o1, o2, o3, k1, k2, k3

MCBlock == {g, a, b, c, d}
MCOutpoint == {o1, o2, o3}
MCCoin == {k1, k2, k3}
MCAncestors == (g :> {g}) @@ (a :> {g, a}) @@ (b :> {g, a, b}) @@ (c :> {g, a, c}) @@ (d :> {g, a, b, d})
MCParent == (a :> g) @@ (b :> a) @@ (c :> a) @@ (d :> b)

Add(o, k) == [kind |-> "add", out |-> o, coin |-> k, coinbase |-> FALSE]
Mint(o, k) == [kind |-> "add", out |-> o, coin |-> k, coinbase |-> TRUE]
Spend(o) == [kind |-> "spend", out |-> o, coin |-> k1, coinbase |-> FALSE]

MCOps == (g :> <<>>)
      @@ (a :> <<Mint(o1, k1)>>)
      @@ (b :> <<Spend(o1), Add(o2, k2)>>)
      @@ (c :> <<Add(o3, k1), Spend(o3), Spend(o1), Add(o2, k3)>>)
      @@ (d :> <<Mint(o1, k2), Spend(o2)>>)

None == [o \in MCOutpoint |-> Spent]
Run(u, ops) == LET f[k \in 0..Len(ops)] == IF k = 0 THEN u ELSE Apply(f[k-1], ops[k]) IN f
End(f, ops) == f[Len(ops)]
UtxoG == Run(None, MCOps[g])
UtxoA == Run(End(UtxoG, MCOps[g]), MCOps[a])
UtxoB == Run(End(UtxoA, MCOps[a]), MCOps[b])
UtxoC == Run(End(UtxoA, MCOps[a]), MCOps[c])
UtxoD == Run(End(UtxoB, MCOps[b]), MCOps[d])
MCUtxo == (g :> UtxoG) @@ (a :> UtxoA) @@ (b :> UtxoB) @@ (c :> UtxoC) @@ (d :> UtxoD)
=============================================================================
