------------------------------ MODULE MCMempool ------------------------------
(* Instances of Mempool.                                                   *)
EXTENDS Mempool

G(i) == <<0, i>>

(* 1 pays too little; 2 pays for itself, 3 for itself and for 1; 4         *)
(* conflicts with 1 and spends the coinbase 5.                             *)
FamilyIns == <<{G(0)}, {<<1, 0>>}, {<<1, 1>>}, {G(0), <<5, 0>>}, {}>>
FamilyFee == <<0, 1, 2, 1, 0>>
FamilyOuts == [t \in 0..5 |-> 2]
FamilyBlocks == {<<1>>, <<5, 1, 2>>, <<5>>, <<4>>}
FamilyHeight == [t \in 1..5 |-> IF t = 3 THEN 1 ELSE 0]
BothWays == {-1, 0, 1}
==============================================================================
