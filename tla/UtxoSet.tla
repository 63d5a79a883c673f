------------------------------- MODULE UtxoSet -------------------------------
(***************************************************************************)
(* What the coin database promises to the rest of the node: a best block   *)
(* and the set of unspent outputs, which is at every moment exactly the    *)
(* set the best chain defines.  Caching, flushing, undo data and parallel  *)
(* validation are invisible at this level: only connecting a child of the  *)
(* best block and disconnecting the best block change anything.            *)
(***************************************************************************)
CONSTANTS Block, Genesis, Parent, \* the block tree
          After                   \* After[b]: the unspent outputs once b is connected

VARIABLES best, utxo

vars == <<best, utxo>>

Init == best = Genesis /\ utxo = After[Genesis]

\* A validated child of the best block becomes the best block.
Connect(b) == /\ b # Genesis
              /\ best = Parent[b]
              /\ best' = b
              /\ utxo' = After[b]

\* The best block is undone.
Disconnect == /\ best # Genesis
              /\ best' = Parent[best]
              /\ utxo' = After[Parent[best]]

Next == Disconnect \/ \E b \in Block : Connect(b)

Spec == Init /\ [][Next]_vars
=============================================================================
