--------------------------- MODULE MCTxnValidator ---------------------------
(* A parent with two outputs, a child of it, a rival of the parent, and an *)
(* orphan that spends both outputs of the parent.  In a busy world blocks, *)
(* evictions and faults interfere; in the last one peers only send.        *)
EXTENDS TxnValidator

CONSTANTS parent, child, rival, orphan, alice, bob

Unspent(i) == <<Genesis, i>>
TheOuts == [t \in Tx \cup {Genesis} |-> IF t = Genesis THEN 3 ELSE IF t = parent THEN 2 ELSE 1]
TwoPeers == [t \in Tx |-> IF t = child THEN bob ELSE alice]
TheIns == [t \in Tx |-> CASE t = parent -> <<Unspent(0)>>
                           [] t = child  -> << <<parent, 0>>, Unspent(1)>>
                           [] t = rival  -> <<Unspent(2), Unspent(0)>>
                           [] OTHER      -> << <<parent, 0>>, <<parent, 1>> >>]
Busy(txs, slow, faulty, n) ==
  [txs |-> txs, kind |-> [t \in Tx |-> IF t = slow THEN "slow" ELSE "ok"],
   faulty |-> faulty, queue |-> n, orphans |-> 1, pool |-> 1, upsets |-> TRUE]
TheWorlds ==
  {Busy({parent, child, rival}, orphan, {child}, 1), Busy({parent, rival}, rival, {rival}, 2),
   Busy({parent, child}, parent, {child}, 2),
   [txs |-> {parent, child, orphan},
    kind |-> [t \in Tx |-> CASE t = parent -> "nonstd" [] t = orphan -> "policy" [] OTHER -> "ok"],
    faulty |-> {}, queue |-> 3, orphans |-> 2, pool |-> 3, upsets |-> FALSE]}

(* An orphan whose first retry may run out of time.                        *)
SlowOrphan ==
  {[txs |-> {parent, child, orphan}, kind |-> [t \in Tx |-> IF t = orphan THEN "slow" ELSE "ok"],
    faulty |-> {}, queue |-> 2, orphans |-> 1, pool |-> 3, upsets |-> FALSE]}
=============================================================================
