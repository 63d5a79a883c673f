-------------------------------- MODULE Coins --------------------------------
(***************************************************************************)
(* Coins, blocks and cache entries: the vocabulary of the coin views       *)
(* (src/src/coins.h, src/src/coins.cpp).                                   *)
(*                                                                         *)
(* A block is the sequence of its effects on outpoints, transaction by     *)
(* transaction, inputs before outputs; outputs that are unspendable are    *)
(* skipped by AddCoin and by ApplyBlockUndo alike and do not appear.       *)
(***************************************************************************)
EXTENDS Integers, Sequences

CONSTANTS Outpoint, Coin, Spent,    \* Spent: a coin that IsSpent()
          Block, Genesis, Parent,   \* the block tree
          Ops,                      \* Ops[b]: sequence of effects of block b
          Utxo                      \* Utxo[b][k]: the coins after k effects of b

Content == [Outpoint -> Coin \cup {Spent}]
Op == [kind : {"spend", "add"}, out : Outpoint, coin : Coin, coinbase : BOOLEAN]
Last(b) == Len(Ops[b])

\* What one effect of a block does to the set of unspent coins.
Apply(u, op) == [u EXCEPT ![op.out] = IF op.kind = "add" THEN op.coin ELSE Spent]

ASSUME TreeAssumption ==
  /\ Spent \notin Coin
  /\ Genesis \in Block
  /\ Parent \in [Block \ {Genesis} -> Block]

\* Blocks are the ones contextual validation lets through: an input spends an
\* unspent coin (HaveInputs), an output never replaces one (BIP30).
ASSUME BlockAssumption ==
  /\ Ops \in [Block -> Seq(Op)]
  /\ Ops[Genesis] = <<>>
  /\ Utxo[Genesis][0] = [o \in Outpoint |-> Spent]
  /\ DOMAIN Utxo = Block
  /\ \A b \in Block : Utxo[b] \in [0..Last(b) -> Content]
  /\ \A b \in Block \ {Genesis} : Utxo[b][0] = Utxo[Parent[b]][Last(Parent[b])]
  /\ \A b \in Block : \A k \in 1..Last(b) :
       /\ Utxo[b][k] = Apply(Utxo[b][k-1], Ops[b][k])
       /\ Ops[b][k].kind = "spend" <=> Utxo[b][k-1][Ops[b][k].out] # Spent

After == [b \in Block |-> Utxo[b][Last(b)]]
-----------------------------------------------------------------------------
\* One slot of a CCoinsMap: in says whether the map holds an entry at all.
Slot == [in : BOOLEAN, coin : Coin \cup {Spent}, dirty : BOOLEAN, fresh : BOOLEAN]
Absent == [in |-> FALSE, coin |-> Spent, dirty |-> FALSE, fresh |-> FALSE]
Empty == [o \in Outpoint |-> Absent]

\* What a slot, and a whole cache, shows on top of its base view.
Show(e, u) == IF e.in THEN e.coin ELSE u
Shown(cache, under) == [o \in Outpoint |-> Show(cache[o], under[o])]

\* A slot is sound on top of coin u: FRESH only where the base has no unspent coin,
\* an entry without DIRTY repeats the base, and no flags without an entry.
Sound(e, u) ==
  /\ e.in => (e.fresh => u = Spent) /\ (~e.dirty => e.coin = u)
  /\ ~e.in => e = Absent
-----------------------------------------------------------------------------
(* CCoinsViewCache, one slot at a time.                                    *)

\* FetchCoinNL: slot e after a lookup, where found and coin are the answer of the
\* view below.  A base that holds a spent coin will never need to hear of it again.
Fetch(e, found, coin) ==
  IF e.in THEN e
  ELSE IF ~found THEN Absent
  ELSE [in |-> TRUE, coin |-> coin, dirty |-> FALSE, fresh |-> coin = Spent]

\* FetchCoinNL of a cache on top of the database, which stores no spent coins.
FetchOverDB(e, stored) == Fetch(e, stored # Spent, stored)

Have(e) == e.in /\ e.coin # Spent

\* Mutant of SpendCoin: the entry is erased whether or not it is FRESH.
SpendCoinErases(e) == Absent

\* SpendCoin on a fetched slot.
SpendCoin(e) ==
  IF ~e.in THEN e
  ELSE IF e.fresh THEN Absent
  ELSE [e EXCEPT !.dirty = TRUE, !.coin = Spent]

\* AddCoin on a slot that was not necessarily fetched.
AddCoin(e, c, possible_overwrite) ==
  [in |-> TRUE, coin |-> c, dirty |-> TRUE,
   fresh |-> e.fresh \/ (~possible_overwrite /\ ~e.dirty)]

\* AddCoin throws "Adding new coin that replaces non-pruned entry".
AddThrows(e, possible_overwrite) == ~possible_overwrite /\ Have(e)

\* BatchWrite of one slot c of a child cache onto slot p of its parent.
BatchWrite(p, c) ==
  IF ~c.dirty THEN p
  ELSE IF ~p.in
       THEN IF c.fresh /\ c.coin = Spent THEN p
            ELSE [in |-> TRUE, coin |-> c.coin, dirty |-> TRUE, fresh |-> c.fresh]
  ELSE IF p.fresh /\ c.coin = Spent THEN Absent
  ELSE [p EXCEPT !.coin = c.coin, !.dirty = TRUE]

\* BatchWrite throws "FRESH flag misapplied ...".
FlushThrows(p, c) == c.dirty /\ c.fresh /\ p.in /\ p.coin # Spent
=============================================================================
