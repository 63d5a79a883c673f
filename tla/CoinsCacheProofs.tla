-------------------------- MODULE CoinsCacheProofs --------------------------
(***************************************************************************)
(* Proofs about CoinsCache, for any block tree, any blocks, any number of  *)
(* outpoints and of validating threads: the inductive invariant, the steps *)
(* that connect a block, those that disconnect one, the caches' own steps, *)
(* and the theorems.                                                       *)
(***************************************************************************)
EXTENDS CoinsCache, TLAPS

\* A cache slot seen with the coin below it: sound, and showing coin v.
Holds(e, u, v) == Sound(e, u) /\ Show(e, u) = v
-----------------------------------------------------------------------------
(* The block constants.                                                    *)

\* The contents that blocks define are well typed.
LEMMA ConstTypes ==
  /\ \A b \in Block : Last(b) \in Nat /\ After[b] \in Content
  /\ \A b \in Block : \A k \in 0..Last(b) : Utxo[b][k] \in Content
  /\ \A b \in Block : \A k \in 1..Last(b) : Ops[b][k] \in Op
  /\ \A b \in Block \ {Genesis} : Parent[b] \in Block /\ Utxo[b][0] = After[Parent[b]]
<1>1. \A b \in Block : Last(b) \in Nat
  BY BlockAssumption DEF Last
<1>2. \A b \in Block : \A k \in 0..Last(b) : Utxo[b][k] \in Content
  BY ZenonT(60), BlockAssumption
<1>3. \A b \in Block : \A k \in 1..Last(b) : Ops[b][k] \in Op
  BY BlockAssumption DEF Last
<1>4. \A b \in Block : After[b] = Utxo[b][Last(b)]
  BY DEF After
<1>5. \A b \in Block \ {Genesis} : Parent[b] \in Block
  BY TreeAssumption
<1>6. \A b \in Block : After[b] \in Content
  <2> TAKE b \in Block
  <2>1. Last(b) \in 0..Last(b)
    BY <1>1
  <2> QED BY <2>1, <1>2, <1>4
<1>7. \A b \in Block \ {Genesis} : Utxo[b][0] = After[Parent[b]]
  BY <1>4, <1>5, BlockAssumption
<1> QED BY <1>1, <1>2, <1>3, <1>5, <1>6, <1>7

\* One effect changes one outpoint: a spend clears an unspent coin, an addition
\* fills a spent one.
LEMMA EffectOf ==
  ASSUME NEW b \in Block, NEW k \in 1..Last(b), NEW o \in Outpoint
  PROVE  /\ o # Ops[b][k].out => Utxo[b][k][o] = Utxo[b][k-1][o]
         /\ Ops[b][k].kind = "add" =>
              Utxo[b][k][Ops[b][k].out] = Ops[b][k].coin /\ Utxo[b][k-1][Ops[b][k].out] = Spent
         /\ Ops[b][k].kind = "spend" =>
              Utxo[b][k][Ops[b][k].out] = Spent /\ Utxo[b][k-1][Ops[b][k].out] # Spent
<1>1. k - 1 \in 0..Last(b) /\ k \in 0..Last(b)
  BY ConstTypes
<1>2. Utxo[b][k-1] \in Content /\ Ops[b][k] \in Op
  BY <1>1, ConstTypes
<1>3. /\ Utxo[b][k] = Apply(Utxo[b][k-1], Ops[b][k])
      /\ Ops[b][k].kind = "spend" <=> Utxo[b][k-1][Ops[b][k].out] # Spent
  BY BlockAssumption
<1> QED BY <1>2, <1>3 DEF Apply, Content, Op
-----------------------------------------------------------------------------
(* One slot at a time: what CCoinsViewCache does to a sound slot.          *)

\* SpendCoin leaves a sound slot that shows a spent coin.
LEMMA SpendHolds ==
  ASSUME NEW e \in Slot, NEW u \in Coin \cup {Spent}, NEW v \in Coin \cup {Spent},
         Holds(e, u, v), e.in \/ u = Spent
  PROVE  SpendCoin(e) \in Slot /\ Holds(SpendCoin(e), u, Spent)
BY ZenonT(60) DEF Holds, Sound, Show, SpendCoin, Slot, Absent

\* AddCoin leaves a sound slot that shows the coin, if a caller that denies the
\* possibility of an overwrite is right.
LEMMA AddHolds ==
  ASSUME NEW e \in Slot, NEW u \in Coin \cup {Spent}, NEW v \in Coin \cup {Spent},
         NEW c \in Coin, NEW possible_overwrite \in BOOLEAN,
         Holds(e, u, v), possible_overwrite \/ v = Spent
  PROVE  /\ AddCoin(e, c, possible_overwrite) \in Slot
         /\ Holds(AddCoin(e, c, possible_overwrite), u, c)
         /\ ~AddThrows(e, possible_overwrite)
BY DEF Holds, Sound, Show, AddCoin, AddThrows, Have, Slot, Absent

\* BatchWrite moves what the child shows into the parent, keeps the parent sound
\* and does not throw.
LEMMA BatchHolds ==
  ASSUME NEW p \in Slot, NEW c \in Slot, NEW d \in Coin \cup {Spent},
         NEW u \in Coin \cup {Spent}, NEW v \in Coin \cup {Spent},
         Holds(p, d, u), Holds(c, u, v)
  PROVE  /\ BatchWrite(p, c) \in Slot
         /\ Holds(BatchWrite(p, c), d, v)
         /\ ~FlushThrows(p, c)
<1> USE DEF Holds, Sound, Show, Slot, Absent
<1>1. ~FlushThrows(p, c)
  BY DEF FlushThrows
<1>2. CASE ~c.dirty
  BY <1>1, <1>2 DEF BatchWrite
<1>3. CASE c.dirty /\ ~p.in
  BY <1>1, <1>3 DEF BatchWrite
<1>4. CASE c.dirty /\ p.in /\ p.fresh /\ c.coin = Spent
  BY <1>1, <1>4 DEF BatchWrite
<1>5. CASE c.dirty /\ p.in /\ ~(p.fresh /\ c.coin = Spent)
  <2>1. BatchWrite(p, c) = [in |-> TRUE, coin |-> c.coin, dirty |-> TRUE, fresh |-> p.fresh]
    BY ZenonT(60), <1>5 DEF BatchWrite
  <2> QED BY <1>1, <1>5, <2>1
<1> QED BY <1>2, <1>3, <1>4, <1>5
-----------------------------------------------------------------------------
(* The inductive invariant.                                                *)

\* What is known of thread t while it works on a block: where its view stands.
Working(t) ==
  /\ \A o \in Outpoint :
       Holds(view[t][o], After[base[t]][o], Utxo[block[t]][pos[t]][o])
  /\ block[t] # Genesis
  /\ pc[t] \in {"connect", "scripts"} =>
       /\ base[t] = Parent[block[t]]
       /\ base[t] # Genesis => base[t] \in hasUndo
       /\ Restores(undo[t], block[t], pos[t])
  /\ pc[t] = "connect" => best = base[t]
  /\ pc[t] = "scripts" => pos[t] = Last(block[t])
  /\ pc[t] = "disconnect" =>
       /\ block[t] = best /\ base[t] = best
       /\ Restores(undo[t], block[t], Last(block[t]))

\* cs_main excludes; undo data exists for the tip and is closed under parents.
Mutex == \A t, u \in Thread :
  pc[t] \in {"connect", "disconnect"} /\ pc[u] \in {"connect", "disconnect"} => t = u
UndoThere ==
  /\ best # Genesis => best \in hasUndo
  /\ \A b \in hasUndo : b # Genesis /\ (Parent[b] # Genesis => Parent[b] \in hasUndo)

TipHolds == \A o \in Outpoint : Holds(tip[o], disk[o], After[best][o])

\* The inductive invariant.
IInv ==
  /\ TypeOK /\ NoError /\ TipHolds /\ Mutex /\ UndoThere /\ UndoExact
  /\ \A t \in Thread : pc[t] # "idle" => Working(t)
-----------------------------------------------------------------------------
(* Lookups.                                                                *)

\* A lookup in pcoinsTip changes nothing it shows, and misses only spent coins.
LEMMA FetchTipHolds ==
  ASSUME TypeOK, TipHolds, NEW o \in Outpoint
  PROVE  /\ FetchTip(o) \in Slot
         /\ Holds(FetchTip(o), disk[o], After[best][o])
         /\ FetchTip(o).in \/ After[best][o] = Spent
<1>1. tip[o] \in Slot /\ disk[o] \in Coin \cup {Spent}
  BY ZenonT(60) DEF TypeOK, Content
<1>2. Holds(tip[o], disk[o], After[best][o])
  BY DEF TipHolds
<1> QED BY <1>1, <1>2 DEF FetchTip, FetchOverDB, Fetch, Holds, Sound, Show, Slot, Absent

\* A lookup in the view of a block changes nothing that view or pcoinsTip show.
LEMMA FetchViewHolds ==
  ASSUME IInv, NEW t \in Thread, NEW o \in Outpoint, pc[t] # "idle", best = base[t]
  PROVE  /\ FetchView(t, o) \in Slot
         /\ Holds(FetchView(t, o), After[base[t]][o], Utxo[block[t]][pos[t]][o])
         /\ FetchView(t, o).in \/ After[base[t]][o] = Spent
         /\ TipAfterFetch(t, o) \in [Outpoint -> Slot]
         /\ \A p \in Outpoint : Holds(TipAfterFetch(t, o)[p], disk[p], After[best][p])
<1>1. /\ FetchTip(o) \in Slot
      /\ Holds(FetchTip(o), disk[o], After[best][o])
      /\ FetchTip(o).in \/ After[best][o] = Spent
  BY FetchTipHolds DEF IInv
<1>2. view[t][o] \in Slot /\ tip \in [Outpoint -> Slot]
  BY ZenonT(60) DEF IInv, TypeOK
<1>3. Holds(view[t][o], After[base[t]][o], Utxo[block[t]][pos[t]][o])
  BY DEF IInv, Working
<1>4. \A p \in Outpoint : Holds(tip[p], disk[p], After[best][p])
  BY DEF IInv, TipHolds
<1>5. After[best][o] \in Coin \cup {Spent}
  BY ZenonT(60), ConstTypes DEF IInv, TypeOK, Content
<1>6. /\ FetchView(t, o) \in Slot
      /\ Holds(FetchView(t, o), After[base[t]][o], Utxo[block[t]][pos[t]][o])
      /\ FetchView(t, o).in \/ After[base[t]][o] = Spent
  <2>1. CASE view[t][o].in
    BY SMTT(60), Z3T(60), <2>1, <1>2, <1>3 DEF FetchView, Fetch
  <2>2. CASE ~view[t][o].in /\ ~FetchTip(o).in
    BY SMTT(60), Z3T(60), <2>2, <1>1, <1>2, <1>3 DEF FetchView, Fetch, Holds, Sound, Show, Slot, Absent
  <2>3. CASE ~view[t][o].in /\ FetchTip(o).in
    <3>1. FetchTip(o).coin = After[best][o]
      BY <2>3, <1>1 DEF Holds, Show
    <3>2. Utxo[block[t]][pos[t]][o] = After[best][o]
      BY <2>3, <1>3 DEF Holds, Show
    <3> QED BY ZenonT(60), <2>3, <3>1, <3>2, <1>5 DEF FetchView, Fetch, Holds, Sound, Show, Slot
  <2> QED BY <2>1, <2>2, <2>3
<1>7. TipAfterFetch(t, o) \in [Outpoint -> Slot]
  BY <1>1, <1>2 DEF TipAfterFetch
<1>8. \A p \in Outpoint : Holds(TipAfterFetch(t, o)[p], disk[p], After[best][p])
  BY ZenonT(60), <1>1, <1>2, <1>4 DEF TipAfterFetch
<1> QED BY <1>6, <1>7, <1>8
-----------------------------------------------------------------------------
(* The invariant holds initially and every action preserves it.            *)

\* The caches start empty over the coins of the genesis block.
LEMMA InitIInv == Init => IInv
<1> SUFFICES ASSUME Init PROVE IInv
  OBVIOUS
<1>1. TypeOK
  <2>1. After[Genesis] \in Content /\ Last(Genesis) \in Nat
    BY ConstTypes, TreeAssumption
  <2>2. \A b \in Block : BlankUndo(b) \in Undo(b)
    BY DEF BlankUndo, Undo
  <2>3. Absent \in Slot
    BY DEF Absent, Slot
  <2> QED BY <2>1, <2>2, <2>3, TreeAssumption DEF Init, TypeOK, Empty
<1>2. TipHolds
  BY ZenonT(60) DEF Init, TipHolds, Holds, Sound, Show, Empty, Absent
<1>3. NoError /\ Mutex /\ UndoThere /\ UndoExact
  BY DEF Init, NoError, Mutex, UndoThere, UndoExact
<1>4. \A t \in Thread : pc[t] = "idle"
  BY ZenonT(60) DEF Init
<1> QED BY <1>1, <1>2, <1>3, <1>4 DEF IInv

\* A step that leaves thread u alone keeps what is known of u, provided u does not
\* hold cs_main when the tip moves.
LEMMA OtherKeeps ==
  ASSUME NEW u \in Thread, Working(u), pc[u] # "idle",
         pc'[u] = pc[u], view'[u] = view[u], block'[u] = block[u], pos'[u] = pos[u],
         base'[u] = base[u], undo'[u] = undo[u], hasUndo \subseteq hasUndo',
         best' = best \/ pc[u] = "scripts"
  PROVE  Working(u)'
BY DEF Working, Restores

\* Taking up a block preserves the invariant.
LEMMA StartConnectStep ==
  ASSUME IInv, NEW t \in Thread, NEW b \in Block, StartConnect(t, b)
  PROVE  IInv'
<1> USE DEF StartConnect, IInv
<1>0. Absent \in Slot /\ BlankUndo(b) \in Undo(b) /\ Last(b) \in Nat
  BY ConstTypes DEF Absent, Slot, BlankUndo, Undo
<1>1. TypeOK'
  BY <1>0 DEF TypeOK, Empty
<1>2. TipHolds' /\ NoError' /\ UndoThere' /\ UndoExact'
  BY DEF TipHolds, NoError, UndoThere, UndoExact
<1>3. Mutex'
  BY DEF Mutex, TypeOK, Locked
<1>4. Working(t)'
  <2>1. /\ pc'[t] = "connect" /\ block'[t] = b /\ base'[t] = best /\ pos'[t] = 0
        /\ view'[t] = Empty /\ best' = best /\ hasUndo' = hasUndo
    BY DEF TypeOK
  <2>2. Utxo[b][0] = After[best]
    BY ConstTypes
  <2>3. \A o \in Outpoint : Holds(Empty[o], After[best][o], Utxo[b][0][o])
    BY <2>2 DEF Holds, Sound, Show, Empty, Absent
  <2>4. best # Genesis => best \in hasUndo
    BY DEF UndoThere
  <2>5. Restores(undo[t], b, 0)' /\ b # Genesis /\ Parent[b] = best
    BY DEF Restores
  <2> HIDE DEF StartConnect, IInv
  <2> QED BY <2>1, <2>3, <2>4, <2>5 DEF Working
<1>5. \A u \in Thread : u # t /\ pc'[u] # "idle" => Working(u)'
  <2> TAKE u \in Thread
  <2> HAVE u # t /\ pc'[u] # "idle"
  <2>1. pc[u] # "idle" /\ Working(u)
    BY DEF TypeOK
  <2> QED BY <2>1, OtherKeeps DEF TypeOK
<1> QED BY SMTT(60), Z3T(60), <1>1, <1>2, <1>3, <1>4, <1>5

\* Looking a coin up while connecting preserves the invariant.
LEMMA LookUpStep ==
  ASSUME IInv, NEW t \in Thread, NEW o \in Outpoint, LookUp(t, o)
  PROVE  IInv'
<1> USE DEF LookUp
<1>0. /\ pc[t] # "idle" /\ best = base[t] /\ Working(t)
  BY DEF IInv, Working
<1>1. /\ FetchView(t, o) \in Slot
      /\ Holds(FetchView(t, o), After[base[t]][o], Utxo[block[t]][pos[t]][o])
      /\ tip' \in [Outpoint -> Slot]
      /\ \A p \in Outpoint : Holds(tip'[p], disk[p], After[best][p])
  BY SMTT(60), Z3T(60), <1>0, FetchViewHolds
<1>2. TypeOK'
  BY <1>1 DEF IInv, TypeOK
<1>3. TipHolds' /\ NoError' /\ UndoThere' /\ UndoExact' /\ Mutex'
  BY <1>1 DEF IInv, TipHolds, NoError, UndoThere, UndoExact, Mutex
<1>4. Working(t)'
  <2>1. \A p \in Outpoint : view'[t][p] = IF p = o THEN FetchView(t, o) ELSE view[t][p]
    BY SMTT(60), Z3T(60) DEF IInv, TypeOK
  <2>2. \A p \in Outpoint : Holds(view'[t][p], After[base[t]][p], Utxo[block[t]][pos[t]][p])
    BY <2>1, <1>0, <1>1 DEF Working
  <2>3. UNCHANGED <<best, pc, block, pos, base, undo, hasUndo>>
    OBVIOUS
  <2>4. \A p \in Outpoint :
          Holds(view'[t][p], After[base'[t]][p], Utxo[block'[t]][pos'[t]][p])
    BY <2>2, <2>3
  <2> HIDE DEF LookUp
  <2> QED BY ZenonT(60), <2>3, <2>4, <1>0 DEF Working, Restores
<1>5. \A u \in Thread : u # t /\ pc'[u] # "idle" => Working(u)'
  <2> TAKE u \in Thread
  <2> HAVE u # t /\ pc'[u] # "idle"
  <2>1. pc[u] # "idle" /\ Working(u)
    BY DEF IInv, TypeOK
  <2>2. view'[u] = view[u]
    BY DEF IInv, TypeOK
  <2> QED BY <2>1, <2>2, OtherKeeps
<1> QED BY <1>2, <1>3, <1>4, <1>5 DEF IInv

\* Spending an input preserves the invariant, and the input is there.
LEMMA SpendInputStep ==
  ASSUME IInv, NEW t \in Thread, SpendInput(t)
  PROVE  IInv'
<1> DEFINE b == block[t]
           k == pos[t] + 1
           o == NextOp(t).out
           e == FetchView(t, o)
<1>0. /\ pc[t] = "connect" /\ best = base[t] /\ Working(t)
      /\ b \in Block /\ k \in 1..Last(b) /\ k - 1 = pos[t] /\ k = pos[t] + 1
      /\ pos[t] \in Nat /\ Last(b) \in Nat /\ pos[t] \in 0..Last(b)
      /\ NextOp(t) = Ops[b][k] /\ o \in Outpoint /\ Ops[b][k].kind = "spend"
  <2>1. pc[t] = "connect" /\ pos[t] < Last(b) /\ NextOp(t).kind = "spend"
    BY SMTT(60), Z3T(60) DEF UndoCoin, SpendInput
  <2>2. Working(t) /\ best = base[t]
    BY <2>1 DEF IInv, Working
  <2>3. b \in Block /\ pos[t] \in Nat /\ Last(b) \in Nat
    BY ZenonT(60), ConstTypes DEF IInv, TypeOK
  <2>4. k \in 1..Last(b) /\ k - 1 = pos[t] /\ pos[t] \in 0..Last(b)
    BY SMTT(60), Z3T(60), <2>1, <2>3
  <2>5. NextOp(t) = Ops[b][k] /\ NextOp(t) \in Op
    BY <2>3, <2>4, ConstTypes DEF NextOp
  <2> QED BY <2>1, <2>2, <2>3, <2>4, <2>5 DEF Op
<1>1. /\ e \in Slot
      /\ Holds(e, After[base[t]][o], Utxo[b][pos[t]][o])
      /\ e.in \/ After[base[t]][o] = Spent
      /\ TipAfterFetch(t, o) \in [Outpoint -> Slot]
      /\ \A p \in Outpoint : Holds(TipAfterFetch(t, o)[p], disk[p], After[best][p])
  BY ZenonT(60), <1>0, FetchViewHolds
<1>2. /\ Utxo[b][pos[t]][o] # Spent /\ Utxo[b][k][o] = Spent
      /\ \A p \in Outpoint : p # o => Utxo[b][k][p] = Utxo[b][pos[t]][p]
  <2>1. b \in Block /\ k \in 1..Last(b) /\ k - 1 = pos[t] /\ o = Ops[b][k].out
    BY <1>0
  <2>2. Ops[b][k].kind = "spend" /\ o \in Outpoint
    BY ZenonT(60), <1>0
  <2> HIDE DEF b, k, o, e
  <2>3. Utxo[b][k][o] = Spent /\ Utxo[b][k-1][o] # Spent
    BY ZenonT(60), <2>1, <2>2, EffectOf
  <2>4. \A p \in Outpoint : p # o => Utxo[b][k][p] = Utxo[b][k-1][p]
    BY ZenonT(60), <2>1, EffectOf
  <2> QED BY SMTT(60), Z3T(60), <2>1, <2>3, <2>4
<1>3. e.in /\ e.coin = Utxo[b][pos[t]][o]
  BY SMTT(60), Z3T(60), <1>1, <1>2 DEF Holds, Show
<1>4. /\ view' = [view EXCEPT ![t][o] = SpendCoin(e)]
      /\ tip' = TipAfterFetch(t, o)
      /\ undo' = [undo EXCEPT ![t][k] = e.coin]
      /\ err' = "none"
      /\ pos' = [pos EXCEPT ![t] = k]
      /\ UNCHANGED <<disk, best, pc, block, base, hasUndo, undoFile>>
  BY <1>3 DEF UndoCoin, SpendInput
<1>5. After[base[t]][o] \in Coin \cup {Spent} /\ Utxo[b][pos[t]][o] \in Coin \cup {Spent}
  <2>1. After[base[t]] \in Content /\ Utxo[b][pos[t]] \in Content
    <3>1. base[t] \in Block
      BY ZenonT(60) DEF IInv, TypeOK
    <3> QED BY <3>1, <1>0, ConstTypes
  <2> QED BY ZenonT(60), <2>1, <1>0 DEF Content
<1>6. SpendCoin(e) \in Slot /\ Holds(SpendCoin(e), After[base[t]][o], Spent)
  BY <1>1, <1>3, <1>5, SpendHolds
<1> HIDE DEF o, e
<1>7. TypeOK'
  <2>1. undo'[t] \in Undo(b) /\ DOMAIN undo' = Thread
    <3>1. undo[t] \in [1..Last(b) -> Coin \cup {Spent}] /\ DOMAIN undo = Thread
      BY ZenonT(60) DEF IInv, TypeOK, Undo
    <3>2. undo'[t] = [undo[t] EXCEPT ![k] = e.coin]
      BY <1>4, <3>1
    <3> QED BY ZenonT(60), <3>1, <3>2, <1>3, <1>4, <1>5 DEF Undo
  <2>2. \A u \in Thread : undo'[u] \in Undo(block[u])
    BY ZenonT(60), <2>1, <1>4 DEF IInv, TypeOK
  <2>3. pos' \in [Thread -> Nat] /\ \A u \in Thread : pos'[u] <= Last(block[u])
    <3>1. pos \in [Thread -> Nat] /\ \A u \in Thread : pos[u] <= Last(block[u])
      BY ZenonT(60) DEF IInv, TypeOK
    <3>2. k \in Nat /\ k <= Last(block[t])
      BY <1>0
    <3>3. pos' = [pos EXCEPT ![t] = k]
      BY <1>4
    <3> HIDE DEF k
    <3> QED BY <3>1, <3>2, <3>3
  <2>4. view' \in [Thread -> [Outpoint -> Slot]]
    BY ZenonT(60), <1>0, <1>4, <1>6 DEF IInv, TypeOK
  <2> QED BY ZenonT(60), <2>1, <2>2, <2>3, <2>4, <1>1, <1>4 DEF IInv, TypeOK
<1>8. TipHolds' /\ NoError' /\ UndoThere' /\ UndoExact' /\ Mutex'
  BY ZenonT(60), <1>1, <1>4 DEF IInv, TipHolds, NoError, UndoThere, UndoExact, Mutex
<1>9. Working(t)'
  <2>1. \A p \in Outpoint : view'[t][p] = IF p = o THEN SpendCoin(e) ELSE view[t][p]
    BY ZenonT(60), <1>0, <1>4 DEF IInv, TypeOK
  <2>2. pos'[t] = k /\ block'[t] = b /\ base'[t] = base[t]
    BY ZenonT(60), <1>4 DEF IInv, TypeOK
  <2>3. \A p \in Outpoint : Holds(view'[t][p], After[base'[t]][p], Utxo[block'[t]][pos'[t]][p])
    BY ZenonT(60), <2>1, <2>2, <1>0, <1>2, <1>6 DEF Working
  <2>a. undo[t] \in [1..Last(b) -> Coin \cup {Spent}] /\ DOMAIN undo = Thread
    BY ZenonT(60) DEF IInv, TypeOK, Undo
  <2>b. undo'[t] = [undo[t] EXCEPT ![k] = e.coin]
    BY <1>4, <2>a
  <2>4. \A i \in 1..pos[t] : undo'[t][i] = undo[t][i]
    BY <1>0, <2>a, <2>b
  <2>5. undo'[t][k] = Utxo[b][k-1][Ops[b][k].out]
    BY ZenonT(60), <1>0, <1>3, <2>a, <2>b DEF o
  <2>6. Restores(undo'[t], b, k)
    <3>1. Restores(undo[t], b, pos[t])
      BY SMTT(60), Z3T(60), <1>0 DEF Working
    <3>2. \A i \in 1..k : i \in 1..pos[t] \/ i = k
      BY <1>0
    <3> QED BY ZenonT(60), <2>4, <2>5, <3>1, <3>2 DEF Restores
  <2> QED BY <2>2, <2>3, <2>6, <1>0, <1>4 DEF Working
<1>10. \A u \in Thread : u # t /\ pc'[u] # "idle" => Working(u)'
  <2> TAKE u \in Thread
  <2> HAVE u # t /\ pc'[u] # "idle"
  <2>1. pc[u] # "idle" /\ Working(u)
    BY <1>4 DEF IInv
  <2>2. view'[u] = view[u] /\ undo'[u] = undo[u] /\ pos'[u] = pos[u]
    BY ZenonT(60), <1>4 DEF IInv, TypeOK
  <2> QED BY <2>1, <2>2, <1>4, OtherKeeps
<1> QED BY SMTT(60), Z3T(60), <1>7, <1>8, <1>9, <1>10 DEF IInv

\* Adding an output preserves the invariant, and AddCoin does not throw.
LEMMA AddOutputStep ==
  ASSUME IInv, NEW t \in Thread, AddOutput(t)
  PROVE  IInv'
<1> DEFINE b == block[t]
           k == pos[t] + 1
           o == NextOp(t).out
           e == view[t][o]
<1>0. /\ pc[t] = "connect" /\ best = base[t] /\ Working(t)
      /\ b \in Block /\ k \in 1..Last(b) /\ k - 1 = pos[t] /\ k = pos[t] + 1
      /\ pos[t] \in Nat /\ Last(b) \in Nat /\ pos[t] \in 0..Last(b)
      /\ NextOp(t) = Ops[b][k] /\ Ops[b][k].kind = "add"
      /\ o \in Outpoint /\ NextOp(t).coin \in Coin /\ NextOp(t).coinbase \in BOOLEAN
  <2>1. pc[t] = "connect" /\ pos[t] < Last(b) /\ NextOp(t).kind = "add"
    BY ZenonT(60) DEF AddOutput
  <2>2. Working(t) /\ best = base[t]
    BY <2>1 DEF IInv, Working
  <2>3. b \in Block /\ pos[t] \in Nat /\ Last(b) \in Nat
    BY ZenonT(60), ConstTypes DEF IInv, TypeOK
  <2>4. k \in 1..Last(b) /\ k - 1 = pos[t] /\ pos[t] \in 0..Last(b)
    BY <2>1, <2>3
  <2>5. NextOp(t) = Ops[b][k] /\ NextOp(t) \in Op
    BY <2>3, <2>4, ConstTypes DEF NextOp
  <2> QED BY <2>1, <2>2, <2>3, <2>4, <2>5 DEF Op
<1> DEFINE c == NextOp(t).coin
           w == NextOp(t).coinbase
<1>1. e \in Slot /\ Holds(e, After[base[t]][o], Utxo[b][pos[t]][o])
  BY ZenonT(60), <1>0 DEF IInv, TypeOK, Working
<1>2. /\ Utxo[b][pos[t]][o] = Spent /\ Utxo[b][k][o] = c
      /\ \A p \in Outpoint : p # o => Utxo[b][k][p] = Utxo[b][pos[t]][p]
  <2> HIDE DEF b, k
  <2>1. o = Ops[b][k].out /\ c = Ops[b][k].coin
    BY <1>0
  <2>2. Utxo[b][k-1][Ops[b][k].out] = Spent /\ Utxo[b][k][Ops[b][k].out] = Ops[b][k].coin
    BY ZenonT(60), <1>0, <2>1, EffectOf
  <2>3. \A p \in Outpoint : p # Ops[b][k].out => Utxo[b][k][p] = Utxo[b][k-1][p]
    BY <1>0, EffectOf
  <2> HIDE DEF o, c
  <2> QED BY ZenonT(60), <1>0, <2>1, <2>2, <2>3
<1>3. After[base[t]][o] \in Coin \cup {Spent}
  BY ZenonT(60), <1>0, ConstTypes DEF IInv, TypeOK, Content
<1>4. /\ AddCoin(e, c, w) \in Slot /\ Holds(AddCoin(e, c, w), After[base[t]][o], c)
      /\ ~AddThrows(e, w)
  BY ZenonT(60), <1>0, <1>1, <1>2, <1>3, AddHolds
<1>5. /\ view' = [view EXCEPT ![t][o] = AddCoin(e, c, w)]
      /\ pos' = [pos EXCEPT ![t] = k]
      /\ err' = "none"
      /\ UNCHANGED <<disk, tip, best, pc, block, base, undo, hasUndo, undoFile>>
  BY SMTT(60), Z3T(60), <1>4 DEF AddOutput
<1> HIDE DEF o, e, c, w
<1>6. TypeOK'
  <2>1. pos' \in [Thread -> Nat] /\ \A u \in Thread : pos'[u] <= Last(block[u])
    <3>1. pos \in [Thread -> Nat] /\ \A u \in Thread : pos[u] <= Last(block[u])
      BY ZenonT(60) DEF IInv, TypeOK
    <3>2. k \in Nat /\ k <= Last(block[t])
      BY <1>0
    <3>3. pos' = [pos EXCEPT ![t] = k]
      BY <1>5
    <3> HIDE DEF k
    <3> QED BY <3>1, <3>2, <3>3
  <2>2. view' \in [Thread -> [Outpoint -> Slot]]
    BY ZenonT(60), <1>0, <1>4, <1>5 DEF IInv, TypeOK
  <2> QED BY ZenonT(60), <2>1, <2>2, <1>5 DEF IInv, TypeOK
<1>7. TipHolds' /\ NoError' /\ UndoThere' /\ UndoExact' /\ Mutex'
  BY ZenonT(60), <1>5 DEF IInv, TipHolds, NoError, UndoThere, UndoExact, Mutex
<1>8. Working(t)'
  <2>1. \A p \in Outpoint : view'[t][p] = IF p = o THEN AddCoin(e, c, w) ELSE view[t][p]
    BY ZenonT(60), <1>0, <1>5 DEF IInv, TypeOK
  <2>2. pos'[t] = k /\ block'[t] = b /\ base'[t] = base[t] /\ undo'[t] = undo[t]
    BY ZenonT(60), <1>5 DEF IInv, TypeOK
  <2>3. \A p \in Outpoint : Holds(view'[t][p], After[base'[t]][p], Utxo[block'[t]][pos'[t]][p])
    BY ZenonT(60), <2>1, <2>2, <1>0, <1>2, <1>4 DEF Working
  <2>4. Restores(undo[t], b, k)
    <3>1. Restores(undo[t], b, pos[t])
      BY ZenonT(60), <1>0 DEF Working
    <3>2. \A i \in 1..k : i \in 1..pos[t] \/ i = k
      BY <1>0
    <3> QED BY ZenonT(60), <3>1, <3>2, <1>0 DEF Restores
  <2> QED BY <2>2, <2>3, <2>4, <1>0, <1>5 DEF Working
<1>9. \A u \in Thread : u # t /\ pc'[u] # "idle" => Working(u)'
  <2> TAKE u \in Thread
  <2> HAVE u # t /\ pc'[u] # "idle"
  <2>1. pc[u] # "idle" /\ Working(u)
    BY <1>5 DEF IInv
  <2>2. view'[u] = view[u] /\ pos'[u] = pos[u]
    BY ZenonT(60), <1>5 DEF IInv, TypeOK
  <2> QED BY <2>1, <2>2, <1>5, OtherKeeps
<1> QED BY <1>6, <1>7, <1>8, <1>9 DEF IInv

\* Releasing cs_main for the script checks preserves the invariant.
LEMMA ReleaseMainStep ==
  ASSUME IInv, NEW t \in Thread, ReleaseMain(t)
  PROVE  IInv'
<1>1. /\ pc[t] = "connect" /\ pos[t] = Last(block[t]) /\ pc' = [pc EXCEPT ![t] = "scripts"]
      /\ UNCHANGED <<disk, tip, best, view, block, pos, base, undo, hasUndo, undoFile, err>>
  BY DEF ReleaseMain
<1>2. TypeOK'
  BY ZenonT(60), <1>1 DEF IInv, TypeOK
<1>3. TipHolds' /\ NoError' /\ UndoThere' /\ UndoExact' /\ Mutex'
  BY ZenonT(60), <1>1 DEF IInv, TypeOK, TipHolds, NoError, UndoThere, UndoExact, Mutex
<1>4. Working(t)'
  <2>1. Working(t) /\ pc'[t] = "scripts"
    BY ZenonT(60), <1>1 DEF IInv, TypeOK
  <2> QED BY ZenonT(60), <2>1, <1>1 DEF Working, Restores
<1>5. \A u \in Thread : u # t /\ pc'[u] # "idle" => Working(u)'
  BY ZenonT(60), <1>1, OtherKeeps DEF IInv, TypeOK
<1> QED BY <1>2, <1>3, <1>4, <1>5 DEF IInv

\* Dropping a validated or cancelled view preserves the invariant.
LEMMA DiscardStep ==
  ASSUME IInv, NEW t \in Thread, Discard(t)
  PROVE  IInv'
<1>1. /\ pc' = [pc EXCEPT ![t] = "idle"] /\ view' = [view EXCEPT ![t] = Empty]
      /\ UNCHANGED <<disk, tip, best, block, pos, base, undo, hasUndo, undoFile, err>>
  BY DEF Discard
<1>2. TypeOK'
  BY ZenonT(60), <1>1 DEF IInv, TypeOK, Empty, Absent, Slot
<1>3. TipHolds' /\ NoError' /\ UndoThere' /\ UndoExact' /\ Mutex'
  BY ZenonT(60), <1>1 DEF IInv, TypeOK, TipHolds, NoError, UndoThere, UndoExact, Mutex
<1>4. \A u \in Thread : pc'[u] # "idle" => Working(u)'
  BY ZenonT(60), <1>1, OtherKeeps DEF IInv, TypeOK
<1> QED BY <1>2, <1>3, <1>4 DEF IInv

\* Flushing a view whose base is the tip: pcoinsTip then shows what the view
\* showed, and BatchWrite does not throw.
LEMMA FlushViewHolds ==
  ASSUME IInv, NEW t \in Thread, NEW b \in Block, pc[t] # "idle", best = base[t],
         FlushView(t, b), After[b] = Utxo[block[t]][pos[t]]
  PROVE  /\ tip' \in [Outpoint -> Slot] /\ err' = err
         /\ \A o \in Outpoint : Holds(tip'[o], disk[o], After[b][o])
<1>1. \A o \in Outpoint :
        /\ BatchWrite(tip[o], view[t][o]) \in Slot
        /\ Holds(BatchWrite(tip[o], view[t][o]), disk[o], After[b][o])
        /\ ~FlushThrows(tip[o], view[t][o])
  <2> TAKE o \in Outpoint
  <2>1. /\ tip[o] \in Slot /\ view[t][o] \in Slot /\ disk[o] \in Coin \cup {Spent}
        /\ best \in Block
    BY ZenonT(60) DEF IInv, TypeOK, Content
  <2>2. After[b][o] \in Coin \cup {Spent} /\ After[best][o] \in Coin \cup {Spent}
    BY SMTT(60), Z3T(60), <2>1, ConstTypes DEF Content
  <2>3. Holds(tip[o], disk[o], After[best][o])
    BY ZenonT(60) DEF IInv, TipHolds
  <2>4. Holds(view[t][o], After[best][o], After[b][o])
    BY SMTT(60), Z3T(60) DEF IInv, Working
  <2> QED BY <2>1, <2>2, <2>3, <2>4, BatchHolds
<1>2. /\ tip' = [o \in Outpoint |-> BatchWrite(tip[o], view[t][o])]
      /\ err' = IF \E o \in Outpoint : FlushThrows(tip[o], view[t][o]) THEN "misapplied" ELSE err
  BY DEF FlushView
<1> QED BY ZenonT(60), <1>1, <1>2

\* Finishing a validation preserves the invariant: the undo data is right whether
\* or not the tip has moved, and the view is flushed only onto its own base.
LEMMA FinishConnectStep ==
  ASSUME IInv, NEW t \in Thread, FinishConnect(t)
  PROVE  IInv'
<1> DEFINE b == block[t]
<1>1. /\ ~Locked /\ pc[t] = "scripts" /\ Working(t) /\ err = "none"
      /\ b \in Block /\ b # Genesis /\ base[t] = Parent[b] /\ pos[t] = Last(b)
      /\ base[t] # Genesis => base[t] \in hasUndo
      /\ Restores(undo[t], b, Last(b))
  BY DEF TipUnchanged, FinishConnect, IInv, TypeOK, Working
<1>2. /\ undoFile' = IF b \in hasUndo THEN undoFile ELSE [undoFile EXCEPT ![b] = undo[t]]
      /\ hasUndo' = hasUndo \cup {b}
      /\ pc' = [pc EXCEPT ![t] = "idle"]
      /\ view' = [view EXCEPT ![t] = Empty]
      /\ UNCHANGED <<disk, block, pos, base, undo>>
  BY ZenonT(60) DEF TipUnchanged, FinishConnect, FlushView
<1>3. /\ tip' \in [Outpoint -> Slot] /\ err' = "none" /\ best' \in Block
      /\ best' # Genesis => best' \in hasUndo'
      /\ \A o \in Outpoint : Holds(tip'[o], disk[o], After[best'][o])
  <2>1. CASE best = base[t]
    <3>1. FlushView(t, b)
      BY <2>1 DEF TipUnchanged, FinishConnect
    <3>2. After[b] = Utxo[b][pos[t]]
      BY ZenonT(60), <1>1 DEF After
    <3>3. /\ tip' \in [Outpoint -> Slot] /\ err' = err
          /\ \A o \in Outpoint : Holds(tip'[o], disk[o], After[b][o])
      BY SMTT(60), Z3T(60), <2>1, <3>1, <3>2, <1>1, FlushViewHolds
    <3>4. best' = b
      BY ZenonT(60), <3>1 DEF FlushView
    <3> QED BY SMTT(60), Z3T(60), <3>3, <3>4, <1>1, <1>2
  <2>2. CASE best # base[t]
    BY ZenonT(60), <2>2, <1>1, <1>2 DEF TipUnchanged, FinishConnect, IInv, TypeOK, TipHolds, UndoThere
  <2> QED BY SMTT(60), Z3T(60), <2>1, <2>2
<1>4. TypeOK'
  <2>1. undo[t] \in Undo(b)
    BY ZenonT(60) DEF IInv, TypeOK
  <2>2. DOMAIN undoFile' = Block /\ \A c \in Block : undoFile'[c] \in Undo(c)
    BY ZenonT(60), <1>2, <2>1 DEF IInv, TypeOK
  <2>3. view' \in [Thread -> [Outpoint -> Slot]]
    BY ZenonT(60), <1>2 DEF IInv, TypeOK, Empty, Absent, Slot
  <2> QED BY <1>1, <1>2, <1>3, <2>2, <2>3 DEF IInv, TypeOK
<1>5. TipHolds' /\ NoError'
  BY <1>2, <1>3 DEF TipHolds, NoError
<1>6. Mutex'
  BY ZenonT(60), <1>2 DEF IInv, TypeOK, Mutex
<1>7. UndoThere'
  BY ZenonT(60), <1>1, <1>2, <1>3 DEF IInv, UndoThere
<1>8. UndoExact'
  <2>1. \A c \in hasUndo' : c \in Block /\ (c # b => c \in hasUndo)
    BY <1>1, <1>2 DEF IInv, TypeOK
  <2>2. \A c \in hasUndo : undoFile'[c] = undoFile[c] /\ Restores(undoFile[c], c, Last(c))
    BY ZenonT(60), <1>2 DEF IInv, TypeOK, UndoExact
  <2>3. b \notin hasUndo => undoFile'[b] = undo[t]
    BY SMTT(60), Z3T(60), <1>1, <1>2 DEF IInv, TypeOK
  <2> HIDE DEF b
  <2> QED BY ZenonT(60), <2>1, <2>2, <2>3, <1>1, <1>2 DEF UndoExact
<1>9. \A u \in Thread : pc'[u] # "idle" => Working(u)'
  <2> TAKE u \in Thread
  <2> HAVE pc'[u] # "idle"
  <2>1. u # t /\ pc'[u] = pc[u] /\ view'[u] = view[u]
    BY ZenonT(60), <1>2 DEF IInv, TypeOK
  <2>2. pc[u] = "scripts" /\ Working(u)
    BY SMTT(60), Z3T(60), <2>1, <1>1 DEF IInv, TypeOK, Locked
  <2> QED BY <2>1, <2>2, <1>2, OtherKeeps
<1> QED BY ZenonT(60), <1>4, <1>5, <1>6, <1>7, <1>8, <1>9 DEF IInv

\* Starting to disconnect the tip preserves the invariant: its undo data exists.
LEMMA StartDisconnectStep ==
  ASSUME IInv, NEW t \in Thread, StartDisconnect(t)
  PROVE  IInv'
<1>1. /\ ~Locked /\ pc[t] = "idle" /\ best # Genesis /\ best \in Block
      /\ best \in hasUndo /\ err' = "none"
      /\ Restores(undoFile[best], best, Last(best)) /\ undoFile[best] \in Undo(best)
  BY DEF StartDisconnect, IInv, TypeOK, UndoThere, UndoExact
<1>2. /\ pc' = [pc EXCEPT ![t] = "disconnect"]
      /\ block' = [block EXCEPT ![t] = best]
      /\ pos' = [pos EXCEPT ![t] = Last(best)]
      /\ base' = [base EXCEPT ![t] = best]
      /\ view' = [view EXCEPT ![t] = Empty]
      /\ undo' = [undo EXCEPT ![t] = undoFile[best]]
      /\ UNCHANGED <<disk, tip, best, hasUndo, undoFile>>
  BY ZenonT(60) DEF StartDisconnect
<1>3. TypeOK'
  <2>1. Last(best) \in Nat /\ Absent \in Slot
    BY <1>1, ConstTypes DEF Absent, Slot
  <2>2. \A u \in Thread : pos'[u] <= Last(block'[u]) /\ undo'[u] \in Undo(block'[u])
    <3> TAKE u \in Thread
    <3>1. CASE u = t
      <4>1. pos'[t] = Last(best) /\ block'[t] = best /\ undo'[t] = undoFile[best]
        BY ZenonT(60), <1>2 DEF IInv, TypeOK
      <4> QED BY <3>1, <4>1, <1>1, <2>1
    <3>2. CASE u # t
      BY ZenonT(60), <3>2, <1>2 DEF IInv, TypeOK
    <3> QED BY <3>1, <3>2
  <2>3. DOMAIN undo' = Thread /\ pos' \in [Thread -> Nat]
    BY ZenonT(60), <1>2, <2>1 DEF IInv, TypeOK
  <2> QED BY ZenonT(60), <1>1, <1>2, <2>1, <2>2, <2>3 DEF IInv, TypeOK, Empty
<1>4. TipHolds' /\ NoError' /\ UndoThere' /\ UndoExact'
  BY <1>1, <1>2 DEF IInv, TipHolds, NoError, UndoThere, UndoExact
<1>5. Mutex'
  BY ZenonT(60), <1>1, <1>2 DEF IInv, TypeOK, Mutex, Locked
<1>6. Working(t)'
  <2>1. /\ pc'[t] = "disconnect" /\ block'[t] = best /\ pos'[t] = Last(best)
        /\ base'[t] = best /\ view'[t] = Empty /\ undo'[t] = undoFile[best] /\ best' = best
    BY ZenonT(60), <1>2 DEF IInv, TypeOK
  <2>2. \A o \in Outpoint : Holds(Empty[o], After[best][o], Utxo[best][Last(best)][o])
    BY ZenonT(60), <1>1 DEF Holds, Sound, Show, Empty, Absent, After
  <2> QED BY <2>1, <2>2, <1>1 DEF Working
<1>7. \A u \in Thread : u # t /\ pc'[u] # "idle" => Working(u)'
  BY ZenonT(60), <1>2, OtherKeeps DEF IInv, TypeOK
<1> QED BY SMTT(60), Z3T(60), <1>3, <1>4, <1>5, <1>6, <1>7 DEF IInv

\* Undoing one effect preserves the invariant and is clean.
LEMMA UndoEffectStep ==
  ASSUME IInv, NEW t \in Thread, UndoEffect(t)
  PROVE  IInv'
<1> DEFINE b == block[t]
           k == pos[t]
           op == Ops[b][k]
           o == op.out
           e == FetchView(t, o)
           n == IF op.kind = "add" THEN SpendCoin(e) ELSE AddCoin(e, undo[t][k], Have(e))
<1>0. /\ pc[t] = "disconnect" /\ Working(t) /\ best = base[t] /\ b = best
      /\ b \in Block /\ Last(b) \in Nat /\ k \in 1..Last(b) /\ k - 1 \in 0..Last(b)
      /\ op \in Op /\ o \in Outpoint /\ op.kind \in {"add", "spend"} /\ op.coin \in Coin
      /\ Restores(undo[t], b, Last(b))
  <2>1. pc[t] = "disconnect" /\ k > 0
    BY SMTT(60), Z3T(60) DEF UndoEffect
  <2>2. Working(t) /\ best = base[t] /\ b = best /\ Restores(undo[t], b, Last(b))
    BY <2>1 DEF IInv, Working
  <2>3. b \in Block /\ k \in Nat /\ k <= Last(b) /\ Last(b) \in Nat
    BY ZenonT(60), ConstTypes DEF IInv, TypeOK
  <2>4. k \in 1..Last(b) /\ k - 1 \in 0..Last(b)
    BY SMTT(60), Z3T(60), <2>1, <2>3
  <2>5. op \in Op
    BY <2>3, <2>4, ConstTypes
  <2> QED BY ZenonT(60), <2>1, <2>2, <2>3, <2>4, <2>5 DEF Op
<1>1. /\ e \in Slot
      /\ Holds(e, After[base[t]][o], Utxo[b][k][o])
      /\ e.in \/ After[base[t]][o] = Spent
      /\ TipAfterFetch(t, o) \in [Outpoint -> Slot]
      /\ \A p \in Outpoint : Holds(TipAfterFetch(t, o)[p], disk[p], After[best][p])
  BY ZenonT(60), <1>0, FetchViewHolds
<1>2. /\ \A p \in Outpoint : p # o => Utxo[b][k][p] = Utxo[b][k-1][p]
      /\ op.kind = "add" => Utxo[b][k][o] = op.coin /\ Utxo[b][k-1][o] = Spent
      /\ op.kind = "spend" => Utxo[b][k][o] = Spent /\ Utxo[b][k-1][o] # Spent
  BY ZenonT(60), <1>0, EffectOf
<1>3. /\ After[base[t]][o] \in Coin \cup {Spent} /\ Utxo[b][k][o] \in Coin \cup {Spent}
      /\ Utxo[b][k-1][o] \in Coin \cup {Spent}
  <2>1. After[base[t]] \in Content /\ Utxo[b][k] \in Content /\ Utxo[b][k-1] \in Content
    <3>1. base[t] \in Block /\ k \in 0..Last(b)
      BY SMTT(60), Z3T(60), <1>0
    <3> HIDE DEF b, k
    <3> QED BY SMTT(60), Z3T(60), <3>1, <1>0, ConstTypes
  <2> QED BY ZenonT(60), <2>1, <1>0 DEF Content
<1>4. op.kind = "add" => e.in /\ e.coin = op.coin
  BY ZenonT(60), <1>0, <1>1, <1>2, TreeAssumption DEF Holds, Show
<1>5. op.kind = "spend" => ~Have(e) /\ undo[t][k] = Utxo[b][k-1][o] /\ undo[t][k] \in Coin
  <2>1. op.kind = "spend" => ~Have(e)
    <3>1. Show(e, After[base[t]][o]) = Utxo[b][k][o]
      BY ZenonT(60), <1>1 DEF Holds
    <3> HIDE DEF e, op, o, b, k
    <3> QED BY SMTT(60), Z3T(60), <3>1, <1>2 DEF Show, Have
  <2>2. op.kind = "spend" => undo[t][k] = Utxo[b][k-1][o]
    BY ZenonT(60), <1>0 DEF Restores
  <2> QED BY ZenonT(60), <2>1, <2>2, <1>2, <1>3
<1>6. n \in Slot /\ Holds(n, After[base[t]][o], Utxo[b][k-1][o])
  <2>1. CASE op.kind = "add"
    <3>1. SpendCoin(e) \in Slot /\ Holds(SpendCoin(e), After[base[t]][o], Spent)
      BY ZenonT(60), <1>1, <1>3, SpendHolds
    <3> QED BY ZenonT(60), <2>1, <3>1, <1>2
  <2>2. CASE op.kind = "spend"
    <3>1. Have(e) \in BOOLEAN /\ ~Have(e) /\ Utxo[b][k][o] = Spent
      BY ZenonT(60), <2>2, <1>2, <1>5 DEF Have
    <3>2. /\ AddCoin(e, undo[t][k], Have(e)) \in Slot
          /\ Holds(AddCoin(e, undo[t][k], Have(e)), After[base[t]][o], undo[t][k])
      BY ZenonT(60), <2>2, <3>1, <1>1, <1>3, <1>5, AddHolds
    <3> QED BY ZenonT(60), <2>2, <3>2, <1>5
  <2> QED BY ZenonT(60), <2>1, <2>2, <1>0
<1>7. /\ view' = [view EXCEPT ![t][o] = n]
      /\ tip' = TipAfterFetch(t, o)
      /\ err' = "none"
      /\ pos' = [pos EXCEPT ![t] = k - 1]
      /\ UNCHANGED <<disk, best, pc, block, base, undo, hasUndo, undoFile>>
  BY ZenonT(60), <1>0, <1>4, <1>5 DEF UndoEffect
<1> HIDE DEF op, o, e, n
<1>8. TypeOK'
  <2>1. pos' \in [Thread -> Nat] /\ \A u \in Thread : pos'[u] <= Last(block[u])
    <3>1. pos \in [Thread -> Nat] /\ \A u \in Thread : pos[u] <= Last(block[u])
      BY ZenonT(60) DEF IInv, TypeOK
    <3>2. k - 1 \in Nat /\ k - 1 <= Last(block[t])
      BY <1>0
    <3>3. \A u \in Thread : pos'[u] = IF u = t THEN k - 1 ELSE pos[u]
      BY <1>7, <3>1
    <3> QED BY SMTT(60), Z3T(60), <3>1, <3>2, <3>3, <1>7
  <2>2. view' \in [Thread -> [Outpoint -> Slot]]
    BY ZenonT(60), <1>0, <1>6, <1>7 DEF IInv, TypeOK
  <2> QED BY ZenonT(60), <2>1, <2>2, <1>1, <1>7 DEF IInv, TypeOK
<1>9. TipHolds' /\ NoError' /\ UndoThere' /\ UndoExact' /\ Mutex'
  BY SMTT(60), Z3T(60), <1>1, <1>7 DEF IInv, TipHolds, NoError, UndoThere, UndoExact, Mutex
<1>10. Working(t)'
  <2>1. \A p \in Outpoint : view'[t][p] = IF p = o THEN n ELSE view[t][p]
    BY ZenonT(60), <1>0, <1>7 DEF IInv, TypeOK
  <2>2. pos'[t] = k - 1 /\ block'[t] = b /\ base'[t] = base[t] /\ undo'[t] = undo[t]
    BY ZenonT(60), <1>7 DEF IInv, TypeOK
  <2>3. \A p \in Outpoint : Holds(view'[t][p], After[base'[t]][p], Utxo[block'[t]][pos'[t]][p])
    BY ZenonT(60), <2>1, <2>2, <1>0, <1>2, <1>6 DEF Working
  <2> QED BY <2>2, <2>3, <1>0, <1>7 DEF Working
<1>11. \A u \in Thread : u # t /\ pc'[u] # "idle" => Working(u)'
  <2> TAKE u \in Thread
  <2> HAVE u # t /\ pc'[u] # "idle"
  <2>1. pc[u] # "idle" /\ Working(u)
    BY <1>7 DEF IInv
  <2>2. view'[u] = view[u] /\ pos'[u] = pos[u]
    BY ZenonT(60), <1>7 DEF IInv, TypeOK
  <2> QED BY <2>1, <2>2, <1>7, OtherKeeps
<1> QED BY <1>8, <1>9, <1>10, <1>11 DEF IInv

\* Finishing a disconnect preserves the invariant: pcoinsTip is back at the parent.
LEMMA FinishDisconnectStep ==
  ASSUME IInv, NEW t \in Thread, FinishDisconnect(t)
  PROVE  IInv'
<1> DEFINE b == Parent[best]
<1>1. /\ pc[t] = "disconnect" /\ pos[t] = 0 /\ Working(t) /\ err = "none"
      /\ block[t] = best /\ base[t] = best /\ best # Genesis /\ best \in Block
  BY ZenonT(60) DEF FinishDisconnect, IInv, TypeOK, Working
<1>2. b \in Block /\ Utxo[best][0] = After[b]
  BY ZenonT(60), <1>1, ConstTypes
<1>3. /\ FlushView(t, b)
      /\ pc' = [pc EXCEPT ![t] = "idle"]
      /\ view' = [view EXCEPT ![t] = Empty]
      /\ best' = b
      /\ UNCHANGED <<disk, block, pos, base, undo, hasUndo, undoFile>>
  BY ZenonT(60), <1>1 DEF FinishDisconnect, FlushView
<1>4. /\ tip' \in [Outpoint -> Slot] /\ err' = err
      /\ \A o \in Outpoint : Holds(tip'[o], disk[o], After[b][o])
  <2> HIDE DEF b
  <2> QED BY ZenonT(60), <1>1, <1>2, <1>3, FlushViewHolds
<1>5. TypeOK'
  <2>1. view' \in [Thread -> [Outpoint -> Slot]]
    BY ZenonT(60), <1>3 DEF IInv, TypeOK, Empty, Absent, Slot
  <2> QED BY ZenonT(60), <2>1, <1>2, <1>3, <1>4 DEF IInv, TypeOK
<1>6. TipHolds' /\ NoError' /\ UndoExact'
  BY ZenonT(60), <1>1, <1>3, <1>4 DEF IInv, TipHolds, NoError, UndoExact
<1>7. Mutex'
  BY ZenonT(60), <1>3 DEF IInv, TypeOK, Mutex
<1>8. UndoThere'
  BY ZenonT(60), <1>1, <1>3 DEF IInv, UndoThere
<1>9. \A u \in Thread : pc'[u] # "idle" => Working(u)'
  <2> TAKE u \in Thread
  <2> HAVE pc'[u] # "idle"
  <2>1. u # t /\ pc'[u] = pc[u] /\ view'[u] = view[u]
    BY ZenonT(60), <1>3 DEF IInv, TypeOK
  <2>2. pc[u] = "scripts" /\ Working(u)
    BY <2>1, <1>1 DEF IInv, TypeOK, Mutex
  <2> QED BY <2>1, <2>2, <1>3, OtherKeeps, Zenon
<1> QED BY <1>5, <1>6, <1>7, <1>8, <1>9 DEF IInv

\* A change of pcoinsTip and of the database that keeps what pcoinsTip shows and
\* nothing else preserves the invariant.
LEMMA TipStep ==
  ASSUME IInv, disk' \in Content, tip' \in [Outpoint -> Slot],
         \A o \in Outpoint : Holds(tip'[o], disk'[o], After[best][o]),
         UNCHANGED <<best, view, pc, block, pos, base, undo, hasUndo, undoFile, err>>
  PROVE  IInv'
<1>1. TypeOK'
  BY ZenonT(60) DEF IInv, TypeOK
<1>2. TipHolds' /\ NoError' /\ UndoThere' /\ UndoExact' /\ Mutex'
  BY ZenonT(60) DEF IInv, TipHolds, NoError, UndoThere, UndoExact, Mutex
<1>3. \A u \in Thread : pc'[u] # "idle" => Working(u)'
  BY ZenonT(60), OtherKeeps DEF IInv
<1> QED BY ZenonT(60), <1>1, <1>2, <1>3 DEF IInv

\* FlushStateToDisk, lookups by other readers and Uncache preserve the invariant.
LEMMA CacheSteps ==
  ASSUME IInv, FlushTip \/ \E o \in Outpoint : ReadTip(o) \/ Uncache(o)
  PROVE  IInv'
<1>0. /\ tip \in [Outpoint -> Slot] /\ disk \in Content /\ Absent \in Slot
      /\ \A o \in Outpoint : Holds(tip[o], disk[o], After[best][o])
  BY ZenonT(60) DEF IInv, TypeOK, TipHolds, Absent, Slot
<1>1. CASE FlushTip
  <2>1. /\ disk' = [o \in Outpoint |-> IF tip[o].dirty THEN tip[o].coin ELSE disk[o]]
        /\ tip' = Empty
        /\ UNCHANGED <<best, view, pc, block, pos, base, undo, hasUndo, undoFile, err>>
    BY <1>1 DEF FlushTip
  <2>2. \A o \in Outpoint : (IF tip[o].dirty THEN tip[o].coin ELSE disk[o]) = After[best][o]
    BY ZenonT(60), <1>0 DEF Holds, Sound, Show, Slot, Absent
  <2>3. disk' \in Content
    BY SMTT(60), Z3T(60), <1>0, <2>1 DEF Content, Slot
  <2>4. \A o \in Outpoint : Holds(Absent, disk'[o], After[best][o])
    BY SMTT(60), Z3T(60), <2>1, <2>2 DEF Holds, Sound, Show, Absent
  <2> QED BY SMTT(60), Z3T(60), <1>0, <2>1, <2>3, <2>4, TipStep DEF Empty
<1>2. CASE \E o \in Outpoint : ReadTip(o)
  <2> PICK o \in Outpoint : ReadTip(o)
    BY SMTT(60), Z3T(60), <1>2
  <2>1. FetchTip(o) \in Slot /\ Holds(FetchTip(o), disk[o], After[best][o])
    BY SMTT(60), Z3T(60), FetchTipHolds DEF IInv
  <2>2. /\ tip' = [tip EXCEPT ![o] = FetchTip(o)] /\ disk' = disk
        /\ UNCHANGED <<best, view, pc, block, pos, base, undo, hasUndo, undoFile, err>>
    BY SMTT(60), Z3T(60) DEF ReadTip
  <2>3. tip' \in [Outpoint -> Slot]
    BY SMTT(60), Z3T(60), <1>0, <2>1, <2>2
  <2>4. \A p \in Outpoint : Holds(tip'[p], disk'[p], After[best][p])
    BY SMTT(60), Z3T(60), <1>0, <2>1, <2>2
  <2> QED BY <1>0, <2>2, <2>3, <2>4, TipStep
<1>3. CASE \E o \in Outpoint : Uncache(o)
  <2> PICK o \in Outpoint : Uncache(o)
    BY SMTT(60), Z3T(60), <1>3
  <2>1. /\ tip' = [tip EXCEPT ![o] = Absent] /\ disk' = disk
        /\ UNCHANGED <<best, view, pc, block, pos, base, undo, hasUndo, undoFile, err>>
    BY SMTT(60), Z3T(60) DEF Uncache
  <2>2. Holds(Absent, disk[o], After[best][o])
    BY SMTT(60), Z3T(60), <1>0 DEF Uncache, Holds, Sound, Show, Absent
  <2>3. tip' \in [Outpoint -> Slot]
    BY SMTT(60), Z3T(60), <1>0, <2>1
  <2>4. \A p \in Outpoint : Holds(tip'[p], disk'[p], After[best][p])
    BY <1>0, <2>1, <2>2
  <2> QED BY <1>0, <2>1, <2>3, <2>4, TipStep
<1> QED BY <1>1, <1>2, <1>3
-----------------------------------------------------------------------------
(* The theorems.                                                           *)

\* Every step preserves the invariant.
LEMMA NextIInv == IInv /\ [Next]_vars => IInv'
<1> SUFFICES ASSUME IInv, [Next]_vars PROVE IInv'
  OBVIOUS
<1>1. CASE \E t \in Thread : \/ \E b \in Block : StartConnect(t, b)
                             \/ \E o \in Outpoint : LookUp(t, o)
                             \/ SpendInput(t) \/ AddOutput(t) \/ ReleaseMain(t)
                             \/ Discard(t) \/ FinishConnect(t) \/ StartDisconnect(t)
                             \/ UndoEffect(t) \/ FinishDisconnect(t)
  BY <1>1, StartConnectStep, LookUpStep, SpendInputStep, AddOutputStep, ReleaseMainStep,
     DiscardStep, FinishConnectStep, StartDisconnectStep, UndoEffectStep, FinishDisconnectStep
<1>2. CASE FlushTip \/ \E o \in Outpoint : ReadTip(o) \/ Uncache(o)
  BY <1>2, CacheSteps
<1>3. CASE UNCHANGED vars
  BY ZenonT(60), <1>3, TipStep DEF vars, IInv, TypeOK, TipHolds
<1> QED BY <1>1, <1>2, <1>3 DEF Next

\* The inductive invariant holds in every reachable state.
THEOREM Invariance == Spec => []IInv
BY InitIInv, NextIInv, PTL DEF Spec

\* The state stays well typed whatever blocks are connected and disconnected.
THEOREM TypeCorrect == Spec => []TypeOK
<1>1. IInv => TypeOK
  BY SMTT(60), Z3T(60) DEF IInv
<1> QED BY <1>1, Invariance, PTL

\* pcoinsTip shows the coins of the invariant.
LEMMA ShownTip == IInv => TipView = After[best]
<1> SUFFICES ASSUME IInv PROVE TipView = After[best]
  OBVIOUS
<1>1. After[best] \in [Outpoint -> Coin \cup {Spent}]
  BY ZenonT(60), ConstTypes DEF IInv, TypeOK, Content
<1>2. \A o \in Outpoint : Show(tip[o], disk[o]) = After[best][o]
  BY ZenonT(60) DEF IInv, TipHolds, Holds
<1> QED BY <1>1, <1>2 DEF TipView, Shown

\* pcoinsTip over the database always shows exactly the coins of the best chain.
THEOREM UtxoAlwaysCorrect == Spec => []UtxoCorrect
<1>1. IInv => UtxoCorrect
  BY ShownTip DEF UtxoCorrect
<1> QED BY <1>1, Invariance, PTL

\* Every block view shows the coins its block has produced so far, and no FRESH or
\* DIRTY flag is ever misplaced in it or in pcoinsTip.
THEOREM ViewsAlwaysCorrect == Spec => [](ViewCorrect /\ FlagsSound)
<1>1. IInv => FlagsSound
  BY ZenonT(60) DEF IInv, TipHolds, Working, Holds, FlagsSound
<1>2. IInv => ViewCorrect
  <2> SUFFICES ASSUME IInv, NEW t \in Thread, pc[t] # "idle"
               PROVE  Shown(view[t], After[base[t]]) = Utxo[block[t]][pos[t]]
    BY DEF ViewCorrect
  <2>1. /\ block[t] \in Block /\ pos[t] \in Nat /\ pos[t] <= Last(block[t])
        /\ Last(block[t]) \in Nat
    BY ZenonT(60), ConstTypes DEF IInv, TypeOK
  <2>2. pos[t] \in 0..Last(block[t])
    BY SMTT(60), Z3T(60), <2>1
  <2>3. Utxo[block[t]][pos[t]] \in [Outpoint -> Coin \cup {Spent}]
    BY SMTT(60), Z3T(60), <2>1, <2>2, ConstTypes DEF Content
  <2>4. \A o \in Outpoint :
          Show(view[t][o], After[base[t]][o]) = Utxo[block[t]][pos[t]][o]
    BY DEF IInv, Working, Holds
  <2> QED BY SMTT(60), Z3T(60), <2>3, <2>4 DEF Shown
<1> QED BY <1>1, <1>2, Invariance, PTL

\* Every DIRTY and FRESH flag of CCoinsViewCache is true of the layer below.
THEOREM FlagsAlwaysSound == Spec => []FlagsSound
BY ViewsAlwaysCorrect, PTL

\* AddCoin and BatchWrite never throw, UpdateCoins never asserts, undo data is never
\* missing, disconnecting is always clean, and the undo data on disk is exact.
THEOREM NeverFails == Spec => [](NoError /\ UndoExact)
<1>1. IInv => NoError /\ UndoExact
  BY SMTT(60), Z3T(60) DEF IInv
<1> QED BY <1>1, Invariance, PTL

\* The best block moves only to a child of it or to its parent.
LEMMA BestMoves ==
  ASSUME IInv, [Next]_vars
  PROVE  \/ best' = best
         \/ best # Genesis /\ best' = Parent[best]
         \/ \E b \in Block : b # Genesis /\ best = Parent[b] /\ best' = b
<1>1. CASE \E t \in Thread : FinishConnect(t)
  <2> PICK t \in Thread : FinishConnect(t)
    BY <1>1
  <2>1. block[t] \in Block /\ block[t] # Genesis /\ base[t] = Parent[block[t]]
    BY ZenonT(60) DEF TipUnchanged, FinishConnect, IInv, TypeOK, Working
  <2> QED BY <2>1 DEF TipUnchanged, FinishConnect, FlushView
<1>2. CASE \E t \in Thread : FinishDisconnect(t)
  <2> PICK t \in Thread : FinishDisconnect(t)
    BY <1>2
  <2>1. block[t] = best /\ best # Genesis
    BY DEF FinishDisconnect, IInv, Working
  <2> QED BY ZenonT(60), <2>1 DEF FinishDisconnect, FlushView
<1>3. CASE ~\E t \in Thread : FinishConnect(t) \/ FinishDisconnect(t)
  BY ZenonT(60), <1>3 DEF Next, vars, StartConnect, LookUp, SpendInput, AddOutput, ReleaseMain, Discard,
     StartDisconnect, UndoEffect, FlushTip, ReadTip, Uncache
<1> QED BY SMTT(60), Z3T(60), <1>1, <1>2, <1>3

\* The undo data that ConnectBlock keeps restores exactly the coins a block spent.
THEOREM UndoAlwaysExact == Spec => []UndoExact
BY NeverFails, PTL

\* The layered caches implement the plain set of unspent outputs: flushing, caching,
\* undo data and lost validations are invisible behind pcoinsTip.
THEOREM Refinement == Spec => RefinesUtxoSet
<1>1. Init => Abstract!Init
  BY SMTT(60), Z3T(60), InitIInv, ShownTip DEF Init, Abstract!Init
<1>2. IInv /\ IInv' /\ [Next]_vars => [Abstract!Next]_(Abstract!vars)
  <2> SUFFICES ASSUME IInv, IInv', [Next]_vars PROVE [Abstract!Next]_(Abstract!vars)
    OBVIOUS
  <2>1. TipView = After[best]
    BY ShownTip
  <2>2. TipView' = After[best']
    <3>1. (IInv => TipView = After[best])'
      BY ShownTip, PTL
    <3> QED BY <3>1
  <2> QED BY SMTT(60), Z3T(60), <2>1, <2>2, BestMoves
      DEF Abstract!Next, Abstract!Connect, Abstract!Disconnect, Abstract!vars
<1> QED BY <1>1, <1>2, Invariance, PTL DEF Spec, RefinesUtxoSet, Abstract!Spec
=============================================================================
