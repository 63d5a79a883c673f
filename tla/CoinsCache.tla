----------------------------- MODULE CoinsCache -----------------------------
(***************************************************************************)
(* The three layers of coin views (src/src/coins.cpp): the coin database,  *)
(* the global cache pcoinsTip on top of it, and one short-lived            *)
(* CCoinsViewCache per block being connected or disconnected on top of     *)
(* pcoinsTip.  Several threads may validate blocks at once: cs_main is     *)
(* released while the scripts of a block are checked                       *)
(* (src/src/validation.cpp, ConnectBlock), so a view can outlive the tip   *)
(* it was built on.                                                        *)
(***************************************************************************)
EXTENDS Coins

CONSTANT Thread   \* threads that connect and disconnect blocks

VARIABLES
  disk,       \* the coin database
  tip,        \* cacheCoins of pcoinsTip
  best,       \* hashBlock of pcoinsTip, equal to the hash of chainActive.Tip()
  view,       \* view[t]: cacheCoins of the block view of thread t
  pc,         \* pc[t]: what thread t is doing
  block,      \* block[t]: the block it connects or disconnects
  pos,        \* pos[t]: how many effects of that block its view has applied
  base,       \* base[t]: tipBeforeMainLockReleased
  undo,       \* undo[t]: the CBlockUndo under construction, by effect position
  hasUndo,    \* the blocks with BLOCK_HAVE_UNDO
  undoFile,   \* undoFile[b]: the undo data of b on disk
  err         \* the exception, failed assertion or failed disconnect met so far

vars == <<disk, tip, best, view, pc, block, pos, base, undo, hasUndo, undoFile, err>>

\* The undo record of a block: one coin per effect, Spent where there is none.
BlankUndo(b) == [k \in 1..Last(b) |-> Spent]

TipView == Shown(tip, disk)

\* cs_main is held exactly by a thread that works on its view.
Locked == \E t \in Thread : pc[t] \in {"connect", "disconnect"}
-----------------------------------------------------------------------------
(* Lookups through the layers.                                             *)

\* The slot of pcoinsTip after FetchCoinNL.
FetchTip(o) == FetchOverDB(tip[o], disk[o])

\* The slot of a block view after FetchCoinNL, which goes through pcoinsTip.
FetchView(t, o) == Fetch(view[t][o], FetchTip(o).in, FetchTip(o).coin)

\* What fetching o for thread t leaves in pcoinsTip.
TipAfterFetch(t, o) == IF view[t][o].in THEN tip ELSE [tip EXCEPT ![o] = FetchTip(o)]
-----------------------------------------------------------------------------
Init ==
  /\ disk = After[Genesis]
  /\ tip = Empty
  /\ best = Genesis
  /\ view = [t \in Thread |-> Empty]
  /\ pc = [t \in Thread |-> "idle"]
  /\ block = [t \in Thread |-> Genesis]
  /\ pos = [t \in Thread |-> 0]
  /\ base = [t \in Thread |-> Genesis]
  /\ undo = [t \in Thread |-> BlankUndo(Genesis)]
  /\ hasUndo = {}
  /\ undoFile = [b \in Block |-> BlankUndo(b)]
  /\ err = "none"

\* ConnectTip: a block whose parent is the tip, and that no other thread is
\* validating (isAncestorInValidation), is taken up with an empty view.
StartConnect(t, b) ==
  /\ err = "none" /\ ~Locked /\ pc[t] = "idle"
  /\ b # Genesis /\ Parent[b] = best
  /\ \A u \in Thread : pc[u] = "scripts" => block[u] # b
  /\ pc' = [pc EXCEPT ![t] = "connect"]
  /\ block' = [block EXCEPT ![t] = b]
  /\ pos' = [pos EXCEPT ![t] = 0]
  /\ base' = [base EXCEPT ![t] = best]
  /\ view' = [view EXCEPT ![t] = Empty]
  /\ undo' = [undo EXCEPT ![t] = BlankUndo(b)]
  /\ UNCHANGED <<disk, tip, best, hasUndo, undoFile, err>>

\* The next effect of the block thread t connects.
NextOp(t) == Ops[block[t]][pos[t] + 1]

\* ConnectBlock looks a coin up: HaveInputs, GetValueIn, the BIP30 test.
LookUp(t, o) ==
  /\ err = "none" /\ pc[t] = "connect"
  /\ view' = [view EXCEPT ![t][o] = FetchView(t, o)]
  /\ tip' = TipAfterFetch(t, o)
  /\ UNCHANGED <<disk, best, pc, block, pos, base, undo, hasUndo, undoFile, err>>

\* Mutant of UndoCoin: the undo record is filled after SpendCoin has cleared the coin.
UndoCoinLate(e) == SpendCoin(e).coin

\* SpendCoin moves the coin out before it clears it.
UndoCoin(e) == e.coin

\* UpdateCoins, one input: the coin moves from the view to the undo record.
SpendInput(t) ==
  /\ err = "none" /\ pc[t] = "connect"
  /\ pos[t] < Last(block[t]) /\ NextOp(t).kind = "spend"
  /\ LET o == NextOp(t).out
         e == FetchView(t, o)
     IN /\ view' = [view EXCEPT ![t][o] = SpendCoin(e)]
        /\ tip' = TipAfterFetch(t, o)
        /\ undo' = [undo EXCEPT ![t][pos[t] + 1] = UndoCoin(e)]
        /\ err' = IF e.in THEN err ELSE "is_spent"
  /\ pos' = [pos EXCEPT ![t] = @ + 1]
  /\ UNCHANGED <<disk, best, pc, block, base, hasUndo, undoFile>>

\* UpdateCoins, one output: AddCoins without lookup; only the outputs of a
\* coinbase may overwrite.
AddOutput(t) ==
  /\ err = "none" /\ pc[t] = "connect"
  /\ pos[t] < Last(block[t]) /\ NextOp(t).kind = "add"
  /\ LET o == NextOp(t).out
         e == view[t][o]
     IN /\ view' = [view EXCEPT ![t][o] = AddCoin(e, NextOp(t).coin, NextOp(t).coinbase)]
        /\ err' = IF AddThrows(e, NextOp(t).coinbase) THEN "replaces" ELSE err
  /\ pos' = [pos EXCEPT ![t] = @ + 1]
  /\ UNCHANGED <<disk, tip, best, pc, block, base, undo, hasUndo, undoFile>>

\* All effects applied: cs_main is released for the script checks.
ReleaseMain(t) ==
  /\ err = "none" /\ pc[t] = "connect" /\ pos[t] = Last(block[t])
  /\ pc' = [pc EXCEPT ![t] = "scripts"]
  /\ UNCHANGED <<disk, tip, best, view, block, pos, base, undo, hasUndo, undoFile, err>>

\* The block is dropped: a check of ConnectBlock failed before cs_main was released,
\* or a script failed or the validation was cancelled after that.
Discard(t) ==
  /\ err = "none"
  /\ pc[t] = "connect" \/ (pc[t] = "scripts" /\ ~Locked)
  /\ pc' = [pc EXCEPT ![t] = "idle"]
  /\ view' = [view EXCEPT ![t] = Empty]
  /\ UNCHANGED <<disk, tip, best, block, pos, base, undo, hasUndo, undoFile, err>>

\* view.Flush() into pcoinsTip, which also moves its best block to b.
FlushView(t, b) ==
  /\ tip' = [o \in Outpoint |-> BatchWrite(tip[o], view[t][o])]
  /\ best' = b
  /\ view' = [view EXCEPT ![t] = Empty]
  /\ err' = IF \E o \in Outpoint : FlushThrows(tip[o], view[t][o]) THEN "misapplied" ELSE err

\* Is the tip still the one the view was built on?
TipUnchanged(t) == best = base[t]

\* Scripts are fine and cs_main is held again: the undo data is written unless
\* the block has some, and the block is connected only if the tip is still the
\* one its view was built on.
FinishConnect(t) ==
  /\ err = "none" /\ ~Locked /\ pc[t] = "scripts"
  /\ undoFile' = IF block[t] \in hasUndo THEN undoFile
                 ELSE [undoFile EXCEPT ![block[t]] = undo[t]]
  /\ hasUndo' = hasUndo \cup {block[t]}
  /\ pc' = [pc EXCEPT ![t] = "idle"]
  /\ IF TipUnchanged(t)
     THEN FlushView(t, block[t])
     ELSE /\ view' = [view EXCEPT ![t] = Empty]
          /\ UNCHANGED <<tip, best, err>>
  /\ UNCHANGED <<disk, block, pos, base, undo>>

\* DisconnectTip: a fresh view, and the undo data of the tip.
StartDisconnect(t) ==
  /\ err = "none" /\ ~Locked /\ pc[t] = "idle"
  /\ best # Genesis
  /\ pc' = [pc EXCEPT ![t] = "disconnect"]
  /\ block' = [block EXCEPT ![t] = best]
  /\ pos' = [pos EXCEPT ![t] = Last(best)]
  /\ base' = [base EXCEPT ![t] = best]
  /\ view' = [view EXCEPT ![t] = Empty]
  /\ undo' = [undo EXCEPT ![t] = undoFile[best]]
  /\ err' = IF best \in hasUndo THEN err ELSE "no undo"
  /\ UNCHANGED <<disk, tip, best, hasUndo, undoFile>>

\* ApplyBlockUndo, one effect, last one first: an output is spent and compared
\* with the block, an input is restored from the undo record (UndoCoinSpend).
UndoEffect(t) ==
  /\ err = "none" /\ pc[t] = "disconnect" /\ pos[t] > 0
  /\ LET op == Ops[block[t]][pos[t]]
         e == FetchView(t, op.out)
     IN /\ view' = [view EXCEPT ![t][op.out] =
                      IF op.kind = "add" THEN SpendCoin(e)
                      ELSE AddCoin(e, undo[t][pos[t]], Have(e))]
        /\ tip' = TipAfterFetch(t, op.out)
        /\ err' = IF op.kind = "add" /\ (~e.in \/ e.coin # op.coin) THEN "unclean"
                  ELSE IF op.kind = "spend" /\ Have(e) THEN "unclean"
                  ELSE err
  /\ pos' = [pos EXCEPT ![t] = @ - 1]
  /\ UNCHANGED <<disk, best, pc, block, base, undo, hasUndo, undoFile>>

\* The whole block is undone: the view moves to the parent and is flushed.
FinishDisconnect(t) ==
  /\ err = "none" /\ pc[t] = "disconnect" /\ pos[t] = 0
  /\ FlushView(t, Parent[block[t]])
  /\ pc' = [pc EXCEPT ![t] = "idle"]
  /\ UNCHANGED <<disk, block, pos, base, undo, hasUndo, undoFile>>

\* Mutant of FlushTip: spent entries are dropped instead of erased on disk.
FlushTipKeepsSpent ==
  /\ err = "none" /\ ~Locked
  /\ disk' = [o \in Outpoint |-> IF tip[o].dirty /\ tip[o].coin # Spent THEN tip[o].coin ELSE disk[o]]
  /\ tip' = Empty
  /\ UNCHANGED <<best, view, pc, block, pos, base, undo, hasUndo, undoFile, err>>

\* FlushStateToDisk: pcoinsTip.Flush() writes its dirty coins and empties it.
FlushTip ==
  /\ err = "none" /\ ~Locked
  /\ disk' = [o \in Outpoint |-> IF tip[o].dirty THEN tip[o].coin ELSE disk[o]]
  /\ tip' = Empty
  /\ UNCHANGED <<best, view, pc, block, pos, base, undo, hasUndo, undoFile, err>>

\* Another reader, such as transaction validation, pulls a coin into pcoinsTip.
ReadTip(o) ==
  /\ err = "none"
  /\ tip' = [tip EXCEPT ![o] = FetchTip(o)]
  /\ UNCHANGED <<disk, best, view, pc, block, pos, base, undo, hasUndo, undoFile, err>>

\* Uncache drops an entry without flags.
Uncache(o) ==
  /\ err = "none"
  /\ tip[o].in /\ ~tip[o].dirty /\ ~tip[o].fresh
  /\ tip' = [tip EXCEPT ![o] = Absent]
  /\ UNCHANGED <<disk, best, view, pc, block, pos, base, undo, hasUndo, undoFile, err>>

Next ==
  \/ \E t \in Thread :
       \/ \E b \in Block : StartConnect(t, b)
       \/ \E o \in Outpoint : LookUp(t, o)
       \/ SpendInput(t) \/ AddOutput(t) \/ ReleaseMain(t) \/ Discard(t) \/ FinishConnect(t)
       \/ StartDisconnect(t) \/ UndoEffect(t) \/ FinishDisconnect(t)
  \/ FlushTip
  \/ \E o \in Outpoint : ReadTip(o) \/ Uncache(o)

Spec == Init /\ [][Next]_vars
-----------------------------------------------------------------------------
Undo(b) == [1..Last(b) -> Coin \cup {Spent}]

\* Types; a view never applies more effects than its block has, and undo data has one
\* place per effect of its block.
TypeOK ==
  /\ disk \in Content
  /\ tip \in [Outpoint -> Slot]
  /\ best \in Block
  /\ view \in [Thread -> [Outpoint -> Slot]]
  /\ pc \in [Thread -> {"idle", "connect", "scripts", "disconnect"}]
  /\ block \in [Thread -> Block]
  /\ pos \in [Thread -> Nat] /\ \A t \in Thread : pos[t] <= Last(block[t])
  /\ base \in [Thread -> Block]
  /\ DOMAIN undo = Thread /\ \A t \in Thread : undo[t] \in Undo(block[t])
  /\ hasUndo \subseteq Block
  /\ DOMAIN undoFile = Block /\ \A b \in Block : undoFile[b] \in Undo(b)
  /\ err \in {"none", "is_spent", "replaces", "misapplied", "unclean", "no undo"}

\* Whatever was cached, flushed, dropped or fetched, pcoinsTip shows exactly the
\* unspent coins of the chain that ends in its best block (BatchWrite, Flush,
\* Uncache and FetchCoinNL never lose, keep or invent a coin).
UtxoCorrect == TipView = After[best]

\* The view of a block being connected or disconnected shows, on top of the coins
\* of the tip it was built on, the coins after the effects applied so far.  The tip
\* may move while scripts are checked, and may come back before the view is flushed.
ViewCorrect ==
  \A t \in Thread : pc[t] # "idle" =>
    Shown(view[t], After[base[t]]) = Utxo[block[t]][pos[t]]

\* FRESH and DIRTY are sound at both levels of caching, so that SpendCoin and
\* BatchWrite may drop a fresh entry, and Uncache a clean one, without a trace.
FlagsSound ==
  /\ \A o \in Outpoint : Sound(tip[o], disk[o])
  /\ \A t \in Thread : pc[t] # "idle" =>
       \A o \in Outpoint : Sound(view[t][o], After[base[t]][o])

\* No std::logic_error of AddCoin or BatchWrite is ever thrown, no assertion of
\* UpdateCoins fails, undo data is there when a block is disconnected, and
\* disconnecting the tip is always clean.
NoError == err = "none"

\* The first k coins of an undo record of block b restore what b spent.
Restores(u, b, k) ==
  \A i \in 1..k : Ops[b][i].kind = "spend" => u[i] = Utxo[b][i-1][Ops[b][i].out]

\* Undo data that is on disk restores exactly the coins the block spent, even
\* when it was written by a validation that then lost the race for the tip.
UndoExact == \A b \in hasUndo : Restores(undoFile[b], b, Last(b))

\* The layered caches implement the plain set of unspent outputs.
Abstract == INSTANCE UtxoSet WITH utxo <- TipView
RefinesUtxoSet == Abstract!Spec
=============================================================================
