------------------------------- MODULE CoinsDB -------------------------------
(***************************************************************************)
(* The coin database across crashes (src/src/txdb.cpp, and FlushStateToDisk*)
(* and ReplayBlocks of src/src/validation.cpp).  Flushing pcoinsTip takes  *)
(* several LevelDB batches; the first one replaces the best block by the   *)
(* pair of head blocks <<new tip, old tip>>, the last one puts the new     *)
(* best block there.  A node that finds head blocks when it starts rolls   *)
(* the old branch back and the new one forward over whatever mixture of    *)
(* coins it finds, and flushes again; it may crash again at any point.     *)
(*                                                                         *)
(* While the node runs, pcoinsTip shows the coins of its tip and the undo  *)
(* data on disk is exact: CoinsCache is where that is shown, here it is    *)
(* used.  A crash loses what is in memory.                                 *)
(***************************************************************************)
EXTENDS Coins

CONSTANTS Null,         \* no block
          Ancestors,    \* Ancestors[b]: b and the blocks below it
          MaxCrashes    \* bound: how many crashes a behaviour has

ASSUME AncestorAssumption ==
  /\ Null \notin Block
  /\ Ancestors \in [Block -> SUBSET Block]
  /\ Ancestors[Genesis] = {Genesis}
  /\ \A b \in Block : Genesis \in Ancestors[b]
  /\ \A b \in Block \ {Genesis} :
       /\ Ancestors[b] = Ancestors[Parent[b]] \cup {b}
       /\ b \notin Ancestors[Parent[b]]

VARIABLES
  coins,      \* the coin records of the database
  dbBest,     \* DB_BEST_BLOCK, Null if there is none
  heads,      \* DB_HEAD_BLOCKS: <<new, old>>, or <<>> if there are none
  dbIndex,    \* the blocks in the block tree database
  dbUndo,     \* the blocks it lists with BLOCK_HAVE_UNDO
  up,         \* what the process is doing
  index,      \* mapBlockIndex: the blocks known and stored
  undo,       \* the blocks with BLOCK_HAVE_UNDO in memory
  tip,        \* the best block of pcoinsTip and of chainActive
  cache,      \* the CCoinsViewCache of ReplayBlocks
  at,         \* the block ReplayBlocks undoes or redoes
  pos,        \* how many effects of that block the cache shows
  batch,      \* BatchWrite: what is left of mapCoins
  target,     \* BatchWrite: hashBlock
  oldTip,     \* BatchWrite: old_tip
  crashes,    \* how many crashes there have been
  err         \* the failure met so far

disk == <<coins, dbBest, heads, dbIndex, dbUndo>>
memory == <<index, undo, tip>>
replay == <<cache, at, pos>>
write == <<batch, target, oldTip>>
vars == <<disk, up, memory, replay, write, crashes, err>>

\* The coins of the chain that ends in b; the genesis coinbase is not one of them.
CoinsOf(b) == IF b = Null THEN After[Genesis] ELSE After[b]

Init ==
  /\ coins = CoinsOf(Null) /\ dbBest = Null /\ heads = <<>>
  /\ dbIndex = {} /\ dbUndo = {}
  /\ up = "down"
  /\ index = {} /\ undo = {} /\ tip = Null
  /\ cache = Empty /\ at = Genesis /\ pos = 0
  /\ batch = Empty /\ target = Null /\ oldTip = Null
  /\ crashes = 0 /\ err = "none"
-----------------------------------------------------------------------------
(* A node that runs.                                                       *)

\* AcceptBlock: a block whose parent is known is stored and indexed.
AcceptBlock(b) ==
  /\ up = "run"
  /\ b \notin index /\ b # Genesis /\ Parent[b] \in index
  /\ index' = index \cup {b}
  /\ UNCHANGED <<disk, up, undo, tip, replay, write, crashes, err>>

\* ConnectTip: the undo data is on disk before the tip moves.
ConnectTip(b) ==
  /\ up = "run" /\ b \in index
  /\ IF b = Genesis THEN tip = Null ELSE tip = Parent[b]
  /\ undo' = IF b = Genesis THEN undo ELSE undo \cup {b}
  /\ tip' = b
  /\ UNCHANGED <<disk, up, index, replay, write, crashes, err>>

\* DisconnectTip, which needs the undo data.
DisconnectTip ==
  /\ up = "run" /\ tip \notin {Null, Genesis}
  /\ IF tip \in undo THEN tip' = Parent[tip] /\ UNCHANGED err
                     ELSE tip' = tip /\ err' = "no undo data"
  /\ UNCHANGED <<disk, up, index, undo, replay, write, crashes>>

\* FlushStateToDisk, fPeriodicWrite: WriteBatchSync of the block index alone.
WriteIndex ==
  /\ up = "run"
  /\ dbIndex' = index /\ dbUndo' = undo
  /\ UNCHANGED <<coins, dbBest, heads, up, memory, replay, write, crashes, err>>
-----------------------------------------------------------------------------
(* CCoinsViewDB::BatchWrite.                                               *)

\* The tip the database is moving from; a batch write that finds head blocks must
\* be the one that completes them.
StartBatch(hashBlock, mapCoins) ==
  /\ batch' = mapCoins
  /\ target' = hashBlock
  /\ oldTip' = IF dbBest # Null THEN dbBest
               ELSE IF heads # <<>> THEN heads[2] ELSE Null
  /\ err' = IF dbBest = Null /\ heads # <<>> /\ heads[1] # hashBlock
            THEN "old_heads[0] == hashBlock" ELSE err

\* The entries of pcoinsTip whose writing changes the database.
DirtyCoins ==
  [o \in Outpoint |-> IF coins[o] = After[tip][o] THEN Absent
                      ELSE [in |-> TRUE, coin |-> After[tip][o], dirty |-> TRUE, fresh |-> FALSE]]

\* Mutant of StartFlush: the coins are flushed before the block index.
StartFlushCoinsFirst ==
  /\ up = "run" /\ tip # Null
  /\ up' = "flush"
  /\ StartBatch(tip, DirtyCoins)
  /\ UNCHANGED <<disk, memory, replay, crashes>>

\* FlushStateToDisk, fDoFullFlush: the block index first, then pcoinsTip->Flush().
StartFlush ==
  /\ up = "run" /\ tip # Null
  /\ dbIndex' = index /\ dbUndo' = undo
  /\ up' = "flush"
  /\ StartBatch(tip, DirtyCoins)
  /\ UNCHANGED <<coins, dbBest, heads, memory, replay, crashes>>

\* The entries that are still to be written.
Pending == {o \in Outpoint : batch[o].dirty}

\* Coin records written or erased for the entries of S.
Written(S) == [o \in Outpoint |-> IF o \in S THEN batch[o].coin ELSE coins[o]]

\* Mutant of MarkHeads: the first batch does not mark the transition.
MarkNothing == UNCHANGED <<dbBest, heads>>

\* The first batch erases the best block and writes the head blocks.
MarkHeads == dbBest' = Null /\ heads' = <<target, oldTip>>

\* A batch that has grown past -dbbatchsize, in the order of the hash map.
WritePartial(S) ==
  /\ up = "flush" /\ S # {} /\ S \subseteq Pending
  /\ coins' = Written(S)
  /\ batch' = [o \in Outpoint |-> IF o \in S THEN Absent ELSE batch[o]]
  /\ MarkHeads
  /\ UNCHANGED <<dbIndex, dbUndo, up, memory, replay, target, oldTip, crashes, err>>

\* The last batch; the node then runs, with the tip the database has.
WriteFinal ==
  /\ up = "flush"
  /\ coins' = Written(Pending)
  /\ dbBest' = target /\ heads' = <<>>
  /\ up' = "run" /\ tip' = target
  /\ batch' = Empty /\ target' = Null /\ oldTip' = Null
  /\ UNCHANGED <<dbIndex, dbUndo, index, undo, replay, crashes, err>>
-----------------------------------------------------------------------------
(* Starting, and ReplayBlocks.                                             *)

\* ReplayBlocks: the database is in the middle of a transition.
NeedsReplay == heads # <<>>

\* The block index is loaded (it always has the genesis block); without head
\* blocks the tip is the best block of the database, otherwise the replay starts
\* at the old tip, or at the genesis block if there was none.
Boot ==
  /\ up = "down"
  /\ index' = dbIndex \cup {Genesis}
  /\ undo' = dbUndo
  /\ IF ~NeedsReplay
     THEN /\ up' = "run" /\ tip' = IF dbBest \in index' THEN dbBest ELSE Null
          /\ UNCHANGED <<replay, err>>
     ELSE IF heads[1] \notin index' \/ (heads[2] # Null /\ heads[2] \notin index')
     THEN /\ up' = "failed" /\ err' = "unknown block"
          /\ UNCHANGED <<replay, tip>>
     ELSE /\ up' = "rollback"
          /\ cache' = Empty
          /\ at' = IF heads[2] = Null THEN Genesis ELSE heads[2]
          /\ pos' = Last(at')
          /\ UNCHANGED <<tip, err>>
  /\ UNCHANGED <<disk, write, crashes>>

FetchCache(o) == FetchOverDB(cache[o], coins[o])

\* Rolling back goes on until the last common ancestor of the two heads.
Forked == at \in Ancestors[heads[1]]

\* DisconnectBlock, one effect: clean or not, the outcome is the same.
RollbackEffect ==
  /\ LET op == Ops[at][pos]
         e == FetchCache(op.out)
     IN cache' = [cache EXCEPT ![op.out] =
                    IF op.kind = "add" THEN SpendCoin(e)
                    ELSE AddCoin(e, Utxo[at][pos - 1][op.out], Have(e))]
  /\ pos' = pos - 1
  /\ UNCHANGED at

\* The block is undone: its parent is next.
RollbackNext == at' = Parent[at] /\ pos' = Last(Parent[at]) /\ UNCHANGED cache

\* A step along the old branch; DISCONNECT_FAILED keeps the node from starting.
Rollback ==
  /\ up = "rollback" /\ ~Forked
  /\ IF at \notin undo
     THEN up' = "failed" /\ err' = "no undo data" /\ UNCHANGED replay
     ELSE /\ IF pos = 0 THEN RollbackNext ELSE RollbackEffect
          /\ UNCHANGED <<up, err>>
  /\ UNCHANGED <<disk, memory, write, crashes>>

\* The fork, or the end of a block that was redone, is reached.
AtBlockEnd == (up = "rollback" /\ Forked) \/ (up = "forward" /\ pos = Last(at))

\* On to the next block of the new branch.
ForwardNext(b) ==
  /\ AtBlockEnd /\ at # heads[1]
  /\ b # Genesis /\ b \in Ancestors[heads[1]] /\ Parent[b] = at
  /\ up' = "forward" /\ at' = b /\ pos' = 0
  /\ UNCHANGED <<disk, memory, cache, write, crashes, err>>

\* RollforwardBlock, one effect: every addition may be an overwrite.
ForwardEffect ==
  /\ up = "forward" /\ pos < Last(at)
  /\ LET op == Ops[at][pos + 1]
         e == FetchCache(op.out)
     IN cache' = [cache EXCEPT ![op.out] =
                    IF op.kind = "spend" THEN SpendCoin(e)
                    ELSE AddCoin(e, op.coin, Have(e))]
  /\ pos' = pos + 1
  /\ UNCHANGED <<disk, up, memory, at, write, crashes, err>>

\* Mutant of ReplayFlush: the replayed coins stay in memory.
ReplayKeepsInMemory ==
  /\ AtBlockEnd /\ at = heads[1]
  /\ up' = "run" /\ tip' = at
  /\ UNCHANGED <<disk, index, undo, replay, write, crashes, err>>

\* SetBestBlock and Flush of the replay cache.
ReplayFlush ==
  /\ AtBlockEnd /\ at = heads[1]
  /\ up' = "flush"
  /\ StartBatch(at, cache)
  /\ cache' = Empty /\ at' = Genesis /\ pos' = 0
  /\ UNCHANGED <<disk, memory, crashes>>

Replay == Rollback \/ (\E b \in Block : ForwardNext(b)) \/ ForwardEffect \/ ReplayFlush

\* The process dies, anywhere.
Crash ==
  /\ up \notin {"down", "failed"} /\ crashes < MaxCrashes
  /\ crashes' = crashes + 1
  /\ up' = "down"
  /\ index' = {} /\ undo' = {} /\ tip' = Null
  /\ cache' = Empty /\ at' = Genesis /\ pos' = 0
  /\ batch' = Empty /\ target' = Null /\ oldTip' = Null
  /\ UNCHANGED <<disk, err>>

Next ==
  \/ \E b \in Block : AcceptBlock(b) \/ ConnectTip(b)
  \/ DisconnectTip \/ WriteIndex \/ StartFlush
  \/ (\E S \in SUBSET Outpoint : WritePartial(S)) \/ WriteFinal
  \/ Boot \/ Replay \/ Crash

Spec == Init /\ [][Next]_vars

\* A node that is down is started, and starting and flushing go on to their end.
LiveSpec == Spec /\ WF_vars(Boot) /\ WF_vars(Replay) /\ WF_vars(WriteFinal)
-----------------------------------------------------------------------------
\* Types; head blocks come in pairs, and the replay stays within the block it is at.
TypeOK ==
  /\ coins \in Content
  /\ dbBest \in Block \cup {Null}
  /\ heads = <<>> \/ heads \in Block \X (Block \cup {Null})
  /\ dbIndex \subseteq Block /\ dbUndo \subseteq Block
  /\ up \in {"down", "run", "flush", "rollback", "forward", "failed"}
  /\ index \subseteq Block /\ undo \subseteq Block /\ tip \in Block \cup {Null}
  /\ cache \in [Outpoint -> Slot]
  /\ at \in Block /\ pos \in 0..Last(at)
  /\ batch \in [Outpoint -> Slot]
  /\ target \in Block \cup {Null} /\ oldTip \in Block \cup {Null}
  /\ crashes \in Nat

\* Without head blocks the database holds exactly the coins of its best block, after
\* any number of crashes inside BatchWrite, ReplayBlocks and the flush that ends it.
DBConsistent == heads = <<>> => coins = CoinsOf(dbBest)

\* In the middle of a transition every coin record is the one of the old or of the
\* new tip: what ReplayBlocks can repair whatever subset was written.
MidTransition ==
  heads # <<>> => \A o \in Outpoint : coins[o] \in {CoinsOf(heads[2])[o], After[heads[1]][o]}

\* ReplayBlocks never meets an unknown block or missing undo data, DisconnectTip
\* never misses undo data after a restart, and the assertion of BatchWrite that head
\* blocks are completed by the flush they were written for holds.
NeverStuck == err = "none"

\* Once head blocks are on disk the database moves to that new tip and to no other.
TransitionCompletes ==
  [][heads # <<>> => \/ heads' = heads /\ dbBest' = Null
                     \/ heads' = <<>> /\ dbBest' = heads[1]]_vars

\* An interrupted flush is eventually repaired.
Repaired == heads # <<>> ~> heads = <<>>
=============================================================================
