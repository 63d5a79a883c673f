------------------------------ MODULE BlockFiles ------------------------------
(* Block and undo files, the block index that points into them, pruning, and  *)
(* the order in which FlushStateToDisk makes all of it durable.               *)
(*                                                                            *)
(* The active chain is a line of blocks named by their heights; every block   *)
(* and every undo record takes one unit of its file.  cs_main is held by each *)
(* operation, so they do not interleave; what can interrupt them is a crash,  *)
(* between any two of the disk operations of a flush.                         *)
EXTENDS Integers, Sequences, FiniteSets

CONSTANTS
    MaxHeight,        \* bound: the highest block that exists
    MaxFile,          \* bound: the highest file number
    FileSize,         \* -preferredblockfilesize
    BlockChunk,       \* BLOCKFILE_CHUNK_SIZE
    UndoChunk,        \* UNDOFILE_CHUNK_SIZE
    PruneTarget,      \* nPruneTarget
    PruneAfterHeight, \* chainparams.PruneAfterHeight()
    Keep,             \* MIN_BLOCKS_TO_KEEP
    CheckBlocks,      \* -checkblocks
    Worlds,           \* the situations explored: faults that may happen, and how far
                      \* ahead of the tip, and how high, blocks are downloaded
    MaxFaults         \* bound: how many faults happen

ASSUME KeepAssumption == /\ Keep \in Nat
                         /\ PruneAfterHeight \in Nat
                         /\ Keep <= PruneAfterHeight
                         /\ MaxHeight \in Nat /\ MaxFile \in Nat /\ MaxFaults \in Nat
                         /\ FileSize \in Nat

VARIABLES
    index,      \* mapBlockIndex: where the data and the undo of a block are
    dirtyIndex, \* setDirtyBlockIndex
    info,       \* vinfoBlockFile
    dirtyInfo,  \* setDirtyFileInfo
    last,       \* nLastBlockFile
    tip,        \* chainActive.Height()
    best,       \* height of pcoinsTip->GetBestBlock()
    check,      \* fCheckForPruning
    disk,       \* the block tree and coin databases
    blk, rev,   \* the files: a sequence of [b |-> block, sync |-> durable]
    present,    \* the block files that exist
    pc,         \* the step FlushStateToDisk is at, or whether the node runs
    toPrune,    \* setFilesToPrune
    full,       \* fDoFullFlush
    stopping,   \* Shutdown() called this flush
    aborted,    \* AbortNode() was called
    world,      \* which of Worlds this is; it never changes
    left        \* the faults that may still happen

memory == <<index, dirtyIndex, info, dirtyInfo, last, tip, best, check>>
files  == <<blk, rev, present>>
flush  == <<pc, toPrune, full, stopping>>
vars   == <<memory, disk, files, flush, aborted, world, left>>

Blocks == 0..MaxHeight
Files  == 0..MaxFile
Lost   == -1    \* what a read returns where the data never reached the disk

\* A block index entry: tx is nTx > 0, which pruning leaves as it is.
NoData(t) == [data |-> FALSE, undo |-> FALSE, file |-> 0, pos |-> 0, upos |-> 0,
              tx |-> t]
WithUndo(e, p) == [e EXCEPT !.undo = TRUE, !.upos = p]
NoInfo == [size |-> 0, undo |-> 0, high |-> 0]

Max2(a, b) == IF a >= b THEN a ELSE b
Min2(a, b) == IF a <= b THEN a ELSE b
Chunks(n, c) == (n + c - 1) \div c
\* Unsigned subtraction of heights; 2^30, which TLC can compute, stands for
\* 2^32: both are far above every height.
Minus(a, b) == (a - b) % 2^30

\* Writing one record; a write past the end leaves a hole.
PutAt(file, pos, b) ==
    [i \in 1..Max2(Len(file), pos + 1) |->
        IF i = pos + 1 THEN [b |-> b, sync |-> FALSE]
        ELSE IF i <= Len(file) THEN file[i] ELSE [b |-> Lost, sync |-> TRUE]]

\* Reading one: the block read must be the block asked for.
ReadAt(file, pos, b) == pos < Len(file) /\ file[pos + 1].b = b

ReadBlockFromDisk(b) ==
    index[b].data /\ ReadAt(blk[index[b].file], index[b].pos, b)
UndoReadFromDisk(b) ==
    index[b].undo /\ ReadAt(rev[index[b].file], index[b].upos, b)

Synced(file) == [i \in DOMAIN file |-> [file[i] EXCEPT !.sync = TRUE]]
Truncated(file, n) == SubSeq(file, 1, Min2(n, Len(file)))

(******************************************************************************)
(* CBlockFileInfoStore                                                        *)
(******************************************************************************)

\* FindNextFileWithEnoughEmptySpace, from the last file upwards.
NextFile ==
    CHOOSE f \in last..(MaxFile + 1) :
        /\ \/ f = MaxFile + 1
           \/ info[f].size = 0
           \/ info[f].size + 1 < FileSize
        /\ \A g \in last..(f - 1) : info[g].size # 0 /\ info[g].size + 1 >= FileSize

AddBlockLastHeight(i, b) == [i EXCEPT !.size = @ + 1, !.high = b]

\* CBlockFileInfo::AddBlock and the new size.
AddBlock(i, b) == [i EXCEPT !.size = @ + 1, !.high = Max2(@, b)]

FlushedBlkNever(finalize) == blk

\* The files FlushBlockFile(fFinalize) leaves: the last ones, made durable.
FlushedBlk(finalize) ==
    [blk EXCEPT ![last] = Synced(IF finalize THEN Truncated(@, info[last].size) ELSE @)]
FlushedRev(finalize) ==
    [rev EXCEPT ![last] = Synced(IF finalize THEN Truncated(@, info[last].undo) ELSE @)]

\* vinfo and cur are vinfoBlockFile and nLastBlockFile as the operation that
\* enters the flush has left them.
CalculateCurrentUsage(vinfo) ==
    LET use[f \in -1..MaxFile] ==
            IF f = -1 THEN 0 ELSE use[f - 1] + vinfo[f].size + vinfo[f].undo
    IN use[MaxFile]

\* FindFilesToPrune: from file 0 up until the target is met; a file that may
\* hold a block close to the tip is skipped, the scan goes on.
FindFilesToPrune(vinfo, cur) ==
    LET prunable(f) == /\ f < cur
                       /\ vinfo[f].size # 0
                       /\ vinfo[f].high <= Minus(tip, Keep)
        over(use) == use + BlockChunk + UndoChunk >= PruneTarget
        usage[f \in Files] ==      \* nCurrentUsage when the scan reaches f
            IF f = 0 THEN CalculateCurrentUsage(vinfo)
            ELSE usage[f - 1] - (IF prunable(f - 1) /\ over(usage[f - 1])
                                 THEN vinfo[f - 1].size + vinfo[f - 1].undo ELSE 0)
    IN IF PruneTarget = 0 \/ tip <= PruneAfterHeight THEN {}
       ELSE {f \in Files : prunable(f) /\ over(usage[f])}

FindFilesToPruneManual(h) ==
    {f \in Files : /\ f < last
                   /\ info[f].size # 0
                   /\ info[f].high <= Min2(h, Minus(tip, Keep))}

(******************************************************************************)
(* FlushStateToDisk, one action per disk operation                            *)
(******************************************************************************)

\* One of the faults happens here: "space" is CheckDiskSpace finding too
\* little, "write", "batch" and "coins" are writes that fail, "inuse" is a
\* file that cannot be removed, "power" a loss of power.
Fault(kind) == kind \in world.faults /\ left > 0 /\ left' = left - 1
NoFault == UNCHANGED left

EnterNoFlag(chosen, chk, modes) ==
    /\ toPrune' = chosen
    /\ check' = chk
    /\ disk' = disk
    /\ \E m \in (IF chosen = {} THEN modes ELSE {"full"}) :
           /\ full' = (m = "full")
           /\ pc' = IF m = "none" THEN "end" ELSE "sync"

\* FlushStateToDisk is entered by the operation that has just changed the
\* memory; chk is fCheckForPruning as that operation leaves it, chosen the
\* files to prune, modes the values fDoFullFlush || fPeriodicWrite may take.
Enter(chosen, chk, modes) ==
    /\ toPrune' = chosen
    /\ check' = chk
    /\ disk' = IF chosen = {} THEN disk ELSE [disk EXCEPT !.pruned = TRUE]
    /\ \E m \in (IF chosen = {} THEN modes ELSE {"full"}) :
           /\ full' = (m = "full")
           /\ pc' = IF m = "none" THEN "end" ELSE "sync"

\* The flush returns false: AbortNode or state.Error after one.
GiveUp == /\ aborted' = TRUE
          /\ pc' = IF stopping THEN "down" ELSE "run"
          /\ toPrune' = {} /\ full' = FALSE

\* FlushBlockFile.
FlushSync ==
    /\ pc = "sync"
    /\ \/ /\ Fault("space") /\ GiveUp
          /\ UNCHANGED files
       \/ /\ pc' = "batch"
          /\ blk' = FlushedBlk(FALSE)
          /\ rev' = FlushedRev(FALSE)
          /\ present' = present \cup {last}
          /\ UNCHANGED <<aborted, toPrune, full, left>>
    /\ UNCHANGED <<memory, disk, stopping>>

\* WriteBatchSync; the dirty sets are emptied before the write is tried.
FlushBatch ==
    /\ pc = "batch"
    /\ dirtyIndex' = {} /\ dirtyInfo' = {}
    /\ \/ /\ Fault("batch") /\ GiveUp
          /\ UNCHANGED disk
       \/ /\ disk' = [disk EXCEPT
                !.index = [b \in Blocks |->
                              IF b \in dirtyIndex THEN index[b] ELSE @[b]],
                !.info  = [f \in Files |->
                              IF f \in dirtyInfo THEN info[f] ELSE @[f]],
                !.last  = last]
          /\ pc' = IF full THEN "unlink" ELSE "end"
          /\ UNCHANGED <<aborted, toPrune, full, left>>
    /\ UNCHANGED <<index, info, last, tip, best, check, files, stopping>>

PruneOneBlockFileKeepsIndex(f) ==
    /\ info' = [info EXCEPT ![f] = NoInfo]
    /\ dirtyInfo' = dirtyInfo \cup {f}
    /\ UNCHANGED <<index, dirtyIndex>>

\* UnlinkPrunedFiles, one file: the block file and the undo file go, then
\* PruneOneBlockFile clears the entries that point to it.  ClearFileInfo
\* resets the file number to 0, so entries without data share it with the
\* blocks of file 0.
PruneOneBlockFile(f) ==
    /\ index' = [b \in Blocks |-> IF index[b].file = f
                                  THEN NoData(index[b].tx) ELSE index[b]]
    /\ dirtyIndex' = dirtyIndex \cup {b \in Blocks : index[b].file = f}
    /\ info' = [info EXCEPT ![f] = NoInfo]
    /\ dirtyInfo' = dirtyInfo \cup {f}

FlushUnlink ==
    /\ pc = "unlink"
    /\ toPrune # {}
    /\ LET f == CHOOSE g \in toPrune : \A h \in toPrune : g <= h IN
       /\ toPrune' = toPrune \ {f}
       /\ \/ /\ present' = present \ {f}
             /\ blk' = [blk EXCEPT ![f] = <<>>]
             /\ rev' = [rev EXCEPT ![f] = <<>>]
             /\ PruneOneBlockFile(f)
             /\ NoFault
          \/ /\ Fault("inuse")
             /\ UNCHANGED <<files, index, dirtyIndex, info, dirtyInfo>>
    /\ UNCHANGED <<last, tip, best, check, disk, pc, full, stopping, aborted>>

\* pcoinsTip->Flush()
FlushCoins ==
    /\ pc = "unlink"
    /\ toPrune = {}
    /\ \/ /\ Fault("space") \/ Fault("coins")
          /\ GiveUp
          /\ UNCHANGED disk
       \/ /\ disk' = [disk EXCEPT !.coins = best]
          /\ pc' = "end"
          /\ UNCHANGED <<aborted, toPrune, full, left>>
    /\ UNCHANGED <<memory, files, stopping>>

\* The caller goes on: ConnectTip and DisconnectTip update the tip.
FlushEnd ==
    /\ pc = "end"
    /\ tip' = best
    /\ pc' = IF stopping THEN "down" ELSE "run"
    /\ full' = FALSE
    /\ UNCHANGED <<index, dirtyIndex, info, dirtyInfo, last, best, check, disk,
                   files, toPrune, stopping, aborted, left>>

(******************************************************************************)
(* The operations that write blocks                                           *)
(******************************************************************************)

\* fPruneMode && a new chunk of the file is needed.
NewChunk(old, c) == Chunks(old + 1, c) > Chunks(old, c)

\* Where the next block and the next undo record of a file go.
FindBlockPos == [file |-> NextFile, pos |-> info[NextFile].size]
FindUndoPos(f) == info[f].undo

\* AcceptBlock: FindBlockPos, WriteBlockToDisk, ReceivedBlockTransactions and
\* the pruning flush.  A failed write aborts the node and the code goes on.
AcceptBlock(b) ==
    LET f == NextFile
        pos == FindBlockPos.pos
        newInfo == [info EXCEPT ![f] = AddBlock(@, b)]
        chk == check \/ NewChunk(pos, BlockChunk)
        leave == f # last
        blk1 == IF leave THEN FlushedBlk(TRUE) ELSE blk
        present1 == IF leave THEN present \cup {last} ELSE present
    IN
    /\ pc = "run"
    /\ ~index[b].data
    /\ b <= tip + world.ahead /\ b <= world.height
    /\ f <= MaxFile
    /\ info' = newInfo
    /\ last' = f
    /\ rev' = IF leave THEN FlushedRev(TRUE) ELSE rev
    /\ UNCHANGED <<tip, best, stopping>>
    /\ \/ \* CheckDiskSpace fails in FindBlockPos
          /\ NewChunk(pos, BlockChunk) /\ Fault("space")
          /\ aborted' = TRUE
          /\ check' = chk
          /\ blk' = blk1 /\ present' = present1
          /\ UNCHANGED <<index, dirtyIndex, dirtyInfo, disk, pc, toPrune, full>>
       \/ /\ \/ /\ blk' = [blk1 EXCEPT ![f] = PutAt(@, pos, b)]
                /\ present' = present1 \cup {f}
                /\ UNCHANGED <<aborted, left>>
             \/ /\ Fault("write")
                /\ aborted' = TRUE
                /\ blk' = blk1 /\ present' = present1
          /\ index' = [index EXCEPT ![b] =
                [data |-> TRUE, undo |-> @.undo, file |-> f, pos |-> pos,
                 upos |-> 0, tx |-> TRUE]]
          /\ dirtyIndex' = dirtyIndex \cup {b}
          /\ dirtyInfo' = dirtyInfo \cup {f}
          /\ IF chk THEN Enter(FindFilesToPrune(newInfo, f), FALSE, {"none"})
             ELSE /\ check' = FALSE
                  /\ UNCHANGED <<disk, pc, toPrune, full>>

\* ConnectTip: the block is at hand or read from disk; ConnectBlock writes the
\* undo record beside the block unless there is one; then the flush
\* FLUSH_STATE_IF_NEEDED, and only then the tip.
Connect ==
    LET b == tip + 1
        f == index[b].file
        upos == FindUndoPos(f)
        chk == check \/ (~index[b].undo /\ NewChunk(upos, UndoChunk))
    IN
    /\ pc = "run" /\ ~aborted
    /\ b <= MaxHeight
    /\ index[b].data
    /\ UNCHANGED <<last, tip, stopping>>
    /\ \/ \* at hand, or read from disk
          /\ IF index[b].undo THEN UNCHANGED <<info, dirtyInfo, rev, index, dirtyIndex>>
             ELSE /\ info' = [info EXCEPT ![f].undo = @ + 1]
                  /\ dirtyInfo' = dirtyInfo \cup {f}
                  /\ rev' = [rev EXCEPT ![f] = PutAt(@, upos, b)]
                  /\ index' = [index EXCEPT ![b] = WithUndo(@, upos)]
                  /\ dirtyIndex' = dirtyIndex \cup {b}
          /\ best' = b
          /\ UNCHANGED <<blk, present, aborted, left>>
          /\ Enter(IF chk THEN FindFilesToPrune(info', last) ELSE {}, FALSE, {"none", "full"})
       \/ \* FindUndoPos finds no disk space: ConnectBlock fails
          /\ ~index[b].undo /\ NewChunk(upos, UndoChunk) /\ Fault("space")
          /\ info' = [info EXCEPT ![f].undo = @ + 1]
          /\ dirtyInfo' = dirtyInfo \cup {f}
          /\ check' = chk
          /\ aborted' = TRUE
          /\ UNCHANGED <<rev, index, dirtyIndex, best, blk, present, disk,
                         pc, toPrune, full>>
       \/ \* ReadBlockFromDisk fails: AbortNode
          /\ ~ReadBlockFromDisk(b)
          /\ aborted' = TRUE
          /\ UNCHANGED <<info, dirtyInfo, rev, index, dirtyIndex, best, check,
                         blk, present, disk, pc, toPrune, full, left>>

\* DisconnectTip.
Disconnect ==
    /\ pc = "run" /\ ~aborted
    /\ tip > 0
    /\ UNCHANGED <<index, dirtyIndex, info, dirtyInfo, last, tip, files, stopping,
                   left>>
    /\ \/ /\ ReadBlockFromDisk(tip) /\ UndoReadFromDisk(tip)
          /\ best' = tip - 1
          /\ Enter(IF check THEN FindFilesToPrune(info, last) ELSE {}, FALSE, {"none", "full"})
          /\ UNCHANGED aborted
       \/ /\ ~ReadBlockFromDisk(tip)
          /\ aborted' = TRUE
          /\ UNCHANGED <<best, check, disk, pc, toPrune, full>>

\* FlushStateToDisk(FLUSH_STATE_PERIODIC).
Periodic ==
    /\ pc = "run" /\ ~aborted
    /\ Enter(IF check THEN FindFilesToPrune(info, last) ELSE {}, FALSE, {"write", "full"})
    /\ UNCHANGED <<index, dirtyIndex, info, dirtyInfo, last, tip, best, files,
                   stopping, aborted, left>>

\* pruneblockchain: refused on a short chain, clipped near the tip.
PruneHeights ==
    IF tip < PruneAfterHeight THEN {}
    ELSE {IF h > Minus(tip, Keep) THEN Minus(tip, Keep) ELSE h : h \in 0..tip}

PruneBlockchain(h) ==
    /\ pc = "run" /\ ~aborted
    /\ h \in PruneHeights
    /\ h > 0
    /\ Enter(FindFilesToPruneManual(h), check, {"none"})
    /\ UNCHANGED <<index, dirtyIndex, info, dirtyInfo, last, tip, best, files,
                   stopping, aborted, left>>

\* Shutdown(): FlushStateToDisk(FLUSH_STATE_ALWAYS).
Shutdown ==
    /\ pc = "run"
    /\ stopping' = TRUE
    /\ Enter(IF check THEN FindFilesToPrune(info, last) ELSE {}, FALSE, {"full"})
    /\ UNCHANGED <<index, dirtyIndex, info, dirtyInfo, last, tip, best, files, aborted,
                   left>>

(******************************************************************************)
(* Crash and restart                                                          *)
(******************************************************************************)

AfterPowerLoss(file) ==
    [i \in DOMAIN file |-> IF file[i].sync THEN file[i]
                           ELSE [b |-> Lost, sync |-> TRUE]]

\* What the memory will hold once the databases are loaded again.
Reload ==
    /\ index' = disk.index /\ info' = disk.info /\ last' = disk.last
    /\ dirtyIndex' = {} /\ dirtyInfo' = {}
    /\ tip' = disk.coins /\ best' = disk.coins
    /\ check' = FALSE

\* The process dies, or the machine does and takes what was not synced.
Crash ==
    /\ pc \notin {"down", "failed"}
    /\ pc' = "down"
    /\ \/ UNCHANGED <<blk, rev, left>>
       \/ /\ Fault("power")
          /\ blk' = [f \in Files |-> AfterPowerLoss(blk[f])]
          /\ rev' = [f \in Files |-> AfterPowerLoss(rev[f])]
    /\ Reload
    /\ toPrune' = {} /\ full' = FALSE /\ stopping' = FALSE /\ aborted' = FALSE
    /\ UNCHANGED <<disk, present>>

\* LoadBlockIndexDB refuses an index that points to a missing file;
\* LoadChainTip needs the best block of the coins in the index.
Loads == /\ \A b \in Blocks : disk.index[b].data => disk.index[b].file \in present
         /\ disk.index[disk.coins].tx

\* VerifyDB at its default level over the last CheckBlocks blocks.
Verifies ==
    LET down == {b \in 1..disk.coins : b > disk.coins - CheckBlocks}
        at(b) == disk.index[b]
    IN \A b \in down :
          (\A c \in down : c >= b => at(c).data) =>
             /\ ReadAt(blk[at(b).file], at(b).pos, b)
             /\ at(b).undo
             /\ ReadAt(rev[at(b).file], at(b).upos, b)

\* The initialisation: load, verify, and PruneAndFlush.
Start ==
    /\ pc = "down"
    /\ stopping' = FALSE /\ aborted' = FALSE
    /\ UNCHANGED files
    /\ pc' = IF Loads /\ Verifies THEN "prune" ELSE "failed"
    /\ Reload
    /\ UNCHANGED <<disk, toPrune, full, left>>

\* fCheckForPruning is set, and the flush is FLUSH_STATE_NONE.
PruneAndFlush ==
    /\ pc = "prune"
    /\ Enter(FindFilesToPrune(info, last), FALSE, {"none"})
    /\ UNCHANGED <<index, dirtyIndex, info, dirtyInfo, last, tip, best, files,
                   stopping, aborted, left>>

\* A node that has just stored and connected the genesis block and flushed.
Init ==
    LET genesis == [data |-> TRUE, undo |-> FALSE, file |-> 0, pos |-> 0,
                    upos |-> 0, tx |-> TRUE]
        idx == [b \in Blocks |-> IF b = 0 THEN genesis ELSE NoData(FALSE)]
        inf == [f \in Files |-> IF f = 0 THEN AddBlock(NoInfo, 0) ELSE NoInfo]
    IN
    /\ index = idx /\ dirtyIndex = {}
    /\ info = inf /\ dirtyInfo = {} /\ last = 0
    /\ tip = 0 /\ best = 0 /\ check = FALSE
    /\ disk = [index |-> idx, info |-> inf, last |-> 0, coins |-> 0,
               pruned |-> FALSE]
    /\ blk = [f \in Files |-> IF f = 0 THEN <<[b |-> 0, sync |-> TRUE]>> ELSE <<>>]
    /\ rev = [f \in Files |-> <<>>]
    /\ present = {0}
    /\ pc = "run" /\ toPrune = {} /\ full = FALSE
    /\ stopping = FALSE /\ aborted = FALSE
    /\ world \in Worlds /\ left = MaxFaults

Step ==
    \/ \E b \in Blocks : AcceptBlock(b)
    \/ Connect \/ Disconnect \/ Periodic
    \/ \E h \in Blocks : PruneBlockchain(h)
    \/ Shutdown \/ Crash \/ Start \/ PruneAndFlush
    \/ FlushSync \/ FlushBatch \/ FlushUnlink \/ FlushCoins \/ FlushEnd

Next == Step /\ UNCHANGED world

Spec == Init /\ [][Next]_vars

(******************************************************************************)
(* Properties                                                                 *)
(******************************************************************************)

Running == pc \notin {"down", "failed"}

\* While the node runs, a block the index says has data can be read at the
\* position the index gives (CBlockIndex::GetBlockPos), whatever was pruned,
\* overwritten after a crash, or lost with the power before.  It holds as long
\* as no write fails: AcceptBlock goes on after a failed one.
IndexedBlocksReadable ==
    Running /\ "write" \notin world.faults => \A b \in Blocks : index[b].data => ReadBlockFromDisk(b)

\* At every instant a crash may come, a block the index in the database says
\* has data is on the disk, durable, unless its file was unlinked
\* (FlushBlockFile is called when a file is left and before each index write):
\* it takes a failed block write to end this.  The best block of the coin
\* database is in that index ("This can only be done if the blocks / block
\* index write was also done"): it takes a failed index write to end this, its
\* dirty sets were emptied before.  Whatever fails, a file the database has
\* blocks in is missing only from a directory whose prunedblockfiles flag is
\* set, so that a restart without -prune is refused.
DatabaseConsistent ==
    /\ (\E f \in Files : disk.info[f].size > 0 /\ f \notin present) => disk.pruned
    /\ "batch" \notin world.faults => disk.index[disk.coins].tx
    /\ "write" \notin world.faults => \A b \in Blocks :
        LET e == disk.index[b] IN
        e.data /\ e.file \in present =>
            /\ ReadAt(blk[e.file], e.pos, b)
            /\ blk[e.file][e.pos + 1].sync

\* "Pruning will never delete a block within a defined distance from the
\* active chain's tip": every block whose data a step drops is Keep or more
\* blocks below the tip.
PruneKeepsRecent ==
    [][\A b \in Blocks :
           (Running /\ pc' \notin {"down", "failed"} /\ index[b].data /\ ~index'[b].data)
               => b + Keep <= tip]_vars

\* A node that was killed starts again without a rebuild of its database: the
\* index in the database points to no file that was removed.
RestartLoads == pc # "failed"

===============================================================================
